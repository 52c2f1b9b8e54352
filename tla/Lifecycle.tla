----------------------------- MODULE Lifecycle -----------------------------
(***************************************************************************)
(* Start and stop of the service as main.run and main.listen order them,   *)
(* for processes that share one socket path and the two TCP addresses.     *)
(*                                                                         *)
(* External: the file system (one path, a file or none), net.Listen and    *)
(* the unlink-by-name that closing a unix listener does, net/http's        *)
(* Serve/Shutdown, signals, and the supervisor (configs/*.service:         *)
(* Restart=always).  What a request does is RateLimiter's subject.         *)
(***************************************************************************)
EXTENDS Naturals, FiniteSets

CONSTANTS
  Procs,      \* processes of the service
  Nobody,     \* a model value: no process
  Overlap,    \* whether a process may start before the previous one is gone
  MaxStops,   \* bound: signals sent
  MaxFaults   \* bound: failures of the operating system

ASSUME LifecycleAssumption ==
  /\ Nobody \notin Procs /\ Overlap \in BOOLEAN
  /\ MaxStops \in Nat /\ MaxFaults \in Nat

Tcp == {"admin", "metrics"}
Servers == {"check"} \cup Tcp

Steps == {"off", "stat", "remove", "bind", "chmod", "notify", "up",
          "shutdown", "drain", "final", "wait"}

VARIABLES
  pc,           \* process -> where main.run is
  path,         \* the socket file: whether it exists, whose inode, its mode
  open,         \* processes whose /check listener is open
  port,         \* TCP address -> the process listening on it
  srv,          \* process -> server -> state of its http.Server
  inShutdown,   \* process -> servers on which Shutdown was called
  shuttingDown, \* processes whose flag makes /readyz answer 503
  stops, faults \* bounded: signals sent, failures

vars == <<pc, path, open, port, srv, inShutdown, shuttingDown, stops, faults>>

NoPath == [exists |-> FALSE, by |-> Nobody, mode |-> "none"]
NoServers == [s \in Servers |-> "none"]

TypeOK ==
  /\ pc \in [Procs -> Steps]
  /\ path \in [exists : BOOLEAN, by : Procs \cup {Nobody}, mode : {"none", "umask", "configured"}]
  /\ open \subseteq Procs /\ shuttingDown \subseteq Procs
  /\ port \in [Tcp -> Procs \cup {Nobody}]
  /\ srv \in [Procs -> [Servers -> {"none", "starting", "accepting", "failed", "done"}]]
  /\ inShutdown \in [Procs -> SUBSET Servers]
  /\ stops \in 0..MaxStops /\ faults \in 0..MaxFaults

Init == /\ pc = [p \in Procs |-> "off"]
        /\ path = NoPath
        /\ open = {}
        /\ port = [s \in Tcp |-> Nobody]
        /\ srv = [p \in Procs |-> NoServers]
        /\ inShutdown = [p \in Procs |-> {}]
        /\ shuttingDown = {}
        /\ stops = 0 /\ faults = 0

Fault == faults < MaxFaults /\ faults' = faults + 1
Goto(p, step) == pc' = [pc EXCEPT ![p] = step]

\* A process ends: the kernel closes its sockets, nothing unlinks the path.
EndAway(p) == /\ Goto(p, "off")
              /\ open' = open \ {p}
              /\ port' = [s \in Tcp |-> IF port[s] = p THEN Nobody ELSE port[s]]
              /\ srv' = [srv EXCEPT ![p] = [s \in Servers |-> "off"]]
              /\ inShutdown' = [inShutdown EXCEPT ![p] = {}]
              /\ shuttingDown' = shuttingDown \ {p}
End(p) == /\ Goto(p, "off")
          /\ open' = open \ {p}
          /\ port' = [s \in Tcp |-> IF port[s] = p THEN Nobody ELSE port[s]]
          /\ srv' = [srv EXCEPT ![p] = NoServers]
          /\ inShutdown' = [inShutdown EXCEPT ![p] = {}]
          /\ shuttingDown' = shuttingDown \ {p}

Orphan(p) == IF path.by = p THEN [path EXCEPT !.by = Nobody] ELSE path
-----------------------------------------------------------------------------
(* listen, for a unix socket.                                               *)

\* The supervisor starts the service; without Overlap, after the last one ended.
Start(p) ==
  /\ pc[p] = "off"
  /\ Overlap \/ \A q \in Procs : pc[q] = "off"
  /\ Goto(p, "stat")
  /\ UNCHANGED <<path, open, port, srv, inShutdown, shuttingDown, stops, faults>>

StatNever(p) ==
  /\ pc[p] = "stat"
  /\ Goto(p, "bind")
  /\ UNCHANGED <<path, open, port, srv, inShutdown, shuttingDown, stops, faults>>
Stat(p) ==
  /\ pc[p] = "stat"
  /\ Goto(p, IF path.exists THEN "remove" ELSE "bind")
  /\ UNCHANGED <<path, open, port, srv, inShutdown, shuttingDown, stops, faults>>

\* os.Remove takes whatever the path names; an error ends the process.
Remove(p) ==
  /\ pc[p] = "remove"
  /\ \/ /\ path.exists
        /\ path' = NoPath
        /\ Goto(p, "bind")
        /\ UNCHANGED <<open, port, srv, inShutdown, shuttingDown, faults>>
     \/ /\ IF path.exists THEN Fault ELSE UNCHANGED faults
        /\ UNCHANGED path
        /\ End(p)
  /\ UNCHANGED stops

\* net.Listen fails when the path exists.
Bind(p) ==
  /\ pc[p] = "bind"
  /\ \/ /\ ~path.exists
        /\ path' = [exists |-> TRUE, by |-> p, mode |-> "umask"]
        /\ open' = open \cup {p}
        /\ Goto(p, "chmod")
        /\ UNCHANGED <<port, srv, inShutdown, shuttingDown, faults>>
     \/ /\ IF path.exists THEN UNCHANGED faults ELSE Fault
        /\ UNCHANGED path
        /\ End(p)
  /\ UNCHANGED stops

\* os.Chmod by name; on error ln.Close(), which unlinks by name, and the end.
\* The goroutines of the three servers are started after it.
ChmodSkipped(p) ==
  /\ pc[p] = "chmod"
  /\ srv' = [srv EXCEPT ![p] = [s \in Servers |-> "starting"]]
  /\ Goto(p, "notify")
  /\ UNCHANGED <<path, open, port, inShutdown, shuttingDown, faults, stops>>
Chmod(p) ==
  /\ pc[p] = "chmod"
  /\ \/ /\ path.exists
        /\ path' = [path EXCEPT !.mode = "configured"]
        /\ srv' = [srv EXCEPT ![p] = [s \in Servers |-> "starting"]]
        /\ Goto(p, "notify")
        /\ UNCHANGED <<open, port, inShutdown, shuttingDown, faults>>
     \/ /\ IF path.exists THEN Fault ELSE UNCHANGED faults
        /\ path' = NoPath
        /\ End(p)
  /\ UNCHANGED stops

\* From signal.Notify on SIGTERM no longer kills the process.
Notify(p) ==
  /\ pc[p] = "notify"
  /\ Goto(p, "up")
  /\ UNCHANGED <<path, open, port, srv, inShutdown, shuttingDown, stops, faults>>
-----------------------------------------------------------------------------
(* The goroutines that serve.                                               *)

\* Closing the unix listener unlinks the path, whoever bound it last.
CloseCheck(p) == open' = open \ {p} /\ path' = NoPath

\* checkSrv.Serve: after Shutdown it only closes the listener.
Serve(p) ==
  /\ srv[p]["check"] = "starting"
  /\ IF "check" \in inShutdown[p]
       THEN CloseCheck(p) /\ srv' = [srv EXCEPT ![p]["check"] = "done"]
       ELSE UNCHANGED <<open, path>> /\ srv' = [srv EXCEPT ![p]["check"] = "accepting"]
  /\ UNCHANGED <<pc, port, inShutdown, shuttingDown, stops, faults>>

\* Accept fails for good: Serve closes the listener, main only logs it.
ServeFails(p) ==
  /\ srv[p]["check"] = "accepting"
  /\ Fault
  /\ CloseCheck(p)
  /\ srv' = [srv EXCEPT ![p]["check"] = "failed"]
  /\ UNCHANGED <<pc, port, inShutdown, shuttingDown, stops>>

\* ListenAndServe of the admin and the metrics server: an error is only logged.
ListenAndServe(p, s) ==
  /\ srv[p][s] = "starting"
  /\ \/ /\ s \in inShutdown[p]
        /\ srv' = [srv EXCEPT ![p][s] = "done"]
        /\ UNCHANGED <<port, faults>>
     \/ /\ s \notin inShutdown[p] /\ port[s] = Nobody
        /\ port' = [port EXCEPT ![s] = p]
        /\ srv' = [srv EXCEPT ![p][s] = "accepting"]
        /\ UNCHANGED faults
     \/ /\ s \notin inShutdown[p]
        /\ IF port[s] = Nobody THEN Fault ELSE UNCHANGED faults
        /\ srv' = [srv EXCEPT ![p][s] = "failed"]
        /\ UNCHANGED port
  /\ UNCHANGED <<pc, path, open, inShutdown, shuttingDown, stops>>
-----------------------------------------------------------------------------
(* Shutdown.                                                                *)

Signal == stops < MaxStops /\ stops' = stops + 1

\* SIGTERM once it is handled: the readiness flag goes first.
SigtermNoFlag(p) ==
  /\ pc[p] = "up"
  /\ Signal
  /\ Goto(p, "shutdown")
  /\ UNCHANGED <<path, open, port, srv, inShutdown, shuttingDown, faults>>
Sigterm(p) ==
  /\ pc[p] = "up"
  /\ Signal
  /\ shuttingDown' = shuttingDown \cup {p}
  /\ Goto(p, "shutdown")
  /\ UNCHANGED <<path, open, port, srv, inShutdown, faults>>

\* SIGKILL, a crash, or SIGTERM before signal.Notify.
Kill(p) ==
  /\ pc[p] # "off"
  /\ Signal
  /\ path' = Orphan(p)
  /\ End(p)
  /\ UNCHANGED faults

\* checkSrv.Shutdown closes the listener Serve has registered.
ShutdownCheck(p) ==
  /\ pc[p] = "shutdown"
  /\ inShutdown' = [inShutdown EXCEPT ![p] = @ \cup {"check"}]
  /\ IF srv[p]["check"] = "accepting"
       THEN CloseCheck(p) /\ srv' = [srv EXCEPT ![p]["check"] = "done"]
       ELSE UNCHANGED <<open, path, srv>>
  /\ Goto(p, "drain")
  /\ UNCHANGED <<port, shuttingDown, stops, faults>>

\* All requests are answered or 10 seconds have passed.
Drained(p) ==
  /\ pc[p] = "drain"
  /\ Goto(p, "final")
  /\ UNCHANGED <<path, open, port, srv, inShutdown, shuttingDown, stops, faults>>

\* The goroutines that shut the admin and the metrics server down.
ShutdownTcpNever(p, s) == FALSE /\ UNCHANGED vars
ShutdownTcp(p, s) ==
  /\ pc[p] \in {"final", "wait"}
  /\ s \notin inShutdown[p]
  /\ inShutdown' = [inShutdown EXCEPT ![p] = @ \cup {s}]
  /\ IF srv[p][s] = "accepting"
       THEN /\ port' = [port EXCEPT ![s] = Nobody]
            /\ srv' = [srv EXCEPT ![p][s] = "done"]
       ELSE UNCHANGED <<port, srv>>
  /\ UNCHANGED <<pc, path, open, shuttingDown, stops, faults>>

\* The final cleanup returns and rootCtx is cancelled.
Cancel(p) ==
  /\ pc[p] = "final"
  /\ Goto(p, "wait")
  /\ UNCHANGED <<path, open, port, srv, inShutdown, shuttingDown, stops, faults>>

\* wg.Wait returns once every server goroutine has.
Exit(p) ==
  /\ pc[p] = "wait"
  /\ \A s \in Servers : srv[p][s] \in {"failed", "done"}
  /\ End(p)
  /\ UNCHANGED <<path, stops, faults>>
-----------------------------------------------------------------------------
Own(p) == \/ Stat(p) \/ Remove(p) \/ Bind(p) \/ Chmod(p) \/ Notify(p)
          \/ ShutdownCheck(p) \/ Drained(p) \/ Cancel(p) \/ Exit(p)

Next == \E p \in Procs :
          \/ Start(p) \/ Own(p) \/ Serve(p) \/ ServeFails(p)
          \/ Sigterm(p) \/ Kill(p)
          \/ \E s \in Tcp : ListenAndServe(p, s) \/ ShutdownTcp(p, s)

\* Every goroutine that can run does, and the supervisor restarts the service.
Fairness == \A p \in Procs :
              /\ WF_vars(Start(p)) /\ WF_vars(Own(p)) /\ WF_vars(Serve(p))
              /\ \A s \in Tcp : WF_vars(ListenAndServe(p, s)) /\ WF_vars(ShutdownTcp(p, s))

Spec == Init /\ [][Next]_vars
FairSpec == Spec /\ Fairness
-----------------------------------------------------------------------------
\* A connection to the path is accepted by p, and the front end may connect.
Reachable(p) == path.by = p /\ path.mode = "configured" /\ p \in open

\* A /readyz probe that would pass the shuttingDown check now (main.go:132-136)
\* goes to a process whose /check socket the front end reaches with the
\* configured mode, unless that process logged "check server failed": admin
\* listens only after listen has returned, and the flag is stored before the
\* listener is closed.
ReadyMeansReachable ==
  \A p \in Procs :
    srv[p]["admin"] = "accepting" /\ p \notin shuttingDown
      => Reachable(p) \/ srv[p]["check"] = "failed"

\* Whatever a killed process left behind (a socket file nobody listens on, a
\* half-done listen), the restarted service ends up reachable: listen removes
\* the stale path before it binds.  A check server that failed for good is the
\* exception, main.run keeps such a process alive.
EventuallyReachable ==
  []<>(\E p \in Procs : Reachable(p) \/ srv[p]["check"] = "failed")

\* A process told to stop ends, also when SIGTERM comes before the goroutines
\* of its servers have run: wg.Wait is waited for by nobody else.
EventuallyEnds == \A p \in Procs : pc[p] = "shutdown" ~> pc[p] = "off"

\* listen's comment (main.go:276-278): removing the path is "Safe because the
\* previous process is already gone (otherwise bind below would fail ...)", that
\* is, there are never two processes listening for /check.
OneListener == \A p, q \in open : p = q
=============================================================================
