--------------------------- MODULE LifecycleProofs ---------------------------
(***************************************************************************)
(* Theorems about Lifecycle for every set of processes and any number of   *)
(* signals and faults.                                                     *)
(***************************************************************************)
EXTENDS Lifecycle, TLAPS

-----------------------------------------------------------------------------
(* Type correctness, processes overlapping or not.                          *)

ServerStates == {"none", "starting", "accepting", "failed", "done"}
SrvTables == [Procs -> [Servers -> ServerStates]]
Paths == [exists : BOOLEAN, by : Procs \cup {Nobody}, mode : {"none", "umask", "configured"}]
Bounds == stops \in 0..MaxStops /\ faults \in 0..MaxFaults
ProcTypes == /\ pc \in [Procs -> Steps]
             /\ open \subseteq Procs /\ shuttingDown \subseteq Procs
             /\ port \in [Tcp -> Procs \cup {Nobody}]
             /\ srv \in SrvTables
             /\ inShutdown \in [Procs -> SUBSET Servers]

\* The type invariant with names for its parts.
LEMMA TypeParts == TypeOK <=> ProcTypes /\ path \in Paths /\ Bounds
  BY DEF TypeOK, ProcTypes, Paths, Bounds, SrvTables, ServerStates

\* The same in the next state.
LEMMA TypePartsNext == TypeOK' <=> ProcTypes' /\ path' \in Paths /\ Bounds'
  BY DEF TypeOK, ProcTypes, Paths, Bounds, SrvTables, ServerStates

\* What the operations on the socket file make of it.
LEMMA PathTypes ==
  /\ NoPath \in Paths
  /\ \A p \in Procs : [exists |-> TRUE, by |-> p, mode |-> "umask"] \in Paths
  /\ path \in Paths => [path EXCEPT !.mode = "configured"] \in Paths
  /\ path \in Paths => \A p \in Procs : Orphan(p) \in Paths
<1>1. NoPath \in Paths
  BY DEF NoPath, Paths
<1>2. \A p \in Procs : [exists |-> TRUE, by |-> p, mode |-> "umask"] \in Paths
  BY DEF Paths
<1>3. path \in Paths => [path EXCEPT !.mode = "configured"] \in Paths
  BY DEF Paths
<1>4. path \in Paths => \A p \in Procs : Orphan(p) \in Paths
  BY DEF Paths, Orphan
<1> QED
  BY <1>1, <1>2, <1>3, <1>4

\* A step of one server of one process keeps the type of srv.
LEMMA SrvStep ==
  ASSUME srv \in SrvTables, NEW p \in Procs, NEW s \in Servers, NEW v \in ServerStates,
         srv' = [srv EXCEPT ![p][s] = v]
  PROVE  srv' \in SrvTables
<1>1. [srv[p] EXCEPT ![s] = v] \in [Servers -> ServerStates]
  BY DEF SrvTables
<1>2. srv' = [srv EXCEPT ![p] = [srv[p] EXCEPT ![s] = v]]
  OBVIOUS
<1> QED
  BY <1>1, <1>2 DEF SrvTables

\* So do starting and ending all servers of a process.
LEMMA SrvTypes ==
  ASSUME srv \in SrvTables, NEW p \in Procs
  PROVE  /\ [srv EXCEPT ![p] = [s \in Servers |-> "starting"]] \in SrvTables
         /\ [srv EXCEPT ![p] = NoServers] \in SrvTables
  BY DEF SrvTables, NoServers, ServerStates

\* The end of a process keeps the types.
LEMMA EndType ==
  ASSUME ProcTypes, NEW p \in Procs, End(p)
  PROVE  ProcTypes'
<1>1. srv' \in SrvTables
  BY SrvTypes DEF ProcTypes, End
<1> QED
  BY <1>1 DEF ProcTypes, End, Goto, Steps

\* A process that only goes from one step to the next keeps the types.
LEMMA GotoType ==
  ASSUME ProcTypes, NEW p \in Procs, NEW step \in Steps, Goto(p, step)
  PROVE  pc' \in [Procs -> Steps]
  BY DEF ProcTypes, Goto

\* The bounded counters.
LEMMA BoundTypes ==
  ASSUME Bounds
  PROVE  /\ Fault /\ UNCHANGED stops => Bounds'
         /\ Signal /\ UNCHANGED faults => Bounds'
         /\ UNCHANGED <<stops, faults>> => Bounds'
  BY LifecycleAssumption DEF Bounds, Fault, Signal

\* Every step keeps the types.
LEMMA NextType == TypeOK /\ [Next]_vars => TypeOK'
<1> SUFFICES ASSUME TypeOK, [Next]_vars PROVE TypeOK'
  OBVIOUS
<1>0. ProcTypes /\ path \in Paths /\ Bounds
  BY TypeParts
<1> SUFFICES ProcTypes' /\ path' \in Paths /\ Bounds'
  BY TypePartsNext
<1>1. ASSUME NEW p \in Procs,
             Start(p) \/ Stat(p) \/ Notify(p) \/ Drained(p) \/ Cancel(p)
      PROVE  ProcTypes' /\ path' \in Paths /\ Bounds'
  BY <1>0, <1>1 DEF Start, Stat, Notify, Drained, Cancel, Goto, Steps, ProcTypes, Bounds
<1>2. ASSUME NEW p \in Procs, Remove(p) PROVE ProcTypes' /\ path' \in Paths /\ Bounds'
  <2>1. ProcTypes'
    <3>1. CASE End(p)
      BY <1>0, <3>1, EndType
    <3>2. CASE ~End(p)
      BY <1>0, <1>2, <3>2 DEF Remove, Goto, Steps, ProcTypes
    <3> QED
      BY <3>1, <3>2
  <2>2. path' \in Paths
    BY <1>0, <1>2, PathTypes DEF Remove
  <2>3. Bounds'
    BY <1>0, <1>2, BoundTypes DEF Remove
  <2> QED
    BY <2>1, <2>2, <2>3
<1>3. ASSUME NEW p \in Procs, Bind(p) PROVE ProcTypes' /\ path' \in Paths /\ Bounds'
  <2>1. ProcTypes'
    <3>1. CASE End(p)
      BY <1>0, <3>1, EndType
    <3>2. CASE ~End(p)
      BY <1>0, <1>3, <3>2 DEF Bind, Goto, Steps, ProcTypes
    <3> QED
      BY <3>1, <3>2
  <2>2. path' \in Paths
    BY <1>0, <1>3, PathTypes DEF Bind
  <2>3. Bounds'
    BY <1>0, <1>3, BoundTypes DEF Bind
  <2> QED
    BY <2>1, <2>2, <2>3
<1>4. ASSUME NEW p \in Procs, Chmod(p) PROVE ProcTypes' /\ path' \in Paths /\ Bounds'
  <2>1. ProcTypes'
    <3>1. CASE End(p)
      BY <1>0, <3>1, EndType
    <3>2. CASE ~End(p)
      <4>1. srv' \in SrvTables
        BY <1>0, <1>4, <3>2, SrvTypes DEF Chmod, ProcTypes
      <4> QED
        BY <1>0, <1>4, <3>2, <4>1 DEF Chmod, Goto, Steps, ProcTypes
    <3> QED
      BY <3>1, <3>2
  <2>2. path' \in Paths
    BY <1>0, <1>4, PathTypes DEF Chmod
  <2>3. Bounds'
    BY <1>0, <1>4, BoundTypes DEF Chmod
  <2> QED
    BY <2>1, <2>2, <2>3
<1>5. ASSUME NEW p \in Procs, Serve(p) \/ ServeFails(p)
      PROVE  ProcTypes' /\ path' \in Paths /\ Bounds'
  <2>1. srv' \in SrvTables
    <3>1. \E v \in ServerStates : srv' = [srv EXCEPT ![p]["check"] = v]
      BY <1>5 DEF Serve, ServeFails, ServerStates
    <3>2. "check" \in Servers
      BY DEF Servers
    <3> QED
      BY <1>0, <3>1, <3>2, SrvStep DEF ProcTypes
  <2>2. path' \in Paths
    BY <1>0, <1>5, PathTypes DEF Serve, ServeFails, CloseCheck
  <2>3. Bounds'
    BY <1>0, <1>5, BoundTypes DEF Serve, ServeFails
  <2> QED
    BY <1>0, <1>5, <2>1, <2>2, <2>3 DEF Serve, ServeFails, CloseCheck, ProcTypes
<1>6. ASSUME NEW p \in Procs, NEW s \in Tcp, ListenAndServe(p, s)
      PROVE  ProcTypes' /\ path' \in Paths /\ Bounds'
  <2>1. srv' \in SrvTables
    <3>1. \E v \in ServerStates : srv' = [srv EXCEPT ![p][s] = v]
      BY <1>6 DEF ListenAndServe, ServerStates
    <3>2. s \in Servers
      BY DEF Servers
    <3> QED
      BY <1>0, <3>1, <3>2, SrvStep DEF ProcTypes
  <2>2. path' \in Paths
    BY <1>0, <1>6 DEF ListenAndServe
  <2>3. Bounds'
    BY <1>0, <1>6, BoundTypes DEF ListenAndServe
  <2> QED
    BY <1>0, <1>6, <2>1, <2>2, <2>3 DEF ListenAndServe, ProcTypes
<1>7. ASSUME NEW p \in Procs, Sigterm(p) PROVE ProcTypes' /\ path' \in Paths /\ Bounds'
  BY <1>0, <1>7, BoundTypes DEF Sigterm, Goto, Steps, ProcTypes
<1>8. ASSUME NEW p \in Procs, Kill(p) PROVE ProcTypes' /\ path' \in Paths /\ Bounds'
  BY <1>0, <1>8, EndType, PathTypes, BoundTypes DEF Kill
<1>9. ASSUME NEW p \in Procs, ShutdownCheck(p)
      PROVE  ProcTypes' /\ path' \in Paths /\ Bounds'
  <2>1. srv' \in SrvTables
    <3>1. srv' = srv \/ \E v \in ServerStates : srv' = [srv EXCEPT ![p]["check"] = v]
      BY <1>9 DEF ShutdownCheck, ServerStates
    <3>2. "check" \in Servers
      BY DEF Servers
    <3> QED
      BY <1>0, <3>1, <3>2, SrvStep DEF ProcTypes
  <2>2. path' \in Paths
    BY <1>0, <1>9, PathTypes DEF ShutdownCheck, CloseCheck
  <2>3. Bounds'
    BY <1>0, <1>9, BoundTypes DEF ShutdownCheck
  <2>4. inShutdown' \in [Procs -> SUBSET Servers]
    BY <1>0, <1>9 DEF ShutdownCheck, ProcTypes, Servers
  <2> QED
    BY <1>0, <1>9, <2>1, <2>2, <2>3, <2>4
       DEF ShutdownCheck, CloseCheck, Goto, Steps, ProcTypes
<1>10. ASSUME NEW p \in Procs, NEW s \in Tcp, ShutdownTcp(p, s)
      PROVE  ProcTypes' /\ path' \in Paths /\ Bounds'
  <2>1. srv' \in SrvTables
    <3>1. srv' = srv \/ \E v \in ServerStates : srv' = [srv EXCEPT ![p][s] = v]
      BY <1>10 DEF ShutdownTcp, ServerStates
    <3>2. s \in Servers
      BY DEF Servers
    <3> QED
      BY <1>0, <3>1, <3>2, SrvStep DEF ProcTypes
  <2>2. path' \in Paths /\ Bounds'
    BY <1>0, <1>10, BoundTypes DEF ShutdownTcp
  <2>3. inShutdown' \in [Procs -> SUBSET Servers]
    BY <1>0, <1>10 DEF ShutdownTcp, ProcTypes, Servers
  <2> QED
    BY <1>0, <1>10, <2>1, <2>2, <2>3 DEF ShutdownTcp, ProcTypes
<1>11. ASSUME NEW p \in Procs, Exit(p) PROVE ProcTypes' /\ path' \in Paths /\ Bounds'
  BY <1>0, <1>11, EndType, BoundTypes DEF Exit
<1>12. CASE UNCHANGED vars
  BY <1>0, <1>12 DEF vars, ProcTypes, Bounds
<1> QED
  BY <1>1, <1>2, <1>3, <1>4, <1>5, <1>6, <1>7, <1>8, <1>9, <1>10, <1>11, <1>12
     DEF Next, Own

\* The initial state is well typed.
LEMMA InitType == Init => TypeOK
<1> SUFFICES ASSUME Init PROVE ProcTypes /\ path \in Paths /\ Bounds
  BY TypeParts
<1>1. path \in Paths
  BY PathTypes DEF Init
<1>2. srv \in SrvTables
  BY DEF Init, SrvTables, NoServers, ServerStates
<1> QED
  BY <1>1, <1>2, LifecycleAssumption DEF Init, ProcTypes, Bounds, Steps

\* The type invariant holds in every reachable state.
THEOREM TypeCorrect == Spec => []TypeOK
  BY InitType, NextType, PTL DEF Spec

-----------------------------------------------------------------------------
(* Readiness.  The supervisor never runs two processes at once.             *)

Alone == \A p, q \in Procs : pc[p] # "off" /\ pc[q] # "off" => p = q

\* How far listen and the shutdown sequence are decides what p's servers, its
\* listener and its readiness flag can be.
Unbound(p)  == pc[p] \in {"off", "stat", "remove", "bind"} =>
                 srv[p] = NoServers /\ inShutdown[p] = {} /\ p \notin open
BoundYet(p) == pc[p] = "chmod" =>
                 srv[p] = NoServers /\ inShutdown[p] = {} /\ p \in open /\ path.by = p
Serving(p)  == pc[p] \in {"notify", "up"} =>
                 inShutdown[p] = {} /\ (Reachable(p) \/ srv[p]["check"] = "failed")
Flagged(p)  == pc[p] \in {"shutdown", "drain", "final", "wait"} => p \in shuttingDown

Local(p) == Unbound(p) /\ BoundYet(p) /\ Serving(p) /\ Flagged(p)

LifeInv == TypeOK /\ Alone /\ \A p \in Procs : Local(p)

\* What a step of p leaves alone.
Frame(p) == \A q \in Procs \ {p} :
              /\ pc'[q] = pc[q] /\ srv'[q] = srv[q] /\ inShutdown'[q] = inShutdown[q]
              /\ q \in open' => q \in open

\* A step of the one process that runs concerns no other process.
LEMMA OneActs ==
  ASSUME LifeInv, TypeOK', NEW p \in Procs, pc[p] # "off", Frame(p), Local(p)'
  PROVE  LifeInv'
<1>1. \A q \in Procs \ {p} : pc[q] = "off" /\ pc'[q] = "off"
  BY DEF LifeInv, Alone, Frame
<1>2. Alone'
  BY <1>1 DEF Alone
<1>3. ASSUME NEW q \in Procs, q # p PROVE Local(q)'
  <2>1. Unbound(q)'
    BY <1>1, <1>3 DEF Frame, LifeInv, Local, Unbound
  <2> QED
    BY <1>1, <1>3, <2>1 DEF Local, BoundYet, Serving, Flagged
<1> QED
  BY <1>2, <1>3 DEF LifeInv

\* A process that has ended is as before its start.
LEMMA EndLocal ==
  ASSUME TypeOK, NEW p \in Procs, End(p)
  PROVE  Frame(p) /\ Local(p)'
<1>1. pc'[p] = "off" /\ srv'[p] = NoServers /\ inShutdown'[p] = {} /\ p \notin open'
  BY DEF TypeOK, End, Goto
<1>2. Frame(p)
  BY DEF TypeOK, End, Goto, Frame
<1>3. Local(p)'
  BY <1>1 DEF Local, Unbound, BoundYet, Serving, Flagged
<1> QED
  BY <1>2, <1>3

\* Where servers may run, and where Shutdown may have been called.
LEMMA ServersRun ==
  ASSUME LifeInv, NEW p \in Procs, NEW s \in Servers, srv[p][s] # "none"
  PROVE  pc[p] \notin {"off", "stat", "remove", "bind", "chmod"}
  BY DEF LifeInv, Local, Unbound, BoundYet, NoServers

\* Every step of a system whose processes never overlap keeps the invariant.
LEMMA LifeNext ==
  ASSUME ~Overlap
  PROVE  LifeInv /\ [Next]_vars => LifeInv'
<1> SUFFICES ASSUME LifeInv, [Next]_vars PROVE LifeInv'
  OBVIOUS
<1>0. TypeOK /\ TypeOK'
  BY NextType DEF LifeInv
<1>1. ASSUME NEW p \in Procs, Start(p) PROVE LifeInv'
  <2>1. \A q \in Procs : pc[q] = "off" /\ pc'[q] = IF q = p THEN "stat" ELSE "off"
    BY <1>0, <1>1 DEF Start, Goto, TypeOK
  <2>2. Alone'
    BY <2>1 DEF Alone
  <2>3. ASSUME NEW q \in Procs PROVE Local(q)'
    BY <1>1, <2>1 DEF Start, LifeInv, Local, Unbound, BoundYet, Serving, Flagged
  <2> QED
    BY <1>0, <2>2, <2>3 DEF LifeInv
<1>2. ASSUME NEW p \in Procs, Stat(p) \/ Notify(p) \/ Drained(p) \/ Cancel(p) PROVE LifeInv'
  <2>1. pc[p] # "off" /\ Frame(p)
    BY <1>0, <1>2 DEF Stat, Notify, Drained, Cancel, Goto, TypeOK, Frame
  <2>2. /\ pc[p] = "stat" => pc'[p] \in {"remove", "bind"}
        /\ pc[p] = "notify" => pc'[p] = "up"
        /\ pc[p] = "drain" => pc'[p] = "final"
        /\ pc[p] = "final" => pc'[p] = "wait"
        /\ pc[p] \in {"stat", "notify", "drain", "final"}
        /\ UNCHANGED <<path, open, srv, inShutdown, shuttingDown>>
    BY <1>0, <1>2 DEF Stat, Notify, Drained, Cancel, Goto, TypeOK
  <2>3. Local(p)'
    BY <2>2 DEF LifeInv, Local, Unbound, BoundYet, Serving, Flagged, Reachable
  <2> QED
    BY <1>0, <2>1, <2>3, OneActs
<1>3. ASSUME NEW p \in Procs, Remove(p) \/ Bind(p) \/ Chmod(p) \/ Kill(p) \/ Exit(p), End(p)
      PROVE  LifeInv'
  BY <1>0, <1>3, EndLocal, OneActs DEF Remove, Bind, Chmod, Kill, Exit
<1>4. ASSUME NEW p \in Procs, Remove(p), ~End(p) PROVE LifeInv'
  <2>1. pc[p] = "remove" /\ pc'[p] = "bind" /\ Frame(p)
        /\ UNCHANGED <<open, srv, inShutdown>>
    BY <1>0, <1>4 DEF Remove, Goto, TypeOK, Frame
  <2>2. Local(p)'
    BY <2>1 DEF LifeInv, Local, Unbound, BoundYet, Serving, Flagged
  <2> QED
    BY <1>0, <2>1, <2>2, OneActs
<1>5. ASSUME NEW p \in Procs, Bind(p), ~End(p) PROVE LifeInv'
  <2>1. pc[p] = "bind" /\ pc'[p] = "chmod" /\ Frame(p) /\ p \in open' /\ path'.by = p
        /\ UNCHANGED <<srv, inShutdown>>
    BY <1>0, <1>5 DEF Bind, Goto, TypeOK, Frame
  <2>2. Local(p)'
    BY <2>1 DEF LifeInv, Local, Unbound, BoundYet, Serving, Flagged
  <2> QED
    BY <1>0, <2>1, <2>2, OneActs
<1>6. ASSUME NEW p \in Procs, Chmod(p), ~End(p) PROVE LifeInv'
  <2>1. pc[p] = "chmod" /\ pc'[p] = "notify" /\ Frame(p)
        /\ UNCHANGED <<open, inShutdown>>
    BY <1>0, <1>6 DEF Chmod, Goto, TypeOK, Frame
  <2>2. path'.by = path.by /\ path'.mode = "configured"
    BY <1>0, <1>6 DEF Chmod, TypeOK
  <2>3. Local(p)'
    BY <2>1, <2>2 DEF LifeInv, Local, Unbound, BoundYet, Serving, Flagged, Reachable
  <2> QED
    BY <1>0, <2>1, <2>3, OneActs
<1>7. ASSUME NEW p \in Procs, Serve(p) \/ ServeFails(p) PROVE LifeInv'
  <2>1. pc[p] \notin {"off", "stat", "remove", "bind", "chmod"}
    <3>1. "check" \in Servers /\ srv[p]["check"] # "none"
      BY <1>7 DEF Serve, ServeFails, Servers
    <3> QED
      BY <3>1, ServersRun
  <2>2. Frame(p) /\ pc' = pc /\ shuttingDown' = shuttingDown /\ inShutdown' = inShutdown
    BY <1>0, <1>7 DEF Serve, ServeFails, CloseCheck, TypeOK, Frame
  <2>3. inShutdown[p] = {} => srv'[p]["check"] = "failed" \/ (path' = path /\ open' = open)
    BY <1>0, <1>7 DEF Serve, ServeFails, TypeOK, Servers
  <2>4. srv[p]["check"] # "failed"
    BY <1>7 DEF Serve, ServeFails
  <2>5. Local(p)'
    BY <2>1, <2>2, <2>3, <2>4
       DEF LifeInv, Local, Unbound, BoundYet, Serving, Flagged, Reachable
  <2> QED
    BY <1>0, <2>1, <2>2, <2>5, OneActs
<1>8. ASSUME NEW p \in Procs, NEW s \in Tcp, ListenAndServe(p, s) PROVE LifeInv'
  <2>1. pc[p] \notin {"off", "stat", "remove", "bind", "chmod"}
    <3>1. s \in Servers /\ srv[p][s] # "none"
      BY <1>8 DEF ListenAndServe, Servers
    <3> QED
      BY <3>1, ServersRun
  <2>2. Frame(p) /\ UNCHANGED <<pc, path, open, inShutdown, shuttingDown>>
    BY <1>0, <1>8 DEF ListenAndServe, TypeOK, Frame
  <2>3. srv'[p]["check"] = srv[p]["check"]
    BY <1>0, <1>8 DEF ListenAndServe, TypeOK, Servers, Tcp
  <2>4. Local(p)'
    BY <2>1, <2>2, <2>3 DEF LifeInv, Local, Unbound, BoundYet, Serving, Flagged, Reachable
  <2> QED
    BY <1>0, <2>1, <2>2, <2>4, OneActs
<1>9. ASSUME NEW p \in Procs, Sigterm(p) PROVE LifeInv'
  <2>1. pc[p] = "up" /\ pc'[p] = "shutdown" /\ Frame(p) /\ p \in shuttingDown'
    BY <1>0, <1>9 DEF Sigterm, Goto, TypeOK, Frame
  <2>2. Local(p)'
    BY <2>1 DEF Local, Unbound, BoundYet, Serving, Flagged
  <2> QED
    BY <1>0, <2>1, <2>2, OneActs
<1>10. ASSUME NEW p \in Procs, ShutdownCheck(p) PROVE LifeInv'
  <2>1. pc[p] = "shutdown" /\ pc'[p] = "drain" /\ Frame(p) /\ shuttingDown' = shuttingDown
    BY <1>0, <1>10 DEF ShutdownCheck, CloseCheck, Goto, TypeOK, Frame
  <2>2. Local(p)'
    BY <2>1 DEF LifeInv, Local, Unbound, BoundYet, Serving, Flagged
  <2> QED
    BY <1>0, <2>1, <2>2, OneActs
<1>11. ASSUME NEW p \in Procs, NEW s \in Tcp, ShutdownTcp(p, s) PROVE LifeInv'
  <2>1. pc[p] \in {"final", "wait"} /\ pc' = pc /\ Frame(p) /\ shuttingDown' = shuttingDown
    BY <1>0, <1>11 DEF ShutdownTcp, TypeOK, Frame
  <2>2. Local(p)'
    BY <2>1 DEF LifeInv, Local, Unbound, BoundYet, Serving, Flagged
  <2> QED
    BY <1>0, <2>1, <2>2, OneActs
<1>12. CASE UNCHANGED vars
  BY <1>12 DEF vars, LifeInv, TypeOK, Alone, Local, Unbound, BoundYet, Serving, Flagged,
               Reachable
<1>13. \A p \in Procs : Kill(p) \/ Exit(p) => End(p)
  BY DEF Kill, Exit
<1> QED
  BY <1>1, <1>2, <1>3, <1>4, <1>5, <1>6, <1>7, <1>8, <1>9, <1>10, <1>11, <1>12, <1>13
     DEF Next, Own

\* Nothing runs initially.
LEMMA LifeInit == Init => LifeInv
<1> SUFFICES ASSUME Init PROVE LifeInv
  OBVIOUS
<1>1. \A p \in Procs : pc[p] = "off" /\ srv[p] = NoServers /\ inShutdown[p] = {} /\ p \notin open
  BY DEF Init
<1>2. \A p \in Procs : Local(p)
  BY <1>1 DEF Local, Unbound, BoundYet, Serving, Flagged
<1> QED
  BY <1>1, <1>2, InitType DEF LifeInv, Alone

\* As long as the supervisor does not run two processes at once, a process
\* that answers /readyz is reached through its socket with the configured mode,
\* or its check server has failed: through every order of listen, the three
\* server goroutines, signals, crashes and the shutdown sequence.
THEOREM ReadyMeansReachableHolds ==
  ASSUME ~Overlap PROVE Spec => []ReadyMeansReachable
<1>1. LifeInv => ReadyMeansReachable
  <2> SUFFICES ASSUME LifeInv, NEW p \in Procs, srv[p]["admin"] = "accepting",
                      p \notin shuttingDown
               PROVE  Reachable(p) \/ srv[p]["check"] = "failed"
    BY DEF ReadyMeansReachable
  <2>1. "admin" \in Servers
    BY DEF Servers, Tcp
  <2>2. pc[p] \notin {"off", "stat", "remove", "bind", "chmod"}
    BY <2>1, ServersRun
  <2>3. pc[p] \in {"notify", "up"}
    BY <2>2 DEF LifeInv, TypeOK, Steps, Local, Flagged
  <2> QED
    BY <2>3 DEF LifeInv, Local, Serving
<1> QED
  BY <1>1, LifeInit, LifeNext, PTL DEF Spec

\* The comment in listen is right under that condition: without an
\* overlap two processes never listen for /check at the same time.
THEOREM OneListenerAlone ==
  ASSUME ~Overlap PROVE Spec => []OneListener
<1>1. LifeInv => OneListener
  BY DEF LifeInv, TypeOK, Alone, Local, Unbound, OneListener
<1> QED
  BY <1>1, LifeInit, LifeNext, PTL DEF Spec
=============================================================================
