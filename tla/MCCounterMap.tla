---------------------------- MODULE MCCounterMap ----------------------------
(* CounterMap for TLC: goroutines are interchangeable, and so are keys.     *)
EXTENDS CounterMap, TLC

Symmetry == Permutations(Procs) \cup Permutations(Keys)
=============================================================================
