----------------------------- MODULE MCService -----------------------------
(* Service for TLC: request goroutines are interchangeable, and properties  *)
(* that do not mention the history need not tell apart states that differ   *)
(* in nothing else.                                                         *)
EXTENDS Service, TLC

Symmetry == Permutations(Procs)
View     == vars
=============================================================================
