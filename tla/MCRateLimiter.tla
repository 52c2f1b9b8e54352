--------------------------- MODULE MCRateLimiter ---------------------------
(* RateLimiter for TLC: request goroutines are interchangeable.             *)
EXTENDS RateLimiter, TLC

Symmetry == Permutations(Procs)
=============================================================================
