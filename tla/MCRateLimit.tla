---------------------------- MODULE MCRateLimit -----------------------------
(* Finite instances of RateLimit.                                          *)
EXTENDS RateLimit, TLC

Symmetry == Permutations(Calls)
=============================================================================
