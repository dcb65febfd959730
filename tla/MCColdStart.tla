---------------------------- MODULE MCColdStart ----------------------------
(* The cold-start scheduler for TLC: callers, loops and names are model    *)
(* values; callers and names are interchangeable.                          *)
EXTENDS ColdStartScheduler, TLC

Symmetry == Permutations(Users) \cup Permutations(Ids)
===========================================================================
