-------------------------- MODULE MCMethodPatch --------------------------
(* One method that returns nothing, one that returns a value.                 *)
EXTENDS MethodPatch

CONSTANTS start, isPro, t1, t2
=========================================================================
