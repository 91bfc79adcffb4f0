--------------------------- MODULE MCHookRegistry ---------------------------
(* A small instance of HookRegistry: two toggling threads that may overlap *)
(* on one method, and two game threads that may hit it at once.            *)
EXTENDS HookRegistry

\* The states of ToggleHooker's callers.
AutoOffOn == {-1, 0, 1}

CONSTANTS m1, t1, t2, g1, g2
=============================================================================
