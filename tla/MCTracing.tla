----------------------------- MODULE MCTracing -----------------------------
(* Two methods, met in the order of their names.                              *)
EXTENDS Tracing, TLC

CONSTANTS m1, m2, s1

TwoMethods == <<m1, m2>>

\* What HookerView asks for; it restores a method that is on.
JustToggle == {-1}
============================================================================
