------------------------------- MODULE MCApp -------------------------------
(* Model values for TLC. *)
EXTENDS App, TLC

CONSTANTS j1, j2, home

=============================================================================
