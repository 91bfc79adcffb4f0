-------------------------- MODULE MCVisitedTrace --------------------------
(* Small instances of VisitedTrace: one or two labels, rings of one to        *)
(* three elements, labels that last one frame.                                 *)
EXTENDS VisitedTrace, TLC

CONSTANTS g1, g2, A, B

MCValues == [name : Names \cup {NoName}, gone : 0..GoneTime]

Symmetry == Permutations(GameThreads) \cup Permutations(Names)
===========================================================================
