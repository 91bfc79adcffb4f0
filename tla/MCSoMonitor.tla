---------------------------- MODULE MCSoMonitor ----------------------------
(* Two libraries, game with two functions and unity with none.                *)
EXTENDS SoMonitor, TLC

CONSTANTS game, unity, a, b, w1, w2, g1

InLibrary == (a :> game) @@ (b :> game)
=============================================================================
