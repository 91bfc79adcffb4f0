-------------------------------- MODULE App --------------------------------
(***************************************************************************)
(* The frame loop with the dumps: buttons are pressed while draw_thread    *)
(* runs (at[d] = "draw"), and its last call is DrawNotifications.          *)
(***************************************************************************)
EXTENDS Startup, DumpJob

vars == <<startupVars, dumpVars>>

AppInit == Init /\ DumpInit

\* The Dumper tab, or the Process tab with this process selected.  Both ask
\* IsDumperReady, which is so since on_init.
PressDump ==
  \E d \in Drawers, t \in Tabs, j \in Jobs : Press(d) /\ StartDump(t, j)

\* The end of draw_thread.
EndFrame == \E d \in Drawers : EndMenu(d) /\ DrawNotifications /\ UNCHANGED <<isDumping, job, file>>

Next ==
  \/ Step /\ UNCHANGED dumpVars
  \/ PressDump
  \/ EndFrame
  \/ \E j \in Jobs : Dump(j) /\ UNCHANGED startupVars

\* Threads that dump run to their end.
Fairness == StartupFairness /\ \A j \in Jobs : WF_dumpVars(Dump(j))

Spec     == AppInit /\ [][Next]_vars
FairSpec == Spec /\ Fairness

-----------------------------------------------------------------------------
TypeOK == StartupTypeOK /\ DumpTypeOK

=============================================================================
