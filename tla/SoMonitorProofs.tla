-------------------------- MODULE SoMonitorProofs --------------------------
(***************************************************************************)
(* Proofs about SoMonitor, for any libraries, functions, workers,          *)
(* application threads and log capacity.                                   *)
(*                                                                         *)
(* ShapeInv gives every record its shape; TypeOK follows from it.          *)
(* HandsInv says that no patch is with two of the workers, g_hookedSymbols *)
(* and those Dobby would not remove.  AloneInv adds what holds until a     *)
(* worker begins while another is hooking: every patch is with one of      *)
(* them, and the one worker finds the shared state as it left it.  That    *)
(* every patch is accounted for and that the tab is a MonitorSession       *)
(* follow from the three.                                                  *)
(***************************************************************************)
EXTENDS SoMonitor, SequenceTheorems, TLAPS

-----------------------------------------------------------------------------
Libraries == Modules \cup {None}

WorkerRecords == {Idle}
  \cup [at : {"begin", "collect"}, module : Modules]
  \cup [at : {"hook"}, module : Modules, todo : SUBSET Functions, hooked : SUBSET Functions]

Snapshots == [monitoring : BOOLEAN, hooking : BOOLEAN, module : Libraries]

ShapeInv ==
  /\ monitoring \in BOOLEAN /\ hooking \in BOOLEAN /\ hookedModule \in Libraries
  /\ hookedSymbols \in SUBSET Functions /\ instrumented \in SUBSET Functions
  /\ overlapped \in BOOLEAN /\ undestroyed \in SUBSET Functions
  /\ callLog \in Seq(Functions) /\ Len(callLog) <= LogCapacity
  /\ worker \in [Workers -> WorkerRecords]
  /\ inCall \in [GameThreads -> Functions \cup {None}]
  /\ ui \in [at : {"top", "list", "buttons"}, snapshot : Snapshots \cup {None},
             selected : Libraries, requestStart : BOOLEAN]
  /\ ui.at = "buttons" => ui.selected \in Modules

\* w is between its first and its last step.
AtWork(w) == worker[w].at \in {"collect", "hook"}

HandsInv ==
  /\ ~monitoring => hookedSymbols = {}
  /\ \A v, w \in Workers : v # w => InHand(v) \cap InHand(w) = {}
  /\ \A w \in Workers : InHand(w) \cap (hookedSymbols \cup undestroyed) = {}
  /\ \A w \in Workers : InHand(w) \subseteq instrumented
  /\ hookedSymbols \cap undestroyed = {}
  /\ hookedSymbols \cup undestroyed \subseteq instrumented
  /\ \A w \in Workers : worker[w].at = "hook" =>
       \A f \in worker[w].todo \cup worker[w].hooked : ModuleOf[f] = worker[w].module

\* Somebody has the patch of f and will remove it, or Dobby would not.
Known(f) == f \in hookedSymbols \cup undestroyed \/ \E w \in Workers : f \in InHand(w)

AloneInv == ~overlapped =>
  /\ \A f \in instrumented : Known(f)
  /\ \A v, w \in Workers : AtWork(v) /\ AtWork(w) => v = w
  /\ \A w \in Workers : AtWork(w) => hooking /\ ~monitoring /\ hookedModule = worker[w].module
  /\ hooking => \E w \in Workers : AtWork(w)
  /\ ~hooking /\ ~monitoring => hookedModule = None

MonitorInv == ShapeInv /\ HandsInv /\ AloneInv

-----------------------------------------------------------------------------
\* Nothing is hooked, logged or selected at first.
LEMMA MonitorStarts == Init => MonitorInv
<1> SUFFICES ASSUME Init PROVE MonitorInv
  OBVIOUS
<1>1. callLog \in Seq(Functions) /\ Len(callLog) <= LogCapacity
  BY MonitorAssumption DEF Init
<1>2. ShapeInv
  BY <1>1
  DEF Init, ShapeInv, Libraries, WorkerRecords, Idle
<1>3. HandsInv /\ AloneInv
  BY DEF Init, HandsInv, AloneInv, InHand, AtWork, Idle
<1> QED BY <1>2, <1>3 DEF MonitorInv

\* What starting a worker does to the workers.
LEMMA SpawnShape ==
  ASSUME ShapeInv, NEW m \in Modules, Spawn(m)
  PROVE  worker' \in [Workers -> WorkerRecords]
<1>1. PICK w \in Workers :
        worker[w] = Idle /\ worker' = [worker EXCEPT ![w] = [at |-> "begin", module |-> m]]
  BY DEF Spawn
<1>2. [at |-> "begin", module |-> m] \in WorkerRecords
  BY DEF WorkerRecords
<1> QED BY <1>1, <1>2 DEF ShapeInv

\* What stopLocked leaves are functions.
LEMMA StopShape ==
  ASSUME ShapeInv, stopLocked
  PROVE  /\ hookedSymbols' \in SUBSET Functions /\ instrumented' \in SUBSET Functions
         /\ undestroyed' \in SUBSET Functions /\ monitoring' = FALSE
BY DEF ShapeInv, stopLocked, patches

\* Every step keeps the shape of the state, overlapping workers or not.
LEMMA ShapeStep == ShapeInv /\ [Next]_vars => ShapeInv'
<1> SUFFICES ASSUME ShapeInv, [Next]_vars PROVE ShapeInv'
  OBVIOUS
<1> USE MonitorAssumption DEF ShapeInv
<1>1. ASSUME UNCHANGED vars PROVE ShapeInv'
  BY <1>1 DEF vars, state, patches
<1>2. ASSUME NEW w \in Workers, Begin(w) PROVE ShapeInv'
  <2>1. worker[w] \in [at : {"begin", "collect"}, module : Modules]
    BY <1>2 DEF Begin, WorkerRecords, Idle
  <2>2. [worker[w] EXCEPT !.at = "collect"] \in WorkerRecords
    BY <2>1 DEF WorkerRecords
  <2> QED BY <1>2, <2>1, <2>2, StopShape DEF Begin, Libraries
<1>3. ASSUME NEW w \in Workers, CollectFailed(w) PROVE ShapeInv'
  BY <1>3 DEF CollectFailed, patches, WorkerRecords, Libraries
<1>4. ASSUME NEW w \in Workers, Collected(w) PROVE ShapeInv'
  <2>1. worker[w] \in [at : {"begin", "collect"}, module : Modules]
    BY <1>4 DEF Collected, WorkerRecords, Idle
  <2> DEFINE symbols == {f \in Functions : ModuleOf[f] = worker[w].module}
  <2>2. [at |-> "hook", module |-> worker[w].module, todo |-> symbols, hooked |-> {}]
          \in WorkerRecords
    BY <2>1 DEF WorkerRecords
  <2> QED BY <1>4, <2>2 DEF Collected, state, patches
<1>5. ASSUME NEW w \in Workers, NEW f \in Functions, Instrumented(w, f) PROVE ShapeInv'
  <2>1. worker[w] \in [at : {"hook"}, module : Modules, todo : SUBSET Functions,
                        hooked : SUBSET Functions]
    BY <1>5 DEF Instrumented, WorkerRecords, Idle
  <2>2. [worker[w] EXCEPT !.todo = @ \ {f}, !.hooked = @ \cup {f}] \in WorkerRecords
    BY <2>1 DEF WorkerRecords
  <2>3. worker' = [worker EXCEPT ![w] = [worker[w] EXCEPT !.todo = @ \ {f}, !.hooked = @ \cup {f}]]
    BY <1>5 DEF Instrumented
  <2>4. worker' \in [Workers -> WorkerRecords]
    BY <2>2, <2>3
  <2> QED BY <1>5, <2>4 DEF Instrumented, state, patches
<1>6. ASSUME NEW w \in Workers, NEW f \in Functions, Rejected(w, f) PROVE ShapeInv'
  <2>1. worker[w] \in [at : {"hook"}, module : Modules, todo : SUBSET Functions,
                        hooked : SUBSET Functions]
    BY <1>6 DEF Rejected, WorkerRecords, Idle
  <2>2. [worker[w] EXCEPT !.todo = @ \ {f}] \in WorkerRecords
    BY <2>1 DEF WorkerRecords
  <2>3. worker' = [worker EXCEPT ![w] = [worker[w] EXCEPT !.todo = @ \ {f}]]
    BY <1>6 DEF Rejected
  <2>4. worker' \in [Workers -> WorkerRecords]
    BY <2>2, <2>3
  <2> QED BY <1>6, <2>4 DEF Rejected, state, patches
<1>7. ASSUME NEW w \in Workers, Finish(w) PROVE ShapeInv'
  <2>1. worker[w] \in [at : {"hook"}, module : Modules, todo : SUBSET Functions,
                        hooked : SUBSET Functions]
    BY <1>7 DEF Finish, WorkerRecords, Idle
  <2>2. worker' \in [Workers -> WorkerRecords]
    BY <1>7 DEF Finish, WorkerRecords
  <2> QED BY <1>7, <2>1, <2>2 DEF Finish, patches, Libraries
<1>8. ASSUME Snapshot PROVE ShapeInv'
  BY <1>8 DEF Snapshot, Snapshots, state, patches
<1>9. ASSUME Refresh PROVE ShapeInv'
  BY <1>9, StopShape DEF Refresh, EndFrame, state, patches, Libraries
<1>10. ASSUME NothingSelected PROVE ShapeInv'
  BY <1>10 DEF NothingSelected, EndFrame, state, patches, Libraries
<1>11. ASSUME StopMonitor PROVE ShapeInv'
  BY <1>11, StopShape DEF StopMonitor, EndFrame, state, patches, Libraries
<1>12. ASSUME NEW m \in Modules, Select(m) PROVE ShapeInv'
  <2>1. worker' \in [Workers -> WorkerRecords]
    BY <1>12, SpawnShape DEF Select
  <2>2. ui' \in [at : {"top", "list", "buttons"}, snapshot : Snapshots \cup {None},
                 selected : Libraries, requestStart : BOOLEAN]
        /\ ui'.selected = m
    BY <1>12 DEF Select, Libraries
  <2> QED BY <1>12, <2>1, <2>2 DEF Select, state, patches
<1>13. ASSUME MonitorFullLib PROVE ShapeInv'
  <2>1. worker' \in [Workers -> WorkerRecords]
    BY <1>13, SpawnShape DEF MonitorFullLib
  <2> QED BY <1>13, <2>1 DEF MonitorFullLib, EndFrame, state, patches
<1>14. ASSUME ClearLog PROVE ShapeInv'
  <2>1. callLog' \in Seq(Functions) /\ Len(callLog') <= LogCapacity
    BY <1>14 DEF ClearLog
  <2>2. ui' \in [at : {"top", "list", "buttons"}, snapshot : Snapshots \cup {None},
                 selected : Libraries, requestStart : BOOLEAN]
        /\ ui'.at = "top"
    BY <1>14 DEF ClearLog, EndFrame
  <2> QED BY <1>14, <2>1, <2>2 DEF ClearLog, state, patches
<1>15. ASSUME NoButton PROVE ShapeInv'
  BY <1>15 DEF NoButton, EndFrame, state, patches
<1>16. ASSUME NEW g \in GameThreads, NEW f \in Functions, Reach(g, f) PROVE ShapeInv'
  BY <1>16 DEF Reach, state, patches
<1>17. ASSUME NEW g \in GameThreads, Log(g) PROVE ShapeInv'
  <2> DEFINE kept == IF Len(callLog) >= LogCapacity THEN Tail(callLog) ELSE callLog
  <2>1. inCall[g] \in Functions
    BY <1>17 DEF Log
  <2>2. kept \in Seq(Functions) /\ Len(kept) < LogCapacity
    <3>1. CASE Len(callLog) >= LogCapacity
      <4>1. callLog # << >>
        BY <3>1
      <4>2. Tail(callLog) \in Seq(Functions) /\ Len(Tail(callLog)) = Len(callLog) - 1
        BY <4>1, HeadTailProperties
      <4> QED BY <3>1, <4>2
    <3>2. CASE ~(Len(callLog) >= LogCapacity)
      BY <3>2
    <3> QED BY <3>1, <3>2
  <2>3. callLog' \in Seq(Functions) /\ Len(callLog') <= LogCapacity
    <3>1. callLog' = Append(kept, inCall[g])
      BY <1>17 DEF Log
    <3>2. /\ Append(kept, inCall[g]) \in Seq(Functions)
          /\ Len(Append(kept, inCall[g])) = Len(kept) + 1
      BY <2>1, <2>2, AppendProperties
    <3> QED BY <2>2, <3>1, <3>2
  <2>4. inCall' \in [GameThreads -> Functions \cup {None}]
    BY <1>17 DEF Log
  <2> QED BY <1>17, <2>3, <2>4 DEF Log, state, patches
<1> QED BY <1>1, <1>2, <1>3, <1>4, <1>5, <1>6, <1>7, <1>8, <1>9, <1>10, <1>11, <1>12, <1>13, <1>14, <1>15, <1>16, <1>17
  DEF Next, WorkerStep

-----------------------------------------------------------------------------
\* The step of w leaves the others as they are.
LEMMA OthersStay ==
  ASSUME ShapeInv, NEW w \in Workers, NEW r, worker' = [worker EXCEPT ![w] = r]
  PROVE  /\ worker'[w] = r
         /\ \A v \in Workers \ {w} : /\ worker'[v] = worker[v] /\ InHand(v)' = InHand(v)
                                     /\ AtWork(v)' <=> AtWork(v)
BY DEF ShapeInv, InHand, AtWork

\* Starting a worker gives it no patch and leaves it before its first step.
LEMMA SpawnStays ==
  ASSUME ShapeInv, NEW m \in Modules, Spawn(m)
  PROVE  \A v \in Workers :
           /\ InHand(v)' = InHand(v) /\ (AtWork(v)' <=> AtWork(v))
           /\ AtWork(v) => worker'[v] = worker[v]
<1>1. PICK w \in Workers :
        worker[w] = Idle /\ worker' = [worker EXCEPT ![w] = [at |-> "begin", module |-> m]]
  BY DEF Spawn
<1>2. worker'[w].at = "begin" /\ worker[w].at = "idle"
  BY <1>1 DEF ShapeInv, Idle
<1>3. InHand(w)' = {} /\ InHand(w) = {} /\ ~AtWork(w) /\ ~AtWork(w)'
  BY <1>2 DEF InHand, AtWork
<1> QED BY <1>1, <1>3, OthersStay

\* What matters of the workers is as it was.
WorkersStay == \A v \in Workers : /\ InHand(v)' = InHand(v) /\ (AtWork(v)' <=> AtWork(v))
                                  /\ AtWork(v) => worker'[v] = worker[v]

LEMMA UnchangedStays == ASSUME UNCHANGED worker PROVE WorkersStay
BY DEF WorkersStay, InHand, AtWork

\* A step that touches neither the patches nor what the workers share.
LEMMA OthersKeep ==
  ASSUME HandsInv, AloneInv, UNCHANGED <<state, patches, overlapped>>, WorkersStay
  PROVE  HandsInv' /\ AloneInv'
<1> USE DEF WorkersStay, state, patches
<1>1. HandsInv'
  BY DEF HandsInv, AtWork
<1>2. AloneInv'
  <2>1. \A f : Known(f)' <=> Known(f)
    BY DEF Known
  <2> QED BY <2>1 DEF AloneInv
<1> QED BY <1>1, <1>2

\* stopLocked empties the list and leaves every other patch with whom it was.
LEMMA StopHands ==
  ASSUME ShapeInv, HandsInv, stopLocked
  PROVE  /\ hookedSymbols' = {} /\ ~monitoring'
         /\ undestroyed \subseteq undestroyed'
         /\ undestroyed' \ undestroyed \subseteq hookedSymbols
         /\ instrumented' \subseteq instrumented
         /\ instrumented' \cap hookedSymbols = undestroyed' \cap hookedSymbols
         /\ instrumented \ hookedSymbols \subseteq instrumented'
<1>1. CASE monitoring
  BY <1>1 DEF stopLocked, HandsInv
<1>2. CASE ~monitoring
  BY <1>2 DEF stopLocked, HandsInv, patches
<1> QED BY <1>1, <1>2

\* So it keeps HandsInv, and every patch that was known is.
LEMMA StopKeeps ==
  ASSUME ShapeInv, HandsInv, stopLocked, WorkersStay
  PROVE  /\ HandsInv'
         /\ \A f \in instrumented' : Known(f) => Known(f)'
<1> USE DEF WorkersStay
<1>1. /\ ~monitoring' => hookedSymbols' = {}
      /\ hookedSymbols' \cap undestroyed' = {}
      /\ hookedSymbols' \cup undestroyed' \subseteq instrumented'
  BY StopHands DEF HandsInv
<1>2. \A v, w \in Workers : v # w => InHand(v)' \cap InHand(w)' = {}
  BY DEF HandsInv
<1>3. \A w \in Workers : InHand(w)' \cap (hookedSymbols' \cup undestroyed') = {}
  BY StopHands DEF HandsInv
<1>4. \A w \in Workers : InHand(w)' \subseteq instrumented'
  BY StopHands DEF HandsInv
<1>5. \A w \in Workers : worker'[w].at = "hook" =>
        \A f \in worker'[w].todo \cup worker'[w].hooked : ModuleOf[f] = worker'[w].module
  BY DEF HandsInv, AtWork
<1>6. HandsInv'
  BY <1>1, <1>2, <1>3, <1>4, <1>5 DEF HandsInv
<1>7. \A f \in instrumented' : Known(f) => Known(f)'
  BY StopHands DEF Known
<1> QED BY <1>6, <1>7

\* "Refresh modules" and "Stop monitor" while nobody is hooking.
LEMMA EndKeeps ==
  ASSUME MonitorInv, ~hooking, stopLocked, hookedModule' = None,
         UNCHANGED <<hooking, worker, overlapped>>
  PROVE  HandsInv' /\ AloneInv'
<1>1. WorkersStay
  BY UnchangedStays
<1>2. HandsInv' /\ \A f \in instrumented' : Known(f) => Known(f)'
  BY <1>1, StopKeeps DEF MonitorInv
<1>3. instrumented' \subseteq instrumented
  BY StopHands DEF MonitorInv
<1>4. AloneInv'
  BY <1>1, <1>2, <1>3 DEF AloneInv, MonitorInv, WorkersStay
<1> QED BY <1>2, <1>4

-----------------------------------------------------------------------------
\* The first step of a worker.
LEMMA BeginKeeps ==
  ASSUME MonitorInv, NEW w \in Workers, Begin(w)
  PROVE  HandsInv' /\ AloneInv'
<1> USE DEF MonitorInv
<1>1. worker[w] \in [at : {"begin"}, module : Modules]
  BY DEF Begin, ShapeInv, WorkerRecords, Idle
<1>2. PICK r : r = [worker[w] EXCEPT !.at = "collect"]
  OBVIOUS
<1>3. worker' = [worker EXCEPT ![w] = r]
  BY <1>2 DEF Begin
<1>4. worker'[w].at = "collect" /\ worker'[w].module = worker[w].module
  <2>1. worker'[w] = r
    BY <1>3, OthersStay
  <2> QED BY <1>1, <1>2, <2>1
<1>5. InHand(w) = {} /\ InHand(w)' = {} /\ ~AtWork(w) /\ AtWork(w)'
  BY <1>1, <1>4 DEF InHand, AtWork
<1>6. \A v \in Workers : InHand(v)' = InHand(v)
  BY <1>3, <1>5, OthersStay
<1>7. HandsInv'
  <2>1. /\ ~monitoring' => hookedSymbols' = {}
        /\ hookedSymbols' \cap undestroyed' = {}
        /\ hookedSymbols' \cup undestroyed' \subseteq instrumented'
    BY StopHands DEF HandsInv, Begin
  <2>2. \A u, v \in Workers : u # v => InHand(u)' \cap InHand(v)' = {}
    BY <1>6 DEF HandsInv
  <2>3. \A v \in Workers : InHand(v)' \cap (hookedSymbols' \cup undestroyed') = {}
    BY <1>6, StopHands DEF HandsInv, Begin
  <2>4. \A v \in Workers : InHand(v)' \subseteq instrumented'
    BY <1>6, StopHands DEF HandsInv, Begin
  <2>5. \A v \in Workers : worker'[v].at = "hook" =>
          \A f \in worker'[v].todo \cup worker'[v].hooked : ModuleOf[f] = worker'[v].module
    BY <1>3, <1>4, OthersStay DEF HandsInv
  <2> QED BY <2>1, <2>2, <2>3, <2>4, <2>5 DEF HandsInv
<1>8. AloneInv'
  <2> SUFFICES ASSUME ~overlapped' PROVE AloneInv'
    BY DEF AloneInv
  <2>1. ~overlapped /\ ~hooking
    BY DEF Begin, ShapeInv
  <2>2. \A v \in Workers : AtWork(v)' <=> v = w
    BY <1>3, <1>5, <2>1, OthersStay DEF AloneInv
  <2>3. \A f \in instrumented' : Known(f)'
    BY <1>6, <2>1, StopHands DEF AloneInv, Known, Begin
  <2>4. hooking' /\ ~monitoring' /\ hookedModule' = worker'[w].module
    BY <1>4, StopHands DEF Begin
  <2> QED BY <2>2, <2>3, <2>4 DEF AloneInv
<1> QED BY <1>7, <1>8

\* The end of a worker that has hooked nothing.
LEMMA FailKeeps ==
  ASSUME MonitorInv, NEW w \in Workers, AtWork(w), InHand(w) = {},
         hooking' = FALSE, hookedModule' = None, worker' = [worker EXCEPT ![w] = Idle],
         UNCHANGED <<monitoring, hookedSymbols, patches, overlapped>>
  PROVE  HandsInv' /\ AloneInv'
<1> USE DEF MonitorInv, patches
<1>1. worker'[w].at = "idle"
  <2>1. worker'[w] = Idle
    BY OthersStay
  <2> QED BY <2>1 DEF Idle
<1>2. InHand(w)' = {} /\ ~AtWork(w)'
  BY <1>1 DEF InHand, AtWork
<1>3. \A v \in Workers : InHand(v)' = InHand(v)
  BY <1>2, OthersStay
<1>4. \A v \in Workers : worker'[v].at = "hook" => worker'[v] = worker[v]
  BY <1>1, OthersStay
<1>5. HandsInv'
  BY <1>3, <1>4 DEF HandsInv
<1>6. AloneInv'
  <2> SUFFICES ASSUME ~overlapped PROVE AloneInv'
    BY DEF AloneInv
  <2>1. \A v \in Workers : ~AtWork(v)'
    BY <1>2, OthersStay DEF AloneInv
  <2>2. \A f \in instrumented' : Known(f)'
    BY <1>3 DEF AloneInv, Known
  <2> QED BY <2>1, <2>2 DEF AloneInv
<1> QED BY <1>5, <1>6

\* A step of a worker within its work.
LEMMA WorkKeeps ==
  ASSUME MonitorInv, NEW w \in Workers, NEW r, NEW more \in SUBSET Functions,
         AtWork(w), worker' = [worker EXCEPT ![w] = r],
         r.at = "hook", r.module = worker[w].module, r.hooked = InHand(w) \cup more,
         \A f \in r.todo \cup r.hooked : ModuleOf[f] = r.module,
         more \cap instrumented = {}, instrumented' = instrumented \cup more,
         UNCHANGED <<state, undestroyed, overlapped>>
  PROVE  HandsInv' /\ AloneInv'
<1> USE DEF MonitorInv, state
<1>1. InHand(w)' = InHand(w) \cup more /\ AtWork(w)'
  BY OthersStay DEF InHand, AtWork
<1>2. \A v \in Workers \ {w} : InHand(v)' = InHand(v)
  BY OthersStay
<1>3. HandsInv'
  <2>1. /\ ~monitoring' => hookedSymbols' = {}
        /\ hookedSymbols' \cap undestroyed' = {}
        /\ hookedSymbols' \cup undestroyed' \subseteq instrumented'
    BY DEF HandsInv
  <2>2. \A u, v \in Workers : u # v => InHand(u)' \cap InHand(v)' = {}
    BY <1>1, <1>2 DEF HandsInv
  <2>3. \A v \in Workers : InHand(v)' \cap (hookedSymbols' \cup undestroyed') = {}
    BY <1>1, <1>2 DEF HandsInv
  <2>4. \A v \in Workers : InHand(v)' \subseteq instrumented'
    BY <1>1, <1>2 DEF HandsInv
  <2>5. \A v \in Workers : worker'[v].at = "hook" =>
          \A f \in worker'[v].todo \cup worker'[v].hooked : ModuleOf[f] = worker'[v].module
    BY OthersStay DEF HandsInv
  <2> QED BY <2>1, <2>2, <2>3, <2>4, <2>5 DEF HandsInv
<1>4. AloneInv'
  <2> SUFFICES ASSUME ~overlapped PROVE AloneInv'
    BY DEF AloneInv
  <2>1. \A v \in Workers : AtWork(v)' <=> AtWork(v)
    BY <1>1, OthersStay
  <2>2. \A f \in instrumented' : Known(f)'
    BY <1>1, <1>2 DEF AloneInv, Known
  <2>3. \A v \in Workers : AtWork(v) => worker'[v].module = worker[v].module
    BY OthersStay
  <2> QED BY <2>1, <2>2, <2>3 DEF AloneInv
<1> QED BY <1>3, <1>4

\* The end of a worker that has hooked some: its functions become the monitor's.
LEMMA ReadyKeeps ==
  ASSUME MonitorInv, NEW w \in Workers, Finish(w), worker[w].hooked # {}
  PROVE  HandsInv' /\ AloneInv'
<1> USE DEF MonitorInv, patches
<1>1. worker'[w].at = "idle" /\ AtWork(w) /\ InHand(w) = worker[w].hooked
  <2>1. worker'[w] = Idle
    BY OthersStay DEF Finish
  <2> QED BY <2>1 DEF Finish, Idle, AtWork, InHand
<1>2. InHand(w)' = {} /\ ~AtWork(w)'
  BY <1>1 DEF InHand, AtWork
<1>3. \A v \in Workers \ {w} : InHand(v)' = InHand(v)
  BY OthersStay DEF Finish
<1>4. hookedSymbols' = InHand(w) /\ monitoring'
  BY <1>1 DEF Finish
<1>5. HandsInv'
  <2>1. \A u, v \in Workers : u # v => InHand(u)' \cap InHand(v)' = {}
    BY <1>2, <1>3 DEF HandsInv
  <2>2. \A v \in Workers : InHand(v)' \cap (hookedSymbols' \cup undestroyed') = {}
    BY <1>2, <1>3, <1>4 DEF HandsInv, Finish
  <2>3. \A v \in Workers : InHand(v)' \subseteq instrumented'
    BY <1>2, <1>3 DEF HandsInv, Finish
  <2>4. hookedSymbols' \cap undestroyed' = {} /\ hookedSymbols' \cup undestroyed' \subseteq instrumented'
    BY <1>4 DEF HandsInv, Finish
  <2>5. \A v \in Workers : worker'[v].at = "hook" =>
          \A f \in worker'[v].todo \cup worker'[v].hooked : ModuleOf[f] = worker'[v].module
    BY <1>1, OthersStay DEF HandsInv, Finish
  <2> QED BY <1>4, <2>1, <2>2, <2>3, <2>4, <2>5 DEF HandsInv
<1>6. AloneInv'
  <2> SUFFICES ASSUME ~overlapped PROVE AloneInv'
    BY DEF AloneInv, Finish
  <2>1. \A v \in Workers : ~AtWork(v)'
    BY <1>1, <1>2, OthersStay DEF AloneInv, Finish
  <2>2. hookedSymbols = {}
    BY <1>1 DEF AloneInv, HandsInv
  <2>3. \A f \in instrumented' : Known(f)'
    BY <1>3, <1>4, <2>2 DEF AloneInv, Known, Finish
  <2> QED BY <1>4, <2>1, <2>3 DEF AloneInv, Finish
<1> QED BY <1>5, <1>6

-----------------------------------------------------------------------------
\* Every step keeps HandsInv and AloneInv, overlapping workers or not.
LEMMA WorkerInvStep == MonitorInv /\ [Next]_vars => HandsInv' /\ AloneInv'
<1> SUFFICES ASSUME MonitorInv, [Next]_vars PROVE HandsInv' /\ AloneInv'
  OBVIOUS
<1> USE DEF MonitorInv
<1>1. ASSUME UNCHANGED <<state, patches, overlapped>>, WorkersStay PROVE HandsInv' /\ AloneInv'
  BY <1>1, OthersKeep
<1>2. ASSUME NEW w \in Workers, Begin(w) PROVE HandsInv' /\ AloneInv'
  BY <1>2, BeginKeeps
<1>3. ASSUME NEW w \in Workers, CollectFailed(w) PROVE HandsInv' /\ AloneInv'
  <2>1. AtWork(w) /\ InHand(w) = {}
    BY <1>3 DEF CollectFailed, AtWork, InHand
  <2> QED BY <1>3, <2>1, FailKeeps DEF CollectFailed
<1>4. ASSUME NEW w \in Workers, Collected(w) PROVE HandsInv' /\ AloneInv'
  <2>1. PICK r : r = [at |-> "hook", module |-> worker[w].module,
                      todo |-> {f \in Functions : ModuleOf[f] = worker[w].module}, hooked |-> {}]
    OBVIOUS
  <2>2. worker' = [worker EXCEPT ![w] = r]
    BY <1>4, <2>1 DEF Collected
  <2>3. AtWork(w) /\ InHand(w) = {}
    BY <1>4 DEF Collected, AtWork, InHand
  <2>4. /\ r.at = "hook" /\ r.module = worker[w].module /\ r.hooked = InHand(w) \cup {}
        /\ \A f \in r.todo \cup r.hooked : ModuleOf[f] = r.module
    BY <2>1, <2>3
  <2> QED BY <1>4, <2>2, <2>3, <2>4, WorkKeeps DEF Collected, patches
<1>5. ASSUME NEW w \in Workers, NEW f \in Functions, Instrumented(w, f) PROVE HandsInv' /\ AloneInv'
  <2>1. worker[w] \in [at : {"hook"}, module : Modules, todo : SUBSET Functions,
                        hooked : SUBSET Functions]
    BY <1>5 DEF Instrumented, ShapeInv, WorkerRecords, Idle
  <2>2. PICK r : r = [worker[w] EXCEPT !.todo = @ \ {f}, !.hooked = @ \cup {f}]
    OBVIOUS
  <2>3. worker' = [worker EXCEPT ![w] = r]
    BY <1>5, <2>2 DEF Instrumented
  <2>4. /\ r.at = "hook" /\ r.module = worker[w].module
        /\ r.todo = worker[w].todo \ {f} /\ r.hooked = worker[w].hooked \cup {f}
    BY <2>1, <2>2
  <2>5. AtWork(w) /\ InHand(w) = worker[w].hooked
    BY <2>1 DEF AtWork, InHand
  <2>6. \A g \in r.todo \cup r.hooked : ModuleOf[g] = r.module
    BY <1>5, <2>1, <2>4 DEF HandsInv, Instrumented
  <2>7. {f} \cap instrumented = {} /\ instrumented' = instrumented \cup {f}
        /\ UNCHANGED <<state, undestroyed, overlapped>>
    BY <1>5 DEF Instrumented
  <2>8. r.hooked = InHand(w) \cup {f} /\ r.module = worker[w].module
    BY <2>1, <2>4, <2>5
  <2>9. {f} \in SUBSET Functions
    OBVIOUS
  <2> QED BY <2>3, <2>4, <2>5, <2>6, <2>7, <2>8, <2>9, WorkKeeps
<1>6. ASSUME NEW w \in Workers, NEW f \in Functions, Rejected(w, f) PROVE HandsInv' /\ AloneInv'
  <2>1. worker[w] \in [at : {"hook"}, module : Modules, todo : SUBSET Functions,
                        hooked : SUBSET Functions]
    BY <1>6 DEF Rejected, ShapeInv, WorkerRecords, Idle
  <2>2. PICK r : r = [worker[w] EXCEPT !.todo = @ \ {f}]
    OBVIOUS
  <2>3. worker' = [worker EXCEPT ![w] = r]
    BY <1>6, <2>2 DEF Rejected
  <2>4. AtWork(w) /\ InHand(w) = worker[w].hooked
    BY <2>1 DEF AtWork, InHand
  <2>5. /\ r.at = "hook" /\ r.module = worker[w].module
        /\ r.todo = worker[w].todo \ {f} /\ r.hooked = InHand(w) \cup {}
    BY <2>1, <2>2, <2>4
  <2>6. \A g \in r.todo \cup r.hooked : ModuleOf[g] = r.module
    BY <2>1, <2>4, <2>5 DEF HandsInv
  <2>7. {} \cap instrumented = {} /\ instrumented' = instrumented \cup {}
        /\ UNCHANGED <<state, undestroyed, overlapped>>
    BY <1>6 DEF Rejected, patches
  <2> QED BY <2>3, <2>4, <2>5, <2>6, <2>7, WorkKeeps
<1>7. ASSUME NEW w \in Workers, Finish(w) PROVE HandsInv' /\ AloneInv'
  <2>1. CASE worker[w].hooked = {}
    <3>1. AtWork(w) /\ InHand(w) = {}
      BY <1>7, <2>1 DEF Finish, AtWork, InHand
    <3> QED BY <1>7, <2>1, <3>1, FailKeeps DEF Finish
  <2>2. CASE worker[w].hooked # {}
    BY <1>7, <2>2, ReadyKeeps
  <2> QED BY <2>1, <2>2
<1>8. ASSUME Refresh PROVE HandsInv' /\ AloneInv'
  <2>1. CASE hooking
    BY <1>1, <1>8, <2>1, UnchangedStays DEF Refresh
  <2>2. CASE ~hooking
    BY <1>8, <2>2, EndKeeps DEF Refresh
  <2> QED BY <2>1, <2>2
<1>9. ASSUME StopMonitor PROVE HandsInv' /\ AloneInv'
  <2>1. CASE hooking
    BY <1>1, <1>9, <2>1, UnchangedStays DEF StopMonitor
  <2>2. CASE ~hooking
    BY <1>9, <2>2, EndKeeps DEF StopMonitor
  <2> QED BY <2>1, <2>2
<1>10. ASSUME NEW m \in Modules, Select(m) PROVE HandsInv' /\ AloneInv'
  <2>1. WorkersStay
    BY <1>10, SpawnStays, UnchangedStays DEF Select, WorkersStay
  <2> QED BY <1>1, <1>10, <2>1 DEF Select
<1>11. ASSUME MonitorFullLib PROVE HandsInv' /\ AloneInv'
  <2>1. ui.selected \in Modules
    BY <1>11 DEF MonitorFullLib, ShapeInv
  <2>2. WorkersStay
    BY <1>11, <2>1, SpawnStays DEF MonitorFullLib, WorkersStay
  <2> QED BY <1>1, <1>11, <2>2 DEF MonitorFullLib
<1>12. ASSUME \/ UNCHANGED vars \/ Snapshot \/ NothingSelected \/ ClearLog \/ NoButton
              \/ \E g \in GameThreads : (\E f \in Functions : Reach(g, f)) \/ Log(g)
       PROVE  HandsInv' /\ AloneInv'
  <2>1. UNCHANGED <<state, patches, worker, overlapped>>
    BY <1>12 DEF vars, Snapshot, NothingSelected, ClearLog, NoButton, Reach, Log
  <2> QED BY <1>1, <2>1, UnchangedStays
<1> QED BY <1>2, <1>3, <1>4, <1>5, <1>6, <1>7, <1>8, <1>9, <1>10, <1>11, <1>12
  DEF Next, WorkerStep

LEMMA MonitorInvAlways == Spec => []MonitorInv
<1>1. Init => MonitorInv
  BY MonitorStarts
<1>2. MonitorInv /\ [Next]_vars => MonitorInv'
  BY ShapeStep, WorkerInvStep DEF MonitorInv
<1> QED BY <1>1, <1>2, PTL DEF Spec

-----------------------------------------------------------------------------
\* Every variable keeps its type and the log its capacity (Tool/SoMonitor.cpp:677),
\* however many application threads log and whatever workers overlap.
THEOREM MonitorTyping == Spec => []TypeOK
<1>1. MonitorInv => TypeOK
  <2> SUFFICES ASSUME ShapeInv PROVE TypeOK
    BY DEF MonitorInv
  <2>1. \A w \in Workers : worker[w] # Idle => worker[w].module \in Modules
    BY DEF ShapeInv, WorkerRecords
  <2> QED BY <2>1 DEF ShapeInv, TypeOK, Libraries
<1> QED BY <1>1, MonitorInvAlways, PTL

\* A function Dobby has patched is with one of the workers, g_hookedSymbols and
\* those it would not restore, never with two (Tool/SoMonitor.cpp:686-760), and until
\* a worker begins while another is hooking every one is: no patch is forgotten.
THEOREM HooksAlwaysAccounted == Spec => []HooksAccounted
<1>1. MonitorInv => HooksAccounted
  <2> SUFFICES ASSUME MonitorInv PROVE HooksAccounted
    OBVIOUS
  <2>1. \A v, w \in Workers : v # w => InHand(v) \cap InHand(w) = {}
    BY DEF MonitorInv, HandsInv
  <2>2. InHands \cap hookedSymbols = {} /\ undestroyed \cap (InHands \cup hookedSymbols) = {}
    BY DEF MonitorInv, HandsInv, InHands
  <2>3. InHands \cup hookedSymbols \cup undestroyed \subseteq instrumented
    BY DEF MonitorInv, HandsInv, InHands
  <2>4. ~overlapped => instrumented = InHands \cup hookedSymbols \cup undestroyed
    <3>1. ~overlapped => \A f \in instrumented : f \in InHands \cup hookedSymbols \cup undestroyed
      BY DEF MonitorInv, AloneInv, Known, InHands
    <3> QED BY <2>3, <3>1
  <2> QED BY <2>1, <2>2, <2>3, <2>4 DEF HooksAccounted
<1> QED BY <1>1, MonitorInvAlways, PTL

-----------------------------------------------------------------------------
\* The mapping: what is hooked by whom, and what nobody will remove.
Starting == [w \in Workers |-> Library(w)]
Hands    == [w \in Workers |-> InHand(w)]
Left     == instrumented \ (InHands \cup hookedSymbols)

\* A worker at work hooks a library.
LEMMA LibraryOf ==
  ASSUME ShapeInv, NEW w \in Workers
  PROVE  /\ AtWork(w) => Library(w) = worker[w].module /\ Library(w) \in Modules
         /\ ~AtWork(w) => Library(w) = None
         /\ AtWork(w) <=> Library(w) # None
<1>1. AtWork(w) => worker[w].module \in Modules
  BY DEF ShapeInv, WorkerRecords, AtWork, Idle
<1> QED BY <1>1, MonitorAssumption DEF Library, AtWork

\* The step of one worker changes its library and its functions only.
LEMMA MapsOne ==
  ASSUME ShapeInv, NEW w \in Workers, NEW r, worker' = [worker EXCEPT ![w] = r]
  PROVE  /\ Starting' = [Starting EXCEPT ![w] = Library(w)']
         /\ Hands' = [Hands EXCEPT ![w] = InHand(w)']
<1>1. \A v \in Workers \ {w} : Library(v)' = Library(v) /\ InHand(v)' = InHand(v)
  <2>1. \A v \in Workers \ {w} : worker'[v] = worker[v] /\ InHand(v)' = InHand(v)
    BY OthersStay
  <2> QED BY <2>1 DEF Library
<1> QED BY <1>1 DEF Starting, Hands

\* What no step of a worker concerns is mapped to itself.
LEMMA MapsSame ==
  ASSUME ShapeInv, WorkersStay
  PROVE  Starting' = Starting /\ Hands' = Hands /\ InHands' = InHands
<1>1. \A v \in Workers : Library(v)' = Library(v)
  BY DEF WorkersStay, Library, AtWork
<1>2. \A v \in Workers : InHand(v)' = InHand(v)
  BY DEF WorkersStay
<1> QED BY <1>1, <1>2 DEF Starting, Hands, InHands

\* stopLocked removes the monitor's functions but those refused.
LEMMA MapsRemove ==
  ASSUME ShapeInv, HandsInv, stopLocked, InHands' = InHands
  PROVE  /\ hookedSymbols' = {}
         /\ \E refused \in SUBSET hookedSymbols : Left' = Left \cup refused
<1>1. CASE monitoring
  <2>1. PICK refused \in SUBSET hookedSymbols :
          instrumented' = instrumented \ (hookedSymbols \ refused)
    BY <1>1 DEF stopLocked
  <2>2. hookedSymbols' = {}
    BY StopHands
  <2>3. hookedSymbols \cap InHands = {} /\ hookedSymbols \subseteq instrumented
    BY DEF HandsInv, InHands
  <2>4. Left' = Left \cup refused
    BY <2>1, <2>2, <2>3 DEF Left
  <2> QED BY <2>2, <2>4
<1>2. CASE ~monitoring
  <2>1. instrumented' = instrumented /\ hookedSymbols = {} /\ hookedSymbols' = {}
    BY <1>2 DEF stopLocked, patches, HandsInv
  <2>2. Left' = Left \cup {}
    BY <2>1 DEF Left
  <2> QED BY <2>1, <2>2
<1> QED BY <1>1, <1>2

\* The tab is a MonitorSession (README.md:49, Tool/SoMonitor.cpp:690), whatever
\* workers overlap and whatever Dobby refuses: starting a monitor ends the one
\* before, only functions of a worker's own library are patched, and the patches
\* nobody will remove are those Dobby refused to and, once a worker has begun while
\* another was hooking, those of the monitor a later one has replaced.
THEOREM MonitorIsASession == Spec => ImplementsMonitorSession
<1>1. Init => Session!Init
  <2> SUFFICES ASSUME Init PROVE Session!Init
    OBVIOUS
  <2>1. \A w \in Workers : Library(w) = None /\ InHand(w) = {}
    BY DEF Init, Library, InHand, Idle
  <2>2. InHands = {}
    BY <2>1 DEF InHands
  <2> QED BY <2>1, <2>2 DEF Init, Session!Init
<1>2. MonitorInv /\ [Next]_vars => [Session!Next]_(Session!vars)
  <2> SUFFICES ASSUME MonitorInv, [Next]_vars
               PROVE  Session!Next \/ UNCHANGED Session!vars
    OBVIOUS
  <2> USE DEF MonitorInv
  <2>1. ASSUME UNCHANGED <<state, patches, overlapped>>, WorkersStay PROVE UNCHANGED Session!vars
    BY <2>1, MapsSame DEF Session!vars, state, patches, Starting, Hands
  <2>2. ASSUME NEW w \in Workers, Begin(w) PROVE Session!Next
    <3>1. worker[w] \in [at : {"begin"}, module : Modules]
      BY <2>2 DEF Begin, ShapeInv, WorkerRecords, Idle
    <3>2. PICK r : r = [worker[w] EXCEPT !.at = "collect"]
      OBVIOUS
    <3>3. worker' = [worker EXCEPT ![w] = r]
      BY <2>2, <3>2 DEF Begin
    <3>4. worker'[w] = r
      BY <3>3, OthersStay
    <3>5. worker'[w].at = "collect" /\ worker'[w].module = worker[w].module
      BY <3>1, <3>2, <3>4
    <3>6. ~AtWork(w) /\ InHand(w) = {} /\ InHand(w)' = {} /\ Library(w) = None
          /\ Library(w)' = worker[w].module
      BY <3>1, <3>5 DEF AtWork, InHand, Library
    <3>7. Starting' = [Starting EXCEPT ![w] = worker[w].module] /\ Hands' = Hands
      BY <3>3, <3>6, MapsOne DEF Hands
    <3>8. InHands' = InHands
      <4>1. \A v \in Workers : InHand(v)' = InHand(v)
        BY <3>3, <3>6, OthersStay
      <4> QED BY <4>1 DEF InHands
    <3>9. hookedSymbols' = {} /\ \E refused \in SUBSET hookedSymbols : Left' = Left \cup refused
      BY <2>2, <3>8, MapsRemove DEF Begin
    <3>10. overlapped' <=> overlapped \/ \E v \in Workers : Starting[v] # None
      <4>1. \A v \in Workers : Starting[v] # None <=> AtWork(v)
        BY LibraryOf DEF Starting
      <4>2. ~overlapped => (hooking <=> \E v \in Workers : AtWork(v))
        BY DEF AloneInv
      <4> QED BY <2>2, <4>1, <4>2 DEF Begin
    <3>11. overlapped' = (overlapped \/ \E v \in Workers : Starting[v] # None)
      <4>1. overlapped' \in BOOLEAN
        BY <2>2, ShapeStep DEF ShapeInv, Next, WorkerStep
      <4> QED BY <3>10, <4>1
    <3>12. Starting[w] = None /\ hookedModule' = worker[w].module
      BY <2>2, <3>6 DEF Starting, Begin
    <3>13. Session!Remove
      BY <3>9 DEF Session!Remove, Left
    <3>14. Session!Begin(w, worker[w].module)
      BY <3>7, <3>11, <3>12, <3>13 DEF Session!Begin, Starting, Hands
    <3> QED BY <3>1, <3>14 DEF Session!Next
  <2>3. ASSUME NEW w \in Workers, AtWork(w), InHand(w) = {}, CollectFailed(w) \/ Finish(w)
        PROVE  Session!Next
    <3>1. /\ worker' = [worker EXCEPT ![w] = Idle] /\ hookedModule' = None
          /\ UNCHANGED <<hookedSymbols, patches, overlapped>>
      <4>1. Finish(w) => worker[w].hooked = {}
        BY <2>3 DEF Finish, InHand
      <4> QED BY <2>3, <4>1 DEF CollectFailed, Finish
    <3>2. worker'[w] = Idle
      BY <3>1, OthersStay
    <3>3. Library(w)' = None /\ InHand(w)' = {}
      BY <3>2 DEF Library, InHand, Idle
    <3>4. Starting' = [Starting EXCEPT ![w] = None] /\ Hands' = Hands
      BY <2>3, <3>1, <3>3, MapsOne DEF Hands
    <3>5. InHands' = InHands
      <4>1. \A v \in Workers : InHand(v)' = InHand(v)
        BY <2>3, <3>1, <3>3, OthersStay
      <4> QED BY <4>1 DEF InHands
    <3>6. Starting[w] # None /\ Hands[w] = {}
      BY <2>3, LibraryOf DEF Starting, Hands
    <3>7. ~overlapped => hookedSymbols = {}
      BY <2>3 DEF AloneInv, HandsInv
    <3>8. Left' = Left
      BY <3>1, <3>5 DEF Left, patches
    <3>9. Session!Fail(w)
      BY <3>1, <3>4, <3>6, <3>7, <3>8 DEF Session!Fail, Starting, Hands, Left
    <3> QED BY <3>9 DEF Session!Next
  <2>4. ASSUME NEW w \in Workers, NEW f \in Functions, Instrumented(w, f) PROVE Session!Next
    <3>1. worker[w] \in [at : {"hook"}, module : Modules, todo : SUBSET Functions,
                          hooked : SUBSET Functions]
      BY <2>4 DEF Instrumented, ShapeInv, WorkerRecords, Idle
    <3>2. PICK r : r = [worker[w] EXCEPT !.todo = @ \ {f}, !.hooked = @ \cup {f}]
      OBVIOUS
    <3>3. worker' = [worker EXCEPT ![w] = r]
      BY <2>4, <3>2 DEF Instrumented
    <3>4. worker'[w] = r
      BY <3>3, OthersStay
    <3>5. /\ worker'[w].at = "hook" /\ worker'[w].module = worker[w].module
          /\ worker'[w].hooked = worker[w].hooked \cup {f}
      BY <3>1, <3>2, <3>4
    <3>6. /\ InHand(w)' = InHand(w) \cup {f}
          /\ Library(w)' = Library(w) /\ Library(w) = worker[w].module
      BY <3>1, <3>5 DEF InHand, Library
    <3>7. Starting' = Starting /\ Hands' = [Hands EXCEPT ![w] = InHand(w) \cup {f}]
      BY <3>3, <3>6, MapsOne DEF Starting
    <3>8. Hands' = [Hands EXCEPT ![w] = @ \cup {f}]
      BY <3>7 DEF Hands
    <3>9. InHands' = InHands \cup {f}
      <4>1. \A v \in Workers \ {w} : InHand(v)' = InHand(v)
        BY <3>3, OthersStay
      <4> QED BY <3>6, <4>1 DEF InHands
    <3>10. f \notin instrumented /\ instrumented' = instrumented \cup {f}
           /\ UNCHANGED <<state, overlapped>>
      BY <2>4 DEF Instrumented
    <3>11. Left' = Left
      BY <3>9, <3>10 DEF Left, state
    <3>12. f \notin Left \cup hookedSymbols /\ \A v \in Workers : f \notin Hands[v]
      BY <3>10 DEF Left, Hands, HandsInv
    <3>13. Starting[w] = ModuleOf[f]
      BY <2>4, <3>1, <3>6 DEF Instrumented, HandsInv, Starting
    <3>14. Session!Hook(w, f)
      BY <3>7, <3>8, <3>10, <3>11, <3>12, <3>13 DEF Session!Hook, Starting, Hands, Left, state
    <3> QED BY <3>14 DEF Session!Next
  <2>5. ASSUME NEW w \in Workers, Finish(w), InHand(w) # {} PROVE Session!Next
    <3>1. AtWork(w) /\ InHand(w) = worker[w].hooked
      BY <2>5 DEF Finish, AtWork, InHand
    <3>2. /\ worker' = [worker EXCEPT ![w] = Idle] /\ hookedSymbols' = InHand(w)
          /\ UNCHANGED <<hookedModule, patches, overlapped>>
      BY <2>5, <3>1 DEF Finish
    <3>3. worker'[w] = Idle
      BY <3>2, OthersStay
    <3>4. Library(w)' = None /\ InHand(w)' = {}
      BY <3>3 DEF Library, InHand, Idle
    <3>5. Starting' = [Starting EXCEPT ![w] = None] /\ Hands' = [Hands EXCEPT ![w] = {}]
      BY <3>2, <3>4, MapsOne
    <3>6. Starting[w] = worker[w].module /\ Starting[w] # None /\ Hands[w] = InHand(w)
      BY <3>1, LibraryOf DEF Starting, Hands
    <3>7. ~overlapped => hookedSymbols = {} /\ hookedModule = Starting[w]
      BY <3>1, <3>6 DEF AloneInv, HandsInv
    <3>8. InHands = InHands' \cup InHand(w) /\ InHands' \cap InHand(w) = {}
      <4>1. \A v \in Workers \ {w} : InHand(v)' = InHand(v) /\ InHand(v) \cap InHand(w) = {}
        BY <3>2, OthersStay DEF HandsInv
      <4>2. \A v \in Workers : InHand(v) \in SUBSET InHands
        BY DEF InHands
      <4> QED BY <3>4, <4>1, <4>2 DEF InHands
    <3>9. hookedSymbols \subseteq instrumented /\ hookedSymbols \cap InHands = {}
      BY DEF HandsInv, InHands
    <3>10. Left' = Left \cup hookedSymbols
      BY <3>2, <3>8, <3>9 DEF Left, patches
    <3>11. Session!Ready(w)
      BY <2>5, <3>2, <3>5, <3>6, <3>7, <3>10 DEF Session!Ready, Starting, Hands, Left
    <3> QED BY <3>11 DEF Session!Next
  <2>6. ASSUME Refresh \/ StopMonitor, ~hooking PROVE Session!Next
    <3>1. stopLocked /\ hookedModule' = None /\ UNCHANGED <<worker, overlapped>>
      BY <2>6 DEF Refresh, StopMonitor
    <3>2. Starting' = Starting /\ Hands' = Hands /\ InHands' = InHands
      BY <3>1, MapsSame, UnchangedStays
    <3>3. Session!Remove
      BY <3>1, <3>2, MapsRemove DEF Session!Remove, Left
    <3>4. ~overlapped => \A w \in Workers : Starting[w] = None
      <4>1. ~overlapped => \A w \in Workers : ~AtWork(w)
        BY <2>6 DEF AloneInv
      <4> QED BY <4>1, LibraryOf DEF Starting
    <3>5. Session!End
      BY <3>1, <3>2, <3>3, <3>4 DEF Session!End, Starting, Hands
    <3> QED BY <3>5 DEF Session!Next
  <2>7. ASSUME Refresh \/ StopMonitor, hooking PROVE UNCHANGED Session!vars
    BY <2>1, <2>7, UnchangedStays DEF Refresh, StopMonitor
  <2>8. ASSUME NEW w \in Workers, Collected(w) \/ \E f \in Functions : Rejected(w, f)
        PROVE  UNCHANGED Session!vars
    <3>1. PICK r : worker' = [worker EXCEPT ![w] = r] /\ r.at = "hook"
                   /\ r.module = worker[w].module /\ r.hooked = InHand(w)
      <4>1. CASE Collected(w)
        <5>1. PICK r : r = [at |-> "hook", module |-> worker[w].module,
                            todo |-> {f \in Functions : ModuleOf[f] = worker[w].module},
                            hooked |-> {}]
          OBVIOUS
        <5>2. worker' = [worker EXCEPT ![w] = r] /\ InHand(w) = {}
          BY <4>1, <5>1 DEF Collected, InHand
        <5>3. r.at = "hook" /\ r.module = worker[w].module /\ r.hooked = InHand(w)
          BY <5>1, <5>2
        <5> QED BY <5>2, <5>3
      <4>2. ASSUME NEW f \in Functions, Rejected(w, f)
            PROVE  \E r : worker' = [worker EXCEPT ![w] = r] /\ r.at = "hook"
                          /\ r.module = worker[w].module /\ r.hooked = InHand(w)
        <5>1. worker[w] \in [at : {"hook"}, module : Modules, todo : SUBSET Functions,
                              hooked : SUBSET Functions]
          BY <4>2 DEF Rejected, ShapeInv, WorkerRecords, Idle
        <5>2. PICK r : r = [worker[w] EXCEPT !.todo = @ \ {f}]
          OBVIOUS
        <5>3. worker' = [worker EXCEPT ![w] = r]
          BY <4>2, <5>2 DEF Rejected
        <5>4. r.at = "hook" /\ r.module = worker[w].module /\ r.hooked = InHand(w)
          BY <5>1, <5>2 DEF InHand
        <5> QED BY <5>3, <5>4
      <4> QED BY <2>8, <4>1, <4>2
    <3>2. worker'[w] = r
      BY <3>1, OthersStay
    <3>3. Library(w)' = worker[w].module /\ Library(w) = worker[w].module /\ InHand(w)' = InHand(w)
      BY <2>8, <3>1, <3>2 DEF Library, InHand, Collected, Rejected
    <3>4. Starting' = Starting /\ Hands' = Hands
      BY <3>1, <3>3, MapsOne DEF Starting, Hands
    <3>5. InHands' = InHands
      <4>1. \A v \in Workers : InHand(v)' = InHand(v)
        BY <3>1, <3>3, OthersStay
      <4> QED BY <4>1 DEF InHands
    <3>6. UNCHANGED <<state, patches, overlapped>>
      BY <2>8 DEF Collected, Rejected
    <3> QED BY <3>4, <3>5, <3>6 DEF Session!vars, state, patches, Starting, Hands
  <2>9. ASSUME MonitorFullLib \/ \E m \in Modules : Select(m) PROVE UNCHANGED Session!vars
    <3>1. MonitorFullLib => ui.selected \in Modules
      BY DEF MonitorFullLib, ShapeInv
    <3>2. WorkersStay
      BY <2>9, <3>1, SpawnStays, UnchangedStays DEF MonitorFullLib, Select, WorkersStay
    <3> QED BY <2>1, <2>9, <3>2 DEF MonitorFullLib, Select
  <2>10. ASSUME \/ UNCHANGED vars \/ Snapshot \/ NothingSelected \/ ClearLog \/ NoButton
                \/ \E g \in GameThreads : (\E f \in Functions : Reach(g, f)) \/ Log(g)
         PROVE  UNCHANGED Session!vars
    <3>1. UNCHANGED <<state, patches, worker, overlapped>>
      BY <2>10 DEF vars, Snapshot, NothingSelected, ClearLog, NoButton, Reach, Log
    <3> QED BY <2>1, <3>1, UnchangedStays
  <2>11. ASSUME NEW w \in Workers, CollectFailed(w) \/ Finish(w) PROVE Session!Next
    <3>1. AtWork(w) /\ (CollectFailed(w) => InHand(w) = {})
      BY <2>11 DEF CollectFailed, Finish, AtWork, InHand
    <3> QED BY <2>3, <2>5, <2>11, <3>1
  <2> QED BY <2>2, <2>4, <2>6, <2>7, <2>8, <2>9, <2>10, <2>11 DEF Next, WorkerStep
<1> QED BY <1>1, <1>2, MonitorInvAlways, PTL DEF Spec, ImplementsMonitorSession, Session!Spec

=============================================================================
