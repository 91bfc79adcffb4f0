----------------------------- MODULE SoMonitor -----------------------------
(***************************************************************************)
(* The So Monitor tab (Tool/SoMonitor.cpp): the UI thread draws a frame    *)
(* from a snapshot of the state taken at its top, starts worker threads    *)
(* that instrument every function of a library with Dobby, and stops the   *)
(* monitor; application threads that reach an instrumented function run    *)
(* onInstrument.                                                           *)
(*                                                                         *)
(* g_hooking is set by the worker once it runs, not by the UI when it      *)
(* starts it, so the UI may start a second worker in between: overlapped   *)
(* remembers that one has begun while another was hooking.  DobbyDestroy   *)
(* may fail, and nobody looks at its result: undestroyed remembers the     *)
(* functions it has left patched.  Neither is read by an action.           *)
(*                                                                         *)
(* g_hookedBase, g_hookedSize and g_hookedModule change together and are   *)
(* hookedModule here.  Of a logged call only its function is kept: no      *)
(* property looks at the offset, which onInstrument computes from whatever *)
(* g_hookedBase is.  The order of the symbol table is left open.           *)
(***************************************************************************)
EXTENDS Integers, Sequences, FiniteSets

CONSTANTS Modules, Functions,
          ModuleOf,           \* the library whose symbol table lists the function
          Workers,            \* threads startMonitoringThread can have running at once
          GameThreads,        \* application threads
          LogCapacity,        \* g_logCapacity
          None

ASSUME MonitorAssumption ==
  /\ ModuleOf \in [Functions -> Modules]
  /\ None \notin Modules \cup Functions
  /\ LogCapacity \in Nat \ {0}

VARIABLES
  monitoring, hooking, hookedModule, hookedSymbols,  \* guarded by g_stateMutex
  instrumented,  \* the functions Dobby has patched
  callLog,       \* guarded by g_callLogMutex
  worker,        \* each worker's progress
  ui,            \* where the frame is, its snapshot, selectedModule, requestStart
  inCall,        \* the function each application thread is in onInstrument for
  overlapped, undestroyed  \* history

state == <<monitoring, hooking, hookedModule, hookedSymbols>>
patches == <<instrumented, undestroyed>>
vars  == <<state, patches, callLog, worker, ui, inCall, overlapped>>

Idle == [at |-> "idle"]

Init ==
  /\ monitoring = FALSE /\ hooking = FALSE
  /\ hookedModule = None /\ hookedSymbols = {}
  /\ instrumented = {}
  /\ callLog = << >>
  /\ worker = [w \in Workers |-> Idle]
  /\ ui = [at |-> "top", snapshot |-> None, selected |-> None, requestStart |-> FALSE]
  /\ inCall = [g \in GameThreads |-> None]
  /\ overlapped = FALSE /\ undestroyed = {}

\* Faulty variant of stopLocked: forgets the symbols and leaves the patches.
stopLockedKeepsHooks ==
  /\ monitoring' = FALSE
  /\ hookedSymbols' = IF monitoring THEN {} ELSE hookedSymbols
  /\ UNCHANGED patches

\* DobbyDestroy of every hooked symbol, if the monitor is on; it may refuse some.
\* The callers set hookedModule.
stopLocked ==
  /\ monitoring' = FALSE
  /\ IF monitoring
     THEN /\ \E refused \in SUBSET hookedSymbols :
               /\ instrumented' = instrumented \ (hookedSymbols \ refused)
               /\ undestroyed' = undestroyed \cup refused
          /\ hookedSymbols' = {}
     ELSE UNCHANGED <<hookedSymbols, patches>>

-----------------------------------------------------------------------------
\* A worker: startMonitoringThread.

\* The std::thread constructor, called by the UI.
Spawn(m) ==
  \E w \in Workers : /\ worker[w] = Idle
                     /\ worker' = [worker EXCEPT ![w] = [at |-> "begin", module |-> m]]

Begin(w) ==
  /\ worker[w].at = "begin"
  /\ stopLocked
  /\ hooking' = TRUE
  /\ hookedModule' = worker[w].module
  /\ worker' = [worker EXCEPT ![w].at = "collect"]
  /\ overlapped' = (overlapped \/ hooking)
  /\ UNCHANGED <<callLog, ui, inCall>>

\* Faulty variant of CollectFailed: leaves hooking set.
CollectFailedStillHooking(w) ==
  /\ worker[w].at = "collect"
  /\ hookedModule' = None
  /\ worker' = [worker EXCEPT ![w] = Idle]
  /\ UNCHANGED <<monitoring, hooking, hookedSymbols, patches, callLog, ui, inCall, overlapped>>

\* collectSymbols cannot read the symbol table, or finds no function.
CollectFailed(w) ==
  /\ worker[w].at = "collect"
  /\ hooking' = FALSE
  /\ hookedModule' = None
  /\ worker' = [worker EXCEPT ![w] = Idle]
  /\ UNCHANGED <<monitoring, hookedSymbols, patches, callLog, ui, inCall, overlapped>>

Collected(w) ==
  LET symbols == {f \in Functions : ModuleOf[f] = worker[w].module}
  IN /\ worker[w].at = "collect" /\ symbols # {}
     /\ worker' = [worker EXCEPT ![w] = [at |-> "hook", module |-> worker[w].module,
                                         todo |-> symbols, hooked |-> {}]]
     /\ UNCHANGED <<state, patches, callLog, ui, inCall, overlapped>>

\* DobbyInstrument patches f ...
Instrumented(w, f) ==
  /\ worker[w].at = "hook" /\ f \in worker[w].todo
  /\ f \notin instrumented
  /\ instrumented' = instrumented \cup {f}
  /\ worker' = [worker EXCEPT ![w].todo = @ \ {f}, ![w].hooked = @ \cup {f}]
  /\ UNCHANGED <<state, undestroyed, callLog, ui, inCall, overlapped>>

\* ... or refuses it, as it does when f is patched already.
Rejected(w, f) ==
  /\ worker[w].at = "hook" /\ f \in worker[w].todo
  /\ worker' = [worker EXCEPT ![w].todo = @ \ {f}]
  /\ UNCHANGED <<state, patches, callLog, ui, inCall, overlapped>>

Finish(w) ==
  /\ worker[w].at = "hook" /\ worker[w].todo = {}
  /\ hooking' = FALSE
  /\ IF worker[w].hooked = {}
     THEN hookedModule' = None /\ UNCHANGED <<hookedSymbols, monitoring>>
     ELSE /\ hookedSymbols' = worker[w].hooked
          /\ monitoring' = TRUE
          /\ UNCHANGED hookedModule
  /\ worker' = [worker EXCEPT ![w] = Idle]
  /\ UNCHANGED <<patches, callLog, ui, inCall, overlapped>>

-----------------------------------------------------------------------------
\* The UI thread: one frame of Draw, with at most one click on each of its parts.

Snapshot ==
  /\ ui.at = "top"
  /\ ui' = [ui EXCEPT !.at = "list", !.snapshot = [monitoring |-> monitoring,
                                     hooking |-> hooking, module |-> hookedModule]]
  /\ UNCHANGED <<state, patches, callLog, worker, inCall, overlapped>>

EndFrame(u) == ui' = [u EXCEPT !.at = "top", !.snapshot = None]

\* "Refresh modules": nothing is selected, so the frame ends there.
Refresh ==
  /\ ui.at = "list"
  /\ IF hooking THEN UNCHANGED <<state, patches>>
     ELSE /\ stopLocked
          /\ hookedModule' = None
          /\ UNCHANGED hooking
  /\ EndFrame([ui EXCEPT !.selected = None, !.requestStart = FALSE])
  /\ UNCHANGED <<callLog, worker, inCall, overlapped>>

\* Nothing selected and no click.
NothingSelected ==
  /\ ui.at = "list" /\ ui.selected = None
  /\ EndFrame(ui)
  /\ UNCHANGED <<state, patches, callLog, worker, inCall, overlapped>>

Monitored(m) == ui.snapshot.monitoring /\ ui.snapshot.module = m

\* A click on a library, or a frame without one, and the automatic start: the
\* request is kept while the snapshot says that a library is being hooked.
Select(m) ==
  LET request == ui.requestStart \/ m # ui.selected
      decide  == request /\ ~ui.snapshot.hooking
  IN /\ ui.at = "list"
     /\ ui' = [ui EXCEPT !.at = "buttons", !.selected = m,
                         !.requestStart = request /\ ~decide]
     /\ IF decide /\ ~Monitored(m) THEN Spawn(m) ELSE UNCHANGED worker
     /\ UNCHANGED <<state, patches, callLog, inCall, overlapped>>

\* Faulty variant of StopMonitor: does not look whether a library is being hooked.
StopWhileHooking ==
  /\ ui.at = "buttons" /\ ~ui.snapshot.hooking /\ Monitored(ui.selected)
  /\ stopLocked
  /\ hookedModule' = None
  /\ EndFrame(ui)
  /\ UNCHANGED <<hooking, callLog, worker, inCall, overlapped>>

\* "Stop monitor".
StopMonitor ==
  /\ ui.at = "buttons" /\ ~ui.snapshot.hooking /\ Monitored(ui.selected)
  /\ IF hooking THEN UNCHANGED <<state, patches>>
     ELSE /\ stopLocked
          /\ hookedModule' = None
          /\ UNCHANGED hooking
  /\ EndFrame(ui)
  /\ UNCHANGED <<callLog, worker, inCall, overlapped>>

\* "Monitor full lib".
MonitorFullLib ==
  /\ ui.at = "buttons" /\ ~ui.snapshot.hooking /\ ~Monitored(ui.selected)
  /\ Spawn(ui.selected)
  /\ EndFrame(ui)
  /\ UNCHANGED <<state, patches, callLog, inCall, overlapped>>

\* "Clear log", or a frame without a click here.
ClearLog ==
  /\ ui.at = "buttons"
  /\ callLog' = << >>
  /\ EndFrame(ui)
  /\ UNCHANGED <<state, patches, worker, inCall, overlapped>>

NoButton ==
  /\ ui.at = "buttons"
  /\ EndFrame(ui)
  /\ UNCHANGED <<state, patches, callLog, worker, inCall, overlapped>>

-----------------------------------------------------------------------------
\* An application thread.  What the hooked function calls while t_inCallback is set
\* is not logged and changes nothing.
Reach(g, f) ==
  /\ inCall[g] = None /\ f \in instrumented
  /\ inCall' = [inCall EXCEPT ![g] = f]
  /\ UNCHANGED <<state, patches, callLog, worker, ui, overlapped>>

\* Faulty variant of Log: makes room one entry too late.
LogOneTooMany(g) ==
  /\ inCall[g] # None
  /\ callLog' = Append(IF Len(callLog) > LogCapacity THEN Tail(callLog) ELSE callLog, inCall[g])
  /\ inCall' = [inCall EXCEPT ![g] = None]
  /\ UNCHANGED <<state, patches, worker, ui, overlapped>>

\* The entry is written under g_callLogMutex.
Log(g) ==
  /\ inCall[g] # None
  /\ callLog' = Append(IF Len(callLog) >= LogCapacity THEN Tail(callLog) ELSE callLog, inCall[g])
  /\ inCall' = [inCall EXCEPT ![g] = None]
  /\ UNCHANGED <<state, patches, worker, ui, overlapped>>

-----------------------------------------------------------------------------
WorkerStep(w) == \/ Begin(w) \/ CollectFailed(w) \/ Collected(w)
                 \/ \E f \in Functions : Instrumented(w, f) \/ Rejected(w, f)
                 \/ Finish(w)

Next == \/ \E w \in Workers : WorkerStep(w)
        \/ Snapshot \/ Refresh \/ NothingSelected
        \/ \E m \in Modules : Select(m)
        \/ StopMonitor \/ MonitorFullLib \/ ClearLog \/ NoButton
        \/ \E g \in GameThreads : \/ \E f \in Functions : Reach(g, f)
                                   \/ Log(g)

\* A worker that was started runs to its end; nothing is assumed of the user.
Fairness == \A w \in Workers : WF_vars(WorkerStep(w))

Spec     == Init /\ [][Next]_vars
FairSpec == Spec /\ Fairness
-----------------------------------------------------------------------------
TypeOK ==
  /\ monitoring \in BOOLEAN /\ hooking \in BOOLEAN
  /\ hookedModule \in Modules \cup {None}
  /\ hookedSymbols \subseteq Functions /\ instrumented \subseteq Functions
  /\ overlapped \in BOOLEAN /\ undestroyed \subseteq Functions
  /\ callLog \in Seq(Functions)
  /\ Len(callLog) <= LogCapacity
  /\ \A w \in Workers : worker[w] # Idle => worker[w].module \in Modules
  /\ ui.at \in {"top", "list", "buttons"}
  /\ ui.selected \in Modules \cup {None} /\ ui.requestStart \in BOOLEAN

\* The library a worker is hooking, once it has begun.
Library(w) == IF worker[w].at \in {"collect", "hook"} THEN worker[w].module ELSE None

\* The functions a worker has hooked and not yet handed over.
InHand(w) == IF worker[w].at = "hook" THEN worker[w].hooked ELSE {}
InHands == UNION {InHand(w) : w \in Workers}

\* A patch is with at most one of a worker, g_hookedSymbols and those Dobby would not
\* remove, so that nobody removes another's; and as long as no worker has begun while
\* another was hooking, every patch is with one of them: none is forgotten.
HooksAccounted ==
  /\ \A v, w \in Workers : v # w => InHand(v) \cap InHand(w) = {}
  /\ InHands \cap hookedSymbols = {}
  /\ undestroyed \cap (InHands \cup hookedSymbols) = {}
  /\ InHands \cup hookedSymbols \cup undestroyed \subseteq instrumented
  /\ ~overlapped => instrumented = InHands \cup hookedSymbols \cup undestroyed

\* The tab leaves "Hooking ... functions" again, however many workers overlap.
HookingEnds == hooking ~> ~hooking

\* "Stop monitor removes the instrumentation" (README.md:49): with no monitor on, none
\* starting and no worker about to run, no function is instrumented but those Dobby
\* has refused to restore.
StoppedIsClean ==
  ~monitoring /\ ~hooking /\ (\A w \in Workers : worker[w] = Idle)
    => instrumented \subseteq undestroyed

\* The tab is a MonitorSession, whatever Dobby answers and whenever the user clicks.
Session == INSTANCE MonitorSession WITH
             Starters <- Workers,
             module   <- hookedModule,
             starting <- [w \in Workers |-> Library(w)],
             inHand   <- [w \in Workers |-> InHand(w)],
             hooks    <- hookedSymbols,
             left     <- instrumented \ (InHands \cup hookedSymbols)
ImplementsMonitorSession == Session!Spec
=============================================================================
