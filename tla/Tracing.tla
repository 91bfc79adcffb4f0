------------------------------ MODULE Tracing ------------------------------
(***************************************************************************)
(* Who calls ToggleHooker: the runtime capture of the Dumper tab           *)
(* (Tool/Tool.cpp:615-760), "Trace all" and its "Restore" in the Classes   *)
(* tab (Tool/ClassesTab.cpp:2140-2238), and the buttons about one method   *)
(* or one class.  A bulk operation is a thread that toggles one method     *)
(* after the other while the others run.                                   *)
(*                                                                         *)
(* A call of ToggleHooker is one step with the outcomes of AtomicHooks,    *)
(* which is what HookRegistry implements of a method not lost to two calls *)
(* at once; what follows such a loss is not modelled here.  Order is the   *)
(* order in which the bulk operations meet the methods.  runtime_dump.c,   *)
(* which a stopping capture writes before it unhooks, and hit counts are   *)
(* not modelled.                                                           *)
(***************************************************************************)
EXTENDS Integers, Sequences, FiniteSets

CONSTANTS Order,         \* methods with a methodPointer, each once
          MaxFunctions,  \* maxFunctions
          Stoppers,      \* stopping threads that can be running at once
          UserToggles    \* the states users ask for method by method, of -1 and 0

Methods == {Order[i] : i \in DOMAIN Order}

ASSUME TracingAssumption ==
  /\ Order \in Seq(Methods)
  /\ \A i, j \in DOMAIN Order : Order[i] = Order[j] => i = j
  /\ MaxFunctions \in Nat \ {0}
  /\ UserToggles \subseteq {-1, 0}

VARIABLES
  mode,            \* as in AtomicHooks
  isStarting, isCapturing, sessionMethods,
  starter,         \* the thread of Start Capture
  stopper,         \* the threads of Stop Capture
  traceState, processing, tracedMethods,
  tracer,          \* the thread of Trace all
  restorer         \* the thread of its Restore

capture == <<isStarting, isCapturing, sessionMethods, starter, stopper>>
tracing == <<traceState, processing, tracedMethods, tracer, restorer>>
vars    == <<mode, capture, tracing>>

Hooks == INSTANCE AtomicHooks WITH Togglers <- {}, call <- << >>

\* Calls that are one step each lose no method.
KnownModes == Hooks!Modes \ {"lost"}

Idle == [at |-> "idle"]

Init ==
  /\ mode = [m \in Methods |-> "off"]
  /\ isStarting = FALSE /\ isCapturing = FALSE /\ sessionMethods = << >>
  /\ starter = Idle /\ stopper = [s \in Stoppers |-> Idle]
  /\ traceState = FALSE /\ processing = FALSE /\ tracedMethods = << >>
  /\ tracer = Idle /\ restorer = Idle

\* ToggleHooker(m, state, silent), answering ok.
Toggle(m, state, silent, ok) ==
  \E o \in Hooks!Outcomes([method |-> m, state |-> state, silent |-> silent]) :
     /\ ok = o[2]
     /\ mode' = [mode EXCEPT ![m] = o[1]]

-----------------------------------------------------------------------------
\* The capture.

\* Faulty variant of StartCapture: the button is there during a capture.
StartCaptureAgain ==
  /\ ~isStarting
  /\ isStarting' = TRUE
  /\ sessionMethods' = << >>
  /\ starter' = [at |-> "hook", next |-> 1, local |-> << >>]
  /\ UNCHANGED <<mode, isCapturing, stopper, tracing>>

\* The button is disabled while isStarting and hidden while isCapturing.
StartCapture ==
  /\ ~isCapturing /\ ~isStarting
  /\ isStarting' = TRUE
  /\ sessionMethods' = << >>
  /\ starter' = [at |-> "hook", next |-> 1, local |-> << >>]
  /\ UNCHANGED <<mode, isCapturing, stopper, tracing>>

\* Faulty variant of HookNext: one method too many.
HookNextBeyondMax ==
  /\ starter.at = "hook" /\ starter.next <= Len(Order)
  /\ Len(starter.local) <= MaxFunctions
  /\ \E ok \in BOOLEAN :
       /\ Toggle(Order[starter.next], 1, TRUE, ok)
       /\ starter' = [starter EXCEPT !.next = @ + 1,
                        !.local = IF ok THEN Append(@, Order[starter.next]) ELSE @]
  /\ UNCHANGED <<isStarting, isCapturing, sessionMethods, stopper, tracing>>

HookNext ==
  /\ starter.at = "hook" /\ starter.next <= Len(Order)
  /\ Len(starter.local) < MaxFunctions
  /\ \E ok \in BOOLEAN :
       /\ Toggle(Order[starter.next], 1, TRUE, ok)
       /\ starter' = [starter EXCEPT !.next = @ + 1,
                        !.local = IF ok THEN Append(@, Order[starter.next]) ELSE @]
  /\ UNCHANGED <<isStarting, isCapturing, sessionMethods, stopper, tracing>>

\* Under hookerMtx.
Publish ==
  /\ starter.at = "hook"
  /\ starter.next > Len(Order) \/ Len(starter.local) >= MaxFunctions
  /\ sessionMethods' = starter.local
  /\ isCapturing' = (starter.local # << >>)
  /\ starter' = [at |-> "finish"]
  /\ UNCHANGED <<mode, isStarting, stopper, tracing>>

\* Faulty variant of Started: the flag is left set.
StartedForgetsFlag ==
  /\ starter.at = "finish"
  /\ starter' = Idle
  /\ UNCHANGED <<mode, isStarting, isCapturing, sessionMethods, stopper, tracing>>

Started ==
  /\ starter.at = "finish"
  /\ isStarting' = FALSE
  /\ starter' = Idle
  /\ UNCHANGED <<mode, isCapturing, sessionMethods, stopper, tracing>>

\* Faulty variant of StopCapture: the methods to unhook are copied too late.
StopCaptureClearsFirst ==
  /\ isCapturing
  /\ sessionMethods' = << >>
  /\ isCapturing' = FALSE
  /\ \E s \in Stoppers : /\ stopper[s] = Idle
                         /\ stopper' = [stopper EXCEPT ![s] = [at |-> "unhook", todo |-> << >>]]
  /\ UNCHANGED <<mode, isStarting, starter, tracing>>

StopCapture ==
  /\ isCapturing
  /\ sessionMethods' = << >>
  /\ isCapturing' = FALSE
  /\ \E s \in Stoppers :
       /\ stopper[s] = Idle
       /\ stopper' = [stopper EXCEPT ![s] = [at |-> "unhook", todo |-> sessionMethods]]
  /\ UNCHANGED <<mode, isStarting, starter, tracing>>

UnhookNext(s) ==
  /\ stopper[s].at = "unhook" /\ stopper[s].todo # << >>
  /\ Toggle(Head(stopper[s].todo), 0, FALSE, TRUE)
  /\ stopper' = [stopper EXCEPT ![s].todo = Tail(@)]
  /\ UNCHANGED <<isStarting, isCapturing, sessionMethods, starter, tracing>>

Stopped(s) ==
  /\ stopper[s].at = "unhook" /\ stopper[s].todo = << >>
  /\ stopper' = [stopper EXCEPT ![s] = Idle]
  /\ UNCHANGED <<mode, isStarting, isCapturing, sessionMethods, starter, tracing>>

-----------------------------------------------------------------------------
\* Trace all and Restore: the button is one, traceState decides which it is, and it is
\* disabled while processing, which the thread sets when it runs.  Trace all is then
\* confirmed in a pop-up that stays enabled; since processing is off when traceState
\* goes off, the pop-up can have been opened whenever traceState is off.  At most one
\* thread of each kind runs at once, which is a bound.

\* Faulty variant of TraceAll: the UI empties the list the thread is to fill.
TraceAllResets ==
  /\ ~traceState /\ tracer = Idle
  /\ traceState' = TRUE
  /\ tracedMethods' = << >>
  /\ tracer' = [at |-> "count", next |-> 1]
  /\ UNCHANGED <<mode, capture, processing, restorer>>

TraceAll ==
  /\ ~traceState /\ tracer = Idle
  /\ traceState' = TRUE
  /\ tracer' = [at |-> "count", next |-> 1]
  /\ UNCHANGED <<mode, capture, processing, tracedMethods, restorer>>

TraceBegin ==
  /\ tracer.at = "count"
  /\ processing' = TRUE
  /\ tracer' = [tracer EXCEPT !.at = "trace"]
  /\ UNCHANGED <<mode, capture, traceState, tracedMethods, restorer>>

TraceNext ==
  /\ tracer.at = "trace" /\ tracer.next <= Len(Order)
  /\ \E ok \in BOOLEAN :
       /\ Toggle(Order[tracer.next], 1, FALSE, ok)
       /\ tracedMethods' = IF ok THEN Append(tracedMethods, Order[tracer.next])
                                 ELSE tracedMethods
  /\ tracer' = [tracer EXCEPT !.next = @ + 1]
  /\ UNCHANGED <<capture, traceState, processing, restorer>>

TraceDone ==
  /\ tracer.at = "trace" /\ tracer.next > Len(Order)
  /\ processing' = FALSE
  /\ tracer' = Idle
  /\ UNCHANGED <<mode, capture, traceState, tracedMethods, restorer>>

RestoreAll ==
  /\ traceState /\ ~processing /\ restorer = Idle
  /\ traceState' = FALSE
  /\ restorer' = [at |-> "begin", next |-> 1]
  /\ UNCHANGED <<mode, capture, processing, tracedMethods, tracer>>

RestoreBegin ==
  /\ restorer.at = "begin"
  /\ processing' = TRUE
  /\ restorer' = [restorer EXCEPT !.at = "restore"]
  /\ UNCHANGED <<mode, capture, traceState, tracedMethods, tracer>>

\* ToggleHooker(method): the state is the default, -1.
RestoreNext ==
  /\ restorer.at = "restore" /\ restorer.next <= Len(tracedMethods)
  /\ \E ok \in BOOLEAN : Toggle(tracedMethods[restorer.next], -1, FALSE, ok)
  /\ restorer' = [restorer EXCEPT !.next = @ + 1]
  /\ UNCHANGED <<capture, traceState, processing, tracedMethods, tracer>>

RestoreDone ==
  /\ restorer.at = "restore" /\ restorer.next > Len(tracedMethods)
  /\ tracedMethods' = << >>
  /\ processing' = FALSE
  /\ restorer' = Idle
  /\ UNCHANGED <<mode, capture, traceState, tracer>>

-----------------------------------------------------------------------------
\* The buttons about one method: Trace/Restore of HookerView, Quick Restore, and
\* Restore of a class, which goes through its methods.
UserToggle(m, state) ==
  /\ \E ok \in BOOLEAN : Toggle(m, state, FALSE, ok)
  /\ UNCHANGED <<capture, tracing>>

-----------------------------------------------------------------------------
StarterStep    == HookNext \/ Publish \/ Started
StopperStep(s) == UnhookNext(s) \/ Stopped(s)

Next == \/ StartCapture \/ StopCapture \/ StarterStep
        \/ \E s \in Stoppers : StopperStep(s)
        \/ TraceAll \/ TraceBegin \/ TraceNext \/ TraceDone
        \/ RestoreAll \/ RestoreBegin \/ RestoreNext \/ RestoreDone
        \/ \E m \in Methods, state \in UserToggles : UserToggle(m, state)

\* A thread that was started runs to its end; the user need not click anything.
Fairness == /\ WF_vars(StarterStep)
            /\ \A s \in Stoppers : WF_vars(StopperStep(s))

Spec     == Init /\ [][Next]_vars
FairSpec == Spec /\ Fairness
-----------------------------------------------------------------------------
TypeOK ==
  /\ mode \in [Methods -> KnownModes]
  /\ isStarting \in BOOLEAN /\ isCapturing \in BOOLEAN
  /\ sessionMethods \in Seq(Methods)
  /\ starter.at \in {"idle", "hook", "finish"}
  /\ \A s \in Stoppers : stopper[s].at \in {"idle", "unhook"}
  /\ traceState \in BOOLEAN /\ processing \in BOOLEAN
  /\ tracedMethods \in Seq(Methods)
  /\ tracer.at \in {"idle", "count", "trace"}
  /\ restorer.at \in {"idle", "begin", "restore"}
  /\ restorer.at = "restore" => restorer.next \in 1..(Len(tracedMethods) + 1)

Elements(s) == {s[i] : i \in DOMAIN s}

\* A method hooked by a capture is known to somebody who will unhook it, the session,
\* the thread starting it or a thread stopping it, however starts, stops, Trace all,
\* Restore and single toggles overlap.
CaptureAccounted ==
  \A m \in Methods : mode[m] = "silent" =>
     \/ m \in Elements(sessionMethods)
     \/ starter.at = "hook" /\ m \in Elements(starter.local)
     \/ \E s \in Stoppers : stopper[s].at = "unhook" /\ m \in Elements(stopper[s].todo)

\* A session has at most maxFunctions methods, none of them twice, and is on exactly
\* while it has methods.
SessionWithinLimit ==
  /\ Len(sessionMethods) <= MaxFunctions
  /\ Cardinality(Elements(sessionMethods)) = Len(sessionMethods)
  /\ isCapturing = (sessionMethods # << >>)

\* A second start never runs into a capture: no thread hooks for a new session while
\* one is on or the start button is enabled.
StartExclusive == starter.at = "hook" => isStarting /\ ~isCapturing

\* "Starting..." goes away, and what a stopped session had hooked is unhooked.
CaptureSettles ==
  /\ isStarting ~> ~isStarting
  /\ \A s \in Stoppers : stopper[s] # Idle ~> stopper[s] = Idle
=============================================================================
