--------------------------- MODULE TracingProofs ---------------------------
(***************************************************************************)
(* Proofs about Tracing, for any number of methods, any maxFunctions, any  *)
(* stopping threads and whatever states users ask for.                     *)
(*                                                                         *)
(* ShapeInv gives every variable its type, BulkInv follows Restore through *)
(* the list that Trace all may be filling again, and SessionInv follows a  *)
(* capture from its button to the list StopCapture hands over.             *)
(***************************************************************************)
EXTENDS Tracing, SequenceTheorems, FiniteSetTheorems, TLAPS

-----------------------------------------------------------------------------
Places == 1..(Len(Order) + 1)

StarterRecords == {Idle} \cup [at : {"finish"}]
                  \cup [at : {"hook"}, next : Places, local : Seq(Methods)]

ShapeInv ==
  /\ mode \in [Methods -> KnownModes]
  /\ isStarting \in BOOLEAN /\ isCapturing \in BOOLEAN
  /\ sessionMethods \in Seq(Methods)
  /\ starter \in StarterRecords
  /\ stopper \in [Stoppers -> {Idle} \cup [at : {"unhook"}, todo : Seq(Methods)]]
  /\ traceState \in BOOLEAN /\ processing \in BOOLEAN
  /\ tracedMethods \in Seq(Methods)
  /\ tracer \in {Idle} \cup [at : {"count", "trace"}, next : Places]
  /\ restorer \in {Idle} \cup [at : {"begin", "restore"}, next : Nat \ {0}]

\* Restore never is beyond the end of the list, whoever appends to it.
BulkInv ==
  /\ restorer.at = "begin" => restorer.next = 1
  /\ restorer.at = "restore" => restorer.next <= Len(tracedMethods) + 1

Distinct(s) == \A i, j \in DOMAIN s : s[i] = s[j] => i = j

\* What the thread of Start Capture has hooked is before next in Order, each once.
LocalInv ==
  starter.at = "hook" =>
    /\ Len(starter.local) <= MaxFunctions /\ Distinct(starter.local)
    /\ \A i \in DOMAIN starter.local :
         \E k \in 1..(starter.next - 1) : starter.local[i] = Order[k]

SessionInv ==
  /\ starter.at # "idle" => isStarting
  /\ starter.at = "hook" => ~isCapturing
  /\ LocalInv
  /\ isCapturing <=> sessionMethods # << >>
  /\ Len(sessionMethods) <= MaxFunctions /\ Distinct(sessionMethods)
  /\ CaptureAccounted

TracingInv == ShapeInv /\ BulkInv /\ SessionInv

-----------------------------------------------------------------------------
\* A call of ToggleHooker about m: only a silent one that succeeds makes m silent,
\* and a call with state 0 leaves it off.
LEMMA ToggleMode ==
  ASSUME ShapeInv, NEW m \in Methods, NEW state \in {-1, 0, 1}, NEW silent \in BOOLEAN,
         NEW ok \in BOOLEAN, Toggle(m, state, silent, ok)
  PROVE  /\ mode' \in [Methods -> KnownModes]
         /\ \A n \in Methods \ {m} : mode'[n] = mode[n]
         /\ mode'[m] = "silent" => silent /\ ok
         /\ state = 0 => mode'[m] = "off"
<1> DEFINE r == [method |-> m, state |-> state, silent |-> silent]
<1>1. PICK o \in Hooks!Outcomes(r) : ok = o[2] /\ mode' = [mode EXCEPT ![m] = o[1]]
  BY DEF Toggle
<1>2. /\ r.method = m /\ r.state = state /\ r.silent = silent
  OBVIOUS
<1> DEFINE turnsOn == state = 1 \/ (state = -1 /\ mode[m] = "off")
<1>3. Hooks!Outcomes(r) = (IF turnsOn /\ mode[m] = "off" THEN {<<"off", FALSE>>} ELSE {})
                          \cup {<<IF turnsOn THEN Hooks!OnMode(r) ELSE "off", TRUE>>}
  <2>1. mode[m] # "lost"
    BY DEF ShapeInv, KnownModes
  <2> QED BY <1>2, <2>1 DEF Hooks!Outcomes
<1>4. Hooks!OnMode(r) \in {"silent", "traced"} /\ (Hooks!OnMode(r) = "silent" => silent)
  BY <1>2 DEF Hooks!OnMode
<1>5. /\ o[1] \in KnownModes
      /\ o[1] = "silent" => silent /\ o[2] = TRUE
      /\ state = 0 => o[1] = "off"
  <2>1. CASE o = <<"off", FALSE>> \/ o = <<"off", TRUE>>
    <3>1. o[1] = "off"
      <4>1. CASE o = <<"off", FALSE>>
        BY <4>1
      <4>2. CASE o = <<"off", TRUE>>
        BY <4>2
      <4> QED BY <2>1, <4>1, <4>2
    <3> QED BY <3>1 DEF KnownModes, Hooks!Modes
  <2>2. CASE turnsOn /\ o = <<Hooks!OnMode(r), TRUE>>
    BY <1>4, <2>2 DEF KnownModes, Hooks!Modes
  <2> QED BY <1>1, <1>3, <2>1, <2>2
<1> HIDE DEF r
<1> QED BY <1>1, <1>5 DEF ShapeInv

\* Appending adds an element, and taking the tail leaves all but the head.
LEMMA ElementsAppend ==
  ASSUME NEW s \in Seq(Methods), NEW m \in Methods
  PROVE  /\ Append(s, m) \in Seq(Methods) /\ Append(s, m) # << >>
         /\ Len(Append(s, m)) = Len(s) + 1
         /\ Elements(Append(s, m)) = Elements(s) \cup {m}
<1> DEFINE t == Append(s, m)
<1>1. /\ t \in Seq(Methods) /\ Len(t) = Len(s) + 1 /\ t # << >>
      /\ \A i \in 1..Len(s) : t[i] = s[i]
      /\ t[Len(s) + 1] = m
  BY AppendProperties
<1>2. DOMAIN t = 1..(Len(s) + 1) /\ DOMAIN s = 1..Len(s) /\ Len(s) \in Nat
  BY <1>1
<1> HIDE DEF t
<1>3. ASSUME NEW x PROVE x \in Elements(t) <=> x \in Elements(s) \cup {m}
  BY <1>1, <1>2 DEF Elements
<1>4. Elements(t) = Elements(s) \cup {m}
  BY <1>3
<1> QED BY <1>1, <1>4 DEF t

LEMMA ElementsTail ==
  ASSUME NEW s \in Seq(Methods), s # << >>
  PROVE  /\ Head(s) \in Methods /\ Tail(s) \in Seq(Methods)
         /\ \A x \in Elements(s) : x = Head(s) \/ x \in Elements(Tail(s))
<1> DEFINE t == Tail(s)
<1>1. /\ t \in Seq(Methods) /\ Len(t) = Len(s) - 1
      /\ \A i \in 1..Len(t) : t[i] = s[i + 1]
      /\ Head(s) \in Methods /\ Head(s) = s[1]
  BY HeadTailProperties
<1>2. DOMAIN t = 1..(Len(s) - 1) /\ DOMAIN s = 1..Len(s) /\ Len(s) \in Nat
  BY <1>1
<1> HIDE DEF t
<1>3. ASSUME NEW i \in DOMAIN s, i # 1 PROVE s[i] \in Elements(t)
  <2>1. i - 1 \in 1..Len(t) /\ (i - 1) + 1 = i
    BY <1>1, <1>2, <1>3
  <2>2. t[i - 1] = s[i]
    BY <1>1, <2>1
  <2> QED BY <1>1, <1>2, <2>1, <2>2 DEF Elements
<1> QED BY <1>1, <1>3 DEF Elements, t

\* A sequence without repetitions has as many elements as places.
LEMMA DistinctCardinality ==
  ASSUME NEW s \in Seq(Methods), Distinct(s)
  PROVE  Cardinality(Elements(s)) = Len(s)
<1>1. Len(s) \in Nat /\ DOMAIN s = 1..Len(s)
  OBVIOUS
<1>2. s \in Bijection(1..Len(s), Elements(s))
  BY <1>1 DEF Distinct, Elements, Bijection, Injection, Surjection, IsInjective
<1>3. IsFiniteSet(1..Len(s)) /\ Cardinality(1..Len(s)) = Len(s)
  BY <1>1, FS_Interval
<1> QED BY <1>2, <1>3, FS_Bijection DEF ExistsBijection

-----------------------------------------------------------------------------
\* At first nothing is hooked and no thread runs.
LEMMA TracingStarts == Init => TracingInv
<1> SUFFICES ASSUME Init PROVE TracingInv
  OBVIOUS
<1>1. ShapeInv
  <2>1. sessionMethods \in Seq(Methods) /\ tracedMethods \in Seq(Methods)
    BY DEF Init
  <2>2. mode \in [Methods -> KnownModes]
    BY DEF Init, KnownModes, Hooks!Modes
  <2>3. /\ starter = Idle /\ tracer = Idle /\ restorer = Idle
        /\ stopper \in [Stoppers -> {Idle}]
        /\ {isStarting, isCapturing, traceState, processing} \subseteq BOOLEAN
    BY DEF Init
  <2> QED BY <2>1, <2>2, <2>3 DEF ShapeInv, StarterRecords
<1>2. BulkInv
  BY DEF Init, BulkInv, Idle
<1>3. SessionInv
  BY TracingAssumption DEF Init, SessionInv, LocalInv, Idle, Distinct, CaptureAccounted
<1> QED BY <1>1, <1>2, <1>3 DEF TracingInv

\* A step that leaves the capture alone and makes no method silent.
LEMMA OthersKeepSession ==
  ASSUME SessionInv, UNCHANGED capture,
         \A m \in Methods : mode'[m] = "silent" => mode[m] = "silent"
  PROVE  SessionInv'
BY DEF SessionInv, LocalInv, CaptureAccounted, Elements, Distinct, capture

\* A call of ToggleHooker that is not silent makes no method silent.
LEMMA NotSilent ==
  ASSUME ShapeInv, NEW m \in Methods, NEW state \in {-1, 0, 1},
         \E ok \in BOOLEAN : Toggle(m, state, FALSE, ok)
  PROVE  /\ mode' \in [Methods -> KnownModes]
         /\ \A n \in Methods : mode'[n] = "silent" => mode[n] = "silent"
<1>1. PICK ok \in BOOLEAN : Toggle(m, state, FALSE, ok)
  OBVIOUS
<1> QED BY <1>1, ToggleMode

\* Order lists methods.
LEMMA OrderedMethods == \A k \in 1..Len(Order) : Order[k] \in Methods
  BY TracingAssumption DEF Methods

-----------------------------------------------------------------------------
\* The steps of the capture.
LEMMA CaptureStep ==
  ASSUME TracingInv, StartCapture \/ StopCapture \/ StarterStep \/ \E s \in Stoppers : StopperStep(s)
  PROVE  TracingInv'
<1> USE DEF TracingInv
<1>0. UNCHANGED tracing => BulkInv'
  BY DEF BulkInv, tracing
<1>1. ASSUME StartCapture PROVE TracingInv'
  <2>1. [at |-> "hook", next |-> 1, local |-> << >>] \in StarterRecords
    <3>1. Len(Order) \in Nat
      BY TracingAssumption
    <3>2. 1 \in Places /\ << >> \in Seq(Methods)
      BY <3>1 DEF Places
    <3> QED BY <3>2 DEF StarterRecords
  <2>2. ShapeInv'
    BY <1>1, <2>1 DEF StartCapture, ShapeInv, tracing
  <2>3. sessionMethods = << >> /\ starter.at # "hook"
    BY <1>1 DEF StartCapture, SessionInv, ShapeInv, StarterRecords, Idle
  <2>4. CaptureAccounted'
    BY <1>1, <2>3 DEF StartCapture, SessionInv, CaptureAccounted, Elements
  <2>5. SessionInv'
    BY <1>1, <2>4, TracingAssumption DEF StartCapture, SessionInv, LocalInv, Distinct
  <2> QED BY <1>0, <1>1, <2>2, <2>5 DEF StartCapture
<1>2. ASSUME HookNext PROVE TracingInv'
  <2> DEFINE m == Order[starter.next]
  <2>1. /\ starter \in [at : {"hook"}, next : Places, local : Seq(Methods)]
        /\ starter.next \in 1..Len(Order) /\ Len(Order) \in Nat
    BY <1>2, TracingAssumption DEF HookNext, ShapeInv, StarterRecords, Idle, Places
  <2>2. m \in Methods
    BY <2>1, OrderedMethods
  <2>3. PICK ok \in BOOLEAN :
          /\ Toggle(m, 1, TRUE, ok)
          /\ starter' = [starter EXCEPT !.next = @ + 1, !.local = IF ok THEN Append(@, m) ELSE @]
    BY <1>2 DEF HookNext
  <2>4. /\ starter'.at = "hook" /\ starter'.next = starter.next + 1
        /\ starter'.local = IF ok THEN Append(starter.local, m) ELSE starter.local
    BY <2>1, <2>3
  <2>5. /\ starter'.local \in Seq(Methods)
        /\ Elements(starter.local) \subseteq Elements(starter'.local)
        /\ ok => m \in Elements(starter'.local)
    BY <2>1, <2>2, <2>4, ElementsAppend
  <2>6. starter' \in StarterRecords
    <3>1. starter.next + 1 \in Places
      BY <2>1 DEF Places
    <3> QED BY <2>1, <2>3, <2>4, <2>5, <3>1 DEF StarterRecords
  <2>7. /\ mode' \in [Methods -> KnownModes]
        /\ \A n \in Methods \ {m} : mode'[n] = mode[n]
        /\ mode'[m] = "silent" => ok
    BY <2>2, <2>3, ToggleMode
  <2>8. ShapeInv'
    BY <1>2, <2>6, <2>7 DEF HookNext, ShapeInv, tracing
  <2>9. CaptureAccounted'
    BY <1>2, <2>1, <2>4, <2>5, <2>7 DEF HookNext, SessionInv, CaptureAccounted
  <2>10. LocalInv'
    <3> DEFINE old == starter.local
               new == Append(old, m)
    <3>1. /\ Len(old) < MaxFunctions /\ Distinct(old) /\ Len(old) \in Nat
          /\ \A i \in DOMAIN old : \E k \in 1..(starter.next - 1) : old[i] = Order[k]
      BY <1>2, <2>1 DEF HookNext, SessionInv, LocalInv
    <3>2. \A k \in 1..(starter.next - 1) : k \in 1..((starter.next + 1) - 1)
      BY <2>1
    <3>3. CASE ~ok
      BY <2>4, <3>1, <3>2, <3>3, TracingAssumption DEF LocalInv, Distinct
    <3>4. CASE ok
      <4>1. /\ new \in Seq(Methods) /\ Len(new) = Len(old) + 1
            /\ \A i \in 1..Len(old) : new[i] = old[i]
            /\ new[Len(old) + 1] = m
        BY <2>1, <2>2, AppendProperties
      <4>2. DOMAIN new = 1..(Len(old) + 1) /\ DOMAIN old = 1..Len(old)
        BY <2>1, <4>1
      <4> HIDE DEF new
      <4>3. \A i \in DOMAIN old : old[i] # m
        <5>1. \A k \in 1..(starter.next - 1) : Order[k] # Order[starter.next]
          BY <2>1, TracingAssumption
        <5> QED BY <3>1, <5>1
      <4>4. Distinct(new)
        <5> SUFFICES ASSUME NEW i \in DOMAIN new, NEW j \in DOMAIN new, new[i] = new[j]
                     PROVE  i = j
          BY DEF Distinct
        <5>1. \A k \in DOMAIN new : k \in DOMAIN old \/ k = Len(old) + 1
          BY <3>1, <4>2
        <5>2. CASE i \in DOMAIN old /\ j \in DOMAIN old
          BY <3>1, <4>1, <4>2, <5>2 DEF Distinct
        <5>3. CASE i \in DOMAIN old /\ j = Len(old) + 1
          BY <4>1, <4>2, <4>3, <5>3
        <5>4. CASE i = Len(old) + 1 /\ j \in DOMAIN old
          BY <4>1, <4>2, <4>3, <5>4
        <5> QED BY <5>1, <5>2, <5>3, <5>4
      <4>5. ASSUME NEW i \in DOMAIN new
            PROVE  \E k \in 1..((starter.next + 1) - 1) : new[i] = Order[k]
        <5>1. CASE i \in 1..Len(old)
          BY <3>1, <3>2, <4>1, <4>2, <5>1
        <5>2. CASE i = Len(old) + 1
          BY <2>1, <4>1, <5>2
        <5> QED BY <3>1, <4>2, <5>1, <5>2
      <4>6. Len(new) <= MaxFunctions
        BY <3>1, <4>1, TracingAssumption
      <4>7. starter'.local = new /\ starter'.next = starter.next + 1
        BY <2>4, <3>4 DEF new
      <4>8. \A i \in DOMAIN starter'.local :
              \E k \in 1..(starter'.next - 1) : starter'.local[i] = Order[k]
        BY <4>5, <4>7
      <4> QED BY <4>4, <4>6, <4>7, <4>8 DEF LocalInv
    <3> QED BY <3>3, <3>4
  <2>11. SessionInv'
    BY <1>2, <2>4, <2>9, <2>10 DEF HookNext, SessionInv, Distinct
  <2> QED BY <1>0, <1>2, <2>8, <2>11 DEF HookNext
<1>3. ASSUME Publish PROVE TracingInv'
  <2>1. starter.at = "hook" /\ starter.local \in Seq(Methods) /\ starter'.at = "finish"
    BY <1>3 DEF Publish, ShapeInv, StarterRecords, Idle
  <2>2. ShapeInv'
    BY <1>3, <2>1 DEF Publish, ShapeInv, StarterRecords, tracing
  <2>3. sessionMethods = << >>
    BY <2>1 DEF SessionInv
  <2>4. CaptureAccounted'
    BY <1>3, <2>1, <2>3 DEF Publish, SessionInv, CaptureAccounted, Elements
  <2>5. SessionInv'
    BY <1>3, <2>1, <2>4 DEF Publish, SessionInv, LocalInv, Distinct
  <2> QED BY <1>0, <1>3, <2>2, <2>5 DEF Publish
<1>4. ASSUME Started PROVE TracingInv'
  <2>1. ShapeInv'
    BY <1>4 DEF Started, ShapeInv, StarterRecords, tracing
  <2>2. CaptureAccounted'
    BY <1>4 DEF Started, SessionInv, CaptureAccounted
  <2>3. SessionInv'
    BY <1>4, <2>2 DEF Started, SessionInv, LocalInv, Distinct, Idle
  <2> QED BY <1>0, <1>4, <2>1, <2>3 DEF Started
<1>5. ASSUME StopCapture PROVE TracingInv'
  <2>1. PICK s \in Stoppers :
          /\ stopper[s] = Idle
          /\ stopper' = [stopper EXCEPT ![s] = [at |-> "unhook", todo |-> sessionMethods]]
    BY <1>5 DEF StopCapture
  <2>2. stopper' \in [Stoppers -> {Idle} \cup [at : {"unhook"}, todo : Seq(Methods)]]
    BY <2>1 DEF ShapeInv
  <2>3. ShapeInv'
    <3>1. sessionMethods' \in Seq(Methods)
      BY <1>5 DEF StopCapture
    <3> QED BY <1>5, <2>2, <3>1 DEF StopCapture, ShapeInv, tracing
  <2>4. /\ stopper'[s].at = "unhook" /\ stopper'[s].todo = sessionMethods
        /\ \A r \in Stoppers : stopper[r].at = "unhook" => stopper'[r] = stopper[r]
    BY <2>1 DEF ShapeInv, Idle
  <2>5. CaptureAccounted'
    BY <1>5, <2>4 DEF StopCapture, SessionInv, CaptureAccounted
  <2>6. SessionInv'
    BY <1>5, <2>5, TracingAssumption DEF StopCapture, SessionInv, LocalInv, Distinct
  <2> QED BY <1>0, <1>5, <2>3, <2>6 DEF StopCapture
<1>6. ASSUME NEW s \in Stoppers, UnhookNext(s) PROVE TracingInv'
  <2> DEFINE todo == stopper[s].todo
  <2>1. todo \in Seq(Methods) /\ todo # << >> /\ stopper[s] \in [at : {"unhook"}, todo : Seq(Methods)]
    BY <1>6 DEF UnhookNext, ShapeInv, Idle
  <2>2. Head(todo) \in Methods /\ Tail(todo) \in Seq(Methods)
    BY <2>1, ElementsTail
  <2>3. /\ stopper'[s].at = "unhook" /\ stopper'[s].todo = Tail(todo)
        /\ \A r \in Stoppers \ {s} : stopper'[r] = stopper[r]
        /\ stopper' \in [Stoppers -> {Idle} \cup [at : {"unhook"}, todo : Seq(Methods)]]
    BY <1>6, <2>1, <2>2 DEF UnhookNext, ShapeInv
  <2>4. /\ mode' \in [Methods -> KnownModes]
        /\ \A n \in Methods \ {Head(todo)} : mode'[n] = mode[n]
        /\ mode'[Head(todo)] = "off"
    BY <1>6, <2>2, ToggleMode DEF UnhookNext
  <2>5. ShapeInv'
    BY <1>6, <2>3, <2>4 DEF UnhookNext, ShapeInv, tracing
  <2>6. CaptureAccounted'
    <3> SUFFICES ASSUME NEW m \in Methods, mode'[m] = "silent"
        PROVE  \/ m \in Elements(sessionMethods')
               \/ starter'.at = "hook" /\ m \in Elements(starter'.local)
               \/ \E r \in Stoppers : stopper'[r].at = "unhook" /\ m \in Elements(stopper'[r].todo)
      BY DEF CaptureAccounted
    <3>1. m # Head(todo) /\ mode[m] = "silent"
      BY <2>2, <2>4
    <3>2. m \in Elements(todo) => m \in Elements(Tail(todo))
      BY <2>1, <3>1, ElementsTail
    <3> QED BY <1>6, <2>3, <3>1, <3>2 DEF UnhookNext, SessionInv, CaptureAccounted
  <2>7. SessionInv'
    BY <1>6, <2>6 DEF UnhookNext, SessionInv, LocalInv, Distinct
  <2> QED BY <1>0, <1>6, <2>5, <2>7 DEF UnhookNext
<1>7. ASSUME NEW s \in Stoppers, Stopped(s) PROVE TracingInv'
  <2>1. ShapeInv'
    BY <1>7 DEF Stopped, ShapeInv, tracing
  <2>2. CaptureAccounted'
    <3>1. stopper[s].todo = << >> /\ \A r \in Stoppers \ {s} : stopper'[r] = stopper[r]
      BY <1>7 DEF Stopped, ShapeInv
    <3> QED BY <1>7, <3>1 DEF Stopped, SessionInv, CaptureAccounted, Elements
  <2>3. SessionInv'
    BY <1>7, <2>2 DEF Stopped, SessionInv, LocalInv, Distinct
  <2> QED BY <1>0, <1>7, <2>1, <2>3 DEF Stopped
<1> QED BY <1>1, <1>2, <1>3, <1>4, <1>5, <1>6, <1>7 DEF StarterStep, StopperStep

\* The steps of Trace all, of Restore and of the buttons about one method.
LEMMA BulkStep ==
  ASSUME TracingInv,
         \/ TraceAll \/ TraceBegin \/ TraceNext \/ TraceDone
         \/ RestoreAll \/ RestoreBegin \/ RestoreNext \/ RestoreDone
         \/ \E m \in Methods, state \in UserToggles : UserToggle(m, state)
  PROVE  TracingInv'
<1> USE DEF TracingInv
<1>0. 1 \in Places /\ Len(Order) \in Nat
  BY TracingAssumption DEF Places
<1>1. ASSUME TraceAll \/ TraceBegin \/ TraceDone PROVE TracingInv'
  <2>1. ShapeInv'
    <3>1. CASE TraceAll
      BY <1>0, <3>1 DEF TraceAll, ShapeInv, capture
    <3>2. CASE TraceBegin
      BY <3>2 DEF TraceBegin, ShapeInv, Idle, capture
    <3>3. CASE TraceDone
      BY <3>3 DEF TraceDone, ShapeInv, capture
    <3> QED BY <1>1, <3>1, <3>2, <3>3
  <2>2. BulkInv'
    BY <1>1 DEF TraceAll, TraceBegin, TraceDone, BulkInv
  <2>3. SessionInv'
    BY <1>1, OthersKeepSession DEF TraceAll, TraceBegin, TraceDone
  <2> QED BY <2>1, <2>2, <2>3
<1>2. ASSUME TraceNext PROVE TracingInv'
  <2> DEFINE m == Order[tracer.next]
  <2>1. tracer \in [at : {"trace"}, next : Places] /\ tracer.next \in 1..Len(Order)
    BY <1>0, <1>2 DEF TraceNext, ShapeInv, Idle, Places
  <2>2. m \in Methods
    BY <2>1, OrderedMethods
  <2>3. \E ok \in BOOLEAN : Toggle(m, 1, FALSE, ok)
    BY <1>2 DEF TraceNext
  <2>4. /\ mode' \in [Methods -> KnownModes]
        /\ \A n \in Methods : mode'[n] = "silent" => mode[n] = "silent"
    BY <2>2, <2>3, NotSilent
  <2>5. tracedMethods' \in Seq(Methods) /\ Len(tracedMethods') >= Len(tracedMethods)
    <3>1. tracedMethods' = tracedMethods \/ tracedMethods' = Append(tracedMethods, m)
      BY <1>2 DEF TraceNext
    <3>2. /\ Append(tracedMethods, m) \in Seq(Methods)
          /\ Len(Append(tracedMethods, m)) = Len(tracedMethods) + 1
      BY <2>2, ElementsAppend DEF ShapeInv
    <3> QED BY <3>1, <3>2 DEF ShapeInv
  <2>6. tracer' \in [at : {"count", "trace"}, next : Places]
    <3>1. tracer.next + 1 \in Places
      BY <1>0, <2>1 DEF Places
    <3>2. tracer' = [tracer EXCEPT !.next = @ + 1]
      BY <1>2 DEF TraceNext
    <3> QED BY <2>1, <3>1, <3>2
  <2>7. ShapeInv'
    BY <1>2, <2>4, <2>5, <2>6 DEF TraceNext, ShapeInv, capture
  <2>8. BulkInv'
    BY <1>2, <2>5 DEF TraceNext, BulkInv, ShapeInv, Idle
  <2>9. SessionInv'
    BY <1>2, <2>4, OthersKeepSession DEF TraceNext
  <2> QED BY <2>7, <2>8, <2>9
<1>3. ASSUME RestoreAll \/ RestoreBegin \/ RestoreDone PROVE TracingInv'
  <2>1. ShapeInv'
    <3>1. CASE RestoreAll
      <4>1. restorer' \in [at : {"begin", "restore"}, next : Nat \ {0}]
        BY <3>1 DEF RestoreAll
      <4> QED BY <3>1, <4>1 DEF RestoreAll, ShapeInv, capture
    <3>2. CASE RestoreBegin
      BY <3>2 DEF RestoreBegin, ShapeInv, Idle, capture
    <3>3. CASE RestoreDone
      <4>1. tracedMethods' \in Seq(Methods)
        BY <3>3 DEF RestoreDone
      <4> QED BY <3>3, <4>1 DEF RestoreDone, ShapeInv, capture
    <3> QED BY <1>3, <3>1, <3>2, <3>3
  <2>2. BulkInv'
    BY <1>3 DEF RestoreAll, RestoreBegin, RestoreDone, BulkInv, ShapeInv, Idle
  <2>3. SessionInv'
    BY <1>3, OthersKeepSession DEF RestoreAll, RestoreBegin, RestoreDone
  <2> QED BY <2>1, <2>2, <2>3
<1>4. ASSUME RestoreNext PROVE TracingInv'
  <2>1. /\ restorer \in [at : {"begin", "restore"}, next : Nat \ {0}]
        /\ restorer.next \in 1..Len(tracedMethods)
    BY <1>4 DEF RestoreNext, ShapeInv, Idle
  <2>2. tracedMethods[restorer.next] \in Methods
    BY <2>1 DEF ShapeInv
  <2>3. \E ok \in BOOLEAN : Toggle(tracedMethods[restorer.next], -1, FALSE, ok)
    BY <1>4 DEF RestoreNext
  <2>4. /\ mode' \in [Methods -> KnownModes]
        /\ \A n \in Methods : mode'[n] = "silent" => mode[n] = "silent"
    BY <2>2, <2>3, NotSilent
  <2>5. /\ restorer' \in [at : {"begin", "restore"}, next : Nat \ {0}]
        /\ restorer'.at = "restore" /\ restorer'.next = restorer.next + 1
    BY <1>4, <2>1 DEF RestoreNext
  <2>6. ShapeInv'
    BY <1>4, <2>4, <2>5 DEF RestoreNext, ShapeInv, capture
  <2>7. BulkInv'
    BY <1>4, <2>1, <2>5 DEF RestoreNext, BulkInv, ShapeInv
  <2>8. SessionInv'
    BY <1>4, <2>4, OthersKeepSession DEF RestoreNext
  <2> QED BY <2>6, <2>7, <2>8
<1>5. ASSUME NEW m \in Methods, NEW state \in UserToggles, UserToggle(m, state) PROVE TracingInv'
  <2>1. state \in {-1, 0, 1} /\ \E ok \in BOOLEAN : Toggle(m, state, FALSE, ok)
    BY <1>5, TracingAssumption DEF UserToggle
  <2>2. /\ mode' \in [Methods -> KnownModes]
        /\ \A n \in Methods : mode'[n] = "silent" => mode[n] = "silent"
    BY <2>1, NotSilent
  <2>3. ShapeInv'
    BY <1>5, <2>2 DEF UserToggle, ShapeInv, capture, tracing
  <2>4. BulkInv'
    BY <1>5 DEF UserToggle, BulkInv, tracing
  <2>5. SessionInv'
    BY <1>5, <2>2, OthersKeepSession DEF UserToggle
  <2> QED BY <2>3, <2>4, <2>5
<1> QED BY <1>1, <1>2, <1>3, <1>4, <1>5

LEMMA TracingAlways == Spec => []TracingInv
<1>1. TracingInv /\ [Next]_vars => TracingInv'
  <2> SUFFICES ASSUME TracingInv, [Next]_vars PROVE TracingInv'
    OBVIOUS
  <2>1. ASSUME UNCHANGED vars PROVE TracingInv'
    <3>1. ShapeInv' /\ BulkInv'
      BY <2>1 DEF TracingInv, ShapeInv, BulkInv, vars, capture, tracing
    <3>2. SessionInv'
      BY <2>1, OthersKeepSession DEF TracingInv, vars
    <3> QED BY <3>1, <3>2 DEF TracingInv
  <2> QED BY <2>1, CaptureStep, BulkStep DEF Next
<1> QED BY <1>1, TracingStarts, PTL DEF Spec

-----------------------------------------------------------------------------
\* Every variable keeps its type, and Restore never indexes beyond the list of
\* traced methods (Tool/ClassesTab.cpp:2172), though Trace all may be filling it.
THEOREM TracingTyping == Spec => []TypeOK
<1>1. TracingInv => TypeOK
  <2> SUFFICES ASSUME TracingInv PROVE TypeOK
    OBVIOUS
  <2>1. restorer.at = "restore" => restorer.next \in 1..(Len(tracedMethods) + 1)
    BY DEF TracingInv, ShapeInv, BulkInv, Idle
  <2> QED BY <2>1 DEF TracingInv, ShapeInv, StarterRecords, Idle, TypeOK
<1> QED BY <1>1, TracingAlways, PTL

\* Whatever starts, stops, Trace all, Restore and single toggles overlap, a method
\* that a capture has hooked (Tool/Tool.cpp:650) is in the list of the session, of
\* the thread starting it or of a thread stopping it.
THEOREM CaptureAlwaysAccounted == Spec => []CaptureAccounted
<1>1. TracingInv => CaptureAccounted
  BY DEF TracingInv, SessionInv
<1> QED BY <1>1, TracingAlways, PTL

\* A session has at most maxFunctions methods (Tool/Tool.cpp:648), none of them
\* twice, and is on exactly while it has methods.
THEOREM SessionAlwaysWithinLimit == Spec => []SessionWithinLimit
<1>1. TracingInv => SessionWithinLimit
  <2> SUFFICES ASSUME TracingInv PROVE SessionWithinLimit
    OBVIOUS
  <2>1. Cardinality(Elements(sessionMethods)) = Len(sessionMethods)
    BY DistinctCardinality DEF TracingInv, ShapeInv, SessionInv
  <2> QED BY <2>1 DEF TracingInv, ShapeInv, SessionInv, SessionWithinLimit
<1> QED BY <1>1, TracingAlways, PTL

\* No thread hooks for a new session while one is on or the start button is enabled
\* (Tool/Tool.cpp:627).
THEOREM StartAlwaysExclusive == Spec => []StartExclusive
<1>1. TracingInv => StartExclusive
  BY DEF TracingInv, SessionInv, ShapeInv, StartExclusive
<1> QED BY <1>1, TracingAlways, PTL

=============================================================================
