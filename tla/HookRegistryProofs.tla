------------------------- MODULE HookRegistryProofs -------------------------
(***************************************************************************)
(* Proofs about HookRegistry, for any sets of methods and threads.         *)
(*                                                                         *)
(* BaseInv holds whatever calls overlap: it says who may hold hookerMtx,   *)
(* and that a pointer to a HookerData that is marked live points to one.   *)
(* Typing, HitsAlwaysExact and SavedBytesAlwaysOriginal follow from it.    *)
(* CallInv adds where a call leaves its method at each step of its window, *)
(* as long as the method was not raced on: then only two calls that both   *)
(* set silent can stand in their windows together.                         *)
(***************************************************************************)
EXTENDS HookRegistry, TLAPS

-----------------------------------------------------------------------------
\* A call in progress has a request, and took the branch its state asks for.
RequestInv == \A t \in Togglers :
  /\ Active(t) => req[t] \in Requests
  /\ pc[t] = "setSilent" => req[t].state = 1
  /\ pc[t] = "untrace" => req[t].state # 1
  /\ pc[t] \in {"store", "trace", "attach"} => req[t].state # 0

\* A thread between taking and releasing hookerMtx is its owner.
LockInv ==
  /\ \A t \in Togglers : pc[t] \in {"trace", "attach"} =>
        hookerMtx = t /\ hookerMap[M(t)] # None /\ hookerMap[M(t)].silent = req[t].silent
  /\ \A g \in GameThreads : inCall[g].phase = "locked" => hookerMtx = g

\* A pointer marked live points to an entry of the map.
LiveInv ==
  /\ \A m \in Methods : traceListeners[m] = "attached" /\ m \notin dangling =>
        hookerMap[m] # None
  /\ \A g \in GameThreads : inCall[g] # NoCall /\ inCall[g].live =>
        hookerMap[inCall[g].method] # None

\* Under the lock the counter read is the counter that will be written.
CountInv ==
  /\ HitsExact
  /\ \A g \in GameThreads : inCall[g].phase = "locked" /\ inCall[g].live =>
        inCall[g].seen = hookerMap[inCall[g].method].hitCount

\* The original bytes are saved before the method's first listener is attached.
BytesInv ==
  /\ SavedBytesOriginal
  /\ \A m \in Methods : traceListeners[m] = "attached" => oMap[m] # "none"
  /\ \A t \in Togglers : pc[t] \notin {"idle", "save"} => oMap[M(t)] # "none"

BaseInv == TypeOK /\ RequestInv /\ LockInv /\ LiveInv /\ CountInv /\ BytesInv

\* m is in the map exactly when its listener is attached.
Consistent(m) ==
  traceListeners[m] = (IF hookerMap[m] = None THEN "none" ELSE "attached")

\* Where a call about m leaves m at each step of its window.
PhaseInv(label, m) ==
  /\ label \in {"setSilent", "untrace"} =>
        hookerMap[m] # None /\ traceListeners[m] = "attached"
  /\ label = "store"  => hookerMap[m] = None /\ traceListeners[m] = "none"
  /\ label = "trace"  => hookerMap[m] # None /\ traceListeners[m] = "none"
  /\ label = "attach" => hookerMap[m] # None /\ traceListeners[m] = "inserted"
  /\ label = "drop"   => hookerMap[m] # None /\ traceListeners[m] = "detached"
  /\ label = "erase"  => hookerMap[m] # None /\ traceListeners[m] = "none"

\* Toggler t stands in its window, on method m.
InWindow(t, m) == pc[t] \in Window /\ M(t) = m

CallInv ==
  /\ \A t, u \in Togglers, m \in Methods \ raced :
        t # u /\ InWindow(t, m) /\ InWindow(u, m) => pc[t] = "setSilent" /\ pc[u] = "setSilent"
  /\ \A t \in Togglers, m \in Methods \ raced : InWindow(t, m) => PhaseInv(pc[t], m)
  /\ \A m \in Methods \ raced : (\A t \in Togglers : ~InWindow(t, m)) => Consistent(m)
  /\ NoDanglingListener

-----------------------------------------------------------------------------
\* In the initial state nothing is hooked and no call is in progress.
LEMMA BaseInit == Init => BaseInv
  BY RegistryAssumption DEF Init, BaseInv, TypeOK, RequestInv, LockInv, LiveInv, CountInv,
     HitsExact, BytesInv, SavedBytesOriginal, Active, M, NoCall, InCalls, Labels

\* A freshly written HookerData is an entry, and an entry is not None.
LEMMA NewEntry ==
  ASSUME NEW h \in Nat, NEW b \in BOOLEAN
  PROVE  [hitCount |-> h, silent |-> b] \in Entries /\ [hitCount |-> h, silent |-> b] # None
  BY RegistryAssumption DEF Entries

\* A call in progress has a well-formed request.
LEMMA ActiveRequest ==
  ASSUME RequestInv, NEW t \in Togglers, pc[t] # "idle"
  PROVE  /\ M(t) \in Methods
         /\ req[t].state \in {-1, 0, 1}
         /\ req[t].silent \in BOOLEAN
  BY RegistryAssumption DEF RequestInv, Active, M, Requests

\* hookerMap.erase keeps the types of what it touches.
LEMMA EraseType ==
  ASSUME TypeOK, NEW m \in Methods, EraseEntry(m)
  PROVE  /\ hookerMap' \in [Methods -> Entries \cup {None}]
         /\ dangling' \in SUBSET Methods
         /\ inCall' \in [GameThreads -> InCalls \cup {NoCall}]
<1>1. hookerMap' \in [Methods -> Entries \cup {None}] /\ dangling' \in SUBSET Methods
  BY DEF EraseEntry, TypeOK
<1>2. ASSUME NEW g \in GameThreads PROVE inCall'[g] \in InCalls \cup {NoCall}
  <2>1. CASE inCall[g] # NoCall /\ inCall[g].method = m
    BY <2>1 DEF EraseEntry, TypeOK, InCalls
  <2>2. CASE ~(inCall[g] # NoCall /\ inCall[g].method = m)
    BY <2>2 DEF EraseEntry, TypeOK
  <2> QED BY <2>1, <2>2
<1> QED BY <1>1, <1>2 DEF EraseEntry

\* Every step keeps BaseInv: one step per action, and under it one per conjunct.
LEMMA BaseStep == BaseInv /\ [Next]_vars => BaseInv'
<1> SUFFICES ASSUME BaseInv, [Next]_vars PROVE BaseInv'
  OBVIOUS
<1> USE RegistryAssumption DEF BaseInv
<1>1. ASSUME NEW t \in Togglers, NEW r \in Requests, Call(t, r) PROVE BaseInv'
  <2>1. TypeOK'
    BY <1>1 DEF Call, M, Goto, TypeOK, Labels, InCalls, NoCall, Entries, Requests
  <2>2. RequestInv'
    BY <1>1 DEF Call, M, Goto, RequestInv, Active, TypeOK, Labels
  <2>3. LockInv'
    BY <1>1 DEF Call, M, Goto, LockInv, RequestInv, Active, TypeOK, Labels, InCalls,
       NoCall, Requests
  <2>4. LiveInv'
    BY <1>1 DEF Call, M, Goto, LiveInv, LockInv, RequestInv, Active, TypeOK, Labels,
       InCalls, NoCall, Requests
  <2>5. CountInv'
    BY <1>1 DEF Call, M, Goto, CountInv, HitsExact, LiveInv, LockInv, RequestInv,
       Active, TypeOK, Labels, InCalls, NoCall, Requests, Entries
  <2>6. BytesInv'
    BY <1>1 DEF Call, M, Goto, BytesInv, SavedBytesOriginal, CodeBytes, RequestInv,
       Active, TypeOK, Labels, Requests
  <2> QED BY <2>1, <2>2, <2>3, <2>4, <2>5, <2>6
<1>2. ASSUME NEW t \in Togglers, SaveBytes(t) PROVE BaseInv'
  <2>1. TypeOK'
    BY <1>2 DEF SaveBytes, M, Goto, CodeBytes, TypeOK, Labels, InCalls, NoCall, Entries,
       Requests
  <2>2. RequestInv'
    BY <1>2 DEF SaveBytes, M, Goto, CodeBytes, RequestInv, Active, TypeOK, Labels
  <2>3. LockInv'
    BY <1>2 DEF SaveBytes, M, Goto, CodeBytes, LockInv, RequestInv, Active, TypeOK,
       Labels, InCalls, NoCall, Requests
  <2>4. LiveInv'
    BY <1>2 DEF SaveBytes, M, Goto, CodeBytes, LiveInv, LockInv, RequestInv, Active,
       TypeOK, Labels, InCalls, NoCall, Requests
  <2>5. CountInv'
    BY <1>2 DEF SaveBytes, M, Goto, CodeBytes, CountInv, HitsExact, LiveInv, LockInv,
       RequestInv, Active, TypeOK, Labels, InCalls, NoCall, Requests, Entries
  <2>6. BytesInv'
    BY <1>2 DEF SaveBytes, M, Goto, CodeBytes, BytesInv, SavedBytesOriginal, RequestInv,
       Active, TypeOK, Labels, Requests
  <2> QED BY <2>1, <2>2, <2>3, <2>4, <2>5, <2>6
<1>3. ASSUME NEW t \in Togglers, Find(t) PROVE BaseInv'
  <2>1. TypeOK'
    <3>1. M(t) \in Methods
      BY <1>3, ActiveRequest DEF Find
    <3> QED BY <1>3, <3>1 DEF Find, Open, Goto, Finish, TypeOK, Labels
  <2>2. RequestInv'
    BY <1>3 DEF Find, Open, M, Goto, Finish, RequestInv, Active, TypeOK, Labels
  <2>3. LockInv'
    BY <1>3 DEF Find, Open, M, Goto, Finish, LockInv, RequestInv, Active, TypeOK, Labels,
       InCalls, NoCall, Requests
  <2>4. LiveInv'
    BY <1>3 DEF Find, Open, M, Goto, Finish, LiveInv, LockInv, RequestInv, Active, TypeOK,
       Labels, InCalls, NoCall, Requests
  <2>5. CountInv'
    BY <1>3 DEF Find, Open, M, Goto, Finish, CountInv, HitsExact, LiveInv, LockInv,
       RequestInv, Active, TypeOK, Labels, InCalls, NoCall, Requests, Entries
  <2>6. BytesInv'
    BY <1>3 DEF Find, Open, M, Goto, Finish, BytesInv, SavedBytesOriginal, CodeBytes,
       RequestInv, Active, TypeOK, Labels, Requests
  <2> QED BY <2>1, <2>2, <2>3, <2>4, <2>5, <2>6
<1>4. ASSUME NEW t \in Togglers, SetSilent(t) PROVE BaseInv'
  <2>1. TypeOK'
    <3>1. M(t) \in Methods /\ req[t].silent \in BOOLEAN
      BY <1>4, ActiveRequest DEF SetSilent
    <3>2. hookerMap' \in [Methods -> Entries \cup {None}]
      BY <1>4, <3>1, NewEntry DEF SetSilent, TypeOK, Entries
    <3> QED BY <1>4, <3>1, <3>2 DEF SetSilent, Goto, Finish, TypeOK, Labels
  <2>2. RequestInv'
    BY <1>4 DEF SetSilent, M, Goto, Finish, RequestInv, Active, TypeOK, Labels
  <2>3. LockInv'
    BY <1>4 DEF SetSilent, M, Goto, Finish, LockInv, RequestInv, Active, TypeOK, Labels,
       InCalls, NoCall, Requests
  <2>4. LiveInv'
    <3>1. M(t) \in Methods /\ req[t].silent \in BOOLEAN
      BY <1>4, ActiveRequest DEF SetSilent
    <3>2. hookerMap'[M(t)] # None
      BY <1>4, <3>1, NewEntry DEF SetSilent, TypeOK, Entries
    <3> QED BY <1>4, <3>1, <3>2 DEF SetSilent, LiveInv, TypeOK
  <2>5. CountInv'
    BY <1>4 DEF SetSilent, M, Goto, Finish, CountInv, HitsExact, LiveInv, LockInv,
       RequestInv, Active, TypeOK, Labels, InCalls, NoCall, Requests, Entries
  <2>6. BytesInv'
    BY <1>4 DEF SetSilent, M, Goto, Finish, BytesInv, SavedBytesOriginal, CodeBytes,
       RequestInv, Active, TypeOK, Labels, Requests
  <2> QED BY <2>1, <2>2, <2>3, <2>4, <2>5, <2>6
<1>5. ASSUME NEW t \in Togglers, EnableStore(t) PROVE BaseInv'
  <2>1. TypeOK'
    <3>1. M(t) \in Methods /\ req[t].silent \in BOOLEAN
      BY <1>5, ActiveRequest DEF EnableStore
    <3>2. hookerMap' \in [Methods -> Entries \cup {None}]
      BY <1>5, <3>1, NewEntry DEF EnableStore, TypeOK
    <3> QED BY <1>5, <3>1, <3>2 DEF EnableStore, Goto, TypeOK, Labels
  <2>2. RequestInv'
    BY <1>5 DEF EnableStore, M, Goto, RequestInv, Active, TypeOK, Labels
  <2>3. LockInv'
    <3>1. M(t) \in Methods /\ req[t].silent \in BOOLEAN
      BY <1>5, ActiveRequest DEF EnableStore
    <3>2. hookerMap'[M(t)] # None
      BY <1>5, <3>1, NewEntry DEF EnableStore, TypeOK
    <3> QED BY <1>5, <3>1, <3>2 DEF EnableStore, Goto, M, LockInv, TypeOK, InCalls, NoCall
  <2>4. LiveInv'
    <3>1. M(t) \in Methods /\ req[t].silent \in BOOLEAN
      BY <1>5, ActiveRequest DEF EnableStore
    <3>2. hookerMap'[M(t)] # None
      BY <1>5, <3>1, NewEntry DEF EnableStore, TypeOK
    <3> QED BY <1>5, <3>1, <3>2 DEF EnableStore, LiveInv, TypeOK
  <2>5. CountInv'
    BY <1>5 DEF EnableStore, M, Goto, CountInv, HitsExact, LiveInv, LockInv, RequestInv,
       Active, TypeOK, Labels, InCalls, NoCall, Requests, Entries
  <2>6. BytesInv'
    BY <1>5 DEF EnableStore, M, Goto, BytesInv, SavedBytesOriginal, CodeBytes,
       RequestInv, Active, TypeOK, Labels, Requests
  <2> QED BY <2>1, <2>2, <2>3, <2>4, <2>5, <2>6
<1>6. ASSUME NEW t \in Togglers, AlreadyTraced(t) PROVE BaseInv'
  <2>1. TypeOK'
    <3>1. M(t) \in Methods
      BY <1>6, ActiveRequest DEF AlreadyTraced
    <3> QED BY <1>6, <3>1, EraseType DEF AlreadyTraced, Goto, Finish, TypeOK, Labels
  <2>2. RequestInv'
    BY <1>6 DEF AlreadyTraced, M, Goto, Finish, EraseEntry, RequestInv, Active, TypeOK,
       Labels
  <2>3. LockInv'
    BY <1>6 DEF AlreadyTraced, M, Goto, Finish, EraseEntry, LockInv, RequestInv, Active,
       TypeOK, Labels, InCalls, NoCall, Requests
  <2>4. LiveInv'
    BY <1>6 DEF AlreadyTraced, M, Goto, Finish, EraseEntry, LiveInv, LockInv,
       RequestInv, Active, TypeOK, Labels, InCalls, NoCall, Requests
  <2>5. CountInv'
    BY <1>6 DEF AlreadyTraced, M, Goto, Finish, EraseEntry, CountInv, HitsExact,
       LiveInv, LockInv, RequestInv, Active, TypeOK, Labels, InCalls, NoCall, Requests,
       Entries
  <2>6. BytesInv'
    BY <1>6 DEF AlreadyTraced, M, Goto, Finish, EraseEntry, BytesInv,
       SavedBytesOriginal, CodeBytes, RequestInv, Active, TypeOK, Labels, Requests
  <2> QED BY <2>1, <2>2, <2>3, <2>4, <2>5, <2>6
<1>7. ASSUME NEW t \in Togglers, TraceInsert(t) PROVE BaseInv'
  <2>1. TypeOK'
    BY <1>7 DEF TraceInsert, M, Goto, TypeOK, Labels, InCalls, NoCall, Entries, Requests
  <2>2. RequestInv'
    BY <1>7 DEF TraceInsert, M, Goto, RequestInv, Active, TypeOK, Labels
  <2>3. LockInv'
    BY <1>7 DEF TraceInsert, M, Goto, LockInv, RequestInv, Active, TypeOK, Labels,
       InCalls, NoCall, Requests
  <2>4. LiveInv'
    BY <1>7 DEF TraceInsert, M, Goto, LiveInv, LockInv, RequestInv, Active, TypeOK,
       Labels, InCalls, NoCall, Requests
  <2>5. CountInv'
    BY <1>7 DEF TraceInsert, M, Goto, CountInv, HitsExact, LiveInv, LockInv, RequestInv,
       Active, TypeOK, Labels, InCalls, NoCall, Requests, Entries
  <2>6. BytesInv'
    BY <1>7 DEF TraceInsert, M, Goto, BytesInv, SavedBytesOriginal, CodeBytes,
       RequestInv, Active, TypeOK, Labels, Requests
  <2> QED BY <2>1, <2>2, <2>3, <2>4, <2>5, <2>6
<1>8. ASSUME NEW t \in Togglers, Attached(t) PROVE BaseInv'
  <2>1. TypeOK'
    BY <1>8 DEF Attached, M, Goto, Finish, TypeOK, Labels, InCalls, NoCall, Entries,
       Requests
  <2>2. RequestInv'
    BY <1>8 DEF Attached, M, Goto, Finish, RequestInv, Active, TypeOK, Labels
  <2>3. LockInv'
    BY <1>8 DEF Attached, M, Goto, Finish, LockInv, RequestInv, Active, TypeOK, Labels,
       InCalls, NoCall, Requests
  <2>4. LiveInv'
    BY <1>8 DEF Attached, M, Goto, Finish, LiveInv, LockInv, RequestInv, Active, TypeOK,
       Labels, InCalls, NoCall, Requests
  <2>5. CountInv'
    BY <1>8 DEF Attached, M, Goto, Finish, CountInv, HitsExact, LiveInv, LockInv,
       RequestInv, Active, TypeOK, Labels, InCalls, NoCall, Requests, Entries
  <2>6. BytesInv'
    BY <1>8 DEF Attached, M, Goto, Finish, BytesInv, SavedBytesOriginal, CodeBytes,
       RequestInv, Active, TypeOK, Labels, Requests
  <2> QED BY <2>1, <2>2, <2>3, <2>4, <2>5, <2>6
<1>9. ASSUME NEW t \in Togglers, AttachRefused(t) PROVE BaseInv'
  <2>1. TypeOK'
    <3>1. M(t) \in Methods
      BY <1>9, ActiveRequest DEF AttachRefused
    <3> QED BY <1>9, <3>1, EraseType DEF AttachRefused, Goto, Finish, TypeOK, Labels
  <2>2. RequestInv'
    BY <1>9 DEF AttachRefused, M, Goto, Finish, EraseEntry, RequestInv, Active, TypeOK,
       Labels
  <2>3. LockInv'
    BY <1>9 DEF AttachRefused, M, Goto, Finish, EraseEntry, LockInv, RequestInv, Active,
       TypeOK, Labels, InCalls, NoCall, Requests
  <2>4. LiveInv'
    BY <1>9 DEF AttachRefused, M, Goto, Finish, EraseEntry, LiveInv, LockInv,
       RequestInv, Active, TypeOK, Labels, InCalls, NoCall, Requests
  <2>5. CountInv'
    BY <1>9 DEF AttachRefused, M, Goto, Finish, EraseEntry, CountInv, HitsExact,
       LiveInv, LockInv, RequestInv, Active, TypeOK, Labels, InCalls, NoCall, Requests,
       Entries
  <2>6. BytesInv'
    BY <1>9 DEF AttachRefused, M, Goto, Finish, EraseEntry, BytesInv,
       SavedBytesOriginal, CodeBytes, RequestInv, Active, TypeOK, Labels, Requests
  <2> QED BY <2>1, <2>2, <2>3, <2>4, <2>5, <2>6
<1>10. ASSUME NEW t \in Togglers, UntraceDetach(t) PROVE BaseInv'
  <2>1. TypeOK'
    BY <1>10 DEF UntraceDetach, M, Goto, TypeOK, Labels, InCalls, NoCall, Entries,
       Requests
  <2>2. RequestInv'
    BY <1>10 DEF UntraceDetach, M, Goto, RequestInv, Active, TypeOK, Labels
  <2>3. LockInv'
    BY <1>10 DEF UntraceDetach, M, Goto, LockInv, RequestInv, Active, TypeOK, Labels,
       InCalls, NoCall, Requests
  <2>4. LiveInv'
    BY <1>10 DEF UntraceDetach, M, Goto, LiveInv, LockInv, RequestInv, Active, TypeOK,
       Labels, InCalls, NoCall, Requests
  <2>5. CountInv'
    BY <1>10 DEF UntraceDetach, M, Goto, CountInv, HitsExact, LiveInv, LockInv,
       RequestInv, Active, TypeOK, Labels, InCalls, NoCall, Requests, Entries
  <2>6. BytesInv'
    BY <1>10 DEF UntraceDetach, M, Goto, BytesInv, SavedBytesOriginal, CodeBytes,
       RequestInv, Active, TypeOK, Labels, Requests
  <2> QED BY <2>1, <2>2, <2>3, <2>4, <2>5, <2>6
<1>11. ASSUME NEW t \in Togglers, UntraceDrop(t) PROVE BaseInv'
  <2>1. TypeOK'
    BY <1>11 DEF UntraceDrop, M, Goto, TypeOK, Labels, InCalls, NoCall, Entries, Requests
  <2>2. RequestInv'
    BY <1>11 DEF UntraceDrop, M, Goto, RequestInv, Active, TypeOK, Labels
  <2>3. LockInv'
    BY <1>11 DEF UntraceDrop, M, Goto, LockInv, RequestInv, Active, TypeOK, Labels,
       InCalls, NoCall, Requests
  <2>4. LiveInv'
    BY <1>11 DEF UntraceDrop, M, Goto, LiveInv, LockInv, RequestInv, Active, TypeOK,
       Labels, InCalls, NoCall, Requests
  <2>5. CountInv'
    BY <1>11 DEF UntraceDrop, M, Goto, CountInv, HitsExact, LiveInv, LockInv,
       RequestInv, Active, TypeOK, Labels, InCalls, NoCall, Requests, Entries
  <2>6. BytesInv'
    BY <1>11 DEF UntraceDrop, M, Goto, BytesInv, SavedBytesOriginal, CodeBytes,
       RequestInv, Active, TypeOK, Labels, Requests
  <2> QED BY <2>1, <2>2, <2>3, <2>4, <2>5, <2>6
<1>12. ASSUME NEW t \in Togglers, UntraceMissing(t) PROVE BaseInv'
  <2>1. TypeOK'
    BY <1>12 DEF UntraceMissing, M, Goto, TypeOK, Labels, InCalls, NoCall, Entries,
       Requests
  <2>2. RequestInv'
    BY <1>12 DEF UntraceMissing, M, Goto, RequestInv, Active, TypeOK, Labels
  <2>3. LockInv'
    BY <1>12 DEF UntraceMissing, M, Goto, LockInv, RequestInv, Active, TypeOK, Labels,
       InCalls, NoCall, Requests
  <2>4. LiveInv'
    BY <1>12 DEF UntraceMissing, M, Goto, LiveInv, LockInv, RequestInv, Active, TypeOK,
       Labels, InCalls, NoCall, Requests
  <2>5. CountInv'
    BY <1>12 DEF UntraceMissing, M, Goto, CountInv, HitsExact, LiveInv, LockInv,
       RequestInv, Active, TypeOK, Labels, InCalls, NoCall, Requests, Entries
  <2>6. BytesInv'
    BY <1>12 DEF UntraceMissing, M, Goto, BytesInv, SavedBytesOriginal, CodeBytes,
       RequestInv, Active, TypeOK, Labels, Requests
  <2> QED BY <2>1, <2>2, <2>3, <2>4, <2>5, <2>6
<1>13. ASSUME NEW t \in Togglers, DisableErase(t) PROVE BaseInv'
  <2>1. TypeOK'
    <3>1. M(t) \in Methods
      BY <1>13, ActiveRequest DEF DisableErase
    <3> QED BY <1>13, <3>1, EraseType DEF DisableErase, Goto, TypeOK, Labels
  <2>2. RequestInv'
    BY <1>13 DEF DisableErase, M, Goto, EraseEntry, RequestInv, Active, TypeOK, Labels
  <2>3. LockInv'
    BY <1>13 DEF DisableErase, M, Goto, EraseEntry, LockInv, RequestInv, Active, TypeOK,
       Labels, InCalls, NoCall, Requests
  <2>4. LiveInv'
    BY <1>13 DEF DisableErase, M, Goto, EraseEntry, LiveInv, LockInv, RequestInv,
       Active, TypeOK, Labels, InCalls, NoCall, Requests
  <2>5. CountInv'
    BY <1>13 DEF DisableErase, M, Goto, EraseEntry, CountInv, HitsExact, LiveInv,
       LockInv, RequestInv, Active, TypeOK, Labels, InCalls, NoCall, Requests, Entries
  <2>6. BytesInv'
    BY <1>13 DEF DisableErase, M, Goto, EraseEntry, BytesInv, SavedBytesOriginal,
       CodeBytes, RequestInv, Active, TypeOK, Labels, Requests
  <2> QED BY <2>1, <2>2, <2>3, <2>4, <2>5, <2>6
<1>14. ASSUME NEW t \in Togglers, Return(t) PROVE BaseInv'
  <2>1. TypeOK'
    BY <1>14 DEF Return, M, Goto, TypeOK, Labels, InCalls, NoCall, Entries, Requests
  <2>2. RequestInv'
    BY <1>14 DEF Return, M, Goto, RequestInv, Active, TypeOK, Labels
  <2>3. LockInv'
    BY <1>14 DEF Return, M, Goto, LockInv, RequestInv, Active, TypeOK, Labels, InCalls,
       NoCall, Requests
  <2>4. LiveInv'
    BY <1>14 DEF Return, M, Goto, LiveInv, LockInv, RequestInv, Active, TypeOK, Labels,
       InCalls, NoCall, Requests
  <2>5. CountInv'
    BY <1>14 DEF Return, M, Goto, CountInv, HitsExact, LiveInv, LockInv, RequestInv,
       Active, TypeOK, Labels, InCalls, NoCall, Requests, Entries
  <2>6. BytesInv'
    BY <1>14 DEF Return, M, Goto, BytesInv, SavedBytesOriginal, CodeBytes, RequestInv,
       Active, TypeOK, Labels, Requests
  <2> QED BY <2>1, <2>2, <2>3, <2>4, <2>5, <2>6
<1>15. ASSUME NEW g \in GameThreads, NEW m \in Methods, Enter(g, m) PROVE BaseInv'
  <2>1. TypeOK'
    BY <1>15 DEF Enter, M, callVars, TypeOK, Labels, InCalls, NoCall, Entries, Requests
  <2>2. RequestInv'
    BY <1>15 DEF Enter, M, callVars, RequestInv, Active, TypeOK, Labels
  <2>3. LockInv'
    BY <1>15 DEF Enter, M, callVars, LockInv, RequestInv, Active, TypeOK, Labels,
       InCalls, NoCall, Requests
  <2>4. LiveInv'
    BY <1>15 DEF Enter, M, callVars, LiveInv, LockInv, RequestInv, Active, TypeOK,
       Labels, InCalls, NoCall, Requests
  <2>5. CountInv'
    BY <1>15 DEF Enter, M, callVars, CountInv, HitsExact, LiveInv, LockInv, RequestInv,
       Active, TypeOK, Labels, InCalls, NoCall, Requests, Entries
  <2>6. BytesInv'
    BY <1>15 DEF Enter, M, callVars, BytesInv, SavedBytesOriginal, CodeBytes,
       RequestInv, Active, TypeOK, Labels, Requests
  <2> QED BY <2>1, <2>2, <2>3, <2>4, <2>5, <2>6
<1>16. ASSUME NEW g \in GameThreads, HitRead(g) PROVE BaseInv'
  <2>1. TypeOK'
    <3>1. inCall[g] \in InCalls
      BY <1>16 DEF HitRead, TypeOK, NoCall
    <3>2. inCall[g].live => hookerMap[inCall[g].method] \in Entries
      BY <3>1, <1>16 DEF LiveInv, TypeOK, HitRead, NoCall, InCalls
    <3>3. inCall'[g] \in InCalls
      BY <1>16, <3>1, <3>2 DEF HitRead, InCalls, Entries, TypeOK
    <3> QED BY <1>16, <3>3 DEF HitRead, TypeOK, callVars
  <2>2. RequestInv'
    BY <1>16 DEF HitRead, M, callVars, LiveInv, LockInv, CountInv, HitsExact,
       RequestInv, Active, TypeOK, Labels
  <2>3. LockInv'
    BY <1>16 DEF HitRead, M, callVars, LiveInv, LockInv, CountInv, HitsExact,
       RequestInv, Active, TypeOK, Labels, InCalls, NoCall, Requests
  <2>4. LiveInv'
    BY <1>16 DEF HitRead, M, callVars, LiveInv, LockInv, CountInv, HitsExact,
       RequestInv, Active, TypeOK, Labels, InCalls, NoCall, Requests
  <2>5. CountInv'
    BY <1>16 DEF HitRead, M, callVars, LiveInv, LockInv, CountInv, HitsExact,
       RequestInv, Active, TypeOK, Labels, InCalls, NoCall, Requests, Entries
  <2>6. BytesInv'
    BY <1>16 DEF HitRead, M, callVars, LiveInv, LockInv, CountInv, HitsExact,
       RequestInv, Active, BytesInv, SavedBytesOriginal, CodeBytes, TypeOK, Labels,
       Requests
  <2> QED BY <2>1, <2>2, <2>3, <2>4, <2>5, <2>6
<1>17. ASSUME NEW g \in GameThreads, HitWrite(g) PROVE BaseInv'
  <2>1. TypeOK'
    BY <1>17 DEF HitWrite, M, callVars, LiveInv, LockInv, CountInv, HitsExact,
       RequestInv, Active, TypeOK, Labels, InCalls, NoCall, Entries, Requests
  <2>2. RequestInv'
    BY <1>17 DEF HitWrite, M, callVars, LiveInv, LockInv, CountInv, HitsExact,
       RequestInv, Active, TypeOK, Labels
  <2>3. LockInv'
    BY <1>17 DEF HitWrite, M, callVars, LiveInv, LockInv, CountInv, HitsExact,
       RequestInv, Active, TypeOK, Labels, InCalls, NoCall, Requests
  <2>4. LiveInv'
    <3>1. inCall[g] \in InCalls
      BY <1>17 DEF HitWrite, TypeOK, NoCall
    <3>2. \A m \in Methods : hookerMap[m] # None => hookerMap'[m] # None
      BY <1>17, <3>1, NewEntry DEF HitWrite, InCalls, TypeOK, LiveInv, Entries, NoCall
    <3>3. \A h \in GameThreads : inCall'[h] # NoCall => inCall'[h] = inCall[h]
      BY <1>17 DEF HitWrite, TypeOK
    <3> QED BY <1>17, <3>2, <3>3 DEF HitWrite, LiveInv, TypeOK, InCalls
  <2>5. CountInv'
    BY <1>17 DEF HitWrite, M, callVars, LiveInv, LockInv, CountInv, HitsExact,
       RequestInv, Active, TypeOK, Labels, InCalls, NoCall, Requests, Entries
  <2>6. BytesInv'
    BY <1>17 DEF HitWrite, M, callVars, LiveInv, LockInv, CountInv, HitsExact,
       RequestInv, Active, BytesInv, SavedBytesOriginal, CodeBytes, TypeOK, Labels,
       Requests
  <2> QED BY <2>1, <2>2, <2>3, <2>4, <2>5, <2>6
<1>18. ASSUME NEW ms \in SUBSET Methods, Clear(ms) PROVE BaseInv'
  <2>1. TypeOK'
    BY <1>18 DEF Clear, M, callVars, TypeOK, Labels, InCalls, NoCall, Entries, Requests
  <2>2. RequestInv'
    BY <1>18 DEF Clear, M, callVars, RequestInv, Active, TypeOK, Labels
  <2>3. LockInv'
    BY <1>18 DEF Clear, M, callVars, LockInv, RequestInv, Active, TypeOK, Labels,
       InCalls, NoCall, Requests
  <2>4. LiveInv'
    <3>1. \A m \in Methods : hookerMap[m] # None => hookerMap'[m] # None
      BY <1>18, NewEntry DEF Clear, TypeOK, Entries
    <3> QED BY <1>18, <3>1 DEF Clear, LiveInv, TypeOK, InCalls, callVars
  <2>5. CountInv'
    BY <1>18 DEF Clear, M, callVars, CountInv, HitsExact, LiveInv, LockInv, RequestInv,
       Active, TypeOK, Labels, InCalls, NoCall, Requests, Entries
  <2>6. BytesInv'
    BY <1>18 DEF Clear, M, callVars, BytesInv, SavedBytesOriginal, CodeBytes,
       RequestInv, Active, TypeOK, Labels, Requests
  <2> QED BY <2>1, <2>2, <2>3, <2>4, <2>5, <2>6
<1>19. CASE UNCHANGED vars
  BY <1>19 DEF vars, TypeOK, RequestInv, LockInv, LiveInv, CountInv, HitsExact, BytesInv,
     SavedBytesOriginal, Active, M
<1> QED
  BY <1>1, <1>2, <1>3, <1>4, <1>5, <1>6, <1>7, <1>8, <1>9, <1>10, <1>11, <1>12, <1>13,
     <1>14, <1>15, <1>16, <1>17, <1>18, <1>19 DEF Next, LockStep, FreeStep

\* The invariant that holds of raced methods too.
LEMMA BaseAlways == Spec => []BaseInv
  BY BaseInit, BaseStep, PTL DEF Spec

\* Every variable of the registry keeps its type, whichever calls overlap.
THEOREM Typing == Spec => []TypeOK
  BY BaseAlways, PTL DEF BaseInv

\* No hit of a live entry is ever lost (Frida.cpp:129): the count in the map is the
\* number of on_enter calls since it was zeroed, whichever calls overlap.
THEOREM HitsAlwaysExact == Spec => []HitsExact
  BY BaseAlways, PTL DEF BaseInv, CountInv

\* The bytes saved as original never are those of a hook (Tool.cpp:881), whichever
\* calls overlap.
THEOREM SavedBytesAlwaysOriginal == Spec => []SavedBytesOriginal
  BY BaseAlways, PTL DEF BaseInv, BytesInv

-----------------------------------------------------------------------------
\* In the initial state every method is off and consistent.
LEMMA CallInit == Init => CallInv
  BY DEF Init, CallInv, NoDanglingListener, InWindow, Window, Consistent

\* hookerMap has the same keys after a step, as far as m is concerned.
SameKey(m) == (hookerMap'[m] = None) <=> (hookerMap[m] = None)

\* How a step of t in its window leaves its method: as PhaseInv says of the next
\* step, or consistent when it was the last; setting silent moves no key.
Leaves(t) ==
  /\ pc'[t] \in Window => PhaseInv(pc[t], M(t))'
  /\ pc'[t] \notin Window => Consistent(M(t))'
  /\ pc[t] = "setSilent" => /\ pc'[t] \notin Window
                            /\ SameKey(M(t))
                            /\ traceListeners'[M(t)] = traceListeners[M(t)]

\* A step of a call in its window disturbs no other call: only its own method has
\* to be looked at.
LEMMA WindowStep ==
  ASSUME TypeOK, RequestInv, CallInv, NEW t \in Togglers, pc[t] \in Window,
         M(t) \in Methods, UNCHANGED <<req, raced>>,
         \A u \in Togglers \ {t} : pc'[u] = pc[u],
         \A m \in Methods \ {M(t)} : SameKey(m) /\ traceListeners'[m] = traceListeners[m],
         M(t) \notin raced => Leaves(t), NoDanglingListener'
  PROVE  CallInv'
<1>1. \A u \in Togglers : M(u)' = M(u)
  BY DEF M
<1>2. \A u \in Togglers \ {t}, m \in Methods : InWindow(u, m)' <=> InWindow(u, m)
  BY <1>1 DEF InWindow
<1>3. \A m \in Methods : InWindow(t, m)' => InWindow(t, m) /\ m = M(t)
  BY <1>1 DEF InWindow
<1>4. ASSUME NEW u \in Togglers, NEW v \in Togglers, NEW m \in Methods \ raced,
             u # v, InWindow(u, m)', InWindow(v, m)'
      PROVE  pc'[u] = "setSilent" /\ pc'[v] = "setSilent"
  <2>1. InWindow(u, m) /\ InWindow(v, m)
    BY <1>2, <1>3, <1>4
  <2>2. pc[u] = "setSilent" /\ pc[v] = "setSilent"
    BY <1>4, <2>1 DEF CallInv
  <2>3. u # t /\ v # t
    BY <1>3, <1>4, <2>2 DEF Leaves, InWindow
  <2> QED BY <2>2, <2>3
<1>5. ASSUME NEW u \in Togglers, NEW m \in Methods \ raced, InWindow(u, m)'
      PROVE  PhaseInv(pc[u], m)'
  <2>1. CASE u = t
    BY <1>3, <1>5, <2>1 DEF Leaves, InWindow
  <2>2. CASE u # t
    <3>1. InWindow(u, m) /\ pc'[u] = pc[u] /\ PhaseInv(pc[u], m)
      BY <1>2, <1>5, <2>2 DEF CallInv
    <3>2. CASE m = M(t)
      <4>1. pc[u] = "setSilent" /\ pc[t] = "setSilent"
        BY <2>2, <3>1, <3>2 DEF CallInv, InWindow
      <4>2. SameKey(m) /\ traceListeners'[m] = traceListeners[m]
        BY <1>5, <3>2, <4>1 DEF Leaves
      <4> QED BY <3>1, <4>1, <4>2 DEF PhaseInv, SameKey
    <3>3. CASE m # M(t)
      BY <3>1, <3>3 DEF PhaseInv, SameKey
    <3> QED BY <3>2, <3>3
  <2> QED BY <2>1, <2>2
<1>6. ASSUME NEW m \in Methods \ raced, \A u \in Togglers : ~InWindow(u, m)'
      PROVE  Consistent(m)'
  <2>1. CASE m = M(t)
    BY <1>1, <1>6, <2>1 DEF Leaves, InWindow
  <2>2. CASE m # M(t)
    <3>1. \A u \in Togglers : ~InWindow(u, m)
      BY <1>2, <1>6, <2>2 DEF InWindow
    <3> QED BY <2>2, <3>1 DEF CallInv, Consistent, SameKey
  <2> QED BY <2>1, <2>2
<1> QED BY <1>4, <1>5, <1>6 DEF CallInv

\* A step outside every window that keeps each method's key and listener.
LEMMA SameKeys ==
  ASSUME CallInv, UNCHANGED <<traceListeners, dangling, raced>>,
         \A u \in Togglers, m \in Methods : InWindow(u, m)' <=> InWindow(u, m),
         \A u \in Togglers : pc[u] \in Window => pc'[u] = pc[u],
         \A m \in Methods : SameKey(m)
  PROVE  CallInv'
<1>1. \A u \in Togglers, m \in Methods : InWindow(u, m) => pc'[u] = pc[u]
  BY DEF InWindow
<1>2. \A u \in Togglers, m \in Methods \ raced : InWindow(u, m)' => PhaseInv(pc[u], m)'
  BY <1>1 DEF CallInv, PhaseInv, SameKey
<1>3. \A m \in Methods \ raced : (\A t \in Togglers : ~InWindow(t, m)') => Consistent(m)'
  BY DEF CallInv, Consistent, SameKey
<1>4. NoDanglingListener'
  BY DEF CallInv, NoDanglingListener
<1> QED BY <1>1, <1>2, <1>3, <1>4 DEF CallInv

\* A look-up either finds nobody else in a window on its method, or has raced.
LEMMA FindStep ==
  ASSUME TypeOK, RequestInv, CallInv, NEW t \in Togglers, Find(t)
  PROVE  CallInv'
<1> DEFINE m == M(t)
<1>1. /\ pc[t] = "find" /\ m \in Methods /\ req[t].state \in {-1, 0, 1}
      /\ UNCHANGED <<hookerMap, traceListeners, dangling, req>>
      /\ \A u \in Togglers \ {t} : pc'[u] = pc[u]
      /\ pc'[t] \in {"store", "untrace", "setSilent", "return"}
      /\ raced' \in {raced, raced \cup {m}}
  BY ActiveRequest DEF Find, Open, Finish, Goto, TypeOK
<1>2. \A u \in Togglers : M(u)' = M(u)
  BY <1>1 DEF M
<1>3. \A u \in Togglers \ {t}, n \in Methods : InWindow(u, n)' <=> InWindow(u, n)
  BY <1>1, <1>2 DEF InWindow
<1>4. \A n \in Methods : ~InWindow(t, n)
  BY <1>1 DEF InWindow, Window
<1>5. \A n \in Methods : InWindow(t, n)' => n = m /\ pc'[t] # "return"
  BY <1>1, <1>2 DEF InWindow, Window
\* What others in their windows are doing on m, when m has not been raced on.
<1>6. ASSUME m \notin raced', pc'[t] # "return", NEW u \in Togglers \ {t}, InWindow(u, m)
      PROVE  pc[u] = "setSilent" /\ pc'[t] = "setSilent"
  <2>1. ~Races(t, pc'[t])
    BY <1>1, <1>6 DEF Find, Open, Finish, Goto, TypeOK
  <2> QED BY <1>6, <2>1 DEF Races, InWindow
<1>7. ASSUME m \notin raced', pc'[t] # "return"
      PROVE  PhaseInv(pc[t], m)'
  <2>1. /\ pc'[t] = "store" => hookerMap[m] = None
        /\ pc'[t] \in {"untrace", "setSilent"} => hookerMap[m] # None
    BY <1>1, <1>7 DEF Find, Open, Finish, Goto, TypeOK
  <2>2. Consistent(m)
    <3>1. CASE \E u \in Togglers \ {t} : InWindow(u, m)
      BY <1>1, <1>6, <1>7, <3>1 DEF CallInv, PhaseInv, Consistent
    <3>2. CASE ~\E u \in Togglers \ {t} : InWindow(u, m)
      BY <1>1, <1>4, <1>7, <3>2 DEF CallInv
    <3> QED BY <3>1, <3>2
  <2> QED BY <1>1, <1>2, <1>7, <2>1, <2>2 DEF Consistent, PhaseInv
<1>8. ASSUME NEW u \in Togglers, NEW v \in Togglers, NEW n \in Methods \ raced',
             u # v, InWindow(u, n)', InWindow(v, n)'
      PROVE  pc'[u] = "setSilent" /\ pc'[v] = "setSilent"
  <2>1. CASE u # t /\ v # t
    BY <1>1, <1>3, <1>8, <2>1 DEF CallInv
  <2>2. CASE u = t
    BY <1>1, <1>3, <1>5, <1>6, <1>8, <2>2
  <2>3. CASE v = t
    BY <1>1, <1>3, <1>5, <1>6, <1>8, <2>3
  <2> QED BY <2>1, <2>2, <2>3
<1>9. ASSUME NEW u \in Togglers, NEW n \in Methods \ raced', InWindow(u, n)'
      PROVE  PhaseInv(pc[u], n)'
  <2>1. CASE u = t
    BY <1>2, <1>5, <1>7, <1>9, <2>1
  <2>2. CASE u # t
    <3>1. PhaseInv(pc[u], n) /\ pc'[u] = pc[u]
      BY <1>1, <1>3, <1>9, <2>2 DEF CallInv
    <3> QED BY <1>1, <3>1 DEF PhaseInv
  <2> QED BY <2>1, <2>2
<1>10. ASSUME NEW n \in Methods \ raced', \A u \in Togglers : ~InWindow(u, n)'
       PROVE  Consistent(n)'
  BY <1>1, <1>3, <1>4, <1>10 DEF CallInv, Consistent
<1>11. NoDanglingListener'
  BY <1>1 DEF CallInv, NoDanglingListener
<1> QED BY <1>8, <1>9, <1>10, <1>11 DEF CallInv

\* Every step keeps CallInv: one step per action.
LEMMA CallStep == BaseInv /\ CallInv /\ [Next]_vars => CallInv'
<1> SUFFICES ASSUME BaseInv, CallInv, [Next]_vars PROVE CallInv'
  OBVIOUS
<1> USE RegistryAssumption DEF BaseInv
<1>1. ASSUME NEW t \in Togglers, NEW r \in Requests, Call(t, r) PROVE CallInv'
  <2>1. \A u \in Togglers \ {t} : pc'[u] = pc[u] /\ req'[u] = req[u]
    BY <1>1 DEF Call, Goto, TypeOK
  <2>2. pc[t] \notin Window /\ pc'[t] \notin Window
    BY <1>1 DEF Call, Goto, TypeOK, Window
  <2> QED BY <1>1, <2>1, <2>2, SameKeys DEF Call, SameKey, InWindow, M
<1>2. ASSUME NEW t \in Togglers, SaveBytes(t) PROVE CallInv'
  <2>1. \A u \in Togglers \ {t} : pc'[u] = pc[u] /\ req'[u] = req[u]
    BY <1>2 DEF SaveBytes, Goto, TypeOK
  <2>2. pc[t] \notin Window /\ pc'[t] \notin Window
    BY <1>2 DEF SaveBytes, Goto, TypeOK, Window
  <2> QED BY <1>2, <2>1, <2>2, SameKeys DEF SaveBytes, SameKey, InWindow, M
<1>3. ASSUME NEW t \in Togglers, Find(t) PROVE CallInv'
  BY <1>3, FindStep
<1>4. ASSUME NEW t \in Togglers, SetSilent(t) PROVE CallInv'
  <2>1. pc[t] \in Window /\ M(t) \in Methods /\ M(t)' = M(t)
        /\ UNCHANGED <<req, raced>> /\ \A u \in Togglers \ {t} : pc'[u] = pc[u]
    BY <1>4, ActiveRequest DEF M, SetSilent, Goto, Finish, Window, TypeOK
  <2>2. M(t) \notin raced => PhaseInv(pc[t], M(t))
    BY <2>1 DEF CallInv, InWindow
  <2>3. \A m \in Methods \ {M(t)} : SameKey(m) /\ traceListeners'[m] = traceListeners[m]
    BY <1>4, <2>1, NewEntry DEF SetSilent, Goto, Finish, TypeOK, SameKey
  <2>4. ASSUME M(t) \notin raced PROVE Leaves(t)
    <3>0. hookerMap'[M(t)] # None
      <4>1. req[t].silent \in BOOLEAN
        BY <1>4, ActiveRequest DEF SetSilent
      <4>2. hookerMap[M(t)] # None => hookerMap[M(t)].hitCount \in Nat
        BY <2>1 DEF TypeOK, Entries
      <4> QED BY <1>4, <2>1, <4>1, <4>2, NewEntry DEF SetSilent, TypeOK
    <3>1. pc'[t] \in Window => PhaseInv(pc[t], M(t))'
      BY <1>4, <2>1, <2>2, <2>4, <3>0 DEF SetSilent, Goto, Finish, TypeOK, PhaseInv, Window
    <3>2. pc'[t] \notin Window => Consistent(M(t))'
      BY <1>4, <2>1, <2>2, <2>4, <3>0 DEF SetSilent, Goto, Finish, TypeOK, PhaseInv, Consistent, Window, Entries
    <3>3. pc[t] = "setSilent" =>
            pc'[t] \notin Window /\ SameKey(M(t)) /\ traceListeners'[M(t)] = traceListeners[M(t)]
      BY <1>4, <2>1, <2>2, <2>4, <3>0 DEF SetSilent, Goto, Finish, TypeOK, PhaseInv, SameKey, Window
    <3> QED BY <3>1, <3>2, <3>3 DEF Leaves
  <2>5. NoDanglingListener'
    BY <1>4, <2>1, <2>2 DEF SetSilent, Goto, Finish, PhaseInv, CallInv, NoDanglingListener
  <2> QED BY <2>1, <2>3, <2>4, <2>5, WindowStep
<1>5. ASSUME NEW t \in Togglers, EnableStore(t) PROVE CallInv'
  <2>1. pc[t] \in Window /\ M(t) \in Methods /\ M(t)' = M(t)
        /\ UNCHANGED <<req, raced>> /\ \A u \in Togglers \ {t} : pc'[u] = pc[u]
    BY <1>5, ActiveRequest DEF M, EnableStore, Goto, Window, TypeOK
  <2>2. M(t) \notin raced => PhaseInv(pc[t], M(t))
    BY <2>1 DEF CallInv, InWindow
  <2>3. \A m \in Methods \ {M(t)} : SameKey(m) /\ traceListeners'[m] = traceListeners[m]
    BY <1>5, <2>1, NewEntry DEF EnableStore, Goto, TypeOK, SameKey
  <2>4. ASSUME M(t) \notin raced PROVE Leaves(t)
    <3>0. hookerMap'[M(t)] # None
      <4>1. req[t].silent \in BOOLEAN
        BY <1>5, ActiveRequest DEF EnableStore
      <4>2. hookerMap[M(t)] # None => hookerMap[M(t)].hitCount \in Nat
        BY <2>1 DEF TypeOK, Entries
      <4> QED BY <1>5, <2>1, <4>1, <4>2, NewEntry DEF EnableStore, TypeOK
    <3>1. pc'[t] \in Window => PhaseInv(pc[t], M(t))'
      BY <1>5, <2>1, <2>2, <2>4, <3>0 DEF EnableStore, Goto, TypeOK, PhaseInv, Window
    <3>2. pc'[t] \notin Window => Consistent(M(t))'
      BY <1>5, <2>1, <2>2, <2>4, <3>0 DEF EnableStore, Goto, TypeOK, PhaseInv, Consistent, Window
    <3>3. pc[t] = "setSilent" =>
            pc'[t] \notin Window /\ SameKey(M(t)) /\ traceListeners'[M(t)] = traceListeners[M(t)]
      BY <1>5, <2>1, <2>2, <2>4, <3>0 DEF EnableStore, Goto, TypeOK, PhaseInv, SameKey, Window
    <3> QED BY <3>1, <3>2, <3>3 DEF Leaves
  <2>5. NoDanglingListener'
    BY <1>5, <2>1, <2>2 DEF EnableStore, Goto, PhaseInv, CallInv, NoDanglingListener
  <2> QED BY <2>1, <2>3, <2>4, <2>5, WindowStep
<1>6. ASSUME NEW t \in Togglers, AlreadyTraced(t) PROVE CallInv'
  <2>1. pc[t] \in Window /\ M(t) \in Methods /\ M(t)' = M(t)
        /\ UNCHANGED <<req, raced>> /\ \A u \in Togglers \ {t} : pc'[u] = pc[u]
    BY <1>6, ActiveRequest DEF M, AlreadyTraced, Goto, Finish, EraseEntry, Window, TypeOK
  <2>2. M(t) \notin raced => PhaseInv(pc[t], M(t))
    BY <2>1 DEF CallInv, InWindow
  <2>3. \A m \in Methods \ {M(t)} : SameKey(m) /\ traceListeners'[m] = traceListeners[m]
    BY <1>6, <2>1 DEF AlreadyTraced, Goto, Finish, EraseEntry, TypeOK, SameKey
  <2>4. ASSUME M(t) \notin raced PROVE Leaves(t)
    <3>1. pc'[t] \in Window => PhaseInv(pc[t], M(t))'
      BY <1>6, <2>1, <2>2, <2>4 DEF AlreadyTraced, Goto, Finish, EraseEntry, TypeOK, PhaseInv, Window
    <3>2. pc'[t] \notin Window => Consistent(M(t))'
      BY <1>6, <2>1, <2>2, <2>4 DEF AlreadyTraced, Goto, Finish, EraseEntry, TypeOK, PhaseInv, Consistent, Window
    <3>3. pc[t] = "setSilent" =>
            pc'[t] \notin Window /\ SameKey(M(t)) /\ traceListeners'[M(t)] = traceListeners[M(t)]
      BY <1>6, <2>1, <2>2, <2>4 DEF AlreadyTraced, Goto, Finish, EraseEntry, TypeOK, PhaseInv, SameKey, Window
    <3> QED BY <3>1, <3>2, <3>3 DEF Leaves
  <2>5. NoDanglingListener'
    BY <1>6, <2>1, <2>2 DEF AlreadyTraced, Goto, Finish, EraseEntry, PhaseInv, CallInv, NoDanglingListener
  <2> QED BY <2>1, <2>3, <2>4, <2>5, WindowStep
<1>7. ASSUME NEW t \in Togglers, TraceInsert(t) PROVE CallInv'
  <2>1. pc[t] \in Window /\ M(t) \in Methods /\ M(t)' = M(t)
        /\ UNCHANGED <<req, raced>> /\ \A u \in Togglers \ {t} : pc'[u] = pc[u]
    BY <1>7, ActiveRequest DEF M, TraceInsert, Goto, Window, TypeOK
  <2>2. M(t) \notin raced => PhaseInv(pc[t], M(t))
    BY <2>1 DEF CallInv, InWindow
  <2>3. \A m \in Methods \ {M(t)} : SameKey(m) /\ traceListeners'[m] = traceListeners[m]
    BY <1>7, <2>1 DEF TraceInsert, Goto, TypeOK, SameKey
  <2>4. ASSUME M(t) \notin raced PROVE Leaves(t)
    <3>1. pc'[t] \in Window => PhaseInv(pc[t], M(t))'
      BY <1>7, <2>1, <2>2, <2>4 DEF TraceInsert, Goto, TypeOK, PhaseInv, Window
    <3>2. pc'[t] \notin Window => Consistent(M(t))'
      BY <1>7, <2>1, <2>2, <2>4 DEF TraceInsert, Goto, TypeOK, PhaseInv, Consistent, Window
    <3>3. pc[t] = "setSilent" =>
            pc'[t] \notin Window /\ SameKey(M(t)) /\ traceListeners'[M(t)] = traceListeners[M(t)]
      BY <1>7, <2>1, <2>2, <2>4 DEF TraceInsert, Goto, TypeOK, PhaseInv, SameKey, Window
    <3> QED BY <3>1, <3>2, <3>3 DEF Leaves
  <2>5. NoDanglingListener'
    BY <1>7, <2>1, <2>2 DEF TraceInsert, Goto, PhaseInv, CallInv, NoDanglingListener
  <2> QED BY <2>1, <2>3, <2>4, <2>5, WindowStep
<1>8. ASSUME NEW t \in Togglers, Attached(t) PROVE CallInv'
  <2>1. pc[t] \in Window /\ M(t) \in Methods /\ M(t)' = M(t)
        /\ UNCHANGED <<req, raced>> /\ \A u \in Togglers \ {t} : pc'[u] = pc[u]
    BY <1>8, ActiveRequest DEF M, Attached, Goto, Finish, Window, TypeOK
  <2>2. M(t) \notin raced => PhaseInv(pc[t], M(t))
    BY <2>1 DEF CallInv, InWindow
  <2>3. \A m \in Methods \ {M(t)} : SameKey(m) /\ traceListeners'[m] = traceListeners[m]
    BY <1>8, <2>1 DEF Attached, Goto, Finish, TypeOK, SameKey
  <2>4. ASSUME M(t) \notin raced PROVE Leaves(t)
    <3>1. pc'[t] \in Window => PhaseInv(pc[t], M(t))'
      BY <1>8, <2>1, <2>2, <2>4 DEF Attached, Goto, Finish, TypeOK, PhaseInv, Window
    <3>2. pc'[t] \notin Window => Consistent(M(t))'
      BY <1>8, <2>1, <2>2, <2>4 DEF Attached, Goto, Finish, TypeOK, PhaseInv, Consistent, Window
    <3>3. pc[t] = "setSilent" =>
            pc'[t] \notin Window /\ SameKey(M(t)) /\ traceListeners'[M(t)] = traceListeners[M(t)]
      BY <1>8, <2>1, <2>2, <2>4 DEF Attached, Goto, Finish, TypeOK, PhaseInv, SameKey, Window
    <3> QED BY <3>1, <3>2, <3>3 DEF Leaves
  <2>5. NoDanglingListener'
    BY <1>8, <2>1, <2>2 DEF Attached, Goto, Finish, PhaseInv, CallInv, NoDanglingListener
  <2> QED BY <2>1, <2>3, <2>4, <2>5, WindowStep
<1>9. ASSUME NEW t \in Togglers, AttachRefused(t) PROVE CallInv'
  <2>1. pc[t] \in Window /\ M(t) \in Methods /\ M(t)' = M(t)
        /\ UNCHANGED <<req, raced>> /\ \A u \in Togglers \ {t} : pc'[u] = pc[u]
    BY <1>9, ActiveRequest DEF M, AttachRefused, Goto, Finish, EraseEntry, Window, TypeOK
  <2>2. M(t) \notin raced => PhaseInv(pc[t], M(t))
    BY <2>1 DEF CallInv, InWindow
  <2>3. \A m \in Methods \ {M(t)} : SameKey(m) /\ traceListeners'[m] = traceListeners[m]
    BY <1>9, <2>1 DEF AttachRefused, Goto, Finish, EraseEntry, TypeOK, SameKey
  <2>4. ASSUME M(t) \notin raced PROVE Leaves(t)
    <3>1. pc'[t] \in Window => PhaseInv(pc[t], M(t))'
      BY <1>9, <2>1, <2>2, <2>4 DEF AttachRefused, Goto, Finish, EraseEntry, TypeOK, PhaseInv, Window
    <3>2. pc'[t] \notin Window => Consistent(M(t))'
      BY <1>9, <2>1, <2>2, <2>4 DEF AttachRefused, Goto, Finish, EraseEntry, TypeOK, PhaseInv, Consistent, Window
    <3>3. pc[t] = "setSilent" =>
            pc'[t] \notin Window /\ SameKey(M(t)) /\ traceListeners'[M(t)] = traceListeners[M(t)]
      BY <1>9, <2>1, <2>2, <2>4 DEF AttachRefused, Goto, Finish, EraseEntry, TypeOK, PhaseInv, SameKey, Window
    <3> QED BY <3>1, <3>2, <3>3 DEF Leaves
  <2>5. NoDanglingListener'
    BY <1>9, <2>1, <2>2 DEF AttachRefused, Goto, Finish, EraseEntry, PhaseInv, CallInv, NoDanglingListener
  <2> QED BY <2>1, <2>3, <2>4, <2>5, WindowStep
<1>10. ASSUME NEW t \in Togglers, UntraceDetach(t) PROVE CallInv'
  <2>1. pc[t] \in Window /\ M(t) \in Methods /\ M(t)' = M(t)
        /\ UNCHANGED <<req, raced>> /\ \A u \in Togglers \ {t} : pc'[u] = pc[u]
    BY <1>10, ActiveRequest DEF M, UntraceDetach, Goto, Window, TypeOK
  <2>2. M(t) \notin raced => PhaseInv(pc[t], M(t))
    BY <2>1 DEF CallInv, InWindow
  <2>3. \A m \in Methods \ {M(t)} : SameKey(m) /\ traceListeners'[m] = traceListeners[m]
    BY <1>10, <2>1 DEF UntraceDetach, Goto, TypeOK, SameKey
  <2>4. ASSUME M(t) \notin raced PROVE Leaves(t)
    <3>1. pc'[t] \in Window => PhaseInv(pc[t], M(t))'
      BY <1>10, <2>1, <2>2, <2>4 DEF UntraceDetach, Goto, TypeOK, PhaseInv, Window
    <3>2. pc'[t] \notin Window => Consistent(M(t))'
      BY <1>10, <2>1, <2>2, <2>4 DEF UntraceDetach, Goto, TypeOK, PhaseInv, Consistent, Window
    <3>3. pc[t] = "setSilent" =>
            pc'[t] \notin Window /\ SameKey(M(t)) /\ traceListeners'[M(t)] = traceListeners[M(t)]
      BY <1>10, <2>1, <2>2, <2>4 DEF UntraceDetach, Goto, TypeOK, PhaseInv, SameKey, Window
    <3> QED BY <3>1, <3>2, <3>3 DEF Leaves
  <2>5. NoDanglingListener'
    BY <1>10, <2>1, <2>2 DEF UntraceDetach, Goto, PhaseInv, CallInv, NoDanglingListener
  <2> QED BY <2>1, <2>3, <2>4, <2>5, WindowStep
<1>11. ASSUME NEW t \in Togglers, UntraceDrop(t) PROVE CallInv'
  <2>1. pc[t] \in Window /\ M(t) \in Methods /\ M(t)' = M(t)
        /\ UNCHANGED <<req, raced>> /\ \A u \in Togglers \ {t} : pc'[u] = pc[u]
    BY <1>11, ActiveRequest DEF M, UntraceDrop, Goto, Window, TypeOK
  <2>2. M(t) \notin raced => PhaseInv(pc[t], M(t))
    BY <2>1 DEF CallInv, InWindow
  <2>3. \A m \in Methods \ {M(t)} : SameKey(m) /\ traceListeners'[m] = traceListeners[m]
    BY <1>11, <2>1 DEF UntraceDrop, Goto, TypeOK, SameKey
  <2>4. ASSUME M(t) \notin raced PROVE Leaves(t)
    <3>1. pc'[t] \in Window => PhaseInv(pc[t], M(t))'
      BY <1>11, <2>1, <2>2, <2>4 DEF UntraceDrop, Goto, TypeOK, PhaseInv, Window
    <3>2. pc'[t] \notin Window => Consistent(M(t))'
      BY <1>11, <2>1, <2>2, <2>4 DEF UntraceDrop, Goto, TypeOK, PhaseInv, Consistent, Window
    <3>3. pc[t] = "setSilent" =>
            pc'[t] \notin Window /\ SameKey(M(t)) /\ traceListeners'[M(t)] = traceListeners[M(t)]
      BY <1>11, <2>1, <2>2, <2>4 DEF UntraceDrop, Goto, TypeOK, PhaseInv, SameKey, Window
    <3> QED BY <3>1, <3>2, <3>3 DEF Leaves
  <2>5. NoDanglingListener'
    BY <1>11, <2>1, <2>2 DEF UntraceDrop, Goto, PhaseInv, CallInv, NoDanglingListener
  <2> QED BY <2>1, <2>3, <2>4, <2>5, WindowStep
<1>12. ASSUME NEW t \in Togglers, UntraceMissing(t) PROVE CallInv'
  <2>1. pc[t] \in Window /\ M(t) \in Methods /\ M(t)' = M(t)
        /\ UNCHANGED <<req, raced>> /\ \A u \in Togglers \ {t} : pc'[u] = pc[u]
    BY <1>12, ActiveRequest DEF M, UntraceMissing, Goto, Window, TypeOK
  <2>2. M(t) \notin raced => PhaseInv(pc[t], M(t))
    BY <2>1 DEF CallInv, InWindow
  <2>3. \A m \in Methods \ {M(t)} : SameKey(m) /\ traceListeners'[m] = traceListeners[m]
    BY <1>12, <2>1 DEF UntraceMissing, Goto, TypeOK, SameKey
  <2>4. ASSUME M(t) \notin raced PROVE Leaves(t)
    <3>1. pc'[t] \in Window => PhaseInv(pc[t], M(t))'
      BY <1>12, <2>1, <2>2, <2>4 DEF UntraceMissing, Goto, TypeOK, PhaseInv, Window
    <3>2. pc'[t] \notin Window => Consistent(M(t))'
      BY <1>12, <2>1, <2>2, <2>4 DEF UntraceMissing, Goto, TypeOK, PhaseInv, Consistent, Window
    <3>3. pc[t] = "setSilent" =>
            pc'[t] \notin Window /\ SameKey(M(t)) /\ traceListeners'[M(t)] = traceListeners[M(t)]
      BY <1>12, <2>1, <2>2, <2>4 DEF UntraceMissing, Goto, TypeOK, PhaseInv, SameKey, Window
    <3> QED BY <3>1, <3>2, <3>3 DEF Leaves
  <2>5. NoDanglingListener'
    BY <1>12, <2>1, <2>2 DEF UntraceMissing, Goto, PhaseInv, CallInv, NoDanglingListener
  <2> QED BY <2>1, <2>3, <2>4, <2>5, WindowStep
<1>13. ASSUME NEW t \in Togglers, DisableErase(t) PROVE CallInv'
  <2>1. pc[t] \in Window /\ M(t) \in Methods /\ M(t)' = M(t)
        /\ UNCHANGED <<req, raced>> /\ \A u \in Togglers \ {t} : pc'[u] = pc[u]
    BY <1>13, ActiveRequest DEF M, DisableErase, Goto, EraseEntry, Window, TypeOK
  <2>2. M(t) \notin raced => PhaseInv(pc[t], M(t))
    BY <2>1 DEF CallInv, InWindow
  <2>3. \A m \in Methods \ {M(t)} : SameKey(m) /\ traceListeners'[m] = traceListeners[m]
    BY <1>13, <2>1 DEF DisableErase, Goto, EraseEntry, TypeOK, SameKey
  <2>4. ASSUME M(t) \notin raced PROVE Leaves(t)
    <3>1. pc'[t] \in Window => PhaseInv(pc[t], M(t))'
      BY <1>13, <2>1, <2>2, <2>4 DEF DisableErase, Goto, EraseEntry, TypeOK, PhaseInv, Window
    <3>2. pc'[t] \notin Window => Consistent(M(t))'
      BY <1>13, <2>1, <2>2, <2>4 DEF DisableErase, Goto, EraseEntry, TypeOK, PhaseInv, Consistent, Window
    <3>3. pc[t] = "setSilent" =>
            pc'[t] \notin Window /\ SameKey(M(t)) /\ traceListeners'[M(t)] = traceListeners[M(t)]
      BY <1>13, <2>1, <2>2, <2>4 DEF DisableErase, Goto, EraseEntry, TypeOK, PhaseInv, SameKey, Window
    <3> QED BY <3>1, <3>2, <3>3 DEF Leaves
  <2>5. NoDanglingListener'
    BY <1>13, <2>1, <2>2 DEF DisableErase, Goto, EraseEntry, PhaseInv, CallInv, NoDanglingListener
  <2> QED BY <2>1, <2>3, <2>4, <2>5, WindowStep
<1>14. ASSUME NEW t \in Togglers, Return(t) PROVE CallInv'
  <2>1. \A u \in Togglers \ {t} : pc'[u] = pc[u] /\ req'[u] = req[u]
    BY <1>14 DEF Return, Goto, TypeOK
  <2>2. pc[t] \notin Window /\ pc'[t] \notin Window
    BY <1>14 DEF Return, Goto, TypeOK, Window
  <2> QED BY <1>14, <2>1, <2>2, SameKeys DEF Return, SameKey, InWindow, M
<1>15. ASSUME NEW g \in GameThreads, NEW m \in Methods, Enter(g, m) PROVE CallInv'
  BY <1>15, SameKeys DEF Enter, callVars, SameKey, InWindow, M
<1>16. ASSUME NEW g \in GameThreads, HitRead(g) PROVE CallInv'
  BY <1>16, SameKeys DEF HitRead, callVars, SameKey, InWindow, M
<1>17. ASSUME NEW g \in GameThreads, HitWrite(g) PROVE CallInv'
  <2>1. inCall[g] \in InCalls
    BY <1>17 DEF HitWrite, TypeOK, NoCall
  <2>2. ASSUME NEW m \in Methods PROVE SameKey(m)
    BY <1>17, <2>1, NewEntry DEF HitWrite, InCalls, TypeOK, LiveInv, Entries, NoCall,
       SameKey
  <2> QED BY <1>17, <2>2, SameKeys DEF HitWrite, callVars, InWindow, M
<1>18. ASSUME NEW ms \in SUBSET Methods, Clear(ms) PROVE CallInv'
  <2>1. ASSUME NEW m \in Methods PROVE SameKey(m)
    BY <1>18, NewEntry DEF Clear, TypeOK, Entries, SameKey
  <2> QED BY <1>18, <2>1, SameKeys DEF Clear, callVars, InWindow, M
<1>19. CASE UNCHANGED vars
  BY <1>19, SameKeys DEF vars, SameKey, InWindow, M
<1> QED
  BY <1>1, <1>2, <1>3, <1>4, <1>5, <1>6, <1>7, <1>8, <1>9, <1>10, <1>11, <1>12, <1>13,
     <1>14, <1>15, <1>16, <1>17, <1>18, <1>19 DEF Next, LockStep, FreeStep

\* CallInv holds of every behaviour.
LEMMA CallAlways == Spec => []CallInv
  BY BaseAlways, CallInit, CallStep, PTL DEF Spec

\* The map, the listener table and the interceptor agree about every method that no
\* call is about and no two calls have raced on, whichever other methods they raced
\* on (Tool.cpp:908-1057).
THEOREM RegistryAlwaysConsistent == Spec => []RegistryConsistent
<1>1. BaseInv /\ CallInv => RegistryConsistent
  <2> SUFFICES ASSUME BaseInv, CallInv, NEW m \in Methods \ raced, Quiet(m)
               PROVE  Consistent(m)
    BY DEF RegistryConsistent, Consistent
  <2>1. \A t \in Togglers : ~InWindow(t, m)
    BY DEF Quiet, Active, InWindow, Window
  <2> QED BY <2>1 DEF CallInv
<1> QED BY <1>1, BaseAlways, CallAlways, PTL

\* A running listener points to an erased HookerData only where two calls raced on
\* its method (Tool.cpp:1006-1019).
THEOREM NeverDangling == Spec => []NoDanglingListener
  BY CallAlways, PTL DEF CallInv

-----------------------------------------------------------------------------
\* A step of toggler t's own call changes AbsCall at t only.
LEMMA AbsCallUpdate ==
  ASSUME TypeOK, NEW t \in Togglers,
         \A u \in Togglers \ {t} : pc'[u] = pc[u] /\ req'[u] = req[u] /\ result'[u] = result[u]
  PROVE  AbsCall' = [AbsCall EXCEPT ![t] = AbsCall'[t]]
<1>1. \A u \in Togglers \ {t} : AbsCallOf(u)' = AbsCallOf(u)
  BY DEF AbsCallOf, Active, Effective
<1> QED BY <1>1 DEF AbsCall

\* A step that touches the listener and the entry of m only changes AbsMode at m only.
LEMMA AbsModeUpdate ==
  ASSUME NEW m \in Methods, UNCHANGED raced,
         \A n \in Methods \ {m} : hookerMap'[n] = hookerMap[n] /\ traceListeners'[n] = traceListeners[n]
  PROVE  AbsMode' = [AbsMode EXCEPT ![m] = AbsMode'[m]]
  BY DEF AbsMode

\* A call on a method already lost may answer anything, and changes no other mode.
LEMMA LostEffect ==
  ASSUME NEW t \in Togglers, NEW b \in BOOLEAN, M(t) \in Methods, M(t) \in raced, UNCHANGED raced,
         AbsMode' = [AbsMode EXCEPT ![M(t)] = AbsMode'[M(t)]],
         AbsCall[t] = Atomic!Asked(req[t]),
         AbsCall' = [AbsCall EXCEPT ![t] = Atomic!Answer(req[t], b)]
  PROVE  Atomic!TakeEffect(t)
<1>1. AbsMode[M(t)] = "lost" /\ AbsMode'[M(t)] = "lost" /\ req[t].method = M(t)
  BY DEF AbsMode, M
<1>2. <<"lost", b>> \in Atomic!Outcomes(req[t])
  BY <1>1 DEF Atomic!Outcomes
<1>3. AbsCall[t].phase = "asked" /\ AbsCall[t].req = req[t]
  BY DEF Atomic!Asked
<1>4. PICK o \in Atomic!Outcomes(req[t]) : o[1] = "lost" /\ o[2] = b
  BY <1>2
<1> QED BY <1>1, <1>3, <1>4 DEF Atomic!TakeEffect

\* A look-up that opens a window on a method others are working on loses it.
LEMMA FindLoses ==
  ASSUME BaseInv, NEW t \in Togglers, Find(t), pc'[t] # "return"
  PROVE  Atomic!Lose(t) \/ UNCHANGED <<AbsMode, AbsCall>>
<1> USE DEF BaseInv
<1>1. /\ pc[t] = "find" /\ M(t) \in Methods
      /\ pc'[t] \in {"store", "untrace", "setSilent"}
      /\ UNCHANGED <<hookerMap, traceListeners, req, result>>
      /\ \A u \in Togglers \ {t} : pc'[u] = pc[u]
      /\ raced' = IF Races(t, pc'[t]) THEN raced \cup {M(t)} ELSE raced
  BY ActiveRequest DEF Find, Open, Finish, Goto, TypeOK
<1>2. AbsCall' = AbsCall
  BY <1>1 DEF AbsCall, AbsCallOf, Active, Effective
<1>3. CASE raced' = raced
  BY <1>1, <1>2, <1>3 DEF AbsMode
<1>4. CASE Races(t, pc'[t])
  <2>1. PICK u \in Togglers \ {t} : pc[u] \in Window /\ M(u) = M(t)
    BY <1>4 DEF Races
  <2>2. AbsCall[u] # Atomic!Idle /\ AbsCall[u].req.method = M(t)
    BY <2>1 DEF AbsCall, AbsCallOf, Active, Effective, Atomic!Idle, Window, M
  <2>3. AbsCall[t].phase = "asked" /\ AbsCall[t].req.method = M(t)
    BY <1>1 DEF AbsCall, AbsCallOf, Active, Effective, M
  <2>4. AbsMode' = [AbsMode EXCEPT ![M(t)] = "lost"]
    BY <1>1, <1>4 DEF AbsMode
  <2> QED BY <1>2, <2>2, <2>3, <2>4 DEF Atomic!Lose
<1> QED BY <1>1, <1>3, <1>4

\* Every step is a step of AtomicHooks or a stutter.
LEMMA AtomicStep ==
  ASSUME BaseInv, CallInv, [Next]_vars
  PROVE  [Atomic!Next]_(Atomic!vars)
<1> USE RegistryAssumption DEF BaseInv
<1>1. ASSUME NEW t \in Togglers, NEW r \in Requests, Call(t, r) PROVE [Atomic!Next]_(Atomic!vars)
  <2>1. AbsMode' = AbsMode
    BY <1>1 DEF Call, AbsMode
  <2>2. AbsCall[t] = Atomic!Idle /\ AbsCall' = [AbsCall EXCEPT ![t] = Atomic!Asked(r)]
    BY <1>1, AbsCallUpdate DEF Call, Goto, AbsCall, AbsCallOf, Active, Effective,
       TypeOK, Atomic!Idle, Atomic!Asked
  <2>3. r \in Atomic!Requests
    BY DEF Requests, Atomic!Requests
  <2> QED BY <2>1, <2>2, <2>3 DEF Atomic!Next, Atomic!Begin
<1>2. ASSUME NEW t \in Togglers, SaveBytes(t) PROVE UNCHANGED <<AbsMode, AbsCall>>
  <2>1. AbsMode' = AbsMode
    BY <1>2 DEF SaveBytes, AbsMode
  <2>2. AbsCall' = AbsCall
    BY <1>2 DEF SaveBytes, Goto, AbsCall, AbsCallOf, Active, Effective, TypeOK
  <2> QED BY <2>1, <2>2
<1>3. ASSUME NEW t \in Togglers, EnableStore(t) PROVE UNCHANGED <<AbsMode, AbsCall>>
  <2>1. M(t) \in Methods /\ (M(t) \notin raced => PhaseInv(pc[t], M(t)))
    BY <1>3, ActiveRequest DEF EnableStore, CallInv, InWindow, Window
  <2>2. AbsMode' = AbsMode
    BY <1>3, <2>1 DEF EnableStore, Goto, AbsMode, TypeOK, PhaseInv
  <2>3. AbsCall' = AbsCall
    BY <1>3 DEF EnableStore, Goto, AbsCall, AbsCallOf, Active, Effective, TypeOK
  <2> QED BY <2>2, <2>3
<1>4. ASSUME NEW t \in Togglers, TraceInsert(t) PROVE UNCHANGED <<AbsMode, AbsCall>>
  <2>1. M(t) \in Methods /\ (M(t) \notin raced => PhaseInv(pc[t], M(t)))
    BY <1>4, ActiveRequest DEF TraceInsert, CallInv, InWindow, Window
  <2>2. AbsMode' = AbsMode
    BY <1>4, <2>1 DEF TraceInsert, Goto, AbsMode, TypeOK, PhaseInv
  <2>3. AbsCall' = AbsCall
    BY <1>4 DEF TraceInsert, Goto, AbsCall, AbsCallOf, Active, Effective, TypeOK
  <2> QED BY <2>2, <2>3
<1>5. ASSUME NEW t \in Togglers, UntraceDrop(t) PROVE UNCHANGED <<AbsMode, AbsCall>>
  <2>1. M(t) \in Methods /\ (M(t) \notin raced => PhaseInv(pc[t], M(t)))
    BY <1>5, ActiveRequest DEF UntraceDrop, CallInv, InWindow, Window
  <2>2. AbsMode' = AbsMode
    BY <1>5, <2>1 DEF UntraceDrop, Goto, AbsMode, TypeOK, PhaseInv
  <2>3. AbsCall' = AbsCall
    BY <1>5 DEF UntraceDrop, Goto, AbsCall, AbsCallOf, Active, Effective, TypeOK
  <2> QED BY <2>2, <2>3
<1>6. ASSUME NEW t \in Togglers, DisableErase(t) PROVE UNCHANGED <<AbsMode, AbsCall>>
  <2>1. M(t) \in Methods /\ (M(t) \notin raced => PhaseInv(pc[t], M(t)))
    BY <1>6, ActiveRequest DEF DisableErase, CallInv, InWindow, Window
  <2>2. AbsMode' = AbsMode
    BY <1>6, <2>1 DEF DisableErase, Goto, EraseEntry, AbsMode, TypeOK, PhaseInv
  <2>3. AbsCall' = AbsCall
    BY <1>6 DEF DisableErase, Goto, EraseEntry, AbsCall, AbsCallOf, Active, Effective, TypeOK
  <2> QED BY <2>2, <2>3
\* The steps at which a call takes effect.
<1>7. ASSUME NEW t \in Togglers,
             \/ Find(t) /\ pc'[t] = "return"
             \/ SetSilent(t) \/ AlreadyTraced(t) \/ Attached(t) \/ AttachRefused(t)
             \/ UntraceDetach(t) \/ UntraceMissing(t)
      PROVE  Atomic!TakeEffect(t)
  <2> DEFINE m == M(t)
  <2>1. /\ m \in Methods /\ m = req[t].method /\ UNCHANGED <<req, raced>>
        /\ req[t].state \in {-1, 0, 1} /\ req[t].silent \in BOOLEAN
        /\ req[t].silent => req[t].state = 1
    BY <1>7, ActiveRequest DEF Find, Open, SetSilent, AlreadyTraced, Attached, AttachRefused,
       UntraceDetach, UntraceMissing, Active, M, RequestInv, Requests, Goto, Finish, TypeOK
  <2>2. \A u \in Togglers \ {t} : pc'[u] = pc[u] /\ req'[u] = req[u] /\ result'[u] = result[u]
    BY <1>7 DEF Find, Open, SetSilent, AlreadyTraced, Attached, AttachRefused,
       UntraceDetach, UntraceMissing, Goto, Finish, TypeOK
  <2>3. AbsCall' = [AbsCall EXCEPT ![t] = AbsCall'[t]]
    BY <2>2, AbsCallUpdate
  <2>4. AbsMode' = [AbsMode EXCEPT ![m] = AbsMode'[m]]
    <3>1. \A n \in Methods \ {m} : hookerMap'[n] = hookerMap[n] /\ traceListeners'[n] = traceListeners[n]
      BY <1>7, <2>1 DEF Find, Open, SetSilent, AlreadyTraced, Attached, AttachRefused,
         UntraceDetach, UntraceMissing, EraseEntry, TypeOK
    <3> QED BY <2>1, <3>1, AbsModeUpdate
  <2>5. AbsCall[t] = Atomic!Asked(req[t])
    BY <1>7 DEF Find, SetSilent, AlreadyTraced, Attached, AttachRefused, UntraceDetach,
       UntraceMissing, AbsCall, AbsCallOf, Active, Effective, Atomic!Asked
  <2>6. \E b \in BOOLEAN : AbsCall'[t] = Atomic!Answer(req[t], b)
    BY <1>7, <2>1 DEF Find, Open, SetSilent, AlreadyTraced, Attached, AttachRefused,
       UntraceDetach, UntraceMissing, Goto, Finish, AbsCall, AbsCallOf, Active, Effective,
       TypeOK, Atomic!Answer
  <2>7. CASE m \in raced
    BY <2>1, <2>3, <2>4, <2>5, <2>6, <2>7, LostEffect
  <2>8. ASSUME NEW o \in Atomic!Outcomes(req[t]), AbsMode'[m] = o[1],
               AbsCall'[t] = Atomic!Answer(req[t], o[2])
        PROVE  Atomic!TakeEffect(t)
    BY <2>1, <2>3, <2>4, <2>5, <2>8 DEF Atomic!TakeEffect, Atomic!Asked
  <2>9. CASE m \notin raced
    <3>1. CASE Find(t) /\ pc'[t] = "return"
      <4>1. hookerMap[m] = None /\ req[t].state = 0
        BY <2>1, <3>1 DEF Find, Open, Goto, TypeOK
      <4>2. ~\E u \in Togglers : InWindow(u, m) /\ pc[u] # "store"
        BY <2>1, <2>9, <4>1 DEF CallInv, InWindow, Window, PhaseInv
      <4>3. traceListeners[m] # "attached"
        BY <2>1, <2>9, <4>1, <4>2 DEF CallInv, Consistent, PhaseInv
      <4>4. /\ AbsMode[m] = "off" /\ AbsMode'[m] = "off"
            /\ AbsCall'[t] = Atomic!Answer(req[t], TRUE)
        BY <2>1, <2>9, <3>1, <4>3 DEF Find, Open, Goto, Finish, AbsMode, AbsCall,
           AbsCallOf, Active, Effective, TypeOK, Atomic!Answer
      <4>5. <<"off", TRUE>> \in Atomic!Outcomes(req[t])
        BY <2>1, <4>1, <4>4 DEF Atomic!Outcomes
      <4> QED BY <2>8, <4>4, <4>5
    <3>2. ~(Find(t) /\ pc'[t] = "return") => PhaseInv(pc[t], m)
      BY <1>7, <2>1, <2>9 DEF SetSilent, AlreadyTraced, Attached, AttachRefused,
         UntraceDetach, UntraceMissing, CallInv, InWindow, Window
    <3>3. CASE SetSilent(t)
      <4>1. pc[t] = "setSilent" /\ PhaseInv(pc[t], m)
        BY <3>2, <3>3 DEF SetSilent, Find
      <4>2. /\ req[t].state = 1 /\ AbsMode[m] # "lost" /\ AbsMode'[m] = Atomic!OnMode(req[t])
            /\ AbsCall'[t] = Atomic!Answer(req[t], TRUE)
        BY <2>1, <2>9, <3>3, <4>1 DEF SetSilent, Goto, Finish, PhaseInv, AbsMode, AbsCall,
           AbsCallOf, Active, Effective, TypeOK, RequestInv, Atomic!Answer, Atomic!OnMode
      <4>3. <<Atomic!OnMode(req[t]), TRUE>> \in Atomic!Outcomes(req[t])
        BY <2>1, <4>2 DEF Atomic!Outcomes
      <4> QED BY <2>8, <4>2, <4>3
    <3>4. CASE Attached(t) \/ AttachRefused(t)
      <4>1. pc[t] = "attach" /\ pc'[t] = "return" /\ PhaseInv(pc[t], m)
        BY <3>2, <3>4 DEF Attached, AttachRefused, Find, Finish, Goto, TypeOK
      <4>2. AbsMode[m] = "off" /\ req[t].state # 0
        BY <2>1, <2>9, <4>1 DEF PhaseInv, AbsMode, RequestInv
      <4>3. <<"off", FALSE>> \in Atomic!Outcomes(req[t]) /\
            <<Atomic!OnMode(req[t]), TRUE>> \in Atomic!Outcomes(req[t])
        BY <2>1, <4>2 DEF Atomic!Outcomes
      <4>4. CASE Attached(t)
        <5>1. AbsMode'[m] = Atomic!OnMode(req[t]) /\ AbsCall'[t] = Atomic!Answer(req[t], TRUE)
          BY <2>1, <2>9, <4>1, <4>4 DEF Attached, Goto, Finish, AbsMode, AbsCall, AbsCallOf,
             Active, Effective, TypeOK, Atomic!Answer, Atomic!OnMode, LockInv
        <5> QED BY <2>8, <4>3, <5>1
      <4>5. CASE AttachRefused(t)
        <5>1. AbsMode'[m] = "off" /\ AbsCall'[t] = Atomic!Answer(req[t], FALSE)
          BY <2>1, <2>9, <4>1, <4>5 DEF AttachRefused, Goto, Finish, AbsMode, AbsCall,
             AbsCallOf, Active, Effective, TypeOK, Atomic!Answer
        <5> QED BY <2>8, <4>3, <5>1
      <4> QED BY <3>4, <4>4, <4>5
    <3>5. CASE UntraceDetach(t)
      <4>1. pc[t] = "untrace" /\ PhaseInv(pc[t], m)
        BY <3>2, <3>5 DEF UntraceDetach, Find
      <4>2. /\ AbsMode[m] \notin {"off", "lost"} /\ AbsMode'[m] = "off" /\ req[t].state # 1
            /\ AbsCall'[t] = Atomic!Answer(req[t], TRUE)
        BY <2>1, <2>9, <3>5, <4>1 DEF UntraceDetach, Goto, PhaseInv, AbsMode, AbsCall,
           AbsCallOf, Active, Effective, TypeOK, RequestInv, Atomic!Answer
      <4>3. <<"off", TRUE>> \in Atomic!Outcomes(req[t])
        BY <2>1, <4>2 DEF Atomic!Outcomes
      <4> QED BY <2>8, <4>2, <4>3
    \* A call whose method nobody raced on finds its listener as it left it.
    <3>6. ~AlreadyTraced(t) /\ ~UntraceMissing(t)
      BY <3>2 DEF AlreadyTraced, UntraceMissing, Find, PhaseInv
    <3> QED BY <1>7, <3>1, <3>3, <3>4, <3>5, <3>6
  <2> QED BY <2>7, <2>9
<1>8. ASSUME NEW t \in Togglers, Find(t), pc'[t] # "return" PROVE [Atomic!Next]_(Atomic!vars)
  BY <1>8, FindLoses DEF Atomic!Next, Atomic!vars
<1>9. ASSUME NEW t \in Togglers, Return(t) PROVE [Atomic!Next]_(Atomic!vars)
  <2>1. AbsMode' = AbsMode
    BY <1>9 DEF Return, AbsMode
  <2>2. AbsCall[t].phase = "answered" /\ AbsCall' = [AbsCall EXCEPT ![t] = Atomic!Idle]
    BY <1>9, AbsCallUpdate DEF Return, Goto, AbsCall, AbsCallOf, Active, Effective,
       TypeOK, Atomic!Idle
  <2> QED BY <2>1, <2>2 DEF Atomic!Next, Atomic!Return
<1>10. ASSUME NEW g \in GameThreads, (\E m \in Methods : Enter(g, m)) \/ HitRead(g)
       PROVE  UNCHANGED <<AbsMode, AbsCall>>
  BY <1>10 DEF Enter, HitRead, AbsMode, AbsCall, AbsCallOf, Active, Effective, callVars
<1>11. ASSUME NEW g \in GameThreads, HitWrite(g) PROVE UNCHANGED <<AbsMode, AbsCall>>
  <2>1. inCall[g] \in InCalls
    BY <1>11 DEF HitWrite, TypeOK, NoCall
  <2>2. ASSUME NEW m \in Methods \ raced, traceListeners[m] = "attached"
        PROVE  hookerMap'[m].silent = hookerMap[m].silent
    <3>1. hookerMap[m] \in Entries
      BY <2>2 DEF LiveInv, CallInv, NoDanglingListener, TypeOK
    <3> QED BY <1>11, <2>1, <3>1 DEF HitWrite, InCalls, TypeOK, Entries
  <2> QED BY <1>11, <2>2 DEF HitWrite, AbsMode, AbsCall, AbsCallOf, Active, Effective,
    callVars
<1>12. ASSUME NEW ms \in SUBSET Methods, Clear(ms) PROVE UNCHANGED <<AbsMode, AbsCall>>
  <2>1. ASSUME NEW m \in Methods \ raced, traceListeners[m] = "attached"
        PROVE  hookerMap'[m].silent = hookerMap[m].silent
    BY <1>12, <2>1 DEF Clear, TypeOK, LiveInv, Entries, CallInv, NoDanglingListener
  <2>2. AbsMode' = AbsMode
    BY <1>12, <2>1 DEF Clear, AbsMode
  <2>3. AbsCall' = AbsCall
    BY <1>12 DEF Clear, AbsCall, AbsCallOf, Active, Effective, callVars
  <2> QED BY <2>2, <2>3
<1>13. CASE UNCHANGED vars
  BY <1>13 DEF vars, AbsMode, AbsCall, AbsCallOf, Active, Effective, Atomic!vars
<1> QED
  BY <1>1, <1>2, <1>3, <1>4, <1>5, <1>6, <1>7, <1>8, <1>9, <1>10, <1>11, <1>12, <1>13
     DEF Next, LockStep, FreeStep, Atomic!Next, Atomic!vars

\* ToggleHooker is an atomic toggle that loses a method only to two calls in progress
\* on it, and keeps its promise for every other one.
THEOREM RegistryImplementsAtomicHooks == Spec => ImplementsAtomicHooks
<1>1. Init => Atomic!Init
  BY DEF Init, Atomic!Init, AbsMode, AbsCall, AbsCallOf, Active, Atomic!Idle
<1>2. BaseInv /\ CallInv /\ [Next]_vars => [Atomic!Next]_(Atomic!vars)
  BY AtomicStep
<1> QED BY <1>1, <1>2, BaseAlways, CallAlways, PTL DEF Spec, ImplementsAtomicHooks,
  Atomic!Spec
=============================================================================
