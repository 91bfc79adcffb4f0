---------------------------- MODULE HookRegistry ----------------------------
(***************************************************************************)
(* The method tracer: Tool::ToggleHooker (Tool/Tool.cpp) called by the UI  *)
(* thread and by background threads, Frida::Trace, Frida::Untrace and      *)
(* TraceListener::on_enter (Tool/Frida.cpp), and the Clear button.         *)
(*                                                                         *)
(* hookerMap is guarded by hookerMtx, but the look-up that decides what a  *)
(* ToggleHooker call does, and the whole of Frida::Untrace, run without    *)
(* it; traceListeners has no lock of its own.  Each call is therefore a    *)
(* sequence of steps, and a step is what runs without another thread being *)
(* able to observe it half done.  An operation of a standard container is  *)
(* one step: what two unsynchronised operations do inside the container is *)
(* not modelled.                                                           *)
(*                                                                         *)
(* Nothing in ToggleHooker keeps two calls about one method apart.  The    *)
(* history variable raced collects the methods this has happened to: a     *)
(* call came to its decision while another one stood between its own       *)
(* decision and its last effect.  No guard reads it.  MaxHits bounds the   *)
(* on_enter calls per method and enabling.                                 *)
(***************************************************************************)
EXTENDS Integers, FiniteSets

CONSTANTS Methods,            \* methods with a methodPointer
          Togglers,           \* threads that call ToggleHooker
          GameThreads,        \* threads of the application that run hooked code
          CallStates,         \* the states callers ask for, of -1 Auto, 0 Off, 1 On
          MaxHits,            \* bound on the hits of one entry
          Free,               \* the owner of a mutex nobody holds
          None                \* no entry, no request

Entries  == [hitCount : Nat, silent : BOOLEAN]
\* ToggleHooker(method, state, silent): only Start Capture asks for silence.
Requests == {r \in [method : Methods, state : CallStates, silent : BOOLEAN] :
               r.silent => r.state = 1}

ASSUME RegistryAssumption ==
  /\ Togglers # {}
  /\ Togglers \cap GameThreads = {}
  /\ Free \notin Togglers \cup GameThreads
  /\ CallStates \subseteq {-1, 0, 1}
  /\ None \notin Entries \cup Requests
  /\ MaxHits \in Nat

VARIABLES
  hookerMap,       \* HookerData of each method, or None
  hookerMtx,       \* the thread holding hookerMtx, or Free
  traceListeners,  \* the listener of each method: none, inserted, attached, detached
  dangling,        \* methods whose attached listener points to an erased HookerData
  oMap,            \* the 16 bytes saved for each method: none, original, hooked
  pc, req, result, \* each toggler's next step, arguments and return value
  inCall,          \* each game thread's on_enter, its HookerData* read before the lock
  entered,         \* history: hits since the entry of a method was last zeroed
  raced            \* history: methods two calls have decided about at once

callVars == <<pc, req, result>>
vars == <<hookerMap, hookerMtx, traceListeners, dangling, oMap, pc, req, result,
          inCall, entered, raced>>

NoCall    == [phase |-> "out"]
Active(t) == pc[t] # "idle"
M(t)      == req[t].method
Goto(t, label) == pc' = [pc EXCEPT ![t] = label]
\* The call is over but for its return: it will answer b.
Finish(t, b) == /\ Goto(t, "return")
                /\ result' = [result EXCEPT ![t] = b]

\* Between the look-up that decides what a call does and the last of its effects.
Window == {"setSilent", "store", "trace", "attach", "untrace", "drop", "erase"}
\* Another call on t's method is in its window; two that only set silent agree.
Races(t, label) ==
  \E u \in Togglers \ {t} : /\ pc[u] \in Window
                            /\ M(u) = M(t)
                            /\ ~(pc[u] = "setSilent" /\ label = "setSilent")
\* t has decided, and enters its window at label.
Open(t, label) == /\ Goto(t, label)
                  /\ raced' = IF Races(t, label) THEN raced \cup {M(t)} ELSE raced
                  /\ UNCHANGED result

Init ==
  /\ hookerMap = [m \in Methods |-> None]
  /\ hookerMtx = Free
  /\ traceListeners = [m \in Methods |-> "none"]
  /\ dangling = {}
  /\ oMap = [m \in Methods |-> "none"]
  /\ pc = [t \in Togglers |-> "idle"]
  /\ req = [t \in Togglers |-> None]
  /\ result = [t \in Togglers |-> FALSE]
  /\ inCall = [g \in GameThreads |-> NoCall]
  /\ entered = [m \in Methods |-> 0]
  /\ raced = {}

-----------------------------------------------------------------------------
\* hookerMap.erase(m): the HookerData is freed, whoever still points to it.
EraseEntry(m) ==
  /\ hookerMap' = [hookerMap EXCEPT ![m] = None]
  /\ dangling' = IF traceListeners[m] = "attached" THEN dangling \cup {m} ELSE dangling
  /\ inCall' = [g \in GameThreads |->
                  IF inCall[g] # NoCall /\ inCall[g].method = m
                  THEN [inCall[g] EXCEPT !.live = FALSE] ELSE inCall[g]]

\* ToggleHooker.

Call(t, r) ==
  /\ pc[t] = "idle"
  /\ req' = [req EXCEPT ![t] = r]
  /\ Goto(t, "save")
  /\ UNCHANGED <<hookerMap, hookerMtx, traceListeners, dangling, oMap, result,
                 inCall, entered, raced>>

\* The code of m as it reads now: an attached listener has replaced its start.
CodeBytes(m) == IF traceListeners[m] = "attached" THEN "hooked" ELSE "original"

\* Faulty variant of SaveBytes: saves over what it saved before.
SaveBytesAgain(t) ==
  /\ pc[t] = "save"
  /\ oMap' = [oMap EXCEPT ![M(t)] = CodeBytes(M(t))]
  /\ Goto(t, "find")
  /\ UNCHANGED <<hookerMap, hookerMtx, traceListeners, dangling, req, result,
                 inCall, entered, raced>>

SaveBytes(t) ==
  /\ pc[t] = "save"
  /\ oMap' = [oMap EXCEPT ![M(t)] = IF @ = "none" THEN CodeBytes(M(t)) ELSE @]
  /\ Goto(t, "find")
  /\ UNCHANGED <<hookerMap, hookerMtx, traceListeners, dangling, req, result,
                 inCall, entered, raced>>

\* Faulty variant of Find: Off is taken for Auto.
FindOffAsAuto(t) ==
  LET hooked == hookerMap[M(t)] # None
  IN /\ pc[t] = "find"
     /\ Open(t, IF ~hooked THEN "store" ELSE IF req[t].state # 1 THEN "untrace" ELSE "setSilent")
     /\ UNCHANGED <<hookerMap, hookerMtx, traceListeners, dangling, oMap, req,
                    inCall, entered>>

\* hookerMap.find without hookerMtx, and the branch on state it decides.
Find(t) ==
  LET hooked == hookerMap[M(t)] # None
      state  == req[t].state
  IN /\ pc[t] = "find"
     /\ \/ ~hooked /\ state # 0 /\ Open(t, "store")
        \/ ~hooked /\ state = 0 /\ Finish(t, TRUE) /\ UNCHANGED raced
        \/ hooked /\ state # 1 /\ Open(t, "untrace")
        \/ hooked /\ state = 1 /\ Open(t, "setSilent")
     /\ UNCHANGED <<hookerMap, hookerMtx, traceListeners, dangling, oMap, req,
                    inCall, entered>>

\* hookerMap[m].silent = silent, under the lock; operator[] makes a missing entry.
SetSilent(t) ==
  /\ pc[t] = "setSilent"
  /\ hookerMtx = Free
  /\ hookerMap' = [hookerMap EXCEPT ![M(t)] =
                     [hitCount |-> IF @ = None THEN 0 ELSE @.hitCount,
                      silent   |-> req[t].silent]]
  /\ entered' = [entered EXCEPT ![M(t)] = IF hookerMap[M(t)] = None THEN 0 ELSE @]
  /\ Finish(t, TRUE)
  /\ UNCHANGED <<hookerMtx, traceListeners, dangling, oMap, req, inCall, raced>>

\* Faulty variant of EnableStore: counting starts below zero.
EnableStoreBelowZero(t) ==
  /\ pc[t] = "store"
  /\ hookerMtx = Free
  /\ hookerMtx' = t
  /\ hookerMap' = [hookerMap EXCEPT ![M(t)] = [hitCount |-> -1, silent |-> req[t].silent]]
  /\ entered' = [entered EXCEPT ![M(t)] = 0]
  /\ Goto(t, "trace")
  /\ UNCHANGED <<traceListeners, dangling, oMap, req, result, inCall, raced>>

\* EnableHookerFrida takes the lock and writes the entry ...
EnableStore(t) ==
  /\ pc[t] = "store"
  /\ hookerMtx = Free
  /\ hookerMtx' = t
  /\ hookerMap' = [hookerMap EXCEPT ![M(t)] = [hitCount |-> 0, silent |-> req[t].silent]]
  /\ entered' = [entered EXCEPT ![M(t)] = 0]
  /\ Goto(t, "trace")
  /\ UNCHANGED <<traceListeners, dangling, oMap, req, result, inCall, raced>>

\* Faulty variant of AlreadyTraced: returns without releasing the lock.
AlreadyTracedKeepsLock(t) ==
  /\ pc[t] = "trace"
  /\ traceListeners[M(t)] # "none"
  /\ EraseEntry(M(t))
  /\ Finish(t, FALSE)
  /\ UNCHANGED <<hookerMtx, traceListeners, oMap, req, entered, raced>>

\* ... Frida::Trace refuses a method that already has a listener, in which case
\* the entry is erased; otherwise it inserts a new listener ...
AlreadyTraced(t) ==
  /\ pc[t] = "trace"
  /\ traceListeners[M(t)] # "none"
  /\ EraseEntry(M(t))
  /\ hookerMtx' = Free
  /\ Finish(t, FALSE)
  /\ UNCHANGED <<traceListeners, oMap, req, entered, raced>>

TraceInsert(t) ==
  /\ pc[t] = "trace"
  /\ traceListeners[M(t)] = "none"
  /\ traceListeners' = [traceListeners EXCEPT ![M(t)] = "inserted"]
  /\ Goto(t, "attach")
  /\ UNCHANGED <<hookerMap, hookerMtx, dangling, oMap, req, result, inCall, entered, raced>>

\* ... and attaches it with a pointer to the entry; the lock is released.
Attached(t) ==
  /\ pc[t] = "attach"
  /\ traceListeners' = [traceListeners EXCEPT ![M(t)] = "attached"]
  /\ dangling' = dangling \ {M(t)}
  /\ hookerMtx' = Free
  /\ Finish(t, TRUE)
  /\ UNCHANGED <<hookerMap, oMap, req, inCall, entered, raced>>

\* Faulty variant of AttachRefused: the entry stays in the map.
AttachRefusedKeepsEntry(t) ==
  /\ pc[t] = "attach"
  /\ traceListeners' = [traceListeners EXCEPT ![M(t)] = "none"]
  /\ hookerMtx' = Free
  /\ Finish(t, FALSE)
  /\ UNCHANGED <<hookerMap, dangling, oMap, req, inCall, entered, raced>>

AttachRefused(t) ==
  /\ pc[t] = "attach"
  /\ traceListeners' = [traceListeners EXCEPT ![M(t)] = "none"]
  /\ EraseEntry(M(t))
  /\ hookerMtx' = Free
  /\ Finish(t, FALSE)
  /\ UNCHANGED <<oMap, req, entered, raced>>

\* Faulty variant of UntraceDetach: the entry goes before the listener does.
EraseBeforeDetach(t) ==
  /\ pc[t] = "untrace"
  /\ traceListeners[M(t)] # "none"
  /\ EraseEntry(M(t))
  /\ Goto(t, "drop")
  /\ UNCHANGED <<hookerMtx, traceListeners, oMap, req, result, entered, raced>>

\* DisableHookerFrida: Frida::Untrace detaches the listener and destroys it, all
\* without a lock ...
UntraceDetach(t) ==
  /\ pc[t] = "untrace"
  /\ traceListeners[M(t)] # "none"
  /\ traceListeners' = [traceListeners EXCEPT ![M(t)] = "detached"]
  /\ dangling' = dangling \ {M(t)}
  /\ Goto(t, "drop")
  /\ UNCHANGED <<hookerMap, hookerMtx, oMap, req, result, inCall, entered, raced>>

UntraceDrop(t) ==
  /\ pc[t] = "drop"
  /\ traceListeners' = [traceListeners EXCEPT ![M(t)] = "none"]
  /\ Goto(t, "erase")
  /\ result' = [result EXCEPT ![t] = TRUE]
  /\ UNCHANGED <<hookerMap, hookerMtx, dangling, oMap, req, inCall, entered, raced>>

UntraceMissing(t) ==
  /\ pc[t] = "untrace"
  /\ traceListeners[M(t)] = "none"
  /\ Goto(t, "erase")
  /\ result' = [result EXCEPT ![t] = FALSE]
  /\ UNCHANGED <<hookerMap, hookerMtx, traceListeners, dangling, oMap, req,
                 inCall, entered, raced>>

\* ... then the entry is erased under the lock, whatever Untrace answered.
DisableErase(t) ==
  /\ pc[t] = "erase"
  /\ hookerMtx = Free
  /\ EraseEntry(M(t))
  /\ Goto(t, "return")
  /\ UNCHANGED <<hookerMtx, traceListeners, oMap, req, result, entered, raced>>

Return(t) ==
  /\ pc[t] = "return"
  /\ Goto(t, "idle")
  /\ req' = [req EXCEPT ![t] = None]
  /\ result' = [result EXCEPT ![t] = FALSE]
  /\ UNCHANGED <<hookerMap, hookerMtx, traceListeners, dangling, oMap, inCall, entered, raced>>

-----------------------------------------------------------------------------
\* TraceListener::on_enter on a game thread.

\* get_listener_function_data, before hookerMtx is taken.
Enter(g, m) ==
  /\ inCall[g] = NoCall
  /\ traceListeners[m] = "attached"
  /\ entered[m] + Cardinality({h \in GameThreads : inCall[h] # NoCall}) < MaxHits
  /\ inCall' = [inCall EXCEPT ![g] = [phase |-> "in", method |-> m, seen |-> 0,
                                     live |-> m \notin dangling]]
  /\ UNCHANGED <<hookerMap, hookerMtx, traceListeners, dangling, oMap, callVars, entered, raced>>

\* Faulty variant of HitRead: counts without waiting for the lock.
HitReadUnlocked(g) ==
  /\ inCall[g].phase = "in"
  /\ inCall' = [inCall EXCEPT ![g].phase = "locked",
                              ![g].seen = IF inCall[g].live
                                          THEN hookerMap[inCall[g].method].hitCount ELSE 0]
  /\ UNCHANGED <<hookerMap, hookerMtx, traceListeners, dangling, oMap, callVars, entered, raced>>

\* hookerData->hitCount++ is a read and a write; the lock is held over both.
HitRead(g) ==
  /\ inCall[g].phase = "in"
  /\ hookerMtx = Free
  /\ hookerMtx' = g
  /\ inCall' = [inCall EXCEPT ![g].phase = "locked",
                              ![g].seen = IF inCall[g].live
                                          THEN hookerMap[inCall[g].method].hitCount ELSE 0]
  /\ UNCHANGED <<hookerMap, traceListeners, dangling, oMap, callVars, entered, raced>>

\* A hit through a freed pointer counts nowhere.
HitWrite(g) ==
  LET m == inCall[g].method
  IN /\ inCall[g].phase = "locked"
     /\ IF inCall[g].live
        THEN /\ hookerMap' = [hookerMap EXCEPT ![m].hitCount = inCall[g].seen + 1]
             /\ entered' = [entered EXCEPT ![m] = @ + 1]
        ELSE UNCHANGED <<hookerMap, entered>>
     /\ hookerMtx' = Free
     /\ inCall' = [inCall EXCEPT ![g] = NoCall]
     /\ UNCHANGED <<traceListeners, dangling, oMap, callVars, raced>>

\* The Clear button, on the UI thread: sessionMethods or the whole map, locked.
Clear(ms) ==
  /\ hookerMtx = Free
  /\ hookerMap' = [m \in Methods |->
                     IF m \in ms /\ hookerMap[m] # None
                     THEN [hookerMap[m] EXCEPT !.hitCount = 0] ELSE hookerMap[m]]
  /\ entered' = [m \in Methods |-> IF m \in ms THEN 0 ELSE entered[m]]
  /\ UNCHANGED <<hookerMtx, traceListeners, dangling, oMap, callVars, inCall, raced>>

-----------------------------------------------------------------------------
\* What a toggler does once inside a call, split by whether it waits for the lock.
LockStep(t) == SetSilent(t) \/ EnableStore(t) \/ DisableErase(t)
FreeStep(t) == \/ SaveBytes(t) \/ Find(t) \/ AlreadyTraced(t) \/ TraceInsert(t)
               \/ Attached(t) \/ AttachRefused(t) \/ UntraceDetach(t)
               \/ UntraceDrop(t) \/ UntraceMissing(t) \/ Return(t)

Next ==
  \/ \E t \in Togglers : \/ \E r \in Requests : Call(t, r)
                          \/ LockStep(t)
                          \/ FreeStep(t)
  \/ \E g \in GameThreads : \/ \E m \in Methods : Enter(g, m)
                             \/ HitRead(g)
                             \/ HitWrite(g)
  \/ \E ms \in SUBSET Methods : Clear(ms)

\* A thread inside a call keeps running, and a waiter for hookerMtx is not passed
\* over for ever.  Nothing obliges a user to make a call or the application to
\* run a hooked method.
Fairness ==
  /\ \A t \in Togglers : WF_vars(FreeStep(t)) /\ SF_vars(LockStep(t))
  /\ \A g \in GameThreads : WF_vars(HitWrite(g)) /\ SF_vars(HitRead(g))

Spec     == Init /\ [][Next]_vars
FairSpec == Spec /\ Fairness
-----------------------------------------------------------------------------
Labels == {"idle", "save", "find", "setSilent", "store", "trace", "attach",
           "untrace", "drop", "erase", "return"}
InCalls == [phase : {"in", "locked"}, method : Methods, seen : Nat, live : BOOLEAN]

TypeOK ==
  /\ hookerMap \in [Methods -> Entries \cup {None}]
  /\ hookerMtx \in Togglers \cup GameThreads \cup {Free}
  /\ traceListeners \in [Methods -> {"none", "inserted", "attached", "detached"}]
  /\ dangling \in SUBSET Methods
  /\ oMap \in [Methods -> {"none", "original", "hooked"}]
  /\ pc \in [Togglers -> Labels]
  /\ req \in [Togglers -> Requests \cup {None}]
  /\ result \in [Togglers -> BOOLEAN]
  /\ inCall \in [GameThreads -> InCalls \cup {NoCall}]
  /\ entered \in [Methods -> Nat]
  /\ raced \in SUBSET Methods

\* No ToggleHooker call about m is in progress.
Quiet(m) == \A t \in Togglers : Active(t) => M(t) # m

\* Between calls the map the UI shows, the listener table and the interceptor agree
\* about every method no two calls have raced on: what is shown as traced is traced
\* and can be restored, and what is not in the map runs no listener.  The unlocked
\* look-up of a second call is the only thing that can part them, and it parts them
\* for that method alone (ToggleHooker, Tool.cpp:908-1057).
RegistryConsistent ==
  \A m \in Methods \ raced : Quiet(m) =>
     traceListeners[m] = (IF hookerMap[m] = None THEN "none" ELSE "attached")

\* A listener that still runs points to a HookerData already erased only if two calls
\* raced on its method: Untrace comes before hookerMap.erase (DisableHookerFrida,
\* Tool.cpp:1006-1019), and a refused attach leaves no listener behind.
NoDanglingListener == dangling \subseteq raced

\* "Save original bytes if not already saved" (Tool.cpp:881): the bytes kept for the
\* Assembly view are never those of a hook, whichever calls overlap.
SavedBytesOriginal == \A m \in Methods : oMap[m] # "hooked"

\* "Multiple threads can hit on_enter, int++ is not atomic" (Frida.cpp:129): under
\* hookerMtx no hit of a live entry is lost, neither to another hit nor to Clear.
HitsExact ==
  \A m \in Methods : hookerMap[m] # None => hookerMap[m].hitCount = entered[m]

\* Every ToggleHooker call returns, and every on_enter leaves hookerMtx: nobody waits
\* for ever, though the two kinds of thread share hookerMtx.
EveryCallReturns ==
  /\ \A t \in Togglers : Active(t) ~> ~Active(t)
  /\ \A g \in GameThreads : inCall[g] # NoCall ~> inCall[g] = NoCall

\* ToggleHooker is the atomic toggle of AtomicHooks, which loses a method to a race:
\* a call takes effect when the listener is attached or detached, or when it finds
\* that there is nothing to do.
Effective(t) == pc[t] \in {"return", "erase", "drop"}
AbsMode == [m \in Methods |-> IF m \in raced THEN "lost"
                              ELSE IF traceListeners[m] # "attached" THEN "off"
                              ELSE IF hookerMap[m].silent THEN "silent" ELSE "traced"]
AbsCallOf(t) == IF ~Active(t) THEN [phase |-> "idle"]
                ELSE IF ~Effective(t) THEN [phase |-> "asked", req |-> req[t]]
                ELSE [phase |-> "answered", req |-> req[t],
                      result |-> pc[t] = "drop" \/ result[t]]
AbsCall == [t \in Togglers |-> AbsCallOf(t)]
Atomic == INSTANCE AtomicHooks WITH mode <- AbsMode, call <- AbsCall
ImplementsAtomicHooks == Atomic!Spec
=============================================================================
