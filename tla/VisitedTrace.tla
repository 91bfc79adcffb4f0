---------------------------- MODULE VisitedTrace ----------------------------
(***************************************************************************)
(* HookerData::visited, the ring of method labels the overlay draws.  Game *)
(* threads search it and append to it at the end of on_enter               *)
(* (Tool/Frida.cpp:162-179); the UI thread draws it and lets the labels    *)
(* fade (Main.cpp:157-195), clears it (Tool.cpp:781) and replaces it when  *)
(* the display changes (Tool.cpp:199-216).                                 *)
(*                                                                         *)
(* Every member of CircularBuffer is atomic, but a loop over the ring is   *)
(* many calls: begin, end and each dereference, which in reverse is size   *)
(* followed by operator[], and what operator[] returns is a reference: the *)
(* element is read or written after the lock has been released.  An        *)
(* iterator is an index and the tail at the time it was made, and          *)
(* comparing two iterators compares both.                                  *)
(*                                                                         *)
(* The assignment that replaces the ring takes no lock.  What a game       *)
(* thread that reaches the ring meanwhile, or follows a reference into the *)
(* array it has freed, does is undefined; the model ends there.            *)
(***************************************************************************)
EXTENDS CircularBuffer, FiniteSets

CONSTANTS GameThreads,  \* threads running a traced, not silent, method
          Names,        \* the labels of the methods
          NoName,       \* the empty name of a label that has faded away
          GoneTime      \* frames a label lasts after its last hit

ASSUME ElementsAssumption ==
  /\ IsFiniteSet(GameThreads)
  /\ GoneTime \in Nat \ {0}
  /\ NoName \notin Names
  /\ Values = [name : Names \cup {NoName}, gone : 0..GoneTime]

VARIABLES game,   \* where each game thread is in the search
          ui,     \* where the UI thread is in its loop
          moved   \* history: did an element ever leave the ring or change its index?

vars == <<bufferVars, game, ui, moved>>

Out  == [at |-> "out"]
Idle == [at |-> "idle"]
Mark == moved' = (moved \/ full)

\* std::out_of_range leaves the callback, nobody catches it, the process ends.
Thrown == ui.at = "thrown" \/ \E g \in GameThreads : game[g].at = "thrown"

\* A game thread has used the ring while it was replaced, or the array that was.
Undefined == [at |-> "undefined"]
Ended     == Thrown \/ \E g \in GameThreads : game[g] = Undefined

Init == /\ BufferInit
        /\ game = [g \in GameThreads |-> Out]
        /\ ui = Idle
        /\ moved = FALSE

-----------------------------------------------------------------------------
\* A game thread.
Step(g, from) == ~Ended /\ ui.at # "replace" /\ game[g].at = from
To(g, at)     == game' = [game EXCEPT ![g].at = at, ![g].count = 0]
\* A search that is over keeps nothing but its label.
Over(g, at)   == game' = [game EXCEPT ![g] = [@ EXCEPT !.at = at, !.index = 0, !.offset = 0,
                                                       !.count = 0, !.slot = 0, !.writes = 0]]

\* visited.empty(), which takes no lock.
Search(g, name) ==
  /\ Step(g, "out")
  /\ game' = [game EXCEPT ![g] = [at |-> IF empty THEN "push" ELSE "rbegin", name |-> name,
                                  index |-> 0, offset |-> 0, count |-> 0, slot |-> 0, writes |-> 0]]
  /\ UNCHANGED <<bufferVars, ui, moved>>

RBegin(g) ==
  /\ Step(g, "rbegin")
  /\ game' = [game EXCEPT ![g].at = "test", ![g].offset = tail]
  /\ UNCHANGED <<bufferVars, ui, moved>>

\* Faulty variant of Test: the oldest label is not looked at.
TestStopsShort(g) ==
  /\ Step(g, "test")
  /\ IF <<game[g].index + 1, game[g].offset>> = <<size, tail>>
     THEN Over(g, "push") ELSE To(g, "size")
  /\ UNCHANGED <<bufferVars, ui, moved>>

\* it != rend(), with the rend of this moment.
Test(g) ==
  /\ Step(g, "test")
  /\ IF <<game[g].index, game[g].offset>> = <<size, tail>>
     THEN Over(g, "push") ELSE To(g, "size")
  /\ UNCHANGED <<bufferVars, ui, moved>>

\* Dereferencing: the size first ...
DerefSize(g) ==
  /\ Step(g, "size")
  /\ game' = [game EXCEPT ![g].at = "deref", ![g].count = size]
  /\ UNCHANGED <<bufferVars, ui, moved>>

\* ... then the element, counted from the newest; as a size_t, an index below zero is
\* far beyond the size.
Position(g) == game[g].count - game[g].index - 1

Deref(g) ==
  /\ Step(g, "deref") /\ InRange(Position(g))
  /\ game' = [game EXCEPT ![g].at = "label", ![g].slot = Slot(Position(g))]
  /\ UNCHANGED <<bufferVars, ui, moved>>

\* The label in the slot, whatever has been pushed there meanwhile.
Label(g) == buff[game[g].slot]

Onward(g, at, index, writes) ==
  game' = [game EXCEPT ![g].at = at, ![g].index = index, ![g].writes = writes,
                       ![g].count = 0, ![g].slot = 0]


\* it->name == buffer, and ++it when it is not.
Compare(g) ==
  /\ Step(g, "label") /\ game[g].writes = 0
  /\ IF Label(g).name = game[g].name THEN Onward(g, "size", game[g].index, 3)
                                     ELSE Onward(g, "test", game[g].index + 1, 0)
  /\ UNCHANGED <<bufferVars, ui, moved>>

\* it->goneTime, it->time and it->hitCount are written in turn, each through a
\* dereference of its own.  Only goneTime is in the model.
Write(g) ==
  LET left == game[g].writes
  IN /\ Step(g, "label") /\ left > 0
     /\ buff' = IF left = 3 THEN [buff EXCEPT ![game[g].slot].gone = GoneTime] ELSE buff
     /\ IF left = 1 THEN game' = [game EXCEPT ![g] = Out]
                    ELSE Onward(g, "size", game[g].index, left - 1)
     /\ UNCHANGED <<head, tail, size, max_size, ui, moved>>

\* Faulty variant of OutOfRange: off by one, the index of the newest is refused.
OutOfRangeEarly(g) ==
  /\ Step(g, "deref") /\ ~InRange(Position(g) + 1)
  /\ Over(g, "thrown")
  /\ UNCHANGED <<bufferVars, ui, moved>>

OutOfRange(g) ==
  /\ Step(g, "deref") /\ ~InRange(Position(g))
  /\ Over(g, "thrown")
  /\ UNCHANGED <<bufferVars, ui, moved>>

Push(g) ==
  /\ Step(g, "push")
  /\ push_back([name |-> game[g].name, gone |-> GoneTime])
  /\ Mark
  /\ game' = [game EXCEPT ![g] = Out]
  /\ UNCHANGED ui

\* What comes of it is undefined.
Touch(g) ==
  /\ ~Ended /\ (ui.at = "replace" \/ game[g].at = "freed")
  /\ game' = [game EXCEPT ![g] = Undefined]
  /\ UNCHANGED <<bufferVars, ui, moved>>

-----------------------------------------------------------------------------
\* The UI thread.

DrawBegin ==
  /\ ~Ended /\ ui = Idle
  /\ ui' = [at |-> "end", index |-> 0, offset |-> tail]
  /\ UNCHANGED <<bufferVars, game, moved>>

\* The range-for keeps the end it got at the start.
DrawEnd ==
  /\ ~Ended /\ ui.at = "end"
  /\ ui' = [at |-> "test", index |-> 0, offset |-> ui.offset, last |-> <<size, tail>>]
  /\ UNCHANGED <<bufferVars, game, moved>>

DrawDone ==
  /\ ~Ended /\ ui.at = "test" /\ <<ui.index, ui.offset>> = ui.last
  /\ ui' = Idle
  /\ UNCHANGED <<bufferVars, game, moved>>

\* v is a reference: a slot of the array, whatever is pushed there meanwhile.
DrawDeref ==
  /\ ~Ended /\ ui.at = "test" /\ <<ui.index, ui.offset>> # ui.last
  /\ ui' = IF InRange(ui.index)
           THEN [at |-> "label", index |-> ui.index, offset |-> ui.offset,
                 last |-> ui.last, slot |-> Slot(ui.index)]
           ELSE [at |-> "thrown"]
  /\ UNCHANGED <<bufferVars, game, moved>>

\* Faulty variant of Faded: fades a frame too late.
FadedLate(v) == IF v.name = NoName THEN v
                ELSE [name |-> IF v.gone <= 0 THEN NoName ELSE v.name, gone |-> v.gone - 1]

Faded(v) == IF v.name = NoName THEN v
            ELSE [name |-> IF v.gone <= 1 THEN NoName ELSE v.name,
                  gone |-> IF v.gone <= 1 THEN 0 ELSE v.gone - 1]

DrawLabel ==
  /\ ~Ended /\ ui.at = "label"
  /\ buff' = [buff EXCEPT ![ui.slot] = Faded(@)]
  /\ ui' = [at |-> "test", index |-> ui.index + 1, offset |-> ui.offset, last |-> ui.last]
  /\ UNCHANGED <<head, tail, size, max_size, game, moved>>

\* The Clear button and CalculateSomething, elsewhere in the frame.
Clear ==
  /\ ~Ended /\ ui = Idle
  /\ clear
  /\ moved' = TRUE
  /\ UNCHANGED <<game, ui>>

\* The new ring is built, and its assignment to the old one begins ...
Resize(n) ==
  /\ ~Ended /\ ui = Idle
  /\ ui' = [at |-> "replace", capacity |-> n]
  /\ UNCHANGED <<bufferVars, game, moved>>

\* ... and ends.  A reference into the old array stays what it was.
Replaced ==
  /\ ~Ended /\ ui.at = "replace"
  /\ replace(ui.capacity)
  /\ game' = [g \in GameThreads |-> IF game[g].at = "label"
                                    THEN [game[g] EXCEPT !.at = "freed", !.slot = 0] ELSE game[g]]
  /\ ui' = Idle
  /\ moved' = TRUE

-----------------------------------------------------------------------------
SearchStep(g) == RBegin(g) \/ Test(g) \/ DerefSize(g) \/ Deref(g) \/ Compare(g) \/ Write(g)
                 \/ OutOfRange(g) \/ Push(g)

Next == \/ \E g \in GameThreads : \/ SearchStep(g) \/ Touch(g)
                                   \/ \E name \in Names : Search(g, name)
        \/ DrawBegin \/ DrawEnd \/ DrawDone \/ DrawDeref \/ DrawLabel
        \/ Clear \/ Replaced
        \/ \E n \in Capacities : Resize(n)

\* A thread that runs a traced method keeps running, and the assignment of a ring
\* ends; nothing else is assumed of the UI.
Fairness == /\ \A g \in GameThreads : WF_vars(SearchStep(g) \/ Touch(g))
            /\ WF_vars(Replaced)

Spec     == Init /\ [][Next]_vars
FairSpec == Spec /\ Fairness
-----------------------------------------------------------------------------
Places == {"out", "rbegin", "test", "size", "deref", "label", "freed", "push", "thrown"}

TypeOK ==
  /\ BufferTypeOK
  /\ \A g \in GameThreads :
       /\ game[g].at \in Places \cup {"undefined"}
       /\ game[g] \notin {Out, Undefined} =>
                           /\ game[g].name \in Names
                           /\ game[g].index \in Nat /\ game[g].offset \in Nat
                           /\ game[g].count \in Nat /\ game[g].writes \in 0..3
                           /\ game[g].slot \in 0..(max_size - 1)
  /\ ui.at \in {"idle", "end", "test", "label", "replace", "thrown"}
  /\ moved \in BOOLEAN

\* As long as every element ever pushed is still at its index, that is until a push
\* finds the ring full or the ring is cleared or replaced, no loop over it runs past
\* its end, however searches, pushes and frames interleave.
SafeUntilMoved == Thrown => moved

\* The search before the push keeps the ring from filling with one busy method: a
\* label is there at most once per game thread (Frida.cpp:166-179).
CopiesBounded ==
  \A name \in Names :
    Cardinality({i \in 1..size : Contents[i].name = name}) <= Cardinality(GameThreads)


\* "CircularBuffer has its own lock" (Frida.cpp:165): with the lock inside, on_enter
\* can use the ring without hookerMtx and never throws into the application.
NeverThrows == \A g \in GameThreads : game[g].at # "thrown"
=============================================================================
