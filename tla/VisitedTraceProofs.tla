------------------------- MODULE VisitedTraceProofs -------------------------
(***************************************************************************)
(* Proofs about CircularBuffer and about VisitedTrace, for any number of   *)
(* game threads, any labels, any capacities and any fading time.           *)
(*                                                                         *)
(* First the ring: it implements BoundedLog, and its inductive invariant   *)
(* is BufferTypeOK /\ BufferInv; the arithmetic of the wrap-around is in   *)
(* the first lemmas and nowhere else.                                      *)
(*                                                                         *)
(* Then the loops over it.  ShapeInv gives every variable its type and     *)
(* says that the label being drawn lies in a slot in use, and that a slot  *)
(* a game thread refers to holds a label even after a clear.  OnTime       *)
(* bounds every iterator as long as nothing moved, and OwnInv hands each   *)
(* copy of a label to a thread of its own, one that cannot push a second.  *)
(***************************************************************************)
EXTENDS VisitedTrace, SequenceTheorems, FiniteSetTheorems, TLAPS

\* An index less than two laps around goes back by at most one lap.
LEMMA ModWrap ==
  ASSUME NEW n \in Nat \ {0}, NEW k \in 0..(2 * n - 1)
  PROVE  k % n = IF k < n THEN k ELSE k - n
  OBVIOUS

\* An index within the first lap stays, and one lap further comes back to it.
LEMMA SameLap ==
  ASSUME NEW n \in Nat \ {0}, NEW k \in 0..(n - 1)
  PROVE  k % n = k
  OBVIOUS

LEMMA NextLap ==
  ASSUME NEW n \in Nat \ {0}, NEW k \in 0..(n - 1)
  PROVE  (k + n) % n = k
  BY ModWrap, k + n \in 0..(2 * n - 1)

\* Two indices less than a lap apart lie in different slots.
LEMMA SlotsDiffer ==
  ASSUME NEW n \in Nat \ {0}, NEW t \in 0..(n - 1),
         NEW i \in 0..(n - 1), NEW j \in 0..(n - 1), i # j
  PROVE  (i + t) % n # (j + t) % n
  BY ModWrap

\* Moving the tail by one moves every index by one.
LEMMA SlotShift ==
  ASSUME NEW n \in Nat \ {0}, NEW t \in 0..(n - 1), NEW i \in 0..(n - 1)
  PROVE  (i + ((t + 1) % n)) % n = (i + 1 + t) % n
<1>1. (t + 1) % n = IF t + 1 < n THEN t + 1 ELSE 0
  <2>1. t + 1 \in 0..(2 * n - 1)
    OBVIOUS
  <2>2. (t + 1) % n = IF t + 1 < n THEN t + 1 ELSE (t + 1) - n
    BY <2>1, ModWrap, Zenon
  <2> QED BY <2>2
<1>2. CASE t + 1 < n
  BY <1>1, <1>2, i + (t + 1) = i + 1 + t
<1>3. CASE t + 1 = n
  <2>1. i % n = i
    BY ModWrap
  <2>2. (i + 1 + t) % n = i
    BY ModWrap, <1>3
  <2> QED BY <1>1, <1>3, <2>1, <2>2
<1> QED BY <1>2, <1>3

\* The remainder is a slot of the array.
LEMMA SlotInRange ==
  ASSUME NEW n \in Nat \ {0}, NEW k \in Nat
  PROVE  k % n \in 0..(n - 1)
  OBVIOUS

-----------------------------------------------------------------------------
\* The next free slot is none of the slots in use, unless the buffer is full, when
\* it is the slot of the oldest element.
LEMMA HeadSlot ==
  ASSUME BufferTypeOK, BufferInv
  PROVE  /\ full => head = tail
         /\ ~full => /\ head = Slot(size)
                     /\ \A i \in 0..(size - 1) : Slot(i) # head
<1>0. max_size \in Nat \ {0} /\ size \in 0..max_size /\ tail \in 0..(max_size - 1)
  BY CapacitiesAssumption DEF BufferTypeOK
<1>1. head = (size + tail) % max_size
  BY <1>0, size + tail = tail + size DEF BufferInv
<1>2. ASSUME full PROVE head = tail
  BY <1>0, <1>1, <1>2, ModWrap DEF full
<1>3. ASSUME ~full, NEW i \in 0..(size - 1) PROVE Slot(i) # head
  BY <1>0, <1>1, <1>3, SlotsDiffer DEF full, Slot
<1> QED BY <1>1, <1>2, <1>3 DEF Slot

\* A new buffer satisfies the invariant.
LEMMA BufferInitInv == BufferInit => BufferTypeOK /\ BufferInv
  BY CapacitiesAssumption, ModWrap DEF BufferInit, BufferTypeOK, BufferInv, Fresh

\* A push: where the old elements are found afterwards, and the new one.
LEMMA PushContents ==
  ASSUME BufferTypeOK, BufferInv, NEW v \in Values, push_back(v)
  PROVE  /\ BufferTypeOK' /\ head' = ((tail + size) % max_size)'
         /\ \A i \in 0..(size' - 2) : At(i)' = At(IF full THEN i + 1 ELSE i)
         /\ At(size - 1)' = v
         /\ size' = (IF full THEN size ELSE size + 1)
<1>0. /\ max_size \in Nat \ {0} /\ size \in 0..max_size
      /\ tail \in 0..(max_size - 1) /\ head \in 0..(max_size - 1)
      /\ max_size' = max_size
  BY CapacitiesAssumption DEF BufferTypeOK, push_back
<1>t. /\ (head + 1) % max_size \in 0..(max_size - 1)
      /\ (tail + 1) % max_size \in 0..(max_size - 1)
  BY <1>0, SlotInRange
<1>h. head = (size + tail) % max_size
  BY <1>0, size + tail = tail + size DEF BufferInv
<1>1. CASE full
  <2>1. size' = size /\ size = max_size /\ tail' = (tail + 1) % max_size /\ head = tail
    BY <1>1, HeadSlot DEF push_back, full
  <2>2. BufferTypeOK'
    BY <1>0, <1>t, <2>1 DEF BufferTypeOK, push_back
  <2>3. head' = ((tail + size) % max_size)'
    <3>1. head' = tail'
      BY <2>1 DEF push_back
    <3>2. (tail' + max_size) % max_size = tail'
      <4>1. tail' \in 0..(max_size - 1)
        BY <1>0, <2>2 DEF BufferTypeOK
      <4> QED BY <1>0, <4>1, NextLap
    <3> QED BY <1>0, <2>1, <3>1, <3>2
  <2>4. ASSUME NEW i \in 0..(size - 1)
        PROVE  Slot(i)' = (i + 1 + tail) % max_size
    <3>1. (i + ((tail + 1) % max_size)) % max_size = (i + 1 + tail) % max_size
      BY <1>0, <2>1, SlotShift
    <3> QED BY <1>0, <2>1, <3>1 DEF Slot
  <2>5. ASSUME NEW i \in 0..(size' - 2)
        PROVE  At(i)' = At(i + 1)
    <3>1. Slot(i)' = Slot(i + 1)
      BY <2>1, <2>4, <1>0, i \in 0..(size - 1) DEF Slot
    <3>2. Slot(i + 1) # head
      BY <1>0, <2>1, SlotsDiffer, ModWrap, (0 + tail) % max_size = tail DEF Slot
    <3>3. Slot(i + 1) \in 0..(max_size - 1)
      BY <1>0, <2>1, SlotInRange DEF Slot
    <3> QED BY <3>1, <3>2, <3>3 DEF At, push_back, BufferTypeOK
  <2>6. At(size - 1)' = v
    <3>1. Slot(size - 1)' = head
      BY <1>0, <1>h, <2>1, <2>4, size - 1 \in 0..(size - 1), (size - 1) + 1 + tail = size + tail
         DEF Slot
    <3> QED BY <1>0, <2>1, <3>1 DEF At, push_back, BufferTypeOK
  <2> QED BY <1>1, <2>1, <2>2, <2>3, <2>5, <2>6
<1>2. CASE ~full
  <2>1. size' = size + 1 /\ size < max_size /\ tail' = tail
    BY <1>0, <1>2 DEF push_back, full
  <2>2. BufferTypeOK'
    BY <1>0, <1>t, <2>1 DEF BufferTypeOK, push_back
  <2>3. head' = ((tail + size) % max_size)'
    <3>1. head' = (1 + ((size + tail) % max_size)) % max_size
      BY <1>0, <1>h, head + 1 = 1 + head DEF push_back
    <3>2. (1 + ((size + tail) % max_size)) % max_size = (1 + size + tail) % max_size
      <4>0. size + tail \in 0..(2 * max_size - 1)
        BY <1>0, <2>1
      <4>1. (size + tail) % max_size = IF size + tail < max_size THEN size + tail
                                       ELSE (size + tail) - max_size
        BY <1>0, <4>0, ModWrap, Zenon
      <4>2. CASE size + tail < max_size
        BY <1>0, <4>1, <4>2, 1 + (size + tail) = 1 + size + tail
      <4>3. CASE ~(size + tail < max_size)
        <5>1. /\ 1 + size + tail \in 0..(2 * max_size - 1)
              /\ 1 + ((size + tail) - max_size) \in 0..(max_size - 1)
              /\ ~(1 + size + tail < max_size)
          BY <1>0, <2>1, <4>3
        <5>2. (1 + size + tail) % max_size = (1 + size + tail) - max_size
          BY <1>0, <5>1, ModWrap
        <5>3. (1 + ((size + tail) - max_size)) % max_size = 1 + ((size + tail) - max_size)
          BY <1>0, <5>1, SameLap, Zenon
        <5> QED BY <1>0, <4>1, <4>3, <5>2, <5>3
      <4> QED BY <4>2, <4>3
    <3> QED BY <1>0, <2>1, <3>1, <3>2, tail + (size + 1) = 1 + size + tail
  <2>4. ASSUME NEW i \in 0..(size' - 2)
        PROVE  At(i)' = At(i)
    <3>1. Slot(i)' = Slot(i) /\ Slot(i) # head
      BY <1>0, <1>2, <2>1, HeadSlot DEF Slot
    <3>2. Slot(i) \in 0..(max_size - 1)
      BY <1>0, <2>1, SlotInRange DEF Slot
    <3> QED BY <3>1, <3>2 DEF At, push_back, BufferTypeOK
  <2>5. At(size - 1)' = v
    <3>1. Slot(size - 1)' = head
      BY <1>0, <1>h, <2>1, (size + 1) - 1 = size DEF Slot
    <3> QED BY <1>0, <3>1 DEF At, push_back, BufferTypeOK
  <2> QED BY <1>2, <2>1, <2>2, <2>3, <2>4, <2>5
<1> QED BY <1>1, <1>2

\* The elements in use are a sequence of at most max_size values.
LEMMA ContentsSeq ==
  ASSUME BufferTypeOK, BufferInv
  PROVE  /\ Contents \in Seq(Values)
         /\ Len(Contents) = size
         /\ \A i \in 1..size : Contents[i] = At(i - 1)
<1>0. size \in Nat
  BY CapacitiesAssumption DEF BufferTypeOK
<1>1. \A i \in 1..size : At(i - 1) \in Values
  BY <1>0 DEF BufferInv
<1>2. Contents \in [1..size -> Values]
  BY <1>1 DEF Contents
<1> QED BY <1>0, <1>2 DEF Contents

\* push_back implements Push: kept is the number of elements that stay.
LEMMA PushStep ==
  ASSUME BufferTypeOK, BufferInv, NEW v \in Values, push_back(v)
  PROVE  BufferTypeOK' /\ BufferInv' /\ Log!Push(v)
<1>0. /\ max_size \in Nat \ {0} /\ size \in 0..max_size /\ max_size' = max_size
  BY CapacitiesAssumption DEF BufferTypeOK, push_back
<1>k. PICK kept \in Nat : /\ kept = (IF full THEN size - 1 ELSE size)
                          /\ size' = kept + 1
  BY <1>0, PushContents DEF full
<1>n. At(kept)' = v
  <2>1. At(size - 1)' = v
    BY PushContents
  <2> QED BY <1>k, <2>1, (kept + 1) - 1 = kept DEF At, Slot
<1>o. ASSUME NEW i \in 0..(kept - 1)
      PROVE  At(i)' = At(IF full THEN i + 1 ELSE i)
  <2>1. i \in 0..((kept + 1) - 2)
    BY <1>k
  <2> QED BY <1>k, <2>1, PushContents
<1>1. BufferInv'
  <2>1. ASSUME NEW i \in 0..kept PROVE At(i)' \in Values
    <3>1. CASE i = kept
      BY <1>n, <3>1
    <3>2. CASE i \in 0..(kept - 1)
      <4>1. (IF full THEN i + 1 ELSE i) \in 0..(size - 1)
        BY <1>0, <1>k, <3>2
      <4> QED BY <1>o, <3>2, <4>1 DEF BufferInv
    <3> QED BY <1>k, <3>1, <3>2
  <2>2. (kept + 1) - 1 = kept
    BY <1>k
  <2> QED BY <1>k, <2>1, <2>2, PushContents DEF BufferInv
<1>2. Contents' = Append(IF Len(Contents) = max_size THEN Tail(Contents) ELSE Contents, v)
  <2> DEFINE old == IF full THEN Tail(Contents) ELSE Contents
  <2>1. old \in Seq(Values) /\ Len(old) = kept
    <3>1. CASE full
      <4>1. kept = size - 1 /\ size \in Nat \ {0} /\ old = Tail(Contents)
        BY <1>0, <1>k, <3>1
      <4> HIDE DEF old
      <4> QED BY <4>1, ContentsSeq
    <3>2. CASE ~full
      <4>1. kept = size /\ old = Contents
        BY <1>0, <1>k, <3>2
      <4> HIDE DEF old
      <4> QED BY <4>1, ContentsSeq
    <3> QED BY <3>1, <3>2
  <2>2. ASSUME NEW i \in 1..kept PROVE old[i] = At(i - 1)'
    <3>0. At(i - 1)' = At(IF full THEN (i - 1) + 1 ELSE i - 1)
      BY <1>k, <1>o, i - 1 \in 0..(kept - 1)
    <3>1. CASE full
      <4>1. kept = size - 1 /\ size \in Nat \ {0} /\ old = Tail(Contents)
        BY <1>0, <1>k, <3>1
      <4> HIDE DEF old
      <4>2. old[i] = At((i + 1) - 1) /\ (i + 1) - 1 = (i - 1) + 1
        BY <4>1, ContentsSeq
      <4> QED BY <3>0, <3>1, <4>2
    <3>2. CASE ~full
      <4>1. kept = size /\ old = Contents
        BY <1>0, <1>k, <3>2
      <4> HIDE DEF old
      <4> QED BY <3>0, <3>2, <4>1, ContentsSeq
    <3> QED BY <3>1, <3>2
  <2> HIDE DEF old
  <2>3. Append(old, v) = [i \in 1..(kept + 1) |-> At(i - 1)']
    <3> DEFINE new == Append(old, v)
    <3>1. new \in Seq(Values) /\ Len(new) = kept + 1
      BY <2>1, AppendProperties
    <3>2. ASSUME NEW i \in 1..(kept + 1) PROVE new[i] = At(i - 1)'
      <4>1. CASE i = kept + 1
        <5>1. i - 1 = kept /\ new[i] = v
          BY <2>1, <4>1, AppendProperties
        <5> HIDE DEF new
        <5> QED BY <1>n, <5>1 DEF At, Slot
      <4>2. CASE i \in 1..kept
        <5>1. new[i] = old[i]
          BY <2>1, <4>2, AppendProperties
        <5> HIDE DEF new
        <5>2. old[i] = At(i - 1)'
          BY <2>2, <4>2
        <5> QED BY <5>1, <5>2
      <4>3. i = kept + 1 \/ i \in 1..kept
        OBVIOUS
      <4> QED BY <4>1, <4>2, <4>3, Zenon
    <3> HIDE DEF new
    <3>3. new = [i \in 1..(kept + 1) |-> new[i]]
      BY <3>1
    <3>4. new = [i \in 1..(kept + 1) |-> At(i - 1)']
      BY <3>2, <3>3, Zenon
    <3> QED BY <3>4 DEF new
  <2>4. Contents' = [i \in 1..(kept + 1) |-> At(i - 1)']
    BY <1>k DEF Contents
  <2> QED BY <2>3, <2>4, ContentsSeq DEF old, full
<1> QED BY <1>0, <1>1, <1>2, PushContents DEF Log!Push

\* pop_front implements Drop.
LEMMA PopStep ==
  ASSUME BufferTypeOK, BufferInv, pop_front
  PROVE  BufferTypeOK' /\ BufferInv' /\ Log!Drop
<1>0. /\ max_size \in Nat \ {0} /\ size \in 1..max_size /\ tail \in 0..(max_size - 1)
      /\ max_size' = max_size /\ buff' = buff /\ head' = head
      /\ size' = size - 1 /\ tail' = (tail + 1) % max_size
  BY CapacitiesAssumption DEF BufferTypeOK, pop_front, empty
<1>1. BufferTypeOK'
  <2>1. (tail + 1) % max_size \in 0..(max_size - 1) /\ size - 1 \in 0..max_size
    BY <1>0, SlotInRange, tail + 1 \in Nat
  <2> QED BY <1>0, <2>1 DEF BufferTypeOK
<1>2. ASSUME NEW i \in 0..(size - 1)
      PROVE  (i + tail') % max_size = (i + 1 + tail) % max_size
  <2>1. (i + ((tail + 1) % max_size)) % max_size = (i + 1 + tail) % max_size
    BY <1>0, SlotShift
  <2> QED BY <1>0, <2>1
<1>3. ASSUME NEW i \in 0..(size - 2) PROVE At(i)' = At(i + 1)
  BY <1>0, <1>2, i \in 0..(size - 1) DEF At, Slot
<1>4. BufferInv'
  <2>1. head' = ((tail + size) % max_size)'
    <3>1. (size - 1) + 1 + tail = tail + size /\ (size - 1) + tail' = tail' + size'
      BY <1>0, SlotInRange
    <3>2. head = ((size - 1) + 1 + tail) % max_size
      BY <3>1 DEF BufferInv
    <3> QED BY <1>0, <1>2, <3>1, <3>2, size - 1 \in 0..(size - 1)
  <2>2. ASSUME NEW i \in 0..(size - 2) PROVE At(i)' \in Values
    BY <1>0, <1>3, <2>2, i + 1 \in 0..(size - 1) DEF BufferInv
  <2> QED BY <1>0, <2>1, <2>2, (size - 1) - 1 = size - 2 DEF BufferInv
<1>5. Contents # << >> /\ Contents' = Tail(Contents)
  <2>1. Contents # << >>
    BY <1>0, ContentsSeq
  <2>2. Contents' = [i \in 1..(size - 1) |-> At(i - 1)']
    BY <1>0 DEF Contents
  <2>3. Tail(Contents) = [i \in 1..(size - 1) |-> Contents[i + 1]]
    <3> DEFINE s == Contents
    <3>1. s \in Seq(Values) /\ Len(s) = size /\ size \in Nat \ {0}
      BY <1>0, ContentsSeq
    <3> HIDE DEF s
    <3> DEFINE r == Tail(s)
    <3>2. /\ r \in Seq(Values) /\ Len(r) = size - 1
          /\ \A i \in 1..(size - 1) : r[i] = s[i + 1]
      BY <3>1, s # << >>, HeadTailProperties
    <3> HIDE DEF r
    <3>3. r = [i \in 1..(size - 1) |-> r[i]]
      BY <3>2
    <3>4. r = [i \in 1..(size - 1) |-> s[i + 1]]
      BY <3>2, <3>3, Zenon
    <3> QED BY <3>4 DEF r, s
  <2>4. ASSUME NEW i \in 1..(size - 1) PROVE At(i - 1)' = Contents[i + 1]
    <3>1. At(i - 1)' = At((i - 1) + 1)
      BY <1>0, <1>3, i - 1 \in 0..(size - 2)
    <3> QED BY <1>0, <3>1, ContentsSeq, (i - 1) + 1 = (i + 1) - 1
  <2> QED BY <2>1, <2>2, <2>3, <2>4, Zenon
<1> QED BY <1>0, <1>1, <1>4, <1>5 DEF Log!Drop

\* Writing an element through operator[] changes that element and no other.
LEMMA AssignContents ==
  ASSUME BufferTypeOK, BufferInv, NEW index \in Nat, NEW v \in Values, assign(index, v)
  PROVE  /\ BufferTypeOK' /\ size' = size /\ index \in 0..(size - 1)
         /\ \A i \in 0..(size - 1) : At(i)' = IF i = index THEN v ELSE At(i)
<1>0. /\ max_size \in Nat \ {0} /\ size \in 0..max_size /\ tail \in 0..(max_size - 1)
      /\ max_size' = max_size /\ head' = head /\ size' = size /\ tail' = tail
      /\ buff' = [buff EXCEPT ![Slot(index)] = v] /\ index \in 0..(size - 1)
  BY CapacitiesAssumption DEF BufferTypeOK, assign, InRange
<1>1. \A i \in 0..(size - 1) : Slot(i) \in 0..(max_size - 1)
  BY <1>0, SlotInRange DEF Slot
<1>2. BufferTypeOK'
  BY <1>0, <1>1 DEF BufferTypeOK
<1>3. ASSUME NEW i \in 0..(size - 1) PROVE At(i)' = IF i = index THEN v ELSE At(i)
  <2>1. Slot(i)' = Slot(i)
    BY <1>0 DEF Slot
  <2>2. ASSUME i # index PROVE Slot(i) # Slot(index)
    <3>1. i \in 0..(max_size - 1) /\ index \in 0..(max_size - 1)
      BY <1>0
    <3> QED BY <1>0, <2>2, <3>1, SlotsDiffer DEF Slot
  <2> QED BY <1>0, <1>1, <2>1, <2>2 DEF At, BufferTypeOK
<1> QED BY <1>0, <1>2, <1>3

\* So it implements Write.
LEMMA AssignStep ==
  ASSUME BufferTypeOK, BufferInv, NEW index \in Nat, NEW v \in Values, assign(index, v)
  PROVE  BufferTypeOK' /\ BufferInv' /\ Log!Write(index + 1, v)
<1>0. /\ size \in Nat /\ max_size' = max_size /\ head' = head /\ size' = size /\ tail' = tail
      /\ index \in 0..(size - 1)
  BY CapacitiesAssumption DEF BufferTypeOK, assign, InRange
<1>3. ASSUME NEW i \in 0..(size - 1) PROVE At(i)' = IF i = index THEN v ELSE At(i)
  BY AssignContents
<1>4. BufferInv'
  BY <1>0, <1>3 DEF BufferInv
<1>5. Contents' = [Contents EXCEPT ![index + 1] = v]
  <2>1. Contents' = [i \in 1..size |-> At(i - 1)']
    BY <1>0 DEF Contents
  <2>2. [Contents EXCEPT ![index + 1] = v]
          = [i \in 1..size |-> IF i = index + 1 THEN v ELSE Contents[i]]
    BY DEF Contents
  <2>3. ASSUME NEW i \in 1..size
        PROVE  At(i - 1)' = IF i = index + 1 THEN v ELSE Contents[i]
    BY <1>0, <1>3, ContentsSeq, i - 1 \in 0..(size - 1)
  <2> QED BY <2>1, <2>2, <2>3, Zenon
<1> QED BY <1>0, <1>4, <1>5, AssignContents, ContentsSeq DEF Log!Write

\* clear implements Erase, and replace Rebuild: nothing is left.
LEMMA EmptyStep ==
  ASSUME BufferTypeOK, BufferInv
  PROVE  /\ clear => BufferTypeOK' /\ BufferInv' /\ Log!Erase
         /\ \A n \in Capacities : replace(n) => BufferTypeOK' /\ BufferInv' /\ Log!Rebuild(n)
<1>1. \A n \in Capacities : n \in Nat \ {0} /\ 0 % n = 0
  BY CapacitiesAssumption, SameLap
<1>2. ASSUME clear \/ \E n \in Capacities : replace(n)
      PROVE  BufferTypeOK' /\ BufferInv' /\ Contents' = << >>
  <2>1. /\ head' = 0 /\ tail' = 0 /\ size' = 0 /\ max_size' \in Capacities
        /\ buff' \in [0..(max_size' - 1) -> Values \cup {Unset}]
    BY <1>1, <1>2 DEF clear, replace, Fresh, BufferTypeOK
  <2> QED BY <1>1, <2>1 DEF BufferTypeOK, BufferInv, Contents
<1> QED BY <1>2 DEF clear, replace, Log!Erase, Log!Rebuild

-----------------------------------------------------------------------------
\* Every operation keeps the invariant and is a step of the bounded log.
LEMMA BufferStep ==
  ASSUME BufferTypeOK, BufferInv, [BufferNext]_bufferVars
  PROVE  BufferTypeOK' /\ BufferInv' /\ [Log!Next]_(Log!vars)
<1>1. CASE UNCHANGED bufferVars
  <2>1. UNCHANGED Contents
    BY <1>1 DEF Contents, At, Slot, bufferVars
  <2>2. BufferInv'
    BY <1>1 DEF BufferInv, At, Slot, bufferVars
  <2> QED BY <1>1, <2>1, <2>2 DEF BufferTypeOK, bufferVars, Log!vars
<1>2. ASSUME NEW v \in Values, push_back(v)
      PROVE  BufferTypeOK' /\ BufferInv' /\ Log!Next
  BY <1>2, PushStep DEF Log!Next
<1>3. CASE pop_front
  BY <1>3, PopStep DEF Log!Next
<1>4. ASSUME NEW index \in 0..(max_size - 1), NEW v \in Values, assign(index, v)
      PROVE  BufferTypeOK' /\ BufferInv' /\ Log!Next
  <2>1. index \in Nat
    BY CapacitiesAssumption DEF BufferTypeOK
  <2>2. index + 1 \in 1..Len(Contents)
    BY <1>4, <2>1, AssignStep DEF Log!Write
  <2> QED BY <1>4, <2>1, <2>2, AssignStep DEF Log!Next
<1>5. CASE clear
  BY <1>5, EmptyStep DEF Log!Next
<1>6. ASSUME NEW n \in Capacities, replace(n)
      PROVE  BufferTypeOK' /\ BufferInv' /\ Log!Next
  BY <1>6, EmptyStep DEF Log!Next
<1> QED BY <1>1, <1>2, <1>3, <1>4, <1>5, <1>6 DEF BufferNext

\* The indices stay in the array and the elements in use are never unset ones, for
\* every capacity (circular_buffer.h:334-388).
THEOREM BufferAlwaysSound == BufferSpec => [](BufferTypeOK /\ BufferInv)
<1>1. BufferInit => BufferTypeOK /\ BufferInv
  BY BufferInitInv
<1>2. (BufferTypeOK /\ BufferInv) /\ [BufferNext]_bufferVars => (BufferTypeOK /\ BufferInv)'
  BY BufferStep
<1> QED BY <1>1, <1>2, PTL DEF BufferSpec

\* The ring is a bounded log: pushes, pops and writes reach the element the caller
\* means, across every wrap of the indices, and a full buffer loses only its oldest.
THEOREM BufferImplementsBoundedLog == BufferSpec => ImplementsBoundedLog
<1>1. BufferInit => Log!Init
  BY DEF BufferInit, Log!Init, Contents
<1>2. BufferTypeOK /\ BufferInv /\ [BufferNext]_bufferVars => [Log!Next]_(Log!vars)
  BY BufferStep
<1> QED BY <1>1, <1>2, BufferAlwaysSound, PTL DEF BufferSpec, ImplementsBoundedLog, Log!Spec

-----------------------------------------------------------------------------
Searching == [at : Places \ {"out"}, name : Names, index : Nat, offset : Nat,
              count : Nat, slot : Nat, writes : 0..3]

Records == {Out, Undefined} \cup Searching

InUse == {Slot(i) : i \in 0..(size - 1)}

UiShape ==
  \/ ui \in {Idle, [at |-> "thrown"]}
  \/ ui \in [at : {"end"}, index : {0}, offset : Nat]
  \/ ui \in [at : {"test"}, index : Nat, offset : Nat, last : Nat \X Nat]
  \/ ui \in [at : {"label"}, index : Nat, offset : Nat, last : Nat \X Nat, slot : InUse]
  \/ ui \in [at : {"replace"}, capacity : Capacities]

\* A thread's record fits its place.  The slot of a label may be out of use by now, after
\* a clear, but it holds the label that was there, or a newer one.
AtSound(g) ==
  /\ game[g].at = "rbegin" => game[g].index = 0
  /\ game[g].at \in {"rbegin", "test", "push"} => game[g].writes = 0
  /\ game[g].at = "label" => game[g].slot \in 0..(max_size - 1) /\ Label(g) \in Values
  /\ game[g].at \notin {"label", "out", "undefined"} => game[g].slot = 0

ShapeInv ==
  /\ BufferTypeOK /\ BufferInv
  /\ game \in [GameThreads -> Records]
  /\ \A g \in GameThreads : AtSound(g)
  /\ UiShape
  /\ moved \in BOOLEAN

\* Nothing moved: every iterator was made when the tail was what it still is, and no
\* index is beyond the end.
GameOnTime(g) ==
  /\ game[g].at # "thrown"
  /\ game[g].at \in {"test", "size", "deref", "label"} => game[g].offset = 0
  /\ game[g].at = "test" => game[g].index <= size
  /\ game[g].at \in {"size", "label"} => game[g].index < size
  /\ game[g].at = "deref" => game[g].index < game[g].count /\ game[g].count <= size

UiOnTime ==
  /\ ui.at # "thrown"
  /\ ui.at \in {"end", "test", "label"} => ui.offset = 0
  /\ ui.at \in {"test", "label"} =>
       /\ ui.last[2] = 0 /\ ui.last[1] <= size /\ ui.index <= ui.last[1]
       /\ ui.at = "label" => ui.index < ui.last[1]

OnTime == ~moved => tail = 0 /\ UiOnTime /\ \A g \in GameThreads : GameOnTime(g)

\* The copies of a label in the ring, and: thread g, if it is looking for the label, has
\* not yet passed the copy at i, so that it will not push another.  When it has a slot in
\* hand, that is the copy's slot, or the copy is further on.
Copies(name) == {i \in 0..(size - 1) : At(i).name = name}

WillMeet(g, name, i) ==
  game[g] \notin {Out, Undefined} /\ game[g].name = name /\ game[g].writes = 0 =>
    /\ game[g].at # "push"
    /\ game[g].at \in {"rbegin", "test", "size"} => game[g].index + i < size
    /\ game[g].at \in {"deref", "label"} =>
         game[g].index + i < game[g].count /\ game[g].count <= size
    /\ game[g].at = "label" /\ i = Position(g) => game[g].slot = Slot(i)

OwnInv ==
  \A name \in Names :
    \E own \in Injection(Copies(name), GameThreads) :
      \A i \in Copies(name) : WillMeet(own[i], name, i)

-----------------------------------------------------------------------------
\* What a step of a search does to the threads: g's record gets these fields.
Becomes(g, at, index, offset, count, slot, writes) ==
  /\ game' \in [GameThreads -> Records]
  /\ \A h \in GameThreads : h # g => game'[h] = game[h]
  /\ game'[g] \in Searching
  /\ game'[g].at = at /\ game'[g].name = game[g].name
  /\ game'[g].index = index /\ game'[g].offset = offset
  /\ game'[g].count = count /\ game'[g].slot = slot /\ game'[g].writes = writes

\* Or it has left on_enter, or done what is undefined.
Leaves(g, rest) ==
  /\ game' \in [GameThreads -> Records]
  /\ \A h \in GameThreads : h # g => game'[h] = game[h]
  /\ game'[g] = rest

\* A thread that searches has a whole record.
LEMMA SearcherRecord ==
  ASSUME ShapeInv, NEW g \in GameThreads, game[g].at \notin {"out", "undefined"}
  PROVE  /\ game[g] \in Searching /\ game[g] \notin {Out, Undefined}
         /\ game[g].at \in Places /\ game[g].name \in Names
         /\ game[g].index \in Nat /\ game[g].offset \in Nat
         /\ game[g].count \in Nat /\ game[g].slot \in Nat /\ game[g].writes \in 0..3
<1>1. game[g] \in Records /\ game[g] \notin {Out, Undefined}
  BY DEF ShapeInv, Out, Undefined
<1> QED BY <1>1 DEF Searching, Records

\* Updates of a record that leave it one.
LEMMA Updates ==
  ASSUME NEW r \in Searching, NEW at \in Places \ {"out"}, NEW i \in Nat, NEW w \in 0..3
  PROVE  [r EXCEPT !.at = at, !.index = i, !.writes = w, !.count = 0, !.slot = 0] \in Searching
<1> DEFINE r2 == [r EXCEPT !.at = at, !.index = i]
<1>1. r2 \in Searching
  BY DEF Searching
<1>2. [r EXCEPT !.at = at, !.index = i, !.writes = w, !.count = 0, !.slot = 0]
        = [r2 EXCEPT !.writes = w, !.count = 0, !.slot = 0]
  OBVIOUS
<1> HIDE DEF r2
<1>3. [r2 EXCEPT !.writes = w, !.count = 0, !.slot = 0] \in Searching
  BY <1>1 DEF Searching
<1> QED BY <1>2, <1>3

LEMMA OneThread ==
  ASSUME ShapeInv, NEW g \in GameThreads, NEW r \in Records,
         game' = [game EXCEPT ![g] = r]
  PROVE  /\ game' \in [GameThreads -> Records]
         /\ \A h \in GameThreads : h # g => game'[h] = game[h]
         /\ game'[g] = r
  BY DEF ShapeInv

LEMMA ToGives ==
  ASSUME ShapeInv, NEW g \in GameThreads, game[g].at \notin {"out", "undefined"},
         NEW at \in Places \ {"out"}, To(g, at)
  PROVE  Becomes(g, at, game[g].index, game[g].offset, 0, game[g].slot, game[g].writes)
<1> DEFINE r == [game[g] EXCEPT !.at = at, !.count = 0]
<1>1. game' = [game EXCEPT ![g] = r]
  BY DEF To, ShapeInv
<1>2. /\ r.at = at /\ r.name = game[g].name /\ r.index = game[g].index
      /\ r.offset = game[g].offset /\ r.count = 0 /\ r.slot = game[g].slot
      /\ r.writes = game[g].writes
  BY SearcherRecord DEF Searching
<1>3. r \in Searching
  BY SearcherRecord DEF Searching
<1> HIDE DEF r
<1> QED BY <1>1, <1>2, <1>3, OneThread DEF Becomes, Records

LEMMA OverGives ==
  ASSUME ShapeInv, NEW g \in GameThreads, game[g].at \notin {"out", "undefined"},
         NEW at \in Places \ {"out"}, Over(g, at)
  PROVE  Becomes(g, at, 0, 0, 0, 0, 0)
<1> DEFINE r == [game[g] EXCEPT !.at = at, !.index = 0, !.offset = 0, !.count = 0,
                                !.slot = 0, !.writes = 0]
<1>1. game' = [game EXCEPT ![g] = r]
  BY DEF Over, ShapeInv
<1>2. /\ r.at = at /\ r.name = game[g].name /\ r.index = 0
      /\ r.offset = 0 /\ r.count = 0 /\ r.slot = 0 /\ r.writes = 0
  BY SearcherRecord DEF Searching
<1>3. r \in Searching
  <2> DEFINE r2 == [game[g] EXCEPT !.at = at, !.index = 0]
             r4 == [r2 EXCEPT !.offset = 0, !.count = 0]
             r5 == [r4 EXCEPT !.slot = 0]
  <2>1. r = [r5 EXCEPT !.writes = 0]
    OBVIOUS
  <2>2. r2 \in Searching
    BY SearcherRecord DEF Searching
  <2> HIDE DEF r2
  <2>3. r4 \in Searching
    BY <2>2 DEF Searching
  <2> HIDE DEF r4
  <2>4. r5 \in Searching
    BY <2>3 DEF Searching
  <2> HIDE DEF r5
  <2>5. [r5 EXCEPT !.writes = 0] \in Searching
    BY <2>4 DEF Searching
  <2> QED BY <2>1, <2>5
<1> HIDE DEF r
<1> QED BY <1>1, <1>2, <1>3, OneThread DEF Becomes, Records

LEMMA OnwardGives ==
  ASSUME ShapeInv, NEW g \in GameThreads, game[g].at \notin {"out", "undefined"},
         NEW at \in Places \ {"out"}, NEW index \in Nat, NEW writes \in 0..3,
         Onward(g, at, index, writes)
  PROVE  Becomes(g, at, index, game[g].offset, 0, 0, writes)
<1> DEFINE r == [game[g] EXCEPT !.at = at, !.index = index, !.writes = writes,
                                !.count = 0, !.slot = 0]
<1>1. game' = [game EXCEPT ![g] = r]
  BY DEF Onward, ShapeInv
<1>2. /\ r.at = at /\ r.name = game[g].name /\ r.index = index
      /\ r.offset = game[g].offset /\ r.count = 0 /\ r.slot = 0 /\ r.writes = writes
  BY SearcherRecord DEF Searching
<1>3. r \in Searching
  BY SearcherRecord, Updates
<1> HIDE DEF r
<1> QED BY <1>1, <1>2, <1>3, OneThread DEF Becomes, Records

\* The steps of a search, with the record each leaves.
LEMMA RBeginGives ==
  ASSUME ShapeInv, NEW g \in GameThreads, RBegin(g)
  PROVE  Becomes(g, "test", game[g].index, tail, game[g].count, game[g].slot, game[g].writes)
<1>0. game[g].at = "rbegin" /\ "test" \in Places \ {"out"} /\ tail \in Nat
  BY CapacitiesAssumption DEF RBegin, Step, Places, ShapeInv, BufferTypeOK
<1> DEFINE r == [game[g] EXCEPT !.at = "test", !.offset = tail]
<1>1. game' = [game EXCEPT ![g] = r]
  BY DEF RBegin, ShapeInv
<1>2. /\ r.at = "test" /\ r.name = game[g].name /\ r.index = game[g].index
      /\ r.offset = tail /\ r.count = game[g].count /\ r.slot = game[g].slot
      /\ r.writes = game[g].writes
  BY <1>0, SearcherRecord DEF Searching
<1>3. r \in Searching
  BY <1>0, SearcherRecord DEF Searching
<1> HIDE DEF r
<1> QED BY <1>1, <1>2, <1>3, OneThread DEF Becomes, Records

LEMMA DerefSizeGives ==
  ASSUME ShapeInv, NEW g \in GameThreads, DerefSize(g)
  PROVE  Becomes(g, "deref", game[g].index, game[g].offset, size, game[g].slot, game[g].writes)
<1>0. game[g].at = "size" /\ "deref" \in Places \ {"out"} /\ size \in Nat
  BY CapacitiesAssumption DEF DerefSize, Step, Places, ShapeInv, BufferTypeOK
<1> DEFINE r == [game[g] EXCEPT !.at = "deref", !.count = size]
<1>1. game' = [game EXCEPT ![g] = r]
  BY DEF DerefSize, ShapeInv
<1>2. /\ r.at = "deref" /\ r.name = game[g].name /\ r.index = game[g].index
      /\ r.offset = game[g].offset /\ r.count = size /\ r.slot = game[g].slot
      /\ r.writes = game[g].writes
  BY <1>0, SearcherRecord DEF Searching
<1>3. r \in Searching
  BY <1>0, SearcherRecord DEF Searching
<1> HIDE DEF r
<1> QED BY <1>1, <1>2, <1>3, OneThread DEF Becomes, Records

\* The slot in hand is that of an element.
LEMMA DerefGives ==
  ASSUME ShapeInv, NEW g \in GameThreads, Deref(g)
  PROVE  /\ Position(g) \in 0..(size - 1)
         /\ Slot(Position(g)) \in 0..(max_size - 1) /\ At(Position(g)) \in Values
         /\ Becomes(g, "label", game[g].index, game[g].offset, game[g].count,
                    Slot(Position(g)), game[g].writes)
<1>0. game[g].at = "deref" /\ "label" \in Places \ {"out"}
  BY DEF Deref, Step, Places
<1>1. /\ max_size \in Nat \ {0} /\ tail \in Nat /\ size \in Nat
      /\ Position(g) \in Int /\ InRange(Position(g))
  BY <1>0, CapacitiesAssumption, SearcherRecord DEF Deref, Position, ShapeInv, BufferTypeOK
<1>2. Position(g) \in 0..(size - 1) /\ Position(g) \in Nat
  BY <1>1 DEF InRange
<1>3. Slot(Position(g)) \in 0..(max_size - 1) /\ At(Position(g)) \in Values
  BY <1>1, <1>2, SlotInRange DEF Slot, ShapeInv, BufferInv
<1>4. PICK s \in Nat : s = Slot(Position(g))
  BY <1>1, <1>3
<1> DEFINE r == [game[g] EXCEPT !.at = "label", !.slot = s]
<1>5. game' = [game EXCEPT ![g] = r]
  BY <1>4 DEF Deref, ShapeInv
<1>6. /\ r.at = "label" /\ r.name = game[g].name /\ r.index = game[g].index
      /\ r.offset = game[g].offset /\ r.count = game[g].count /\ r.slot = s
      /\ r.writes = game[g].writes
  BY <1>0, SearcherRecord DEF Searching
<1>7. r \in Searching
  BY <1>0, SearcherRecord DEF Searching
<1> HIDE DEF r
<1>8. Becomes(g, "label", game[g].index, game[g].offset, game[g].count, s, game[g].writes)
  BY <1>5, <1>6, <1>7, OneThread DEF Becomes, Records
<1> QED BY <1>2, <1>3, <1>4, <1>8

LEMMA CompareGives ==
  ASSUME ShapeInv, NEW g \in GameThreads, Compare(g)
  PROVE  IF Label(g).name = game[g].name
         THEN Becomes(g, "size", game[g].index, game[g].offset, 0, 0, 3)
         ELSE Becomes(g, "test", game[g].index + 1, game[g].offset, 0, 0, 0)
<1>0. /\ game[g].at = "label" /\ {"size", "test"} \subseteq Places \ {"out"}
      /\ 3 \in 0..3 /\ 0 \in 0..3
  BY DEF Compare, Step, Places
<1>1. game[g].index \in Nat /\ game[g].index + 1 \in Nat
  BY <1>0, SearcherRecord
<1> QED BY <1>0, <1>1, OnwardGives DEF Compare

LEMMA WriteGives ==
  ASSUME ShapeInv, NEW g \in GameThreads, Write(g)
  PROVE  IF game[g].writes = 1 THEN Leaves(g, Out)
         ELSE Becomes(g, "size", game[g].index, game[g].offset, 0, 0, game[g].writes - 1)
<1>0. game[g].at = "label" /\ game[g].writes > 0 /\ "size" \in Places \ {"out"}
  BY DEF Write, Step, Places
<1>1. game[g].index \in Nat /\ game[g].writes - 1 \in 0..3
  BY <1>0, SearcherRecord
<1>2. CASE game[g].writes = 1
  <2>1. game' = [game EXCEPT ![g] = Out] /\ Out \in Records
    BY <1>2 DEF Write, Records
  <2> QED BY <1>2, <2>1, OneThread DEF Leaves
<1>3. CASE game[g].writes # 1
  <2>1. Onward(g, "size", game[g].index, game[g].writes - 1)
    BY <1>3 DEF Write
  <2> QED BY <1>0, <1>1, <1>3, <2>1, OnwardGives
<1> QED BY <1>2, <1>3

LEMMA TestGives ==
  ASSUME ShapeInv, NEW g \in GameThreads, Test(g)
  PROVE  IF game[g].index = size /\ game[g].offset = tail
         THEN Becomes(g, "push", 0, 0, 0, 0, 0)
         ELSE Becomes(g, "size", game[g].index, game[g].offset, 0, game[g].slot,
                      game[g].writes)
<1>1. /\ game[g].at = "test" /\ {"push", "size"} \subseteq Places \ {"out"}
      /\ IF <<game[g].index, game[g].offset>> = <<size, tail>>
         THEN Over(g, "push") ELSE To(g, "size")
  BY DEF Test, Step, Places
<1> QED BY <1>1, ToGives, OverGives

LEMMA OutOfRangeGives ==
  ASSUME ShapeInv, NEW g \in GameThreads, OutOfRange(g)
  PROVE  Becomes(g, "thrown", 0, 0, 0, 0, 0)
<1>1. game[g].at = "deref" /\ "thrown" \in Places \ {"out"} /\ Over(g, "thrown")
  BY DEF OutOfRange, Step, Places
<1> QED BY <1>1, OverGives

LEMMA PushGives ==
  ASSUME ShapeInv, NEW g \in GameThreads, Push(g)
  PROVE  Leaves(g, Out)
  BY OneThread DEF Push, Leaves, Records

LEMMA TouchGives ==
  ASSUME ShapeInv, NEW g \in GameThreads, Touch(g)
  PROVE  Leaves(g, Undefined)
  BY OneThread DEF Touch, Leaves, Records

\* A search starts at the newest element, unless there is none.
LEMMA SearchGives ==
  ASSUME ShapeInv, NEW g \in GameThreads, NEW name \in Names, Search(g, name)
  PROVE  /\ game' \in [GameThreads -> Records]
         /\ \A h \in GameThreads : h # g => game'[h] = game[h]
         /\ game'[g].at = (IF empty THEN "push" ELSE "rbegin")
         /\ game'[g].name = name
         /\ game'[g].index = 0 /\ game'[g].count = 0 /\ game'[g].slot = 0
         /\ game'[g].writes = 0
<1> DEFINE r == [at |-> IF empty THEN "push" ELSE "rbegin", name |-> name, index |-> 0,
                 offset |-> 0, count |-> 0, slot |-> 0, writes |-> 0]
<1>1. game' = [game EXCEPT ![g] = r]
  BY DEF Search
<1>2. r \in Records
  BY DEF Searching, Places, Records
<1> QED BY <1>1, <1>2, OneThread

\* The assignment of a new ring leaves each thread where it was, with no slot in hand.
LEMMA ReplacedGives ==
  ASSUME ShapeInv, Replaced
  PROVE  /\ game' \in [GameThreads -> Records]
         /\ \A g \in GameThreads :
              game[g].at # "label" => game'[g] = game[g]
         /\ \A g \in GameThreads :
              game[g].at = "label" => game'[g].at = "freed" /\ game'[g].slot = 0
<1>0. game' = [g \in GameThreads |-> IF game[g].at = "label"
                                     THEN [game[g] EXCEPT !.at = "freed", !.slot = 0]
                                     ELSE game[g]]
  BY DEF Replaced
<1>1. ASSUME NEW g \in GameThreads, game[g].at = "label"
      PROVE  /\ [game[g] EXCEPT !.at = "freed", !.slot = 0] \in Searching
             /\ [game[g] EXCEPT !.at = "freed", !.slot = 0].at = "freed"
             /\ [game[g] EXCEPT !.at = "freed", !.slot = 0].slot = 0
  <2>1. game[g] \in Searching /\ "freed" \in Places \ {"out"}
    BY <1>1, SearcherRecord DEF Places
  <2> QED BY <2>1 DEF Searching
<1>2. \A g \in GameThreads : game[g] \in Records
  BY DEF ShapeInv
<1> QED BY <1>0, <1>1, <1>2 DEF Records

-----------------------------------------------------------------------------
\* Every step of the loops is one call of the buffer at most, or a write of a slot through
\* a reference it gave out.

LEMMA ValueKept ==
  ASSUME NEW v \in Values
  PROVE  /\ [v EXCEPT !.gone = GoneTime] \in Values
         /\ [v EXCEPT !.gone = GoneTime].name = v.name
         /\ Faded(v) \in Values
         /\ Faded(v).name \in {v.name, NoName}
<1>1. v \in [name : Names \cup {NoName}, gone : 0..GoneTime] /\ GoneTime \in 0..GoneTime
  BY ElementsAssumption
<1>2. /\ [v EXCEPT !.gone = GoneTime] \in [name : Names \cup {NoName}, gone : 0..GoneTime]
      /\ [v EXCEPT !.gone = GoneTime].name = v.name
  BY <1>1
<1>3. /\ Faded(v) \in [name : Names \cup {NoName}, gone : 0..GoneTime]
      /\ Faded(v).name \in {v.name, NoName}
  BY <1>1, ElementsAssumption DEF Faded
<1> QED BY <1>2, <1>3, ElementsAssumption

\* The value a push appends.
LEMMA PushedValue ==
  ASSUME NEW name \in Names
  PROVE  [name |-> name, gone |-> GoneTime] \in Values
  BY ElementsAssumption

\* A write through a reference changes the element that lies in the slot, if one still
\* does, and no other.
LEMMA SlotWritten ==
  ASSUME ShapeInv, NEW s \in 0..(max_size - 1), NEW v \in Values,
         buff' = [buff EXCEPT ![s] = v], UNCHANGED <<head, tail, size, max_size>>
  PROVE  /\ BufferTypeOK' /\ BufferInv' /\ [Log!Next]_(Log!vars)
         /\ \A i \in 0..(size - 1) : At(i)' = IF Slot(i) = s THEN v ELSE At(i)
         /\ \A k \in 0..(max_size - 1) : buff[k] \in Values => buff'[k] \in Values
<1>0. /\ max_size \in Nat \ {0} /\ size \in 0..max_size /\ tail \in 0..(max_size - 1)
      /\ buff \in [0..(max_size - 1) -> Values \cup {Unset}]
  BY CapacitiesAssumption DEF ShapeInv, BufferTypeOK
<1>1. \A i \in 0..(size - 1) : Slot(i) \in 0..(max_size - 1) /\ Slot(i)' = Slot(i)
  BY <1>0, SlotInRange DEF Slot
<1>2. \A i \in 0..(size - 1) : At(i)' = IF Slot(i) = s THEN v ELSE At(i)
  BY <1>0, <1>1 DEF At
<1>3. \A k \in 0..(max_size - 1) : buff[k] \in Values => buff'[k] \in Values
  BY <1>0
<1>4. CASE s \in InUse
  <2>1. PICK i \in 0..(size - 1) : s = Slot(i)
    BY <1>4 DEF InUse
  <2>2. assign(i, v) /\ i \in 0..(max_size - 1)
    BY <1>0, <2>1 DEF assign, InRange
  <2>3. BufferNext
    BY <2>2 DEF BufferNext
  <2> QED BY <1>2, <1>3, <2>3, BufferStep DEF ShapeInv
<1>5. CASE s \notin InUse
  <2>1. \A i \in 0..(size - 1) : At(i)' = At(i)
    BY <1>2, <1>5 DEF InUse
  <2>2. BufferTypeOK'
    BY <1>0 DEF BufferTypeOK, ShapeInv
  <2>3. BufferInv'
    BY <2>1 DEF BufferInv, ShapeInv
  <2>4. UNCHANGED Contents
    <3>1. \A i \in 1..size : At(i - 1)' = At(i - 1)
      BY <1>0, <2>1
    <3>2. Contents' = [i \in 1..size |-> At(i - 1)']
      BY DEF Contents
    <3> QED BY <3>1, <3>2 DEF Contents
  <2> QED BY <1>2, <1>3, <2>2, <2>3, <2>4 DEF Log!vars
<1> QED BY <1>4, <1>5

\* The writes of the two loops: the label keeps its name, or loses it.
LEMMA WritesASlot ==
  ASSUME ShapeInv, DrawLabel \/ \E g \in GameThreads : Write(g)
  PROVE  \/ UNCHANGED bufferVars
         \/ /\ UNCHANGED <<head, tail, size, max_size>>
            /\ \E s \in 0..(max_size - 1), v \in Values :
                 buff' = [buff EXCEPT ![s] = v] /\ v.name \in {buff[s].name, NoName}
<1>0. max_size \in Nat \ {0} /\ tail \in Nat /\ size \in Nat
  BY CapacitiesAssumption DEF ShapeInv, BufferTypeOK
<1>1. ASSUME NEW g \in GameThreads, Write(g)
      PROVE  \/ UNCHANGED bufferVars
             \/ /\ UNCHANGED <<head, tail, size, max_size>>
                /\ \E s \in 0..(max_size - 1), v \in Values :
                     buff' = [buff EXCEPT ![s] = v] /\ v.name \in {buff[s].name, NoName}
  <2>1. PICK s \in 0..(max_size - 1) : s = game[g].slot /\ buff[s] \in Values
    BY <1>1 DEF Write, Step, ShapeInv, AtSound, Label
  <2>2. PICK v \in Values : v = [buff[s] EXCEPT !.gone = GoneTime] /\ v.name = buff[s].name
    BY <2>1, ValueKept
  <2>3. buff' = (IF game[g].writes = 3 THEN [buff EXCEPT ![s] = v] ELSE buff)
    BY <1>1, <2>1, <2>2 DEF Write
  <2> QED BY <1>1, <2>2, <2>3 DEF Write, bufferVars
<1>2. ASSUME DrawLabel
      PROVE  /\ UNCHANGED <<head, tail, size, max_size>>
             /\ \E s \in 0..(max_size - 1), v \in Values :
                  buff' = [buff EXCEPT ![s] = v] /\ v.name \in {buff[s].name, NoName}
  <2>1. ui \in [at : {"label"}, index : Nat, offset : Nat, last : Nat \X Nat, slot : InUse]
    BY <1>2 DEF ShapeInv, UiShape, DrawLabel, Idle
  <2>2. PICK i \in 0..(size - 1) : ui.slot = Slot(i)
    BY <2>1 DEF InUse
  <2>3. PICK s \in 0..(max_size - 1) : s = ui.slot /\ buff[s] \in Values
    BY <1>0, <2>2, SlotInRange DEF Slot, At, ShapeInv, BufferInv
  <2>4. PICK v \in Values : v = Faded(buff[s]) /\ v.name \in {buff[s].name, NoName}
    BY <2>3, ValueKept
  <2>5. buff' = [buff EXCEPT ![s] = v] /\ UNCHANGED <<head, tail, size, max_size>>
    BY <1>2, <2>3, <2>4 DEF DrawLabel
  <2> QED BY <2>4, <2>5
<1> QED BY <1>1, <1>2

\* What else the assignment of a new ring does.
LEMMA ReplacedRing ==
  ASSUME ShapeInv, Replaced
  PROVE  /\ ui.at = "replace" /\ ui.capacity \in Capacities /\ replace(ui.capacity)
         /\ ui' = Idle /\ moved' = TRUE
<1>1. ui.at = "replace" /\ replace(ui.capacity) /\ ui' = Idle /\ moved' = TRUE
  BY Zenon DEF Replaced
<1>2. ui \in [at : {"replace"}, capacity : Capacities]
  BY <1>1 DEF ShapeInv, UiShape, Idle
<1> QED BY <1>1, <1>2

\* Every step is one of the bounded log, and keeps labels where labels were, but for the
\* one that replaces the ring.
LEMMA RingStep ==
  ASSUME ShapeInv, [Next]_vars
  PROVE  /\ BufferTypeOK' /\ BufferInv' /\ [Log!Next]_(Log!vars)
         /\ ~Replaced => /\ max_size' = max_size
                         /\ \A k \in 0..(max_size - 1) : buff[k] \in Values => buff'[k] \in Values
<1> DEFINE Kept == /\ max_size' = max_size
                   /\ \A k \in 0..(max_size - 1) : buff[k] \in Values => buff'[k] \in Values
           Goal == /\ BufferTypeOK' /\ BufferInv' /\ [Log!Next]_(Log!vars)
                   /\ ~Replaced => Kept
<1>1. ASSUME UNCHANGED bufferVars
      PROVE  Goal
  <2>1. Kept
    BY <1>1 DEF bufferVars
  <2> HIDE DEF Kept
  <2> QED BY <1>1, <2>1, BufferStep DEF ShapeInv
<1>2. ASSUME DrawLabel \/ \E g \in GameThreads : Write(g)
      PROVE  Goal
  <2>1. ASSUME UNCHANGED <<head, tail, size, max_size>>,
               NEW s \in 0..(max_size - 1), NEW v \in Values, buff' = [buff EXCEPT ![s] = v]
        PROVE  Goal
    <3>1. Kept
      BY <2>1, SlotWritten
    <3> HIDE DEF Kept
    <3> QED BY <2>1, <3>1, SlotWritten
  <2>2. CASE UNCHANGED bufferVars
    BY <1>1, <2>2
  <2>3. CASE /\ UNCHANGED <<head, tail, size, max_size>>
             /\ \E s \in 0..(max_size - 1), v \in Values :
                  buff' = [buff EXCEPT ![s] = v] /\ v.name \in {buff[s].name, NoName}
    <3>1. PICK s \in 0..(max_size - 1), v \in Values : buff' = [buff EXCEPT ![s] = v]
      BY <2>3
    <3> QED BY <2>1, <2>3, <3>1
  <2> HIDE DEF Goal
  <2> QED BY <1>2, <2>2, <2>3, WritesASlot
<1>3. ASSUME NEW g \in GameThreads, Push(g)
      PROVE  Goal
  <2>1. PICK v \in Values : push_back(v)
    BY <1>3, SearcherRecord, PushedValue DEF Push, Step
  <2>2. BufferNext
    BY <2>1 DEF BufferNext
  <2>3. Kept
    BY <2>1, CapacitiesAssumption DEF push_back, ShapeInv, BufferTypeOK
  <2> HIDE DEF Kept
  <2> QED BY <2>2, <2>3, BufferStep DEF ShapeInv
<1>4. ASSUME Clear
      PROVE  Goal
  <2>1. BufferNext
    BY <1>4 DEF Clear, BufferNext
  <2>2. Kept
    BY <1>4 DEF Clear, clear
  <2> HIDE DEF Kept
  <2> QED BY <2>1, <2>2, BufferStep DEF ShapeInv
<1>5. ASSUME Replaced
      PROVE  Goal
  <2>1. ui.capacity \in Capacities /\ replace(ui.capacity)
    BY <1>5, ReplacedRing
  <2>2. BufferNext
    BY <2>1 DEF BufferNext
  <2> QED BY <1>5, <2>2, BufferStep DEF ShapeInv
<1>6. \/ UNCHANGED bufferVars
      \/ DrawLabel \/ \E g \in GameThreads : Write(g)
      \/ \E g \in GameThreads : Push(g)
      \/ Clear \/ Replaced
  BY DEF Next, SearchStep, Search, RBegin, Test, DerefSize, Deref, Compare, OutOfRange, Touch,
         DrawBegin, DrawEnd, DrawDone, DrawDeref, Resize, vars
<1> HIDE DEF Goal
<1>7. Goal
  BY <1>1, <1>2, <1>3, <1>4, <1>5, <1>6, Zenon
<1> QED BY <1>7 DEF Goal

-----------------------------------------------------------------------------
\* A slot in use stays in use: a push that takes the oldest slot puts its element there.
LEMMA PushKeepsSlots ==
  ASSUME BufferTypeOK, BufferInv, NEW v \in Values, push_back(v)
  PROVE  InUse \subseteq InUse'
<1>0. /\ max_size \in Nat \ {0} /\ size \in 0..max_size /\ tail \in 0..(max_size - 1)
      /\ max_size' = max_size
  BY CapacitiesAssumption DEF BufferTypeOK, push_back
<1>1. SUFFICES ASSUME NEW i \in 0..(size - 1)
               PROVE  \E j \in 0..(size' - 1) : Slot(j)' = Slot(i)
  BY DEF InUse
<1>2. CASE ~full
  <2>1. tail' = tail /\ i \in 0..(size' - 1)
    BY <1>0, <1>2 DEF push_back
  <2>2. Slot(i)' = Slot(i)
    BY <1>0, <2>1 DEF Slot
  <2> QED BY <2>1, <2>2
<1>3. CASE full
  <2>0. tail' = (tail + 1) % max_size /\ size' = size /\ size = max_size
    BY <1>3 DEF push_back, full
  <2>1. \A j \in 0..(size - 1) : Slot(j)' = (j + 1 + tail) % max_size
    BY <1>0, <2>0, SlotShift DEF Slot
  <2>2. CASE i = 0
    <3>1. Slot(size - 1)' = ((size - 1) + 1 + tail) % max_size /\ size - 1 \in 0..(size - 1)
      BY <1>0, <2>0, <2>1
    <3>2. (size - 1) + 1 + tail = tail + max_size /\ 0 + tail = tail
      BY <1>0, <2>0
    <3>3. (tail + max_size) % max_size = tail /\ tail % max_size = tail
      BY <1>0, NextLap, SameLap
    <3>4. Slot(size - 1)' = Slot(i)
      BY <2>2, <3>1, <3>2, <3>3 DEF Slot
    <3> QED BY <2>0, <3>1, <3>4
  <2>3. CASE i # 0
    <3>1. i - 1 \in 0..(size - 1) /\ (i - 1) + 1 + tail = i + tail
      BY <1>0, <2>3
    <3>2. Slot(i - 1)' = Slot(i)
      BY <2>1, <3>1 DEF Slot
    <3> QED BY <2>0, <3>1, <3>2
  <2> QED BY <2>2, <2>3
<1> QED BY <1>2, <1>3

LEMMA InUseStays ==
  ASSUME ShapeInv, UNCHANGED <<tail, size, max_size>>
  PROVE  InUse' = InUse
  BY DEF InUse, Slot

LEMMA UiShapeStays ==
  ASSUME ShapeInv, UNCHANGED ui, InUse \subseteq InUse'
  PROVE  UiShape'
  BY DEF ShapeInv, UiShape

\* A step of the UI thread.
LEMMA UiStepShape ==
  ASSUME ShapeInv, DrawBegin \/ DrawEnd \/ DrawDone \/ DrawDeref \/ DrawLabel
  PROVE  UiShape'
<1>0. size \in Nat /\ tail \in Nat
  BY CapacitiesAssumption DEF ShapeInv, BufferTypeOK
<1>1. CASE DrawBegin
  BY <1>0, <1>1 DEF DrawBegin, UiShape
<1>2. CASE DrawEnd
  <2>1. ui.offset \in Nat
    BY <1>2 DEF DrawEnd, ShapeInv, UiShape, Idle
  <2>2. ui' \in [at : {"test"}, index : Nat, offset : Nat, last : Nat \X Nat]
    BY <1>0, <1>2, <2>1 DEF DrawEnd
  <2> QED BY <2>2 DEF UiShape
<1>3. CASE DrawDone
  BY <1>3 DEF DrawDone, UiShape, Idle
<1>4. CASE DrawDeref
  <2>1. ui \in [at : {"test"}, index : Nat, offset : Nat, last : Nat \X Nat]
    BY <1>4 DEF DrawDeref, ShapeInv, UiShape, Idle
  <2>2. CASE InRange(ui.index)
    <3>1. Slot(ui.index) \in InUse
      BY <1>0, <2>1, <2>2 DEF InUse, InRange
    <3>2. InUse' = InUse
      BY <1>4, InUseStays DEF DrawDeref, bufferVars
    <3>3. ui' = [at |-> "label", index |-> ui.index, offset |-> ui.offset,
                 last |-> ui.last, slot |-> Slot(ui.index)]
      BY <1>4, <2>2 DEF DrawDeref
    <3>4. ui' \in [at : {"label"}, index : Nat, offset : Nat, last : Nat \X Nat, slot : InUse]
      BY <2>1, <3>1, <3>3
    <3> QED BY <3>2, <3>4 DEF UiShape
  <2>3. CASE ~InRange(ui.index)
    BY <1>4, <2>3 DEF DrawDeref, UiShape
  <2> QED BY <2>2, <2>3
<1>5. CASE DrawLabel
  <2>1. ui \in [at : {"label"}, index : Nat, offset : Nat, last : Nat \X Nat, slot : InUse]
    BY <1>5 DEF DrawLabel, ShapeInv, UiShape, Idle
  <2>2. ui' \in [at : {"test"}, index : Nat, offset : Nat, last : Nat \X Nat]
    BY <1>5, <2>1 DEF DrawLabel
  <2> QED BY <2>2 DEF UiShape
<1> QED BY <1>1, <1>2, <1>3, <1>4, <1>5

\* The record of the thread that moved is sound ...
LEMMA SearchStepShape ==
  ASSUME ShapeInv, NEW g \in GameThreads,
         SearchStep(g) \/ Touch(g) \/ \E name \in Names : Search(g, name)
  PROVE  /\ game' \in [GameThreads -> Records]
         /\ \A h \in GameThreads : h # g => game'[h] = game[h]
         /\ AtSound(g)'
<1>0. AtSound(g)
  BY DEF ShapeInv
<1>1. CASE RBegin(g)
  BY <1>0, <1>1, RBeginGives DEF Becomes, AtSound, RBegin, Step
<1>2. CASE Test(g)
  BY <1>0, <1>2, TestGives DEF Becomes, AtSound, Test, Step
<1>3. CASE DerefSize(g)
  BY <1>0, <1>3, DerefSizeGives DEF Becomes, AtSound, DerefSize, Step
<1>4. CASE Deref(g)
  <2>1. /\ game'[g].at = "label" /\ game'[g].slot \in 0..(max_size - 1)
        /\ buff[game'[g].slot] \in Values
    BY <1>4, DerefGives DEF Becomes, At
  <2>2. buff' = buff /\ max_size' = max_size
    BY <1>4 DEF Deref, bufferVars
  <2>3. AtSound(g)'
    BY <2>1, <2>2 DEF AtSound, Label
  <2> QED BY <1>4, <2>3, DerefGives DEF Becomes
<1>5. CASE Compare(g)
  BY <1>5, CompareGives DEF Becomes, AtSound
<1>6. CASE Write(g)
  BY <1>6, WriteGives DEF Becomes, Leaves, AtSound, Out
<1>7. CASE OutOfRange(g)
  BY <1>7, OutOfRangeGives DEF Becomes, AtSound
<1>8. CASE Push(g)
  BY <1>8, PushGives DEF Leaves, AtSound, Out
<1>9. CASE Touch(g)
  BY <1>9, TouchGives DEF Leaves, AtSound, Undefined
<1>10. ASSUME NEW name \in Names, Search(g, name)
       PROVE  /\ game' \in [GameThreads -> Records]
              /\ \A h \in GameThreads : h # g => game'[h] = game[h]
              /\ AtSound(g)'
  BY <1>10, SearchGives DEF AtSound
<1> QED BY <1>1, <1>2, <1>3, <1>4, <1>5, <1>6, <1>7, <1>8, <1>9, <1>10 DEF SearchStep

\* ... and those of the others stay so.
LEMMA SoundStays ==
  ASSUME ShapeInv, [Next]_vars, ~Replaced, NEW h \in GameThreads, game'[h] = game[h]
  PROVE  AtSound(h)'
<1>1. AtSound(h)
  BY DEF ShapeInv
<1>2. /\ max_size' = max_size
      /\ \A k \in 0..(max_size - 1) : buff[k] \in Values => buff'[k] \in Values
  BY RingStep
<1>3. game[h].at = "label" => Label(h)' \in Values
  BY <1>1, <1>2 DEF AtSound, Label
<1> QED BY <1>1, <1>2, <1>3 DEF AtSound

LEMMA ReplacedShape ==
  ASSUME ShapeInv, Replaced
  PROVE  \A g \in GameThreads : AtSound(g)'
<1> SUFFICES ASSUME NEW g \in GameThreads PROVE AtSound(g)'
  OBVIOUS
<1>1. AtSound(g)
  BY DEF ShapeInv
<1>2. CASE game[g].at = "label"
  BY <1>2, ReplacedGives DEF AtSound
<1>3. CASE game[g].at # "label"
  BY <1>1, <1>3, ReplacedGives DEF AtSound
<1> QED BY <1>2, <1>3

LEMMA ShapeStep ==
  ASSUME ShapeInv, [Next]_vars
  PROVE  ShapeInv'
<1>1. BufferTypeOK' /\ BufferInv'
  BY RingStep
<1>2. game \in [GameThreads -> Records] /\ \A g \in GameThreads : AtSound(g)
  BY DEF ShapeInv
<1>3. ASSUME game' \in [GameThreads -> Records], \A g \in GameThreads : AtSound(g)',
             UiShape', moved' \in BOOLEAN
      PROVE  ShapeInv'
  BY <1>1, <1>3 DEF ShapeInv
<1>r. Replaced => ui.at = "replace"
  BY ReplacedRing
<1>4. ASSUME UNCHANGED game, ~Replaced
      PROVE  game' \in [GameThreads -> Records] /\ \A g \in GameThreads : AtSound(g)'
  BY <1>2, <1>4, SoundStays
<1>5. CASE UNCHANGED vars
  <2>1. UiShape' /\ UNCHANGED <<buff, max_size, game>> /\ moved' \in BOOLEAN
    BY <1>5, InUseStays, UiShapeStays DEF vars, bufferVars, ShapeInv
  <2>2. \A g \in GameThreads : AtSound(g)'
    BY <1>2, <2>1 DEF AtSound, Label
  <2> QED BY <1>2, <1>3, <2>1, <2>2
<1>6. ASSUME NEW g \in GameThreads,
             SearchStep(g) \/ Touch(g) \/ \E name \in Names : Search(g, name)
      PROVE  ShapeInv'
  <2>0. ~Replaced /\ UNCHANGED ui /\ moved' \in BOOLEAN
    <3>1. UNCHANGED ui /\ moved' \in BOOLEAN
      BY <1>6 DEF SearchStep, Search, RBegin, Test, DerefSize, Deref, Compare, Write, OutOfRange,
                  Push, Touch, Mark, ShapeInv, full
    <3>2. Replaced => ui.at = "replace" /\ ui' = Idle
      BY ReplacedRing
    <3> QED BY <3>1, <3>2 DEF Idle
  <2>1. game' \in [GameThreads -> Records]
    BY <1>6, SearchStepShape
  <2>2. ASSUME NEW h \in GameThreads PROVE AtSound(h)'
    <3>1. CASE h = g
      BY <1>6, <3>1, SearchStepShape
    <3>2. CASE h # g
      BY <1>6, <2>0, <3>2, SearchStepShape, SoundStays
    <3> QED BY <3>1, <3>2
  <2>3. InUse \subseteq InUse'
    <3>1. CASE Push(g)
      <4>1. /\ push_back([name |-> game[g].name, gone |-> GoneTime])
            /\ [name |-> game[g].name, gone |-> GoneTime] \in Values
        BY <3>1, SearcherRecord, PushedValue DEF Push, Step
      <4> QED BY <4>1, PushKeepsSlots DEF ShapeInv
    <3>2. CASE ~Push(g)
      BY <1>6, <3>2, InUseStays
         DEF SearchStep, Search, RBegin, Test, DerefSize, Deref, Compare, Write, OutOfRange,
             Touch, bufferVars
    <3> QED BY <3>1, <3>2
  <2> QED BY <1>3, <2>0, <2>1, <2>2, <2>3, UiShapeStays
<1>7. CASE DrawBegin \/ DrawEnd \/ DrawDone \/ DrawDeref \/ DrawLabel
  <2>1. UNCHANGED game /\ UNCHANGED moved
    BY <1>7 DEF DrawBegin, DrawEnd, DrawDone, DrawDeref, DrawLabel
  <2>2. ~Replaced
    BY <1>7, <1>r DEF DrawBegin, DrawEnd, DrawDone, DrawDeref, DrawLabel, Idle
  <2>3. moved' \in BOOLEAN
    BY <2>1 DEF ShapeInv
  <2> QED BY <1>3, <1>4, <1>7, <2>1, <2>2, <2>3, UiStepShape
<1>8. CASE Clear \/ \E n \in Capacities : Resize(n)
  <2>1. UNCHANGED game /\ moved' \in BOOLEAN /\ ui = Idle
    BY <1>8 DEF Clear, Resize, ShapeInv
  <2>2. ~Replaced
    BY <1>r, <2>1 DEF Idle
  <2>3. UiShape'
    BY <1>8 DEF Clear, Resize, UiShape
  <2> QED BY <1>3, <1>4, <2>1, <2>2, <2>3
<1>9. CASE Replaced
  <2>1. moved' \in BOOLEAN /\ UiShape'
    BY <1>9, ReplacedRing DEF UiShape
  <2> QED BY <1>3, <1>9, <2>1, ReplacedGives, ReplacedShape
<1> QED BY <1>5, <1>6, <1>7, <1>8, <1>9 DEF Next

LEMMA ShapeInit == Init => ShapeInv
<1> SUFFICES ASSUME Init PROVE ShapeInv
  OBVIOUS
<1>1. BufferTypeOK /\ BufferInv
  BY BufferInitInv DEF Init
<1>2. UiShape
  BY DEF Init, UiShape
<1> QED BY <1>1, <1>2 DEF Init, ShapeInv, AtSound, Records, Out

LEMMA ShapeAlways == Spec => []ShapeInv
  BY ShapeInit, ShapeStep, PTL DEF Spec

\* The overlay's type correctness, the buffer's included: every index stays in the
\* array, and so does every reference given out while it is used, for any number of
\* threads (circular_buffer.h, Frida.cpp:162-179).
THEOREM OverlayTyping == Spec => []TypeOK
<1>1. ShapeInv => TypeOK
  <2> SUFFICES ASSUME ShapeInv PROVE TypeOK
    OBVIOUS
  <2>1. ui.at \in {"idle", "end", "test", "label", "replace", "thrown"}
    BY DEF ShapeInv, UiShape, Idle
  <2>2. ASSUME NEW g \in GameThreads
        PROVE  /\ game[g].at \in Places \cup {"undefined"}
               /\ game[g] \notin {Out, Undefined} =>
                    /\ game[g].name \in Names
                    /\ game[g].index \in Nat /\ game[g].offset \in Nat
                    /\ game[g].count \in Nat /\ game[g].writes \in 0..3
                    /\ game[g].slot \in 0..(max_size - 1)
    <3>1. CASE game[g] \in {Out, Undefined}
      BY <3>1 DEF Out, Undefined, Places
    <3>2. CASE game[g] \in Searching
      <4>1. game[g].at \notin {"out", "undefined"} /\ game[g].at \in Places
        BY <3>2 DEF Searching, Places
      <4>2. game[g].slot \in 0..(max_size - 1)
        BY <4>1, CapacitiesAssumption DEF ShapeInv, AtSound, BufferTypeOK
      <4> QED BY <3>2, <4>1, <4>2 DEF Searching
    <3> QED BY <3>1, <3>2 DEF ShapeInv, Records
  <2> QED BY <2>1, <2>2 DEF ShapeInv, TypeOK
<1> QED BY <1>1, ShapeAlways, PTL

\* The overlay, with all its loops, uses the ring as a bounded log: no step of any thread
\* reaches it but through a push, a write of an element in use, a clear or a new ring.  A
\* reference that outlives its element reaches no other.
THEOREM OverlayIsABoundedLog == Spec => ImplementsBoundedLog
<1>1. Init => Log!Init
  BY DEF Init, BufferInit, Log!Init, Contents
<1>2. ShapeInv /\ [Next]_vars => [Log!Next]_(Log!vars)
  BY RingStep
<1> QED BY <1>1, <1>2, ShapeAlways, PTL DEF Spec, ImplementsBoundedLog, Log!Spec

-----------------------------------------------------------------------------
\* The bounds stay when the ring grows.
LEMMA GrowthIsHarmless ==
  ASSUME ShapeInv, size' \in Nat, size <= size'
  PROVE  /\ \A h \in GameThreads : game'[h] = game[h] /\ GameOnTime(h) => GameOnTime(h)'
         /\ UNCHANGED ui /\ UiOnTime => UiOnTime'
<1>0. size \in Nat
  BY CapacitiesAssumption DEF ShapeInv, BufferTypeOK
<1>1. ASSUME NEW h \in GameThreads, game'[h] = game[h], GameOnTime(h)
      PROVE  GameOnTime(h)'
  <2>1. CASE game[h].at \in {"out", "undefined"}
    BY <1>1, <2>1 DEF GameOnTime
  <2>2. CASE game[h].at \notin {"out", "undefined"}
    BY <1>0, <1>1, <2>2, SearcherRecord DEF GameOnTime
  <2> QED BY <2>1, <2>2
<1>2. ASSUME UNCHANGED ui, UiOnTime
      PROVE  UiOnTime'
  <2>1. CASE ui.at \in {"test", "label"}
    <3>1. ui.last \in Nat \X Nat
      BY <2>1 DEF ShapeInv, UiShape, Idle
    <3> QED BY <1>0, <1>2, <3>1 DEF UiOnTime
  <2>2. CASE ui.at \notin {"test", "label"}
    BY <1>2, <2>2 DEF UiOnTime
  <2> QED BY <2>1, <2>2
<1> QED BY <1>1, <1>2

\* A step of a search that does not push leaves the ends of the ring alone.
LEMMA EndsStay ==
  ASSUME NEW g \in GameThreads,
         (SearchStep(g) /\ ~Push(g)) \/ Touch(g) \/ \E name \in Names : Search(g, name)
  PROVE  UNCHANGED <<tail, size, max_size, ui, moved>>
  BY DEF SearchStep, Search, RBegin, Test, DerefSize, Deref, Compare, Write, OutOfRange, Touch,
         bufferVars

\* The thread that steps stays within its bounds.
LEMMA SearcherOnTime ==
  ASSUME ShapeInv, NEW g \in GameThreads, GameOnTime(g), tail = 0,
         SearchStep(g) \/ Touch(g) \/ \E name \in Names : Search(g, name)
  PROVE  GameOnTime(g)'
<1>0. /\ size \in Nat
      /\ game[g].at = "rbegin" => game[g].index = 0
  BY CapacitiesAssumption DEF ShapeInv, AtSound, BufferTypeOK
<1>1. CASE RBegin(g)
  <2>1. game[g].index = 0 /\ size' = size
    BY <1>0, <1>1 DEF RBegin, Step, bufferVars
  <2> QED BY <1>0, <1>1, <2>1, RBeginGives DEF Becomes, GameOnTime
<1>2. CASE Test(g)
  <2>1. game[g].at = "test" /\ size' = size /\ game[g].index \in Nat
    BY <1>2, SearcherRecord DEF Test, Step, bufferVars
  <2>2. CASE game[g].index = size /\ game[g].offset = tail
    BY <1>2, <2>2, TestGives DEF Becomes, GameOnTime
  <2>3. CASE ~(game[g].index = size /\ game[g].offset = tail)
    <3>1. game[g].offset = 0 /\ game[g].index < size
      BY <1>0, <2>1, <2>3 DEF GameOnTime
    <3> QED BY <1>2, <2>1, <2>3, <3>1, TestGives DEF Becomes, GameOnTime
  <2> QED BY <2>2, <2>3
<1>3. CASE DerefSize(g)
  <2>1. game[g].at = "size" /\ size' = size
    BY <1>3 DEF DerefSize, Step, bufferVars
  <2> QED BY <1>0, <1>3, <2>1, DerefSizeGives DEF Becomes, GameOnTime
<1>4. CASE Deref(g)
  <2>1. game[g].at = "deref" /\ size' = size
    BY <1>4 DEF Deref, Step, bufferVars
  <2>2. game[g].index \in Nat /\ game[g].count \in Nat
    BY <2>1, SearcherRecord
  <2>3. game[g].offset = 0 /\ game[g].index < size
    BY <1>0, <2>1, <2>2 DEF GameOnTime
  <2> QED BY <1>4, <2>1, <2>3, DerefGives DEF Becomes, GameOnTime
<1>5. CASE Compare(g)
  <2>1. game[g].at = "label" /\ size' = size
    BY <1>5 DEF Compare, Step, bufferVars
  <2>2. game[g].index \in Nat
    BY <2>1, SearcherRecord
  <2>3. game[g].offset = 0 /\ game[g].index < size /\ game[g].index + 1 <= size
    BY <1>0, <2>1, <2>2 DEF GameOnTime
  <2> QED BY <1>5, <2>1, <2>3, CompareGives DEF Becomes, GameOnTime
<1>6. CASE Write(g)
  <2>1. game[g].at = "label" /\ size' = size
    BY <1>6 DEF Write, Step
  <2>2. game[g].offset = 0 /\ game[g].index < size
    BY <2>1 DEF GameOnTime
  <2> QED BY <1>6, <2>1, <2>2, WriteGives DEF Becomes, Leaves, GameOnTime, Out
<1>7. CASE OutOfRange(g)
  <2>1. game[g].at = "deref" /\ ~InRange(Position(g))
    BY <1>7 DEF OutOfRange, Step
  <2>2. game[g].index \in Nat /\ game[g].count \in Nat
    BY <2>1, SearcherRecord
  <2>3. game[g].index < game[g].count /\ game[g].count <= size
    BY <2>1 DEF GameOnTime
  <2> QED BY <1>0, <2>1, <2>2, <2>3 DEF Position, InRange
<1>8. CASE Push(g)
  BY <1>8, PushGives DEF Leaves, GameOnTime, Out
<1>9. CASE Touch(g)
  BY <1>9, TouchGives DEF Leaves, GameOnTime, Undefined
<1>10. ASSUME NEW name \in Names, Search(g, name)
       PROVE  GameOnTime(g)'
  BY <1>10, SearchGives DEF GameOnTime
<1> QED BY <1>1, <1>2, <1>3, <1>4, <1>5, <1>6, <1>7, <1>8, <1>9, <1>10 DEF SearchStep

\* So does the frame.
LEMMA UiStaysOnTime ==
  ASSUME ShapeInv, UiOnTime, tail = 0,
         DrawBegin \/ DrawEnd \/ DrawDone \/ DrawDeref \/ DrawLabel
  PROVE  UiOnTime'
<1>0. size \in Nat /\ size' = size
  BY CapacitiesAssumption
     DEF ShapeInv, BufferTypeOK, DrawBegin, DrawEnd, DrawDone, DrawDeref, DrawLabel, bufferVars
<1>1. CASE DrawBegin
  BY <1>1 DEF DrawBegin, UiOnTime
<1>2. CASE DrawEnd
  BY <1>0, <1>2 DEF DrawEnd, UiOnTime
<1>3. CASE DrawDone
  BY <1>3 DEF DrawDone, UiOnTime, Idle
<1>4. CASE DrawDeref
  <2>1. ui \in [at : {"test"}, index : Nat, offset : Nat, last : Nat \X Nat]
    BY <1>4 DEF DrawDeref, ShapeInv, UiShape, Idle
  <2>2. ui.offset = 0 /\ ui.last[2] = 0 /\ ui.last[1] <= size /\ ui.index <= ui.last[1]
    BY <2>1 DEF UiOnTime
  <2>3. ui.index # ui.last[1]
    <3>1. <<ui.index, ui.offset>> # ui.last
      BY <1>4 DEF DrawDeref
    <3>2. ui.last = <<ui.last[1], ui.last[2]>>
      BY <2>1
    <3> QED BY <2>2, <3>1, <3>2
  <2>4. ui.index < ui.last[1] /\ InRange(ui.index)
    BY <1>0, <2>1, <2>2, <2>3 DEF InRange
  <2>5. ui' = [at |-> "label", index |-> ui.index, offset |-> ui.offset,
               last |-> ui.last, slot |-> Slot(ui.index)]
    BY <1>4, <2>4 DEF DrawDeref
  <2> QED BY <1>0, <2>2, <2>4, <2>5 DEF UiOnTime
<1>5. CASE DrawLabel
  <2>1. ui \in [at : {"label"}, index : Nat, offset : Nat, last : Nat \X Nat, slot : InUse]
    BY <1>5 DEF DrawLabel, ShapeInv, UiShape, Idle
  <2>2. ui' = [at |-> "test", index |-> ui.index + 1, offset |-> ui.offset, last |-> ui.last]
    BY <1>5 DEF DrawLabel
  <2>3. ui.offset = 0 /\ ui.last[2] = 0 /\ ui.last[1] <= size /\ ui.index < ui.last[1]
    BY <2>1 DEF UiOnTime
  <2>4. ui.index + 1 <= ui.last[1]
    BY <2>1, <2>3
  <2> QED BY <1>0, <2>2, <2>3, <2>4 DEF UiOnTime
<1> QED BY <1>1, <1>2, <1>3, <1>4, <1>5

LEMMA OnTimeStep ==
  ASSUME ShapeInv, OnTime, [Next]_vars
  PROVE  OnTime'
<1>0. SUFFICES ASSUME ~moved'
               PROVE  (tail = 0 /\ UiOnTime /\ \A g \in GameThreads : GameOnTime(g))'
  BY DEF OnTime
<1>1. size \in Nat
  BY CapacitiesAssumption DEF ShapeInv, BufferTypeOK
<1>2. ASSUME ~moved
      PROVE  tail = 0 /\ UiOnTime /\ \A g \in GameThreads : GameOnTime(g)
  BY <1>2 DEF OnTime
<1>3. CASE UNCHANGED vars
  <2>1. ~moved /\ size' = size /\ tail' = tail /\ UNCHANGED <<game, ui>>
    BY <1>0, <1>3 DEF vars, bufferVars
  <2> QED BY <1>1, <1>2, <2>1, GrowthIsHarmless
<1>4. ASSUME NEW g \in GameThreads,
             SearchStep(g) \/ Touch(g) \/ \E name \in Names : Search(g, name)
      PROVE  (tail = 0 /\ UiOnTime /\ \A h \in GameThreads : GameOnTime(h))'
  <2>1. /\ ~moved /\ tail' = tail /\ UNCHANGED ui
        /\ size' \in Nat /\ size <= size'
    <3>1. CASE Push(g)
      <4>1. ~moved /\ ~full
        BY <1>0, <3>1 DEF Push, Mark
      <4>2. size' = size + 1 /\ tail' = tail /\ ui' = ui
        BY <3>1, <4>1 DEF Push, push_back
      <4> QED BY <1>1, <4>1, <4>2
    <3>2. CASE ~Push(g)
      BY <1>0, <1>1, <1>4, <3>2, EndsStay
    <3> QED BY <3>1, <3>2
  <2>2. GameOnTime(g)'
    BY <1>2, <1>4, <2>1, SearcherOnTime
  <2>3. \A h \in GameThreads : h # g => game'[h] = game[h]
    BY <1>4, SearchStepShape
  <2> QED BY <1>2, <2>1, <2>2, <2>3, GrowthIsHarmless
<1>5. CASE DrawBegin \/ DrawEnd \/ DrawDone \/ DrawDeref \/ DrawLabel
  <2>1. ~moved /\ size' = size /\ tail' = tail /\ UNCHANGED game
    BY <1>0, <1>5 DEF DrawBegin, DrawEnd, DrawDone, DrawDeref, DrawLabel, bufferVars
  <2>2. UiOnTime'
    BY <1>2, <1>5, <2>1, UiStaysOnTime
  <2> QED BY <1>1, <1>2, <2>1, <2>2, GrowthIsHarmless
<1>6. CASE \E n \in Capacities : Resize(n)
  <2>1. ~moved /\ size' = size /\ tail' = tail /\ UNCHANGED game /\ ui'.at = "replace"
    BY <1>0, <1>6 DEF Resize, bufferVars
  <2>2. UiOnTime'
    BY <2>1 DEF UiOnTime
  <2> QED BY <1>1, <1>2, <2>1, <2>2, GrowthIsHarmless
<1>7. CASE Clear \/ Replaced
  BY <1>0, <1>7 DEF Clear, Replaced
<1> QED BY <1>3, <1>4, <1>5, <1>6, <1>7 DEF Next

LEMMA OnTimeInit == Init => OnTime
  BY DEF Init, BufferInit, OnTime, UiOnTime, GameOnTime, Out, Idle

\* A loop over the ring throws only after an element has left it or changed its index:
\* as long as the ring only grows, every search and every frame stays inside it
\* (Frida.cpp:165-175, Main.cpp:168).
THEOREM SafeUntilMovedAlways == Spec => []SafeUntilMoved
<1>1. OnTime => SafeUntilMoved
  BY DEF OnTime, UiOnTime, GameOnTime, SafeUntilMoved, Thrown
<1>2. ShapeInv /\ OnTime /\ [Next]_vars => OnTime'
  BY OnTimeStep
<1> QED BY <1>1, <1>2, OnTimeInit, ShapeAlways, PTL DEF Spec

-----------------------------------------------------------------------------
\* No step but a push adds a copy of a label.
LEMMA CopiesOnlyVanish ==
  ASSUME ShapeInv, [Next]_vars, \A g \in GameThreads : ~Push(g)
  PROVE  \A name \in Names : Copies(name)' \subseteq Copies(name)
<1>1. ASSUME UNCHANGED bufferVars
      PROVE  \A name \in Names : Copies(name)' \subseteq Copies(name)
  BY <1>1 DEF Copies, At, Slot, bufferVars
<1>2. ASSUME size' = 0
      PROVE  \A name \in Names : Copies(name)' \subseteq Copies(name)
  BY <1>2 DEF Copies
<1>3. ASSUME UNCHANGED <<head, tail, size, max_size>>,
             NEW s \in 0..(max_size - 1), NEW v \in Values,
             buff' = [buff EXCEPT ![s] = v], v.name \in {buff[s].name, NoName},
             NEW name \in Names, NEW i \in Copies(name)'
      PROVE  i \in Copies(name)
  <2>1. i \in 0..(size - 1) /\ At(i)'.name = name
    BY <1>3 DEF Copies
  <2>2. At(i)' = IF Slot(i) = s THEN v ELSE At(i)
    BY <1>3, <2>1, SlotWritten
  <2>3. name # NoName
    BY ElementsAssumption
  <2>4. At(i).name = name
    BY <1>3, <2>1, <2>2, <2>3 DEF At
  <2> QED BY <2>1, <2>4 DEF Copies
<1>4. CASE DrawLabel \/ \E g \in GameThreads : Write(g)
  BY <1>1, <1>3, <1>4, WritesASlot
<1>5. CASE Clear \/ Replaced
  BY <1>2, <1>5 DEF Clear, clear, Replaced, replace
<1>6. \/ UNCHANGED bufferVars
      \/ DrawLabel \/ \E g \in GameThreads : Write(g)
      \/ Clear \/ Replaced
  BY DEF Next, SearchStep, Search, RBegin, Test, DerefSize, Deref, Compare, OutOfRange, Touch,
         DrawBegin, DrawEnd, DrawDone, DrawDeref, Resize, vars
<1> QED BY <1>1, <1>4, <1>5, <1>6

\* The owners of the copies that are left are still apart.
LEMMA OwnFrame ==
  ASSUME OwnInv,
         \A name \in Names : Copies(name)' \subseteq Copies(name),
         \A name \in Names : \A g \in GameThreads : \A i \in Copies(name)' :
           WillMeet(g, name, i) => WillMeet(g, name, i)'
  PROVE  OwnInv'
<1> SUFFICES ASSUME NEW name \in Names
             PROVE  \E own \in Injection(Copies(name)', GameThreads) :
                      \A i \in Copies(name)' : WillMeet(own[i], name, i)'
  BY DEF OwnInv
<1>1. PICK own \in Injection(Copies(name), GameThreads) :
             \A i \in Copies(name) : WillMeet(own[i], name, i)
  BY DEF OwnInv
<1>2. PICK left : left = Copies(name)'
  OBVIOUS
<1>3. left \subseteq Copies(name)
  BY <1>2
<1> DEFINE own2 == [i \in left |-> own[i]]
<1>4. own2 \in Injection(left, GameThreads)
  BY <1>1, <1>3 DEF Injection, IsInjective
<1>5. ASSUME NEW i \in left PROVE WillMeet(own2[i], name, i)'
  <2>1. own[i] \in GameThreads /\ WillMeet(own[i], name, i)
    BY <1>1, <1>3 DEF Injection
  <2>2. PICK g \in GameThreads : g = own[i] /\ g = own2[i]
    BY <2>1
  <2>3. WillMeet(g, name, i)'
    BY <1>2, <2>1, <2>2
  <2> QED BY <2>2, <2>3
<1> QED BY <1>2, <1>4, <1>5

\* A thread that has not passed a copy does not pass it by stepping, unless it meets it.
LEMMA SearcherWillMeet ==
  ASSUME ShapeInv, NEW g \in GameThreads,
         (SearchStep(g) /\ ~Push(g)) \/ Touch(g) \/ \E name \in Names : Search(g, name),
         NEW n \in Names, NEW i \in Copies(n), WillMeet(g, n, i)
  PROVE  WillMeet(g, n, i)'
<1>0. /\ size \in Nat /\ size' = size /\ i \in 0..(size - 1) /\ At(i).name = n
      /\ game[g].at = "rbegin" => game[g].index = 0
  BY CapacitiesAssumption, EndsStay DEF ShapeInv, AtSound, BufferTypeOK, Copies
<1>1. CASE RBegin(g)
  <2>1. game[g].at = "rbegin" /\ game[g] \notin {Out, Undefined}
    BY <1>1 DEF RBegin, Step, Out, Undefined
  <2> QED BY <1>0, <1>1, <2>1, RBeginGives DEF Becomes, WillMeet
<1>2. CASE Test(g)
  <2>1. game[g].at = "test" /\ game[g] \notin {Out, Undefined} /\ game[g].index \in Nat
    BY <1>2, SearcherRecord DEF Test, Step
  <2>2. CASE game[g].index = size /\ game[g].offset = tail
    <3>1. ~(game[g].index + i < size) /\ game[g].writes = 0
      BY <1>0, <2>1, <2>2 DEF ShapeInv, AtSound
    <3>2. game[g].name # n
      BY <2>1, <3>1 DEF WillMeet
    <3> QED BY <1>2, <2>2, <3>2, TestGives DEF Becomes, WillMeet
  <2>3. CASE ~(game[g].index = size /\ game[g].offset = tail)
    BY <1>0, <1>2, <2>1, <2>3, TestGives DEF Becomes, WillMeet
  <2> QED BY <2>2, <2>3
<1>3. CASE DerefSize(g)
  <2>1. game[g].at = "size" /\ game[g] \notin {Out, Undefined}
    BY <1>3 DEF DerefSize, Step, Out, Undefined
  <2> QED BY <1>0, <1>3, <2>1, DerefSizeGives DEF Becomes, WillMeet
<1>4. CASE Deref(g)
  <2>1. /\ game[g].at = "deref" /\ game[g] \notin {Out, Undefined}
        /\ game[g].index \in Nat /\ game[g].count \in Nat
    BY <1>4, SearcherRecord DEF Deref, Step
  <2>2. Position(g)' = Position(g) /\ Slot(i)' = Slot(i)
    BY <1>4, <2>1, DerefGives DEF Becomes, Position, Deref, Slot, bufferVars
  <2>3. Slot(Position(g)) = game'[g].slot
    BY <1>4, DerefGives DEF Becomes
  <2>4. i = Position(g)' => game'[g].slot = Slot(i)'
    BY <2>2, <2>3
  <2> QED BY <1>0, <1>4, <2>1, <2>4, DerefGives DEF Becomes, WillMeet
<1>5. CASE Compare(g)
  <2>1. /\ game[g].at = "label" /\ game[g].writes = 0 /\ game[g] \notin {Out, Undefined}
        /\ game[g].index \in Nat /\ game[g].count \in Nat
    BY <1>5, SearcherRecord DEF Compare, Step
  <2>2. CASE Label(g).name = game[g].name
    BY <1>5, <2>2, CompareGives DEF Becomes, WillMeet
  <2>3. CASE Label(g).name # game[g].name /\ game[g].name = n
    <3>1. /\ game[g].index + i < game[g].count /\ game[g].count <= size
          /\ i = Position(g) => game[g].slot = Slot(i)
      BY <2>1, <2>3 DEF WillMeet
    <3>2. i # Position(g)
      BY <1>0, <2>3, <3>1 DEF Label, At
    <3>3. (game[g].index + 1) + i < size
      BY <1>0, <2>1, <3>1, <3>2 DEF Position
    <3> QED BY <1>0, <1>5, <2>3, <3>3, CompareGives DEF Becomes, WillMeet
  <2>4. CASE Label(g).name # game[g].name /\ game[g].name # n
    BY <1>5, <2>4, CompareGives DEF Becomes, WillMeet
  <2> QED BY <2>2, <2>3, <2>4
<1>6. CASE Write(g)
  <2>1. game[g].writes \in 1..3
    BY <1>6, SearcherRecord DEF Write, Step
  <2>2. CASE game[g].writes = 1
    BY <1>6, <2>2, WriteGives DEF Leaves, WillMeet
  <2>3. CASE game[g].writes # 1
    BY <1>6, <2>1, <2>3, WriteGives DEF Becomes, WillMeet
  <2> QED BY <2>2, <2>3
<1>7. CASE OutOfRange(g)
  BY <1>7, OutOfRangeGives DEF Becomes, WillMeet
<1>8. CASE Touch(g)
  BY <1>8, TouchGives DEF Leaves, WillMeet
<1>9. ASSUME NEW name \in Names, Search(g, name)
      PROVE  WillMeet(g, n, i)'
  <2>1. ~empty
    BY <1>0 DEF empty
  <2> QED BY <1>0, <1>9, <2>1, SearchGives DEF WillMeet
<1> QED BY <1>1, <1>2, <1>3, <1>4, <1>5, <1>6, <1>7, <1>8, <1>9 DEF SearchStep

\* A push adds one copy of the label its thread looked for in vain, and that thread owns
\* no other.
LEMMA PushOwn ==
  ASSUME ShapeInv, OwnInv, NEW g \in GameThreads, Push(g)
  PROVE  OwnInv'
<1> SUFFICES ASSUME NEW name \in Names
             PROVE  \E own \in Injection(Copies(name)', GameThreads) :
                      \A i \in Copies(name)' : WillMeet(own[i], name, i)'
  BY DEF OwnInv
<1> DEFINE v == [name |-> game[g].name, gone |-> GoneTime]
<1>0. /\ v \in Values /\ push_back(v) /\ v.name = game[g].name
      /\ game[g].at = "push" /\ game[g] \notin {Out, Undefined} /\ game[g].writes = 0
  BY SearcherRecord, PushedValue DEF Push, Step, ShapeInv, AtSound
<1>1. /\ \A i \in 0..(size' - 2) : At(i)' = At(IF full THEN i + 1 ELSE i)
      /\ At(size - 1)' = v
      /\ size' = (IF full THEN size ELSE size + 1)
  BY <1>0, PushContents DEF ShapeInv
<1>2. /\ \A h \in GameThreads : h # g => game'[h] = game[h]
      /\ game'[g] = Out
  BY PushGives DEF Leaves
<1>3. size \in Nat /\ size' \in Nat \ {0} /\ size <= size'
  BY <1>1, CapacitiesAssumption DEF ShapeInv, BufferTypeOK, full
<1>4. PICK own \in Injection(Copies(name), GameThreads) :
             \A i \in Copies(name) : WillMeet(own[i], name, i)
  BY DEF OwnInv
<1>5. own \in [Copies(name) -> GameThreads]
      /\ \A i, j \in Copies(name) : own[i] = own[j] => i = j
  BY <1>4 DEF Injection, IsInjective
<1>6. PICK new : new = Copies(name)'
  OBVIOUS
<1>7. PICK last \in Int : last = size' - 1
  <2>1. size' - 1 \in Int
    BY <1>3
  <2> QED BY <2>1
<1>s. PICK shift \in {0, 1} : shift = IF full THEN 1 ELSE 0
  OBVIOUS
<1> DEFINE old(i) == i + shift
<1>8. ASSUME NEW i \in new, i # last
      PROVE  i \in Nat /\ old(i) \in Copies(name) /\ i <= old(i)
  <2>1. i \in 0..(size' - 2) /\ At(i)'.name = name
    BY <1>3, <1>6, <1>7, <1>8 DEF Copies
  <2>2. old(i) = IF full THEN i + 1 ELSE i
    BY <1>3, <1>s, <2>1
  <2>3. old(i) \in 0..(size - 1) /\ i <= old(i) /\ i \in Nat
    BY <1>1, <1>3, <2>1, <2>2
  <2>4. At(i)' = At(old(i))
    BY <1>1, <2>1, <2>2
  <2> QED BY <2>1, <2>3, <2>4 DEF Copies
<1>9. ASSUME NEW i \in new, i = last
      PROVE  name = game[g].name
  <2>1. At(i)'.name = name /\ i = size' - 1
    BY <1>6, <1>7, <1>9 DEF Copies
  <2>2. At(i)' = At(size - 1)'
    BY <2>1 DEF At, Slot
  <2> QED BY <1>0, <1>1, <2>1, <2>2
<1>10. ASSUME name = game[g].name, NEW k \in Copies(name)
       PROVE  own[k] # g
  BY <1>0, <1>4, <1>10 DEF WillMeet
<1> DEFINE own2 == [i \in new |-> IF i = last THEN g ELSE own[old(i)]]
<1>11. own2 \in Injection(new, GameThreads)
  <2>1. own2 \in [new -> GameThreads]
    BY <1>5, <1>8
  <2>2. ASSUME NEW i \in new, NEW j \in new, own2[i] = own2[j]
        PROVE  i = j
    <3>1. CASE i = last /\ j # last
      BY <1>8, <1>9, <1>10, <2>2, <3>1
    <3>2. CASE i # last /\ j = last
      BY <1>8, <1>9, <1>10, <2>2, <3>2
    <3>3. CASE i # last /\ j # last
      <4>1. own[old(i)] = own[old(j)]
        BY <2>2, <3>3
      <4>2. old(i) = old(j)
        BY <1>5, <1>8, <3>3, <4>1
      <4> QED BY <1>8, <3>3, <4>2
    <3> QED BY <3>1, <3>2, <3>3
  <2> QED BY <2>1, <2>2 DEF Injection, IsInjective
<1> HIDE DEF own2
<1>12. ASSUME NEW i \in new PROVE WillMeet(own2[i], name, i)'
  <2>1. PICK h \in GameThreads : h = own2[i]
    BY <1>11 DEF Injection
  <2>2. CASE h = g
    BY <1>2, <2>1, <2>2 DEF WillMeet
  <2>3. CASE h # g
    <3>1. i # last /\ h = own[old(i)]
      BY <2>1, <2>3 DEF own2
    <3>2. PICK k \in Copies(name) : k = old(i) /\ i <= k /\ h = own[k]
      BY <1>8, <3>1
    <3>3. WillMeet(h, name, k) /\ game'[h] = game[h] /\ i \in Nat /\ k \in Nat
      BY <1>2, <1>3, <1>4, <1>8, <2>3, <3>1, <3>2 DEF Copies
    <3>4. WillMeet(h, name, i)'
      <4>1. CASE game[h] \in {Out, Undefined}
        BY <3>3, <4>1 DEF WillMeet
      <4>2. CASE game[h] \notin {Out, Undefined}
        <5>1. game[h].index \in Nat /\ game[h].count \in Nat
          BY <4>2 DEF ShapeInv, Records, Searching
        <5>2. Position(h)' = Position(h)
          BY <3>3 DEF Position
        <5>3. ASSUME WillMeet(h, name, k), game[h].at = "label", game[h].name = name,
                     game[h].writes = 0, i = Position(h)
              PROVE  game[h].slot = Slot(i)'
          <6>1. game[h].index + k < game[h].count
            BY <4>2, <5>3 DEF WillMeet
          <6>2. i = k
            <7>1. i = game[h].count - game[h].index - 1
              BY <5>3 DEF Position
            <7>2. i \in Nat /\ k \in Nat /\ i <= k
              BY <3>2, <3>3
            <7> QED BY <5>1, <6>1, <7>1, <7>2
          <6>3. ~full
            BY <1>s, <3>2, <3>3, <6>2
          <6>4. Slot(i)' = Slot(i)
            BY <1>0, <6>3 DEF push_back, Slot
          <6> QED BY <4>2, <5>3, <6>2, <6>4 DEF WillMeet
        <5> QED BY <1>3, <3>2, <3>3, <5>1, <5>2, <5>3 DEF WillMeet
      <4> QED BY <4>1, <4>2
    <3> QED BY <2>1, <3>4
  <2> QED BY <2>2, <2>3
<1> QED BY <1>6, <1>11, <1>12

\* When a search does not move and the ring keeps its bounds, or is emptied, every owner
\* stays one.
LEMMA OwnersStay ==
  ASSUME NEW h \in GameThreads, NEW name \in Names, NEW i \in Copies(name)',
         WillMeet(h, name, i), game'[h] = game[h], UNCHANGED <<tail, size, max_size>>
  PROVE  WillMeet(h, name, i)'
<1>1. Position(h)' = Position(h) /\ Slot(i)' = Slot(i)
  BY DEF Position, Slot
<1> QED BY <1>1 DEF WillMeet

LEMMA OwnStep ==
  ASSUME ShapeInv, OwnInv, [Next]_vars
  PROVE  OwnInv'
<1>1. ASSUME NEW g \in GameThreads, Push(g)
      PROVE  OwnInv'
  BY <1>1, PushOwn
<1>2. CASE \A g \in GameThreads : ~Push(g)
  <2>0. \A name \in Names : Copies(name)' \subseteq Copies(name)
    BY <1>2, CopiesOnlyVanish
  <2>1. CASE \/ UNCHANGED vars
             \/ DrawBegin \/ DrawEnd \/ DrawDone \/ DrawDeref \/ DrawLabel
             \/ \E n \in Capacities : Resize(n)
    <3>1. UNCHANGED game /\ UNCHANGED <<tail, size, max_size>>
      BY <2>1 DEF DrawBegin, DrawEnd, DrawDone, DrawDeref, DrawLabel, Resize, vars, bufferVars
    <3> QED BY <2>0, <3>1, OwnersStay, OwnFrame
  <2>2. CASE Clear \/ Replaced
    <3>1. size' = 0
      BY <2>2 DEF Clear, clear, Replaced, replace
    <3>2. \A name \in Names : Copies(name)' = {}
      BY <3>1 DEF Copies
    <3> QED BY <2>0, <3>2, OwnFrame
  <2>3. ASSUME NEW g \in GameThreads,
               (SearchStep(g) /\ ~Push(g)) \/ Touch(g) \/ \E name \in Names : Search(g, name)
        PROVE  OwnInv'
    <3>1. ASSUME NEW n \in Names, NEW h \in GameThreads, NEW i \in Copies(n)', WillMeet(h, n, i)
          PROVE  WillMeet(h, n, i)'
      <4>1. CASE h = g
        BY <2>0, <2>3, <3>1, <4>1, SearcherWillMeet
      <4>2. CASE h # g
        <5>1. game'[h] = game[h] /\ UNCHANGED <<tail, size, max_size>>
          BY <2>3, <4>2, SearchStepShape, EndsStay
        <5> QED BY <3>1, <5>1, OwnersStay
      <4> QED BY <4>1, <4>2
    <3> QED BY <2>0, <3>1, OwnFrame
  <2> QED BY <1>2, <2>1, <2>2, <2>3 DEF Next
<1> QED BY <1>1, <1>2

LEMMA OwnInit == Init => OwnInv
<1> SUFFICES ASSUME Init, NEW name \in Names
             PROVE  \E own \in Injection(Copies(name), GameThreads) :
                      \A i \in Copies(name) : WillMeet(own[i], name, i)
  BY DEF OwnInv
<1>1. Copies(name) = {}
  BY DEF Init, BufferInit, Copies
<1> DEFINE own == [i \in Copies(name) |-> i]
<1>2. own \in Injection(Copies(name), GameThreads)
  BY <1>1 DEF Injection, IsInjective
<1> QED BY <1>1, <1>2

\* Each copy has an owner of its own, so there are no more copies than threads.
LEMMA OwnedIsBounded ==
  ASSUME ShapeInv, OwnInv
  PROVE  CopiesBounded
<1> SUFFICES ASSUME NEW name \in Names
             PROVE  Cardinality({i \in 1..size : Contents[i].name = name})
                      <= Cardinality(GameThreads)
  BY DEF CopiesBounded
<1> DEFINE S == {i \in 1..size : Contents[i].name = name}
<1>0. size \in Nat /\ \A i \in 1..size : Contents[i] = At(i - 1)
  BY CapacitiesAssumption, ContentsSeq DEF ShapeInv, BufferTypeOK
<1>1. PICK own \in Injection(Copies(name), GameThreads) : TRUE
  BY DEF OwnInv
<1>2. ASSUME NEW i \in S PROVE i - 1 \in Copies(name) /\ i \in Int
  BY <1>0 DEF Copies
<1> HIDE DEF S
<1> DEFINE own2 == [i \in S |-> own[i - 1]]
<1>3. own2 \in Injection(S, GameThreads)
  <2>1. own2 \in [S -> GameThreads]
    BY <1>1, <1>2 DEF Injection
  <2>2. ASSUME NEW i \in S, NEW j \in S, own2[i] = own2[j]
        PROVE  i = j
    <3>1. i - 1 = j - 1
      BY <1>1, <1>2, <2>2 DEF Injection, IsInjective
    <3> QED BY <1>2, <3>1
  <2> QED BY <2>1, <2>2 DEF Injection, IsInjective
<1>4. Cardinality(S) <= Cardinality(GameThreads)
  BY <1>3, ElementsAssumption, FS_Injection
<1> QED BY <1>4 DEF S

\* However the threads' searches and pushes interleave with each other, with frames that
\* fade labels and with a ring that shifts under them, a label is in the ring at most
\* once per game thread (Frida.cpp:166-179).
THEOREM CopiesAlwaysBounded == Spec => []CopiesBounded
<1>1. ShapeInv /\ OwnInv /\ [Next]_vars => OwnInv'
  BY OwnStep
<1>2. ShapeInv /\ OwnInv => CopiesBounded
  BY OwnedIsBounded
<1> QED BY <1>1, <1>2, OwnInit, ShapeAlways, PTL DEF Spec
=============================================================================
