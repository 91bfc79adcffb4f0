--------------------------- MODULE CircularBuffer ---------------------------
(***************************************************************************)
(* Includes/circular_buffer.h.  Each member function but the assignment    *)
(* locks _mtx for its whole body, so each is one step; the names are those *)
(* of the members, without the leading underscore.  Elements are written   *)
(* through the reference operator[] returns.                               *)
(***************************************************************************)
EXTENDS Integers, Sequences

CONSTANTS Values,      \* the elements that can be pushed or written
          Unset,       \* a default-constructed element, or one that was moved from
          Capacities   \* the capacities buffers are built with

ASSUME CapacitiesAssumption == Capacities \subseteq Nat \ {0} /\ Capacities # {}

VARIABLES buff,        \* the array
          head, tail,  \* where the next element goes, where the oldest is
          size, max_size

bufferVars == <<buff, head, tail, size, max_size>>

Fresh(n) == [i \in 0..(n - 1) |-> Unset]

BufferInit == /\ max_size \in Capacities
              /\ buff = Fresh(max_size)
              /\ head = 0 /\ tail = 0 /\ size = 0

full  == size = max_size
empty == size = 0

\* Where element number index lies, when operator[] accepts it.
Slot(index)    == (index + tail) % max_size
InRange(index) == index >= 0 /\ index < size
At(index)      == buff[Slot(index)]

push_back(v) ==
  /\ buff' = [buff EXCEPT ![head] = v]
  /\ IF full THEN tail' = (tail + 1) % max_size /\ UNCHANGED size
             ELSE size' = size + 1 /\ UNCHANGED tail
  /\ head' = (head + 1) % max_size
  /\ UNCHANGED max_size

pop_front ==
  /\ ~empty
  /\ size' = size - 1
  /\ tail' = (tail + 1) % max_size
  /\ UNCHANGED <<buff, head, max_size>>

assign(index, v) ==
  /\ InRange(index)
  /\ buff' = [buff EXCEPT ![Slot(index)] = v]
  /\ UNCHANGED <<head, tail, size, max_size>>

\* Faulty variant of clear: the head stays where it was.
clearKeepsHead ==
  /\ tail' = 0 /\ size' = 0
  /\ UNCHANGED <<buff, head, max_size>>

clear ==
  /\ head' = 0 /\ tail' = 0 /\ size' = 0
  /\ UNCHANGED <<buff, max_size>>

\* operator=(CircularBuffer(n)), the move of a new buffer.  It takes no lock: this is
\* what it has done when it ends, if nobody has used the buffer meanwhile.
replace(n) ==
  /\ buff' = Fresh(n)
  /\ head' = 0 /\ tail' = 0 /\ size' = 0
  /\ max_size' = n

BufferNext == \/ \E v \in Values : push_back(v)
              \/ pop_front
              \/ \E index \in 0..(max_size - 1), v \in Values : assign(index, v)
              \/ clear
              \/ \E n \in Capacities : replace(n)

BufferSpec == BufferInit /\ [][BufferNext]_bufferVars

-----------------------------------------------------------------------------
BufferTypeOK ==
  /\ max_size \in Capacities
  /\ buff \in [0..(max_size - 1) -> Values \cup {Unset}]
  /\ head \in 0..(max_size - 1)
  /\ tail \in 0..(max_size - 1)
  /\ size \in 0..max_size

\* The next free slot follows the newest element, and no element in use is unset.
BufferInv ==
  /\ head = (tail + size) % max_size
  /\ \A index \in 0..(size - 1) : At(index) \in Values

\* The elements, oldest first.
Contents == [i \in 1..size |-> At(i - 1)]

Log == INSTANCE BoundedLog WITH log <- Contents, cap <- max_size

\* The array, its two indices and its count behave as a bounded log that drops its
\* oldest element when a push finds it full (circular_buffer.h:266-421).
ImplementsBoundedLog == Log!Spec
=============================================================================
