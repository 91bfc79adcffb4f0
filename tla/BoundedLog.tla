----------------------------- MODULE BoundedLog -----------------------------
(***************************************************************************)
(* What CircularBuffer (Includes/circular_buffer.h) promises: a sequence   *)
(* of at most cap elements, oldest first, that drops its oldest element    *)
(* when a push finds it full.                                              *)
(***************************************************************************)
EXTENDS Integers, Sequences

CONSTANTS Values,      \* the elements a log can hold
          Capacities   \* the capacities a log can be built with

VARIABLES log, cap

vars == <<log, cap>>

Init == log = << >> /\ cap \in Capacities

Push(v) == /\ log' = Append(IF Len(log) = cap THEN Tail(log) ELSE log, v)
           /\ UNCHANGED cap

Drop == /\ log # << >>
        /\ log' = Tail(log)
        /\ UNCHANGED cap

Write(i, v) == /\ i \in 1..Len(log)
               /\ log' = [log EXCEPT ![i] = v]
               /\ UNCHANGED cap

Erase == log' = << >> /\ UNCHANGED cap

Rebuild(n) == log' = << >> /\ cap' = n

Next == \/ \E v \in Values : Push(v)
        \/ Drop
        \/ \E i \in 1..Len(log), v \in Values : Write(i, v)
        \/ Erase
        \/ \E n \in Capacities : Rebuild(n)

Spec == Init /\ [][Next]_vars
=============================================================================
