--------------------------- MODULE MonitorSession ---------------------------
(***************************************************************************)
(* What the So Monitor tab promises (README.md, "So Monitor tab"): a       *)
(* monitor instruments the functions of one library, starting a monitor    *)
(* ends the one before, and a monitor that has ended leaves no             *)
(* instrumentation behind but what could not be removed.                   *)
(*                                                                         *)
(* Of starts that overlap it promises less: each hooks functions of its    *)
(* own library only, none twice, but the one that is ready last takes over *)
(* and the functions of the other are left instrumented.                   *)
(***************************************************************************)
CONSTANTS Modules,     \* loaded libraries
          Functions,   \* the functions in their symbol tables
          ModuleOf,    \* the library each function is in
          Starters,    \* what can start a monitor at the same time
          None

VARIABLES module,      \* the library shown as the monitored one
          starting,    \* the library each starter is hooking
          inHand,      \* the functions it has instrumented so far
          hooks,       \* the functions of the monitor that is on
          left,        \* functions instrumented and in no monitor
          overlapped   \* has a starter begun before another was ready?

vars == <<module, starting, inHand, hooks, left, overlapped>>

Init == /\ module = None /\ hooks = {} /\ left = {} /\ overlapped = FALSE
        /\ starting = [s \in Starters |-> None]
        /\ inHand = [s \in Starters |-> {}]

\* The monitor that is on ends.
Remove == /\ \E refused \in SUBSET hooks : left' = left \cup refused
          /\ hooks' = {}

Begin(s, m) == /\ starting[s] = None
               /\ Remove
               /\ module' = m /\ starting' = [starting EXCEPT ![s] = m]
               /\ overlapped' = (overlapped \/ \E r \in Starters : starting[r] # None)
               /\ UNCHANGED inHand

Hook(s, f) == /\ starting[s] = ModuleOf[f]
              /\ f \notin left \cup hooks /\ \A r \in Starters : f \notin inHand[r]
              /\ inHand' = [inHand EXCEPT ![s] = @ \cup {f}]
              /\ UNCHANGED <<module, starting, hooks, left, overlapped>>

Ready(s) == /\ starting[s] # None /\ inHand[s] # {}
            /\ ~overlapped => hooks = {} /\ module = starting[s]
            /\ left' = left \cup hooks /\ hooks' = inHand[s]
            /\ inHand' = [inHand EXCEPT ![s] = {}]
            /\ starting' = [starting EXCEPT ![s] = None]
            /\ UNCHANGED <<module, overlapped>>

Fail(s) == /\ starting[s] # None /\ inHand[s] = {}
           /\ ~overlapped => hooks = {}
           /\ module' = None /\ starting' = [starting EXCEPT ![s] = None]
           /\ UNCHANGED <<inHand, hooks, left, overlapped>>

End == /\ ~overlapped => \A s \in Starters : starting[s] = None
       /\ Remove
       /\ module' = None
       /\ UNCHANGED <<starting, inHand, overlapped>>

Next == \/ \E s \in Starters : \/ \E m \in Modules : Begin(s, m)
                               \/ \E f \in Functions : Hook(s, f)
                               \/ Ready(s) \/ Fail(s)
        \/ End

Spec == Init /\ [][Next]_vars
=============================================================================
