---------------------------- MODULE AtomicHooks ----------------------------
(***************************************************************************)
(* What Tool::ToggleHooker promises its callers (Tool.cpp:874-877):        *)
(* state 0 leaves the method off, 1 leaves it on, -1 flips it, each call   *)
(* taking effect at one instant between its start and its return.  The     *)
(* interceptor may refuse to attach; the call then answers FALSE and       *)
(* changes nothing.  When two calls about one method are in progress at    *)
(* once the method may be lost to them: nothing is promised of it from     *)
(* then on, and everything still is of the other methods.  HookRegistry    *)
(* implements this with a map, a listener table and an interceptor that    *)
(* are updated one after the other.                                        *)
(***************************************************************************)
EXTENDS Integers

CONSTANTS Methods,   \* the methods a hook can be placed on
          Togglers   \* the threads that call ToggleHooker

Requests == [method : Methods, state : {-1, 0, 1}, silent : BOOLEAN]
Modes    == {"off", "traced", "silent", "lost"}
OnMode(r) == IF r.silent THEN "silent" ELSE "traced"

VARIABLES mode,   \* mode[m]: is m hooked, and does its hook feed the overlay
          call    \* call[t]: where thread t is in a ToggleHooker call

vars == <<mode, call>>

Idle        == [phase |-> "idle"]
Asked(r)    == [phase |-> "asked", req |-> r]
Answer(r, b) == [phase |-> "answered", req |-> r, result |-> b]

Init == /\ mode = [m \in Methods |-> "off"]
        /\ call = [t \in Togglers |-> Idle]

Begin(t, r) == /\ call[t] = Idle
               /\ call' = [call EXCEPT ![t] = Asked(r)]
               /\ UNCHANGED mode

\* The new mode of r's method and the answer, for each outcome of the call.
Outcomes(r) ==
  LET m       == r.method
      turnsOn == r.state = 1 \/ (r.state = -1 /\ mode[m] = "off")
      refused == IF turnsOn /\ mode[m] = "off" THEN {<<"off", FALSE>>} ELSE {}
  IN  IF mode[m] = "lost" THEN {"lost"} \X BOOLEAN
      ELSE refused \cup {<<IF turnsOn THEN OnMode(r) ELSE "off", TRUE>>}

TakeEffect(t) ==
  /\ call[t].phase = "asked"
  /\ \E o \in Outcomes(call[t].req) :
       /\ mode' = [mode EXCEPT ![call[t].req.method] = o[1]]
       /\ call' = [call EXCEPT ![t] = Answer(call[t].req, o[2])]

\* t's method is lost to t and another caller that has not returned.
Lose(t) ==
  /\ call[t].phase = "asked"
  /\ \E u \in Togglers \ {t} : /\ call[u] # Idle
                               /\ call[u].req.method = call[t].req.method
  /\ mode' = [mode EXCEPT ![call[t].req.method] = "lost"]
  /\ UNCHANGED call

Return(t) == /\ call[t].phase = "answered"
             /\ call' = [call EXCEPT ![t] = Idle]
             /\ UNCHANGED mode

Next == \E t \in Togglers : \/ \E r \in Requests : Begin(t, r)
                            \/ TakeEffect(t)
                            \/ Lose(t)
                            \/ Return(t)

Spec == Init /\ [][Next]_vars
=============================================================================
