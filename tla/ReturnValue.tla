---------------------------- MODULE ReturnValue ----------------------------
(***************************************************************************)
(* What a patched method returns (Tool/Patcher.cpp:38-150, for arm64, and  *)
(* the callback of PatcherView, Tool/ClassesTab.cpp:1029-1089): the typed  *)
(* number is converted to the method's return type, assembled into a few   *)
(* instructions and read by the caller as that type.  A half is 16 bits.   *)
(***************************************************************************)
EXTENDS Integers, Sequences

CONSTANTS Half,      \* the bits of a half
          Typed      \* the numbers typed; for Single and String the bits

ASSUME ReturnAssumption == Half \in Nat \ {0} /\ Typed \subseteq Int

VARIABLES kind, number, code, patching   \* idle, typed, patched, thrown

returnVars == <<kind, number, code, patching>>

Halves == [Int16 |-> 1, UInt16 |-> 1, Int32 |-> 2, UInt32 |-> 2, Int64 |-> 4, UInt64 |-> 4,
           Single |-> 2, Boolean |-> 1, String |-> 4]
Kinds  == DOMAIN Halves
Signed == {"Int16", "Int32", "Int64"}

Size(halves) == 2^(halves * Half)
Registers == 0..(Size(4) - 1)

\* Arithmetic: a word is two halves, a register two words, and a half is even.
ASSUME PowersOfHalves ==
  /\ Size(1) \in Nat \ {0} /\ Size(1) = 2 * (Size(1) \div 2)
  /\ Size(2) = Size(1) * Size(1) /\ Size(4) = Size(2) * Size(2)

Values(k) == CASE k \in Signed    -> -(Size(Halves[k]) \div 2)..(Size(Halves[k]) \div 2 - 1)
               [] k = "Boolean"   -> 0..1
               [] OTHER           -> 0..(Size(Halves[k]) - 1)

\* The bits of a register as a value of type k.
AsType(k, bits) ==
  LET low == bits % Size(Halves[k])
  IN  IF k \in Signed /\ low >= Size(Halves[k]) \div 2 THEN low - Size(Halves[k]) ELSE low

\* std::stoi for the 16-bit types and Int32, stol for Int64, stoul for the
\* unsigned ones, which takes a minus sign too.
Throws(k, n) == CASE k \in {"Int16", "UInt16", "Int32"} -> n \notin Values("Int32")
                  [] k = "Int64"                        -> n \notin Values("Int64")
                  [] k \in {"UInt32", "UInt64"}         -> n \notin -(Size(4) - 1)..(Size(4) - 1)
                  [] OTHER                              -> n \notin Values(k)

\* movz takes an immediate of 16 bits; for another one nothing is emitted, and
\* the error is not looked at.
Movz(v) == IF v \in 0..(Size(1) - 1) THEN << <<"mov", v>> >> ELSE << >>

\* Faulty variant of LowAndHigh: the low half only.
LowOnly(v) == << <<"mov", v % Size(1)>> >>

\* mov and movk of w0.
LowAndHigh(v) == << <<"mov", v % Size(1)>>, <<"movk", (v \div Size(1)) % Size(1)>> >>

Assemble(k, v) == CASE k \in {"Int16", "UInt16"}    -> Movz(v)
                    [] k \in {"Boolean", "String"}  -> << <<"mov", v>> >>
                    [] k = "Single"                 -> Append(LowAndHigh(v), <<"fmov", 0>>)
                    [] OTHER                        -> LowAndHigh(v)

\* The processor (external): r is x0 and s0; writing w0 clears the rest of x0.
Step(r, instruction) ==
  LET imm == instruction[2] IN
  CASE instruction[1] = "mov"  -> [r EXCEPT !.x0 = imm]
    [] instruction[1] = "movk" -> [r EXCEPT !.x0 = imm * Size(1) + (r.x0 % Size(1))]
    [] instruction[1] = "fmov" -> [r EXCEPT !.s0 = r.x0 % Size(2)]

\* The instructions one after the other; there are three at most.
Run(r) == LET next(q, i) == IF i <= Len(code) THEN Step(q, code[i]) ELSE q
          IN  next(next(next(r, 1), 2), 3)

\* What the caller gets if x0 and s0 held entry when the method was called.
Returned(k, entry) ==
  LET r == Run([x0 |-> entry, s0 |-> entry % Size(2)])
  IN  AsType(k, IF k = "Single" THEN r.s0 ELSE r.x0)

ReturnInit ==
  /\ kind \in Kinds /\ number \in Typed
  /\ code = << >> /\ patching = "typed"

ReturnIdle == kind = "Int32" /\ number = 0 /\ code = << >> /\ patching = "idle"

\* The keyboard's Done.  An exception leaves through the frame.
ConfirmThrows ==
  /\ patching = "typed" /\ Throws(kind, number)
  /\ patching' = "thrown"
  /\ UNCHANGED <<kind, number, code>>

Confirm ==
  /\ patching = "typed" /\ ~Throws(kind, number)
  /\ code' = Assemble(kind, AsType(kind, number))
  /\ patching' = "patched"
  /\ UNCHANGED <<kind, number>>

ReturnNext == Confirm \/ ConfirmThrows

ReturnSpec == ReturnInit /\ [][ReturnNext]_returnVars

-----------------------------------------------------------------------------
\* The values that cannot be returned: a negative Int16 (no mov is emitted,
\* Patcher.cpp:41) and all of Int64 and UInt64 but 32 bits (Patcher.cpp:85-111).
Encodable(k, n) == CASE k = "Int16"              -> n >= 0
                     [] k \in {"Int64", "UInt64"} -> n \in Values("UInt32")
                     [] OTHER                     -> TRUE

\* A method patched to return a value of its type returns that value, whatever
\* was in the registers, for exactly the values above.
ReturnsTyped ==
  patching = "patched" /\ number \in Values(kind) =>
    (Encodable(kind, number) <=> \A entry \in Registers : Returned(kind, entry) = number)

=============================================================================
