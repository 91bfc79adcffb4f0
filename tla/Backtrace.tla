----------------------------- MODULE Backtrace -----------------------------
(***************************************************************************)
(* How a return address gets the name of a method (Tool/Frida.cpp:13-100): *)
(* binarySearchClosest over g_Methods, sorted by address, and the test in  *)
(* Backtracer that drops a method too far away.  The search compares in an *)
(* int what is AddrBits wide; the test in full width.                      *)
(***************************************************************************)
EXTENDS Integers, Sequences

CONSTANTS AddrBits, IntBits,
          MaxOffset,     \* 0x1000
          MethodLists    \* the lists of methodPointers looked at

Addresses == 0..(2^AddrBits - 1)

ASSUME BacktraceAssumption ==
  /\ IntBits \in Nat \ {0} /\ AddrBits \in Nat /\ IntBits <= AddrBits
  /\ MaxOffset \in Nat
  /\ \A ms \in MethodLists : /\ ms \in Seq(Addresses)
                             /\ \A i, j \in DOMAIN ms : i <= j => ms[i] <= ms[j]

\* Arithmetic: an int is its two halves.
ASSUME PowersOfTwo ==
  /\ 2^(IntBits - 1) \in Nat \ {0}
  /\ 2^IntBits = 2 * 2^(IntBits - 1)

VARIABLES methods, addr, left, right,
          search,      \* idle, running, found (at found), outside: reads beside the vector
          found, label

searchVars == <<methods, addr, left, right, search, found, label>>

NoLabel == << >>

\* Outside the vector there is some other object of the heap.
SearchInit ==
  /\ methods \in MethodLists /\ addr \in Addresses
  /\ left = 0 /\ right = Len(methods) - 1
  /\ search = "running" /\ found = -1 /\ label = NoLabel

SearchIdle ==
  /\ methods = << >> /\ addr = 0 /\ left = 0 /\ right = 0
  /\ search = "idle" /\ found = -1 /\ label = NoLabel

\* The low IntBits of a difference, as a signed int.
ToInt(d) == LET low == d % 2^IntBits
            IN  IF low < 2^(IntBits - 1) THEN low ELSE low - 2^IntBits

Method(i) == methods[i + 1]

Found(i) ==
  /\ IF i \in 0..(Len(methods) - 1) THEN search' = "found" /\ found' = i
                                    ELSE search' = "outside" /\ found' = -1
  /\ UNCHANGED <<left, right>>

Narrow(pivot, comparison) ==
  /\ IF comparison > 0 THEN right' = pivot - 1 /\ UNCHANGED left
                       ELSE left' = pivot + 1 /\ UNCHANGED right
  /\ UNCHANGED <<search, found>>

\* One turn of the loop.
SearchStep ==
  /\ search = "running" /\ left <= right
  /\ LET pivot      == (left + right) \div 2
         comparison == ToInt(Method(pivot) - addr)
     IN  IF comparison = 0 THEN Found(pivot) ELSE Narrow(pivot, comparison)
  /\ UNCHANGED <<methods, addr, label>>

EndSearch == left > right /\ Found(right)

ReturnClosest ==
  /\ search = "running" /\ EndSearch
  /\ UNCHANGED <<methods, addr, label>>

\* Faulty variant of Offset: in an int too.
OffsetInInt == LET d == ToInt(addr - Method(found)) IN IF d < 0 THEN -d ELSE d

Offset == LET d == addr - Method(found) IN IF d < 0 THEN -d ELSE d

\* Backtracer: the method's name and the offset, or no line at all.
Label ==
  /\ search = "found"
  /\ label' = IF Offset <= MaxOffset THEN <<Method(found), Offset>> ELSE NoLabel
  /\ search' = "labelled"
  /\ UNCHANGED <<methods, addr, left, right, found>>

SearchNext == SearchStep \/ ReturnClosest \/ Label

SearchSpec == SearchInit /\ [][SearchNext]_searchVars

-----------------------------------------------------------------------------
\* All methods are in one library, shorter than an int can tell.
Spans == methods # << >> /\ methods[Len(methods)] - methods[1] + MaxOffset < 2^(IntBits - 1)

Below == {i \in DOMAIN methods : methods[i] <= addr}
Closest == CHOOSE m \in {methods[i] : i \in Below} : \A i \in Below : methods[i] <= m

\* A line of the backtrace names the method the address is in or after, however
\* far from the library the address lies and whatever the comparison in an int
\* made of it (Frida.cpp:20-21, 82-98); an address close after a method does get
\* its line, and for it nothing is read beside the vector (Frida.cpp:36).
LabelSound ==
  search \in {"labelled", "outside"} /\ Spans =>
    IF Below # {} /\ addr - Closest <= MaxOffset
    THEN search = "labelled" /\ label = <<Closest, addr - Closest>>
    ELSE label = NoLabel

=============================================================================
