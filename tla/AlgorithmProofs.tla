-------------------------- MODULE AlgorithmProofs --------------------------
(***************************************************************************)
(* Proofs about Backtrace, for an int of any width and any sorted list of  *)
(* methods, ModuleBase, for any layouts, replaced files and pages, and     *)
(* ReturnValue, for any width of a register.                               *)
(*                                                                         *)
(* Where an address is near the methods no difference is too large for an  *)
(* int, and SearchInv is the invariant of a binary search; elsewhere the   *)
(* search may go anywhere, but whatever it finds is too far away.          *)
(*                                                                         *)
(* BaseInv says of the base found so far that it is the right one or none  *)
(* yet, if the file is the one loaded and shares no page, and that it is   *)
(* below every mapping once it has come from a header that tells.          *)
(*                                                                         *)
(* A register holds two words and a word two halves, so what mov and movk  *)
(* write of a number is its remainder by a word.                           *)
(***************************************************************************)
EXTENDS Backtrace, ModuleBase, ReturnValue, FiniteSetTheorems, WellFoundedInduction,
        TLAPS

IntHalf == 2^(IntBits - 1)
Last == Len(methods) - 1

\* No further from the methods than a line may be.
Near == /\ methods # << >>
        /\ methods[1] - MaxOffset <= addr /\ addr <= methods[Len(methods)] + MaxOffset

SearchShape ==
  /\ methods \in MethodLists /\ addr \in Addresses
  /\ search \in {"running", "found", "outside", "labelled"}
  /\ left \in 0..Len(methods) /\ right \in -1..Last
  /\ search \in {"found", "labelled"} => found \in 0..Last
  /\ search # "labelled" => label = NoLabel
  /\ search = "labelled" => label = IF Offset <= MaxOffset THEN <<Method(found), Offset>> ELSE NoLabel

\* What is left of the methods, and what was found, when comparisons are exact.
SearchInv ==
  Spans /\ Near =>
    /\ search = "running" =>
         /\ \A i \in DOMAIN methods : i <= left => methods[i] < addr
         /\ \A i \in DOMAIN methods : i > right + 1 => methods[i] > addr
    /\ search \in {"found", "labelled"} =>
         /\ Method(found) <= addr
         /\ \A i \in DOMAIN methods : methods[i] <= addr => methods[i] <= Method(found)
    /\ search = "outside" => \A i \in DOMAIN methods : methods[i] > addr

-----------------------------------------------------------------------------
\* A list of methods is sorted.
LEMMA MethodFacts ==
  ASSUME methods \in MethodLists
  PROVE  /\ Len(methods) \in Nat /\ DOMAIN methods = 1..Len(methods)
         /\ \A i \in DOMAIN methods : methods[i] \in Int
         /\ \A i, j \in DOMAIN methods : i <= j => methods[i] <= methods[j]
<1>1. /\ methods \in Seq(Addresses)
      /\ \A i, j \in DOMAIN methods : i <= j => methods[i] <= methods[j]
  BY BacktraceAssumption
<1>2. Addresses \subseteq Int
  BY DEF Addresses
<1>3. Len(methods) \in Nat /\ DOMAIN methods = 1..Len(methods)
      /\ \A i \in DOMAIN methods : methods[i] \in Addresses
  BY <1>1
<1> QED BY <1>1, <1>2, <1>3

\* A difference that an int can hold is what the comparison sees.
LEMMA ToIntExact ==
  ASSUME NEW d \in Int, -IntHalf < d, d < IntHalf
  PROVE  ToInt(d) = d
<1> DEFINE W == 2 * IntHalf
<1>1. IntHalf \in Nat \ {0} /\ 2^IntBits = W
  BY PowersOfTwo DEF IntHalf
<1> HIDE DEF IntHalf
<1>2. CASE d >= 0
  <2>1. d % W = d
    BY <1>1, <1>2
  <2> QED BY <1>1, <1>2, <2>1 DEF ToInt, IntHalf
<1>3. CASE d < 0
  <2>1. d % W = d + W
    BY <1>1, <1>3
  <2>2. ~(d + W < IntHalf) /\ d + W - W = d
    BY <1>1, <1>3
  <2> QED BY <1>1, <2>1, <2>2 DEF ToInt, IntHalf
<1> QED BY <1>2, <1>3

\* Near the methods every difference is such a one.
LEMMA NearIsExact ==
  ASSUME methods \in MethodLists, addr \in Addresses, Spans, Near, NEW i \in DOMAIN methods
  PROVE  ToInt(methods[i] - addr) = methods[i] - addr
<1> DEFINE n == Len(methods)
<1>1. n \in Nat /\ DOMAIN methods = 1..n /\ methods # << >>
  BY MethodFacts DEF Near
<1>2. 1 \in DOMAIN methods /\ n \in DOMAIN methods /\ 1 <= i /\ i <= n
  BY <1>1
<1>3. /\ methods[1] \in Int /\ methods[i] \in Int /\ methods[n] \in Int
      /\ methods[1] <= methods[i] /\ methods[i] <= methods[n]
  BY <1>2, MethodFacts
<1>4. addr \in Int /\ MaxOffset \in Nat /\ IntHalf \in Int
  BY BacktraceAssumption, PowersOfTwo DEF Addresses, IntHalf
<1>5. /\ methods[n] - methods[1] + MaxOffset < IntHalf
      /\ methods[1] - MaxOffset <= addr /\ addr <= methods[n] + MaxOffset
  BY DEF Spans, Near, IntHalf
<1> DEFINE d == methods[i] - addr
<1> HIDE DEF n
<1>6. d \in Int /\ -IntHalf < d /\ d < IntHalf
  BY <1>3, <1>4, <1>5
<1> HIDE DEF d
<1>7. ToInt(d) = d
  BY <1>6, ToIntExact
<1> QED BY <1>7 DEF d

-----------------------------------------------------------------------------
LEMMA SearchStarts == SearchInit => SearchShape /\ SearchInv
<1> SUFFICES ASSUME SearchInit PROVE SearchShape /\ SearchInv
  OBVIOUS
<1>1. Len(methods) \in Nat /\ DOMAIN methods = 1..Len(methods) /\ methods \in MethodLists
  BY MethodFacts DEF SearchInit
<1>2. SearchShape
  BY <1>1 DEF SearchInit, SearchShape, Last
<1>3. SearchInv
  BY <1>1 DEF SearchInit, SearchInv
<1> QED BY <1>2, <1>3

\* The middle of what is left is a method.
LEMMA PivotIsMethod ==
  ASSUME SearchShape, left <= right, NEW pivot, pivot = (left + right) \div 2
  PROVE  pivot \in 0..Last /\ left <= pivot /\ pivot <= right /\ pivot + 1 \in DOMAIN methods
<1>1. Len(methods) \in Nat /\ DOMAIN methods = 1..Len(methods)
  BY MethodFacts DEF SearchShape
<1>2. left \in Int /\ right \in Int /\ 0 <= left /\ right <= Last
  BY <1>1 DEF SearchShape, Last
<1> QED BY <1>1, <1>2 DEF Last

LEMMA SearchShapeStep == SearchShape /\ [SearchNext]_searchVars => SearchShape'
<1> SUFFICES ASSUME SearchShape, [SearchNext]_searchVars PROVE SearchShape'
  OBVIOUS
<1>0. Len(methods) \in Nat /\ DOMAIN methods = 1..Len(methods)
  BY MethodFacts DEF SearchShape
<1>1. CASE UNCHANGED searchVars
  BY <1>1 DEF searchVars, SearchShape, Last, Offset, Method
<1>2. ASSUME NEW i, Found(i), search = "running", UNCHANGED <<methods, addr, label>>
      PROVE  SearchShape'
  BY <1>2 DEF Found, SearchShape, Last
<1>3. CASE SearchStep
  <2> DEFINE pivot == (left + right) \div 2
             comparison == ToInt(Method(pivot) - addr)
  <2>1. /\ search = "running" /\ left <= right /\ UNCHANGED <<methods, addr, label>>
        /\ IF comparison = 0 THEN Found(pivot) ELSE Narrow(pivot, comparison)
    BY <1>3 DEF SearchStep
  <2>2. pivot \in 0..Last /\ left <= pivot /\ pivot <= right
    BY <2>1, PivotIsMethod
  <2> HIDE DEF pivot, comparison
  <2>3. CASE Found(pivot)
    BY <1>2, <2>1, <2>3
  <2>4. CASE Narrow(pivot, comparison)
    <3>1. left' \in 0..Len(methods) /\ right' \in -1..Last /\ UNCHANGED <<search, found>>
      BY <1>0, <2>2, <2>4 DEF Narrow, SearchShape, Last
    <3> QED BY <2>1, <3>1 DEF SearchShape, Last
  <2> QED BY <2>1, <2>3, <2>4
<1>4. CASE ReturnClosest
  BY <1>2, <1>4 DEF ReturnClosest, EndSearch
<1>5. CASE Label
  <2>1. UNCHANGED <<methods, addr, left, right, found>> /\ search = "found" /\ search' = "labelled"
        /\ label' = IF Offset <= MaxOffset THEN <<Method(found), Offset>> ELSE NoLabel
    BY <1>5 DEF Label
  <2>2. Offset' = Offset /\ Method(found)' = Method(found)
    BY <2>1 DEF Offset, Method
  <2> QED BY <2>1, <2>2 DEF SearchShape, Last
<1> QED BY <1>1, <1>3, <1>4, <1>5 DEF SearchNext

LEMMA SearchInvStep == SearchShape /\ SearchInv /\ [SearchNext]_searchVars => SearchInv'
<1> SUFFICES ASSUME SearchShape, SearchInv, [SearchNext]_searchVars, Spans', Near'
             PROVE  SearchInv'
  BY DEF SearchInv
<1>0. /\ Len(methods) \in Nat /\ DOMAIN methods = 1..Len(methods) /\ addr \in Int
      /\ \A i \in DOMAIN methods : methods[i] \in Int
      /\ \A i, j \in DOMAIN methods : i <= j => methods[i] <= methods[j]
  BY MethodFacts DEF SearchShape, Addresses
<1>1. UNCHANGED <<methods, addr>> /\ Spans /\ Near
  BY DEF SearchNext, SearchStep, ReturnClosest, Label, searchVars, Spans, Near
<1>2. CASE UNCHANGED searchVars
  BY <1>1, <1>2 DEF searchVars, SearchInv, Method
<1>3. CASE SearchStep
  <2> DEFINE pivot == (left + right) \div 2
             comparison == ToInt(Method(pivot) - addr)
  <2>1. /\ search = "running" /\ left <= right
        /\ IF comparison = 0 THEN Found(pivot) ELSE Narrow(pivot, comparison)
    BY <1>3 DEF SearchStep
  <2>2. pivot \in 0..Last /\ left <= pivot /\ pivot <= right /\ pivot + 1 \in DOMAIN methods
    BY <2>1, PivotIsMethod
  <2>3. comparison = Method(pivot) - addr /\ Method(pivot) \in Int
    BY <1>0, <1>1, <2>2, NearIsExact DEF Method, SearchShape
  <2>4. /\ \A i \in DOMAIN methods : i <= pivot + 1 => methods[i] <= Method(pivot)
        /\ \A i \in DOMAIN methods : i >= pivot + 1 => methods[i] >= Method(pivot)
    BY <1>0, <2>2 DEF Method
  <2>5. pivot \in Int /\ left \in Int /\ right \in Int
    BY <1>0, <2>2 DEF Last, SearchShape
  <2> HIDE DEF pivot, comparison
  <2>6. CASE comparison = 0
    <3>1. search' = "found" /\ found' = pivot /\ Method(pivot) = addr
      BY <1>0, <2>1, <2>2, <2>3, <2>6 DEF Found, Last
    <3>2. \A i \in DOMAIN methods : methods[i] <= addr => methods[i] <= Method(pivot)
      BY <3>1
    <3> QED BY <1>0, <1>1, <3>1, <3>2 DEF SearchInv, Method
  <2>7. CASE comparison > 0
    <3>1. right' = pivot - 1 /\ UNCHANGED <<left, search, found>> /\ Method(pivot) > addr
      BY <1>0, <2>1, <2>3, <2>7 DEF Narrow
    <3>2. \A i \in DOMAIN methods : i > right' + 1 => methods[i] > addr
      BY <1>0, <2>3, <2>4, <2>5, <3>1
    <3> QED BY <1>1, <2>1, <3>1, <3>2 DEF SearchInv
  <2>8. CASE comparison < 0
    <3>1. left' = pivot + 1 /\ UNCHANGED <<right, search, found>> /\ Method(pivot) < addr
      BY <1>0, <2>1, <2>3, <2>8 DEF Narrow
    <3>2. \A i \in DOMAIN methods : i <= left' => methods[i] < addr
      BY <1>0, <2>3, <2>4, <2>5, <3>1
    <3> QED BY <1>1, <2>1, <3>1, <3>2 DEF SearchInv
  <2> QED BY <1>0, <2>3, <2>6, <2>7, <2>8
<1>4. CASE ReturnClosest
  <2>1. search = "running" /\ left > right /\ Found(right)
    BY <1>4 DEF ReturnClosest, EndSearch
  <2>2. /\ \A i \in DOMAIN methods : i <= left => methods[i] < addr
        /\ \A i \in DOMAIN methods : i > right + 1 => methods[i] > addr
    BY <1>1, <2>1 DEF SearchInv
  <2>3. left \in Int /\ right \in -1..(Len(methods) - 1)
    BY <1>0 DEF SearchShape, Last
  <2>4. CASE right >= 0
    <3>1. search' = "found" /\ found' = right /\ right + 1 \in DOMAIN methods
      BY <1>0, <2>1, <2>3, <2>4 DEF Found
    <3>2. Method(right) < addr
      BY <2>1, <2>2, <2>3, <3>1 DEF Method
    <3>3. \A i \in DOMAIN methods : methods[i] <= addr => methods[i] <= Method(right)
      BY <1>0, <2>2, <2>3, <3>1 DEF Method
    <3> QED BY <1>0, <1>1, <3>1, <3>2, <3>3 DEF SearchInv, Method
  <2>5. CASE right = -1
    <3>1. search' = "outside" /\ \A i \in DOMAIN methods : methods[i] > addr
      BY <1>0, <2>1, <2>2, <2>5 DEF Found
    <3> QED BY <1>1, <3>1 DEF SearchInv
  <2> QED BY <2>3, <2>4, <2>5
<1>5. CASE Label
  <2>1. UNCHANGED found /\ search = "found" /\ search' = "labelled"
    BY <1>5 DEF Label
  <2> QED BY <1>1, <2>1 DEF SearchInv, Method
<1> QED BY <1>2, <1>3, <1>4, <1>5 DEF SearchNext

-----------------------------------------------------------------------------
\* The closest method, if any begins at the address or before it.
LEMMA ClosestIs ==
  ASSUME NEW i \in DOMAIN methods, methods \in MethodLists, addr \in Addresses,
         methods[i] <= addr, \A j \in DOMAIN methods : methods[j] <= addr => methods[j] <= methods[i]
  PROVE  i \in Below /\ Closest = methods[i]
<1>1. \A j \in DOMAIN methods : methods[j] \in Int
  BY MethodFacts
<1>2. i \in Below /\ \A j \in Below : methods[j] <= methods[i]
  BY DEF Below
<1>3. \A m \in {methods[j] : j \in Below} :
        (\A j \in Below : methods[j] <= m) => m = methods[i]
  BY <1>1, <1>2 DEF Below
<1> QED BY <1>2, <1>3 DEF Closest

\* Whatever the address, for methods of one library shorter than an int can tell, a line
\* names the closest method before it if that is near enough, and otherwise there is no
\* line (Frida.cpp:13-100).
THEOREM LabelAlwaysSound == SearchSpec => []LabelSound
<1>1. SearchShape /\ SearchInv => LabelSound
  <2> SUFFICES ASSUME SearchShape, SearchInv, search \in {"labelled", "outside"}, Spans
               PROVE  IF Below # {} /\ addr - Closest <= MaxOffset
                      THEN search = "labelled" /\ label = <<Closest, addr - Closest>>
                      ELSE label = NoLabel
    BY DEF LabelSound
  <2>0. /\ Len(methods) \in Nat /\ DOMAIN methods = 1..Len(methods) /\ addr \in Int
        /\ \A i \in DOMAIN methods : methods[i] \in Int
        /\ \A i, j \in DOMAIN methods : i <= j => methods[i] <= methods[j]
        /\ MaxOffset \in Nat
    BY MethodFacts, BacktraceAssumption DEF SearchShape, Addresses
  <2>1. CASE Near /\ search = "outside"
    <3>1. Below = {} /\ label = NoLabel
      BY <2>0, <2>1 DEF SearchInv, SearchShape, Below
    <3> QED BY <3>1
  <2>2. CASE Near /\ search = "labelled"
    <3> DEFINE i == found + 1
    <3>1. /\ i \in DOMAIN methods /\ Method(found) = methods[i]
          /\ methods[i] <= addr
          /\ \A j \in DOMAIN methods : methods[j] <= addr => methods[j] <= methods[i]
      BY <2>0, <2>2 DEF SearchInv, SearchShape, Last, Method
    <3>2. Below # {} /\ Closest = methods[i]
      BY <3>1, ClosestIs DEF SearchShape
    <3>3. Offset = addr - Closest
      BY <2>0, <3>1, <3>2 DEF Offset
    <3> QED BY <2>2, <3>1, <3>2, <3>3 DEF SearchShape
  <2>3. CASE ~Near
    <3>0. /\ 1 \in DOMAIN methods /\ Len(methods) \in DOMAIN methods
          /\ \A i \in DOMAIN methods : /\ methods[1] <= methods[i]
                                       /\ methods[i] <= methods[Len(methods)]
      BY <2>0 DEF Spans
    <3>1. \A i \in DOMAIN methods : addr - methods[i] > MaxOffset \/ methods[i] - addr > MaxOffset
      BY <2>0, <2>3, <3>0 DEF Near, Spans
    <3>2. label = NoLabel
      <4>1. CASE search = "labelled"
        <5>1. found + 1 \in DOMAIN methods
          BY <2>0, <4>1 DEF SearchShape, Last
        <5>2. Offset > MaxOffset /\ Offset \in Int
          BY <2>0, <3>1, <5>1 DEF Offset, Method
        <5> QED BY <2>0, <4>1, <5>2 DEF SearchShape
      <4>2. CASE search = "outside"
        BY <4>2 DEF SearchShape
      <4> QED BY <4>1, <4>2
    <3>3. Below # {} => addr - Closest \in Int /\ ~(addr - Closest <= MaxOffset)
      <4>1. CASE Below # {}
        <5>1. addr > methods[Len(methods)] + MaxOffset
          BY <2>0, <2>3, <3>0, <4>1 DEF Near, Below, Spans
        <5>2. Closest = methods[Len(methods)]
          BY <2>0, <3>0, <5>1, ClosestIs DEF SearchShape
        <5> QED BY <2>0, <3>0, <5>1, <5>2
      <4> QED BY <4>1
    <3> QED BY <3>2, <3>3
  <2> QED BY <2>1, <2>2, <2>3
<1>2. SearchShape /\ SearchInv /\ [SearchNext]_searchVars => SearchShape' /\ SearchInv'
  BY SearchShapeStep, SearchInvStep
<1> QED BY <1>1, <1>2, SearchStarts, PTL DEF SearchSpec

-----------------------------------------------------------------------------
\* A set of naturals has a least element.
LEMMA MinOfNat ==
  ASSUME NEW S \in SUBSET Nat, S # {}
  PROVE  Min(S) \in S /\ Min(S) \in Nat /\ \A y \in S : Min(S) <= y
<1> DEFINE lessThan == {ss \in Nat \X Nat : ss[1] < ss[2]}
<1>1. IsWellFoundedOn(lessThan, Nat)
  BY NatLessThanWellFounded DEF OpToRel
<1> HIDE DEF lessThan
<1>2. PICK x \in S : \A y \in S : <<y, x>> \notin lessThan
  BY <1>1, WFMin
<1>3. ASSUME NEW y \in S PROVE x <= y
  <2>1. y < x => <<y, x>> \in lessThan
    BY DEF lessThan
  <2> QED BY <1>2, <2>1
<1> QED BY <1>3 DEF Min

LEMMA AlignedDown ==
  ASSUME NEW v \in Nat
  PROVE  alignDown(v) \in Nat /\ alignDown(v) <= v /\ (v < PageSize => alignDown(v) = 0)
<1>1. v % PageSize \in 0..(PageSize - 1) /\ v % PageSize <= v
  BY LayoutAssumption
<1>2. v < PageSize => v % PageSize = v
  BY LayoutAssumption
<1> QED BY <1>1, <1>2 DEF alignDown

\* Where the pages of segment i begin, in memory and in the file.
SegStart(i) == bias + alignDown(loaded[i].vaddr)
SegPage(i)  == alignDown(loaded[i].offset)

LEMMA LayoutFacts ==
  ASSUME NEW layout \in Layouts
  PROVE  /\ Len(layout) \in Nat \ {0} /\ DOMAIN layout = 1..Len(layout) /\ 1 \in DOMAIN layout
         /\ \A i \in DOMAIN layout :
              /\ layout[i].pages \in Nat
              /\ layout[i].vaddr \in Nat /\ alignDown(layout[i].vaddr) \in Nat
              /\ layout[i].offset \in Nat /\ alignDown(layout[i].offset) \in Nat
              /\ alignDown(layout[1].vaddr) <= alignDown(layout[i].vaddr)
         /\ layout[1].pages > 0 /\ alignDown(layout[1].offset) = 0
<1> DEFINE Segments == [offset : Nat, vaddr : Nat, pages : Nat]
<1>1. layout \in Seq(Segments) /\ layout # << >>
  BY LayoutAssumption, LinkerAssumption
<1> HIDE DEF Segments
<1>2. Len(layout) \in Nat \ {0} /\ DOMAIN layout = 1..Len(layout) /\ 1 \in DOMAIN layout
      /\ \A i \in DOMAIN layout : layout[i] \in Segments
  BY <1>1
<1>3. \A i \in DOMAIN layout :
        layout[i].pages \in Nat /\ layout[i].vaddr \in Nat /\ layout[i].offset \in Nat
  BY <1>2 DEF Segments
<1>4. /\ layout[1].pages > 0 /\ layout[1].offset < PageSize
      /\ \A i \in DOMAIN layout : alignDown(layout[1].vaddr) <= alignDown(layout[i].vaddr)
  BY LinkerAssumption
<1> QED BY <1>2, <1>3, <1>4, AlignedDown

\* A mapping belongs to a segment that has pages: it is its first, or begins a page later.
LEMMA MappingFacts ==
  ASSUME loaded \in Layouts, bias \in Biases
  PROVE  /\ \A m \in Mappings :
              /\ m.of \in DOMAIN loaded /\ loaded[m.of].pages > 0
              /\ m.start \in Nat /\ m.start >= SegStart(1)
              /\ \/ m.start = SegStart(m.of) /\ m.fileOffset = SegPage(m.of)
                 \/ m.start = SegStart(m.of) + PageSize /\ m.fileOffset = SegPage(m.of) + PageSize
         /\ \A i \in DOMAIN loaded : loaded[i].pages > 0 =>
              \E m \in Mappings : m.start = SegStart(i) /\ m.fileOffset = SegPage(i) /\ m.of = i
<1> DEFINE inFile == {i \in DOMAIN loaded : loaded[i].pages > 0}
           whole(i) == [start |-> SegStart(i), fileOffset |-> SegPage(i), of |-> i]
           rest(i)  == [start |-> SegStart(i) + PageSize, fileOffset |-> SegPage(i) + PageSize, of |-> i]
<1>1. Mappings = {whole(i) : i \in inFile} \union
                 {rest(i) : i \in {split} \intersect {j \in inFile : loaded[j].pages > 1}}
  BY DEF Mappings, SegStart, SegPage
<1>2. /\ bias \in Nat /\ PageSize \in Nat
      /\ \A i \in DOMAIN loaded : SegStart(i) \in Nat /\ SegStart(i) >= SegStart(1)
  BY LayoutFacts, LayoutAssumption DEF SegStart
<1>3. ASSUME NEW m \in Mappings
      PROVE  /\ m.of \in inFile
             /\ \/ m.start = SegStart(m.of) /\ m.fileOffset = SegPage(m.of)
                \/ m.start = SegStart(m.of) + PageSize /\ m.fileOffset = SegPage(m.of) + PageSize
  <2>1. CASE \E i \in inFile : m = whole(i)
    BY <2>1
  <2>2. CASE \E i \in inFile : m = rest(i)
    BY <2>2
  <2> QED BY <1>1, <2>1, <2>2
<1>4. ASSUME NEW m \in Mappings
      PROVE  m.start \in Nat /\ m.start >= SegStart(1)
  BY <1>2, <1>3, LayoutFacts
<1>5. ASSUME NEW i \in inFile
      PROVE  \E m \in Mappings : m.start = SegStart(i) /\ m.fileOffset = SegPage(i) /\ m.of = i
  <2>1. whole(i) \in Mappings
    BY <1>1
  <2> QED BY <2>1
<1> QED BY <1>3, <1>4, <1>5

\* The lowest mapping begins with the first segment.
LEMMA LowestStart ==
  ASSUME loaded \in Layouts, bias \in Biases
  PROVE  /\ Starts \in SUBSET Nat /\ SegStart(1) \in Starts
         /\ \A start \in Starts : SegStart(1) <= start
         /\ Min(Starts) = SegStart(1)
<1>1. /\ Starts \in SUBSET Nat
      /\ \A start \in Starts : SegStart(1) <= start
  BY MappingFacts DEF Starts
<1>2. SegStart(1) \in Starts
  BY MappingFacts, LayoutFacts DEF Starts
<1>3. Min(Starts) \in Starts /\ \A start \in Starts : Min(Starts) <= start
  BY <1>1, <1>2, MinOfNat
<1>4. Min(Starts) \in Nat /\ SegStart(1) \in Nat /\ Min(Starts) <= SegStart(1) /\ SegStart(1) <= Min(Starts)
  BY <1>1, <1>2, <1>3
<1> QED BY <1>1, <1>2, <1>4

-----------------------------------------------------------------------------
BaseShape ==
  /\ loaded \in Layouts /\ onDisk \in Layouts /\ bias \in Biases
  /\ scan \in {"open", "programs", "done"}
  /\ index \in 1..(Len(onDisk) + 1)
  /\ base \in Nat
  /\ scan = "open" => base = NoBase /\ ~headerRead
  /\ headerRead => scan # "open"

\* What the fallback is: where the first segment was mapped.
AtFirst == base = SegStart(1)

BaseInv ==
  /\ loaded = onDisk /\ PagesUnshared =>
       /\ scan = "programs" => base = bias \/ (base = NoBase /\ ~headerRead)
       /\ scan = "done" => base = bias \/ (AtFirst /\ ~headerRead)
  /\ headerRead => base <= SegStart(1)
  /\ loaded = onDisk => /\ scan = "programs" => base = NoBase \/ base <= SegStart(1)
                        /\ scan = "done" => base <= SegStart(1)

-----------------------------------------------------------------------------
\* Constants and the fallback.
LEMMA BaseFacts ==
  ASSUME BaseShape
  PROVE  /\ bias \in Nat /\ NoBase \in Nat /\ bias < NoBase
         /\ SegStart(1) \in Nat /\ bias <= SegStart(1)
         /\ Fallback => base' = SegStart(1)
<1>1. bias \in Nat /\ NoBase \in Nat /\ bias < NoBase
  BY LayoutAssumption, KernelAssumption DEF BaseShape
<1>2. SegStart(1) \in Nat /\ bias <= SegStart(1)
  BY <1>1, LayoutFacts DEF BaseShape, SegStart
<1>3. Fallback => base' = SegStart(1)
  BY LowestStart DEF Fallback, BaseShape
<1> QED BY <1>1, <1>2, <1>3

LEMMA CandidateFacts ==
  ASSUME BaseShape, NEW i \in DOMAIN onDisk
  PROVE  /\ Candidates(onDisk[i]) \in SUBSET Nat
         /\ base' = Lowest(Candidates(onDisk[i])) =>
              /\ base' \in Nat /\ base' \in Candidates(onDisk[i]) \union {base}
              /\ base' <= base /\ \A c \in Candidates(onDisk[i]) : base' <= c
<1>1. Candidates(onDisk[i]) \in SUBSET Nat
  <2>1. ASSUME NEW m \in Mappings, m.start >= alignDown(onDisk[i].vaddr)
        PROVE  m.start - alignDown(onDisk[i].vaddr) \in Nat
    BY <2>1, MappingFacts, LayoutFacts DEF BaseShape
  <2> QED BY <2>1 DEF Candidates
<1> DEFINE S == Candidates(onDisk[i]) \union {base}
<1>2. S \in SUBSET Nat /\ S # {}
  BY <1>1 DEF BaseShape
<1>3. Min(S) \in S /\ Min(S) \in Nat /\ \A y \in S : Min(S) <= y
  <2> HIDE DEF S
  <2> QED BY <1>2, MinOfNat
<1> QED BY <1>1, <1>3 DEF Lowest

\* A header of the file that was loaded, of a page of its own, gives the base if it has pages.
LEMMA OwnCandidates ==
  ASSUME BaseShape, loaded = onDisk, NEW i \in DOMAIN loaded
  PROVE  /\ loaded[i].pages > 0 => bias \in Candidates(loaded[i])
         /\ PagesUnshared => \A c \in Candidates(loaded[i]) : c = bias
<1>1. /\ bias \in Nat /\ alignDown(loaded[i].vaddr) \in Nat
      /\ SegStart(i) = bias + alignDown(loaded[i].vaddr)
      /\ SegPage(i) = alignDown(loaded[i].offset) /\ SegPage(i) \in Nat
      /\ PageSize \in Nat \ {0}
  BY BaseFacts, LayoutFacts, LayoutAssumption DEF BaseShape, SegStart, SegPage
<1>2. ASSUME loaded[i].pages > 0
      PROVE  bias \in Candidates(loaded[i])
  <2>1. PICK m \in Mappings : m.start = SegStart(i) /\ m.fileOffset = SegPage(i)
    BY <1>2, MappingFacts DEF BaseShape
  <2>2. m.start >= alignDown(loaded[i].vaddr) /\ m.start - alignDown(loaded[i].vaddr) = bias
    BY <1>1, <2>1
  <2> QED BY <1>1, <2>1, <2>2 DEF Candidates
<1>3. ASSUME PagesUnshared, NEW c \in Candidates(loaded[i])
      PROVE  c = bias
  <2>1. PICK m \in Mappings : /\ m.fileOffset = alignDown(loaded[i].offset)
                              /\ c = m.start - alignDown(loaded[i].vaddr)
    BY DEF Candidates
  <2>2. m.of = i
    BY <1>3, <2>1 DEF PagesUnshared
  <2>3. m.start = SegStart(i)
    <3>1. \/ m.start = SegStart(i)
          \/ m.fileOffset = SegPage(i) + PageSize
      BY <2>2, MappingFacts DEF BaseShape
    <3>2. m.fileOffset = SegPage(i) /\ SegPage(i) # SegPage(i) + PageSize
      BY <1>1, <2>1
    <3> QED BY <3>1, <3>2
  <2> QED BY <1>1, <2>1, <2>3
<1> QED BY <1>2, <1>3

\* None of its headers gives more than the base, also where pages are shared.
LEMMA LowCandidates ==
  ASSUME BaseShape, loaded = onDisk, NEW i \in DOMAIN loaded
  PROVE  \/ bias \in Candidates(loaded[i])
         \/ \A c \in Candidates(loaded[i]) : c <= bias
<1>1. CASE loaded[i].pages > 0
  BY <1>1, OwnCandidates
<1>2. CASE loaded[i].pages = 0
  <2> SUFFICES ASSUME NEW c \in Candidates(loaded[i])
               PROVE  c <= bias
    OBVIOUS
  <2>1. PICK m \in Mappings : /\ m.fileOffset = alignDown(loaded[i].offset)
                              /\ c = m.start - alignDown(loaded[i].vaddr)
    BY DEF Candidates
  <2>2. /\ m.of \in DOMAIN loaded
        /\ \/ m.start = SegStart(m.of) /\ m.fileOffset = SegPage(m.of)
           \/ m.start = SegStart(m.of) + PageSize /\ m.fileOffset = SegPage(m.of) + PageSize
    BY MappingFacts DEF BaseShape
  <2>3. Shift(loaded[m.of]) <= Shift(loaded[i])
    BY <1>2, <2>2, LinkerAssumption DEF BaseShape
  <2>4. /\ alignDown(loaded[i].vaddr) \in Nat /\ alignDown(loaded[i].offset) \in Nat
        /\ alignDown(loaded[m.of].vaddr) \in Nat /\ alignDown(loaded[m.of].offset) \in Nat
        /\ bias \in Nat /\ PageSize \in Nat
    BY <2>2, BaseFacts, LayoutFacts, LayoutAssumption DEF BaseShape
  <2> QED BY <2>1, <2>2, <2>3, <2>4 DEF Shift, SegStart, SegPage
<1> QED BY <1>1, <1>2, LayoutFacts DEF BaseShape

\* The first header of any file gives no more than the lowest mapping.
LEMMA FirstCandidate ==
  ASSUME BaseShape
  PROVE  1 \in DOMAIN onDisk /\ \E c \in Candidates(onDisk[1]) : c <= SegStart(1)
<1>1. /\ 1 \in DOMAIN onDisk /\ alignDown(onDisk[1].offset) = 0
      /\ 1 \in DOMAIN loaded /\ alignDown(loaded[1].offset) = 0 /\ loaded[1].pages > 0
      /\ alignDown(onDisk[1].vaddr) \in Nat
      /\ SegStart(1) \in Nat /\ bias <= SegStart(1) /\ bias \in Nat
  BY BaseFacts, LayoutFacts DEF BaseShape
<1>2. PICK m \in Mappings : m.start = SegStart(1) /\ m.fileOffset = 0
  BY <1>1, MappingFacts DEF BaseShape, SegPage
<1>3. alignDown(onDisk[1].vaddr) <= bias
  BY KernelAssumption DEF BaseShape
<1>4. m.start >= alignDown(onDisk[1].vaddr)
  BY <1>1, <1>2, <1>3
<1>5. m.start - alignDown(onDisk[1].vaddr) \in Candidates(onDisk[1])
  BY <1>1, <1>2, <1>4 DEF Candidates
<1> QED BY <1>1, <1>2, <1>5

-----------------------------------------------------------------------------
LEMMA BaseStarts == BaseInit => BaseShape /\ BaseInv
<1> SUFFICES ASSUME BaseInit PROVE BaseShape /\ BaseInv
  OBVIOUS
<1>1. loaded \in Layouts /\ onDisk \in Layouts /\ NoBase \in Nat
  BY LayoutAssumption DEF BaseInit
<1>2. 1 \in 1..(Len(onDisk) + 1)
  BY <1>1, LayoutFacts
<1> QED BY <1>1, <1>2 DEF BaseInit, BaseShape, BaseInv

LEMMA BaseStep == BaseShape /\ BaseInv /\ [BaseNext]_baseVars => BaseShape' /\ BaseInv'
<1> SUFFICES ASSUME BaseShape, BaseInv, [BaseNext]_baseVars
             PROVE  BaseShape' /\ BaseInv'
  OBVIOUS
<1>0. /\ Len(onDisk) \in Nat \ {0} /\ DOMAIN onDisk = 1..Len(onDisk)
      /\ bias \in Nat /\ NoBase \in Nat /\ bias < NoBase
      /\ SegStart(1) \in Nat /\ bias <= SegStart(1)
  BY BaseFacts, LayoutFacts DEF BaseShape
<1>1. /\ UNCHANGED <<loaded, bias, split, onDisk>>
      /\ PagesUnshared' = PagesUnshared /\ SegStart(1)' = SegStart(1)
  <2>1. UNCHANGED <<loaded, bias, split, onDisk>>
    BY DEF BaseNext, NoHeaders, ReadHeader, ReadProgram, SkipProgram, Finish, baseVars
  <2>2. Mappings' = Mappings
    BY <2>1 DEF Mappings
  <2> QED BY <2>1, <2>2 DEF PagesUnshared, SegStart
<1>2. CASE UNCHANGED baseVars
  BY <1>1, <1>2 DEF baseVars, BaseShape, BaseInv, AtFirst
<1>3. CASE NoHeaders
  <2>1. scan = "open" /\ scan' = "done" /\ UNCHANGED <<index, headerRead>> /\ base' = SegStart(1)
    BY <1>3, BaseFacts DEF NoHeaders
  <2> QED BY <1>0, <1>1, <2>1 DEF BaseShape, BaseInv, AtFirst
<1>4. CASE ReadHeader
  <2>1. scan = "open" /\ scan' = "programs" /\ UNCHANGED <<base, headerRead>>
        /\ index' \in 1..(Len(onDisk) + 1)
    BY <1>0, <1>4 DEF ReadHeader
  <2> QED BY <1>0, <1>1, <2>1 DEF BaseShape, BaseInv, AtFirst
<1>5. CASE ReadProgram
  <2>1. /\ scan = "programs" /\ scan' = "programs" /\ index \in DOMAIN onDisk
        /\ index' = index + 1 /\ headerRead' = (headerRead \/ index = 1)
        /\ base' = Lowest(Candidates(onDisk[index]))
    BY <1>0, <1>5 DEF ReadProgram, BaseShape
  <2>2. /\ base' \in Nat /\ base' \in Candidates(onDisk[index]) \union {base}
        /\ base' <= base /\ \A c \in Candidates(onDisk[index]) : base' <= c
    BY <2>1, CandidateFacts
  <2>3. BaseShape'
    BY <1>0, <1>1, <2>1, <2>2 DEF BaseShape
  <2>4. headerRead' => base' <= SegStart(1)
    <3>1. CASE index = 1
      <4>1. PICK c \in Candidates(onDisk[index]) : c <= SegStart(1)
        BY <3>1, FirstCandidate
      <4>2. c \in Nat
        BY <2>1, CandidateFacts
      <4> QED BY <1>0, <2>2, <4>1, <4>2
    <3>2. CASE headerRead
      BY <1>0, <2>2, <3>2 DEF BaseInv, BaseShape
    <3> QED BY <2>1, <3>1, <3>2
  <2>5. ASSUME loaded = onDisk
        PROVE  base' = NoBase \/ base' <= SegStart(1)
    <3>1. CASE base' = base
      BY <2>1, <2>5, <3>1 DEF BaseInv
    <3>2. CASE base' \in Candidates(onDisk[index])
      <4>1. base' <= bias
        BY <2>1, <2>2, <2>5, <3>2, LowCandidates
      <4> QED BY <1>0, <2>2, <4>1
    <3> QED BY <2>2, <3>1, <3>2
  <2>6. ASSUME loaded = onDisk, PagesUnshared
        PROVE  base' = bias \/ (base' = NoBase /\ ~headerRead')
    <3>1. CASE base' \in Candidates(onDisk[index])
      BY <2>1, <2>6, <3>1, OwnCandidates
    <3>2. CASE base' = base /\ base' \notin Candidates(onDisk[index])
      <4>1. CASE base = bias
        BY <3>2, <4>1
      <4>2. CASE base = NoBase /\ ~headerRead
        <5>1. index # 1
          <6> SUFFICES ASSUME index = 1 PROVE FALSE
            OBVIOUS
          <6>1. bias \in Candidates(onDisk[index])
            BY <2>1, <2>6, OwnCandidates, LayoutFacts DEF BaseShape
          <6> QED BY <1>0, <2>2, <3>2, <4>2, <6>1
        <5> QED BY <2>1, <3>2, <4>2, <5>1
      <4> QED BY <2>1, <2>6, <4>1, <4>2 DEF BaseInv
    <3> QED BY <2>2, <3>1, <3>2
  <2> QED BY <1>1, <2>1, <2>3, <2>4, <2>5, <2>6 DEF BaseInv
<1>6. CASE SkipProgram
  <2>1. scan = "programs" /\ UNCHANGED <<scan, base, headerRead>> /\ index' = index + 1
        /\ index <= Len(onDisk)
    BY <1>6 DEF SkipProgram
  <2> QED BY <1>0, <1>1, <2>1 DEF BaseShape, BaseInv, AtFirst
<1>7. CASE Finish
  <2>1. scan = "programs" /\ scan' = "done" /\ UNCHANGED <<index, headerRead>>
        /\ IF base # NoBase THEN UNCHANGED base ELSE base' = SegStart(1)
    BY <1>7, BaseFacts DEF Finish
  <2>2. CASE base # NoBase
    BY <1>0, <1>1, <2>1, <2>2 DEF BaseShape, BaseInv, AtFirst
  <2>3. CASE base = NoBase
    BY <1>0, <1>1, <2>1, <2>3 DEF BaseShape, BaseInv, AtFirst
  <2> QED BY <2>2, <2>3
<1> QED BY <1>2, <1>3, <1>4, <1>5, <1>6, <1>7 DEF BaseNext

LEMMA BaseAlways == BaseSpec => [](BaseShape /\ BaseInv)
BY BaseStarts, BaseStep, PTL DEF BaseSpec

\* Of the file that was loaded, as long as it shares no page, any readable header is
\* enough for the right base, the first one for any library (ProcessTab.cpp:243-260).
THEOREM BaseAlwaysRecovered == BaseSpec => []BaseRecovered
<1>1. BaseShape /\ BaseInv => BaseRecovered
  <2> SUFFICES ASSUME BaseShape, BaseInv, scan = "done", loaded = onDisk, PagesUnshared,
                      headerRead \/ loaded[1].vaddr < PageSize, base # bias
               PROVE  FALSE
    BY DEF BaseRecovered
  <2>1. AtFirst /\ loaded[1].vaddr < PageSize
    BY DEF BaseInv
  <2>2. alignDown(loaded[1].vaddr) = 0 /\ bias \in Nat
    BY <2>1, AlignedDown, LayoutFacts, BaseFacts DEF BaseShape
  <2> QED BY <2>1, <2>2 DEF AtFirst, SegStart
<1> QED BY <1>1, BaseAlways, PTL

\* Also of another file the base is below every mapping if its first header was read, and
\* of the right one always: no offset shown wraps (ProcessTab.cpp:362, 632).
THEOREM OffsetsNeverWrap == BaseSpec => []OffsetsDoNotWrap
<1>1. BaseShape /\ BaseInv => OffsetsDoNotWrap
  <2> SUFFICES ASSUME BaseShape, BaseInv, scan = "done", headerRead \/ onDisk = loaded,
                      NEW start \in Starts
               PROVE  start >= base
    BY DEF OffsetsDoNotWrap
  <2>1. base <= SegStart(1) /\ base \in Nat
    BY DEF BaseInv, BaseShape
  <2>2. start \in Nat /\ SegStart(1) <= start /\ SegStart(1) \in Nat
    BY LowestStart, BaseFacts DEF BaseShape
  <2> QED BY <2>1, <2>2
<1> QED BY <1>1, BaseAlways, PTL

-----------------------------------------------------------------------------
\* A product keeps the order.
LEMMA TimesKeepsOrder ==
  ASSUME NEW m \in Nat, NEW a \in Int, NEW b \in Int, a <= b
  PROVE  m * a <= m * b
<1>1. m * b = m * a + m * (b - a)
  OBVIOUS
<1>2. b - a \in Nat
  OBVIOUS
<1>3. m * (b - a) >= 0
  BY <1>2
<1> QED BY <1>1, <1>3

\* Quotient and remainder.
LEMMA DivMod ==
  ASSUME NEW m \in Nat \ {0}, NEW n \in Int
  PROVE  /\ n \div m \in Int /\ n % m \in 0..(m - 1)
         /\ n = m * (n \div m) + (n % m)
OBVIOUS

\* The quotient and the remainder are the only ones.
LEMMA ModIs ==
  ASSUME NEW m \in Nat \ {0}, NEW q \in Int, NEW r \in 0..(m - 1)
  PROVE  (m * q + r) % m = r
<1> DEFINE n == m * q + r
<1>0. n \in Int
  OBVIOUS
<1>1. PICK d \in Int, e \in 0..(m - 1) : e = n % m /\ n = m * d + e
  <2> HIDE DEF n
  <2> QED BY <1>0, DivMod
<1>2. ~(q < d)
  <2> SUFFICES ASSUME q < d PROVE FALSE
    OBVIOUS
  <2>1. m * (q + 1) <= m * d
    BY TimesKeepsOrder, q + 1 \in Int, q + 1 <= d
  <2>2. m * (q + 1) = m * q + m
    OBVIOUS
  <2>3. m * q \in Int /\ m * d \in Int
    OBVIOUS
  <2> QED BY <1>1, <2>1, <2>2, <2>3
<1>3. ~(d < q)
  <2> SUFFICES ASSUME d < q PROVE FALSE
    OBVIOUS
  <2>1. m * (d + 1) <= m * q
    BY TimesKeepsOrder, d + 1 \in Int, d + 1 <= q
  <2>2. m * (d + 1) = m * d + m
    OBVIOUS
  <2>3. m * q \in Int /\ m * d \in Int
    OBVIOUS
  <2> QED BY <1>1, <2>1, <2>2, <2>3
<1>4. q = d
  BY <1>2, <1>3
<1>5. m * q \in Int
  OBVIOUS
<1> QED BY <1>1, <1>4, <1>5

\* The two halves of a number make its low word.
LEMMA HalvesMakeWord ==
  ASSUME NEW s \in Nat \ {0}, NEW v \in Int
  PROVE  ((v \div s) % s) * s + (v % s) = v % (s * s)
<1>1. PICK q \in Int, r \in 0..(s - 1) : q = v \div s /\ r = v % s /\ v = s * q + r
  OBVIOUS
<1>2. PICK t \in Int, u \in 0..(s - 1) : u = q % s /\ q = s * t + u
  BY DivMod
<1>3. u * s + r \in 0..(s * s - 1)
  <2>1. u * s <= (s - 1) * s /\ 0 <= u * s
    OBVIOUS
  <2>2. (s - 1) * s = s * s - s
    OBVIOUS
  <2> QED BY <2>1, <2>2
<1>4. v = (s * s) * t + (u * s + r)
  <2>1. s * (s * t + u) = (s * s) * t + u * s
    <3>1. s * (s * t) = (s * s) * t /\ s * u = u * s
      OBVIOUS
    <3>2. s * (s * t + u) = s * (s * t) + s * u
      OBVIOUS
    <3> QED BY <3>1, <3>2
  <2> QED BY <1>1, <1>2, <2>1
<1>5. s * s \in Nat \ {0}
  OBVIOUS
<1>6. v % (s * s) = u * s + r
  <2> DEFINE m == s * s
             e == u * s + r
  <2>1. m \in Nat \ {0} /\ e \in 0..(m - 1) /\ v = m * t + e
    BY <1>3, <1>4, <1>5
  <2> HIDE DEF m, e
  <2>2. v % m = e
    BY <2>1, ModIs
  <2> QED BY <2>2 DEF m, e
<1>7. (v \div s) % s = u /\ v % s = r
  BY <1>1, <1>2
<1> QED
  <2> DEFINE a == (v \div s) % s
             b == v % s
             w == v % (s * s)
  <2>1. a = u /\ b = r /\ w = u * s + r
    BY <1>6, <1>7
  <2> HIDE DEF a, b, w
  <2>2. a * s + b = w
    BY <2>1
  <2> QED BY <2>2 DEF a, b, w

\* The square of an even number is even, and its half at least that number.
LEMMA EvenSquare ==
  ASSUME NEW s \in Nat \ {0}, s = 2 * (s \div 2)
  PROVE  /\ s * s \in Nat \ {0} /\ s * s = 2 * ((s * s) \div 2)
         /\ s <= (s * s) \div 2
<1>1. PICK h \in Nat \ {0} : s = 2 * h /\ h = s \div 2
  OBVIOUS
<1>2. s * s = 2 * (h * s)
  <2>1. (2 * h) * s = 2 * (h * s)
    OBVIOUS
  <2> QED BY <1>1, <2>1
<1>3. h * s \in Nat \ {0} /\ s <= h * s
  <2>1. s * 1 <= s * h
    BY TimesKeepsOrder
  <2>2. s * 1 = s /\ s * h = h * s /\ h * s \in Int
    OBVIOUS
  <2> QED BY <2>1, <2>2
<1> DEFINE p == s * s
           q == h * s
<1>4. p = 2 * q /\ q \in Nat \ {0} /\ s <= q
  BY <1>2, <1>3
<1> HIDE DEF p, q
<1>5. p \in Nat \ {0} /\ p \div 2 = q /\ p = 2 * (p \div 2) /\ s <= p \div 2
  BY <1>4
<1> QED BY <1>5 DEF p

\* Halves, words and registers are even, and a word is less than half a register.
LEMMA Sizes ==
  /\ Size(1) \in Nat \ {0} /\ Size(1) = 2 * (Size(1) \div 2)
  /\ Size(2) \in Nat \ {0} /\ Size(2) = 2 * (Size(2) \div 2)
  /\ Size(4) \in Nat \ {0} /\ Size(4) = 2 * (Size(4) \div 2)
  /\ Size(1) <= Size(2) \div 2 /\ Size(2) <= Size(4) \div 2
<1>1. Size(1) \in Nat \ {0} /\ Size(1) = 2 * (Size(1) \div 2)
  BY PowersOfHalves
<1>2. /\ Size(2) \in Nat \ {0} /\ Size(2) = 2 * (Size(2) \div 2)
      /\ Size(1) <= Size(2) \div 2
  BY <1>1, EvenSquare, PowersOfHalves
<1>3. /\ Size(4) \in Nat \ {0} /\ Size(4) = 2 * (Size(4) \div 2)
      /\ Size(2) <= Size(4) \div 2
  BY <1>2, EvenSquare, PowersOfHalves
<1> QED BY <1>1, <1>2, <1>3

\* A number in range is its own remainder; a negative one comes out a cycle up.
LEMMA SmallMod ==
  ASSUME NEW m \in Nat \ {0}, NEW n \in Int
  PROVE  /\ n \in 0..(m - 1) => n % m = n
         /\ n \in (-m)..(-1) => n % m = n + m
<1>1. m * 0 = 0 /\ m * (-1) = -m
  OBVIOUS
<1>2. ASSUME n \in 0..(m - 1) PROVE n % m = n
  <2>1. (m * 0 + n) % m = n
    BY <1>2, ModIs
  <2>2. m * 0 + n = n
    BY <1>1
  <2> QED BY <2>1, <2>2
<1>3. ASSUME n \in (-m)..(-1) PROVE n % m = n + m
  <2>1. n + m \in 0..(m - 1)
    BY <1>3
  <2>2. (m * (-1) + (n + m)) % m = n + m
    BY <2>1, ModIs
  <2>3. m * (-1) + (n + m) = n
    BY <1>1
  <2> QED BY <2>2, <2>3
<1> QED BY <1>2, <1>3

\* The kinds, with what each takes of a register.
LEMMA KindSizes ==
  /\ Kinds = {"Int16", "UInt16", "Int32", "UInt32", "Int64", "UInt64", "Single", "Boolean", "String"}
  /\ Halves["Int16"] = 1 /\ Halves["UInt16"] = 1 /\ Halves["Boolean"] = 1
  /\ Halves["Int32"] = 2 /\ Halves["UInt32"] = 2 /\ Halves["Single"] = 2
  /\ Halves["Int64"] = 4 /\ Halves["UInt64"] = 4 /\ Halves["String"] = 4
BY DEF Kinds, Halves

\* What a kind takes is even, and not nothing.
LEMMA SizeOfKind ==
  ASSUME NEW k \in Kinds
  PROVE  Size(Halves[k]) \in Nat \ {0} /\ Size(Halves[k]) = 2 * (Size(Halves[k]) \div 2)
<1>1. Halves[k] \in {1, 2, 4}
  BY KindSizes
<1>2. CASE Halves[k] = 1 BY <1>2, Sizes
<1>3. CASE Halves[k] = 2 BY <1>3, Sizes
<1>4. CASE Halves[k] = 4 BY <1>4, Sizes
<1> QED BY <1>1, <1>2, <1>3, <1>4

\* A value of a kind is read as itself.
LEMMA ValuesKept ==
  ASSUME NEW k \in Kinds, NEW n \in Values(k)
  PROVE  n \in Int /\ AsType(k, n) = n
<1> DEFINE m == Size(Halves[k])
           h == m \div 2
<1>1. m \in Nat \ {0} /\ m = 2 * h /\ h \in Nat \ {0}
  BY SizeOfKind
<1>2. AsType(k, n) = IF k \in Signed /\ (n % m) >= h THEN (n % m) - m ELSE n % m
  BY DEF AsType
<1>3. CASE k \in Signed
  <2>1. n \in (-h)..(h - 1)
    BY <1>3 DEF Values, Signed
  <2> HIDE DEF m, h
  <2>2. n \in Int
    BY <1>1, <2>1
  <2>3. CASE n >= 0
    <3>1. n % m = n
      BY <1>1, <2>1, <2>3, SmallMod, n \in 0..(m - 1)
    <3> QED BY <1>1, <1>2, <1>3, <2>1, <2>2, <3>1
  <2>4. CASE n < 0
    <3>0. n \in (-m)..(-1)
      BY <1>1, <2>1, <2>4
    <3>1. n % m = n + m
      BY <1>1, <2>2, <3>0, SmallMod
    <3>2. n + m >= h /\ (n + m) - m = n
      BY <1>1, <2>1
    <3> QED BY <1>2, <1>3, <2>2, <3>1, <3>2
  <2> QED BY <2>2, <2>3, <2>4
<1>4. CASE k \notin Signed
  <2>1. n \in 0..(m - 1)
    <3>1. CASE k = "Boolean"
      BY <1>1, <1>4, <3>1 DEF Values, Signed
    <3>2. CASE k # "Boolean"
      BY <1>4, <3>2 DEF Values, Signed
    <3> QED BY <3>1, <3>2
  <2> HIDE DEF m, h
  <2>2. n \in Int /\ n % m = n
    BY <1>1, <2>1, SmallMod
  <2> QED BY <1>2, <1>4, <2>2
<1> QED BY <1>3, <1>4

\* Taking the remainder twice changes nothing.
LEMMA ModTwice ==
  ASSUME NEW m \in Nat \ {0}, NEW n \in Int
  PROVE  (n % m) % m = n % m
<1>1. n % m \in 0..(m - 1)
  BY DivMod
<1> QED BY <1>1, SmallMod, n % m \in Int

-----------------------------------------------------------------------------
\* What the instructions leave in the registers.

\* No instruction: what was there.
LEMMA RunNothing ==
  ASSUME NEW r, code = << >>
  PROVE  Run(r) = r
BY DEF Run

\* One mov.
LEMMA RunMov ==
  ASSUME NEW a \in Int, NEW b \in Int, NEW v \in Int, code = << <<"mov", v>> >>
  PROVE  Run([x0 |-> a, s0 |-> b]) = [x0 |-> v, s0 |-> b]
<1> DEFINE r == [x0 |-> a, s0 |-> b]
<1>1. Run(r) = Step(r, <<"mov", v>>)
  BY DEF Run
<1> QED BY <1>1 DEF Step

\* mov and movk: the low word.
LEMMA RunLowAndHigh ==
  ASSUME NEW a \in Int, NEW b \in Int, NEW v \in Int, code = LowAndHigh(v)
  PROVE  Run([x0 |-> a, s0 |-> b]) = [x0 |-> v % Size(2), s0 |-> b]
<1> DEFINE r == [x0 |-> a, s0 |-> b]
           low == v % Size(1)
           high == (v \div Size(1)) % Size(1)
           q == [x0 |-> low, s0 |-> b]
<1>1. Run(r) = Step(Step(r, <<"mov", low>>), <<"movk", high>>)
  BY DEF Run, LowAndHigh
<1>2. Step(r, <<"mov", low>>) = q
  BY DEF Step
<1>3. Step(q, <<"movk", high>>) = [x0 |-> high * Size(1) + (low % Size(1)), s0 |-> b]
  BY DEF Step
<1>4. low % Size(1) = low
  BY Sizes, ModTwice
<1>5. high * Size(1) + low = v % Size(2)
  BY Sizes, HalvesMakeWord, PowersOfHalves
<1> HIDE DEF low, high, q, r
<1>6. Run(r) = [x0 |-> v % Size(2), s0 |-> b]
  BY <1>1, <1>2, <1>3, <1>4, <1>5
<1> QED BY <1>6 DEF r

\* And fmov: the same in s0.
LEMMA RunFmov ==
  ASSUME NEW a \in Int, NEW b \in Int, NEW v \in Int,
         code = Append(LowAndHigh(v), <<"fmov", 0>>)
  PROVE  Run([x0 |-> a, s0 |-> b]).s0 = v % Size(2)
<1> DEFINE r == [x0 |-> a, s0 |-> b]
           low == v % Size(1)
           high == (v \div Size(1)) % Size(1)
           q == [x0 |-> low, s0 |-> b]
           w == v % Size(2)
           two == << <<"mov", low>>, <<"movk", high>> >>
           T == {"mov", "movk", "fmov"} \X Int
<1>0. /\ Len(code) = 3
      /\ code[1] = <<"mov", low>> /\ code[2] = <<"movk", high>> /\ code[3] = <<"fmov", 0>>
  <2>1. low \in Int /\ high \in Int
    <3>1. Size(1) \in Nat \ {0}
      BY Sizes
    <3>2. low \in Int /\ v \div Size(1) \in Int
      BY <3>1
    <3>3. high \in Int
      BY <3>1, <3>2
    <3> QED BY <3>2, <3>3
  <2> HIDE DEF low, high
  <2>2. two \in Seq(T) /\ Len(two) = 2 /\ two[1] = <<"mov", low>> /\ two[2] = <<"movk", high>>
    BY <2>1
  <2>3. code = Append(two, <<"fmov", 0>>)
    BY DEF LowAndHigh, low, high
  <2>4. <<"fmov", 0>> \in T
    OBVIOUS
  <2> HIDE DEF two, T
  <2> QED BY <2>2, <2>3, <2>4
<1>1. Run(r) = Step(Step(Step(r, <<"mov", low>>), <<"movk", high>>), <<"fmov", 0>>)
  BY <1>0 DEF Run
<1>2. Step(r, <<"mov", low>>) = q
  BY DEF Step
<1>3. Step(q, <<"movk", high>>) = [x0 |-> high * Size(1) + (low % Size(1)), s0 |-> b]
  BY DEF Step
<1>4. low % Size(1) = low
  BY Sizes, ModTwice
<1>5. high * Size(1) + low = w
  BY Sizes, HalvesMakeWord, PowersOfHalves
<1>6. Step([x0 |-> w, s0 |-> b], <<"fmov", 0>>) = [x0 |-> w, s0 |-> w % Size(2)]
  BY DEF Step
<1>7. w % Size(2) = w
  BY Sizes, ModTwice
<1> HIDE DEF low, high, q, r, w
<1>8. Run(r).s0 = w
  BY <1>1, <1>2, <1>3, <1>4, <1>5, <1>6, <1>7
<1> QED BY <1>8 DEF r, w

-----------------------------------------------------------------------------
\* What the caller gets, kind by kind.

\* What the caller gets is read from x0, or from s0 for a Single.
LEMMA ReturnedFrom ==
  ASSUME NEW k \in Kinds, NEW entry \in Registers
  PROVE  /\ entry \in Int
         /\ \E b \in Int : LET r == Run([x0 |-> entry, s0 |-> b])
                           IN  Returned(k, entry) = AsType(k, IF k = "Single" THEN r.s0 ELSE r.x0)
<1>1. Size(2) \in Nat \ {0} /\ entry \in Int
  BY Sizes DEF Registers
<1>2. PICK b \in Int : b = entry % Size(2)
  BY <1>1
<1>3. Returned(k, entry)
        = LET r == Run([x0 |-> entry, s0 |-> b]) IN AsType(k, IF k = "Single" THEN r.s0 ELSE r.x0)
  BY <1>2 DEF Returned
<1> QED BY <1>1, <1>3

\* Values of one half: one mov, unless it is negative.
LEMMA ReturnsHalf ==
  ASSUME NEW k \in {"Int16", "UInt16", "Boolean", "String"}, NEW n \in Values(k),
         code = Assemble(k, AsType(k, n))
  PROVE  Encodable(k, n) <=> \A entry \in Registers : Returned(k, entry) = n
<1>1. k \in Kinds /\ n \in Int /\ AsType(k, n) = n
  BY ValuesKept, KindSizes
<1>2. CASE code = << <<"mov", n>> >>
  <2>1. ASSUME NEW entry \in Registers PROVE Returned(k, entry) = n
    <3>1. PICK b \in Int : Returned(k, entry) = AsType(k, Run([x0 |-> entry, s0 |-> b]).x0)
      BY <1>1, ReturnedFrom
    <3>2. Run([x0 |-> entry, s0 |-> b]) = [x0 |-> n, s0 |-> b]
      BY <1>1, <1>2, RunMov, ReturnedFrom
    <3> QED BY <1>1, <3>1, <3>2
  <2>2. \A entry \in Registers : Returned(k, entry) = n
    BY <2>1
  <2>3. Encodable(k, n)
    <3>1. CASE k = "Int16"
      <4>1. code # << >>
        BY <1>2
      <4>2. n \in 0..(Size(1) - 1)
        BY <1>1, <3>1, <4>1 DEF Assemble, Movz
      <4> QED BY <3>1, <4>2, Sizes DEF Encodable
    <3>2. CASE k # "Int16"
      BY <3>2 DEF Encodable
    <3> QED BY <3>1, <3>2
  <2> QED BY <2>2, <2>3
<1>3. CASE code # << <<"mov", n>> >>
  <2>1. k \in {"Int16", "UInt16"} /\ code = << >> /\ n \notin 0..(Size(1) - 1)
    BY <1>1, <1>3 DEF Assemble, Movz
  <2>2. k = "Int16" /\ n < 0
    <3>1. CASE k = "UInt16"
      BY <2>1, <3>1, KindSizes DEF Values, Signed
    <3>2. CASE k = "Int16"
      <4>1. n \in -(Size(1) \div 2)..(Size(1) \div 2 - 1)
        BY <3>2, KindSizes DEF Values, Signed
      <4> QED BY <1>1, <2>1, <3>2, <4>1, Sizes
    <3> QED BY <2>1, <3>1, <3>2
  <2>3. ~Encodable(k, n)
    BY <1>1, <2>2 DEF Encodable
  <2>4. Returned(k, 0) = AsType(k, 0)
    BY <2>1, <2>2, RunNothing DEF Returned
  <2>5. AsType(k, 0) = 0
    <3>1. 0 \in Values(k)
      BY <2>2, KindSizes, Sizes DEF Values, Signed
    <3> QED BY <1>1, <3>1, ValuesKept
  <2>6. Returned(k, 0) # n
    BY <2>2, <2>4, <2>5
  <2>7. 0 \in Registers
    BY Sizes DEF Registers
  <2> QED BY <2>3, <2>6, <2>7
<1> QED BY <1>2, <1>3

\* Values of a word: both halves of it.
LEMMA ReturnsWord ==
  ASSUME NEW k \in {"Int32", "UInt32", "Single"}, NEW n \in Values(k),
         code = Assemble(k, AsType(k, n))
  PROVE  Encodable(k, n) <=> \A entry \in Registers : Returned(k, entry) = n
<1>1. k \in Kinds /\ n \in Int /\ AsType(k, n) = n
  BY ValuesKept, KindSizes
<1>2. Encodable(k, n)
  BY DEF Encodable
<1>3. AsType(k, n % Size(2)) = n
  <2>1. (n % Size(2)) % Size(2) = n % Size(2)
    BY <1>1, Sizes, ModTwice
  <2>2. AsType(k, n % Size(2)) = AsType(k, n)
    BY <2>1, KindSizes DEF AsType
  <2> QED BY <1>1, <2>2
<1>4. ASSUME NEW entry \in Registers
      PROVE  Returned(k, entry) = n
  <2>1. entry \in Int
    BY <1>1, ReturnedFrom
  <2>2. CASE k = "Single"
    <3>1. code = Append(LowAndHigh(n), <<"fmov", 0>>)
      BY <1>1, <2>2 DEF Assemble
    <3>2. PICK b \in Int : Returned(k, entry) = AsType(k, Run([x0 |-> entry, s0 |-> b]).s0)
      BY <1>1, <2>2, ReturnedFrom
    <3>3. Run([x0 |-> entry, s0 |-> b]).s0 = n % Size(2)
      BY <1>1, <2>1, <3>1, RunFmov
    <3> QED BY <1>3, <3>2, <3>3
  <2>3. CASE k # "Single"
    <3>1. code = LowAndHigh(n)
      BY <1>1, <2>3 DEF Assemble
    <3>2. PICK b \in Int : Returned(k, entry) = AsType(k, Run([x0 |-> entry, s0 |-> b]).x0)
      BY <1>1, <2>3, ReturnedFrom
    <3>3. Run([x0 |-> entry, s0 |-> b]) = [x0 |-> n % Size(2), s0 |-> b]
      BY <1>1, <2>1, <3>1, RunLowAndHigh
    <3> QED BY <1>3, <3>2, <3>3
  <2> QED BY <2>2, <2>3
<1> QED BY <1>2, <1>4

\* Values of a register: its low word only.
LEMMA ReturnsLong ==
  ASSUME NEW k \in {"Int64", "UInt64"}, NEW n \in Values(k),
         code = Assemble(k, AsType(k, n))
  PROVE  Encodable(k, n) <=> \A entry \in Registers : Returned(k, entry) = n
<1> DEFINE w == n % Size(2)
<1>1. k \in Kinds /\ n \in Int /\ AsType(k, n) = n
  BY ValuesKept, KindSizes
<1>2. w \in 0..(Size(2) - 1)
  BY <1>1, Sizes, DivMod
<1>3. AsType(k, w) = w
  <2>1. CASE k = "Int64"
    <3>1. Values(k) = -(Size(4) \div 2)..(Size(4) \div 2 - 1)
      BY <2>1, KindSizes DEF Values, Signed
    <3> QED BY <1>1, <1>2, <3>1, Sizes, ValuesKept
  <2>2. CASE k = "UInt64"
    <3>1. Values(k) = 0..(Size(4) - 1)
      BY <2>2, KindSizes DEF Values, Signed
    <3> QED BY <1>1, <1>2, <3>1, Sizes, ValuesKept
  <2> QED BY <2>1, <2>2
<1>4. code = LowAndHigh(n)
  BY <1>1 DEF Assemble
<1>5. ASSUME NEW entry \in Registers
      PROVE  Returned(k, entry) = w
  <2>1. PICK b \in Int : Returned(k, entry) = AsType(k, Run([x0 |-> entry, s0 |-> b]).x0)
    BY <1>1, ReturnedFrom
  <2>2. Run([x0 |-> entry, s0 |-> b]) = [x0 |-> w, s0 |-> b]
    BY <1>1, <1>4, RunLowAndHigh, ReturnedFrom
  <2> QED BY <1>3, <2>1, <2>2
<1>6. Encodable(k, n) <=> n \in 0..(Size(2) - 1)
  BY KindSizes DEF Encodable, Values, Signed
<1>7. Encodable(k, n) <=> w = n
  BY <1>1, <1>2, <1>6, Sizes, SmallMod
<1>8. 0 \in Registers
  BY Sizes DEF Registers
<1> HIDE DEF w
<1> QED BY <1>5, <1>7, <1>8

-----------------------------------------------------------------------------
\* Once patched, the code is what the kind and the number assemble to.
ReturnInv ==
  /\ kind \in Kinds /\ number \in Int
  /\ patching = "patched" => code = Assemble(kind, AsType(kind, number))

LEMMA ReturnInvHolds == ReturnSpec => []ReturnInv
<1>1. ReturnInit => ReturnInv
  BY ReturnAssumption DEF ReturnInit, ReturnInv
<1>2. ReturnInv /\ [ReturnNext]_returnVars => ReturnInv'
  <2> SUFFICES ASSUME ReturnInv, [ReturnNext]_returnVars PROVE ReturnInv'
    OBVIOUS
  <2>1. CASE Confirm
    BY <2>1 DEF Confirm, ReturnInv
  <2>2. CASE ConfirmThrows
    BY <2>2 DEF ConfirmThrows, ReturnInv
  <2>3. CASE UNCHANGED returnVars
    BY <2>3 DEF returnVars, ReturnInv
  <2> QED BY <2>1, <2>2, <2>3 DEF ReturnNext
<1> QED BY <1>1, <1>2, PTL DEF ReturnSpec

\* A method patched to return a value of its type returns it, whatever the
\* registers held, for exactly the values that can be encoded.
THEOREM ReturnedAsTyped == ReturnSpec => []ReturnsTyped
<1>1. ReturnInv => ReturnsTyped
  <2> SUFFICES ASSUME ReturnInv, patching = "patched", number \in Values(kind)
               PROVE  Encodable(kind, number)
                        <=> \A entry \in Registers : Returned(kind, entry) = number
    BY DEF ReturnsTyped
  <2>1. kind \in Kinds /\ code = Assemble(kind, AsType(kind, number))
    BY DEF ReturnInv
  <2>2. CASE kind \in {"Int16", "UInt16", "Boolean", "String"}
    BY <2>1, <2>2, ReturnsHalf
  <2>3. CASE kind \in {"Int32", "UInt32", "Single"}
    BY <2>1, <2>3, ReturnsWord
  <2>4. CASE kind \in {"Int64", "UInt64"}
    BY <2>1, <2>4, ReturnsLong
  <2> QED BY <2>1, <2>2, <2>3, <2>4, KindSizes
<1> QED BY <1>1, ReturnInvHolds, PTL

=============================================================================
