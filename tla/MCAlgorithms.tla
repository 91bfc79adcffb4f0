---------------------------- MODULE MCAlgorithms ----------------------------
(***************************************************************************)
(* Three algorithms of the tool on all small inputs: the search behind a   *)
(* line of a backtrace, the base of a module, a patched return value.  Each*)
(* runs alone, the others idle.                                            *)
(***************************************************************************)
EXTENDS Backtrace, ModuleBase, ReturnValue

vars == <<searchVars, baseVars, returnVars>>

Init == \/ SearchInit /\ BaseIdle /\ ReturnIdle
        \/ SearchIdle /\ BaseInit /\ ReturnIdle
        \/ SearchIdle /\ BaseIdle /\ ReturnInit

Next == \/ SearchNext /\ UNCHANGED <<baseVars, returnVars>>
        \/ BaseNext   /\ UNCHANGED <<searchVars, returnVars>>
        \/ ReturnNext /\ UNCHANGED <<searchVars, baseVars>>

Spec == Init /\ [][Next]_vars

\* Method lists: up to four, in a stretch of six addresses, that begins low,
\* in the middle or near the end of the address space; and two that span more
\* than an int can tell.
MCMethodLists ==
  {ms \in UNION {[1..n -> {first + k : k \in 0..5}] : n \in 1..4, first \in {3, 24, 56}} :
     \A i, j \in DOMAIN ms : i <= j => ms[i] <= ms[j]}
  \union {<< >>, <<3, 60>>, <<3, 24, 60>>}

\* Layouts: text, or text and data, or text, data and bss.  The data begins in
\* the text's first page, its last one or the next one, somewhere in it, and at
\* an address one or two pages further than its place in the file, not below the
\* text.
Segment(offset, vaddr, pages) == [offset |-> offset, vaddr |-> vaddr, pages |-> pages]
Texts      == {Segment(0, 0, 1), Segment(0, 0, 2), Segment(0, 8, 1)}
Datas      == {Segment(o, o + 4 * k, n) : o \in {2, 5, 8}, k \in {1, 2}, n \in 1..2}
BssOf(d)   == {Segment(d.offset + k, d.vaddr + k + 4, 0) : k \in {1, 4}}
Pairs      == {<<t, d>> \in Texts \X Datas : d.vaddr >= t.vaddr}
MCLayouts  == {<<t>> : t \in Texts} \union Pairs
              \union UNION {{Append(p, b) : b \in BssOf(p[2])} : p \in Pairs}
MCReplaced == {<<t, Segment(5, 13, 1)>> : t \in Texts}

MCTyped == -260..260

=============================================================================
