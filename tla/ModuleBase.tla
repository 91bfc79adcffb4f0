----------------------------- MODULE ModuleBase -----------------------------
(***************************************************************************)
(* The load address the Process tab shows offsets against                  *)
(* (Tool/ProcessTab.cpp:216-307): from the program headers of the library's*)
(* file and from where /proc/<pid>/maps says its pages are.  Reading the   *)
(* file may fail at every step, and the file may have been replaced since  *)
(* the library was loaded: of a "(deleted)" path the new file is read.     *)
(***************************************************************************)
EXTENDS Integers, Sequences, FiniteSetsExt

CONSTANTS PageSize,
          Layouts,     \* sequences of PT_LOADs: [offset, vaddr, pages], no page if there is only bss
          Replaced,    \* those of them a newer file may have
          Biases,      \* where the loader puts address 0
          NoBase       \* UINT64_MAX

ASSUME LayoutAssumption ==
  /\ PageSize \in Nat \ {0} /\ Biases \subseteq Nat /\ NoBase \in Nat
  /\ Replaced \subseteq Layouts
  /\ \A layout \in Layouts : layout \in Seq([offset : Nat, vaddr : Nat, pages : Nat])

alignDown(value) == value - (value % PageSize)

\* How far from its place in the file a segment is.
Shift(segment) == alignDown(segment.vaddr) - alignDown(segment.offset)

\* What linkers see to (external): the first segment holds the ELF header and
\* is the lowest, and one without pages is shifted the furthest.
ASSUME LinkerAssumption ==
  \A layout \in Layouts :
    /\ layout # << >> /\ layout[1].pages > 0 /\ layout[1].offset < PageSize
    /\ \A i \in DOMAIN layout :
         /\ alignDown(layout[1].vaddr) <= alignDown(layout[i].vaddr)
         /\ layout[i].pages = 0 => \A j \in DOMAIN layout : Shift(layout[j]) <= Shift(layout[i])

\* And the kernel: nothing is mapped at the lowest addresses, or at the highest.
ASSUME KernelAssumption ==
  \A b \in Biases : b < NoBase /\ \A layout \in Layouts : alignDown(layout[1].vaddr) <= b

VARIABLES
  loaded, bias, split,   \* the library in memory; a segment whose second page has other permissions
  onDisk,                \* the file that is read
  scan,                  \* idle, open, programs, done
  index, base,
  headerRead,            \* ghost: the first program header was read
  closes                 \* how often the file was closed

baseVars == <<loaded, bias, split, onDisk, scan, index, base, headerRead, closes>>

\* What the loader maps from the file (external): one mapping for a segment,
\* two for one that mprotect has split.
Mappings ==
  LET segment(i) == loaded[i]
      start(i)   == bias + alignDown(segment(i).vaddr)
      page(i)    == alignDown(segment(i).offset)
      inFile     == {i \in DOMAIN loaded : segment(i).pages > 0}
  IN  {[start |-> start(i), fileOffset |-> page(i), of |-> i] : i \in inFile} \union
      {[start |-> start(i) + PageSize, fileOffset |-> page(i) + PageSize, of |-> i] :
         i \in {split} \intersect {j \in inFile : segment(j).pages > 1}}

BaseInit ==
  /\ loaded \in Layouts /\ onDisk \in {loaded} \union Replaced /\ bias \in Biases
  /\ split \in 0..Len(loaded)
  /\ scan = "open" /\ index = 1 /\ base = NoBase /\ headerRead = FALSE /\ closes = 0

BaseIdle ==
  /\ loaded = << >> /\ onDisk = << >> /\ bias = 0 /\ split = 0
  /\ scan = "idle" /\ index = 1 /\ base = NoBase /\ headerRead = FALSE /\ closes = 0

Starts == {m.start : m \in Mappings}

\* The first mapping: an offset for display when there is no better one.
Fallback == base' = IF Starts = {} THEN 0 ELSE Min(Starts)

\* open fails; or the file is no ELF file, and is closed.
NoHeaders ==
  /\ scan = "open"
  /\ closes' \in {0, 1}
  /\ Fallback
  /\ scan' = "done"
  /\ UNCHANGED <<loaded, bias, split, onDisk, index, headerRead>>

\* The ELF header; without it there is no program to look at.
ReadHeader ==
  /\ scan = "open"
  /\ scan' = "programs"
  /\ index' \in {1, Len(onDisk) + 1}
  /\ UNCHANGED <<loaded, bias, split, onDisk, base, headerRead, closes>>

\* Faulty variant of Candidates: the address as it is in the header.
CandidatesUnaligned(program) ==
  {m.start - program.vaddr : m \in {m \in Mappings : /\ m.fileOffset = alignDown(program.offset)
                                                     /\ m.start >= program.vaddr}}

\* Where address 0 would be if the program header were the mapping's one.
Candidates(program) ==
  {m.start - alignDown(program.vaddr) :
     m \in {m \in Mappings : /\ m.fileOffset = alignDown(program.offset)
                             /\ m.start >= alignDown(program.vaddr)}}

\* Faulty variant of Lowest: the last program header that matches counts.
LastMatch(candidates) == IF candidates = {} THEN base ELSE Max(candidates)

Lowest(candidates) == Min(candidates \union {base})

ReadProgram ==
  /\ scan = "programs" /\ index <= Len(onDisk)
  /\ base' = Lowest(Candidates(onDisk[index]))
  /\ headerRead' = (headerRead \/ index = 1)
  /\ index' = index + 1
  /\ UNCHANGED <<loaded, bias, split, onDisk, scan, closes>>

\* pread fails: the next one.
SkipProgram ==
  /\ scan = "programs" /\ index <= Len(onDisk)
  /\ index' = index + 1
  /\ UNCHANGED <<loaded, bias, split, onDisk, scan, base, headerRead, closes>>

\* The file is closed; and closed again when no header matched.
Finish ==
  /\ scan = "programs" /\ index > Len(onDisk)
  /\ IF base # NoBase THEN UNCHANGED base /\ closes' = closes + 1
                      ELSE Fallback /\ closes' = closes + 2
  /\ scan' = "done"
  /\ UNCHANGED <<loaded, bias, split, onDisk, index, headerRead>>

BaseNext == NoHeaders \/ ReadHeader \/ ReadProgram \/ SkipProgram \/ Finish

BaseSpec == BaseInit /\ [][BaseNext]_baseVars

-----------------------------------------------------------------------------
\* No page of the file is the first one of two mappings, or of a mapping and
\* of a segment that has no page of its own.
PagesUnshared ==
  \A i \in DOMAIN loaded : \A m \in Mappings :
    m.fileOffset = alignDown(loaded[i].offset) => m.of = i

\* If the file is the one that was loaded, any header that can be read is
\* enough for the right base (ProcessTab.cpp:243-260), and all offsets shown
\* are those the linker gave.  A split segment, a bss segment without pages and
\* a base that is not the first mapping's start are among the layouts.
BaseRecovered ==
  scan = "done" /\ loaded = onDisk /\ PagesUnshared /\ (headerRead \/ loaded[1].vaddr < PageSize)
    => base = bias

\* No mapping starts below the base, so that no offset shown wraps
\* (ProcessTab.cpp:362, 632), also if the file is another one, as long as its
\* first header can be read; if it is the right one, whatever can be read.
OffsetsDoNotWrap ==
  scan = "done" /\ (headerRead \/ onDisk = loaded) => \A start \in Starts : start >= base

=============================================================================
