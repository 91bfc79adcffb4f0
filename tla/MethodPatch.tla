---------------------------- MODULE MethodPatch ----------------------------
(***************************************************************************)
(* The code of a method, which two parts of the tool rewrite: the patcher  *)
(* (PatcherView, Tool/ClassesTab.cpp:900-1126, and Patcher::patch), on the *)
(* UI thread, and the tracer (ToggleHooker, Tool/Tool.cpp:877), on any     *)
(* thread.  Both keep what was there before: oMap has the bytes the        *)
(* patcher restores, which either of them saves, and the interceptor has   *)
(* a prologue of its own.                                                  *)
(*                                                                         *)
(* The first 16 bytes are Cells cells, an AArch64 instruction each, and    *)
(* who wrote a cell is its contents; the longest patch is 4 instructions.  *)
(* A method that returns nothing is patched with a bare ret, holding       *)
(* oMapMtx; any other by the callback of a keyboard or a selector, which   *)
(* comes when the user is done, with a longer patch and without oMapMtx.   *)
(* A ToggleHooker call saves the bytes, then attaches or detaches, both    *)
(* inside the interceptor's own lock; what overlapping calls do to the map *)
(* of hooks the UI shows is in HookRegistry.                               *)
(*                                                                         *)
(* Nothing keeps the two parts off one method: the guards "Can't patch     *)
(* while hooked!" (ClassesTab.cpp:903-909) and "Can't hook while patched!" *)
(* (1242-1253) are commented out.  The history variable crossed collects   *)
(* the methods on which one of them rewrote what the other relied on: a    *)
(* hook removed from under a patch or a patch from under a hook, or bytes  *)
(* saved from a patch that is not yet kept, or dropped under a call that   *)
(* had saved them.  No guard reads it.                                     *)
(***************************************************************************)
EXTENDS Integers, Sequences

CONSTANTS Methods,
          Void,       \* the methods that return nothing
          Togglers,   \* threads that call ToggleHooker
          Cells,      \* cells of the 16 bytes ToggleHooker saves
          None        \* no prologue

ASSUME PatchAssumption ==
  /\ Void \subseteq Methods
  /\ Cells \in Nat \ {0, 1}
  /\ None \notin Seq({"original", "patch", "hook"})

VARIABLES
  code,     \* the first bytes of each method
  saved,    \* oMap[m].bytes
  patched,  \* is oMap[m].text set?
  hook,     \* the prologue the interceptor will write back, None where there is no hook
  ui,       \* the patch the UI thread is applying
  call,     \* each toggler's ToggleHooker call
  crossed   \* history: methods the patcher and the tracer have crossed on

vars == <<code, saved, patched, hook, ui, call, crossed>>

Writers == {"original", "patch", "hook"}
Idle    == [at |-> "idle"]
Fill(n, writer)   == [i \in 1..n |-> writer]
First(bytes, n)   == SubSeq(bytes, 1, n)
Over(bytes, with) == [i \in 1..Cells |-> IF i <= Len(with) THEN with[i] ELSE bytes[i]]

Init == /\ code = [m \in Methods |-> Fill(Cells, "original")]
        /\ saved = [m \in Methods |-> << >>]
        /\ patched = [m \in Methods |-> FALSE]
        /\ hook = [m \in Methods |-> None]
        /\ ui = Idle
        /\ call = [t \in Togglers |-> Idle]
        /\ crossed = {}

Applying(m)   == ui # Idle /\ ui.method = m
\* Only the ret of a void method is applied under oMapMtx.
UiHoldsLock   == \E m \in Void : Applying(m)
\* A value takes an instruction or more before the ret; one the assembler refuses,
\* as movz does a negative Int16 (Patcher.cpp:41), leaves the ret alone.
PatchSizes(m) == IF m \in Void THEN {1} ELSE 1..Cells
\* Remembers that the two parts crossed on m, if they did.
Cross(m, did) == crossed' = IF did THEN crossed \cup {m} ELSE crossed

-----------------------------------------------------------------------------
\* The UI thread: a patch is a back-up, a write and the bookkeeping.

\* Faulty variant of Backup: what is backed up is what will be written.
BackupTooLate(m, n) ==
  /\ ui = Idle /\ ~patched[m]
  /\ ui' = [at |-> "write", method |-> m, backup |-> Fill(n, "patch")]
  /\ UNCHANGED <<code, saved, patched, hook, call, crossed>>

Backup(m, n) ==
  /\ ui = Idle /\ ~patched[m]
  /\ ui' = [at |-> "write", method |-> m, backup |-> First(code[m], n)]
  /\ UNCHANGED <<code, saved, patched, hook, call, crossed>>

Write ==
  /\ ui.at = "write"
  /\ code' = [code EXCEPT ![ui.method] = Over(@, Fill(Len(ui.backup), "patch"))]
  /\ ui' = [ui EXCEPT !.at = "keep"]
  /\ UNCHANGED <<saved, patched, hook, call, crossed>>

Keep ==
  /\ ui.at = "keep"
  /\ saved' = [saved EXCEPT ![ui.method] = IF @ = << >> THEN ui.backup ELSE @]
  /\ patched' = [patched EXCEPT ![ui.method] = TRUE]
  /\ ui' = Idle
  /\ UNCHANGED <<code, hook, call, crossed>>

\* Faulty variant of Restore: the bytes are not written back.
RestoreOnlyForgets(m) ==
  /\ ui = Idle /\ patched[m]
  /\ saved' = [saved EXCEPT ![m] = << >>]
  /\ patched' = [patched EXCEPT ![m] = FALSE]
  /\ Cross(m, hook[m] # None)
  /\ UNCHANGED <<code, hook, ui, call>>

Restore(m) ==
  /\ ui = Idle /\ patched[m]
  /\ code' = [code EXCEPT ![m] = Over(@, saved[m])]
  /\ saved' = [saved EXCEPT ![m] = << >>]
  /\ patched' = [patched EXCEPT ![m] = FALSE]
  /\ Cross(m, hook[m] # None)
  /\ UNCHANGED <<hook, ui, call>>

-----------------------------------------------------------------------------
\* ToggleHooker, which leaves the method on or off.

Call(t, m, on) ==
  /\ call[t] = Idle
  /\ call' = [call EXCEPT ![t] = [at |-> "save", method |-> m, on |-> on]]
  /\ UNCHANGED <<code, saved, patched, hook, ui, crossed>>

\* The patch of m is in place, and the bytes it replaced are not in oMap yet.
SavesPatch(m) == ui.at = "keep" /\ Applying(m) /\ saved[m] = << >>

\* Faulty variant of Save: adds to the bytes saved before.
SaveMore(t) ==
  /\ call[t].at = "save" /\ ~UiHoldsLock
  /\ saved' = [saved EXCEPT ![call[t].method] = @ \o code[call[t].method]]
  /\ call' = [call EXCEPT ![t].at = "toggle"]
  /\ Cross(call[t].method, SavesPatch(call[t].method))
  /\ UNCHANGED <<code, patched, hook, ui>>

Save(t) ==
  /\ call[t].at = "save" /\ ~UiHoldsLock
  /\ saved' = [saved EXCEPT ![call[t].method] = IF @ = << >> THEN code[call[t].method] ELSE @]
  /\ call' = [call EXCEPT ![t].at = "toggle"]
  /\ Cross(call[t].method, SavesPatch(call[t].method))
  /\ UNCHANGED <<code, patched, hook, ui>>

\* The interceptor writes its jump, of a length it chooses, over what it finds ...
Attach(t) ==
  LET m == call[t].method
  IN /\ call[t].at = "toggle" /\ call[t].on /\ hook[m] = None
     /\ \E n \in 1..Cells :
          /\ hook' = [hook EXCEPT ![m] = First(code[m], n)]
          /\ code' = [code EXCEPT ![m] = Over(@, Fill(n, "hook"))]
     /\ call' = [call EXCEPT ![t] = Idle]
     /\ Cross(m, saved[m] = << >>)
     /\ UNCHANGED <<saved, patched, ui>>

\* ... and writes that back when it detaches.
Detach(t) ==
  LET m == call[t].method
  IN /\ call[t].at = "toggle" /\ ~call[t].on /\ hook[m] # None
     /\ code' = [code EXCEPT ![m] = Over(@, hook[m])]
     /\ hook' = [hook EXCEPT ![m] = None]
     /\ call' = [call EXCEPT ![t] = Idle]
     /\ Cross(m, code[m][1] # "hook")
     /\ UNCHANGED <<saved, patched, ui>>

\* Nothing to do, or the interceptor refuses to attach.
NoChange(t) ==
  /\ call[t].at = "toggle" /\ (call[t].on \/ hook[call[t].method] = None)
  /\ call' = [call EXCEPT ![t] = Idle]
  /\ UNCHANGED <<code, saved, patched, hook, ui, crossed>>

-----------------------------------------------------------------------------
Next == \/ \E m \in Methods : (\E n \in PatchSizes(m) : Backup(m, n)) \/ Restore(m)
        \/ Write \/ Keep
        \/ \E t \in Togglers : \/ \E m \in Methods, on \in BOOLEAN : Call(t, m, on)
                                \/ Save(t) \/ Attach(t) \/ Detach(t) \/ NoChange(t)

Spec == Init /\ [][Next]_vars
-----------------------------------------------------------------------------
Bytes   == UNION {[1..n -> Writers] : n \in 0..Cells}
Patches == [at : {"write", "keep"}, method : Methods, backup : Bytes]
Calls   == [at : {"save", "toggle"}, method : Methods, on : BOOLEAN]

TypeOK ==
  /\ code \in [Methods -> [1..Cells -> Writers]]
  /\ saved \in [Methods -> Bytes]
  /\ patched \in [Methods -> BOOLEAN]
  /\ hook \in [Methods -> Bytes \cup {None}]
  /\ ui \in {Idle} \cup Patches
  /\ call \in [Togglers -> {Idle} \cup Calls]
  /\ crossed \in SUBSET Methods

\* The bytes Restore will write, and the viewers compare with, are those of the
\* method, whoever saved them and whichever way patches, restores and hooks were
\* mixed, until the two parts cross on it: patching a hooked method and hooking a
\* patched one are harmless by themselves (PatcherView, ToggleHooker).
BytesAreOriginal ==
  \A m \in Methods \ crossed : \A i \in 1..Len(saved[m]) : saved[m][i] = "original"

\* What the tool shows is what runs, until the two parts cross on the method: one
\* that is neither patched nor hooked is as it was at first, one that is either starts
\* with it, and one that is both with what came last (PatcherView, ToggleHooker).
ShownIsSo ==
  \A m \in Methods \ crossed : ~Applying(m) =>
     /\ ~patched[m] /\ hook[m] = None => code[m] = Fill(Cells, "original")
     /\ ~patched[m] /\ hook[m] # None => code[m][1] = "hook"
     /\ patched[m] /\ hook[m] = None => code[m][1] = "patch"
     /\ patched[m] /\ hook[m] # None => code[m][1] \in {"patch", "hook"}

\* "In memory it's the patched byte, in o.bytes it's the original byte"
\* (ClassesTab.cpp:1605), of every method shown as patched.
SavedIsOriginal ==
  \A m \in Methods : patched[m] => \A i \in 1..Len(saved[m]) : saved[m][i] = "original"
=============================================================================
