------------------------ MODULE MethodPatchProofs ------------------------
(***************************************************************************)
(* What patches and hooks do to the code of a method, in any order, for    *)
(* any methods, threads and lengths.  The inductive invariant says, of a   *)
(* method the two parts have not crossed on, which cells the saved bytes   *)
(* cover (all of them when ToggleHooker saved them, those of the patch     *)
(* when the patcher did), and who wrote each cell of the code and of the   *)
(* interceptor's prologue, for a patch, a hook, and one over the other.    *)
(***************************************************************************)
EXTENDS MethodPatch, SequenceTheorems, TLAPS

-----------------------------------------------------------------------------
\* Lemmas about bytes.

\* Any function on 1..n, for n within the cells, is a member of Bytes.
LEMMA BytesIntro ==
  ASSUME NEW n \in 0..Cells, NEW b \in [1..n -> Writers]
  PROVE  b \in Bytes /\ Len(b) = n
<1>1. b \in Seq(Writers) /\ Len(b) = n
  BY PatchAssumption DEF Writers
<1> QED BY <1>1 DEF Bytes

\* Bytes are at most Cells long, and defined for each index.
LEMMA BytesElim ==
  ASSUME NEW b \in Bytes
  PROVE  /\ Len(b) \in 0..Cells
         /\ b \in [1..Len(b) -> Writers]
         /\ b # << >> => Len(b) >= 1
         /\ b # None
<1>1. PICK n \in 0..Cells : b \in [1..n -> Writers]
  BY DEF Bytes
<1>2. Len(b) = n
  BY <1>1, BytesIntro
<1>3. b \in Seq(Writers)
  BY <1>1, PatchAssumption
<1>4. b # None
  BY <1>3, PatchAssumption DEF Writers
<1> QED BY <1>1, <1>2, <1>3, <1>4, EmptySeq, PatchAssumption

\* There may be no bytes.
LEMMA NoBytes == << >> \in Bytes /\ Len(<< >>) = 0
<1>1. << >> \in [1..0 -> Writers] /\ 0 \in 0..Cells
  BY PatchAssumption
<1> QED BY <1>1, BytesIntro

\* The bytes before a write, as Patcher::patch and the interceptor keep them.
LEMMA FirstBytes ==
  ASSUME NEW c \in [1..Cells -> Writers], NEW n \in 1..Cells
  PROVE  /\ First(c, n) \in Bytes /\ Len(First(c, n)) = n
         /\ \A i \in 1..n : First(c, n)[i] = c[i]
<1>1. \A i \in 1..n : c[i] \in Writers
  BY PatchAssumption
<1>2. /\ First(c, n) \in Seq(Writers) /\ Len(First(c, n)) = n
      /\ \A i \in 1..n : First(c, n)[i] = c[i]
  BY <1>1, SubSeqProperties, PatchAssumption DEF First
<1>3. First(c, n) \in [1..n -> Writers]
  BY <1>2, LenProperties
<1> QED BY <1>2, <1>3, BytesIntro, PatchAssumption

\* The bytes of one writer.
LEMMA FillBytes ==
  ASSUME NEW n \in 0..Cells, NEW w \in Writers
  PROVE  Fill(n, w) \in Bytes /\ Len(Fill(n, w)) = n /\ \A i \in 1..n : Fill(n, w)[i] = w
<1>1. Fill(n, w) \in [1..n -> Writers]
  BY DEF Fill
<1> QED BY <1>1, BytesIntro DEF Fill

\* A write changes the cells it covers.
LEMMA OverBytes ==
  ASSUME NEW c \in [1..Cells -> Writers], NEW b \in Bytes
  PROVE  /\ Over(c, b) \in [1..Cells -> Writers]
         /\ \A i \in 1..Cells : Over(c, b)[i] = IF i <= Len(b) THEN b[i] ELSE c[i]
<1>1. Len(b) \in 0..Cells /\ b \in [1..Len(b) -> Writers]
  BY BytesElim
<1>2. \A i \in 1..Cells : i <= Len(b) => b[i] \in Writers
  BY <1>1, PatchAssumption
<1> QED BY <1>2 DEF Over

-----------------------------------------------------------------------------
\* The inductive invariant.

\* Are these bytes the method's own?
AllOriginal(b) == \A i \in 1..Len(b) : b[i] = "original"

\* Saved bytes are the method's own; there are some under a patch and under a hook, and
\* those ToggleHooker saved cover every cell.
SavedOf(m) ==
  /\ AllOriginal(saved[m])
  /\ ~patched[m] /\ saved[m] # << >> => Len(saved[m]) = Cells
  /\ patched[m] \/ hook[m] # None => saved[m] # << >>

\* The patch being applied is not empty, and a backup that will be kept is original.
UiOf(m) == Applying(m) => /\ ~patched[m]
                          /\ Len(ui.backup) >= 1
                          /\ saved[m] = << >> => AllOriginal(ui.backup)

\* The patch of m is in its code, kept or not.
Written(m) == patched[m] \/ (Applying(m) /\ ui.at = "keep")
\* How many cells Restore writes back, or will once the patch is kept.
Kept(m) == IF saved[m] # << >> THEN Len(saved[m]) ELSE Len(ui.backup)

\* Who wrote each cell of m's code and prologue.
CodeOf(m) ==
  /\ ~Written(m) /\ hook[m] = None => \A i \in 1..Cells : code[m][i] = "original"
  /\ ~Written(m) /\ hook[m] # None =>
        /\ AllOriginal(hook[m])
        /\ \A i \in 1..Cells : code[m][i] = IF i <= Len(hook[m]) THEN "hook" ELSE "original"
  /\ Written(m) /\ hook[m] = None =>
        /\ code[m][1] = "patch"
        /\ \A i \in 1..Cells : i > Kept(m) => code[m][i] = "original"
  /\ Written(m) /\ hook[m] # None =>
        /\ code[m][1] \in {"patch", "hook"}
        /\ code[m][1] = "hook" =>
              /\ hook[m][1] = "patch"
              /\ \A i \in 1..Cells : i > Kept(m) =>
                    IF i <= Len(hook[m]) THEN hook[m][i] = "original" ELSE code[m][i] = "original"
  /\ hook[m] # None => Len(hook[m]) >= 1

MethodInv(m) == SavedOf(m) /\ UiOf(m) /\ CodeOf(m)
PatchInv == \A m \in Methods \ crossed : MethodInv(m)
IInv == TypeOK /\ PatchInv

-----------------------------------------------------------------------------
\* Type correctness.

LEMMA TypeInit == Init => TypeOK
<1> SUFFICES ASSUME Init PROVE TypeOK
  OBVIOUS
<1>1. Fill(Cells, "original") \in [1..Cells -> Writers]
  BY DEF Fill, Writers
<1> QED BY <1>1, NoBytes DEF Init, TypeOK

\* A call past its beginning is about a method.
LEMMA CallType ==
  ASSUME TypeOK, NEW t \in Togglers, call[t].at \in {"save", "toggle"}
  PROVE  call[t] \in Calls /\ call[t].method \in Methods /\ call[t] # Idle
  BY DEF TypeOK, Calls, Idle

\* So is a patch past its back-up.
LEMMA UiType ==
  ASSUME TypeOK, ui.at \in {"write", "keep"}
  PROVE  ui \in Patches /\ ui.method \in Methods /\ ui.backup \in Bytes /\ ui # Idle
  BY DEF TypeOK, Patches, Idle

\* The back-up a patch makes has the patch's length.
LEMMA BackupBytes ==
  ASSUME TypeOK, NEW m \in Methods, NEW n \in PatchSizes(m)
  PROVE  /\ n \in 1..Cells /\ First(code[m], n) \in Bytes /\ Len(First(code[m], n)) = n
         /\ \A i \in 1..n : First(code[m], n)[i] = code[m][i]
<1>1. n \in 1..Cells /\ code[m] \in [1..Cells -> Writers]
  BY PatchAssumption DEF PatchSizes, TypeOK
<1> QED BY <1>1, FirstBytes

LEMMA TypeStep ==
  ASSUME TypeOK, [Next]_vars
  PROVE  TypeOK'
<1>1. ASSUME NEW m \in Methods, NEW n \in PatchSizes(m), Backup(m, n) PROVE TypeOK'
  <2>1. ui' \in Patches
    BY <1>1, BackupBytes DEF Backup, Patches
  <2> QED BY <1>1, <2>1 DEF Backup, TypeOK
<1>2. ASSUME NEW m \in Methods, Restore(m) PROVE TypeOK'
  <2>1. Over(code[m], saved[m]) \in [1..Cells -> Writers]
    BY OverBytes DEF TypeOK
  <2> QED BY <1>2, <2>1, NoBytes DEF Restore, Cross, TypeOK
<1>3. CASE Write
  <2>1. ui \in Patches /\ ui.method \in Methods /\ ui.backup \in Bytes
    BY <1>3, UiType DEF Write
  <2>2. Fill(Len(ui.backup), "patch") \in Bytes
    BY <2>1, BytesElim, FillBytes DEF Writers
  <2>3. Over(code[ui.method], Fill(Len(ui.backup), "patch")) \in [1..Cells -> Writers]
    BY <2>1, <2>2, OverBytes DEF TypeOK
  <2>4. ui' \in Patches
    BY <1>3, <2>1 DEF Write, Patches
  <2> QED BY <1>3, <2>1, <2>3, <2>4 DEF Write, TypeOK
<1>4. CASE Keep
  BY <1>4, UiType DEF Keep, TypeOK
<1>5. ASSUME NEW t \in Togglers, NEW m \in Methods, NEW on \in BOOLEAN, Call(t, m, on)
      PROVE  TypeOK'
  BY <1>5 DEF Call, TypeOK, Calls
<1>6. ASSUME NEW t \in Togglers, Save(t) PROVE TypeOK'
  <2>1. call[t] \in Calls /\ call[t].method \in Methods
    BY <1>6, CallType DEF Save
  <2>2. code[call[t].method] \in Bytes
    BY <2>1, BytesIntro, PatchAssumption DEF TypeOK
  <2>3. call' \in [Togglers -> {Idle} \cup Calls]
    BY <1>6, <2>1 DEF Save, Cross, TypeOK, Calls
  <2> QED BY <1>6, <2>1, <2>2, <2>3 DEF Save, Cross, TypeOK
<1>7. ASSUME NEW t \in Togglers, Attach(t) PROVE TypeOK'
  <2>1. call[t].method \in Methods
    BY <1>7, CallType DEF Attach
  <2>2. PICK n \in 1..Cells :
          /\ hook' = [hook EXCEPT ![call[t].method] = First(code[call[t].method], n)]
          /\ code' = [code EXCEPT ![call[t].method] = Over(@, Fill(n, "hook"))]
    BY <1>7 DEF Attach
  <2>3. First(code[call[t].method], n) \in Bytes
    BY <2>1, FirstBytes DEF TypeOK
  <2>4. Fill(n, "hook") \in Bytes
    BY FillBytes, PatchAssumption DEF Writers
  <2>5. Over(code[call[t].method], Fill(n, "hook")) \in [1..Cells -> Writers]
    BY <2>1, <2>4, OverBytes DEF TypeOK
  <2> QED BY <1>7, <2>1, <2>2, <2>3, <2>5 DEF Attach, Cross, TypeOK
<1>8. ASSUME NEW t \in Togglers, Detach(t) PROVE TypeOK'
  <2>1. call[t].method \in Methods
    BY <1>8, CallType DEF Detach
  <2>2. hook[call[t].method] \in Bytes
    BY <1>8, <2>1 DEF Detach, Cross, TypeOK
  <2>3. Over(code[call[t].method], hook[call[t].method]) \in [1..Cells -> Writers]
    BY <2>1, <2>2, OverBytes DEF TypeOK
  <2> QED BY <1>8, <2>1, <2>3 DEF Detach, Cross, TypeOK
<1>9. ASSUME NEW t \in Togglers, NoChange(t) PROVE TypeOK'
  BY <1>9 DEF NoChange, TypeOK
<1>10. CASE UNCHANGED vars
  BY <1>10 DEF vars, TypeOK
<1> QED BY <1>1, <1>2, <1>3, <1>4, <1>5, <1>6, <1>7, <1>8, <1>9, <1>10 DEF Next

\* The variables keep their types.
THEOREM PatchTyping == Spec => []TypeOK
  BY TypeInit, TypeStep, PTL DEF Spec

-----------------------------------------------------------------------------
\* The inductive invariant.

LEMMA PatchInit == Init => PatchInv
<1> SUFFICES ASSUME Init, NEW m \in Methods PROVE MethodInv(m)
  BY DEF PatchInv
<1>1. \A i \in 1..Cells : code[m][i] = "original"
  BY DEF Init, Fill
<1> QED BY <1>1, NoBytes DEF Init, MethodInv, SavedOf, UiOf, CodeOf, Written, AllOriginal,
  Applying

\* A step leaves alone the methods it is not about.
LEMMA Elsewhere ==
  ASSUME NEW x \in Methods, MethodInv(x),
         code'[x] = code[x], saved'[x] = saved[x], patched'[x] = patched[x], hook'[x] = hook[x],
         Applying(x)' <=> Applying(x), Applying(x) => ui' = ui
  PROVE  MethodInv(x)'
<1>1. Written(x)' <=> Written(x)
  BY DEF Written
<1>2. Written(x) /\ saved[x] = << >> /\ ~patched[x] => Kept(x)' = Kept(x)
  BY DEF Written, Kept
<1>3. saved[x] # << >> => Kept(x)' = Kept(x)
  BY DEF Kept
<1>4. SavedOf(x)' /\ UiOf(x)'
  BY DEF MethodInv, SavedOf, UiOf, AllOriginal
<1>5. patched[x] \/ hook[x] # None => saved[x] # << >>
  BY DEF MethodInv, SavedOf
<1>6. CodeOf(x)'
  BY <1>1, <1>2, <1>3, <1>5 DEF MethodInv, CodeOf, AllOriginal
<1> QED BY <1>4, <1>6 DEF MethodInv

\* A back-up taken of a method with no bytes saved is of its own code: nothing is
\* hooked without saved bytes.
LEMMA BackupInv ==
  ASSUME IInv, NEW m \in Methods, NEW n \in PatchSizes(m), Backup(m, n)
  PROVE  PatchInv'
<1> USE DEF IInv
<1>1. /\ ui = Idle /\ ~patched[m]
      /\ ui' = [at |-> "write", method |-> m, backup |-> First(code[m], n)]
      /\ UNCHANGED <<code, saved, patched, hook, call, crossed>>
  BY DEF Backup
<1>2. Len(ui'.backup) = n /\ n >= 1 /\ \A i \in 1..n : ui'.backup[i] = code[m][i]
  BY <1>1, BackupBytes, PatchAssumption
<1>3. \A x \in Methods : ~Applying(x) /\ (Applying(x)' <=> x = m)
  BY <1>1 DEF Applying, Idle
<1>4. ASSUME m \notin crossed PROVE MethodInv(m)'
  <2>1. MethodInv(m)
    BY <1>4 DEF PatchInv
  <2>2. ~Written(m) /\ ~Written(m)'
    BY <1>1, <1>3 DEF Written
  <2>3. SavedOf(m)'
    BY <1>1, <2>1 DEF MethodInv, SavedOf, AllOriginal
  <2>4. CodeOf(m)'
    BY <1>1, <2>1, <2>2 DEF MethodInv, CodeOf, AllOriginal
  <2>5. saved[m] = << >> => \A i \in 1..Cells : code[m][i] = "original"
    BY <2>1, <2>2 DEF MethodInv, CodeOf, SavedOf
  <2>6. saved'[m] = << >> => AllOriginal(ui.backup)'
    BY <1>1, <1>2, <2>5, BackupBytes, PatchAssumption DEF AllOriginal
  <2>7. UiOf(m)'
    BY <1>1, <1>2, <2>6 DEF UiOf
  <2> QED BY <2>3, <2>4, <2>7 DEF MethodInv
<1>5. ASSUME NEW x \in Methods \ crossed, x # m PROVE MethodInv(x)'
  BY <1>1, <1>3, <1>5, Elsewhere DEF PatchInv
<1> QED BY <1>1, <1>4, <1>5 DEF PatchInv

\* A patch goes over original code, or over a hook when every cell is saved.
LEMMA WriteInv ==
  ASSUME IInv, Write
  PROVE  PatchInv'
<1> USE DEF IInv
<1>0. PICK m \in Methods : m = ui.method
  BY UiType DEF Write
<1> DEFINE k == Len(ui.backup)
<1>1. /\ ui # Idle /\ ui.at = "write" /\ m \in Methods /\ ui \in Patches
      /\ k \in 0..Cells
  BY <1>0, UiType, BytesElim DEF Write
<1>2. /\ code' = [code EXCEPT ![m] = Over(code[m], Fill(k, "patch"))]
      /\ ui' = [ui EXCEPT !.at = "keep"]
      /\ UNCHANGED <<saved, patched, hook, call, crossed>>
  BY <1>0 DEF Write
<1>3. /\ ui'.at = "keep" /\ ui'.method = m /\ ui'.backup = ui.backup
      /\ ui' # Idle
  BY <1>0, <1>1, <1>2 DEF Patches, Idle
<1>4. \A i \in 1..Cells : code'[m][i] = IF i <= k THEN "patch" ELSE code[m][i]
  <2>1. /\ Fill(k, "patch") \in Bytes /\ Len(Fill(k, "patch")) = k
        /\ \A i \in 1..k : Fill(k, "patch")[i] = "patch"
    BY <1>1, FillBytes DEF Writers
  <2>2. \A i \in 1..Cells : Over(code[m], Fill(k, "patch"))[i] =
                              IF i <= k THEN Fill(k, "patch")[i] ELSE code[m][i]
    BY <1>1, <2>1, OverBytes DEF TypeOK
  <2> QED BY <1>1, <1>2, <2>1, <2>2 DEF TypeOK
<1>5. \A x \in Methods : (Applying(x)' <=> x = m) /\ (Applying(x) <=> x = m)
  BY <1>0, <1>1, <1>3 DEF Applying
<1>6. ASSUME m \notin crossed PROVE MethodInv(m)'
  <2>1. MethodInv(m)
    BY <1>1, <1>6 DEF PatchInv
  <2>2. ~patched[m] /\ k >= 1 /\ (saved[m] = << >> => AllOriginal(ui.backup))
    BY <1>1, <1>5, <2>1 DEF MethodInv, UiOf
  <2>3. ~Written(m) /\ Written(m)'
    BY <1>1, <1>3, <1>5, <2>2 DEF Written
  <2>4. SavedOf(m)'
    BY <1>2, <2>1 DEF MethodInv, SavedOf, AllOriginal
  <2>5. UiOf(m)'
    BY <1>2, <1>3, <2>2 DEF UiOf, AllOriginal
  <2>6. code'[m][1] = "patch"
    BY <1>4, <2>2, PatchAssumption
  <2>7. ASSUME hook[m] = None, NEW i \in 1..Cells, i > Kept(m)' PROVE code'[m][i] = "original"
    <3>1. saved[m] # << >> => Len(saved[m]) = Cells
      BY <2>1, <2>2 DEF MethodInv, SavedOf
    <3>2. saved[m] = << >> /\ Kept(m)' = k
      BY <1>2, <1>3, <2>7, <3>1, PatchAssumption DEF Kept
    <3> QED BY <1>1, <1>4, <2>1, <2>3, <2>7, <3>2 DEF MethodInv, CodeOf
  <2>8. hook[m] # None => Len(hook[m]) >= 1
    BY <2>1 DEF MethodInv, CodeOf
  <2>9. CodeOf(m)'
    <3>1. hook' = hook /\ code'[m][1] # "hook"
      BY <1>2, <2>6
    <3> QED BY <2>3, <2>6, <2>7, <2>8, <3>1 DEF CodeOf
  <2> QED BY <2>4, <2>5, <2>9 DEF MethodInv
<1>7. ASSUME NEW x \in Methods \ crossed, x # m PROVE MethodInv(x)'
  <2>1. code'[x] = code[x] /\ ~Applying(x) /\ ~Applying(x)'
    BY <1>2, <1>5, <1>7 DEF TypeOK
  <2> QED BY <1>2, <1>7, <2>1, Elsewhere DEF PatchInv
<1> QED BY <1>2, <1>6, <1>7 DEF PatchInv

\* What is kept covers the patch: the back-up does, and so do the cells saved before.
LEMMA KeepInv ==
  ASSUME IInv, Keep
  PROVE  PatchInv'
<1> USE DEF IInv
<1>0. PICK m \in Methods : m = ui.method
  BY UiType DEF Keep
<1> DEFINE k == Len(ui.backup)
<1>1. /\ ui # Idle /\ ui.at = "keep" /\ m \in Methods /\ ui.backup \in Bytes
      /\ k \in 0..Cells
  BY <1>0, UiType, BytesElim DEF Keep
<1>2. /\ saved' = [saved EXCEPT ![m] = IF @ = << >> THEN ui.backup ELSE @]
      /\ patched' = [patched EXCEPT ![m] = TRUE]
      /\ ui' = Idle
      /\ UNCHANGED <<code, hook, call, crossed>>
  BY <1>0 DEF Keep
<1>3. \A x \in Methods : (Applying(x) <=> x = m) /\ ~Applying(x)'
  BY <1>0, <1>1, <1>2 DEF Applying
<1>4. /\ saved'[m] = IF saved[m] = << >> THEN ui.backup ELSE saved[m]
      /\ patched'[m] = TRUE
      /\ \A x \in Methods : x # m => saved'[x] = saved[x] /\ patched'[x] = patched[x]
  BY <1>1, <1>2 DEF TypeOK
<1>5. ASSUME m \notin crossed PROVE MethodInv(m)'
  <2>1. MethodInv(m)
    BY <1>1, <1>5 DEF PatchInv
  <2>2. ~patched[m] /\ k >= 1 /\ (saved[m] = << >> => AllOriginal(ui.backup))
    BY <1>1, <1>3, <2>1 DEF MethodInv, UiOf
  <2>3. Written(m) /\ Written(m)'
    BY <1>1, <1>3, <1>4 DEF Written
  <2>4. AllOriginal(saved'[m]) /\ saved'[m] # << >> /\ Len(saved'[m]) = Kept(m)
    BY <1>1, <1>4, <2>1, <2>2, NoBytes DEF MethodInv, SavedOf, Kept
  <2>5. SavedOf(m)'
    <3>1. AllOriginal(saved[m])'
      BY <2>4 DEF AllOriginal
    <3> QED BY <1>4, <2>4, <3>1 DEF SavedOf
  <2>6. Kept(m)' = Kept(m)
    BY <2>4 DEF Kept
  <2>7. CodeOf(m)'
    BY <1>2, <2>1, <2>3, <2>6 DEF MethodInv, CodeOf, AllOriginal
  <2>8. UiOf(m)'
    BY <1>1, <1>3 DEF UiOf
  <2> QED BY <2>5, <2>7, <2>8 DEF MethodInv
<1>6. ASSUME NEW x \in Methods \ crossed, x # m PROVE MethodInv(x)'
  BY <1>2, <1>3, <1>4, <1>6, Elsewhere DEF PatchInv
<1> QED BY <1>2, <1>5, <1>6 DEF PatchInv

\* Restore writes original bytes over every cell the patch has changed, unless there is
\* a hook to cross with.
LEMMA RestoreInv ==
  ASSUME IInv, NEW m \in Methods, Restore(m)
  PROVE  PatchInv'
<1> USE DEF IInv
<1>1. /\ ui = Idle /\ patched[m]
      /\ code' = [code EXCEPT ![m] = Over(code[m], saved[m])]
      /\ saved' = [saved EXCEPT ![m] = << >>]
      /\ patched' = [patched EXCEPT ![m] = FALSE]
      /\ crossed' = IF hook[m] # None THEN crossed \cup {m} ELSE crossed
      /\ UNCHANGED <<hook, ui, call>>
  BY DEF Restore, Cross
<1>2. saved'[m] = << >> /\ patched'[m] = FALSE
  BY <1>1 DEF TypeOK
<1>3. \A x \in Methods : x # m => /\ saved'[x] = saved[x] /\ patched'[x] = patched[x]
                                    /\ code'[x] = code[x]
  BY <1>1 DEF TypeOK
<1>4. \A x \in Methods : ~Applying(x) /\ ~Applying(x)'
  BY <1>1 DEF Applying
<1>5. ASSUME m \notin crossed' PROVE MethodInv(m)'
  <2>1. MethodInv(m) /\ hook[m] = None
    BY <1>1, <1>5 DEF PatchInv
  <2>2. Written(m) /\ ~Written(m)'
    BY <1>1, <1>2, <1>4 DEF Written
  <2>3. \A i \in 1..Cells : code'[m][i] = "original"
    <3>1. saved[m] \in Bytes /\ Len(saved[m]) \in 0..Cells
      BY BytesElim DEF TypeOK
    <3>2. \A i \in 1..Cells : code'[m][i] = IF i <= Len(saved[m]) THEN saved[m][i] ELSE code[m][i]
      BY <1>1, <3>1, OverBytes DEF TypeOK
    <3>3. saved[m] # << >>
      BY <1>1, <2>1 DEF MethodInv, SavedOf
    <3>4. \A i \in 1..Cells : i > Len(saved[m]) => code[m][i] = "original"
      BY <2>1, <2>2, <3>3 DEF MethodInv, CodeOf, Kept
    <3>5. \A i \in 1..Cells : i <= Len(saved[m]) => saved[m][i] = "original"
      BY <2>1, <3>1, PatchAssumption DEF MethodInv, SavedOf, AllOriginal
    <3> QED BY <3>1, <3>2, <3>4, <3>5, PatchAssumption
  <2>4. SavedOf(m)'
    BY <1>1, <1>2, <2>1, NoBytes DEF SavedOf, AllOriginal
  <2>5. UiOf(m)' /\ CodeOf(m)'
    BY <1>1, <1>4, <2>1, <2>2, <2>3 DEF UiOf, CodeOf
  <2> QED BY <2>4, <2>5 DEF MethodInv
<1>6. ASSUME NEW x \in Methods \ crossed', x # m PROVE MethodInv(x)'
  BY <1>1, <1>3, <1>4, <1>6, Elsewhere DEF PatchInv
<1> QED BY <1>5, <1>6 DEF PatchInv

\* What ToggleHooker saves of a method with nothing saved is its own code, for there
\* is no hook and no kept patch without saved bytes.
LEMMA SaveInv ==
  ASSUME IInv, NEW t \in Togglers, Save(t)
  PROVE  PatchInv'
<1> USE DEF IInv
<1>0. PICK m \in Methods : m = call[t].method
  BY CallType DEF Save
<1>1. m \in Methods
  BY <1>0, CallType DEF Save
<1>2. /\ saved' = [saved EXCEPT ![m] = IF @ = << >> THEN code[m] ELSE @]
      /\ crossed' = IF SavesPatch(m) THEN crossed \cup {m} ELSE crossed
      /\ UNCHANGED <<code, patched, hook, ui>>
  BY <1>0 DEF Save, Cross
<1>3. /\ saved'[m] = IF saved[m] = << >> THEN code[m] ELSE saved[m]
      /\ \A x \in Methods : x # m => saved'[x] = saved[x]
  BY <1>1, <1>2 DEF TypeOK
<1>4. \A x \in Methods : Applying(x)' = Applying(x)
  BY <1>2 DEF Applying
<1>5. ASSUME m \notin crossed' PROVE MethodInv(m)'
  <2>1. MethodInv(m) /\ ~SavesPatch(m)
    BY <1>1, <1>2, <1>5 DEF PatchInv
  <2>2. CASE saved[m] # << >>
    BY <1>1, <1>2, <1>3, <1>4, <2>1, <2>2, Elsewhere
  <2>3. CASE saved[m] = << >>
    <3>1. saved'[m] = code[m] /\ hook[m] = None /\ ~patched[m]
      BY <1>3, <2>1, <2>3 DEF MethodInv, SavedOf
    <3>2. ~Written(m) /\ ~Written(m)'
      BY <1>2, <1>4, <2>1, <2>3, <3>1 DEF Written, SavesPatch
    <3>3. \A i \in 1..Cells : code[m][i] = "original"
      BY <2>1, <3>1, <3>2 DEF MethodInv, CodeOf
    <3>4. Len(code[m]) = Cells /\ code[m] # << >>
      BY <1>1, BytesIntro, NoBytes, PatchAssumption DEF TypeOK
    <3>5. SavedOf(m)'
      <4>1. AllOriginal(saved[m])'
        BY <3>1, <3>3, <3>4 DEF AllOriginal
      <4> QED BY <1>2, <3>1, <3>4, <4>1 DEF SavedOf
    <3>6. UiOf(m)'
      BY <1>2, <1>4, <2>1, <3>1, <3>4 DEF MethodInv, UiOf
    <3>7. CodeOf(m)'
      BY <1>2, <3>1, <3>2, <3>3 DEF CodeOf
    <3> QED BY <3>5, <3>6, <3>7 DEF MethodInv
  <2> QED BY <2>2, <2>3
<1>6. ASSUME NEW x \in Methods \ crossed', x # m PROVE MethodInv(x)'
  BY <1>2, <1>3, <1>4, <1>6, Elsewhere DEF PatchInv
<1> QED BY <1>5, <1>6 DEF PatchInv

\* The interceptor's prologue is original code, or starts with the patch.
LEMMA AttachInv ==
  ASSUME IInv, NEW t \in Togglers, Attach(t)
  PROVE  PatchInv'
<1> USE DEF IInv
<1>0. PICK m \in Methods : m = call[t].method
  BY CallType DEF Attach
<1>1. m \in Methods /\ hook[m] = None
  BY <1>0, CallType DEF Attach
<1>2. PICK n \in 1..Cells :
        /\ hook' = [hook EXCEPT ![m] = First(code[m], n)]
        /\ code' = [code EXCEPT ![m] = Over(code[m], Fill(n, "hook"))]
  BY <1>0 DEF Attach
<1>3. /\ UNCHANGED <<saved, patched, ui>>
      /\ crossed' = IF saved[m] = << >> THEN crossed \cup {m} ELSE crossed
  BY <1>0 DEF Attach, Cross
<1>4. /\ hook'[m] = First(code[m], n)
      /\ \A x \in Methods : x # m => hook'[x] = hook[x] /\ code'[x] = code[x]
  BY <1>1, <1>2 DEF TypeOK
<1>5. \A x \in Methods : /\ Applying(x)' = Applying(x)
                          /\ Written(x)' = Written(x)
                          /\ Kept(x)' = Kept(x)
  BY <1>3 DEF Applying, Written, Kept
<1>6. /\ hook'[m] # None /\ Len(hook'[m]) = n
      /\ \A i \in 1..n : hook'[m][i] = code[m][i]
  <2>1. /\ First(code[m], n) \in Bytes /\ Len(First(code[m], n)) = n
        /\ \A i \in 1..n : First(code[m], n)[i] = code[m][i]
    BY <1>1, FirstBytes DEF TypeOK
  <2> QED BY <1>4, <2>1, BytesElim
<1>7. \A i \in 1..Cells : code'[m][i] = IF i <= n THEN "hook" ELSE code[m][i]
  <2>1. /\ Fill(n, "hook") \in Bytes /\ Len(Fill(n, "hook")) = n
        /\ \A i \in 1..n : Fill(n, "hook")[i] = "hook"
    BY FillBytes, PatchAssumption DEF Writers
  <2>2. \A i \in 1..Cells : Over(code[m], Fill(n, "hook"))[i] =
                              IF i <= n THEN Fill(n, "hook")[i] ELSE code[m][i]
    <3>1. code[m] \in [1..Cells -> Writers]
      BY <1>1 DEF TypeOK
    <3> QED BY <2>1, <3>1, OverBytes
  <2> QED BY <1>1, <1>2, <2>1, <2>2, PatchAssumption DEF TypeOK
<1>8. ASSUME m \notin crossed' PROVE MethodInv(m)'
  <2>1. MethodInv(m) /\ saved[m] # << >>
    BY <1>1, <1>3, <1>8 DEF PatchInv
  <2>2. SavedOf(m)' /\ UiOf(m)'
    BY <1>3, <1>5, <2>1 DEF MethodInv, SavedOf, UiOf, AllOriginal
  <2>3. CASE ~Written(m)
    <3>1. \A i \in 1..Cells : code[m][i] = "original"
      BY <1>1, <2>1, <2>3 DEF MethodInv, CodeOf
    <3>2. AllOriginal(hook[m])'
      BY <1>6, <3>1, PatchAssumption DEF AllOriginal
    <3>3. \A i \in 1..Cells : code'[m][i] = IF i <= Len(hook'[m]) THEN "hook" ELSE "original"
      BY <1>6, <1>7, <3>1
    <3>4. CodeOf(m)'
      BY <1>1, <1>5, <1>6, <2>3, <3>2, <3>3, PatchAssumption DEF CodeOf
    <3> QED BY <2>2, <3>4 DEF MethodInv
  <2>4. CASE Written(m)
    <3>1. code[m][1] = "patch" /\ \A i \in 1..Cells : i > Kept(m) => code[m][i] = "original"
      BY <1>1, <2>1, <2>4 DEF MethodInv, CodeOf
    <3>2. code'[m][1] = "hook" /\ hook'[m][1] = "patch"
      BY <1>6, <1>7, <3>1, PatchAssumption
    <3>3. \A i \in 1..Cells : i > Kept(m) =>
            IF i <= Len(hook'[m]) THEN hook'[m][i] = "original" ELSE code'[m][i] = "original"
      BY <1>6, <1>7, <3>1, PatchAssumption
    <3>4. Len(hook'[m]) >= 1
      BY <1>6, PatchAssumption
    <3>5. CodeOf(m)'
      BY <1>1, <1>5, <1>6, <2>4, <3>2, <3>3, <3>4 DEF CodeOf
    <3> QED BY <2>2, <3>5 DEF MethodInv
  <2> QED BY <2>3, <2>4
<1>9. ASSUME NEW x \in Methods \ crossed', x # m PROVE MethodInv(x)'
  BY <1>3, <1>4, <1>5, <1>9, Elsewhere DEF PatchInv
<1> QED BY <1>8, <1>9 DEF PatchInv

\* Detaching puts the prologue back where the jump was, unless a patch has come over it.
LEMMA DetachInv ==
  ASSUME IInv, NEW t \in Togglers, Detach(t)
  PROVE  PatchInv'
<1> USE DEF IInv
<1>0. PICK m \in Methods : m = call[t].method
  BY CallType DEF Detach
<1>1. m \in Methods /\ hook[m] # None /\ hook[m] \in Bytes /\ Len(hook[m]) \in 0..Cells
  BY <1>0, CallType, BytesElim DEF Detach, TypeOK
<1>2. /\ code' = [code EXCEPT ![m] = Over(code[m], hook[m])]
      /\ hook' = [hook EXCEPT ![m] = None]
      /\ crossed' = IF code[m][1] # "hook" THEN crossed \cup {m} ELSE crossed
      /\ UNCHANGED <<saved, patched, ui>>
  BY <1>0 DEF Detach, Cross
<1>3. hook'[m] = None /\ \A x \in Methods : x # m => hook'[x] = hook[x] /\ code'[x] = code[x]
  BY <1>1, <1>2 DEF TypeOK
<1>4. \A x \in Methods : /\ Applying(x)' = Applying(x)
                          /\ Written(x)' = Written(x)
                          /\ Kept(x)' = Kept(x)
  BY <1>2 DEF Applying, Written, Kept
<1>5. \A i \in 1..Cells : code'[m][i] = IF i <= Len(hook[m]) THEN hook[m][i] ELSE code[m][i]
  BY <1>1, <1>2, OverBytes DEF TypeOK
<1>6. ASSUME m \notin crossed' PROVE MethodInv(m)'
  <2>1. MethodInv(m) /\ code[m][1] = "hook" /\ Len(hook[m]) >= 1
    BY <1>1, <1>2, <1>6 DEF PatchInv, MethodInv, CodeOf
  <2>2. SavedOf(m)' /\ UiOf(m)'
    BY <1>2, <1>3, <1>4, <2>1 DEF MethodInv, SavedOf, UiOf, AllOriginal
  <2>3. CASE ~Written(m)
    <3>1. /\ \A i \in 1..Len(hook[m]) : hook[m][i] = "original"
          /\ \A i \in 1..Cells : code[m][i] = IF i <= Len(hook[m]) THEN "hook" ELSE "original"
      BY <1>1, <2>1, <2>3 DEF MethodInv, CodeOf, AllOriginal
    <3>2. \A i \in 1..Cells : code'[m][i] = "original"
      BY <1>1, <1>5, <3>1, PatchAssumption
    <3>3. CodeOf(m)'
      BY <1>3, <1>4, <2>3, <3>2 DEF CodeOf
    <3> QED BY <2>2, <3>3 DEF MethodInv
  <2>4. CASE Written(m)
    <3>1. /\ hook[m][1] = "patch"
          /\ \A i \in 1..Cells : i > Kept(m) =>
                IF i <= Len(hook[m]) THEN hook[m][i] = "original" ELSE code[m][i] = "original"
      BY <1>1, <2>1, <2>4 DEF MethodInv, CodeOf
    <3>2. code'[m][1] = "patch" /\ \A i \in 1..Cells : i > Kept(m) => code'[m][i] = "original"
      BY <1>1, <1>5, <2>1, <3>1, PatchAssumption
    <3>3. CodeOf(m)'
      BY <1>3, <1>4, <2>4, <3>2 DEF CodeOf
    <3> QED BY <2>2, <3>3 DEF MethodInv
  <2> QED BY <2>3, <2>4
<1>7. ASSUME NEW x \in Methods \ crossed', x # m PROVE MethodInv(x)'
  BY <1>2, <1>3, <1>4, <1>7, Elsewhere DEF PatchInv
<1> QED BY <1>6, <1>7 DEF PatchInv

\* Every step keeps the invariant.
LEMMA PatchStep == IInv /\ [Next]_vars => PatchInv'
<1> SUFFICES ASSUME IInv, [Next]_vars PROVE PatchInv'
  OBVIOUS
<1>1. ASSUME UNCHANGED <<code, saved, patched, hook, ui, crossed>> PROVE PatchInv'
  <2>1. \A x \in Methods : Applying(x)' = Applying(x)
    BY <1>1 DEF Applying
  <2>2. ASSUME NEW x \in Methods \ crossed PROVE MethodInv(x)'
    BY <1>1, <2>1, <2>2, Elsewhere DEF IInv, PatchInv
  <2> QED BY <1>1, <2>2 DEF PatchInv
<1>2. ASSUME NEW t \in Togglers, NEW m \in Methods, NEW on \in BOOLEAN, Call(t, m, on)
      PROVE  PatchInv'
  BY <1>1, <1>2 DEF Call
<1>3. ASSUME NEW t \in Togglers, NoChange(t) PROVE PatchInv'
  BY <1>1, <1>3 DEF NoChange
<1>4. CASE UNCHANGED vars
  BY <1>1, <1>4 DEF vars
<1> QED BY <1>2, <1>3, <1>4, BackupInv, RestoreInv, WriteInv, KeepInv, SaveInv, AttachInv,
  DetachInv DEF Next

\* The invariant says what the two properties say.
LEMMA PatchImplies == IInv => BytesAreOriginal /\ ShownIsSo
<1> SUFFICES ASSUME IInv PROVE BytesAreOriginal /\ ShownIsSo
  OBVIOUS
<1> USE DEF IInv
<1>1. BytesAreOriginal
  BY DEF PatchInv, MethodInv, SavedOf, AllOriginal, BytesAreOriginal
<1>2. ASSUME NEW m \in Methods \ crossed, ~Applying(m)
      PROVE  /\ ~patched[m] /\ hook[m] = None => code[m] = Fill(Cells, "original")
             /\ ~patched[m] /\ hook[m] # None => code[m][1] = "hook"
             /\ patched[m] /\ hook[m] = None => code[m][1] = "patch"
             /\ patched[m] /\ hook[m] # None => code[m][1] \in {"patch", "hook"}
  <2>1. CodeOf(m) /\ (Written(m) <=> patched[m])
    BY <1>2 DEF PatchInv, MethodInv, Written
  <2>2. ASSUME ~patched[m], hook[m] = None PROVE code[m] = Fill(Cells, "original")
    BY <2>1, <2>2 DEF CodeOf, Fill, TypeOK
  <2>3. ASSUME ~patched[m], hook[m] # None PROVE code[m][1] = "hook"
    <3>1. Len(hook[m]) >= 1 /\ Len(hook[m]) \in 0..Cells
      BY <2>1, <2>3, BytesElim DEF CodeOf, TypeOK
    <3> QED BY <2>1, <2>3, <3>1, PatchAssumption DEF CodeOf
  <2> QED BY <2>1, <2>2, <2>3 DEF CodeOf
<1> QED BY <1>1, <1>2 DEF ShownIsSo

\* The inductive invariant holds throughout.
LEMMA PatchAlways == Spec => []IInv
<1>1. Init => IInv
  BY TypeInit, PatchInit DEF IInv
<1>2. IInv /\ [Next]_vars => IInv'
  BY TypeStep, PatchStep DEF IInv
<1> QED BY <1>1, <1>2, PTL DEF Spec

\* The bytes the tool has saved, which Restore writes, are the method's own until the
\* patcher and the tracer cross on it, in any mixture of patches, restores and toggles.
THEOREM SavedBytesAreTheMethods == Spec => []BytesAreOriginal
  BY PatchAlways, PatchImplies, PTL

\* The code of such a method is what the tool shows of it, patched, hooked, both or
\* neither.
THEOREM CodeIsAsShown == Spec => []ShownIsSo
  BY PatchAlways, PatchImplies, PTL
=============================================================================
