----------------------------- MODULE AppProofs -----------------------------
(***************************************************************************)
(* Proofs about App: Startup and DumpJob together, for any sets of dumping *)
(* threads and of files, any length of text and of notifications.          *)
(*                                                                         *)
(* MenuInv says how far each drawing thread is with the set-up, and what   *)
(* has let it into the tool: the game's thread the hook, the host's its    *)
(* surface, and both only where hack_thread woke before a Java host's      *)
(* JNI_OnLoad.  DumpInv says which thread each isDumping stands for, and   *)
(* what a file holds that somebody has emptied.                            *)
(***************************************************************************)
EXTENDS App, TLAPS

-----------------------------------------------------------------------------
\* The variables of Startup by their types.
FlagsInv ==
  /\ javaHost \in BOOLEAN /\ useJava \in BOOLEAN /\ onLoad \in BOOLEAN
  /\ hooked \in BOOLEAN /\ menuAddress \in BOOLEAN /\ needClear \in BOOLEAN
  /\ libEGL \in BOOLEAN /\ libil2cpp \in BOOLEAN
  /\ surface \in BOOLEAN /\ isInitialized \in BOOLEAN
  /\ hackThread \in {"sleep", "store", "hook", "done"}
  /\ contexts \in [Drawers -> {0, 1}] /\ inits \in [Drawers -> {0, 1}]
  /\ at \in [Drawers -> {"out", "setup", "wait", "flag", "menu", "draw", "pressed", "render"}]

\* Without a Java host there is no surface.
LoaderInv ==
  /\ useJava <=> onLoad /\ javaHost
  /\ surface => javaHost /\ menuAddress
  /\ hackThread = "hook" \/ hooked => menuAddress
  /\ needClear <=> ~(hackThread = "hook" \/ hooked)

\* A thread is, or has been, in the tool only if its side has been set up to call it.
EntryInv ==
  /\ at["game"] # "out" \/ contexts["game"] = 1 => hooked
  /\ at["host"] # "out" \/ contexts["host"] = 1 => surface

\* How far each thread is with the set-up.
SetupInv ==
  /\ \A d \in Drawers :
       /\ at[d] = "wait" <=> contexts[d] = 1 /\ inits[d] = 0
       /\ contexts[d] = 0 => inits[d] = 0 /\ at[d] # "flag"
       /\ contexts[d] = 1 /\ at[d] \notin {"wait", "flag"} => isInitialized
       /\ at[d] \in {"draw", "pressed", "render"} => isInitialized
  /\ isInitialized => \E d \in Drawers : inits[d] = 1

MenuInv == FlagsInv /\ LoaderInv /\ EntryInv /\ SetupInv

\* A running dump is the only one of its tab, and marked there.
FlagInv ==
  /\ \A j \in Jobs : Running(j) => isDumping[job[j].tab]
  /\ \A j, k \in Jobs : Running(j) /\ Running(k) /\ job[j].tab = job[k].tab => j = k
  /\ \A t \in Tabs : isDumping[t] => \E j \in Jobs : Running(j) /\ job[j].tab = t

\* What j has written since it opened its file is still there.
Kept(j) == 1..(job[j].next - 1) \subseteq file[job[j].path]

\* The file is whole, or is being written.
Written(p) == file[p] = 1..Chunks \/ \E j \in Jobs : Writes(j, p)

\* A dump starts at the first piece.  Of those who write a file, the last to
\* have emptied it has lost nothing.
FileInv ==
  /\ \A j \in Jobs : job[j].at \in {"collect", "open"} => job[j].next = 1
  /\ \A p \in Paths : (\E j \in Jobs : Writes(j, p)) =>
       file[p] = 1..Chunks \/ \E j \in Jobs : Writes(j, p) /\ Kept(j)
  /\ \A j \in Jobs : job[j] # NoJob /\ job[j].ok =>
       job[j].at \in {"clear", "notify"} /\ Written(job[j].path)
  /\ \A n \in notifications : n.success => Written(n.path)

DumpInv == DumpTypeOK /\ FlagInv /\ FileInv

-----------------------------------------------------------------------------
\* Nothing is loaded, nobody draws and nobody dumps at first.
LEMMA AppStarts == AppInit => MenuInv /\ DumpInv
<1> SUFFICES ASSUME AppInit PROVE MenuInv /\ DumpInv
  OBVIOUS
<1> USE DEF AppInit, Init, Drawers
<1>1. FlagsInv
  BY DEF FlagsInv
<1>2. LoaderInv /\ EntryInv
  BY DEF LoaderInv, EntryInv
<1>3. SetupInv
  BY DEF SetupInv
<1>4. DumpTypeOK
  BY DEF AppInit, DumpInit, DumpTypeOK, NoJob
<1>5. FlagInv /\ FileInv
  BY DEF AppInit, DumpInit, FlagInv, FileInv, Running, Writes, NoJob
<1> QED BY <1>1, <1>2, <1>3, <1>4, <1>5 DEF MenuInv, DumpInv

\* Every step of the loader and of the drawing threads keeps MenuInv.
LEMMA MenuStep ==
  ASSUME MenuInv, Step \/ \E d \in Drawers : Press(d) \/ EndMenu(d)
  PROVE  MenuInv'
<1> USE DEF MenuInv, startupVars, libs, menu, loader, set
<1>1. ASSUME LoadEGL PROVE MenuInv'
  BY <1>1 DEF LoadEGL, FlagsInv, LoaderInv, EntryInv, SetupInv, Drawers
<1>2. ASSUME LoadIl2cpp PROVE MenuInv'
  BY <1>2 DEF LoadIl2cpp, FlagsInv, LoaderInv, EntryInv, SetupInv, Drawers
<1>3. ASSUME OnLoad PROVE MenuInv'
  BY <1>3 DEF OnLoad, FlagsInv, LoaderInv, EntryInv, SetupInv, Drawers
<1>4. ASSUME HackWakes PROVE MenuInv'
  BY <1>4 DEF HackWakes, FlagsInv, LoaderInv, EntryInv, SetupInv, Drawers
<1>5. ASSUME HackStores PROVE MenuInv'
  BY <1>5 DEF HackStores, FlagsInv, LoaderInv, EntryInv, SetupInv, Drawers
<1>6. ASSUME HackHooks PROVE MenuInv'
  BY <1>6 DEF HackHooks, FlagsInv, LoaderInv, EntryInv, SetupInv, Drawers
<1>7. ASSUME SwapBuffers PROVE MenuInv'
  BY <1>7 DEF SwapBuffers, FlagsInv, LoaderInv, EntryInv, SetupInv, Drawers
<1>8. ASSUME SurfaceCreate PROVE MenuInv'
  BY <1>8 DEF SurfaceCreate, FlagsInv, LoaderInv, EntryInv, SetupInv, Drawers
<1>9. ASSUME SurfaceChanged PROVE MenuInv'
  BY <1>9 DEF SurfaceChanged, FlagsInv, LoaderInv, EntryInv, SetupInv, Drawers
<1>10. ASSUME DrawFrame PROVE MenuInv'
  BY <1>10 DEF DrawFrame, FlagsInv, LoaderInv, EntryInv, SetupInv, Drawers
<1>11. ASSUME NEW d \in Drawers, SetupAgain(d) PROVE MenuInv'
  <2>1. FlagsInv' /\ LoaderInv' /\ EntryInv'
    BY <1>11 DEF SetupAgain, AfterSetup, FlagsInv, LoaderInv, EntryInv, SetupInv, Drawers
  <2>2. SetupInv'
    BY <1>11 DEF SetupAgain, AfterSetup, FlagsInv, LoaderInv, EntryInv, SetupInv, Drawers
  <2> QED BY <2>1, <2>2
<1>12. ASSUME NEW d \in Drawers, CreateContext(d) PROVE MenuInv'
  <2>1. FlagsInv' /\ LoaderInv' /\ EntryInv'
    BY <1>12 DEF CreateContext, FlagsInv, LoaderInv, EntryInv, SetupInv, Drawers
  <2>2. SetupInv'
    BY <1>12 DEF CreateContext, FlagsInv, LoaderInv, EntryInv, SetupInv, Drawers
  <2> QED BY <2>1, <2>2
<1>13. ASSUME NEW d \in Drawers, OnInit(d) PROVE MenuInv'
  <2>1. FlagsInv' /\ LoaderInv' /\ EntryInv'
    BY <1>13 DEF OnInit, FlagsInv, LoaderInv, EntryInv, SetupInv, Drawers
  <2>2. SetupInv'
    BY <1>13 DEF OnInit, FlagsInv, LoaderInv, EntryInv, SetupInv, Drawers
  <2> QED BY <2>1, <2>2
<1>14. ASSUME NEW d \in Drawers, SetInitialized(d) PROVE MenuInv'
  <2>1. FlagsInv' /\ LoaderInv' /\ EntryInv'
    BY <1>14 DEF SetInitialized, AfterSetup, FlagsInv, LoaderInv, EntryInv, SetupInv, Drawers
  <2>2. SetupInv'
    BY <1>14 DEF SetInitialized, AfterSetup, FlagsInv, LoaderInv, EntryInv, SetupInv, Drawers
  <2> QED BY <2>1, <2>2
<1>15. ASSUME NEW d \in Drawers, NothingToDraw(d) PROVE MenuInv'
  <2>1. FlagsInv' /\ LoaderInv' /\ EntryInv'
    BY <1>15 DEF NothingToDraw, FlagsInv, LoaderInv, EntryInv, SetupInv, Drawers
  <2>2. SetupInv'
    BY <1>15 DEF NothingToDraw, FlagsInv, LoaderInv, EntryInv, SetupInv, Drawers
  <2> QED BY <2>1, <2>2
<1>16. ASSUME NEW d \in Drawers, BeginMenu(d) PROVE MenuInv'
  <2>1. FlagsInv' /\ LoaderInv' /\ EntryInv'
    BY <1>16 DEF BeginMenu, FlagsInv, LoaderInv, EntryInv, SetupInv, Drawers
  <2>2. SetupInv'
    BY <1>16 DEF BeginMenu, FlagsInv, LoaderInv, EntryInv, SetupInv, Drawers
  <2> QED BY <2>1, <2>2
<1>17. ASSUME NEW d \in Drawers, RenderMenu(d) PROVE MenuInv'
  <2>1. FlagsInv' /\ LoaderInv' /\ EntryInv'
    BY <1>17 DEF RenderMenu, FlagsInv, LoaderInv, EntryInv, SetupInv, Drawers
  <2>2. SetupInv'
    BY <1>17 DEF RenderMenu, FlagsInv, LoaderInv, EntryInv, SetupInv, Drawers
  <2> QED BY <2>1, <2>2
<1>18. ASSUME NEW d \in Drawers, Press(d) PROVE MenuInv'
  <2>1. FlagsInv' /\ LoaderInv' /\ EntryInv'
    BY <1>18 DEF Press, FlagsInv, LoaderInv, EntryInv, SetupInv, Drawers
  <2>2. SetupInv'
    BY <1>18 DEF Press, FlagsInv, LoaderInv, EntryInv, SetupInv, Drawers
  <2> QED BY <2>1, <2>2
<1>19. ASSUME NEW d \in Drawers, EndMenu(d) PROVE MenuInv'
  <2>1. FlagsInv' /\ LoaderInv' /\ EntryInv'
    BY <1>19 DEF EndMenu, FlagsInv, LoaderInv, EntryInv, SetupInv, Drawers
  <2>2. SetupInv'
    BY <1>19 DEF EndMenu, FlagsInv, LoaderInv, EntryInv, SetupInv, Drawers
  <2> QED BY <2>1, <2>2
<1> QED BY <1>1, <1>2, <1>3, <1>4, <1>5, <1>6, <1>7, <1>8, <1>9, <1>10, <1>11, <1>12, <1>13, <1>14, <1>15, <1>16, <1>17, <1>18, <1>19
  DEF Step, Hack, Host, Setup, Frame

\* Starting a dump keeps DumpInv: its tab was not dumping.
LEMMA StartDumpStep ==
  ASSUME DumpInv, NEW t \in Tabs, NEW j \in Jobs, StartDump(t, j)
  PROVE  DumpInv'
<1> USE DEF DumpInv
<1>1. PICK p \in PathsOf(t) :
        job' = [job EXCEPT ![j] = [at |-> "collect", tab |-> t, path |-> p, next |-> 1, ok |-> FALSE]]
  BY DEF StartDump
<1>2. p \in Paths /\ 1 \in 1..Chunks
  BY DumpAssumption DEF PathsOf
<1>3. DumpTypeOK'
  BY <1>1, <1>2 DEF StartDump, DumpTypeOK, DumpRecords
<1>4. FlagInv'
  BY <1>1, <1>2 DEF StartDump, DumpTypeOK, FlagInv, Running, NoJob, Tabs
<1>5. \A k \in Jobs, q \in Paths : Writes(k, q)' <=> Writes(k, q)
  BY <1>1 DEF DumpTypeOK, StartDump, Writes, NoJob
<1>6. FileInv'
  BY <1>1, <1>5 DEF StartDump, DumpTypeOK, DumpRecords, NoJob, FileInv, Writes, Kept, Written
<1> QED BY <1>3, <1>4, <1>6

\* Before it opens its file a dump has written nothing and claims nothing.
LEMMA BeforeOpenKeepsFiles ==
  ASSUME DumpInv, NEW j \in Jobs, CollectFails(j) \/ Collect(j) \/ OpenFails(j)
  PROVE  FileInv'
<1> USE DEF DumpInv
<1>1. /\ job[j].at \in {"collect", "open"} /\ job[j] # NoJob
      /\ job'[j].at \in {"open", "clear"}
      /\ job'[j].path = job[j].path /\ job'[j].next = job[j].next /\ job'[j].ok = job[j].ok
      /\ \A k \in Jobs \ {j} : job'[k] = job[k]
      /\ UNCHANGED <<file, notifications>>
  BY DEF CollectFails, Collect, OpenFails, DumpTypeOK, DumpRecords, NoJob
<1>2. job[j].next = 1 /\ ~job[j].ok
  <2>1. job[j].ok \in BOOLEAN
    BY <1>1 DEF DumpTypeOK, DumpRecords
  <2> QED BY <1>1, <2>1 DEF FileInv
<1>3. \A k \in Jobs, q \in Paths : Writes(k, q)' <=> Writes(k, q)
  BY <1>1 DEF Writes
<1>4. \A k \in Jobs : Kept(k)' <=> Kept(k)
  BY <1>1 DEF Kept
<1>5. \A q \in Paths : Written(q)' <=> Written(q)
  BY <1>1, <1>3 DEF Written
<1>6. \A k \in Jobs : job[k].at \in {"collect", "open"} => job[k].next = 1
  BY DEF FileInv
<1>7. (\A k \in Jobs : job[k].at \in {"collect", "open"} => job[k].next = 1)'
  BY <1>1, <1>2, <1>6
<1>8. (\A q \in Paths : (\E k \in Jobs : Writes(k, q)) =>
         file[q] = 1..Chunks \/ \E k \in Jobs : Writes(k, q) /\ Kept(k))'
  BY <1>1, <1>3, <1>4 DEF FileInv
<1>9. (\A k \in Jobs : job[k] # NoJob /\ job[k].ok =>
         job[k].at \in {"clear", "notify"} /\ Written(job[k].path))'
  <2>1. SUFFICES ASSUME NEW k \in Jobs, (job[k] # NoJob /\ job[k].ok)'
                 PROVE  (job[k].at \in {"clear", "notify"} /\ Written(job[k].path))'
    OBVIOUS
  <2>2. k # j /\ job'[k] = job[k]
    <3>1. k = j => job'[k].ok = job[j].ok
      BY <1>1
    <3>2. job'[k].ok
      BY <2>1
    <3>3. k # j
      BY <1>2, <3>1, <3>2
    <3> QED BY <1>1, <3>3
  <2>3. PICK q \in Paths : q = job[k].path
    BY <2>1, <2>2 DEF DumpTypeOK, DumpRecords, NoJob
  <2>4. job[k].at \in {"clear", "notify"} /\ Written(q)
    BY <2>1, <2>2, <2>3 DEF FileInv, NoJob
  <2>5. Written(q)'
    BY <1>5, <2>4
  <2> QED BY <2>2, <2>3, <2>4, <2>5 DEF Written, Writes
<1>10. (\A n \in notifications : n.success => Written(n.path))'
  BY <1>1, <1>5 DEF FileInv, DumpTypeOK
<1> QED BY <1>7, <1>8, <1>9, <1>10 DEF FileInv

\* Every step of a dumping thread keeps DumpInv.
LEMMA DumpStep ==
  ASSUME DumpInv, NEW j \in Jobs, Dump(j)
  PROVE  DumpInv'
<1> USE DumpAssumption DEF DumpInv
<1>1. ASSUME CollectFails(j) PROVE DumpInv'
  <2>1. DumpTypeOK'
    BY <1>1 DEF CollectFails, DumpTypeOK, DumpRecords, NoJob
  <2>2. FlagInv'
    BY <1>1 DEF CollectFails, DumpTypeOK, DumpRecords, FlagInv, Running, NoJob
  <2>3. FileInv'
    BY <1>1, BeforeOpenKeepsFiles
  <2> QED BY <2>1, <2>2, <2>3
<1>2. ASSUME Collect(j) PROVE DumpInv'
  <2>1. DumpTypeOK'
    BY <1>2 DEF Collect, DumpTypeOK, DumpRecords, NoJob
  <2>2. FlagInv'
    BY <1>2 DEF Collect, DumpTypeOK, DumpRecords, FlagInv, Running, NoJob
  <2>3. FileInv'
    BY <1>2, BeforeOpenKeepsFiles
  <2> QED BY <2>1, <2>2, <2>3
<1>3. ASSUME OpenFails(j) PROVE DumpInv'
  <2>1. DumpTypeOK'
    BY <1>3 DEF OpenFails, DumpTypeOK, DumpRecords, NoJob
  <2>2. FlagInv'
    BY <1>3 DEF OpenFails, DumpTypeOK, DumpRecords, FlagInv, Running, NoJob
  <2>3. FileInv'
    BY <1>3, BeforeOpenKeepsFiles
  <2> QED BY <2>1, <2>2, <2>3
<1>4. ASSUME Open(j) PROVE DumpInv'
  <2>1. DumpTypeOK'
    BY <1>4 DEF Open, DumpTypeOK, DumpRecords, NoJob
  <2>2. FlagInv'
    BY <1>4 DEF Open, DumpTypeOK, DumpRecords, FlagInv, Running, NoJob
  <2>3. PICK p \in Paths : /\ p = job[j].path
                           /\ job[j] \in DumpRecords /\ job[j].next = 1 /\ ~job[j].ok
    BY <1>4 DEF Open, DumpTypeOK, DumpRecords, NoJob, FileInv
  <2>4. /\ job'[j] = [job[j] EXCEPT !.at = "write"]
        /\ \A k \in Jobs \ {j} : job'[k] = job[k]
        /\ file'[p] = {} /\ \A q \in Paths \ {p} : file'[q] = file[q]
    BY <1>4, <2>3 DEF Open, DumpTypeOK
  <2>5. Writes(j, p)' /\ Kept(j)' /\ Written(p)'
    BY <2>3, <2>4 DEF DumpRecords, Writes, Kept, Written
  <2>6. \A q \in Paths : q # p => /\ \A k \in Jobs : Writes(k, q)' <=> Writes(k, q)
                                  /\ Written(q)' <=> Written(q)
    BY <1>4, <2>3, <2>4 DEF Open, DumpRecords, Writes, Written
  <2>7. \A q \in Paths, k \in Jobs : q # p /\ Writes(k, q)' => (Kept(k)' <=> Kept(k))
    BY <1>4, <2>3, <2>4 DEF DumpRecords, Writes, Kept
  <2>8. ASSUME NEW q \in Paths, \E k \in Jobs : Writes(k, q)'
        PROVE  file'[q] = 1..Chunks \/ \E k \in Jobs : Writes(k, q)' /\ Kept(k)'
    <3>1. CASE q = p
      BY <2>5, <3>1
    <3>2. CASE q # p
      <4>2. PICK k \in Jobs : Writes(k, q)'
        BY <2>8
      <4>3. Writes(k, q)
        BY <2>6, <3>2, <4>2
      <4>4. file[q] = 1..Chunks \/ \E i \in Jobs : Writes(i, q) /\ Kept(i)
        BY <4>3 DEF FileInv
      <4>5. file[q] = 1..Chunks => file'[q] = 1..Chunks
        BY <2>4, <3>2
      <4>6. ASSUME NEW i \in Jobs, Writes(i, q), Kept(i) PROVE Writes(i, q)' /\ Kept(i)'
        BY <2>6, <2>7, <3>2, <4>6
      <4> QED BY <4>4, <4>5, <4>6
    <3> QED BY <3>1, <3>2
  <2>9. FileInv'
    BY <1>4, <2>3, <2>4, <2>5, <2>6, <2>8 DEF Open, DumpTypeOK, DumpRecords, NoJob, FileInv
  <2> QED BY <2>1, <2>2, <2>9
<1>5. ASSUME Write(j) PROVE DumpInv'
  <2>1. PICK p \in Paths, piece \in 1..Chunks :
          p = job[j].path /\ piece = job[j].next /\ job[j] \in DumpRecords /\ ~job[j].ok
    BY <1>5 DEF Write, DumpTypeOK, DumpRecords, NoJob, FileInv
  <2> DEFINE last == ~(piece < Chunks)
  <2>2. /\ job'[j] = [at |-> IF last THEN "clear" ELSE "write", tab |-> job[j].tab, path |-> p,
                      next |-> IF last THEN piece ELSE piece + 1, ok |-> last]
        /\ \A k \in Jobs \ {j} : job'[k] = job[k]
        /\ file'[p] = file[p] \union {piece} /\ \A q \in Paths \ {p} : file'[q] = file[q]
        /\ file' = [file EXCEPT ![p] = @ \union {piece}]
    <3>1. file' = [file EXCEPT ![p] = @ \union {piece}]
      BY <1>5, <2>1 DEF Write
    <3>2. CASE last
      BY <1>5, <2>1, <3>1, <3>2 DEF Write, DumpTypeOK, DumpRecords
    <3>3. CASE piece < Chunks
      <4>1. job'[j] = [job[j] EXCEPT !.next = @ + 1]
        BY <1>5, <2>1, <3>3 DEF Write, DumpTypeOK
      <4>2. \A k \in Jobs \ {j} : job'[k] = job[k]
        BY <1>5 DEF Write, DumpTypeOK
      <4> QED BY <1>5, <2>1, <3>1, <3>3, <4>1, <4>2 DEF Write, DumpTypeOK, DumpRecords
    <3> QED BY <3>2, <3>3
  <2>3. job'[j] \in DumpRecords
    <3>1. CASE last
      BY <2>1, <2>2, <3>1 DEF DumpRecords
    <3>2. CASE ~last
      <4>1. piece + 1 \in 1..Chunks
        BY <2>1, <3>2
      <4> QED BY <2>1, <2>2, <3>2, <4>1 DEF DumpRecords
    <3> QED BY <3>1, <3>2
  <2>4. DumpTypeOK'
    BY <1>5, <2>1, <2>2, <2>3 DEF Write, DumpTypeOK
  <2>5. FlagInv'
    BY <1>5 DEF Write, DumpTypeOK, DumpRecords, FlagInv, Running, NoJob
  <2>6. \A k \in Jobs, q \in Paths : k # j => (Writes(k, q)' <=> Writes(k, q))
    BY <2>2 DEF Writes
  <2>7. \A q \in Paths : file[q] \subseteq file'[q] /\ file'[q] \subseteq 1..Chunks
    BY <2>2, <2>4 DEF DumpTypeOK
  <2>8. ASSUME NEW k \in Jobs, NEW q \in Paths, k # j, Writes(k, q), Kept(k) PROVE Kept(k)'
    BY <2>2, <2>7, <2>8 DEF Writes, Kept
  <2>9. Kept(j) /\ ~last => Writes(j, p)' /\ Kept(j)'
    <3> SUFFICES ASSUME Kept(j), ~last PROVE Writes(j, p)' /\ Kept(j)'
      OBVIOUS
    <3>1. job'[j].next = piece + 1 /\ job'[j].path = p /\ job'[j].at = "write"
      BY <1>5, <2>1, <2>2 DEF Write, DumpRecords
    <3>2. 1..((piece + 1) - 1) \subseteq (1..(piece - 1)) \union {piece}
      BY <2>1
    <3>3. 1..(piece - 1) \subseteq file[p]
      BY <2>1 DEF Kept
    <3>4. 1..(job'[j].next - 1) \subseteq file'[job'[j].path]
      BY <2>2, <3>1, <3>2, <3>3
    <3> QED BY <3>1, <3>4 DEF Kept, Writes
  <2>10. Kept(j) /\ last => file'[p] = 1..Chunks
    <3>1. last => 1..Chunks \subseteq (1..(piece - 1)) \union {piece}
      BY <2>1
    <3> QED BY <2>1, <2>2, <2>7, <3>1 DEF Kept
  <2>11. ASSUME NEW q \in Paths, (\E k \in Jobs : Writes(k, q)) \/ file[q] = 1..Chunks
         PROVE  file'[q] = 1..Chunks \/ \E k \in Jobs : Writes(k, q)' /\ Kept(k)'
    <3>1. CASE file[q] = 1..Chunks
      BY <2>7, <3>1
    <3>2. CASE \E k \in Jobs : Writes(k, q) /\ Kept(k)
      <4>1. PICK k \in Jobs : Writes(k, q) /\ Kept(k)
        BY <3>2
      <4>2. CASE k # j
        BY <2>6, <2>8, <4>1, <4>2
      <4>3. CASE k = j
        <5>1. q = p
          BY <2>1, <4>1, <4>3 DEF Writes
        <5> QED BY <2>9, <2>10, <4>1, <4>3, <5>1
      <4> QED BY <4>2, <4>3
    <3> QED BY <2>11, <3>1, <3>2 DEF FileInv
  <2>12. ASSUME NEW q \in Paths, \E k \in Jobs : Writes(k, q)' PROVE \E k \in Jobs : Writes(k, q)
    <3>1. Writes(j, p)
      BY <1>5, <2>1 DEF Write, Writes
    <3>2. \A r \in Paths : Writes(j, r)' => r = p
      BY <2>1, <2>2 DEF DumpRecords, Writes
    <3> QED BY <2>6, <2>12, <3>1, <3>2
  <2>13. \A q \in Paths : Written(q) => Written(q)'
    BY <2>11 DEF Written
  <2>14. Written(p)'
    BY <1>5, <2>1, <2>11 DEF Write, Writes, Written
  <2>15. job'[j].path = p /\ (job'[j].ok => job'[j].at = "clear") /\ job'[j].at \in {"write", "clear"}
    BY <1>5, <2>1, <2>2 DEF Write, DumpRecords
  <2>16. \A k \in Jobs : job'[k].at \in {"collect", "open"} => job'[k].next = 1
    BY <2>2, <2>15 DEF FileInv
  <2>17. ASSUME NEW k \in Jobs, job'[k] # NoJob, job'[k].ok
         PROVE  job'[k].at \in {"clear", "notify"} /\ Written(job[k].path)'
    <3>1. CASE k = j
      BY <2>14, <2>15, <2>17, <3>1
    <3>2. CASE k # j
      <4>1. job[k] \in DumpRecords
        BY <2>2, <2>17, <3>2 DEF DumpTypeOK
      <4> QED BY <2>2, <2>13, <2>17, <3>2, <4>1 DEF FileInv, DumpRecords
    <3> QED BY <3>1, <3>2
  <2>18. ASSUME NEW n \in notifications', n.success PROVE Written(n.path)'
    BY <1>5, <2>13, <2>18 DEF Write, FileInv, DumpTypeOK
  <2>19. FileInv'
    BY <2>11, <2>12, <2>16, <2>17, <2>18 DEF FileInv
  <2> QED BY <2>4, <2>5, <2>19
<1>6. ASSUME ClearDumping(j) PROVE DumpInv'
  <2>1. DumpTypeOK'
    BY <1>6 DEF ClearDumping, DumpTypeOK, DumpRecords, NoJob
  <2>2. FlagInv'
    BY <1>6 DEF ClearDumping, DumpTypeOK, DumpRecords, FlagInv, Running, NoJob
  <2>3. FileInv'
    BY <1>6 DEF ClearDumping, DumpTypeOK, DumpRecords, NoJob, FileInv, Writes, Kept, Written
  <2> QED BY <2>1, <2>2, <2>3
<1>7. ASSUME AddNotification(j) PROVE DumpInv'
  <2>1. DumpTypeOK'
    BY <1>7 DEF AddNotification, DumpTypeOK, DumpRecords, NoJob
  <2>2. FlagInv'
    BY <1>7 DEF AddNotification, DumpTypeOK, DumpRecords, FlagInv, Running, NoJob
  <2>3. FileInv'
    BY <1>7 DEF AddNotification, DumpTypeOK, DumpRecords, NoJob, FileInv, Writes, Kept, Written
  <2> QED BY <2>1, <2>2, <2>3
<1> QED BY <1>1, <1>2, <1>3, <1>4, <1>5, <1>6, <1>7 DEF Dump

\* The notifications of the next frame are those of this one, aged.
LEMMA DrawStep ==
  ASSUME DumpInv, DrawNotifications, UNCHANGED <<isDumping, job, file>>
  PROVE  DumpInv'
<1> USE DEF DumpInv
<1>1. ASSUME NEW n \in notifications'
      PROVE  /\ n \in [success : BOOLEAN, path : Paths, life : 1..Life]
             /\ \E m \in notifications : n.success = m.success /\ n.path = m.path
  <2>1. PICK m \in notifications : m.life > 1 /\ n = Aged(m)
    BY DEF DrawNotifications
  <2>2. m \in [success : BOOLEAN, path : Paths, life : 1..Life]
    BY DEF DumpTypeOK
  <2>3. m.life - 1 \in 1..Life
    BY <2>1, <2>2, DumpAssumption
  <2> QED BY <2>1, <2>2, <2>3 DEF Aged
<1>2. DumpTypeOK'
  BY <1>1 DEF DumpTypeOK
<1>3. FlagInv'
  BY DEF FlagInv, Running
<1>4. FileInv'
  BY <1>1 DEF FileInv, Written, Writes, Kept
<1> QED BY <1>2, <1>3, <1>4

\* DumpInv is kept by every step of App, whatever the start-up does.
LEMMA DumpInvStep == DumpInv /\ [Next]_vars => DumpInv'
<1> SUFFICES ASSUME DumpInv, [Next]_vars PROVE DumpInv'
  OBVIOUS
<1>1. ASSUME UNCHANGED dumpVars PROVE DumpInv'
  BY <1>1 DEF dumpVars, DumpInv, DumpTypeOK, FlagInv, FileInv, Running, Writes, Kept, Written
<1>2. ASSUME PressDump PROVE DumpInv'
  BY <1>2, StartDumpStep DEF PressDump
<1>3. ASSUME EndFrame PROVE DumpInv'
  BY <1>3, DrawStep DEF EndFrame
<1>4. ASSUME NEW j \in Jobs, Dump(j) PROVE DumpInv'
  BY <1>4, DumpStep
<1> QED BY <1>1, <1>2, <1>3, <1>4 DEF Next, vars

\* MenuInv is kept by every step of App, whatever the dumps do.
LEMMA MenuInvStep == MenuInv /\ [Next]_vars => MenuInv'
<1> SUFFICES ASSUME MenuInv, [Next]_vars PROVE MenuInv'
  OBVIOUS
<1>1. ASSUME UNCHANGED startupVars PROVE MenuInv'
  BY <1>1 DEF startupVars, libs, menu, loader, set, MenuInv, FlagsInv, LoaderInv, EntryInv,
     SetupInv
<1>2. ASSUME PressDump \/ EndFrame \/ Step PROVE MenuInv'
  BY <1>2, MenuStep DEF PressDump, EndFrame
<1> QED BY <1>1, <1>2 DEF Next, vars

LEMMA DumpInvAlways == Spec => []DumpInv
<1>1. AppInit => DumpInv
  BY AppStarts
<1> QED BY <1>1, DumpInvStep, PTL DEF Spec

LEMMA MenuInvAlways == Spec => []MenuInv
<1>1. AppInit => MenuInv
  BY AppStarts
<1>2. MenuInv /\ [Next]_vars => MenuInv'
  BY MenuInvStep
<1> QED BY <1>1, <1>2, PTL DEF Spec

-----------------------------------------------------------------------------
\* Every variable keeps its type.
THEOREM AppTyping == Spec => []TypeOK
<1>1. MenuInv => StartupTypeOK
  BY DEF MenuInv, FlagsInv, SetupInv, StartupTypeOK
<1>2. DumpInv => DumpTypeOK
  BY DEF DumpInv
<1>3. StartupTypeOK /\ DumpTypeOK => TypeOK
  BY DEF TypeOK
<1> QED BY <1>1, <1>2, <1>3, MenuInvAlways, DumpInvAlways, PTL

\* setupMenu (Menu/ImGui.cpp:185) creates a context and runs on_init once in a
\* thread, however often its surface changes, in two threads only if hack_thread woke
\* before a Java host's JNI_OnLoad (Main.cpp:579), and no frame is drawn before
\* on_init has ended in one.
THEOREM SetUpOnce == Spec => []InitOnce
<1>1. MenuInv => InitOnce
  <2> SUFFICES ASSUME MenuInv PROVE InitOnce
    OBVIOUS
  <2>1. ASSUME NEW d \in Drawers PROVE inits[d] <= contexts[d] /\ contexts[d] <= 1
    <3>1. contexts[d] \in {0, 1} /\ inits[d] \in {0, 1}
      BY DEF MenuInv, FlagsInv
    <3>2. contexts[d] = 0 => inits[d] = 0
      BY DEF MenuInv, SetupInv
    <3> QED BY <3>1, <3>2
  <2>2. contexts["game"] + contexts["host"] > 1 => WokeEarly
    BY DEF MenuInv, FlagsInv, EntryInv, LoaderInv, WokeEarly, Drawers
  <2>3. \A d \in Drawers : at[d] \in {"draw", "pressed", "render"} => \E e \in Drawers : inits[e] = 1
    BY DEF MenuInv, SetupInv
  <2> QED BY <2>1, <2>2, <2>3 DEF InitOnce
<1> QED BY <1>1, MenuInvAlways, PTL

\* Render (Menu/ImGui.cpp:241) never clears the game's picture, and clears a Java
\* host's surface unless hack_thread woke early.
THEOREM ClearsOnlyItsOwn == Spec => []ClearsItsOwn
<1>1. MenuInv => ClearsItsOwn
  BY DEF MenuInv, EntryInv, LoaderInv, ClearsItsOwn, WokeEarly, Drawers
<1> QED BY <1>1, MenuInvAlways, PTL

\* isDumping of a tab (Tool/Tool.cpp:516, Tool/ProcessTab.cpp:398) is set
\* exactly while one thread, and one only, is dumping for it.
THEOREM OneDumpPerTabAlways == Spec => []OneDumpPerTab
<1>1. DumpInv => OneDumpPerTab
  <2> SUFFICES ASSUME DumpInv, NEW t \in Tabs
      PROVE  LET mine == {j \in Jobs : Running(j) /\ job[j].tab = t}
             IN  /\ \A j, k \in mine : j = k
                 /\ isDumping[t] <=> mine # {}
    BY DEF OneDumpPerTab
  <2> DEFINE mine == {j \in Jobs : Running(j) /\ job[j].tab = t}
  <2>1. \A j, k \in mine : j = k
    BY DEF DumpInv, FlagInv
  <2>2. isDumping[t] => mine # {}
    BY DEF DumpInv, FlagInv
  <2>3. mine # {} => isDumping[t]
    BY DEF DumpInv, FlagInv
  <2> QED BY <2>1, <2>2, <2>3
<1> QED BY <1>1, DumpInvAlways, PTL

\* While a notification says that a dump was written, its file is whole or is
\* being written again (Tool/Tool.cpp:541): of two dumps of one file, the one
\* that emptied it last writes all of it.
THEOREM WroteMeansCompleteAlways == Spec => []WroteMeansComplete
<1>1. DumpInv => WroteMeansComplete
  BY DEF DumpInv, FileInv, Written, WroteMeansComplete
<1> QED BY <1>1, DumpInvAlways, PTL

=============================================================================
