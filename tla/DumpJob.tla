------------------------------ MODULE DumpJob ------------------------------
(***************************************************************************)
(* dump.cs (Tool/Tool.cpp:502-546, Tool/ProcessTab.cpp:393-425,            *)
(* Il2cpp/Il2cpp.cpp:1223-1331) and the notifications that report it       *)
(* (Tool/Tool.cpp:50-157).                                                 *)
(*                                                                         *)
(* The Dumper tab and the Process tab each start a detached thread that    *)
(* collects the classes image by image, then opens the file, which empties *)
(* it, writes and closes it.  Each tab has an isDumping of its own, and    *)
(* both may name one file.  The text is a sequence of Chunks pieces; two   *)
(* dumps of one game have the same text.  Progress and status texts are    *)
(* left out, and so is the order of the notifications, which is layout:    *)
(* they are a set, in which equal ones are one.                            *)
(***************************************************************************)
EXTENDS Naturals

CONSTANTS Jobs,     \* threads that can be dumping or reporting at once
          Paths,    \* the files the Dumper tab can name
          HomePath, \* the one the Process tab names, the first of dumpPaths
          Chunks,
          Life      \* frames a notification is on the screen

ASSUME DumpAssumption ==
  /\ HomePath \in Paths
  /\ Chunks \in Nat \ {0} /\ Life \in Nat \ {0}

Tabs == {"dumper", "process"}
PathsOf(tab) == IF tab = "process" THEN {HomePath} ELSE Paths

VARIABLES
  isDumping,       \* of each tab
  job,             \* of each thread
  file,            \* the pieces each file has; holes are missing ones
  notifications    \* on the screen

dumpVars == <<isDumping, job, file, notifications>>

NoJob == [at |-> "none"]
Running(j) == job[j].at \in {"collect", "open", "write", "clear"}
Writes(j, path) == job[j].at = "write" /\ job[j].path = path

DumpInit ==
  /\ isDumping = [t \in Tabs |-> FALSE]
  /\ job = [j \in Jobs |-> NoJob]
  /\ file = [p \in Paths |-> {}]
  /\ notifications = {}

\* Faulty variant of StartDump: the flag is left to the thread.
StartDumpUnmarked(t, j) ==
  /\ ~isDumping[t] /\ job[j] = NoJob
  /\ \E p \in PathsOf(t) :
       job' = [job EXCEPT ![j] = [at |-> "collect", tab |-> t, path |-> p, next |-> 1, ok |-> FALSE]]
  /\ UNCHANGED <<isDumping, file, notifications>>

\* The button, which a dumping tab does not offer.
StartDump(t, j) ==
  /\ ~isDumping[t] /\ job[j] = NoJob
  /\ isDumping' = [isDumping EXCEPT ![t] = TRUE]
  /\ \E p \in PathsOf(t) :
       job' = [job EXCEPT ![j] = [at |-> "collect", tab |-> t, path |-> p, next |-> 1, ok |-> FALSE]]
  /\ UNCHANGED <<file, notifications>>

-----------------------------------------------------------------------------
\* Il2cpp::Dump.

\* The early returns: no domain, no assemblies.
CollectFails(j) ==
  /\ job[j].at = "collect"
  /\ job' = [job EXCEPT ![j].at = "clear"]
  /\ UNCHANGED <<isDumping, file, notifications>>

\* The classes, image by image, each with a progress callback.
Collect(j) ==
  /\ job[j].at = "collect"
  /\ job' = [job EXCEPT ![j].at = "open"]
  /\ UNCHANGED <<isDumping, file, notifications>>

OpenFails(j) ==
  /\ job[j].at = "open"
  /\ job' = [job EXCEPT ![j].at = "clear"]
  /\ UNCHANGED <<isDumping, file, notifications>>

\* std::ofstream empties the file, whoever is writing it.
Open(j) ==
  /\ job[j].at = "open"
  /\ file' = [file EXCEPT ![job[j].path] = {}]
  /\ job' = [job EXCEPT ![j].at = "write"]
  /\ UNCHANGED <<isDumping, notifications>>

\* Faulty variant of Write: the last piece is left out.
WriteAllButOne(j) ==
  /\ job[j].at = "write"
  /\ file' = [file EXCEPT ![job[j].path] =
                IF job[j].next < Chunks THEN @ \union {job[j].next} ELSE @]
  /\ job' = IF job[j].next < Chunks THEN [job EXCEPT ![j].next = @ + 1]
            ELSE [job EXCEPT ![j].at = "clear", ![j].ok = TRUE]
  /\ UNCHANGED <<isDumping, notifications>>

\* A stream writes at its own offset: over what another stream has put there,
\* or leaving a hole where another stream has emptied the file.  After the last
\* piece the file is closed, and Dump answers true.
Write(j) ==
  /\ job[j].at = "write"
  /\ file' = [file EXCEPT ![job[j].path] = @ \union {job[j].next}]
  /\ job' = IF job[j].next < Chunks THEN [job EXCEPT ![j].next = @ + 1]
            ELSE [job EXCEPT ![j].at = "clear", ![j].ok = TRUE]
  /\ UNCHANGED <<isDumping, notifications>>

-----------------------------------------------------------------------------
\* The rest of the thread.

\* Faulty variant of ClearDumping: a failed dump returns early.
ClearDumpingOnSuccess(j) ==
  /\ job[j].at = "clear"
  /\ isDumping' = [isDumping EXCEPT ![job[j].tab] = ~job[j].ok]
  /\ job' = [job EXCEPT ![j].at = "notify"]
  /\ UNCHANGED <<file, notifications>>

ClearDumping(j) ==
  /\ job[j].at = "clear"
  /\ isDumping' = [isDumping EXCEPT ![job[j].tab] = FALSE]
  /\ job' = [job EXCEPT ![j].at = "notify"]
  /\ UNCHANGED <<file, notifications>>

AddNotification(j) ==
  /\ job[j].at = "notify"
  /\ notifications' = notifications \union
       {[success |-> job[j].ok, path |-> job[j].path, life |-> Life]}
  /\ job' = [job EXCEPT ![j] = NoJob]
  /\ UNCHANGED <<isDumping, file>>

\* DrawNotifications, once a frame: each one ages, and is erased at its end.
Aged(n) == [n EXCEPT !.life = @ - 1]

DrawNotifications ==
  notifications' = {Aged(n) : n \in {m \in notifications : m.life > 1}}

Dump(j) ==
  \/ CollectFails(j) \/ Collect(j) \/ OpenFails(j) \/ Open(j) \/ Write(j)
  \/ ClearDumping(j) \/ AddNotification(j)

-----------------------------------------------------------------------------
DumpRecords == [at : {"collect", "open", "write", "clear", "notify"}, tab : Tabs,
                path : Paths, next : 1..Chunks, ok : BOOLEAN]

DumpTypeOK ==
  /\ isDumping \in [Tabs -> BOOLEAN]
  /\ job \in [Jobs -> DumpRecords \union {NoJob}]
  /\ file \in [Paths -> SUBSET (1..Chunks)]
  /\ notifications \subseteq [success : BOOLEAN, path : Paths, life : 1..Life]

\* A tab has at most one dump in progress, and shows a dump exactly while it
\* has one: isDumping is set before the thread starts and cleared at its end.
OneDumpPerTab ==
  \A t \in Tabs :
    LET mine == {j \in Jobs : Running(j) /\ job[j].tab = t}
    IN  /\ \A j, k \in mine : j = k
        /\ isDumping[t] <=> mine # {}

\* "Wrote <path>" is true while it is on the screen, although both tabs may
\* write one file: whoever emptied it last has written it from end to end
\* or is still at it.
WroteMeansComplete ==
  \A n \in notifications : n.success =>
    file[n.path] = 1..Chunks \/ \E j \in Jobs : Writes(j, n.path)

\* Whatever fails, the button comes back.
DumpEnds == \A t \in Tabs : isDumping[t] ~> ~isDumping[t]

=============================================================================
