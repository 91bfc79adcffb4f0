------------------------------ MODULE Settings ------------------------------
(***************************************************************************)
(* The two settings in tool_conf.json (Main.cpp:455-537): gConf, what the  *)
(* file holds, and the values in use.  A save empties the file first       *)
(* (FileWriter) and writes all of gConf; writing says which file is empty  *)
(* and waits for its text.                                                 *)
(***************************************************************************)
EXTENDS Integers

CONSTANTS Keys,     \* selectedScale, selectedTheme
          Count,    \* how many choices each has
          Default,
          Stored,   \* values a file may hold, those of other builds too
          Missing,  \* no file
          Broken    \* a file that does not parse: empty, or cut short

ASSUME SettingsAssumption ==
  /\ Stored \subseteq Int
  /\ Count \in [Keys -> Nat \ {0}] /\ Default \in [Keys -> Nat]
  /\ \A k \in Keys : Default[k] < Count[k] /\ 0..(Count[k] - 1) \subseteq Stored

VARIABLES gConf, selected, confFile, writing

Empty   == [k \in {} |-> 0]

\* What a file of this program can hold.
Confs == UNION {[S -> Stored] : S \in SUBSET Keys}

Readable(file) == file \notin {Missing, Broken}

Save(conf) == gConf' = conf /\ confFile' = Broken /\ writing' = "conf"

Write == writing = "conf" /\ confFile' = gConf /\ writing' = "none"

\* Faulty variant of ConfigInit: what parses to nothing is used as it is.
ConfigInitUnchecked ==
  /\ IF confFile = Missing THEN Save(Empty) ELSE gConf' = confFile /\ UNCHANGED <<confFile, writing>>
  /\ UNCHANGED selected

\* ConfigInit of Main.cpp: a missing or broken file becomes "{}".
ConfigInit ==
  /\ IF Readable(confFile) THEN gConf' = confFile /\ UNCHANGED <<confFile, writing>> ELSE Save(Empty)
  /\ UNCHANGED selected

\* Faulty variant of Usable: one too many.
UsableOrNext(k, v) == v \in 0..Count[k]

Usable(k, v) == v \in 0..(Count[k] - 1)

\* ConfigGet, and the check of what it found: a setting that is missing or out
\* of range is set to the default, and saved.
ReadSetting(k) ==
  LET found == k \in DOMAIN gConf
      ok    == found /\ Usable(k, gConf[k])
      v     == IF ok THEN gConf[k] ELSE Default[k]
  IN  /\ selected' = [selected EXCEPT ![k] = v]
      /\ IF ok THEN UNCHANGED <<gConf, confFile, writing>>
               ELSE Save([j \in DOMAIN gConf \union {k} |-> IF j = k THEN v ELSE gConf[j]])

\* The Scale combo of the Settings tab; the theme has none.
ChangeSetting(k, v) ==
  /\ v \in 0..(Count[k] - 1) /\ v # selected[k]
  /\ selected' = [selected EXCEPT ![k] = v]
  /\ Save([gConf EXCEPT ![k] = v])

=============================================================================
