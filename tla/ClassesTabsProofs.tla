-------------------------- MODULE ClassesTabsProofs --------------------------
(***************************************************************************)
(* Proofs about ClassesTabs, for any number of tabs and crashes, any texts *)
(* and settings.                                                           *)
(*                                                                         *)
(* ShapeInv adds to TypeOK how far the process has started, FilesInv says  *)
(* which file may differ from the memory while the other is written,       *)
(* BeforeInv where the tabs of an ended process are until they are shown   *)
(* again, and HolderInv what becomes of the address a keyboard holds:      *)
(* tabs move to the left only, so that one that went astray stays astray.  *)
(***************************************************************************)
EXTENDS ClassesTabs, SequenceTheorems, FiniteSetTheorems, TLAPS

TabShape ==
  /\ tabs \in Seq(TabRecords) /\ Len(tabs) <= MaxTabs
  /\ capacity \in Nat /\ Len(tabs) <= capacity /\ block \in 0..MaxTabs
  /\ tabsFile \in {Missing, Broken} \union SavedLists
  /\ before \in {Lost} \union SavedLists

KeyboardShape ==
  /\ lastCallback \in Refs \union {NoCallback, Member}
  /\ lastText \in Texts /\ typed \in Texts /\ member \in Texts
  /\ openedKeyboard \in BOOLEAN /\ callbackOnDoneOnly \in BOOLEAN
  /\ status \in {"Visible", "Done", "Canceled", "Unanswered"}

SettingShape ==
  /\ gConf \in Confs /\ selected \in [Keys -> Nat]
  /\ confFile \in {Missing, Broken} \union Confs
  /\ writing \in {"none", "conf", "tabs"}

\* The vector is large enough once it is filled, and nothing holds a tab before.
PhaseInv ==
  /\ phase \in {"off", "conf", "settings", "fill", "ready"}
  /\ phase = "ready" => capacity >= Reserved /\ block < capacity
  /\ phase # "ready" => block = 0 /\ lastCallback = NoCallback /\ ~openedKeyboard

ShapeInv == TabShape /\ KeyboardShape /\ SettingShape /\ PhaseInv

FilesInv ==
  /\ \A k \in Keys : selected[k] < Count[k]
  /\ phase \in {"settings", "fill", "ready"} /\ writing # "conf" => confFile = gConf
  /\ phase \in {"fill", "ready"} => \A k \in Keys : Settled(k)
  /\ phase = "ready" /\ writing # "tabs" => tabsFile = Saved(tabs)

\* Which callbacks wait for Done.
AskedAsOpened ==
  /\ IsTab(lastCallback) => ~callbackOnDoneOnly
  /\ lastCallback = Member => callbackOnDoneOnly

\* A tab is never found right of where its address was taken, nor the vector at a
\* place it left.
OnlyLeft == IsTab(lastCallback) =>
  /\ lastCallback.block <= block
  /\ \A j \in DOMAIN tabs : tabs[j].id = lastCallback.id => j <= lastCallback.slot
UniqueIds == \A i, j \in DOMAIN tabs : tabs[i].id = tabs[j].id => i = j

HolderInv == UniqueIds /\ OnlyLeft /\ AskedAsOpened /\ LiveFieldFollows

\* Where the tabs an ended process showed are.
BeforeInv ==
  /\ before # Lost => before # << >>
  /\ before # Lost /\ phase # "ready" => tabsFile = before
  /\ before # Lost /\ phase = "fill" => tabs # << >> /\ Saved(tabs) = before
  /\ phase \in {"off", "conf", "settings"} => writing # "tabs"
  /\ phase = "ready" => tabs # << >>

-----------------------------------------------------------------------------
LEMMA TabFacts ==
  ASSUME TabShape
  PROVE  /\ Len(tabs) \in Nat /\ DOMAIN tabs = 1..Len(tabs)
         /\ \A i \in DOMAIN tabs : /\ tabs[i] \in TabRecords
                                   /\ tabs[i].id \in TabIds /\ tabs[i].filter \in Texts
<1>1. Len(tabs) \in Nat /\ DOMAIN tabs = 1..Len(tabs) /\ \A i \in DOMAIN tabs : tabs[i] \in TabRecords
  BY DEF TabShape
<1> QED BY <1>1 DEF TabRecords

\* An address that is taken leads to a tab.
LEMMA ThisIsRef ==
  ASSUME TabShape, NEW i \in DOMAIN tabs
  PROVE  /\ This(i) \in Refs
         /\ IsTab(This(i)) /\ This(i).slot = i /\ This(i).block = block
         /\ This(i).id = tabs[i].id
<1>1. /\ i \in 1..MaxTabs /\ block \in 0..MaxTabs /\ tabs[i].id \in TabIds
  BY TabFacts, TabsAssumption DEF TabShape
<1>2. This(i) \in Refs
  BY <1>1 DEF This, Refs
<1> QED BY <1>2, CallbacksAssumption DEF This, IsTab

\* What is written of a list of tabs is a list that can be read.
LEMMA SavedIsList ==
  ASSUME NEW ts \in Seq(TabRecords), Len(ts) <= MaxTabs
  PROVE  Saved(ts) \in SavedLists
<1>1. Len(ts) \in 0..MaxTabs /\ DOMAIN ts = 1..Len(ts)
  BY TabsAssumption
<1>2. ASSUME NEW i \in DOMAIN ts PROVE ts[i].filter \in Texts
  <2>1. ts[i] \in TabRecords
    BY <1>1
  <2> QED BY <2>1 DEF TabRecords
<1>3. Saved(ts) \in [1..Len(ts) -> Texts]
  BY <1>1, <1>2 DEF Saved
<1> QED BY <1>1, <1>3 DEF SavedLists

\* There is always an id for a tab more.
LEMMA NewIdExists ==
  ASSUME TabShape, Len(tabs) <= MaxTabs
  PROVE  /\ NewId \in TabIds
         /\ \A i \in DOMAIN tabs : tabs[i].id # NewId
         /\ IsTab(lastCallback) => lastCallback.id # NewId
<1> DEFINE ofTabs == {tabs[i].id : i \in DOMAIN tabs}
           all    == ofTabs \cup {lastCallback.id}
<1>0. MaxTabs \in Nat /\ Len(tabs) \in Nat /\ DOMAIN tabs = 1..Len(tabs)
  BY TabFacts, TabsAssumption
<1>1. IsFiniteSet(ofTabs) /\ Cardinality(ofTabs) <= Len(tabs)
  <2> DEFINE f == [i \in 1..Len(tabs) |-> tabs[i].id]
  <2>1. f \in Surjection(1..Len(tabs), ofTabs)
    BY <1>0 DEF Surjection
  <2> HIDE DEF f, ofTabs
  <2>2. IsFiniteSet(1..Len(tabs)) /\ Cardinality(1..Len(tabs)) = Len(tabs)
    <3>1. PICK n \in Nat : n = Len(tabs)
      BY <1>0
    <3>2. IsFiniteSet(1..n) /\ Cardinality(1..n) = IF 1 > n THEN 0 ELSE n - 1 + 1
      BY FS_Interval
    <3> QED BY <3>1, <3>2
  <2> QED BY <2>1, <2>2, FS_Surjection
<1>2. IsFiniteSet(all) /\ Cardinality(all) <= Len(tabs) + 1
  <2> HIDE DEF ofTabs
  <2>1. Cardinality(ofTabs) \in Nat
    BY <1>1, FS_CardinalityType
  <2>2. /\ IsFiniteSet(all)
        /\ Cardinality(all) \in {Cardinality(ofTabs), Cardinality(ofTabs) + 1}
    BY <1>1, FS_AddElement
  <2> HIDE DEF all
  <2> QED BY <1>0, <1>1, <2>1, <2>2
<1>3. IsFiniteSet(TabIds) /\ Cardinality(TabIds) = MaxTabs + 2
  BY <1>0, FS_Interval DEF TabIds
<1>4. \E id \in TabIds : id \notin all
  <2> SUFFICES ASSUME TabIds \subseteq all
               PROVE  FALSE
    OBVIOUS
  <2> HIDE DEF all
  <2>1. Cardinality(TabIds) <= Cardinality(all)
    BY <1>2, FS_Subset
  <2>2. Cardinality(all) \in Nat
    BY <1>2, FS_CardinalityType
  <2> QED BY <1>0, <1>2, <1>3, <2>1, <2>2
<1>5. \E id \in TabIds : /\ \A i \in DOMAIN tabs : tabs[i].id # id
                         /\ IsTab(lastCallback) => lastCallback.id # id
  BY <1>4
<1> QED BY <1>5 DEF NewId

\* A tab more, and none of the others changes.
LEMMA AppendedTabs ==
  ASSUME TabShape, NEW ts \in Seq(TabRecords), NEW filter \in Texts
  PROVE  /\ Appended(ts, filter) \in Seq(TabRecords)
         /\ Len(Appended(ts, filter)) = Len(ts) + 1
         /\ \A i \in 1..Len(ts) : Appended(ts, filter)[i] = ts[i]
         /\ Appended(ts, filter)[Len(ts) + 1].id = NewId
<1> DEFINE new == [id |-> NewId, filter |-> filter]
<1>1. new \in TabRecords
  BY NewIdExists DEF TabRecords, TabShape
<1> HIDE DEF new
<1>2. /\ Append(ts, new) \in Seq(TabRecords)
      /\ Len(Append(ts, new)) = Len(ts) + 1
      /\ \A i \in 1..Len(ts) : Append(ts, new)[i] = ts[i]
      /\ Append(ts, new)[Len(ts) + 1] = new
  BY <1>1, AppendProperties
<1>3. new.id = NewId
  BY DEF new
<1> QED BY <1>2, <1>3 DEF Appended, new

\* A tab less, or the only one replaced: the tabs to the right move down by one.
LEMMA ErasedTabs ==
  ASSUME TabShape, NEW i \in DOMAIN tabs
  PROVE  /\ Erased(i) \in Seq(TabRecords)
         /\ Len(Erased(i)) \in Nat \ {0} /\ Len(Erased(i)) <= Len(tabs)
         /\ \/ Len(Erased(i)) = 1 /\ Erased(i)[1].id = NewId
            \/ /\ Len(Erased(i)) = Len(tabs) - 1
               /\ \A j \in 1..(Len(tabs) - 1) : Erased(i)[j] = IF j < i THEN tabs[j] ELSE tabs[j + 1]
<1>0. Len(tabs) \in Nat \ {0} /\ i \in 1..Len(tabs) /\ \A j \in 1..Len(tabs) : tabs[j] \in TabRecords
  BY TabFacts
<1>1. CASE Len(tabs) = 1
  <2>1. << >> \in Seq(TabRecords) /\ Len(<< >>) = 0
    OBVIOUS
  <2>2. PICK none \in Seq(TabRecords) : none = << >>
    BY <2>1, Zenon
  <2>3. /\ Appended(none, Fresh) \in Seq(TabRecords)
        /\ Len(Appended(none, Fresh)) = Len(none) + 1
        /\ Appended(none, Fresh)[Len(none) + 1].id = NewId
    BY AppendedTabs, TabsAssumption, Zenon
  <2>4. Erased(i) = Appended(none, Fresh)
    BY <1>1, <2>2 DEF Erased
  <2>5. Len(none) + 1 = 1
    BY <2>1, <2>2
  <2>6. Erased(i) \in Seq(TabRecords) /\ Len(Erased(i)) = 1 /\ Erased(i)[1].id = NewId
    BY <2>3, <2>4, <2>5, Zenon
  <2> QED BY <1>1, <2>6
<1>2. CASE Len(tabs) # 1
  <2> DEFINE low  == SubSeq(tabs, 1, i - 1)
             high == SubSeq(tabs, i + 1, Len(tabs))
  <2>1. /\ low \in Seq(TabRecords) /\ Len(low) = i - 1
        /\ \A j \in 1..(i - 1) : low[j] = tabs[j]
    <3>1. \A j \in 1..(i - 1) : tabs[j] \in TabRecords
      BY <1>0
    <3>2. /\ low \in Seq(TabRecords)
          /\ Len(low) = IF 1 <= i - 1 THEN (i - 1) - 1 + 1 ELSE 0
          /\ \A j \in 1..((i - 1) - 1 + 1) : low[j] = tabs[1 + j - 1]
      BY <1>0, <3>1, SubSeqProperties
    <3> HIDE DEF low
    <3> QED BY <1>0, <3>2
  <2>2. /\ high \in Seq(TabRecords) /\ Len(high) = Len(tabs) - i
        /\ \A j \in 1..(Len(tabs) - i) : high[j] = tabs[i + j]
    <3>1. \A j \in (i + 1)..Len(tabs) : tabs[j] \in TabRecords
      BY <1>0
    <3>2. /\ high \in Seq(TabRecords)
          /\ Len(high) = IF i + 1 <= Len(tabs) THEN Len(tabs) - (i + 1) + 1 ELSE 0
          /\ \A j \in 1..(Len(tabs) - (i + 1) + 1) : high[j] = tabs[(i + 1) + j - 1]
      BY <1>0, <3>1, SubSeqProperties
    <3> HIDE DEF high
    <3>3. ASSUME NEW j \in 1..(Len(tabs) - i) PROVE high[j] = tabs[i + j]
      <4>1. j \in 1..(Len(tabs) - (i + 1) + 1) /\ (i + 1) + j - 1 = i + j
        BY <1>0
      <4> QED BY <3>2, <4>1
    <3> QED BY <1>0, <3>2, <3>3
  <2>3. Erased(i) = low \o high
    BY <1>2 DEF Erased, RemoveAt
  <2> HIDE DEF low, high
  <2> DEFINE all == low \o high
  <2>4. /\ all \in Seq(TabRecords) /\ Len(all) = Len(low) + Len(high)
        /\ \A j \in 1..(Len(low) + Len(high)) :
             all[j] = IF j <= Len(low) THEN low[j] ELSE high[j - Len(low)]
    BY <2>1, <2>2, ConcatProperties
  <2> HIDE DEF all
  <2>5. Len(all) = Len(tabs) - 1 /\ DOMAIN all = 1..(Len(tabs) - 1)
    BY <1>0, <2>1, <2>2, <2>4
  <2>6. ASSUME NEW j \in 1..(Len(tabs) - 1)
        PROVE  all[j] = IF j < i THEN tabs[j] ELSE tabs[j + 1]
    <3>1. CASE j < i
      <4>1. j \in 1..(Len(low) + Len(high)) /\ j <= Len(low) /\ j \in 1..(i - 1)
        BY <1>0, <2>1, <2>2, <3>1
      <4>2. all[j] = low[j]
        BY <2>4, <4>1
      <4> QED BY <2>1, <3>1, <4>1, <4>2
    <3>2. CASE ~(j < i)
      <4>1. j - Len(low) \in 1..(Len(tabs) - i) /\ i + (j - Len(low)) = j + 1
        BY <1>0, <2>1, <3>2
      <4>2. all[j] = high[j - Len(low)]
        <5>1. j \in 1..(Len(low) + Len(high)) /\ ~(j <= Len(low))
          BY <1>0, <2>1, <2>2, <3>2
        <5> QED BY <2>4, <5>1
      <4> QED BY <2>2, <3>2, <4>1, <4>2
    <3> QED BY <3>1, <3>2
  <2>7. Len(tabs) - 1 \in Nat \ {0}
    BY <1>0, <1>2
  <2> QED BY <1>0, <2>3, <2>4, <2>5, <2>6, <2>7 DEF all
<1> QED BY <1>1, <1>2

\* The callback of a filter changes no tab but the one its address leads to.
Delivered2(text) == [i \in DOMAIN tabs |->
                       IF lastCallback.block = block /\ lastCallback.slot = i
                       THEN [tabs[i] EXCEPT !.filter = text] ELSE tabs[i]]

LEMMA DeliveredTabs ==
  ASSUME TabShape, NEW text \in Texts
  PROVE  /\ Delivered2(text) \in Seq(TabRecords)
         /\ Len(Delivered2(text)) = Len(tabs)
         /\ \A i \in DOMAIN tabs :
              /\ Delivered2(text)[i].id = tabs[i].id
              /\ lastCallback.block = block /\ lastCallback.slot = i
                   => Delivered2(text)[i].filter = text
              /\ lastCallback.slot # i => Delivered2(text)[i] = tabs[i]
<1>1. ASSUME NEW i \in DOMAIN tabs
      PROVE  /\ [tabs[i] EXCEPT !.filter = text] \in TabRecords
             /\ [tabs[i] EXCEPT !.filter = text].id = tabs[i].id
             /\ [tabs[i] EXCEPT !.filter = text].filter = text
  BY TabFacts DEF TabRecords
<1>2. \A i \in DOMAIN tabs : Delivered2(text)[i] \in TabRecords
  BY <1>1, TabFacts DEF Delivered2
<1>3. DOMAIN tabs = 1..Len(tabs) /\ Len(tabs) \in Nat
  BY TabFacts
<1>4. Delivered2(text) \in [1..Len(tabs) -> TabRecords]
  BY <1>2, <1>3 DEF Delivered2
<1>5. Delivered2(text) \in Seq(TabRecords) /\ Len(Delivered2(text)) = Len(tabs)
  BY <1>3, <1>4
<1> QED BY <1>1, <1>5 DEF Delivered2

-----------------------------------------------------------------------------
\* The keyboard's variables keep their types.
LEMMA KeyboardStep ==
  ASSUME TabShape, KeyboardShape, [Next]_vars
  PROVE  KeyboardShape'
<1>f. Fresh \in Texts /\ {TRUE, FALSE} \subseteq BOOLEAN
  BY TabsAssumption
<1>1. CASE UNCHANGED <<keyboardVars, member>>
  BY <1>1 DEF KeyboardShape, keyboardVars
<1>2. ASSUME NEW text \in Texts, NEW callback \in Refs \union {NoCallback, Member},
             NEW onDoneOnly \in BOOLEAN, Open(text, callback, onDoneOnly), UNCHANGED member
      PROVE  KeyboardShape'
  BY <1>2 DEF Open, KeyboardShape
<1>3. ASSUME NEW answer \in {"Done", "Canceled", "Unanswered"}, Reset(Fresh, answer),
             member' \in Texts
      PROVE  KeyboardShape'
  BY <1>f, <1>3 DEF Reset, KeyboardShape
<1>4. ASSUME NEW i \in DOMAIN tabs, OpenFilter(i)
      PROVE  KeyboardShape'
  <2>1. tabs[i].filter \in Texts /\ This(i) \in Refs
    BY TabFacts, ThisIsRef
  <2> QED BY <1>2, <1>4, <2>1 DEF OpenFilter
<1>5. CASE OpenMember
  BY <1>2, <1>5 DEF OpenMember, KeyboardShape
<1>6. ASSUME NEW text \in Texts, OpenLink(text)
      PROVE  KeyboardShape'
  BY <1>2, <1>6 DEF OpenLink
<1>7. CASE User
  BY <1>7 DEF User, Type, Leave, KeyboardShape
<1>8. CASE UpdateKeyboard
  <2>1. member' \in Texts
    BY <1>8 DEF UpdateKeyboard, Deliver, KeyboardShape
  <2>2. CASE status = "Visible"
    <3>1. TakeText
      BY <1>8, <2>2 DEF UpdateKeyboard, Update
    <3> QED BY <2>1, <3>1 DEF TakeText, KeyboardShape
  <2>3. CASE status # "Visible"
    BY <1>3, <1>8, <2>1, <2>3 DEF UpdateKeyboard, Update, KeyboardShape
  <2> QED BY <2>2, <2>3
<1>9. CASE LoseKeyboard
  BY <1>3, <1>9 DEF LoseKeyboard, UpdateUnanswered, KeyboardShape
<1>10. CASE Crash
  BY <1>f, <1>3, <1>10 DEF Crash
<1>11. CASE \/ OnInit \/ Writes \/ \E text \in Texts : NewTab(text)
            \/ \E i \in DOMAIN tabs : CloseTab(i)
            \/ SetScale \/ UNCHANGED vars
  BY <1>1, <1>11 DEF OnInit, Start, ReadConf, ReadSettings, LoadTabs, FillTabs, Writes,
     WriteConf, WriteTabs, NewTab, CloseTab, SetScale, vars
<1> QED BY <1>4, <1>5, <1>6, <1>7, <1>8, <1>9, <1>10, <1>11 DEF Next

-----------------------------------------------------------------------------
\* What the program may put under a key is what a file may hold.
LEMMA ConfWith ==
  ASSUME NEW conf \in Confs, NEW k \in Keys, NEW v \in Stored
  PROVE  /\ [j \in DOMAIN conf \union {k} |-> IF j = k THEN v ELSE conf[j]] \in Confs
         /\ [conf EXCEPT ![k] = v] \in Confs
<1>1. PICK S \in SUBSET Keys : conf \in [S -> Stored]
  BY DEF Confs
<1>2. [j \in S \union {k} |-> IF j = k THEN v ELSE conf[j]] \in [(S \union {k}) -> Stored]
  BY <1>1
<1>3. S \union {k} \in SUBSET Keys /\ DOMAIN conf = S
  BY <1>1
<1>4. [conf EXCEPT ![k] = v] \in [S -> Stored]
  BY <1>1
<1> QED BY <1>2, <1>3, <1>4 DEF Confs

\* Which steps are about the settings: they read the file, or save.
SettingStep == \/ ReadConf \/ ReadSettings \/ WriteConf \/ SetScale \/ Crash

\* The others leave them, and may begin or end writing the list of tabs.
LEMMA OtherSteps ==
  ASSUME [Next]_vars, ~SettingStep
  PROVE  /\ UNCHANGED <<gConf, selected, confFile>>
         /\ writing' = writing \/ (writing = "none" /\ writing' = "tabs")
                               \/ (writing = "tabs" /\ writing' = "none")
<1>1. CASE UNCHANGED vars
  BY <1>1 DEF vars, settingVars
<1>2. CASE OnInit \/ Writes
  BY <1>2 DEF SettingStep, OnInit, Start, LoadTabs, FillTabs, Writes, WriteTabs, ConfigSave,
     settingVars
<1>3. CASE \E text \in Texts : NewTab(text) \/ OpenLink(text)
  BY <1>3 DEF NewTab, OpenLink, Ready, ConfigSave, settingVars
<1>4. CASE \E i \in DOMAIN tabs : OpenFilter(i) \/ CloseTab(i)
  BY <1>4 DEF OpenFilter, CloseTab, Ready, ConfigSave, settingVars
<1>5. CASE OpenMember \/ User \/ LoseKeyboard
  BY <1>5 DEF OpenMember, User, LoseKeyboard, settingVars
<1>6. CASE UpdateKeyboard
  BY <1>6 DEF UpdateKeyboard, Deliver, Ready, ConfigSave, settingVars
<1> QED BY <1>1, <1>2, <1>3, <1>4, <1>5, <1>6 DEF Next, SettingStep

LEMMA SettingShapeStep ==
  ASSUME SettingShape, [Next]_vars
  PROVE  SettingShape'
<1>0. /\ Empty \in Confs
      /\ \A k \in Keys : /\ Count[k] \in Nat /\ Default[k] \in Nat
                         /\ 0..(Count[k] - 1) \subseteq Stored
                         /\ Default[k] \in 0..(Count[k] - 1)
  <2>1. Empty \in [{} -> Stored]
    BY DEF Empty
  <2>2. Empty \in Confs
    BY <2>1, {} \in SUBSET Keys DEF Confs
  <2>3. ASSUME NEW k \in Keys
        PROVE  /\ Count[k] \in Nat /\ Default[k] \in Nat
               /\ 0..(Count[k] - 1) \subseteq Stored
               /\ Default[k] \in 0..(Count[k] - 1)
    BY SettingsAssumption
  <2> QED BY <2>2, <2>3
<1>1. ASSUME NEW conf \in Confs, Save(conf), selected' \in [Keys -> Nat]
      PROVE  SettingShape'
  BY <1>1 DEF Save, SettingShape
<1>2. CASE ReadConf
  <2>1. CASE Readable(confFile)
    <3>1. confFile \in Confs
      BY <2>1 DEF Readable, SettingShape
    <3> QED BY <1>2, <2>1, <3>1 DEF ReadConf, ConfigInit, SettingShape
  <2>2. CASE ~Readable(confFile)
    BY <1>0, <1>1, <1>2, <2>2 DEF ReadConf, ConfigInit, SettingShape
  <2> QED BY <2>1, <2>2
<1>3. CASE ReadSettings
  <2>1. PICK k \in Keys : ReadSetting(k)
    BY <1>3 DEF ReadSettings
  <2> DEFINE ok == k \in DOMAIN gConf /\ Usable(k, gConf[k])
             v  == IF ok THEN gConf[k] ELSE Default[k]
             conf == [j \in DOMAIN gConf \union {k} |-> IF j = k THEN v ELSE gConf[j]]
  <2>2. /\ selected' = [selected EXCEPT ![k] = v]
        /\ IF ok THEN UNCHANGED <<gConf, confFile, writing>> ELSE Save(conf)
    BY <2>1 DEF ReadSetting
  <2>3. v \in 0..(Count[k] - 1)
    BY <1>0 DEF Usable
  <2> HIDE DEF v
  <2>4. v \in Nat /\ v \in Stored
    BY <1>0, <2>3
  <2>5. selected' \in [Keys -> Nat]
    BY <2>2, <2>4 DEF SettingShape
  <2>6. CASE ok
    BY <2>2, <2>5, <2>6 DEF SettingShape
  <2>7. CASE ~ok
    <3>1. conf \in Confs
      BY <2>4, ConfWith DEF SettingShape
    <3> QED BY <1>1, <2>2, <2>5, <2>7, <3>1
  <2> QED BY <2>6, <2>7
<1>4. CASE WriteConf
  BY <1>4 DEF WriteConf, Write, SettingShape
<1>5. CASE SetScale
  <2>1. PICK v \in 0..(Count[Scale] - 1) : ChangeSetting(Scale, v)
    BY <1>5 DEF SetScale
  <2>2. v \in Nat /\ v \in Stored /\ Scale \in Keys
    BY <1>0, TabsAssumption
  <2>3. [gConf EXCEPT ![Scale] = v] \in Confs
    BY <2>2, ConfWith DEF SettingShape
  <2>4. selected' \in [Keys -> Nat]
    BY <2>1, <2>2 DEF ChangeSetting, SettingShape
  <2> QED BY <1>1, <2>1, <2>3, <2>4 DEF ChangeSetting
<1>6. CASE Crash
  <2>1. Default \in [Keys -> Nat]
    BY SettingsAssumption
  <2> QED BY <1>0, <1>6, <2>1 DEF Crash, SettingShape
<1>7. CASE ~SettingStep
  BY <1>7, OtherSteps DEF SettingShape
<1> QED BY <1>2, <1>3, <1>4, <1>5, <1>6, <1>7 DEF SettingStep

-----------------------------------------------------------------------------
\* The vector never holds more than it has room for, and has moved less often than it
\* has places.
LEMMA GrowKeepsRoom ==
  ASSUME TabShape, Len(tabs) < MaxTabs, capacity \in Nat \ {0}, block < capacity, Grow
  PROVE  /\ capacity' \in Nat /\ capacity <= capacity' /\ block' < capacity'
         /\ Len(tabs) + 1 <= capacity' /\ block' \in 0..MaxTabs
<1>0. /\ Len(tabs) \in Nat /\ MaxTabs \in Nat /\ block \in 0..MaxTabs
      /\ Len(tabs) <= capacity
  BY TabFacts, TabsAssumption DEF TabShape
<1>1. CASE Len(tabs) < capacity
  BY <1>0, <1>1 DEF Grow
<1>2. CASE ~(Len(tabs) < capacity)
  <2>1. capacity' = 2 * capacity /\ block' = block + 1 /\ capacity = Len(tabs)
    BY <1>0, <1>2 DEF Grow
  <2> QED BY <1>0, <2>1
<1> QED BY <1>1, <1>2

TabVarsStay == UNCHANGED <<tabs, capacity, block>>
FileShape   == tabsFile \in {Missing, Broken} \union SavedLists

\* What the steps that leave the tabs alone do to their file.
LEMMA FileShapeStep ==
  ASSUME TabShape, [Next]_vars
  PROVE  FileShape'
<1>1. CASE UNCHANGED tabsFile
  BY <1>1 DEF FileShape, TabShape
<1>2. CASE ConfigSave
  BY <1>2 DEF ConfigSave, FileShape
<1>3. CASE WriteTabs
  <2>1. Saved(tabs) \in SavedLists
    BY SavedIsList DEF TabShape
  <2> QED BY <1>3, <2>1 DEF WriteTabs, FileShape
<1>4. UNCHANGED tabsFile \/ ConfigSave \/ WriteTabs
  <2>1. CASE UNCHANGED vars
    BY <2>1 DEF vars
  <2>2. CASE OnInit \/ Writes
    BY <2>2 DEF OnInit, Start, ReadConf, ReadSettings, LoadTabs, FillTabs, Writes, WriteConf
  <2>3. CASE \E text \in Texts : NewTab(text) \/ OpenLink(text)
    BY <2>3 DEF NewTab, OpenLink
  <2>4. CASE \E i \in DOMAIN tabs : OpenFilter(i) \/ CloseTab(i)
    BY <2>4 DEF OpenFilter, CloseTab
  <2>5. CASE OpenMember \/ User \/ LoseKeyboard \/ SetScale \/ Crash
    BY <2>5 DEF OpenMember, User, LoseKeyboard, SetScale, Crash
  <2>6. CASE UpdateKeyboard
    BY <2>6 DEF UpdateKeyboard, Deliver
  <2> QED BY <2>1, <2>2, <2>3, <2>4, <2>5, <2>6 DEF Next
<1> QED BY <1>1, <1>2, <1>3, <1>4

\* Only the end of a process and the end of on_init touch the history.
LEMMA BeforeChange ==
  ASSUME [Next]_vars, ~Crash, ~FillTabs
  PROVE  UNCHANGED before
  BY DEF Next, OnInit, Start, ReadConf, ReadSettings, LoadTabs, Writes, WriteConf, WriteTabs,
     NewTab, OpenLink, OpenFilter, CloseTab, OpenMember, User, UpdateKeyboard, LoseKeyboard,
     SetScale, vars

LEMMA BeforeStep ==
  ASSUME TabShape, [Next]_vars
  PROVE  before' \in {Lost} \union SavedLists
<1>1. Saved(tabs) \in SavedLists
  BY SavedIsList DEF TabShape
<1> QED BY <1>1, BeforeChange DEF Crash, FillTabs, TabShape

\* An update of the keyboard delivers its text to one tab, or changes none.
LEMMA UpdateTabs ==
  ASSUME UpdateKeyboard
  PROVE  /\ UNCHANGED <<capacity, block>>
         /\ UNCHANGED tabs \/ (Calls /\ IsTab(lastCallback) /\ tabs' = Delivered2(typed))
  BY DEF UpdateKeyboard, Deliver, Delivered2

\* The tabs, the vector and who holds a tab, from one phase to the next.
LEMMA TabStep ==
  ASSUME ShapeInv, [Next]_vars
  PROVE  /\ tabs' \in Seq(TabRecords) /\ Len(tabs') <= MaxTabs
         /\ capacity' \in Nat /\ Len(tabs') <= capacity' /\ block' \in 0..MaxTabs
<1> DEFINE Goal == /\ tabs' \in Seq(TabRecords) /\ Len(tabs') <= MaxTabs
                   /\ capacity' \in Nat /\ Len(tabs') <= capacity' /\ block' \in 0..MaxTabs
          <1>0. /\ tabs \in Seq(TabRecords) /\ Len(tabs) \in Nat /\ Len(tabs) <= MaxTabs
      /\ capacity \in Nat /\ Len(tabs) <= capacity
      /\ block \in 0..MaxTabs
      /\ MaxTabs \in Nat \ {0} /\ Reserved \in Nat \ {0}
  BY TabFacts, TabsAssumption DEF ShapeInv, TabShape
<1>1. CASE TabVarsStay
  BY <1>0, <1>1 DEF TabVarsStay
<1>2. CASE LoadTabs
  <2>1. CASE Readable(tabsFile)
    <3>1. PICK n \in 0..MaxTabs : tabsFile \in [1..n -> Texts]
      BY <2>1 DEF Readable, ShapeInv, TabShape, SavedLists
    <3>2. /\ tabs' = [i \in 1..n |-> [id |-> i, filter |-> tabsFile[i]]]
          /\ capacity' = Len(tabsFile) /\ UNCHANGED block
      BY <1>2, <2>1, <3>1 DEF LoadTabs
    <3>3. Len(tabsFile) = n
      BY <3>1
    <3>4. ASSUME NEW i \in 1..n PROVE [id |-> i, filter |-> tabsFile[i]] \in TabRecords
      BY <1>0, <3>1 DEF TabRecords, TabIds
    <3>5. tabs' \in [1..n -> TabRecords]
      BY <3>2, <3>4
    <3>6. tabs' \in Seq(TabRecords) /\ Len(tabs') = n
      BY <3>5
    <3> QED BY <1>0, <3>2, <3>3, <3>6
  <2>2. CASE ~Readable(tabsFile)
    BY <1>1, <1>2, <2>2 DEF LoadTabs, TabVarsStay
  <2> QED BY <2>1, <2>2
<1>3. CASE FillTabs
  <2>1. capacity' \in Nat /\ Len(tabs) <= capacity' /\ 1 <= capacity'
    BY <1>0, <1>3 DEF FillTabs, ReserveTabs
  <2>2. tabs' \in Seq(TabRecords) /\ (Len(tabs') = 1 \/ Len(tabs') = Len(tabs))
    <3>1. CASE tabs = << >>
      <4> DEFINE first == [id |-> 1, filter |-> Fresh]
      <4>1. first \in TabRecords
        BY <1>0, TabsAssumption DEF TabRecords, TabIds
      <4>2. tabs' = <<first>>
        BY <1>3, <3>1 DEF FillTabs
      <4> HIDE DEF first
      <4> QED BY <4>1, <4>2
    <3>2. CASE tabs # << >>
      BY <1>0, <1>3, <3>2 DEF FillTabs
    <3> QED BY <3>1, <3>2
  <2>3. UNCHANGED block
    BY <1>3 DEF FillTabs
  <2>4. Len(tabs') <= MaxTabs /\ Len(tabs') <= capacity'
    <3>1. CASE Len(tabs') = 1
      BY <1>0, <2>1, <3>1
    <3>2. CASE Len(tabs') = Len(tabs)
      BY <1>0, <2>1, <3>2
    <3> QED BY <2>2, <3>1, <3>2
  <2> QED BY <1>0, <2>1, <2>2, <2>3, <2>4
<1>4. ASSUME NEW text \in Texts, NewTab(text)
      PROVE  Goal
  <2>1. phase = "ready" /\ Len(tabs) < MaxTabs /\ Grow /\ tabs' = Appended(tabs, text)
    BY <1>4 DEF NewTab, Ready
  <2>2. capacity \in Nat \ {0} /\ block < capacity
    BY <1>0, <2>1 DEF ShapeInv, PhaseInv
  <2>3. tabs' \in Seq(TabRecords) /\ Len(tabs') = Len(tabs) + 1
    BY <1>0, <2>1, AppendedTabs DEF ShapeInv
  <2>4. /\ capacity' \in Nat /\ Len(tabs) + 1 <= capacity' /\ block' \in 0..MaxTabs
    BY <2>1, <2>2, GrowKeepsRoom DEF ShapeInv
  <2> QED BY <1>0, <2>1, <2>3, <2>4
<1>6. ASSUME NEW i \in DOMAIN tabs, CloseTab(i)
      PROVE  Goal
  <2>1. tabs' = Erased(i) /\ UNCHANGED <<capacity, block>>
    BY <1>6 DEF CloseTab
  <2>2. Erased(i) \in Seq(TabRecords) /\ Len(Erased(i)) <= Len(tabs) /\ Len(Erased(i)) \in Nat
    BY ErasedTabs DEF ShapeInv
  <2> QED BY <1>0, <2>1, <2>2
<1>7. CASE UpdateKeyboard
  <2>1. CASE UNCHANGED tabs
    BY <1>1, <1>7, <2>1, UpdateTabs DEF TabVarsStay
  <2>2. CASE tabs' = Delivered2(typed)
    BY <1>0, <1>7, <2>2, UpdateTabs, DeliveredTabs DEF ShapeInv, KeyboardShape
  <2> QED BY <1>7, <2>1, <2>2, UpdateTabs
<1>9. CASE Crash
  <2>1. << >> \in Seq(TabRecords) /\ Len(<< >>) = 0
    OBVIOUS
  <2> QED BY <1>0, <1>9, <2>1 DEF Crash
<1>10. CASE \/ Start \/ ReadConf \/ ReadSettings \/ Writes
            \/ \E text \in Texts : OpenLink(text)
            \/ \E i \in DOMAIN tabs : OpenFilter(i)
            \/ OpenMember \/ User \/ LoseKeyboard \/ SetScale \/ UNCHANGED vars
  BY <1>1, <1>10 DEF TabVarsStay, Start, ReadConf, ReadSettings, Writes, WriteConf, WriteTabs,
     OpenLink, OpenFilter, OpenMember, User, LoseKeyboard, SetScale, vars, tabVars
<1> QED BY <1>2, <1>3, <1>4, <1>6, <1>7, <1>9, <1>10 DEF Next, OnInit

LEMMA PhaseStep ==
  ASSUME ShapeInv, [Next]_vars
  PROVE  PhaseInv'
<1>0. /\ capacity \in Nat /\ Reserved \in Nat \ {0} /\ block \in 0..MaxTabs
      /\ phase \in {"off", "conf", "settings", "fill", "ready"}
  BY TabsAssumption DEF ShapeInv, TabShape, PhaseInv
<1>1. CASE phase # "ready" /\ phase' \in {"off", "conf", "settings", "fill"}
           /\ UNCHANGED <<block, keyboardVars>>
  BY <1>1 DEF PhaseInv, ShapeInv, keyboardVars
<1>2. CASE phase = "ready" /\ phase' = "ready" /\ UNCHANGED <<capacity, block>>
  BY <1>2 DEF PhaseInv, ShapeInv
<1>3. CASE Start \/ ReadConf \/ ReadSettings \/ LoadTabs
  <2>1. phase # "ready" /\ phase' \in {"off", "conf", "settings", "fill"}
    BY <1>3 DEF Start, ReadConf, ReadSettings, LoadTabs
  <2>2. UNCHANGED <<block, keyboardVars>>
    BY <1>3 DEF Start, ReadConf, ReadSettings, LoadTabs, tabVars
  <2> QED BY <1>1, <2>1, <2>2
<1>4. CASE FillTabs
  <2>1. phase = "fill" /\ phase' = "ready" /\ block' = block /\ capacity' \in Nat
        /\ Reserved <= capacity'
    BY <1>0, <1>4 DEF FillTabs, ReserveTabs
  <2>2. block = 0
    BY <2>1 DEF ShapeInv, PhaseInv
  <2> QED BY <1>0, <2>1, <2>2 DEF PhaseInv
<1>5. ASSUME UNCHANGED <<phase, capacity, block, keyboardVars>>
      PROVE  PhaseInv'
  BY <1>5 DEF PhaseInv, ShapeInv, keyboardVars
<1>6. CASE Writes \/ UNCHANGED vars
  BY <1>5, <1>6 DEF Writes, WriteConf, WriteTabs, vars, tabVars
<1>7. ASSUME NEW text \in Texts, NewTab(text)
      PROVE  PhaseInv'
  <2>1. phase = "ready" /\ Len(tabs) < MaxTabs /\ Grow /\ phase' = "ready"
    BY <1>7 DEF NewTab, Ready
  <2>2. Reserved <= capacity /\ capacity \in Nat \ {0} /\ block < capacity
    BY <1>0, <2>1 DEF ShapeInv, PhaseInv
  <2>3. capacity' \in Nat /\ capacity <= capacity' /\ block' < capacity'
    BY <2>1, <2>2, GrowKeepsRoom DEF ShapeInv
  <2>4. Reserved <= capacity'
    BY <1>0, <2>2, <2>3
  <2> QED BY <2>1, <2>3, <2>4 DEF PhaseInv
<1>8. CASE \/ \E text \in Texts : OpenLink(text)
           \/ \E i \in DOMAIN tabs : OpenFilter(i) \/ CloseTab(i)
           \/ OpenMember \/ User \/ UpdateKeyboard \/ LoseKeyboard \/ SetScale
  BY <1>2, <1>8 DEF OpenLink, OpenFilter, CloseTab, OpenMember, User,
     UpdateKeyboard, LoseKeyboard, SetScale, Ready, tabVars
<1>10. CASE Crash
  BY <1>10 DEF Crash, Reset, PhaseInv
<1> QED BY <1>3, <1>4, <1>6, <1>7, <1>8, <1>10 DEF Next, OnInit

LEMMA ShapeStep ==
  ASSUME ShapeInv, [Next]_vars
  PROVE  ShapeInv'
<1>1. TabShape /\ KeyboardShape /\ SettingShape
  BY DEF ShapeInv
<1>2. before' \in {Lost} \union SavedLists
  BY <1>1, BeforeStep
<1>3. TabShape'
  BY <1>1, <1>2, TabStep, FileShapeStep DEF TabShape, FileShape
<1> QED BY <1>1, <1>3, KeyboardStep, SettingShapeStep, PhaseStep DEF ShapeInv

LEMMA ShapeInit == Init => ShapeInv
<1> SUFFICES ASSUME Init PROVE ShapeInv
  OBVIOUS
<1>1. TabShape
  <2>1. << >> \in Seq(TabRecords) /\ Len(<< >>) = 0
    OBVIOUS
  <2>2. MaxTabs \in Nat
    BY TabsAssumption
  <2> QED BY <2>1, <2>2 DEF Init, TabShape
<1>2. KeyboardShape
  BY TabsAssumption DEF Init, KeyboardInit, KeyboardShape
<1>3. SettingShape
  <2>1. Empty \in [{} -> Stored]
    BY DEF Empty
  <2>2. Empty \in Confs
    BY <2>1, {} \in SUBSET Keys DEF Confs
  <2>3. Default \in [Keys -> Nat]
    BY SettingsAssumption
  <2> QED BY <2>2, <2>3 DEF Init, SettingShape
<1>4. PhaseInv
  BY DEF Init, KeyboardInit, PhaseInv
<1> QED BY <1>1, <1>2, <1>3, <1>4 DEF ShapeInv

LEMMA ShapeAlways == Spec => []ShapeInv
  BY ShapeInit, ShapeStep, PTL DEF Spec

\* Type correctness of the tabs, the keyboard and the settings, for any number of tabs,
\* also when the vector moves: it never holds more than it has room for.
THEOREM TabsTyping == Spec => []TypeOK
<1>1. ShapeInv => TypeOK
  BY DEF ShapeInv, TabShape, KeyboardShape, SettingShape, PhaseInv, TypeOK
<1> QED BY <1>1, ShapeAlways, PTL

-----------------------------------------------------------------------------
\* The two files.  First: a setting in use is one of its choices.
LEMMA SelectedStep ==
  ASSUME ShapeInv, FilesInv, [Next]_vars
  PROVE  \A k \in Keys : selected'[k] < Count[k]
<1>0. \A k \in Keys : Count[k] \in Nat /\ Default[k] \in Nat /\ Default[k] < Count[k]
  BY SettingsAssumption
<1>1. CASE UNCHANGED selected
  BY <1>1 DEF FilesInv
<1>2. CASE selected' = Default
  BY <1>0, <1>2
<1>3. ASSUME NEW key \in Keys, NEW v \in 0..(Count[key] - 1),
             selected' = [selected EXCEPT ![key] = v]
      PROVE  \A k \in Keys : selected'[k] < Count[k]
  BY <1>0, <1>3 DEF FilesInv, ShapeInv, SettingShape
<1>4. CASE ReadConf \/ WriteConf
  BY <1>1, <1>4 DEF ReadConf, ConfigInit, WriteConf
<1>5. CASE ReadSettings
  <2>1. PICK k \in Keys : ReadSetting(k)
    BY <1>5 DEF ReadSettings
  <2> DEFINE ok == k \in DOMAIN gConf /\ Usable(k, gConf[k])
             v  == IF ok THEN gConf[k] ELSE Default[k]
  <2>2. selected' = [selected EXCEPT ![k] = v] /\ v \in 0..(Count[k] - 1)
    BY <1>0, <2>1 DEF ReadSetting, Usable
  <2> HIDE DEF v
  <2> QED BY <1>3, <2>2
<1>6. CASE SetScale
  BY <1>3, <1>6, TabsAssumption DEF SetScale, ChangeSetting
<1>7. CASE Crash
  BY <1>2, <1>7 DEF Crash
<1>8. CASE ~SettingStep
  BY <1>1, <1>8, OtherSteps
<1> QED BY <1>4, <1>5, <1>6, <1>7, <1>8 DEF SettingStep

\* Once the settings are read, their file holds them unless it is being written.
LEMMA ConfStep ==
  ASSUME ShapeInv, FilesInv, [Next]_vars
  PROVE  phase' \in {"settings", "fill", "ready"} /\ writing' # "conf" => confFile' = gConf'
<1>1. CASE ReadConf
  BY <1>1 DEF ReadConf, ConfigInit, Save
<1>2. CASE ReadSettings
  <2>1. PICK k \in Keys : ReadSetting(k)
    BY <1>2 DEF ReadSettings
  <2>2. phase = "settings" /\ writing = "none" /\ confFile = gConf
    BY <1>2 DEF ReadSettings, FilesInv
  <2>3. UNCHANGED <<gConf, confFile, writing>> \/ writing' = "conf"
    BY <2>1 DEF ReadSetting, Save
  <2> QED BY <2>2, <2>3
<1>3. CASE WriteConf
  BY <1>3 DEF WriteConf, Write
<1>4. CASE SetScale
  BY <1>4 DEF SetScale, ChangeSetting, Save
<1>5. CASE Crash
  BY <1>5 DEF Crash
<1>6. CASE ~SettingStep
  <2>1. /\ UNCHANGED <<gConf, selected, confFile>>
        /\ writing' # "conf" => writing # "conf"
    BY <1>6, OtherSteps
  <2>2. phase' \in {"settings", "fill", "ready"} => phase \in {"settings", "fill", "ready"}
    BY <1>6 DEF Next, SettingStep, OnInit, Start, LoadTabs, FillTabs, Writes, WriteTabs,
       NewTab, OpenLink, OpenFilter, CloseTab, OpenMember, User, UpdateKeyboard,
       LoseKeyboard, vars
  <2> QED BY <2>1, <2>2 DEF FilesInv
<1> QED BY <1>1, <1>2, <1>3, <1>4, <1>5, <1>6 DEF SettingStep

\* LoadTabs waits until every key is settled, and a key that is settled stays so.
LEMMA SettledStep ==
  ASSUME ShapeInv, FilesInv, [Next]_vars
  PROVE  phase' \in {"fill", "ready"} => \A k \in Keys : Settled(k)'
<1> SUFFICES ASSUME phase' \in {"fill", "ready"}
             PROVE  \A k \in Keys : Settled(k)'
  OBVIOUS
<1>1. CASE ReadConf \/ ReadSettings \/ Crash
  <2>1. CASE ReadConf \/ Crash
    BY <2>1 DEF ReadConf, Crash
  <2>2. CASE ReadSettings
    BY <2>2 DEF ReadSettings
  <2> QED BY <1>1, <2>1, <2>2
<1>2. CASE WriteConf
  BY <1>2 DEF WriteConf, Settled, FilesInv
<1>3. CASE SetScale
  <2>1. PICK v : ChangeSetting(Scale, v)
    BY <1>3 DEF SetScale
  <2>2. phase = "ready" /\ \A k \in Keys : Settled(k)
    BY <1>3 DEF SetScale, Ready, FilesInv
  <2>3. /\ selected' = [selected EXCEPT ![Scale] = v]
        /\ gConf' = [gConf EXCEPT ![Scale] = v]
    BY <2>1 DEF ChangeSetting, Save
  <2>4. selected \in [Keys -> Nat] /\ \E S \in SUBSET Keys : gConf \in [S -> Stored]
    BY DEF ShapeInv, SettingShape, Confs
  <2> QED BY <2>2, <2>3, <2>4 DEF Settled
<1>4. CASE ~SettingStep
  <2>1. UNCHANGED <<gConf, selected>>
    BY <1>4, OtherSteps
  <2>2. LoadTabs \/ phase \in {"fill", "ready"}
    BY <1>4 DEF Next, SettingStep, OnInit, Start, FillTabs, Writes, WriteTabs,
       NewTab, OpenLink, OpenFilter, CloseTab, OpenMember, User, UpdateKeyboard,
       LoseKeyboard, vars
  <2>3. \A k \in Keys : Settled(k)
    BY <2>2 DEF LoadTabs, FilesInv
  <2> QED BY <2>1, <2>3 DEF Settled
<1> QED BY <1>1, <1>2, <1>3, <1>4 DEF SettingStep

\* No handler changes the tabs and leaves their file behind.
LEMMA TabsFileStep ==
  ASSUME ShapeInv, FilesInv, [Next]_vars
  PROVE  phase' = "ready" /\ writing' # "tabs" => tabsFile' = Saved(tabs')
<1> SUFFICES ASSUME phase' = "ready", writing' # "tabs"
             PROVE  tabsFile' = Saved(tabs')
  OBVIOUS
<1>1. CASE WriteTabs
  BY <1>1 DEF WriteTabs, tabVars
<1>2. ASSUME phase = "ready", writing # "tabs", UNCHANGED <<tabs, tabsFile>>
      PROVE  tabsFile' = Saved(tabs')
  BY <1>2 DEF FilesInv
<1>3. CASE WriteConf \/ UNCHANGED vars
  BY <1>2, <1>3 DEF WriteConf, Write, tabVars, vars
<1>4. CASE Start \/ ReadConf \/ ReadSettings \/ LoadTabs \/ FillTabs \/ Crash
  BY <1>4 DEF Start, ReadConf, ReadSettings, LoadTabs, FillTabs, Crash, ConfigSave
<1>5. CASE \/ \E text \in Texts : OpenLink(text)
           \/ \E i \in DOMAIN tabs : OpenFilter(i)
           \/ OpenMember \/ User \/ LoseKeyboard \/ SetScale
  BY <1>2, <1>5 DEF OpenLink, OpenFilter, OpenMember, User, LoseKeyboard,
     SetScale, Ready, tabVars
<1>6. CASE \/ \E text \in Texts : NewTab(text)
           \/ \E i \in DOMAIN tabs : CloseTab(i)
  BY <1>6 DEF NewTab, CloseTab, ConfigSave
<1>7. CASE UpdateKeyboard
  BY <1>2, <1>7 DEF UpdateKeyboard, Deliver, Ready, ConfigSave
<1> QED BY <1>1, <1>3, <1>4, <1>5, <1>6, <1>7 DEF Next, OnInit, Writes

LEMMA FilesStep ==
  ASSUME ShapeInv, FilesInv, [Next]_vars
  PROVE  FilesInv'
  BY SelectedStep, ConfStep, SettledStep, TabsFileStep DEF FilesInv

LEMMA FilesInit == Init => FilesInv
  BY SettingsAssumption DEF Init, FilesInv

\* Between two handlers both files hold what the program shows, whatever the files held at
\* the start and wherever a crash cut a write short (Tool.cpp:177-183, Main.cpp:457-465).
THEOREM FilesAlwaysFollow == Spec => []FilesFollow
<1>1. ShapeInv /\ FilesInv => FilesFollow
  BY DEF ShapeInv, FilesInv, FilesFollow, Ready
<1>2. ShapeInv /\ FilesInv /\ [Next]_vars => FilesInv'
  BY FilesStep
<1> QED BY <1>1, <1>2, FilesInit, ShapeAlways, PTL DEF Spec

-----------------------------------------------------------------------------
\* What a process that ended showed is in the file, then in the tabs.
LEMMA BeforeInvStep ==
  ASSUME ShapeInv, FilesInv, BeforeInv, [Next]_vars
  PROVE  BeforeInv'
<1>0. /\ phase \in {"off", "conf", "settings", "fill", "ready"}
      /\ DOMAIN tabs = 1..Len(tabs) /\ Len(tabs) \in Nat
  BY TabFacts DEF ShapeInv, PhaseInv
<1>1. CASE Crash
  <2>1. /\ phase' = "off" /\ writing' = "none" /\ tabsFile' = tabsFile
        /\ before' = IF writing = "tabs" THEN Lost ELSE IF phase = "ready" THEN Saved(tabs) ELSE before
    BY <1>1 DEF Crash
  <2>2. phase = "ready" /\ writing # "tabs" => tabsFile = Saved(tabs) /\ Saved(tabs) # << >>
    <3>1. phase = "ready" => tabs # << >>
      BY DEF BeforeInv
    <3>2. tabs # << >> => Saved(tabs) # << >>
      <4>1. DOMAIN Saved(tabs) = 1..Len(tabs)
        BY <1>0 DEF Saved
      <4>2. tabs # << >> => 1 \in 1..Len(tabs)
        BY <1>0, EmptySeq DEF ShapeInv, TabShape
      <4> QED BY <4>1, <4>2
    <3> QED BY <3>1, <3>2 DEF FilesInv
  <2> QED BY <2>1, <2>2 DEF BeforeInv
<1>2. CASE LoadTabs
  <2>1. phase = "settings" /\ phase' = "fill" /\ before' = before
    BY <1>2 DEF LoadTabs
  <2>2. CASE before = Lost
    BY <2>1, <2>2 DEF BeforeInv
  <2>3. CASE before # Lost
    <3>1. tabsFile = before /\ before # << >> /\ before \in SavedLists
      BY <2>1, <2>3 DEF BeforeInv, ShapeInv, TabShape
    <3>2. Readable(tabsFile)
      BY <3>1, FilesAssumption DEF Readable
    <3>3. /\ tabs' = [i \in DOMAIN tabsFile |-> [id |-> i, filter |-> tabsFile[i]]]
          /\ tabsFile' = tabsFile
      BY <1>2, <3>2 DEF LoadTabs
    <3>4. PICK n \in 0..MaxTabs : tabsFile \in [1..n -> Texts]
      BY <3>1 DEF SavedLists
    <3>5. Saved(tabs') = tabsFile
      <4>1. \A i \in 1..n : tabs'[i].filter = tabsFile[i]
        BY <3>3, <3>4
      <4>2. Saved(tabs') = [i \in 1..n |-> tabsFile[i]]
        BY <3>3, <3>4, <4>1 DEF Saved
      <4> QED BY <3>4, <4>2
    <3>6. tabs' # << >>
      <4>1. DOMAIN Saved(tabs') = DOMAIN tabs'
        BY DEF Saved
      <4>2. tabs' = << >> => Saved(tabs') = << >>
        BY DEF Saved
      <4> QED BY <3>1, <3>5, <4>2
    <3>7. Saved(tabs)' = tabsFile
      BY <3>5 DEF Saved
    <3> QED BY <2>1, <3>1, <3>3, <3>6, <3>7 DEF BeforeInv
  <2> QED BY <2>2, <2>3
<1>3. CASE FillTabs
  <2>1. phase' = "ready" /\ before' = Lost /\ tabs' # << >>
    BY <1>3 DEF FillTabs
  <2> QED BY <2>1 DEF BeforeInv
<1>4. CASE Start \/ ReadConf \/ ReadSettings \/ WriteConf
  <2>1. /\ phase \in {"off", "conf", "settings"} => writing # "tabs" /\ writing' # "tabs"
        /\ phase' \in {"conf", "settings"} \/ phase' = phase
        /\ phase = "ready" => phase' = "ready"
        /\ phase = "fill" => phase' = "fill"
        /\ UNCHANGED <<tabs, tabsFile, before>>
    <3>1. CASE Start
      BY <3>1 DEF Start, tabVars, BeforeInv
    <3>2. CASE ReadConf
      BY <3>2 DEF ReadConf, ConfigInit, Save, tabVars, BeforeInv
    <3>3. CASE ReadSettings
      <4>1. PICK k \in Keys : ReadSetting(k)
        BY <3>3 DEF ReadSettings
      <4>2. writing' = writing \/ writing' = "conf"
        BY <4>1 DEF ReadSetting, Save
      <4> QED BY <3>3, <4>2 DEF ReadSettings, tabVars, BeforeInv
    <3>4. CASE WriteConf
      BY <3>4 DEF WriteConf, Write, tabVars, BeforeInv
    <3> QED BY <1>4, <3>1, <3>2, <3>3, <3>4
  <2>2. Saved(tabs)' = Saved(tabs)
    BY <2>1 DEF Saved
  <2> QED BY <1>0, <2>1, <2>2 DEF BeforeInv, Start, ReadConf, ReadSettings, WriteConf
<1>5. CASE UNCHANGED vars
  <2>1. UNCHANGED <<phase, tabs, tabsFile, before, writing>>
    BY <1>5 DEF vars, tabVars
  <2>2. Saved(tabs)' = Saved(tabs)
    BY <2>1 DEF Saved
  <2> QED BY <2>1, <2>2 DEF BeforeInv
<1>6. CASE WriteTabs
  <2>1. /\ writing = "tabs" /\ writing' = "none" /\ tabsFile' = Saved(tabs)
        /\ UNCHANGED <<phase, tabs, before>>
    BY <1>6 DEF WriteTabs, tabVars
  <2>2. Saved(tabs)' = Saved(tabs)
    BY <2>1 DEF Saved
  <2>3. phase # "ready" => phase = "fill"
    BY <1>0, <2>1 DEF BeforeInv
  <2>4. before # Lost /\ phase = "fill" => tabsFile' = before
    BY <2>1 DEF BeforeInv
  <2> QED BY <2>1, <2>2, <2>3, <2>4 DEF BeforeInv
<1>7. CASE \/ \E text \in Texts : NewTab(text) \/ OpenLink(text)
           \/ \E i \in DOMAIN tabs : OpenFilter(i) \/ CloseTab(i)
           \/ OpenMember \/ User \/ UpdateKeyboard \/ LoseKeyboard \/ SetScale
  <2>1. phase = "ready" /\ phase' = "ready" /\ before' = before /\ tabs # << >>
    BY <1>7 DEF NewTab, OpenLink, OpenFilter, CloseTab, OpenMember, User, UpdateKeyboard,
       LoseKeyboard, SetScale, Ready, BeforeInv
  <2>2. tabs' # << >>
    <3>1. CASE UNCHANGED tabs
      BY <2>1, <3>1
    <3>2. ASSUME NEW text \in Texts, NewTab(text) PROVE tabs' # << >>
      <4>1. tabs' \in Seq(TabRecords) /\ Len(tabs') = Len(tabs) + 1
        BY <3>2, AppendedTabs DEF NewTab, ShapeInv, TabShape
      <4> QED BY <1>0, <4>1
    <3>3. ASSUME NEW i \in DOMAIN tabs, CloseTab(i) PROVE tabs' # << >>
      <4>1. Len(tabs') \in Nat \ {0}
        BY <3>3, ErasedTabs DEF CloseTab, ShapeInv
      <4> QED BY <4>1
    <3>4. CASE UpdateKeyboard
      <4>1. Len(Delivered2(typed)) = Len(tabs)
        BY DeliveredTabs DEF ShapeInv, KeyboardShape
      <4>2. Len(tabs) # 0
        BY <1>0, <2>1, EmptySeq DEF ShapeInv, TabShape
      <4>3. tabs' # << >> \/ tabs' = Delivered2(typed)
        BY <2>1, <3>4, UpdateTabs
      <4> QED BY <4>1, <4>2, <4>3
    <3> QED BY <1>7, <3>1, <3>2, <3>3, <3>4 DEF OpenLink, OpenFilter, OpenMember, User,
         LoseKeyboard, SetScale, tabVars
  <2> QED BY <2>1, <2>2 DEF BeforeInv
<1> QED BY <1>1, <1>2, <1>3, <1>4, <1>5, <1>6, <1>7 DEF Next, OnInit, Writes

LEMMA BeforeInit == Init => BeforeInv
  BY DEF Init, BeforeInv

\* The tabs an ended process showed are those the next one shows, if no write of them was
\* cut short, whatever happens in between (Tool.cpp:162-197, 258-268).
THEOREM TabsAlwaysComeBack == Spec => TabsComeBack
<1>1. ShapeInv /\ BeforeInv /\ [Next]_vars
        => [phase # "ready" /\ phase' = "ready" /\ before # Lost => Saved(tabs') = before]_vars
  <2> SUFFICES ASSUME ShapeInv, BeforeInv, [Next]_vars,
                      phase # "ready", phase' = "ready", before # Lost
               PROVE  Saved(tabs') = before
    OBVIOUS
  <2>1. FillTabs
    BY DEF Next, OnInit, Start, ReadConf, ReadSettings, LoadTabs, Writes, WriteConf, WriteTabs,
       NewTab, OpenLink, OpenFilter, CloseTab, OpenMember, User, UpdateKeyboard, LoseKeyboard,
       SetScale, Crash, Ready, vars
  <2>2. tabs # << >> /\ Saved(tabs) = before
    BY <2>1 DEF FillTabs, BeforeInv
  <2>3. tabs' = tabs
    BY <2>1, <2>2 DEF FillTabs
  <2> QED BY <2>2, <2>3
<1>2. ShapeInv /\ FilesInv /\ BeforeInv /\ [Next]_vars => FilesInv' /\ BeforeInv'
  BY FilesStep, BeforeInvStep
<1> QED BY <1>1, <1>2, FilesInit, BeforeInit, ShapeAlways, PTL DEF Spec, TabsComeBack

-----------------------------------------------------------------------------
\* Who holds a tab.
LEMMA HeldRef ==
  ASSUME ShapeInv, IsTab(lastCallback)
  PROVE  /\ lastCallback \in Refs
         /\ lastCallback.slot \in 1..MaxTabs /\ lastCallback.block \in 0..MaxTabs
         /\ phase = "ready"
<1>1. lastCallback \in Refs
  BY DEF IsTab, ShapeInv, KeyboardShape
<1>2. phase = "ready"
  BY DEF IsTab, ShapeInv, PhaseInv
<1> QED BY <1>1, <1>2 DEF Refs

\* Steps that leave the keyboard alone, and move tabs to the left or add new ones.
LEMMA MovesLeft ==
  ASSUME ShapeInv, HolderInv, UNCHANGED keyboardVars, block' \in {block, block + 1},
         UniqueIds', DOMAIN tabs' \subseteq Nat,
         \A j \in DOMAIN tabs' : \/ IsTab(lastCallback) => tabs'[j].id # lastCallback.id
                                 \/ \E k \in DOMAIN tabs : j <= k /\ tabs'[j] = tabs[k]
  PROVE  HolderInv'
<1>0. /\ block \in Nat /\ DOMAIN tabs \subseteq Nat
      /\ lastCallback' = lastCallback /\ lastText' = lastText /\ openedKeyboard' = openedKeyboard
      /\ IsTab(lastCallback)' <=> IsTab(lastCallback)
  BY TabFacts DEF ShapeInv, TabShape, keyboardVars, IsTab
<1>1. AskedAsOpened'
  BY DEF AskedAsOpened, HolderInv, IsTab, keyboardVars
<1>2. ASSUME IsTab(lastCallback), NEW j \in DOMAIN tabs', tabs'[j].id = lastCallback.id
      PROVE  /\ j <= lastCallback.slot
             /\ j = lastCallback.slot => j \in DOMAIN tabs /\ tabs'[j] = tabs[j]
  <2>1. PICK k \in DOMAIN tabs : j <= k /\ tabs'[j] = tabs[k]
    BY <1>2
  <2>2. k <= lastCallback.slot
    BY <1>2, <2>1 DEF HolderInv, OnlyLeft
  <2>3. lastCallback.slot \in Nat /\ j \in Nat /\ k \in Nat
    BY <1>0, <1>2, HeldRef
  <2>4. j = lastCallback.slot => k = j
    BY <2>1, <2>2, <2>3
  <2> QED BY <2>1, <2>2, <2>3, <2>4
<1>3. OnlyLeft'
  <2>1. IsTab(lastCallback) => lastCallback.block <= block'
    BY <1>0, HeldRef DEF HolderInv, OnlyLeft
  <2> QED BY <1>0, <1>2, <2>1 DEF OnlyLeft
<1>4. LiveFieldFollows'
  <2> SUFFICES ASSUME openedKeyboard, IsTab(lastCallback), Leads(lastCallback)'
               PROVE  lastText = tabs'[lastCallback.slot].filter
    BY <1>0 DEF LiveFieldFollows
  <2>1. /\ lastCallback.block = block' /\ lastCallback.slot \in DOMAIN tabs'
        /\ tabs'[lastCallback.slot].id = lastCallback.id
    BY <1>0 DEF Leads
  <2>2. lastCallback.slot \in DOMAIN tabs /\ tabs'[lastCallback.slot] = tabs[lastCallback.slot]
    BY <1>2, <2>1
  <2>3. lastCallback.block = block
    BY <1>0, <2>1, HeldRef DEF HolderInv, OnlyLeft
  <2>4. Leads(lastCallback)
    BY <2>1, <2>2, <2>3 DEF Leads
  <2> QED BY <2>2, <2>4 DEF HolderInv, LiveFieldFollows
<1> QED BY <1>1, <1>3, <1>4 DEF HolderInv

\* Steps that leave the tabs alone, and a keyboard that holds none.
LEMMA HoldsNone ==
  ASSUME HolderInv, UNCHANGED <<tabs, block>>, ~IsTab(lastCallback'), AskedAsOpened'
  PROVE  HolderInv'
<1>1. UniqueIds'
  BY DEF HolderInv, UniqueIds
<1>2. OnlyLeft' /\ LiveFieldFollows'
  BY DEF OnlyLeft, LiveFieldFollows, IsTab
<1> QED BY <1>1, <1>2 DEF HolderInv

\* The keyboard's Update: what it delivers reaches the tab the keyboard was opened for.
LEMMA UpdateHolds ==
  ASSUME ShapeInv, HolderInv, UpdateKeyboard
  PROVE  HolderInv'
<1>0. UNCHANGED block /\ typed \in Texts
  BY DEF UpdateKeyboard, ShapeInv, KeyboardShape
<1>1. /\ DOMAIN tabs' = DOMAIN tabs
      /\ \A i \in DOMAIN tabs : tabs'[i].id = tabs[i].id
  <2>1. CASE UNCHANGED tabs
    BY <2>1
  <2>2. CASE tabs' = Delivered2(typed)
    <3>1. \A i \in DOMAIN tabs : Delivered2(typed)[i].id = tabs[i].id
      BY <1>0, DeliveredTabs DEF ShapeInv
    <3>2. DOMAIN Delivered2(typed) = DOMAIN tabs
      BY DEF Delivered2
    <3> QED BY <2>2, <3>1, <3>2
  <2> QED BY <2>1, <2>2, UpdateTabs
<1>2. UniqueIds'
  BY <1>1 DEF UniqueIds, HolderInv
<1>3. CASE status # "Visible"
  <2>1. Reset(Fresh, status)
    BY <1>3 DEF UpdateKeyboard, Update
  <2>2. lastCallback' = NoCallback
    BY <2>1 DEF Reset
  <2>3. AskedAsOpened' /\ OnlyLeft' /\ LiveFieldFollows'
    BY <2>2, TabsAssumption DEF AskedAsOpened, OnlyLeft, LiveFieldFollows, IsTab
  <2> QED BY <1>2, <2>3 DEF HolderInv
<1>4. CASE status = "Visible"
  <2>1. TakeText
    BY <1>4 DEF UpdateKeyboard, Update
  <2>2. /\ lastCallback' = lastCallback /\ callbackOnDoneOnly' = callbackOnDoneOnly
        /\ openedKeyboard' = openedKeyboard
        /\ lastText' = IF CallsNow THEN typed ELSE lastText
    BY <2>1 DEF TakeText
  <2>3. AskedAsOpened'
    BY <2>2 DEF AskedAsOpened, HolderInv, IsTab
  <2>4. OnlyLeft'
    BY <1>0, <1>1, <2>2 DEF OnlyLeft, HolderInv, IsTab
  <2>5. LiveFieldFollows'
    <3> SUFFICES ASSUME openedKeyboard, IsTab(lastCallback), Leads(lastCallback)'
                 PROVE  lastText' = tabs'[lastCallback.slot].filter
      BY <2>2 DEF LiveFieldFollows, IsTab
    <3>1. Leads(lastCallback)
      BY <1>0, <1>1, <2>2 DEF Leads
    <3>2. CASE CallsNow
      <4>1. Calls
        BY <1>4, <3>2 DEF Calls
      <4>2. tabs' = Delivered2(typed)
        BY <4>1 DEF UpdateKeyboard, Deliver, Delivered2
      <4>3. Delivered2(typed)[lastCallback.slot].filter = typed
        BY <1>0, <3>1, DeliveredTabs DEF Leads, ShapeInv
      <4> QED BY <2>2, <3>2, <4>2, <4>3
    <3>3. CASE ~CallsNow
      <4>1. ~Calls
        BY <1>4, <3>3 DEF Calls, CallsAtDone
      <4>2. UNCHANGED tabs
        BY <4>1 DEF UpdateKeyboard
      <4> QED BY <2>2, <3>1, <3>3, <4>2 DEF HolderInv, LiveFieldFollows
    <3> QED BY <3>2, <3>3
  <2> QED BY <1>2, <2>3, <2>4, <2>5 DEF HolderInv
<1> QED BY <1>3, <1>4

LEMMA HolderStep ==
  ASSUME ShapeInv, HolderInv, [Next]_vars
  PROVE  HolderInv'
<1>0. DOMAIN tabs = 1..Len(tabs) /\ Len(tabs) \in Nat
  BY TabFacts DEF ShapeInv
<1>1. CASE UNCHANGED <<tabs, keyboardVars, block>>
  <2>1. UniqueIds'
    BY <1>1 DEF UniqueIds, HolderInv
  <2>2. \A j \in DOMAIN tabs' : \E k \in DOMAIN tabs : j <= k /\ tabs'[j] = tabs[k]
    BY <1>0, <1>1
  <2>3. DOMAIN tabs' \subseteq Nat
    BY <1>0, <1>1
  <2> QED BY <1>1, <2>1, <2>2, <2>3, MovesLeft
<1>2. CASE Start \/ ReadConf \/ ReadSettings \/ Writes \/ SetScale \/ UNCHANGED vars
  BY <1>1, <1>2 DEF Start, ReadConf, ReadSettings, Writes, WriteConf, WriteTabs, SetScale,
     vars, tabVars
<1>3. CASE LoadTabs \/ FillTabs
  <2>1. phase # "ready" /\ UNCHANGED <<keyboardVars, block>>
    BY <1>3 DEF LoadTabs, FillTabs
  <2>2. ~IsTab(lastCallback)
    BY <2>1, HeldRef
  <2>3. UniqueIds' /\ DOMAIN tabs' \subseteq Nat
    <3>1. CASE UNCHANGED tabs
      BY <1>0, <3>1 DEF UniqueIds, HolderInv
    <3>2. CASE tabs' = <<[id |-> 1, filter |-> Fresh]>>
      <4>1. DOMAIN tabs' = {1}
        BY <3>2
      <4> QED BY <4>1 DEF UniqueIds
    <3>3. CASE LoadTabs /\ Readable(tabsFile)
      <4>1. PICK n \in 0..MaxTabs : tabsFile \in [1..n -> Texts]
        BY <3>3 DEF Readable, ShapeInv, TabShape, SavedLists
      <4>2. tabs' = [i \in 1..n |-> [id |-> i, filter |-> tabsFile[i]]]
        BY <3>3, <4>1 DEF LoadTabs
      <4>3. \A i \in DOMAIN tabs' : tabs'[i].id = i
        BY <4>2
      <4> QED BY <4>2, <4>3 DEF UniqueIds
    <3> QED BY <1>3, <3>1, <3>2, <3>3 DEF LoadTabs, FillTabs
  <2> QED BY <2>1, <2>2, <2>3, MovesLeft
<1>4. ASSUME NEW text \in Texts, NewTab(text)
      PROVE  HolderInv'
  <2>1. /\ Grow /\ tabs' = Appended(tabs, text) /\ UNCHANGED keyboardVars
        /\ tabs \in Seq(TabRecords)
    BY <1>4 DEF NewTab, ShapeInv, TabShape
  <2>2. block' \in {block, block + 1}
    BY <2>1 DEF Grow
  <2>3. /\ tabs' \in Seq(TabRecords) /\ Len(tabs') = Len(tabs) + 1
        /\ \A j \in 1..Len(tabs) : tabs'[j] = tabs[j]
        /\ tabs'[Len(tabs) + 1].id = NewId
    BY <2>1, AppendedTabs DEF ShapeInv
  <2>4. /\ \A j \in DOMAIN tabs : tabs[j].id # NewId
        /\ IsTab(lastCallback) => lastCallback.id # NewId
    BY NewIdExists DEF ShapeInv, TabShape
  <2>5. DOMAIN tabs' = 1..(Len(tabs) + 1)
    BY <1>0, <2>3
  <2>6. UniqueIds'
    BY <1>0, <2>3, <2>4, <2>5 DEF UniqueIds, HolderInv
  <2>7. \A j \in DOMAIN tabs' : \/ IsTab(lastCallback) => tabs'[j].id # lastCallback.id
                                \/ \E k \in DOMAIN tabs : j <= k /\ tabs'[j] = tabs[k]
    BY <1>0, <2>3, <2>4, <2>5
  <2>8. DOMAIN tabs' \subseteq Nat
    BY <1>0, <2>5
  <2> QED BY <2>1, <2>2, <2>6, <2>7, <2>8, MovesLeft
<1>5. ASSUME NEW i \in DOMAIN tabs, CloseTab(i)
      PROVE  HolderInv'
  <2>1. tabs' = Erased(i) /\ UNCHANGED <<keyboardVars, block>>
    BY <1>5 DEF CloseTab
  <2>2. IsTab(lastCallback) => lastCallback.id # NewId
    BY NewIdExists DEF ShapeInv, TabShape
  <2>3. CASE Len(tabs') = 1 /\ tabs'[1].id = NewId
    <3>1. DOMAIN tabs' = {1}
      BY <2>1, <2>3, ErasedTabs DEF ShapeInv
    <3>2. UniqueIds' /\ DOMAIN tabs' \subseteq Nat
      BY <3>1 DEF UniqueIds
    <3> QED BY <2>1, <2>2, <2>3, <3>1, <3>2, MovesLeft
  <2>4. CASE /\ Len(tabs') = Len(tabs) - 1
             /\ \A j \in 1..(Len(tabs) - 1) : tabs'[j] = IF j < i THEN tabs[j] ELSE tabs[j + 1]
    <3>1. DOMAIN tabs' = 1..(Len(tabs) - 1)
      BY <2>1, <2>4, ErasedTabs DEF ShapeInv
    <3>2. UniqueIds'
      <4> SUFFICES ASSUME NEW j \in DOMAIN tabs', NEW k \in DOMAIN tabs', tabs'[j].id = tabs'[k].id
                   PROVE  j = k
        BY DEF UniqueIds
      <4> DEFINE from(x) == IF x < i THEN x ELSE x + 1
      <4>1. /\ from(j) \in DOMAIN tabs /\ tabs'[j] = tabs[from(j)]
            /\ from(k) \in DOMAIN tabs /\ tabs'[k] = tabs[from(k)]
        BY <1>0, <2>4, <3>1
      <4>2. from(j) = from(k)
        BY <4>1 DEF UniqueIds, HolderInv
      <4> QED BY <1>0, <3>1, <4>2
    <3>3. ASSUME NEW j \in DOMAIN tabs'
          PROVE  \E k \in DOMAIN tabs : j <= k /\ tabs'[j] = tabs[k]
      <4>1. CASE j < i
        <5>1. j \in DOMAIN tabs /\ j <= j /\ tabs'[j] = tabs[j]
          BY <1>0, <2>4, <3>1, <4>1
        <5> QED BY <5>1
      <4>2. CASE ~(j < i)
        <5>1. j + 1 \in DOMAIN tabs /\ j <= j + 1 /\ tabs'[j] = tabs[j + 1]
          BY <1>0, <2>4, <3>1, <4>2
        <5> QED BY <5>1
      <4> QED BY <4>1, <4>2
    <3>4. DOMAIN tabs' \subseteq Nat
      BY <1>0, <3>1
    <3> QED BY <2>1, <3>2, <3>3, <3>4, MovesLeft
  <2> QED BY <2>1, <2>3, <2>4, ErasedTabs DEF ShapeInv
<1>6. ASSUME NEW i \in DOMAIN tabs, OpenFilter(i)
      PROVE  HolderInv'
  <2>1. /\ UNCHANGED <<tabs, block>> /\ lastCallback' = This(i)
        /\ lastText' = tabs[i].filter /\ callbackOnDoneOnly' = FALSE
    BY <1>6 DEF OpenFilter, Open, tabVars
  <2>2. /\ IsTab(This(i)) /\ This(i).slot = i /\ This(i) \in Refs /\ This(i).block = block
        /\ This(i).id = tabs[i].id
    BY ThisIsRef DEF ShapeInv
  <2>3. UniqueIds'
    BY <2>1 DEF UniqueIds, HolderInv
  <2>4. AskedAsOpened'
    BY <2>1, <2>2 DEF AskedAsOpened, IsTab
  <2>5. LiveFieldFollows'
    BY <2>1, <2>2 DEF LiveFieldFollows
  <2>6. \A j \in DOMAIN tabs : tabs[j].id = tabs[i].id => j <= i
    BY <1>0 DEF HolderInv, UniqueIds
  <2>7. block <= block
    BY DEF ShapeInv, TabShape
  <2>8. OnlyLeft'
    BY <2>1, <2>2, <2>6, <2>7 DEF OnlyLeft
  <2> QED BY <2>3, <2>4, <2>5, <2>8 DEF HolderInv
<1>7. CASE OpenMember \/ (\E text \in Texts : OpenLink(text)) \/ LoseKeyboard
  <2>1. /\ UNCHANGED <<tabs, block>>
        /\ lastCallback' \in {Member, NoCallback}
        /\ lastCallback' = Member => callbackOnDoneOnly' = TRUE
    BY <1>7, TabsAssumption
       DEF OpenMember, OpenLink, LoseKeyboard, Open, UpdateUnanswered, Reset, tabVars
  <2>2. ~IsTab(lastCallback')
    BY <2>1 DEF IsTab
  <2>3. AskedAsOpened'
    BY <2>1, <2>2 DEF AskedAsOpened, IsTab
  <2> QED BY <2>1, <2>2, <2>3, HoldsNone
<1>8. CASE User
  <2>1. UNCHANGED <<tabs, block, openedKeyboard, lastCallback, lastText, callbackOnDoneOnly>>
    BY <1>8 DEF User, Type, Leave, tabVars
  <2> QED BY <2>1 DEF HolderInv, UniqueIds, OnlyLeft, AskedAsOpened, LiveFieldFollows, IsTab,
         Leads
<1>9. CASE UpdateKeyboard
  BY <1>9, UpdateHolds
<1>10. CASE Crash
  <2>1. tabs' = << >> /\ lastCallback' = NoCallback
    BY <1>10 DEF Crash, Reset
  <2>2. UniqueIds' /\ OnlyLeft' /\ AskedAsOpened' /\ LiveFieldFollows'
    BY <2>1, TabsAssumption DEF UniqueIds, OnlyLeft, AskedAsOpened, LiveFieldFollows, IsTab
  <2> QED BY <2>2 DEF HolderInv
<1> QED BY <1>2, <1>3, <1>4, <1>5, <1>6, <1>7, <1>8, <1>9, <1>10 DEF Next, OnInit

LEMMA HolderInit == Init => HolderInv
  BY TabsAssumption DEF Init, KeyboardInit, HolderInv, UniqueIds, OnlyLeft, AskedAsOpened,
     LiveFieldFollows, IsTab

LEMMA HolderAlways == Spec => []HolderInv
<1>1. ShapeInv /\ HolderInv /\ [Next]_vars => HolderInv'
  BY HolderStep
<1> QED BY <1>1, HolderInit, ShapeAlways, PTL DEF Spec

\* The filter being typed is the open tab's, whatever other fields were opened before and
\* whichever tabs are opened and closed meanwhile (Keyboard.cpp:87-92).
THEOREM LiveFieldAlwaysFollows == Spec => []LiveFieldFollows
<1>1. HolderInv => LiveFieldFollows
  BY DEF HolderInv
<1> QED BY <1>1, HolderAlways, PTL

-----------------------------------------------------------------------------
\* Only Update ends a keyboard that is at Done before and after.
LEMMA OnlyUpdateEnds ==
  ASSUME [Next]_vars, openedKeyboard, ~openedKeyboard', status = "Done", status' = "Done"
  PROVE  UpdateKeyboard
<1>1. CASE UNCHANGED keyboardVars
  BY <1>1 DEF keyboardVars
<1>2. CASE \/ OnInit \/ Writes \/ \E text \in Texts : NewTab(text)
           \/ \E i \in DOMAIN tabs : CloseTab(i)
           \/ SetScale \/ UNCHANGED vars
  BY <1>1, <1>2 DEF OnInit, Start, ReadConf, ReadSettings, LoadTabs, FillTabs, Writes,
     WriteConf, WriteTabs, NewTab, CloseTab, SetScale, vars
<1>3. CASE \/ \E i \in DOMAIN tabs : OpenFilter(i)
           \/ \E text \in Texts : OpenLink(text)
           \/ OpenMember \/ User
  BY <1>3 DEF OpenFilter, OpenLink, OpenMember, Open, User, Type, Leave
<1>4. CASE LoseKeyboard \/ Crash
  BY <1>4 DEF LoseKeyboard, UpdateUnanswered, Crash, Reset
<1> QED BY <1>2, <1>3, <1>4 DEF Next

\* What is in the field of a tab is in the tab when Update is through with Done.
LEMMA UpdateDelivers ==
  ASSUME ShapeInv, HolderInv, UpdateKeyboard, openedKeyboard, status = "Done"
  PROVE  Delivered
<1>1. CASE lastCallback = NoCallback
  BY <1>1 DEF Delivered
<1>2. CASE lastCallback = Member
  <2>1. Calls /\ ~IsTab(lastCallback)
    BY <1>1, <1>2, TabsAssumption
       DEF Calls, CallsAtDone, HolderInv, AskedAsOpened, IsTab
  <2>2. member' = IF typed \in Parses THEN typed ELSE member
    BY <2>1 DEF UpdateKeyboard, Deliver
  <2> QED BY <1>2, <2>2 DEF Delivered
<1>3. CASE lastCallback \notin {NoCallback, Member}
  <2>1. IsTab(lastCallback) /\ ~callbackOnDoneOnly
    BY <1>3 DEF IsTab, HolderInv, AskedAsOpened
  <2>2. CASE ~Leads(lastCallback)
    BY <2>1, <2>2 DEF Delivered
  <2>3. CASE Leads(lastCallback) /\ typed # lastText
    <3>1. Calls
      BY <1>3, <2>1, <2>3 DEF Calls, CallsNow
    <3>2. tabs' = Delivered2(typed)
      BY <2>1, <3>1 DEF UpdateKeyboard, Deliver, Delivered2
    <3>3. Delivered2(typed)[lastCallback.slot].filter = typed
      BY <2>3, DeliveredTabs DEF Leads, ShapeInv, KeyboardShape
    <3> QED BY <2>1, <3>2, <3>3 DEF Delivered
  <2>4. CASE Leads(lastCallback) /\ typed = lastText
    <3>1. ~Calls
      BY <2>1, <2>4 DEF Calls, CallsNow, CallsAtDone
    <3>2. UNCHANGED tabs
      BY <3>1 DEF UpdateKeyboard
    <3>3. lastText = tabs[lastCallback.slot].filter
      BY <2>1, <2>4 DEF HolderInv, LiveFieldFollows
    <3> QED BY <2>1, <2>4, <3>2, <3>3 DEF Delivered
  <2> QED BY <2>2, <2>3, <2>4
<1> QED BY <1>1, <1>2, <1>3

\* A text that is confirmed is never lost, in the frame of Done or before, as long as its
\* tab is where the keyboard found it (Keyboard.cpp:85-103).
THEOREM DoneAlwaysDelivers == Spec => DoneDelivers
<1>1. ASSUME ShapeInv, HolderInv, [Next]_vars
      PROVE  [openedKeyboard /\ ~openedKeyboard' /\ status = "Done" /\ status' = "Done"
                => Delivered]_vars
  BY <1>1, OnlyUpdateEnds, UpdateDelivers
<1> QED BY <1>1, ShapeAlways, HolderAlways, PTL DEF Spec, DoneDelivers
=============================================================================
