---------------------------- MODULE ClassesTabs ----------------------------
(***************************************************************************)
(* The tabs of classes (Tool/Tool.cpp:162-197, 243-268, 309-372, and       *)
(* ClassesTab::Draw, FilterClasses, to_json and from_json): the vector     *)
(* classesTabs, class_tabs.json, the keyboard, whose callback holds a tab  *)
(* by its address, and a process that may end at any moment and start      *)
(* again.                                                                  *)
(*                                                                         *)
(* Everything happens in the UI thread, and every change of a tab ends in  *)
(* FilterClasses or ConfigSave, which empties the file and then writes it  *)
(* (writing = "tabs" in between).  What is saved of a tab is its filter;   *)
(* its options and image are saved in the same way and left out.           *)
(*                                                                         *)
(* Closing a tab moves those to its right, and a full vector moves, with   *)
(* the callback's address as it was.  What a callback writes to freed      *)
(* memory either shows nowhere or ends the process, as Crash does at any   *)
(* moment; so does a patch's callback that throws at what it cannot parse  *)
(* (ClassesTab.cpp:1041, 1046).                                            *)
(*                                                                         *)
(* Until a process that ended has started again the history variable       *)
(* before has the tabs it showed, unless a write of them was cut short.    *)
(* No guard reads it.                                                      *)
(***************************************************************************)
EXTENDS Keyboard, Settings, SequencesExt

CONSTANTS Reserved,     \* the 32 of classesTabs.reserve
          MaxTabs,      \* tabs that are open at once
          MaxCrashes,
          Fresh,        \* the empty text, the filter of a new tab
          Parses,       \* the texts that are values of the member's type
          Member,       \* the callback of a member's field
          Scale,        \* the key of the Scale combo
          Lost          \* no list of tabs

ASSUME TabsAssumption ==
  /\ Reserved \in Nat \ {0} /\ MaxTabs \in Nat \ {0} /\ MaxCrashes \in Nat
  /\ Fresh \in Texts /\ Parses \subseteq Texts /\ Scale \in Keys /\ Member # NoCallback

VARIABLES
  phase,              \* how far the process has started
  tabs,               \* classesTabs: a sequence of [id, filter]
  capacity, block,    \* the vector's, and how often it has moved
  tabsFile,
  member,             \* a member of an inspected object, a field that asks for Done
  crashes,
  before              \* history: the tabs shown when the process ended, Lost if none

tabVars     == <<tabs, capacity, block>>
settingVars == <<gConf, selected, confFile>>
vars == <<phase, tabVars, tabsFile, member, crashes, before, settingVars, writing, keyboardVars>>

\* Addresses.  A tab is known by its id, which the program does not have: it
\* has this, the address of a slot.
TabIds == 1..(MaxTabs + 2)
This(i) == [slot |-> i, block |-> block, id |-> tabs[i].id]
Refs == [slot : 1..MaxTabs, block : 0..MaxTabs, id : TabIds]
IsTab(ref) == ref \notin {NoCallback, Member}

\* The other callbacks hold no tab.
ASSUME CallbacksAssumption == NoCallback \notin Refs /\ Member \notin Refs

NewId == CHOOSE id \in TabIds : /\ \A i \in DOMAIN tabs : tabs[i].id # id
                                /\ IsTab(lastCallback) => lastCallback.id # id

Saved(ts) == [i \in DOMAIN ts |-> ts[i].filter]
SavedLists == UNION {[1..n -> Texts] : n \in 0..MaxTabs}

ASSUME FilesAssumption == {Missing, Broken, Lost} \cap SavedLists = {}

Init ==
  /\ phase = "off" /\ crashes = 0
  /\ tabs = << >> /\ capacity = 0 /\ block = 0
  /\ member = Fresh /\ before = Lost
  /\ tabsFile \in {Missing, Broken} \union SavedLists
  /\ confFile \in {Missing, Broken} \union Confs
  /\ gConf = Empty /\ selected = Default /\ writing = "none"
  /\ KeyboardInit(Fresh)

ConfigSave == tabsFile' = Broken /\ writing' = "tabs"

-----------------------------------------------------------------------------
\* on_init, step by step.

Start ==
  /\ phase = "off"
  /\ phase' = "conf"
  /\ UNCHANGED <<tabVars, tabsFile, member, crashes, before, settingVars, writing, keyboardVars>>

\* Faulty variant of ReadConf: a file that does not parse ends the process.
ReadConfStrict ==
  /\ phase = "conf" /\ writing = "none"
  /\ IF confFile = Broken THEN UNCHANGED <<settingVars, writing>> ELSE ConfigInit
  /\ phase' = IF confFile = Broken THEN "off" ELSE "settings"
  /\ UNCHANGED <<tabVars, tabsFile, member, crashes, before, keyboardVars>>

ReadConf ==
  /\ phase = "conf" /\ writing = "none"
  /\ ConfigInit
  /\ phase' = "settings"
  /\ UNCHANGED <<tabVars, tabsFile, member, crashes, before, keyboardVars>>

Settled(k) == k \in DOMAIN gConf /\ selected[k] = gConf[k]

\* The settings, one after the other.
ReadSettings ==
  /\ phase = "settings" /\ writing = "none"
  /\ \E k \in Keys : ~Settled(k) /\ ReadSetting(k)
  /\ UNCHANGED <<phase, tabVars, tabsFile, member, crashes, before, keyboardVars>>

\* Tool::Init, its ConfigInit: a missing or broken file becomes that of no tab.
LoadTabs ==
  /\ phase = "settings" /\ writing = "none" /\ \A k \in Keys : Settled(k)
  /\ phase' = "fill"
  /\ IF Readable(tabsFile)
     THEN /\ tabs' = [i \in DOMAIN tabsFile |-> [id |-> i, filter |-> tabsFile[i]]]
          /\ capacity' = Len(tabsFile)
          /\ UNCHANGED <<tabsFile, writing>>
     ELSE ConfigSave /\ UNCHANGED <<tabs, capacity>>
  /\ UNCHANGED <<block, member, crashes, before, settingVars, keyboardVars>>

\* classesTabs.reserve(32).
ReserveTabs == capacity' = IF capacity < Reserved THEN Reserved ELSE capacity

\* The rest of Tool::Init: there is a tab, and every tab is filtered.
FillTabs ==
  /\ phase = "fill" /\ writing = "none"
  /\ phase' = "ready"
  /\ ReserveTabs
  /\ tabs' = IF tabs = << >> THEN <<[id |-> 1, filter |-> Fresh]>> ELSE tabs
  /\ ConfigSave
  /\ before' = Lost
  /\ UNCHANGED <<block, member, crashes, settingVars, keyboardVars>>

WriteTabs ==
  /\ writing = "tabs"
  /\ tabsFile' = Saved(tabs) /\ writing' = "none"
  /\ UNCHANGED <<phase, tabVars, member, crashes, before, settingVars, keyboardVars>>

WriteConf ==
  /\ Write
  /\ UNCHANGED <<phase, tabVars, tabsFile, member, crashes, before, gConf, selected, keyboardVars>>

-----------------------------------------------------------------------------
\* Frames: what the UI thread does once on_init is through.

Ready == phase = "ready" /\ writing = "none"

\* emplace_back: a full vector moves.
Appended(ts, filter) == Append(ts, [id |-> NewId, filter |-> filter])
Grow == IF Len(tabs) < capacity THEN UNCHANGED <<capacity, block>>
                                ELSE capacity' = 2 * capacity /\ block' = block + 1

\* The + button, and OpenNewTabFromClass, whose filter is the class's name.
NewTab(filter) ==
  /\ Ready /\ Len(tabs) < MaxTabs
  /\ tabs' = Appended(tabs, filter)
  /\ Grow
  /\ ConfigSave
  /\ UNCHANGED <<phase, member, crashes, before, settingVars, keyboardVars>>

\* The keyboard of a tab's filter.
OpenFilter(i) ==
  /\ Ready /\ i \in DOMAIN tabs
  /\ Open(tabs[i].filter, This(i), FALSE)
  /\ UNCHANGED <<phase, tabVars, tabsFile, member, crashes, before, settingVars, writing>>

\* Those of object members and patches, which ask for Done.
OpenMember ==
  /\ Ready
  /\ Open(member, Member, TRUE)
  /\ UNCHANGED <<phase, tabVars, tabsFile, member, crashes, before, settingVars, writing>>

\* The links of the Settings tab, a keyboard without a callback.
OpenLink(text) ==
  /\ Ready
  /\ Open(text, NoCallback, FALSE)
  /\ UNCHANGED <<phase, tabVars, tabsFile, member, crashes, before, settingVars, writing>>

User ==
  /\ Ready
  /\ \/ \E text \in Texts : Type(text)
     \/ \E how \in {"Done", "Canceled"} : Leave(how)
  /\ UNCHANGED <<phase, tabVars, tabsFile, member, crashes, before, settingVars, writing>>

\* The two callbacks.  A tab's one writes wherever its address leads, and
\* filters; a member's one sets the member, if the text parses.
Deliver(text) ==
  IF IsTab(lastCallback)
  THEN /\ tabs' = [i \in DOMAIN tabs |->
                     IF lastCallback.block = block /\ lastCallback.slot = i
                     THEN [tabs[i] EXCEPT !.filter = text] ELSE tabs[i]]
       /\ ConfigSave
       /\ UNCHANGED member
  ELSE /\ member' = IF text \in Parses THEN text ELSE member
       /\ UNCHANGED <<tabs, tabsFile, writing>>

UpdateKeyboard ==
  /\ Ready
  /\ Update(Fresh)
  /\ IF Calls THEN Deliver(typed) ELSE UNCHANGED <<tabs, tabsFile, writing, member>>
  /\ UNCHANGED <<phase, capacity, block, crashes, before, settingVars>>

LoseKeyboard ==
  /\ Ready
  /\ UpdateUnanswered(Fresh)
  /\ UNCHANGED <<phase, tabVars, tabsFile, member, crashes, before, settingVars, writing>>

\* Draw's loop on a tab that is not opened: the tabs to its right move down a
\* slot, and the last one is replaced.
Erased(i) == IF Len(tabs) = 1 THEN Appended(<< >>, Fresh) ELSE RemoveAt(tabs, i)

\* Faulty variant of CloseTab: the file is not written.
CloseTabUnsaved(i) ==
  /\ Ready /\ i \in DOMAIN tabs
  /\ tabs' = Erased(i)
  /\ UNCHANGED <<phase, capacity, block, tabsFile, member, crashes, before, settingVars,
                 writing, keyboardVars>>

\* A tab's x.  The next Draw erases it; of what runs in between only Update
\* could tell, and it comes first.  Whose callback is open is not looked at.
CloseTab(i) ==
  /\ Ready /\ i \in DOMAIN tabs
  /\ tabs' = Erased(i)
  /\ ConfigSave
  /\ UNCHANGED <<phase, capacity, block, member, crashes, before, settingVars, keyboardVars>>

SetScale ==
  /\ Ready
  /\ \E v \in 0..(Count[Scale] - 1) : ChangeSetting(Scale, v)
  /\ UNCHANGED <<phase, tabVars, tabsFile, member, crashes, before, keyboardVars>>

\* The process ends; the two files stay as they are.
Crash ==
  /\ phase # "off" /\ crashes < MaxCrashes
  /\ phase' = "off" /\ crashes' = crashes + 1
  /\ tabs' = << >> /\ capacity' = 0 /\ block' = 0
  /\ member' = Fresh
  /\ before' = IF writing = "tabs" THEN Lost ELSE IF phase = "ready" THEN Saved(tabs) ELSE before
  /\ gConf' = Empty /\ selected' = Default /\ writing' = "none"
  /\ Reset(Fresh, "Canceled")
  /\ UNCHANGED <<tabsFile, confFile>>

OnInit == Start \/ ReadConf \/ ReadSettings \/ LoadTabs \/ FillTabs
Writes == WriteConf \/ WriteTabs

Next ==
  \/ OnInit \/ Writes
  \/ \E text \in Texts : NewTab(text) \/ OpenLink(text)
  \/ \E i \in DOMAIN tabs : OpenFilter(i) \/ CloseTab(i)
  \/ OpenMember \/ User \/ UpdateKeyboard \/ LoseKeyboard
  \/ SetScale \/ Crash

Spec == Init /\ [][Next]_vars

\* on_init and the writes run to their end.
FairSpec == Spec /\ WF_vars(OnInit) /\ WF_vars(Writes)

-----------------------------------------------------------------------------
TabRecords == [id : TabIds, filter : Texts]

TypeOK ==
  /\ phase \in {"off", "conf", "settings", "fill", "ready"}
  /\ tabs \in Seq(TabRecords) /\ Len(tabs) <= MaxTabs
  /\ capacity \in Nat /\ Len(tabs) <= capacity /\ block \in 0..MaxTabs
  /\ tabsFile \in {Missing, Broken} \union SavedLists
  /\ member \in Texts /\ before \in {Lost} \union SavedLists
  /\ gConf \in Confs /\ selected \in [Keys -> Nat]
  /\ confFile \in {Missing, Broken} \union Confs
  /\ writing \in {"none", "conf", "tabs"}
  /\ lastCallback \in Refs \union {NoCallback, Member}
  /\ {lastText, typed} \subseteq Texts
  /\ {openedKeyboard, callbackOnDoneOnly} \subseteq BOOLEAN
  /\ status \in {"Visible", "Done", "Canceled", "Unanswered"}

\* Whenever the UI thread is between two handlers the two files hold what the
\* program shows, whichever handler it was that changed a tab or a setting
\* (Tool.cpp:177-183, Main.cpp:457-465), and the settings index their tables
\* (Main.cpp:333, scaleFactors and possibleThemes) even if the file did not.
FilesFollow ==
  Ready => /\ tabsFile = Saved(tabs)
           /\ confFile = gConf
           /\ \A k \in Keys : Settled(k) /\ selected[k] < Count[k]

\* Does an address still lead to the tab it was taken of?
Leads(ref) == /\ ref.block = block /\ ref.slot \in DOMAIN tabs
              /\ tabs[ref.slot].id = ref.id

\* While a filter's keyboard is open, what was last taken from it is the tab's
\* filter, unless the tab is closed or moved: no other field's text comes in, and
\* an address that went astray never comes back (Keyboard.cpp:87-92).
LiveFieldFollows ==
  openedKeyboard /\ IsTab(lastCallback) /\ Leads(lastCallback)
    => lastText = tabs[lastCallback.slot].filter

\* A keyboard that closes on Done leaves the text in its field, whether the
\* field takes it as it is typed or at Done, unless it is a tab that is closed or
\* moved; and a text that does not parse leaves the member as it was
\* (Keyboard.cpp:85-103).
Delivered ==
  LET field == lastCallback IN
  \/ field = NoCallback
  \/ field = Member /\ member' = IF typed \in Parses THEN typed ELSE member
  \/ IsTab(field) /\ (Leads(field) => tabs'[field.slot].filter = typed)
DoneDelivers ==
  [][openedKeyboard /\ ~openedKeyboard' /\ status = "Done" /\ status' = "Done" => Delivered]_vars

\* A process that ends, whenever it does and also while it starts, is followed by
\* one that shows the tabs its last user saw, unless it ended in the middle of
\* writing them (Tool.cpp:162-197, 258-268).
TabsComeBack ==
  [][phase # "ready" /\ phase' = "ready" /\ before # Lost => Saved(tabs') = before]_vars

\* Whatever the files hold, also half a file that a crash left, the next start
\* gets to the menu (Main.cpp:483-536, Tool.cpp:162-197).
StartsUp == phase = "off" ~> phase = "ready"

=============================================================================
