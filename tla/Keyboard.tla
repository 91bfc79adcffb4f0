------------------------------ MODULE Keyboard ------------------------------
(***************************************************************************)
(* Unity's on-screen keyboard as every text field of the tool uses it      *)
(* (Tool/Keyboard.cpp): one keyboard and one callback at a time.  Update   *)
(* polls it at the start of each frame (Main.cpp:205).  A callback is      *)
(* called as the text changes, or at Done only, as its field asked.        *)
(***************************************************************************)
EXTENDS Naturals

CONSTANTS Texts,       \* what can be typed
          NoCallback

VARIABLES
  openedKeyboard, lastCallback, lastText, callbackOnDoneOnly,
  status, typed        \* what Unity answers about the opened keyboard

keyboardVars == <<openedKeyboard, lastCallback, lastText, callbackOnDoneOnly, status, typed>>

\* Reset, which destroys Unity's object; answer is the last one about it.
Reset(empty, answer) ==
  /\ openedKeyboard' = FALSE
  /\ lastCallback' = NoCallback
  /\ lastText' = empty
  /\ callbackOnDoneOnly' = FALSE
  /\ status' = answer
  /\ typed' = empty

KeyboardInit(text) ==
  /\ openedKeyboard = FALSE
  /\ lastCallback = NoCallback
  /\ lastText = text
  /\ callbackOnDoneOnly = FALSE
  /\ status = "Canceled"
  /\ typed = text

\* Faulty variant of Open: a callback that is still there is kept.
OpenKeepingCallback(text, callback, onDoneOnly) ==
  /\ openedKeyboard' = TRUE
  /\ lastCallback' = IF openedKeyboard /\ lastCallback # NoCallback THEN lastCallback ELSE callback
  /\ lastText' = text
  /\ callbackOnDoneOnly' = onDoneOnly
  /\ status' = "Visible"
  /\ typed' = text

\* A keyboard that is still open is forgotten, with its callback.
Open(text, callback, onDoneOnly) ==
  /\ openedKeyboard' = TRUE
  /\ lastCallback' = callback
  /\ lastText' = text
  /\ callbackOnDoneOnly' = onDoneOnly
  /\ status' = "Visible"
  /\ typed' = text

-----------------------------------------------------------------------------
\* The user at the keyboard.

Type(text) ==
  /\ openedKeyboard /\ status = "Visible"
  /\ typed' = text
  /\ UNCHANGED <<openedKeyboard, lastCallback, lastText, callbackOnDoneOnly, status>>

\* Done; or Canceled, which stands for LostFocus too.
Leave(how) ==
  /\ openedKeyboard /\ status = "Visible" /\ how \in {"Done", "Canceled"}
  /\ status' = how
  /\ UNCHANGED <<openedKeyboard, lastCallback, lastText, callbackOnDoneOnly, typed>>

-----------------------------------------------------------------------------
\* Update.  The callback's own effect is the caller's part, under Calls.

CallsNow    == lastCallback # NoCallback /\ ~callbackOnDoneOnly /\ typed # lastText
CallsAtDone == lastCallback # NoCallback /\ callbackOnDoneOnly /\ status = "Done"

\* Faulty variant of Calls: the last text, the one at Done, is not looked at.
CallsWhileVisible == openedKeyboard /\ status = "Visible" /\ CallsNow

Calls       == openedKeyboard /\ status # "Canceled" /\ (CallsNow \/ CallsAtDone)

\* The text of a keyboard that is not canceled, before a Reset.
TakeText ==
  /\ lastText' = IF CallsNow THEN typed ELSE lastText
  /\ UNCHANGED <<openedKeyboard, lastCallback, callbackOnDoneOnly, status, typed>>

\* Visible: the callback, if the text is new.  Done: the same or the one at
\* Done, then Reset.  Canceled: Reset.  As long as get_text answers null
\* nothing happens.
Update(empty) ==
  openedKeyboard /\ IF status = "Visible" THEN TakeText ELSE Reset(empty, status)

\* get_status answers nothing.
UpdateUnanswered(empty) == openedKeyboard /\ Reset(empty, "Unanswered")

=============================================================================
