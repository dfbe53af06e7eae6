-------------------------------- MODULE Ime --------------------------------
(***************************************************************************)
(* ahk/한영키분리ime.ahk: CapsLock switches the active window's input      *)
(* method to English, the Hangul key to Korean, and a timer that runs      *)
(* every 150 ms switches a window that has become active to English.       *)
(*                                                                         *)
(* AutoHotkey runs these as pseudo-threads on one real thread.  Between    *)
(* two lines of a thread, and while it sleeps, a new one may be launched   *)
(* on top of it, and it goes on only when the newer one has ended: a       *)
(* stack.  A hotkey whose thread is on the stack is ignored, and so is the *)
(* timer's.  A step is one look-up of the active window (ImeWnd), one      *)
(* mode set, one question, one key sent or one tooltip; a key, the timer   *)
(* or a change of window may come between any two.  (AutoHotkey spares a   *)
(* thread in its first milliseconds, but a message to a program may take   *)
(* longer; only the look-up at its beginning comes with a hotkey's         *)
(* launch.)  Keys that the script itself sends do not start its hotkeys.   *)
(***************************************************************************)
EXTENDS Naturals, Sequences, SequencesExt

CONSTANTS
  Window,    \* the windows the user switches between
  Refusing   \* the sets of them that may refuse the script's messages

\* A window handle is never 0, which lastWin is before the first CheckWin.
ASSUME WindowAssumption == "none" \notin Window
ASSUME RefusingAssumption == Refusing \subseteq SUBSET Window

English == 0
Korean == 1
Hotkey == {"CapsLock", "vk15"}
\* The argument of IME_Set in each thread (lines 36, 40 and 51).
Argument == [k \in Hotkey \cup {"CheckWin"} |-> IF k = "vk15" THEN Korean ELSE English]

VARIABLES
  denied,    \* the windows that take no message from the script (line 15)
  mode,      \* the conversion mode of each window
  active,    \* the window that has the keyboard
  lastWin,   \* the script's global: the last window CheckWin has seen
  stack,     \* the pseudo-threads, the running one last: the step that is next,
             \* the window looked up for it and the answer of IME_Get
  asked,     \* history: nothing has come between the running thread and its
             \* look-up at line 56
  told,      \* history: what the tooltip of the last thread to end says and in
             \* which window, if nothing came between its look-up and it; else
             \* NotTold, and from the next launch on
  lastKey,   \* history: the last hotkey pressed in the active window, or
             \* "none" since it was switched to or noticed by CheckWin, and
             \* after a hotkey that was ignored
  over       \* history: lastKey was pressed on top of a thread that may undo it

vars == <<denied, mode, active, lastWin, stack, asked, told, lastKey, over>>

OnStack(k) == \E i \in DOMAIN stack : stack[i].of = k
Idle == stack = <<>>
NotTold == [win |-> "none", mode |-> English]

Init ==
  /\ denied \in Refusing
  /\ mode \in [Window -> {English, Korean}]
  /\ active \in Window
  /\ lastWin = "none"
  /\ stack = <<>>
  /\ asked = FALSE /\ told = NotTold
  /\ lastKey = "none" /\ over = FALSE
-----------------------------------------------------------------------------
Launch(k, step, win) ==
  /\ stack' = Append(stack, [of |-> k, step |-> step, win |-> win, got |-> English])
  /\ asked' = FALSE /\ told' = NotTold

\* A thread on the stack that may undo what the key k does in the active window:
\* it is to set the other language, or to toggle, or it asks another window.
MayUndo(f, k) ==
  \/ f.step \in {"Sleep 80", "IME_Set", "Sleep 30", "IME_Get"} /\ Argument[f.of] # Argument[k]
  \/ f.step = "IME_Get" /\ f.win # active
  \/ f.step = "Send"

\* Mutant: a hotkey interrupts its own thread.
Press_Reentrant(k) ==
  /\ Launch(k, "IME_Set", active)
  /\ lastKey' = k /\ over' = \E i \in DOMAIN stack : MayUndo(stack[i], k)
  /\ UNCHANGED <<denied, mode, active, lastWin>>

\* Lines 36, 40 and 23: a hotkey launches its thread.
Press(k) ==
  /\ ~OnStack(k)
  /\ Launch(k, "IME_Set", active)
  /\ lastKey' = k /\ over' = \E i \in DOMAIN stack : MayUndo(stack[i], k)
  /\ UNCHANGED <<denied, mode, active, lastWin>>

\* ... or is ignored.
PressIgnored(k) ==
  /\ OnStack(k)
  /\ lastKey' = "none" /\ over' = FALSE
  /\ UNCHANGED <<denied, mode, active, lastWin, stack, asked, told>>

\* Mutant: lastWin is not kept.
CheckWin_Forgets ==
  /\ ~OnStack("CheckWin")
  /\ active # lastWin
  /\ Launch("CheckWin", "Sleep 80", "none")
  /\ lastKey' = "none" /\ over' = FALSE
  /\ UNCHANGED <<denied, mode, active, lastWin>>

\* Lines 45 to 50.
CheckWin ==
  /\ ~OnStack("CheckWin")
  /\ active # lastWin
  /\ lastWin' = active
  /\ Launch("CheckWin", "Sleep 80", "none")
  /\ lastKey' = "none" /\ over' = FALSE
  /\ UNCHANGED <<denied, mode, active>>
-----------------------------------------------------------------------------
(* The steps of a thread.                                                  *)

Top == stack[Len(stack)]
Running(k, step) == ~Idle /\ Top.of = k /\ Top.step = step
Continue(step, win, got) ==
  stack' = [stack EXCEPT ![Len(stack)] = [of |-> @.of, step |-> step, win |-> win, got |-> got]]
IsSetting == asked' = FALSE /\ UNCHANGED <<denied, active, lastWin, told, lastKey, over>>

\* Lines 51 and 23: the active window may have changed during the sleep.
AfterSleep80(k) ==
  /\ Running(k, "Sleep 80")
  /\ Continue("IME_Set", active, English)
  /\ UNCHANGED mode /\ IsSetting

\* Lines 24 to 29, for the window looked up: some programs take the
\* messages, some ignore them, and for some SendMessage throws.
SetMode(k) ==
  /\ Running(k, "IME_Set")
  /\ \/ /\ Top.win \in denied
        /\ Continue("ShowState", "none", English)
        /\ UNCHANGED mode
     \/ /\ Top.win \notin denied
        /\ Continue("Sleep 30", "none", English)
        /\ mode' \in {mode, [mode EXCEPT ![Top.win] = Argument[k]]}
  /\ IsSetting

\* Line 30: IME_Get looks up the window that is active now, ...
AfterSleep30(k) ==
  /\ Running(k, "Sleep 30")
  /\ Continue("IME_Get", active, English)
  /\ UNCHANGED mode /\ IsSetting

\* Mutant: the result is not looked at.
Check_Trusts(k) ==
  /\ Running(k, "IME_Get")
  /\ Continue("ShowState", "none", English)
  /\ UNCHANGED mode /\ IsSetting

\* ... asks it, and line 31 compares the answer ...
Check(k) ==
  /\ Running(k, "IME_Get")
  /\ LET differs == Top.win \notin denied /\ mode[Top.win] # Argument[k]
     IN  Continue(IF differs THEN "Send" ELSE "ShowState", "none", English)
  /\ UNCHANGED mode /\ IsSetting

\* ... and line 32 sends the Hangul key, to the window that is active then.
Toggle(k) ==
  /\ Running(k, "Send")
  /\ mode' = IF active \in denied THEN mode ELSE [mode EXCEPT ![active] = 1 - @]
  /\ Continue("ShowState", "none", English)
  /\ IsSetting

\* Line 56: IME_Get looks a window up ...
ShowState(k) ==
  /\ Running(k, "ShowState")
  /\ Continue("Ask", active, English)
  /\ asked' = TRUE
  /\ UNCHANGED <<denied, mode, active, lastWin, told, lastKey, over>>

\* Mutant: the tooltip says what the key stands for.
Ask_Assumes(k) ==
  /\ Running(k, "Ask")
  /\ \/ /\ Top.win \in denied
        /\ stack' = Front(stack)
        /\ asked' = FALSE /\ told' = NotTold
     \/ /\ Top.win \notin denied
        /\ Continue("ToolTip", "none", Argument[k])
        /\ UNCHANGED <<asked, told>>
  /\ UNCHANGED <<denied, mode, active, lastWin, lastKey, over>>

\* ... and asks it; without an answer the thread ends (lines 57 and 58).
Ask(k) ==
  /\ Running(k, "Ask")
  /\ \/ /\ Top.win \in denied
        /\ stack' = Front(stack)
        /\ asked' = FALSE /\ told' = NotTold
     \/ /\ Top.win \notin denied
        /\ Continue("ToolTip", "none", mode[Top.win])
        /\ UNCHANGED <<asked, told>>
  /\ UNCHANGED <<denied, mode, active, lastWin, lastKey, over>>

\* Lines 59 to 66: the tooltip, unless no place for it is found.
ToolTip(k) ==
  /\ Running(k, "ToolTip")
  /\ told' \in {NotTold, IF asked THEN [win |-> active, mode |-> Top.got] ELSE NotTold}
  /\ stack' = Front(stack)
  /\ asked' = FALSE
  /\ UNCHANGED <<denied, mode, active, lastWin, lastKey, over>>

Thread(k) ==
  \/ AfterSleep80(k) \/ SetMode(k) \/ AfterSleep30(k) \/ Check(k) \/ Toggle(k)
  \/ ShowState(k) \/ Ask(k) \/ ToolTip(k)

\* The user, or a program, makes another window active.
Switch ==
  /\ active' \in Window \ {active}
  /\ asked' = FALSE
  /\ lastKey' = "none" /\ over' = FALSE
  /\ UNCHANGED <<denied, mode, lastWin, stack, told>>

Next ==
  \/ \E k \in Hotkey : Press(k) \/ PressIgnored(k)
  \/ CheckWin
  \/ \E k \in Hotkey \cup {"CheckWin"} : Thread(k)
  \/ Switch

Spec == Init /\ [][Next]_vars

\* The timer runs, and a thread's sleep ends: nobody presses keys so fast and
\* so long that a thread below never gets its turn.
FairSpec ==
  Spec /\ WF_vars(CheckWin) /\ \A k \in Hotkey \cup {"CheckWin"} : SF_vars(Thread(k))
-----------------------------------------------------------------------------
Frame ==
  [of : Hotkey \cup {"CheckWin"},
   step : {"Sleep 80", "IME_Set", "Sleep 30", "IME_Get", "Send", "ShowState", "Ask", "ToolTip"},
   win : Window \cup {"none"},
   got : {English, Korean}]

\* Type invariant; no thread is on the stack twice.
TypeOK ==
  /\ denied \subseteq Window
  /\ mode \in [Window -> {English, Korean}]
  /\ active \in Window
  /\ lastWin \in Window \cup {"none"}
  /\ stack \in Seq(Frame)
  /\ \A i \in DOMAIN stack :
       stack[i].step \in {"IME_Set", "IME_Get", "Ask"} => stack[i].win \in Window
  /\ \A i, j \in DOMAIN stack : stack[i].of = stack[j].of => i = j
  /\ asked \in BOOLEAN
  /\ told \in [win : Window \cup {"none"}, mode : {English, Korean}]
  /\ lastKey \in Hotkey \cup {"none"}
  /\ over \in BOOLEAN

\* A hotkey has the last word in its window, although programs may ignore the
\* messages, keys and the timer interrupt one another and a thread may act on a
\* window it looked up before the user left it: once the threads have ended, the
\* active window is in the language of the last key pressed in it, unless that
\* was pressed on top of a thread that was still to set the other language, or to
\* toggle whatever window is active, or had looked up another window at line 30.
KeyWins ==
  Idle /\ lastKey # "none" /\ ~over /\ active \notin denied =>
    mode[active] = Argument[lastKey]

\* A window that stays active is noticed, however many keys are pressed.
Noticed == \A w \in Window : <>[](active = w) => <>[](lastWin = w)

\* Once all threads have ended, the tooltip tells the truth about the window it
\* is shown in, although others may have set or toggled it at any time: the last
\* thread to end shows its tooltip after all that.  Not so if a key, the timer or
\* a change of window came between that thread's question (line 56) and its
\* tooltip (line 65), or if it showed none (lines 57 and 63).
TooltipTrue ==
  Idle /\ told.win \in Window => told.mode = mode[told.win]

\* "CapsLock -> English, unconditionally" (line 36): if CapsLock was the last
\* key pressed in the active window, and its thread was launched, that window
\* is in English once the threads have ended.
CapsLockIsEnglish ==
  Idle /\ lastKey = "CapsLock" /\ active \notin denied => mode[active] = English
=============================================================================
