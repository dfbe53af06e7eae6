----------------------------- MODULE ImeProofs -----------------------------
(***************************************************************************)
(* Proofs about module Ime, for any set of windows: the stack of threads,  *)
(* what the last key leaves behind and what the tooltip says.              *)
(***************************************************************************)
EXTENDS Ime, SequenceTheorems, TLAPS

Who == Hotkey \cup {"CheckWin"}
Step == {"Sleep 80", "IME_Set", "Sleep 30", "IME_Get", "Send", "ShowState", "Ask", "ToolTip"}
Looking == {"IME_Set", "IME_Get", "Ask"}
Language == {English, Korean}

\* A thread is on the stack once at most, only CheckWin sleeps before it looks a
\* window up, and a thread that is to address a window has looked it up.
Sound(f) ==
  /\ f.step = "Sleep 80" => f.of = "CheckWin"
  /\ f.step \in Looking => f.win \in Window
StackInv ==
  /\ stack \in Seq(Frame)
  /\ \A i, j \in 1..Len(stack) : stack[i].of = stack[j].of => i = j
  /\ \A i \in 1..Len(stack) : Sound(stack[i])

\* If the last key counts: its thread runs, if it has not ended, and acts on the
\* active window; no other will undo it; and the window is in its language, if
\* it is not the thread's to see to that.
Own(f) ==
  /\ f.step \in {"IME_Set", "IME_Get"} => f.win = active
  /\ f.step = "Send" => active \notin denied /\ mode[active] # Argument[lastKey]
Pending ==
  \E i \in 1..Len(stack) :
    stack[i].of = lastKey /\ stack[i].step \in {"IME_Set", "Sleep 30", "IME_Get", "Send"}
KeyInv ==
  lastKey # "none" /\ ~over =>
    /\ \A i \in 1..Len(stack) :
         IF stack[i].of = lastKey THEN i = Len(stack) /\ Own(stack[i])
                                  ELSE ~MayUndo(stack[i], lastKey)
    /\ active \in denied \/ mode[active] = Argument[lastKey] \/ Pending

\* What the running thread knows of the active window, and with no thread left
\* what the tooltip says of its own.
TipInv ==
  /\ asked => /\ ~Idle
              /\ \/ Top.step = "Ask" /\ Top.win = active
                 \/ Top.step = "ToolTip" /\ Top.got = mode[active]
  /\ TooltipTrue

Inv == TypeOK /\ StackInv /\ KeyInv /\ TipInv
-----------------------------------------------------------------------------
(* What the three changes of the stack do to it: a thread is launched, goes  *)
(* on (Continue) or ends.                                                  *)

Push(k, s, w) == stack' = Append(stack, [of |-> k, step |-> s, win |-> w, got |-> English])
End == stack' = Front(stack)

LEMMA Emptiness == \A q \in Seq(Frame) : q = <<>> <=> Len(q) = 0
BY EmptySeq

LEMMA Idleness == ASSUME StackInv PROVE Idle <=> Len(stack) = 0
BY Emptiness DEF StackInv, Idle

LEMMA UpTo ==
  /\ \A n \in Nat : \A i \in 1..n + 1 : i \in 1..n \/ i = n + 1
  /\ \A n \in Nat : n # 0 => n \in 1..n
OBVIOUS

LEMMA Framed ==
  ASSUME NEW k \in Who, NEW s \in Step, NEW w \in Window \cup {"none"}, NEW g \in Language
  PROVE  LET f == [of |-> k, step |-> s, win |-> w, got |-> g]
         IN  f \in Frame /\ f.of = k /\ f.step = s /\ f.win = w /\ f.got = g
BY DEF Frame, Who, Step, Language

\* A new thread goes on top, and leaves those below as they are.
LEMMA Launched ==
  ASSUME StackInv, NEW k \in Who, NEW s \in Step, NEW w \in Window \cup {"none"}, Push(k, s, w)
  PROVE  /\ stack' \in Seq(Frame)
         /\ Len(stack') = Len(stack) + 1
         /\ \A i \in 1..Len(stack) : stack'[i] = stack[i]
         /\ stack'[Len(stack) + 1].of = k
         /\ stack'[Len(stack) + 1].step = s
         /\ stack'[Len(stack) + 1].win = w
<1> DEFINE f == [of |-> k, step |-> s, win |-> w, got |-> English]
<1>1. stack \in Seq(Frame) /\ f \in Frame /\ f.of = k /\ f.step = s /\ f.win = w
  BY Framed DEF StackInv, Language
<1>2. stack' = Append(stack, f)
  BY DEF Push
<1> HIDE DEF f
<1>3. /\ stack' \in Seq(Frame)
      /\ Len(stack') = Len(stack) + 1
      /\ \A i \in 1..Len(stack) : stack'[i] = stack[i]
      /\ stack'[Len(stack) + 1] = f
  BY <1>1, <1>2, AppendProperties
<1>4. QED
  BY <1>1, <1>3, Zenon

LEMMA ReplaceTop ==
  ASSUME NEW q \in Seq(Frame), Len(q) # 0, NEW f \in Frame
  PROVE  /\ [q EXCEPT ![Len(q)] = f] \in Seq(Frame)
         /\ Len([q EXCEPT ![Len(q)] = f]) = Len(q)
         /\ \A i \in 1..Len(q) : [q EXCEPT ![Len(q)] = f][i] = IF i = Len(q) THEN f ELSE q[i]
<1>1. Len(q) \in 1..Len(q)
  BY LenProperties
<1>2. QED
  BY <1>1, ExceptSeq

\* A thread that goes on stays the thread it is, and leaves those below alone.
LEMMA Continued ==
  ASSUME StackInv, ~Idle, NEW s \in Step, NEW w \in Window \cup {"none"}, NEW g \in Language,
         Continue(s, w, g)
  PROVE  /\ stack' \in Seq(Frame)
         /\ Len(stack') = Len(stack)
         /\ \A i \in 1..Len(stack) : i # Len(stack) => stack'[i] = stack[i]
         /\ stack'[Len(stack)].of = stack[Len(stack)].of
         /\ stack'[Len(stack)].step = s
         /\ stack'[Len(stack)].win = w
         /\ stack'[Len(stack)].got = g
<1>1. stack \in Seq(Frame) /\ Len(stack) # 0
  BY Idleness DEF StackInv
<1>2. Len(stack) \in 1..Len(stack)
  BY <1>1, LenProperties
<1>3. stack[Len(stack)].of \in Who
  <2>1. stack[Len(stack)] \in Frame
    BY <1>1, <1>2, ElementOfSeq
  <2>2. QED
    BY <2>1 DEF Frame, Who
<1> DEFINE f == [of |-> stack[Len(stack)].of, step |-> s, win |-> w, got |-> g]
<1>4. f \in Frame /\ f.of = stack[Len(stack)].of /\ f.step = s /\ f.win = w /\ f.got = g
  BY <1>3, Framed, Zenon
<1>5. stack' = [stack EXCEPT ![Len(stack)] = f]
  BY DEF Continue
<1> HIDE DEF f
<1>6. /\ stack' \in Seq(Frame)
      /\ Len(stack') = Len(stack)
      /\ \A i \in 1..Len(stack) : stack'[i] = IF i = Len(stack) THEN f ELSE stack[i]
  BY <1>1, <1>4, <1>5, ReplaceTop
<1>7. QED
  BY <1>2, <1>4, <1>6

\* A thread that ends was the last.
LEMMA Ended ==
  ASSUME StackInv, ~Idle, End
  PROVE  /\ stack' \in Seq(Frame)
         /\ Len(stack') = Len(stack) - 1
         /\ \A i \in 1..Len(stack) - 1 : stack'[i] = stack[i]
<1>1. Len(stack) \in Nat \ {0} /\ stack \in Seq(Frame)
  BY Idleness, LenProperties DEF StackInv
<1>2. stack' = SubSeq(stack, 1, Len(stack) - 1)
  BY DEF End, Front
<1> DEFINE n == Len(stack) - 1
<1>3. n \in Nat /\ \A i \in 1..n : stack[i] \in Frame
  <2>1. \A i \in 1..Len(stack) : stack[i] \in Frame
    BY <1>1, ElementOfSeq
  <2>2. QED
    BY <1>1, <2>1
<1>4. n - 1 + 1 = n /\ (1 <= n \/ n = 0) /\ \A i \in Nat : 1 + i - 1 = i
  <2> HIDE DEF n
  <2> QED
    BY <1>3
<1> HIDE DEF n
<1>5. /\ SubSeq(stack, 1, n) \in Seq(Frame)
      /\ Len(SubSeq(stack, 1, n)) = n
      /\ \A i \in 1..n : SubSeq(stack, 1, n)[i] = stack[i]
  <2>1. /\ SubSeq(stack, 1, n) \in Seq(Frame)
        /\ Len(SubSeq(stack, 1, n)) = IF 1 <= n THEN n - 1 + 1 ELSE 0
        /\ \A i \in 1..n - 1 + 1 : SubSeq(stack, 1, n)[i] = stack[1 + i - 1]
    BY <1>3, SubSeqProperties
  <2>2. QED
    BY <1>3, <1>4, <2>1
<1>6. QED
  BY <1>2, <1>5 DEF n
LEMMA Domain == ASSUME NEW q \in Seq(Frame) PROVE DOMAIN q = 1..Len(q) /\ Len(q) \in Nat
BY LenProperties

\* The running thread is the last of the stack.
LEMMA Runs ==
  ASSUME StackInv, NEW k \in Who, NEW s \in Step, Running(k, s)
  PROVE  /\ Len(stack) \in Nat /\ Len(stack) # 0 /\ Len(stack) \in 1..Len(stack)
         /\ ~Idle /\ Top.of = k /\ Top.step = s /\ Sound(Top) /\ Top \in Frame
<1>1. ~Idle /\ Top.of = k /\ Top.step = s
  BY DEF Running
<1>2. stack \in Seq(Frame) /\ Len(stack) # 0
  BY <1>1, Idleness DEF StackInv
<1>3. Len(stack) \in Nat /\ Len(stack) \in 1..Len(stack)
  BY <1>2, LenProperties
<1>4. Sound(Top)
  BY <1>3 DEF StackInv, Top
<1>5. Top \in Frame
  BY <1>2, <1>3, ElementOfSeq DEF Top
<1>6. QED
  BY <1>1, <1>2, <1>3, <1>4, <1>5

\* A thread that was not there may be launched.
LEMMA LaunchKeeps ==
  ASSUME StackInv, NEW k \in Who, ~OnStack(k), NEW s \in Step, NEW w \in Window \cup {"none"},
         s = "Sleep 80" => k = "CheckWin", s \in Looking => w \in Window, Push(k, s, w)
  PROVE  StackInv'
<1> DEFINE n == Len(stack)
<1>1. /\ stack' \in Seq(Frame)
      /\ Len(stack') = n + 1
      /\ \A i \in 1..n : stack'[i] = stack[i]
      /\ stack'[n + 1].of = k /\ stack'[n + 1].step = s /\ stack'[n + 1].win = w
  BY Launched
<1>2. n \in Nat
  BY LenProperties DEF StackInv
<1>3. /\ \A i \in 1..n : stack[i].of # k
      /\ \A i, j \in 1..n : stack[i].of = stack[j].of => i = j
      /\ \A i \in 1..n : Sound(stack[i])
  BY Domain DEF OnStack, StackInv
<1> HIDE DEF n
<1>4. \A i \in 1..n + 1 : i \in 1..n \/ i = n + 1
  BY <1>2, UpTo
<1>5. \A i \in 1..n + 1 : Sound(stack'[i])
  <2>1. Sound(stack'[n + 1])
    BY <1>1 DEF Sound
  <2>2. QED
    BY <1>1, <1>3, <1>4, <2>1
<1>6. \A i, j \in 1..n + 1 : stack'[i].of = stack'[j].of => i = j
  <2> SUFFICES ASSUME NEW i \in 1..n + 1, NEW j \in 1..n + 1, stack'[i].of = stack'[j].of
               PROVE  i = j
    OBVIOUS
  <2>1. CASE i \in 1..n /\ j \in 1..n
    BY <1>1, <1>3, <2>1
  <2>2. CASE i = n + 1 \/ j = n + 1
    BY <1>1, <1>3, <1>4, <2>2
  <2>3. QED
    BY <1>4, <2>1, <2>2
<1>7. QED
  BY <1>1, <1>5, <1>6 DEF StackInv, Sound

\* A thread that goes on is past its first sleep.
LEMMA ContinueKeeps ==
  ASSUME StackInv, ~Idle, NEW s \in Step \ {"Sleep 80"}, NEW w \in Window \cup {"none"},
         NEW g \in Language, s \in Looking => w \in Window, Continue(s, w, g)
  PROVE  StackInv'
<1> DEFINE n == Len(stack)
<1>1. /\ stack' \in Seq(Frame)
      /\ Len(stack') = n
      /\ \A i \in 1..n : i # n => stack'[i] = stack[i]
      /\ stack'[n].of = stack[n].of /\ stack'[n].step = s /\ stack'[n].win = w
  BY Continued
<1>2. /\ \A i, j \in 1..n : stack[i].of = stack[j].of => i = j
      /\ \A i \in 1..n : Sound(stack[i])
  BY DEF StackInv
<1> HIDE DEF n
<1>3. \A i \in 1..n : stack'[i].of = stack[i].of
  BY <1>1
<1>4. Sound(stack'[n])
  BY <1>1 DEF Sound
<1>5. QED
  BY <1>1, <1>2, <1>3, <1>4 DEF StackInv, Sound

\* Nor does the end of a thread change the others.
LEMMA EndKeeps ==
  ASSUME StackInv, ~Idle, End
  PROVE  StackInv'
<1> DEFINE n == Len(stack)
<1>1. /\ stack' \in Seq(Frame)
      /\ Len(stack') = n - 1
      /\ \A i \in 1..n - 1 : stack'[i] = stack[i]
  BY Ended
<1>2. n \in Nat
  BY LenProperties DEF StackInv
<1>3. /\ \A i, j \in 1..n : stack[i].of = stack[j].of => i = j
      /\ \A i \in 1..n : Sound(stack[i])
  BY DEF StackInv
<1> HIDE DEF n
<1>4. \A i \in 1..n - 1 : i \in 1..n
  BY <1>2
<1>5. QED
  BY <1>1, <1>3, <1>4 DEF StackInv, Sound
-----------------------------------------------------------------------------
LEMMA InvInit == Init => Inv
<1> SUFFICES ASSUME Init PROVE Inv
  OBVIOUS
<1>1. stack \in Seq(Frame) /\ Len(stack) = 0 /\ DOMAIN stack = {}
  BY DEF Init
<1>2. TypeOK
  BY <1>1, RefusingAssumption DEF Init, TypeOK, English, Korean, NotTold
<1>3. StackInv
  BY <1>1 DEF StackInv
<1>4. KeyInv
  BY DEF Init, KeyInv
<1>5. TipInv
  BY WindowAssumption DEF Init, TipInv, TooltipTrue, NotTold
<1>6. QED
  BY <1>2, <1>3, <1>4, <1>5 DEF Inv

\* A step of a thread takes it on, with the active window if it has looked one up
\* and with a mode for an answer, or ends it.
LEMMA ThreadMoves ==
  ASSUME TypeOK, StackInv, NEW k \in Who, Thread(k)
  PROVE  /\ ~Idle /\ Top.of = k
         /\ UNCHANGED <<denied, active, lastWin, lastKey, over>>
         /\ \/ End /\ UNCHANGED mode /\ (Ask(k) \/ ToolTip(k))
            \/ \E s \in Step \ {"Sleep 80"}, w \in Window \cup {"none"}, g \in Language :
                 (s \in Looking => w = active) /\ Continue(s, w, g)
<1> USE DEF IsSetting, Step, Looking, Language, Running
<1>0. active \in Window /\ mode \in [Window -> Language]
  BY DEF TypeOK
<1>1. CASE AfterSleep80(k)
  BY <1>0, <1>1 DEF AfterSleep80
<1>2. CASE SetMode(k)
  BY <1>2 DEF SetMode
<1>3. CASE AfterSleep30(k)
  BY <1>0, <1>3 DEF AfterSleep30
<1>4. CASE Check(k)
  BY <1>4 DEF Check
<1>5. CASE Toggle(k)
  BY <1>5 DEF Toggle
<1>6. CASE ShowState(k)
  BY <1>0, <1>6 DEF ShowState
<1>7. CASE Ask(k)
  <2>1. Top.win \in Window
    BY <1>7, Runs DEF Ask, Sound
  <2>2. mode[Top.win] \in Language
    BY <1>0, <2>1
  <2>3. QED
    BY <1>7, <2>2 DEF Ask, End
<1>8. CASE ToolTip(k)
  BY <1>8 DEF ToolTip, End
<1>9. QED
  BY <1>1, <1>2, <1>3, <1>4, <1>5, <1>6, <1>7, <1>8 DEF Thread

LEMMA StackStep ==
  ASSUME TypeOK, StackInv, [Next]_vars
  PROVE  StackInv'
<1>1. CASE UNCHANGED stack
  BY <1>1 DEF StackInv, Sound
<1>2. ASSUME NEW k \in Hotkey, Press(k)
      PROVE  StackInv'
  <2>1. ~OnStack(k) /\ Push(k, "IME_Set", active) /\ active \in Window
    BY <1>2 DEF Press, Launch, Push, TypeOK
  <2>2. QED
    BY <2>1, LaunchKeeps DEF Who, Step
<1>3. CASE CheckWin
  <2>1. ~OnStack("CheckWin") /\ Push("CheckWin", "Sleep 80", "none")
    BY <1>3 DEF CheckWin, Launch, Push
  <2>2. QED
    BY <2>1, LaunchKeeps DEF Who, Step, Looking
<1>4. ASSUME NEW k \in Who, Thread(k)
      PROVE  StackInv'
  <2>1. ~Idle /\ active \in Window
    BY <1>4, ThreadMoves DEF TypeOK
  <2>2. CASE End
    BY <2>1, <2>2, EndKeeps
  <2>3. ASSUME NEW s \in Step \ {"Sleep 80"}, NEW w \in Window \cup {"none"}, NEW g \in Language,
               s \in Looking => w = active, Continue(s, w, g)
        PROVE  StackInv'
    BY <2>1, <2>3, ContinueKeeps
  <2>4. QED
    BY <1>4, <2>2, <2>3, ThreadMoves
<1>5. QED
  BY <1>1, <1>2, <1>3, <1>4 DEF Next, PressIgnored, Switch, vars, Who

LEMMA TypeStep ==
  ASSUME TypeOK, StackInv, StackInv', [Next]_vars
  PROVE  TypeOK'
<1>1. /\ stack' \in Seq(Frame)
      /\ \A i \in DOMAIN stack' :
           stack'[i].step \in {"IME_Set", "IME_Get", "Ask"} => stack'[i].win \in Window
      /\ \A i, j \in DOMAIN stack' : stack'[i].of = stack'[j].of => i = j
  <2>1. /\ stack' \in Seq(Frame)
        /\ \A i \in 1..Len(stack') : Sound(stack[i])'
        /\ \A i, j \in 1..Len(stack') : stack'[i].of = stack'[j].of => i = j
    BY DEF StackInv
  <2>2. DOMAIN stack' = 1..Len(stack')
    BY <2>1, Domain
  <2>3. QED
    BY <2>1, <2>2 DEF Sound, Looking
<1> DEFINE Said == [win : Window \cup {"none"}, mode : Language]
<1>2. /\ NotTold \in Said /\ told \in Said /\ asked \in BOOLEAN
      /\ \A w \in Window, g \in Language : [win |-> w, mode |-> g] \in Said
  BY DEF NotTold, TypeOK, Language
<1>3. mode \in [Window -> Language] /\ active \in Window
  BY DEF TypeOK, Language
<1>4. TypeOK' <=> /\ denied' \subseteq Window /\ mode' \in [Window -> Language]
                  /\ active' \in Window /\ lastWin' \in Window \cup {"none"}
                  /\ asked' \in BOOLEAN /\ told' \in Said
                  /\ lastKey' \in Hotkey \cup {"none"} /\ over' \in BOOLEAN
  BY <1>1 DEF TypeOK, Language
<1>5. /\ denied \subseteq Window /\ lastWin \in Window \cup {"none"}
      /\ lastKey \in Hotkey \cup {"none"} /\ over \in BOOLEAN
  BY DEF TypeOK
<1> HIDE DEF Said
<1>6. ASSUME NEW k \in Who, Thread(k)
      PROVE  mode' \in [Window -> Language] /\ asked' \in BOOLEAN /\ told' \in Said
  <2>1. Argument[k] \in Language
    BY DEF Language, Argument, Who
  <2>2. CASE SetMode(k)
    BY <1>2, <1>3, <2>1, <2>2 DEF SetMode, IsSetting
  <2>3. CASE Toggle(k)
    <3>1. 1 - mode[active] \in Language
      BY <1>3 DEF Language, English, Korean
    <3>2. QED
      BY <1>2, <1>3, <2>3, <3>1 DEF Toggle, IsSetting
  <2>4. CASE ToolTip(k)
    <3>1. Top.got \in Language
      BY <2>4, Runs DEF ToolTip, Frame, Language, Step
    <3>2. QED
      BY <1>2, <1>3, <2>4, <3>1 DEF ToolTip
  <2>5. CASE Ask(k)
    BY <1>2, <1>3, <2>5 DEF Ask
  <2>6. QED
    BY <1>2, <1>3, <1>6, <2>2, <2>3, <2>4, <2>5
       DEF Thread, AfterSleep80, AfterSleep30, Check, ShowState, IsSetting
<1>7. QED
  <2>1. ASSUME NEW k \in Who, Thread(k) PROVE TypeOK'
    BY <1>3, <1>4, <1>5, <1>6, <2>1, ThreadMoves
  <2>2. ASSUME NEW k \in Hotkey, Press(k) \/ PressIgnored(k) PROVE TypeOK'
    BY <1>2, <1>3, <1>4, <1>5, <2>2 DEF Press, PressIgnored, Launch
  <2>3. CASE CheckWin
    BY <1>2, <1>3, <1>4, <1>5, <2>3 DEF CheckWin, Launch
  <2>4. CASE Switch
    BY <1>2, <1>3, <1>4, <1>5, <2>4 DEF Switch
  <2>5. CASE UNCHANGED vars
    BY <1>2, <1>3, <1>4, <1>5, <2>5 DEF vars
  <2>6. QED
    BY <2>1, <2>2, <2>3, <2>4, <2>5 DEF Next, Who

-----------------------------------------------------------------------------
(* The last key's word.                                                    *)

Setting == {"IME_Set", "Sleep 30", "IME_Get", "Send"}
Settled == active \in denied \/ mode[active] = Argument[lastKey]

\* What the invariant says of the running thread.
LEMMA KeyTop ==
  ASSUME StackInv, KeyInv, lastKey # "none", ~over, NEW k \in Who, NEW s \in Step, Running(k, s)
  PROVE  /\ k = lastKey => Own(Top)
         /\ k # lastKey => ~MayUndo(Top, lastKey) /\ Settled
         /\ s \notin Setting => Settled
<1> DEFINE n == Len(stack)
<1>1. n \in 1..n /\ stack[n].of = k /\ stack[n].step = s
  BY Runs DEF Top
<1>2. /\ \A i \in 1..n : IF stack[i].of = lastKey THEN i = n /\ Own(stack[i])
                                                 ELSE ~MayUndo(stack[i], lastKey)
      /\ Settled \/ Pending
  BY DEF KeyInv, Settled
<1>3. Pending => k = lastKey /\ s \in Setting
  <2>1. ASSUME NEW i \in 1..n, stack[i].of = lastKey, stack[i].step \in Setting
        PROVE  k = lastKey /\ s \in Setting
    <3>1. i = n
      BY <1>2, <2>1
    <3>2. QED
      BY <1>1, <2>1, <3>1
  <2>2. QED
    BY <2>1 DEF Pending, Setting
<1>4. QED
  BY <1>1, <1>2, <1>3 DEF Top

\* Its next step keeps the invariant if it leaves the thread fit for it.
LEMMA KeyContinue ==
  ASSUME StackInv, KeyInv, lastKey # "none", ~over, NEW k \in Who, NEW s \in Step, Running(k, s),
         NEW t \in Step, NEW w \in Window \cup {"none"}, NEW g \in Language, Continue(t, w, g),
         UNCHANGED <<denied, active, lastKey, over>>,
         k = lastKey => /\ t \in {"IME_Set", "IME_Get"} => w = active
                        /\ t = "Send" => active \notin denied /\ mode'[active] # Argument[lastKey],
         k # lastKey => /\ t \in {"Sleep 80", "IME_Set", "Sleep 30", "IME_Get"} =>
                             Argument[k] = Argument[lastKey]
                        /\ t = "IME_Get" => w = active
                        /\ t # "Send",
         Settled' \/ (k = lastKey /\ t \in Setting)
  PROVE  KeyInv'
<1> DEFINE n == Len(stack)
<1>1. n \in 1..n /\ stack[n].of = k /\ ~Idle
  BY Runs DEF Top
<1>2. /\ Len(stack') = n
      /\ \A i \in 1..n : i # n => stack'[i] = stack[i]
      /\ stack'[n].of = k /\ stack'[n].step = t /\ stack'[n].win = w
  BY <1>1, Continued
<1>3. \A i \in 1..n : i # n => stack[i].of # lastKey /\ ~MayUndo(stack[i], lastKey)
  BY DEF KeyInv
<1> HIDE DEF n
<1>4. \A i \in 1..n : i # n => stack'[i].of # lastKey' /\ ~MayUndo(stack[i], lastKey)'
  BY <1>2, <1>3 DEF MayUndo
<1>5. IF stack'[n].of = lastKey' THEN Own(stack[n])' ELSE ~MayUndo(stack[n], lastKey)'
  <2>1. CASE k = lastKey
    <3>1. n' = n
      BY <1>2 DEF n
    <3>2. Own(stack[n])'
      BY <1>2, <2>1, <3>1 DEF Own
    <3>3. QED
      BY <1>2, <2>1, <3>2
  <2>2. CASE k # lastKey
    <3>1. n' = n
      BY <1>2 DEF n
    <3>2. ~MayUndo(stack[n], lastKey)'
      BY <1>2, <2>2, <3>1 DEF MayUndo
    <3>3. QED
      BY <1>2, <2>2, <3>2
  <2>3. QED
    BY <2>1, <2>2
<1>6. Settled' \/ Pending'
  BY <1>1, <1>2 DEF Pending, Setting
<1>7. n' = n
  BY <1>2 DEF n
<1>8. QED
  BY <1>2, <1>4, <1>5, <1>6, <1>7 DEF KeyInv, Settled

LEMMA KeyDone ==
  ASSUME StackInv, KeyInv, lastKey # "none", ~over, NEW k \in Who, NEW s \in Step, Running(k, s),
         NEW t \in Step, t \notin Setting \cup {"Sleep 80"}, NEW w \in Window \cup {"none"},
         NEW g \in Language, Continue(t, w, g), UNCHANGED <<denied, active, lastKey, over>>,
         Settled'
  PROVE  KeyInv'
<1>1. t \notin {"Sleep 80", "IME_Set", "Sleep 30", "IME_Get", "Send"}
  BY DEF Setting
<1>2. QED
  BY <1>1, KeyContinue

\* It may end once there is nothing left to see to.
LEMMA KeyEnd ==
  ASSUME StackInv, KeyInv, lastKey # "none", ~over, ~Idle, End, Settled,
         UNCHANGED <<denied, mode, active, lastKey, over>>
  PROVE  KeyInv'
<1> DEFINE n == Len(stack)
<1>1. Len(stack') = n - 1 /\ \A i \in 1..n - 1 : stack'[i] = stack[i]
  BY Ended
<1>2. n \in Nat
  BY LenProperties DEF StackInv
<1>3. \A i \in 1..n : i # n => stack[i].of # lastKey /\ ~MayUndo(stack[i], lastKey)
  BY DEF KeyInv
<1> HIDE DEF n
<1>4. \A i \in 1..n - 1 : i \in 1..n /\ i # n
  BY <1>2
<1>5. \A i \in 1..n - 1 : stack'[i].of # lastKey' /\ ~MayUndo(stack[i], lastKey)'
  BY <1>1, <1>3, <1>4 DEF MayUndo
<1>6. QED
  BY <1>1, <1>5 DEF KeyInv, Settled

\* Its launch keeps the invariant if it is on top of no thread that may undo it.
LEMMA KeyPress ==
  ASSUME TypeOK, StackInv, NEW k \in Hotkey, Press(k), ~over'
  PROVE  KeyInv'
<1> DEFINE n == Len(stack)
<1>1. Push(k, "IME_Set", active) /\ UNCHANGED <<active, denied>> /\ lastKey' = k /\ active \in Window
  BY DEF Press, Launch, Push, TypeOK
<1>2. /\ Len(stack') = n + 1
      /\ \A i \in 1..n : stack'[i] = stack[i]
      /\ stack'[n + 1].of = k /\ stack'[n + 1].step = "IME_Set" /\ stack'[n + 1].win = active
  <2>1. k \in Who /\ "IME_Set" \in Step /\ active \in Window \cup {"none"}
    BY <1>1 DEF Who, Step
  <2>2. QED
    BY <1>1, <2>1, Launched
<1>3. n \in Nat /\ DOMAIN stack = 1..n
  BY Domain DEF StackInv
<1>4. \A i \in 1..n : stack[i].of # k /\ ~MayUndo(stack[i], k)
  BY <1>3 DEF Press, OnStack
<1> HIDE DEF n
<1>5. \A i \in 1..n + 1 : i \in 1..n \/ i = n + 1
  BY <1>3, UpTo
<1>6. n + 1 \in 1..n + 1
  BY <1>3
<1>7. \A i \in 1..n : stack'[i].of # lastKey' /\ ~MayUndo(stack[i], lastKey)'
  BY <1>1, <1>2, <1>4 DEF MayUndo
<1>8. \A i \in 1..n + 1 : i = n + 1 => stack'[i].of = lastKey' /\ Own(stack[i])'
  BY <1>1, <1>2 DEF Own
<1>9. Pending'
  BY <1>1, <1>2, <1>6 DEF Pending
<1>10. QED
  BY <1>2, <1>5, <1>7, <1>8, <1>9 DEF KeyInv

LEMMA KeyThread ==
  ASSUME TypeOK, StackInv, KeyInv, lastKey # "none", ~over, NEW k \in Who, Thread(k)
  PROVE  KeyInv'
<1>1. UNCHANGED <<denied, active, lastKey, over>> /\ ~Idle
  BY ThreadMoves
<1>2. /\ active \in Window /\ mode \in [Window -> Language] /\ lastKey \in Hotkey
      /\ Argument[k] \in Language /\ Argument[lastKey] \in Language
  BY DEF TypeOK, Argument, Who, Language
<1>0. /\ English \in Language /\ "none" \in Window \cup {"none"}
       /\ {"IME_Set", "IME_Get", "Send"} \subseteq Step
       /\ \A t \in {"ShowState", "Ask", "ToolTip"} : t \in Step /\ t \notin Setting \cup {"Sleep 80"}
  BY DEF Step, Language, Setting
<1>3. UNCHANGED mode => (Settled <=> Settled')
  BY <1>1 DEF Settled
<1>4. CASE AfterSleep80(k)
  <2>1. Running(k, "Sleep 80") /\ Continue("IME_Set", active, English) /\ UNCHANGED mode
    BY <1>4 DEF AfterSleep80
  <2>2. k = "CheckWin" /\ ~MayUndo(Top, lastKey) /\ Top.of = k /\ Top.step = "Sleep 80" /\ Settled
    <3>1. k = "CheckWin" /\ Top.of = k /\ Top.step = "Sleep 80"
      BY <2>1, Runs DEF Sound, Step
    <3>2. k # lastKey
      BY <1>2, <3>1 DEF Hotkey
    <3>3. QED
      BY <2>1, <3>1, <3>2, KeyTop DEF Step
  <2>3. Argument[k] = Argument[lastKey] /\ k # lastKey
    BY <1>2, <2>2 DEF MayUndo, Hotkey
  <2>4. Settled' /\ active \in Window \cup {"none"} /\ "IME_Set" \in Step /\ "Sleep 80" \in Step
    BY <1>2, <1>3, <2>1, <2>2 DEF Step
  <2>5. QED
    BY <1>1, <1>0, <2>1, <2>3, <2>4, KeyContinue DEF Setting
<1>5. CASE SetMode(k)
  <2>1. Running(k, "IME_Set") /\ Top.step = "IME_Set" /\ Top.of = k
    BY <1>5, Runs DEF SetMode, Step
  <2>2. /\ k = lastKey => Top.win = active
        /\ k # lastKey => Argument[k] = Argument[lastKey] /\ Settled
    BY <2>1, KeyTop DEF Own, MayUndo, Step
  <2>3. CASE Top.win \in denied
    <3>1. Continue("ShowState", "none", English) /\ UNCHANGED mode
      BY <1>5, <2>3 DEF SetMode
    <3>2. Settled'
      BY <1>1, <1>3, <2>2, <2>3, <3>1 DEF Settled
    <3>3. QED
      BY <1>1, <1>0, <2>1, <3>1, <3>2, KeyDone
  <2>4. CASE Top.win \notin denied
    <3>1. /\ Continue("Sleep 30", "none", English)
          /\ mode' \in {mode, [mode EXCEPT ![Top.win] = Argument[k]]}
      BY <1>5, <2>4 DEF SetMode
    <3>2. k # lastKey => Settled'
      BY <1>1, <1>2, <2>2, <3>1 DEF Settled
    <3>3. QED
      BY <1>1, <2>1, <2>2, <3>1, <3>2, KeyContinue DEF Step, Language, Setting
  <2>5. QED
    BY <2>3, <2>4
<1>6. CASE AfterSleep30(k)
  <2>1. /\ Running(k, "Sleep 30") /\ Top.step = "Sleep 30" /\ Top.of = k
        /\ Continue("IME_Get", active, English) /\ UNCHANGED mode
    BY <1>6, Runs DEF AfterSleep30, Step
  <2>2. k # lastKey => Argument[k] = Argument[lastKey] /\ Settled
    BY <2>1, KeyTop DEF MayUndo, Step
  <2>3. QED
    BY <1>1, <1>2, <1>3, <2>1, <2>2, KeyContinue DEF Step, Language, Setting
<1>7. CASE Check(k)
  <2>1. Running(k, "IME_Get") /\ Top.step = "IME_Get" /\ Top.of = k /\ UNCHANGED mode
    BY <1>7, Runs DEF Check, Step
  <2>2. Top.win = active /\ (k # lastKey => Argument[k] = Argument[lastKey] /\ Settled)
    BY <2>1, KeyTop DEF Own, MayUndo, Step
  <2>3. CASE active \notin denied /\ mode[active] # Argument[k]
    <3>1. Continue("Send", "none", English)
      BY <1>7, <2>2, <2>3 DEF Check
    <3>2. k = lastKey
      BY <2>2, <2>3 DEF Settled
    <3>3. QED
      BY <1>1, <2>1, <2>3, <3>1, <3>2, KeyContinue DEF Step, Language, Setting
  <2>4. CASE ~(active \notin denied /\ mode[active] # Argument[k])
    <3>1. Continue("ShowState", "none", English)
      BY <1>7, <2>2, <2>4 DEF Check
    <3>2. Settled'
      BY <1>1, <1>3, <2>1, <2>2, <2>4 DEF Settled
    <3>3. QED
      BY <1>1, <1>0, <2>1, <3>1, <3>2, KeyDone
  <2>5. QED
    BY <2>3, <2>4
<1>8. CASE Toggle(k)
  <2>1. /\ Running(k, "Send") /\ Top.step = "Send" /\ Top.of = k
        /\ Continue("ShowState", "none", English)
    BY <1>8, Runs DEF Toggle, Step
  <2>2. active \notin denied /\ mode[active] # Argument[lastKey] /\ k = lastKey
    BY <2>1, KeyTop DEF Own, MayUndo, Step
  <2>3. mode'[active] = Argument[lastKey]
    <3>1. mode[active] \in {0, 1} /\ Argument[lastKey] \in {0, 1}
      BY <1>2 DEF Language, English, Korean
    <3>2. 1 - mode[active] = Argument[lastKey]
      BY <2>2, <3>1
    <3>3. mode' = [mode EXCEPT ![active] = 1 - mode[active]]
      BY <1>8, <2>2 DEF Toggle
    <3>4. QED
      BY <1>2, <3>2, <3>3
  <2>4. Settled'
    BY <1>1, <2>3 DEF Settled
  <2>5. QED
    BY <1>1, <1>0, <2>1, <2>4, KeyDone
<1>9. CASE ShowState(k)
  <2>1. Running(k, "ShowState") /\ Continue("Ask", active, English) /\ UNCHANGED mode
    BY <1>9 DEF ShowState
  <2>2. Settled'
    BY <1>3, <2>1, KeyTop DEF Step, Setting
  <2>3. QED
    BY <1>1, <1>2, <1>0, <2>1, <2>2, KeyDone
<1>10. CASE Ask(k)
  <2>1. Running(k, "Ask") /\ UNCHANGED mode
    BY <1>10 DEF Ask
  <2>2. Settled
    BY <2>1, KeyTop DEF Step, Setting
  <2>3. CASE Top.win \in denied
    BY <1>1, <1>10, <2>1, <2>2, <2>3, KeyEnd DEF Ask, End
  <2>4. CASE Top.win \notin denied
    <3>1. Continue("ToolTip", "none", mode[Top.win]) /\ mode[Top.win] \in Language
      <4>1. Top.win \in Window
        BY <2>1, Runs DEF Sound, Looking, Step
      <4>2. QED
        BY <1>2, <1>10, <2>4, <4>1 DEF Ask
    <3>2. QED
      <4>1. Settled'
        BY <1>3, <2>1, <2>2
      <4>2. QED
        BY <1>1, <1>0, <2>1, <3>1, <4>1, KeyDone
  <2>5. QED
    BY <2>3, <2>4
<1>11. CASE ToolTip(k)
  <2>1. Running(k, "ToolTip") /\ UNCHANGED mode /\ End
    BY <1>11 DEF ToolTip, End
  <2>2. Settled
    BY <2>1, KeyTop DEF Step, Setting
  <2>3. QED
    BY <1>1, <2>1, <2>2, KeyEnd
<1>12. QED
  BY <1>4, <1>5, <1>6, <1>7, <1>8, <1>9, <1>10, <1>11 DEF Thread

LEMMA KeyStep ==
  ASSUME TypeOK, StackInv, KeyInv, [Next]_vars
  PROVE  KeyInv'
<1>1. CASE lastKey' = "none" \/ over'
  BY <1>1 DEF KeyInv
<1>2. ASSUME NEW k \in Who, Thread(k), ~(lastKey' = "none" \/ over')
      PROVE  KeyInv'
  <2>1. lastKey # "none" /\ ~over
    BY <1>2, ThreadMoves
  <2>2. QED
    BY <1>2, <2>1, KeyThread
<1>3. CASE UNCHANGED vars
  BY <1>3 DEF vars, KeyInv, Own, MayUndo, Pending
<1>4. ASSUME NEW k \in Hotkey, Press(k), ~over'
      PROVE  KeyInv'
  BY <1>4, KeyPress
<1>5. QED
  BY <1>1, <1>2, <1>3, <1>4 DEF Next, PressIgnored, CheckWin, Switch, Who
-----------------------------------------------------------------------------
\* Only the end of a thread leaves the stack empty, and if its tooltip counts it
\* shows the active window's mode; nothing changes a mode without a thread.
LEMMA TipStep ==
  ASSUME TypeOK, StackInv, TipInv, [Next]_vars
  PROVE  TipInv'
<1>1. CASE UNCHANGED <<mode, active, stack, asked, told>>
  BY <1>1 DEF TipInv, TooltipTrue, Idle, Top
<1>2. ASSUME ~asked', ~Idle'
      PROVE  TipInv'
  BY <1>2 DEF TipInv, TooltipTrue
<1>3. ASSUME NEW k \in Who, NEW s \in Step, NEW w \in Window \cup {"none"}, Push(k, s, w)
      PROVE  ~Idle'
  <2>1. Len(stack') = Len(stack) + 1 /\ stack' \in Seq(Frame)
    BY <1>3, Launched
  <2>2. Len(stack) \in Nat
    BY LenProperties DEF StackInv
  <2>3. QED
    BY <2>1, <2>2, Emptiness DEF Idle
<1>4. ASSUME ~Idle, NEW s \in Step, NEW w \in Window \cup {"none"}, NEW g \in Language,
             Continue(s, w, g)
      PROVE  ~Idle' /\ Top'.step = s /\ Top'.win = w /\ Top'.got = g
  <2>1. Len(stack') = Len(stack) /\ stack' \in Seq(Frame) /\ Len(stack) # 0
    BY <1>4, Continued, Idleness
  <2>2. stack'[Len(stack)].step = s /\ stack'[Len(stack)].win = w /\ stack'[Len(stack)].got = g
    BY <1>4, Continued
  <2>3. QED
    BY <2>1, <2>2, Emptiness DEF Idle, Top
<1>5. ASSUME NEW k \in Hotkey, Press(k)
      PROVE  TipInv'
  <2>1. Push(k, "IME_Set", active) /\ ~asked' /\ active \in Window
    BY <1>5 DEF Press, Launch, Push, TypeOK
  <2>2. QED
    BY <1>2, <1>3, <2>1 DEF Who, Step
<1>6. CASE CheckWin
  <2>1. Push("CheckWin", "Sleep 80", "none") /\ ~asked'
    BY <1>6 DEF CheckWin, Launch, Push
  <2>2. QED
    BY <1>2, <1>3, <2>1 DEF Who, Step
<1>7. CASE Switch
  BY <1>7 DEF Switch, TipInv, TooltipTrue, Idle
<1>8. active \in Window /\ mode \in [Window -> Language]
  BY DEF TypeOK, Language
<1>9. ASSUME NEW k \in Who, Thread(k)
      PROVE  TipInv'
  <2>1. ~Idle
    BY <1>9, ThreadMoves
  <2>2. CASE ~(ShowState(k) \/ Ask(k) \/ ToolTip(k))
    <3>1. ~asked'
      BY <1>9, <2>2 DEF Thread, AfterSleep80, SetMode, AfterSleep30, Check, Toggle, IsSetting
    <3>2. PICK s \in Step, w \in Window \cup {"none"}, g \in Language : Continue(s, w, g)
      BY <1>9, <2>2, ThreadMoves
    <3>3. QED
      BY <1>2, <1>4, <2>1, <3>1, <3>2
  <2>3. CASE ShowState(k)
    <3>1. Continue("Ask", active, English) /\ UNCHANGED active
      BY <2>3 DEF ShowState
    <3>2. ~Idle' /\ Top'.step = "Ask" /\ Top'.win = active'
      <4>1. "Ask" \in Step /\ active \in Window \cup {"none"} /\ English \in Language
        BY <1>8 DEF Step, Language
      <4>2. QED
        BY <1>4, <2>1, <3>1, <4>1
    <3>3. QED
      BY <3>2 DEF TipInv, TooltipTrue
  <2>4. CASE Ask(k) /\ Top.win \in denied
    BY <2>4, WindowAssumption DEF Ask, TipInv, TooltipTrue, NotTold
  <2>5. CASE Ask(k) /\ Top.win \notin denied
    <3>1. Running(k, "Ask") /\ Top.win \in Window
      BY <2>5, Runs DEF Ask, Sound, Looking, Step
    <3>2. Continue("ToolTip", "none", mode[Top.win]) /\ UNCHANGED <<active, mode, asked>>
      BY <2>5 DEF Ask
    <3>3. ~Idle' /\ Top'.step = "ToolTip" /\ Top'.got = mode[Top.win]
      BY <1>4, <1>8, <2>1, <3>1, <3>2 DEF Step
    <3>4. asked => Top.win = active
      BY <3>1 DEF TipInv, Running
    <3>5. QED
      BY <3>2, <3>3, <3>4 DEF TipInv, TooltipTrue
  <2>6. CASE ToolTip(k)
    <3>1. asked => Top.got = mode[active]
      BY <2>6 DEF ToolTip, Running, TipInv
    <3>2. UNCHANGED mode /\ ~asked'
      BY <2>6 DEF ToolTip
    <3>3. told'.win \in Window => told'.mode = mode[told'.win]
      BY <2>6, <3>1, WindowAssumption DEF ToolTip, NotTold
    <3>4. QED
      BY <3>2, <3>3 DEF TipInv, TooltipTrue
  <2>7. QED
    BY <2>2, <2>3, <2>4, <2>5, <2>6
<1>10. QED
  BY <1>1, <1>5, <1>6, <1>7, <1>9 DEF Next, PressIgnored, vars, Who

LEMMA InvStep == Inv /\ [Next]_vars => Inv'
BY StackStep, TypeStep, KeyStep, TipStep DEF Inv

\* Every variable keeps its type: no hotkey's thread and no timer's thread is on
\* the stack twice, and a thread that is to address a window has looked it up.
THEOREM TypeCorrect == Spec => []TypeOK
<1>1. Inv => TypeOK
  BY DEF Inv
<1>2. QED
  BY InvInit, InvStep, <1>1, PTL DEF Spec

\* However threads interrupt each other: the last key that was not pressed on top
\* of a thread that may undo it has the last word in its window.
THEOREM KeyWinsAlways == Spec => []KeyWins
<1>1. Inv => KeyWins
  <2> SUFFICES ASSUME Inv, Idle, lastKey # "none", ~over, active \notin denied
               PROVE  mode[active] = Argument[lastKey]
    BY DEF KeyWins
  <2>1. Len(stack) = 0
    BY Idleness DEF Inv
  <2>2. ~Pending
    BY <2>1 DEF Pending
  <2>3. QED
    BY <2>2 DEF Inv, KeyInv
<1>2. QED
  BY InvInit, InvStep, <1>1, PTL DEF Spec

\* Once all threads have ended, the tooltip of the last is right about its window,
\* if nothing came between that thread's question and its tooltip.
THEOREM TooltipTrueAlways == Spec => []TooltipTrue
<1>1. Inv => TooltipTrue
  BY DEF Inv, TipInv
<1>2. QED
  BY InvInit, InvStep, <1>1, PTL DEF Spec
-----------------------------------------------------------------------------
(* What the comment of line 36 promises, and what it takes.                *)

\* CapsLock is pressed on top of the Hangul key's thread before that has sent
\* what it is to send, or on top of CheckWin's when that is about to toggle or
\* has looked up, at line 30, a window that is no longer active.
Over ==
  /\ Press("CapsLock")
  /\ \E i \in DOMAIN stack :
       \/ stack[i].of = "vk15" /\ stack[i].step \in {"IME_Set", "Sleep 30", "IME_Get", "Send"}
       \/ /\ stack[i].of = "CheckWin"
          /\ \/ stack[i].step = "Send"
             \/ stack[i].step = "IME_Get" /\ stack[i].win # active

LEMMA OverFlag ==
  ASSUME TypeOK, StackInv, lastKey = "CapsLock" => ~over, [Next]_vars, [~Over]_vars
  PROVE  lastKey' = "CapsLock" => ~over'
<1>1. CASE Press("CapsLock")
  <2>1. ASSUME NEW i \in DOMAIN stack, MayUndo(stack[i], "CapsLock")
        PROVE  Over
    <3>1. DOMAIN stack = 1..Len(stack) /\ stack \in Seq(Frame)
      BY Domain DEF StackInv
    <3>2. stack[i] \in Frame /\ Sound(stack[i])
      BY <3>1, ElementOfSeq DEF StackInv
    <3>3. stack[i].of \in {"vk15", "CheckWin"}
      BY <1>1, <3>2 DEF Press, OnStack, Frame, Hotkey
    <3>4. Argument["CapsLock"] = 0 /\ Argument["CheckWin"] = 0 /\ Argument["vk15"] = 1
      BY DEF Argument, English, Korean, Hotkey
    <3>5. QED
      BY <1>1, <2>1, <3>2, <3>3, <3>4 DEF Over, MayUndo, Sound
  <2>2. over' => Over
    BY <1>1, <2>1 DEF Press
  <2>3. Over => ~UNCHANGED vars
    <3>1. Push("CapsLock", "IME_Set", active) /\ active \in Window
      BY <1>1 DEF Press, Launch, Push, TypeOK
    <3>2. Len(stack') = Len(stack) + 1 /\ Len(stack) \in Nat
      BY <3>1, Launched, LenProperties DEF Who, Hotkey, Step, StackInv
    <3>3. QED
      BY <3>2 DEF vars
  <2>4. QED
    BY <2>2, <2>3
<1>2. ASSUME NEW k \in Who, Thread(k) PROVE lastKey' = "CapsLock" => ~over'
  BY <1>2, ThreadMoves
<1>3. QED
  BY <1>1, <1>2 DEF Next, Press, PressIgnored, CheckWin, Switch, vars, Who, Hotkey

\* "CapsLock -> English, unconditionally" (line 36) holds as long as CapsLock is
\* not pressed over a thread in one of those places, whatever the keys, the timer
\* and the user do besides.
THEOREM CapsLockUnlessOver ==
  Spec /\ [][~Over]_vars => []CapsLockIsEnglish
<1> DEFINE Fresh == lastKey = "CapsLock" => ~over
<1>1. Init => Fresh
  BY DEF Init
<1>2. Inv /\ Fresh /\ [Next]_vars /\ [~Over]_vars => Fresh'
  BY OverFlag DEF Inv
<1>3. Inv /\ Fresh => CapsLockIsEnglish
  <2> SUFFICES ASSUME Inv, Fresh, Idle, lastKey = "CapsLock", active \notin denied
               PROVE  mode[active] = English
    BY DEF CapsLockIsEnglish
  <2>1. Len(stack) = 0 /\ KeyInv
    BY Idleness DEF Inv
  <2>2. ~Pending
    BY <2>1 DEF Pending
  <2>3. QED
    BY <2>1, <2>2 DEF KeyInv, Argument, Hotkey
<1> HIDE DEF Fresh
<1>4. QED
  BY InvInit, InvStep, <1>1, <1>2, <1>3, PTL DEF Spec
=============================================================================
