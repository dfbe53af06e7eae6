------------------------- MODULE ConditionVarProofs -------------------------
(***************************************************************************)
(* Proofs about the two demos of condition variables.                      *)
(*                                                                         *)
(* First PingPong, for every number of rounds.  TypeCorrect and ExitSafe   *)
(* are about every platform; InTurnAlways, ImplementsAlternation,          *)
(* StartOrder and LostWakeupShape speak of those whose condition variables *)
(* wake only on a signal.                                                  *)
(*                                                                         *)
(* Then WriterReader, instantiated as WR, for every range of its random    *)
(* numbers and with spurious wakeups.                                      *)
(***************************************************************************)
EXTENDS PingPong, TLAPS

LEMMA TypeInit == Init => TypeOK
  BY HowManyAssumption
     DEF Init, PthreadInit, TypeOK, Thread, Worker, WorkerLabel, MainLabel, NoThread,
         Platform

LEMMA TypeMain == TypeOK /\ MainStep => TypeOK'
<1> SUFFICES ASSUME TypeOK, MainStep PROVE TypeOK'
  OBVIOUS
<1> USE HowManyAssumption DEF TypeOK, Thread, Worker, WorkerLabel, MainLabel,
        NoThread, At, Goto, ThreadList
<1>1. CASE MainLock
  BY <1>1 DEF MainLock, MutexLock
<1>2. CASE MainCreate
  BY <1>2 DEF MainCreate
<1>3. CASE MainWait
  BY <1>3 DEF MainWait, CondPark
<1>4. CASE MainResume
  BY <1>4 DEF MainResume, CondResume, MutexLock
<1>5. CASE MainUnlock
  BY <1>5 DEF MainUnlock, MutexUnlock
<1>6. CASE MainJoin
  BY <1>6 DEF MainJoin
<1>7. QED
  BY <1>1, <1>2, <1>3, <1>4, <1>5, <1>6 DEF MainStep

LEMMA TypeWorker == ASSUME NEW t \in Worker, TypeOK, WorkerStep(t) PROVE TypeOK'
<1> USE HowManyAssumption DEF TypeOK, Thread, Worker, WorkerLabel, MainLabel,
        NoThread, At, Goto, After
<1>1. CASE HandshakeLock(t)
  BY <1>1 DEF HandshakeLock, MutexLock
<1>2. CASE HandshakeSignal(t)
  BY <1>2 DEF HandshakeSignal, CondSignal, Wake
<1>3. CASE HandshakeUnlock(t)
  BY <1>3 DEF HandshakeUnlock, MutexUnlock
<1>4. CASE Lock(t)
  BY <1>4 DEF Lock, MutexLock
<1>5. CASE PrintTurn(t)
  BY <1>5 DEF PrintTurn
<1>6. CASE Signal(t)
  BY <1>6 DEF Signal, CondSignal, Wake
<1>7. CASE Wait(t)
  BY <1>7 DEF Wait, CondPark
<1>8. CASE Resume(t)
  BY <1>8 DEF Resume, CondResume, MutexLock
<1>9. CASE Unlock(t)
  BY <1>9 DEF Unlock, MutexUnlock
<1>10. CASE Bye(t)
  BY <1>10 DEF Bye
<1>11. QED
  BY <1>1, <1>2, <1>3, <1>4, <1>5, <1>6, <1>7, <1>8, <1>9, <1>10 DEF WorkerStep

\* Every variable keeps its type, whatever the condition variables and
\* pthread_create do.
THEOREM TypeCorrect == Spec => []TypeOK
<1>1. TypeOK /\ [Next]_vars => TypeOK'
  <2> SUFFICES ASSUME TypeOK, [Next]_vars PROVE TypeOK'
    OBVIOUS
  <2>1. CASE MainStep
    BY <2>1, TypeMain
  <2>2. CASE \E t \in Worker : WorkerStep(t)
    BY <2>2, TypeWorker
  <2>3. CASE Spuriously
    BY <2>3 DEF Spuriously, SpuriousWakeup, Wake, TypeOK, Thread, Worker
  <2>4. CASE UNCHANGED vars
    BY <2>4 DEF vars, TypeOK
  <2>5. QED
    BY <2>1, <2>2, <2>3, <2>4 DEF Next
<1>2. QED
  BY TypeInit, <1>1, PTL DEF Spec
-----------------------------------------------------------------------------
(***************************************************************************)
(* How far the threads have come.  It is what the joins rest on, and it    *)
(* holds even when condition variables wake spuriously.                    *)
(***************************************************************************)

\* The lines t has printed: its finished rounds, and the round it is in once
\* the print of that round is behind it.
Printed(t) ==
  i[t] + IF pc[t] \in (IF t = "ping" THEN {"signal", "wait", "parked", "unlock"}
                                     ELSE {"signal", "unlock"})
           THEN 1 ELSE 0

\* t is running its loop, or before it.
InRounds(t) == pc[t] \notin {"bye", "done", "crashed"}

\* main starts pong at i = 0 and ping at i = 1, and only starts what it has
\* not started yet.
StartInv ==
  /\ pc["main"] \in {"lock", "create"} =>
       /\ At("ping", "unborn")
       /\ i["main"] = 0 => At("pong", "unborn")
  /\ pc["main"] \in {"wait", "parked", "unlock"} /\ i["main"] = 0 =>
       At("ping", "unborn")

RoundInv == \A t \in Worker :
  /\ InRounds(t) => i[t] < HowMany
  /\ pc[t] \in {"bye", "done"} => i[t] = HowMany

CountInv == ~At("main", "crashed") => Len(out) = Printed("ping") + Printed("pong")

JoinInv ==
  /\ At("main", "join") /\ i["main"] = 1 => At("pong", "done")
  /\ At("main", "exit") => At("ping", "done") /\ At("pong", "done")

ProgressInv == TypeOK /\ StartInv /\ RoundInv /\ CountInv /\ JoinInv

LEMMA ProgressInit == Init => ProgressInv
<1> SUFFICES ASSUME Init PROVE ProgressInv
  OBVIOUS
<1>1. TypeOK
  BY TypeInit
<1>2. StartInv /\ RoundInv /\ JoinInv
  BY HowManyAssumption
     DEF Init, StartInv, RoundInv, InRounds, JoinInv, At, Thread, Worker
<1>3. CountInv
  BY DEF Init, CountInv, Printed, At, Thread, Worker
<1>4. QED
  BY <1>1, <1>2, <1>3 DEF ProgressInv

LEMMA ProgressMain == ProgressInv /\ MainStep => ProgressInv'
<1> SUFFICES ASSUME ProgressInv, MainStep PROVE ProgressInv'
  OBVIOUS
<1>1. TypeOK'
  BY TypeMain DEF ProgressInv
<1> USE HowManyAssumption DEF ProgressInv, TypeOK, Thread, Worker, WorkerLabel,
        MainLabel, At, Goto, ThreadList, StartInv, RoundInv, InRounds, JoinInv,
        CountInv, Printed
<1>2. CASE MainLock
  BY <1>1, <1>2 DEF MainLock, MutexLock
<1>3. CASE MainCreate
  <2>1. StartInv'
    BY <1>1, <1>3 DEF MainCreate
  <2>2. RoundInv'
    BY <1>1, <1>3 DEF MainCreate
  <2>3. CountInv'
    BY <1>1, <1>3 DEF MainCreate
  <2>4. JoinInv'
    BY <1>1, <1>3 DEF MainCreate
  <2>5. QED
    BY <1>1, <2>1, <2>2, <2>3, <2>4 DEF ProgressInv
<1>4. CASE MainWait
  BY <1>1, <1>4 DEF MainWait, CondPark
<1>5. CASE MainResume
  BY <1>1, <1>5 DEF MainResume, CondResume, MutexLock
<1>6. CASE MainUnlock
  <2>1. StartInv'
    BY <1>1, <1>6 DEF MainUnlock, MutexUnlock
  <2>2. RoundInv'
    BY <1>1, <1>6 DEF MainUnlock, MutexUnlock
  <2>3. CountInv'
    BY <1>1, <1>6 DEF MainUnlock, MutexUnlock
  <2>4. JoinInv'
    BY <1>1, <1>6 DEF MainUnlock, MutexUnlock
  <2>5. QED
    BY <1>1, <2>1, <2>2, <2>3, <2>4 DEF ProgressInv
<1>7. CASE MainJoin
  <2>1. StartInv'
    BY <1>1, <1>7 DEF MainJoin
  <2>2. RoundInv'
    BY <1>1, <1>7 DEF MainJoin
  <2>3. CountInv'
    BY <1>1, <1>7 DEF MainJoin
  <2>4. JoinInv'
    BY <1>1, <1>7 DEF MainJoin
  <2>5. QED
    BY <1>1, <2>1, <2>2, <2>3, <2>4 DEF ProgressInv
<1>8. QED
  BY <1>2, <1>3, <1>4, <1>5, <1>6, <1>7 DEF MainStep

LEMMA ProgressWorker ==
  ASSUME NEW t \in Worker, ProgressInv, WorkerStep(t) PROVE ProgressInv'
<1>1. TypeOK'
  BY TypeWorker DEF ProgressInv
<1> USE HowManyAssumption DEF ProgressInv, TypeOK, Thread, Worker, WorkerLabel,
        MainLabel, At, Goto, After, StartInv, RoundInv, InRounds, JoinInv,
        CountInv, Printed
<1>2. CASE HandshakeLock(t)
  BY <1>1, <1>2 DEF HandshakeLock
<1>3. CASE HandshakeSignal(t)
  <2>1. StartInv'
    BY <1>1, <1>3 DEF HandshakeSignal
  <2>2. RoundInv'
    BY <1>1, <1>3 DEF HandshakeSignal
  <2>3. CountInv'
    BY <1>1, <1>3 DEF HandshakeSignal
  <2>4. JoinInv'
    BY <1>1, <1>3 DEF HandshakeSignal
  <2>5. QED
    BY <1>1, <2>1, <2>2, <2>3, <2>4 DEF ProgressInv
<1>4. CASE HandshakeUnlock(t)
  BY <1>1, <1>4 DEF HandshakeUnlock
<1>5. CASE Lock(t)
  <2>1. StartInv'
    BY <1>1, <1>5 DEF Lock
  <2>2. RoundInv'
    BY <1>1, <1>5 DEF Lock
  <2>3. CountInv'
    BY <1>1, <1>5 DEF Lock
  <2>4. JoinInv'
    BY <1>1, <1>5 DEF Lock
  <2>5. QED
    BY <1>1, <2>1, <2>2, <2>3, <2>4 DEF ProgressInv
<1>6. CASE PrintTurn(t)
  <2>1. StartInv'
    BY <1>1, <1>6 DEF PrintTurn
  <2>2. RoundInv'
    BY <1>1, <1>6 DEF PrintTurn
  <2>3. CountInv'
    <3>1. Len(out') = Len(out) + 1
      BY <1>6 DEF PrintTurn
    <3>2. pc' = [pc EXCEPT ![t] = "signal"] /\ pc[t] = "print" /\ i' = i
      BY <1>6 DEF PrintTurn
    <3>3. At("main", "crashed")' <=> At("main", "crashed")
      BY <3>2
    <3>4. Printed(t)' = Printed(t) + 1
      BY <3>2
    <3>5. \A u \in Worker : u # t => Printed(u)' = Printed(u)
      BY <3>2
    <3>6. \A u \in Worker : Printed(u) \in Nat
      OBVIOUS
    <3>7. QED
      <4> HIDE DEF Printed, TypeOK
      <4>1. Len(out) \in Nat
        BY DEF TypeOK
      <4>2. QED
        BY <3>1, <3>3, <3>4, <3>5, <3>6, <4>1
  <2>4. JoinInv'
    BY <1>1, <1>6 DEF PrintTurn
  <2>5. QED
    BY <1>1, <2>1, <2>2, <2>3, <2>4 DEF ProgressInv
<1>7. CASE Signal(t)
  BY <1>1, <1>7 DEF Signal
<1>8. CASE Wait(t)
  <2>1. StartInv'
    BY <1>1, <1>8 DEF Wait
  <2>2. RoundInv'
    BY <1>1, <1>8 DEF Wait
  <2>3. CountInv'
    BY <1>1, <1>8 DEF Wait
  <2>4. JoinInv'
    BY <1>1, <1>8 DEF Wait
  <2>5. QED
    BY <1>1, <2>1, <2>2, <2>3, <2>4 DEF ProgressInv
<1>9. CASE Resume(t)
  <2>1. StartInv'
    BY <1>1, <1>9 DEF Resume
  <2>2. RoundInv'
    BY <1>1, <1>9 DEF Resume
  <2>3. CountInv'
    BY <1>1, <1>9 DEF Resume
  <2>4. JoinInv'
    BY <1>1, <1>9 DEF Resume
  <2>5. QED
    BY <1>1, <2>1, <2>2, <2>3, <2>4 DEF ProgressInv
<1>10. CASE Unlock(t)
  <2>1. StartInv'
    BY <1>1, <1>10 DEF Unlock
  <2>2. RoundInv'
    BY <1>1, <1>10 DEF Unlock
  <2>3. CountInv'
    BY <1>1, <1>10 DEF Unlock
  <2>4. JoinInv'
    BY <1>1, <1>10 DEF Unlock
  <2>5. QED
    BY <1>1, <2>1, <2>2, <2>3, <2>4 DEF ProgressInv
<1>11. CASE Bye(t)
  <2>1. StartInv'
    BY <1>1, <1>11 DEF Bye
  <2>2. RoundInv'
    BY <1>1, <1>11 DEF Bye
  <2>3. CountInv'
    BY <1>1, <1>11 DEF Bye
  <2>4. JoinInv'
    BY <1>1, <1>11 DEF Bye
  <2>5. QED
    BY <1>1, <2>1, <2>2, <2>3, <2>4 DEF ProgressInv
<1>12. QED
  BY <1>2, <1>3, <1>4, <1>5, <1>6, <1>7, <1>8, <1>9, <1>10, <1>11 DEF WorkerStep

LEMMA ProgressStep == ProgressInv /\ [Next]_vars => ProgressInv'
<1> SUFFICES ASSUME ProgressInv, [Next]_vars PROVE ProgressInv'
  OBVIOUS
<1>1. CASE MainStep
  BY <1>1, ProgressMain
<1>2. CASE \E t \in Worker : WorkerStep(t)
  BY <1>2, ProgressWorker
<1> USE DEF ProgressInv, TypeOK, StartInv, RoundInv, InRounds, JoinInv, CountInv,
        Printed, At, Thread, Worker
<1>3. CASE Spuriously
  BY <1>3 DEF Spuriously, SpuriousWakeup, Wake
<1>4. CASE UNCHANGED vars
  BY <1>4 DEF vars
<1>5. QED
  BY <1>1, <1>2, <1>3, <1>4 DEF Next

\* main leaves only after both threads have returned and all 2 * HowMany
\* lines are printed, even when condition variables wake spuriously or a
\* thread could not be created.
THEOREM ExitSafe == Spec => []ExitsAfterBoth
<1>1. ProgressInv => ExitsAfterBoth
  BY HowManyAssumption
     DEF ProgressInv, JoinInv, RoundInv, CountInv, Printed, ExitsAfterBoth, At, Worker
<1>2. QED
  BY ProgressInit, ProgressStep, <1>1, PTL DEF Spec
-----------------------------------------------------------------------------
(***************************************************************************)
(* From here on condition variables wake only on a signal: the invariant   *)
(* TurnsInv is claimed of such platforms only.                             *)
(***************************************************************************)

Signalled(t) == pc[t] \notin {"unborn", "hs_lock", "hs_signal", "crashed"}

\* The start-up: sync_mutex is held where the code holds it, and main is past
\* its wait for a thread only once that thread has signalled.
SyncInv ==
  LET k == i["main"]  cur == ThreadList[k] IN
  /\ owner["sync_mutex"] = "main" <=> pc["main"] \in {"create", "wait", "unlock"}
  /\ \A t \in Worker :
       owner["sync_mutex"] = t <=> pc[t] \in {"hs_signal", "hs_unlock"}
  /\ "main" \in waiting["sync_cond"] => At("main", "parked")
  /\ pc["main"] \in {"lock", "create", "wait", "parked", "unlock"} =>
       IF k = 0 THEN At("ping", "unborn") ELSE Signalled("pong")
  /\ pc["main"] \in {"lock", "create"} => At(cur, "unborn")
  /\ At("main", "wait") => pc[cur] \in {"unborn", "hs_lock"}
  /\ At("main", "parked") =>
       IF "main" \in waiting["sync_cond"]
         THEN pc[cur] \in {"unborn", "hs_lock", "hs_signal"}
         ELSE Signalled(cur)
  /\ At("main", "unlock") => Signalled(cur)
  /\ pc["main"] \in {"join", "exit"} => Signalled("ping") /\ Signalled("pong")
  /\ ~At("main", "crashed")

\* The holder of gmutex, and who can be parked.
MutexInv ==
  /\ owner["gmutex"] # "main"
  /\ \A t \in Worker :
       /\ owner["gmutex"] = t <=> pc[t] \in {"print", "signal", "wait", "unlock"}
       /\ t \in waiting["gcond"] => At(t, "parked")

\* A thread whose wait is over: it has been signalled.
Woken(t) == At(t, "parked") /\ t \notin waiting["gcond"]

\* Pong has been called by a ping it has not answered in print yet.
Called == Woken("pong") \/ At("pong", "print")

\* Ping has printed one line more than pong.
Ahead == Printed("ping") = Printed("pong") + 1
Even == Printed("ping") = Printed("pong")

TurnInv ==
  /\ Ahead \/ Even
  /\ pc["ping"] \in {"signal", "wait"} => Ahead
  /\ "ping" \in waiting["gcond"] => IF At("pong", "signal") THEN Even ELSE Ahead
  /\ Woken("ping") \/ At("ping", "unlock") => Even /\ ~Called
  /\ pc["ping"] \notin {"signal", "wait", "parked", "unlock"} => Even /\ ~Called
  /\ Called => At("ping", "wait") \/ "ping" \in waiting["gcond"]
  /\ At("pong", "signal") => "ping" \in waiting["gcond"]
  /\ At("pong", "unlock") => Woken("ping")
  /\ At("ping", "signal") => ~Called

TurnsInv ==
  ProgressInv /\ SyncInv /\ MutexInv /\ TurnInv /\ InTurn /\ ~env.spurious

CalmInv == env.spurious \/ TurnsInv

LEMMA TurnsInit == Init => CalmInv
<1> SUFFICES ASSUME Init, ~env.spurious PROVE TurnsInv
  BY DEF CalmInv
<1>1. ProgressInv
  BY ProgressInit
<1>2. SyncInv /\ MutexInv
  BY DEF Init, PthreadInit, SyncInv, MutexInv, Signalled, ThreadList, At, Thread,
         Worker, NoThread
<1>3. TurnInv
  BY DEF Init, PthreadInit, TurnInv, Called, Woken, Ahead, Even, Printed, At,
         Thread, Worker
<1>4. InTurn
  BY DEF Init, InTurn
<1>5. QED
  BY <1>1, <1>2, <1>3, <1>4 DEF TurnsInv

LEMMA SyncMain ==
  ASSUME TypeOK, SyncInv, MainStep PROVE SyncInv'
<1>1. TypeOK'
  BY TypeMain
<1> USE DEF TypeOK, Thread, Worker, WorkerLabel, MainLabel, At, Goto, ThreadList,
        SyncInv, Signalled, NoThread
<1>2. CASE MainLock
  BY <1>1, <1>2 DEF MainLock, MutexLock
<1>3. CASE MainCreate
  BY <1>1, <1>3 DEF MainCreate
<1>4. CASE MainWait
  BY <1>1, <1>4 DEF MainWait, CondPark
<1>5. CASE MainResume
  BY <1>1, <1>5 DEF MainResume, CondResume, MutexLock
<1>6. CASE MainUnlock
  BY <1>1, <1>6 DEF MainUnlock, MutexUnlock
<1>7. CASE MainJoin
  BY <1>1, <1>7 DEF MainJoin
<1>8. QED
  BY <1>2, <1>3, <1>4, <1>5, <1>6, <1>7 DEF MainStep

LEMMA SyncWorker ==
  ASSUME NEW t \in Worker, TypeOK, SyncInv, WorkerStep(t) PROVE SyncInv'
<1>1. TypeOK'
  BY TypeWorker
<1> USE DEF TypeOK, Thread, Worker, WorkerLabel, MainLabel, At, Goto, After,
        ThreadList, SyncInv, Signalled, NoThread
<1>2. CASE HandshakeLock(t)
  BY <1>1, <1>2 DEF HandshakeLock, MutexLock
<1>3. CASE HandshakeSignal(t)
  BY <1>1, <1>3 DEF HandshakeSignal, CondSignal, Wake
<1>4. CASE HandshakeUnlock(t)
  BY <1>1, <1>4 DEF HandshakeUnlock, MutexUnlock
<1>5. CASE Lock(t)
  BY <1>1, <1>5 DEF Lock, MutexLock
<1>6. CASE PrintTurn(t)
  BY <1>1, <1>6 DEF PrintTurn
<1>7. CASE Signal(t)
  BY <1>1, <1>7 DEF Signal, CondSignal, Wake
<1>8. CASE Wait(t)
  BY <1>1, <1>8 DEF Wait, CondPark
<1>9. CASE Resume(t)
  BY <1>1, <1>9 DEF Resume, CondResume, MutexLock
<1>10. CASE Unlock(t)
  BY <1>1, <1>10 DEF Unlock, MutexUnlock
<1>11. CASE Bye(t)
  BY <1>1, <1>11 DEF Bye
<1>12. QED
  BY <1>2, <1>3, <1>4, <1>5, <1>6, <1>7, <1>8, <1>9, <1>10, <1>11 DEF WorkerStep

LEMMA MutexMain ==
  ASSUME TypeOK, SyncInv, MutexInv, MainStep PROVE MutexInv'
<1>1. TypeOK'
  BY TypeMain
<1> USE DEF TypeOK, Thread, Worker, WorkerLabel, MainLabel, At, Goto, ThreadList,
        SyncInv, Signalled, MutexInv, NoThread
<1>2. CASE MainLock
  BY <1>1, <1>2 DEF MainLock, MutexLock
<1>3. CASE MainCreate
  BY <1>1, <1>3 DEF MainCreate
<1>4. CASE MainWait
  BY <1>1, <1>4 DEF MainWait, CondPark
<1>5. CASE MainResume
  BY <1>1, <1>5 DEF MainResume, CondResume, MutexLock
<1>6. CASE MainUnlock
  BY <1>1, <1>6 DEF MainUnlock, MutexUnlock
<1>7. CASE MainJoin
  BY <1>1, <1>7 DEF MainJoin
<1>8. QED
  BY <1>2, <1>3, <1>4, <1>5, <1>6, <1>7 DEF MainStep

LEMMA MutexWorker ==
  ASSUME NEW t \in Worker, TypeOK, MutexInv, WorkerStep(t) PROVE MutexInv'
<1>1. TypeOK'
  BY TypeWorker
<1> USE DEF TypeOK, Thread, Worker, WorkerLabel, MainLabel, At, Goto, After,
        MutexInv, NoThread
<1>2. CASE HandshakeLock(t)
  BY <1>1, <1>2 DEF HandshakeLock, MutexLock
<1>3. CASE HandshakeSignal(t)
  BY <1>1, <1>3 DEF HandshakeSignal, CondSignal, Wake
<1>4. CASE HandshakeUnlock(t)
  BY <1>1, <1>4 DEF HandshakeUnlock, MutexUnlock
<1>5. CASE Lock(t)
  BY <1>1, <1>5 DEF Lock, MutexLock
<1>6. CASE PrintTurn(t)
  BY <1>1, <1>6 DEF PrintTurn
<1>7. CASE Signal(t)
  BY <1>1, <1>7 DEF Signal, CondSignal, Wake
<1>8. CASE Wait(t)
  BY <1>1, <1>8 DEF Wait, CondPark
<1>9. CASE Resume(t)
  BY <1>1, <1>9 DEF Resume, CondResume, MutexLock
<1>10. CASE Unlock(t)
  BY <1>1, <1>10 DEF Unlock, MutexUnlock
<1>11. CASE Bye(t)
  BY <1>1, <1>11 DEF Bye
<1>12. QED
  BY <1>2, <1>3, <1>4, <1>5, <1>6, <1>7, <1>8, <1>9, <1>10, <1>11 DEF WorkerStep

LEMMA TurnMain ==
  ASSUME TypeOK, SyncInv, TurnInv, MainStep PROVE TurnInv'
<1>1. TypeOK'
  BY TypeMain
<1>2. owner' = [owner EXCEPT !["sync_mutex"] = owner'["sync_mutex"]]
      /\ waiting'["gcond"] = waiting["gcond"]
  BY DEF MainStep, MainLock, MainCreate, MainWait, MainResume, MainUnlock, MainJoin,
         MutexLock, MutexUnlock, CondPark, CondResume, TypeOK
<1>3. i'["ping"] = i["ping"] /\ i'["pong"] = i["pong"]
  BY DEF MainStep, MainLock, MainCreate, MainWait, MainResume, MainUnlock, MainJoin,
         TypeOK, Thread, Worker
<1>4. \A t \in Worker :
        pc'[t] = pc[t] \/ (pc[t] = "unborn" /\ pc'[t] = "hs_lock")
  <2> USE DEF TypeOK, Thread, Worker, WorkerLabel, MainLabel, At, Goto, ThreadList,
            MutexLock, MutexUnlock, CondPark, CondResume
  <2> TAKE t \in Worker
  <2>1. CASE MainCreate
    BY <1>1, <2>1 DEF MainCreate, SyncInv, Signalled
  <2>2. CASE MainJoin
    <3>1. Signalled("ping") /\ Signalled("pong")
      BY <2>2 DEF MainJoin, SyncInv
    <3>2. pc[ThreadList[i["main"]]] # "unborn"
      BY <3>1 DEF Signalled
    <3>3. pc' = pc \/ pc' = [pc EXCEPT !["main"] = "exit"]
      BY <2>2, <3>2 DEF MainJoin
    <3>4. QED
      BY <3>3
  <2>3. CASE MainLock
    BY <2>3 DEF MainLock
  <2>4. CASE MainWait
    BY <2>4 DEF MainWait
  <2>5. CASE MainResume
    BY <2>5 DEF MainResume
  <2>6. CASE MainUnlock
    BY <2>6 DEF MainUnlock
  <2>7. QED
    BY <2>1, <2>2, <2>3, <2>4, <2>5, <2>6 DEF MainStep
<1>5. QED
  BY <1>1, <1>2, <1>3, <1>4
     DEF TurnInv, Called, Woken, Ahead, Even, Printed, At, TypeOK, Worker

LEMMA TurnPing ==
  ASSUME TypeOK, MutexInv, TurnInv, WorkerStep("ping") PROVE TurnInv'
<1>1. TypeOK'
  BY TypeWorker DEF Worker
<1> USE DEF TypeOK, Thread, Worker, WorkerLabel, MainLabel, At, Goto, After,
        MutexInv, NoThread, TurnInv, Called, Woken, Ahead, Even, Printed
<1>2. CASE HandshakeLock("ping")
  BY <1>1, <1>2 DEF HandshakeLock, MutexLock
<1>3. CASE HandshakeSignal("ping")
  BY <1>1, <1>3 DEF HandshakeSignal, CondSignal, Wake
<1>4. CASE HandshakeUnlock("ping")
  BY <1>1, <1>4 DEF HandshakeUnlock, MutexUnlock
<1>5. CASE Lock("ping")
  BY <1>1, <1>5 DEF Lock, MutexLock
<1>6. CASE PrintTurn("ping")
  BY <1>1, <1>6 DEF PrintTurn
<1>7. CASE Signal("ping")
  BY <1>1, <1>7 DEF Signal, CondSignal, Wake
<1>8. CASE Wait("ping")
  BY <1>1, <1>8 DEF Wait, CondPark
<1>9. CASE Resume("ping")
  BY <1>1, <1>9 DEF Resume, CondResume, MutexLock
<1>10. CASE Unlock("ping")
  BY <1>1, <1>10 DEF Unlock, MutexUnlock
<1>11. CASE Bye("ping")
  BY <1>1, <1>11 DEF Bye
<1>12. QED
  BY <1>2, <1>3, <1>4, <1>5, <1>6, <1>7, <1>8, <1>9, <1>10, <1>11 DEF WorkerStep

LEMMA TurnPong ==
  ASSUME TypeOK, MutexInv, TurnInv, WorkerStep("pong") PROVE TurnInv'
<1>1. TypeOK'
  BY TypeWorker DEF Worker
<1> USE DEF TypeOK, Thread, Worker, WorkerLabel, MainLabel, At, Goto, After,
        MutexInv, NoThread, TurnInv, Called, Woken, Ahead, Even, Printed
<1>2. CASE HandshakeLock("pong")
  BY <1>1, <1>2 DEF HandshakeLock, MutexLock
<1>3. CASE HandshakeSignal("pong")
  BY <1>1, <1>3 DEF HandshakeSignal, CondSignal, Wake
<1>4. CASE HandshakeUnlock("pong")
  BY <1>1, <1>4 DEF HandshakeUnlock, MutexUnlock
<1>5. CASE Lock("pong")
  BY <1>1, <1>5 DEF Lock, MutexLock
<1>6. CASE PrintTurn("pong")
  BY <1>1, <1>6 DEF PrintTurn
<1>7. CASE Signal("pong")
  BY <1>1, <1>7 DEF Signal, CondSignal, Wake
<1>8. CASE Wait("pong")
  BY <1>1, <1>8 DEF Wait, CondPark
<1>9. CASE Resume("pong")
  BY <1>1, <1>9 DEF Resume, CondResume, MutexLock
<1>10. CASE Unlock("pong")
  BY <1>1, <1>10 DEF Unlock, MutexUnlock
<1>11. CASE Bye("pong")
  BY <1>1, <1>11 DEF Bye
<1>12. QED
  BY <1>2, <1>3, <1>4, <1>5, <1>6, <1>7, <1>8, <1>9, <1>10, <1>11 DEF WorkerStep

\* The step that prints appends exactly the line whose turn it is.
LEMMA PrintsItsTurn ==
  ASSUME NEW t \in Worker, TurnsInv, PrintTurn(t)
  PROVE  /\ Len(out) < 2 * HowMany
         /\ out' = Append(out, Ideal!Line(Len(out) + 1))
<1>1. /\ Len(out) \in Nat /\ i[t] \in Nat /\ pc[t] = "print" /\ i[t] < HowMany
      /\ out' = Append(out, [who |-> t, nr |-> i[t]])
  BY DEF PrintTurn, At, TurnsInv, ProgressInv, TypeOK, RoundInv, InRounds, Thread, Worker
<1>2. Len(out) = Printed("ping") + Printed("pong")
  BY DEF TurnsInv, ProgressInv, CountInv, SyncInv
<1>3. CASE t = "ping"
  <2>1. Len(out) = 2 * i["ping"]
    <3>1. Even
      BY <1>1, <1>3 DEF TurnsInv, TurnInv
    <3>2. Printed("ping") = i["ping"]
      BY <1>1, <1>3 DEF Printed
    <3>3. QED
      BY <1>1, <1>2, <1>3, <3>1, <3>2 DEF Even
  <2>2. (Len(out) + 1) % 2 = 1 /\ Len(out) \div 2 = i["ping"]
    BY <1>1, <1>3, <2>1
  <2>3. Ideal!Line(Len(out) + 1) = [who |-> t, nr |-> i[t]]
    BY <1>1, <1>3, <2>2 DEF Ideal!Line
  <2>4. QED
    BY <1>1, <1>3, <2>1, <2>3, HowManyAssumption
<1>4. CASE t = "pong"
  <2>1. Len(out) = 2 * i["pong"] + 1
    BY <1>1, <1>2, <1>4 DEF TurnsInv, TurnInv, Called, Woken, Ahead, Even, Printed,
                            At, ProgressInv, TypeOK, Thread, Worker
  <2>2. (Len(out) + 1) % 2 # 1 /\ Len(out) \div 2 = i["pong"]
    <3>1. \A n \in Nat : (2 * n + 2) % 2 = 0 /\ (2 * n + 1) \div 2 = n
      OBVIOUS
    <3>2. PICK n \in Nat : n = i["pong"]
      BY <1>1, <1>4
    <3>3. Len(out) = 2 * n + 1 /\ Len(out) + 1 = 2 * n + 2
      BY <2>1, <3>2
    <3>4. (Len(out) + 1) % 2 = 0
      BY <3>1, <3>3, Zenon
    <3>5. Len(out) \div 2 = n
      BY <3>1, <3>3, Zenon
    <3>6. QED
      BY <3>2, <3>4, <3>5
  <2>3. Ideal!Line(Len(out) + 1) = [who |-> t, nr |-> i[t]]
    BY <1>1, <1>4, <2>2 DEF Ideal!Line
  <2>4. QED
    BY <1>1, <1>4, <2>1, <2>3, HowManyAssumption
<1>5. QED
  BY <1>3, <1>4 DEF Worker

LEMMA OutChanges ==
  ASSUME [Next]_vars, out' # out
  PROVE  \E t \in Worker : PrintTurn(t)
BY DEF Next, vars, MainStep, MainLock, MainCreate, MainWait, MainResume, MainUnlock,
       MainJoin, WorkerStep, HandshakeLock, HandshakeSignal, HandshakeUnlock, Lock,
       Signal, Wait, Resume, Unlock, Bye, Spuriously

LEMMA EnvFixed == [Next]_vars => env' = env
BY DEF Next, vars, MainStep, MainLock, MainCreate, MainWait, MainResume, MainUnlock,
       MainJoin, WorkerStep, HandshakeLock, HandshakeSignal, HandshakeUnlock, Lock,
       PrintTurn, Signal, Wait, Resume, Unlock, Bye, Spuriously

LEMMA TurnsStep ==
  ASSUME TurnsInv, [Next]_vars
  PROVE  TurnsInv'
<1>1. ProgressInv'
  BY ProgressStep DEF TurnsInv
<1>2. SyncInv' /\ MutexInv' /\ TurnInv'
  <2> USE DEF TurnsInv, ProgressInv
  <2>1. CASE MainStep
    BY <2>1, SyncMain, MutexMain, TurnMain
  <2>2. ASSUME NEW t \in Worker, WorkerStep(t)
        PROVE  SyncInv' /\ MutexInv' /\ TurnInv'
    BY <2>2, SyncWorker, MutexWorker, TurnPing, TurnPong DEF Worker
  <2>3. CASE UNCHANGED vars
    BY <2>3 DEF vars, SyncInv, MutexInv, TurnInv, Called, Woken, Ahead, Even,
                Printed, Signalled, At
  <2>4. QED
    BY <2>1, <2>2, <2>3 DEF Next, Spuriously
<1>3. InTurn'
  <2>1. CASE out' = out
    BY <2>1 DEF InTurn, TurnsInv
  <2>2. CASE out' # out
    <3>1. out' = Append(out, Ideal!Line(Len(out) + 1))
      BY <2>2, OutChanges, PrintsItsTurn
    <3>2. /\ out \in Seq([who : Worker, nr : Nat])
          /\ \A k \in 1..Len(out) : out[k] = Ideal!Line(k)
      BY DEF TurnsInv, ProgressInv, TypeOK, InTurn
    <3>3. QED
      BY <3>1, <3>2 DEF InTurn
  <2>3. QED
    BY <2>1, <2>2
<1>4. QED
  BY <1>1, <1>2, <1>3, EnvFixed DEF TurnsInv

LEMMA CalmStep == CalmInv /\ [Next]_vars => CalmInv'
  BY TurnsStep, EnvFixed DEF CalmInv

\* Unless a condition variable wakes spuriously, what the program has printed
\* is always a prefix of 0 : ping, 0 : pong, 1 : ping, ...
THEOREM InTurnAlways == Spec => []InTurn
<1>1. CalmInv => InTurn
  BY DEF CalmInv, TurnsInv, InTurn
<1>2. QED
  BY TurnsInit, CalmStep, <1>1, PTL DEF Spec

\* Without spurious wakeups the program implements the abstract alternation:
\* a step that prints is the abstract print, every other step a stutter.
THEOREM ImplementsAlternation == Spec => Alternates
<1> DEFINE shown == IF env.spurious THEN <<>> ELSE out
<1>1. Init => Ideal!Init
  BY DEF Init, Ideal!Init
<1>2. CalmInv /\ [Next]_vars => [Ideal!PrintLine]_shown
  <2> SUFFICES ASSUME CalmInv, [Next]_vars, shown' # shown PROVE Ideal!PrintLine
    OBVIOUS
  <2>1. ~env.spurious /\ env' = env /\ out' # out /\ TurnsInv
    BY EnvFixed DEF CalmInv
  <2>2. Len(out) < 2 * HowMany /\ out' = Append(out, Ideal!Line(Len(out) + 1))
    BY <2>1, OutChanges, PrintsItsTurn
  <2>3. QED
    BY <2>1, <2>2 DEF Ideal!PrintLine
<1>3. QED
  BY TurnsInit, CalmStep, <1>1, <1>2, PTL DEF Spec, Alternates, Ideal!Spec

\* Without spurious wakeups ping is started only after pong's handshake.
THEOREM StartOrder == Spec => []StartedInOrder
<1>1. CalmInv => StartedInOrder
  BY DEF CalmInv, TurnsInv, SyncInv, Signalled, StartedInOrder, ThreadList, At,
         ProgressInv, TypeOK, MainLabel, Worker
<1>2. QED
  BY TurnsInit, CalmStep, <1>1, PTL DEF Spec

\* Without spurious wakeups, when both threads are parked on gcond exactly one
\* ping is unanswered, and both are in the same round.
THEOREM LostWakeupShape == Spec => []LostMeansUnanswered
<1>1. CalmInv => LostMeansUnanswered
  <2> SUFFICES ASSUME TurnsInv, LostWakeup
               PROVE  Len(out) = 2 * i["pong"] + 1 /\ i["ping"] = i["pong"]
    BY DEF CalmInv, LostMeansUnanswered
  <2>1. At("ping", "parked") /\ At("pong", "parked")
    BY DEF LostWakeup, TurnsInv, MutexInv, Worker
  <2>2. Ahead
    BY <2>1 DEF LostWakeup, TurnsInv, TurnInv, At, Worker
  <2>3. QED
    BY <2>1, <2>2 DEF TurnsInv, ProgressInv, CountInv, SyncInv, Ahead, Printed, At,
                      TypeOK, Thread, Worker
<1>2. QED
  BY TurnsInit, CalmStep, <1>1, PTL DEF Spec
-----------------------------------------------------------------------------
(***************************************************************************)
(* The second demo, conditionvar2.cpp (module WriterReader): no wait in a  *)
(* loop there, either.  Pthread's state, declared above, is its state too. *)
(***************************************************************************)
CONSTANT Modulus
VARIABLES mydata, written, unseen, printed, spurred

WR == INSTANCE WriterReader

\* What WriterReader assumes of its constant.
ModulusOK == Modulus \in Nat \ {0}

\* The labels of each thread, and those at which it holds the mutex.
WriterLabel == {"clear", "lock", "write_a", "write_b", "signal", "unlock", "sleep"}
ReaderLabel == {"lock", "wait", "parked", "print", "unlock"}
Writing == pc["writer"] \in {"write_a", "write_b", "signal", "unlock"}
Reading == pc["reader"] \in {"wait", "print", "unlock"}

\* The mutex is held by the thread that is between its lock and its unlock, and
\* only the reader, parked, waits on the condition.
ReportMutexInv ==
  /\ pc["writer"] \in WriterLabel /\ pc["reader"] \in ReaderLabel
  /\ owner["mutex_lock"] = "writer" <=> Writing
  /\ owner["mutex_lock"] = "reader" <=> Reading

\* Outside its two assignments the writer leaves mydata as it completed it.
DataInv ==
  /\ ~WR!At("writer", "write_b") => mydata = written
  /\ WR!At("writer", "clear") => written = WR!Zero

\* What woke the reader is a write that it has not printed.
NewsInv ==
  /\ WR!At("writer", "signal") => unseen
  /\ ~spurred /\ "reader" \notin waiting["thread_cond"] /\ WR!At("reader", "parked") => unseen
  /\ ~spurred /\ WR!At("reader", "print") => unseen

ReportInv == WR!TypeOK /\ ReportMutexInv /\ DataInv /\ NewsInv

LEMMA ReportInit == ModulusOK /\ WR!Init => ReportInv
<1> SUFFICES ASSUME ModulusOK, WR!Init PROVE ReportInv
  OBVIOUS
<1> USE DEF WR!Init, WR!PthreadInit, WR!NoThread, WR!Thread
<1>1. WR!Zero \in WR!Pair
  BY DEF ModulusOK, WR!Zero, WR!Pair, WR!Number
<1>2. WR!TypeOK
  BY <1>1 DEF WR!TypeOK
<1>3. ReportMutexInv
  BY DEF ReportMutexInv, WriterLabel, ReaderLabel, Writing, Reading
<1>4. DataInv /\ NewsInv
  BY DEF DataInv, NewsInv, WR!At
<1>5. QED
  BY <1>2, <1>3, <1>4 DEF ReportInv

LEMMA WriterType == ModulusOK /\ WR!TypeOK /\ WR!Writer => WR!TypeOK'
<1> SUFFICES ASSUME ModulusOK, WR!TypeOK, WR!Writer PROVE WR!TypeOK'
  OBVIOUS
<1> USE DEF ModulusOK, WR!TypeOK, WR!Thread, WR!NoThread, WR!At, WR!Goto, WR!Pair, WR!Number, WR!Zero
<1>1. CASE WR!Clear
  BY <1>1 DEF WR!Clear
<1>2. CASE WR!WriterLock
  BY <1>2 DEF WR!WriterLock, WR!MutexLock
<1>3. CASE WR!WriteA
  BY <1>3 DEF WR!WriteA
<1>4. CASE WR!WriteB
  BY <1>4 DEF WR!WriteB
<1>5. CASE WR!WriterSignal
  BY <1>5 DEF WR!WriterSignal, WR!CondSignal, WR!Wake
<1>6. CASE WR!WriterUnlock
  BY <1>6 DEF WR!WriterUnlock, WR!MutexUnlock
<1>7. CASE WR!Sleep
  BY <1>7 DEF WR!Sleep
<1>8. QED
  BY <1>1, <1>2, <1>3, <1>4, <1>5, <1>6, <1>7 DEF WR!Writer

LEMMA ReaderType == WR!TypeOK /\ (WR!Reader \/ WR!Spuriously) => WR!TypeOK'
<1> SUFFICES ASSUME WR!TypeOK, WR!Reader \/ WR!Spuriously PROVE WR!TypeOK'
  OBVIOUS
<1> USE DEF WR!TypeOK, WR!Thread, WR!NoThread, WR!At, WR!Goto
<1>1. CASE WR!ReaderLock
  BY <1>1 DEF WR!ReaderLock, WR!MutexLock
<1>2. CASE WR!ReaderWait
  BY <1>2 DEF WR!ReaderWait, WR!CondPark
<1>3. CASE WR!ReaderResume
  BY <1>3 DEF WR!ReaderResume, WR!CondResume, WR!MutexLock
<1>4. CASE WR!Report
  BY <1>4 DEF WR!Report
<1>5. CASE WR!ReaderUnlock
  BY <1>5 DEF WR!ReaderUnlock, WR!MutexUnlock
<1>6. CASE WR!Spuriously
  BY <1>6 DEF WR!Spuriously, WR!SpuriousWakeup, WR!Wake
<1>7. QED
  BY <1>1, <1>2, <1>3, <1>4, <1>5, <1>6 DEF WR!Reader

LEMMA WriterInv == ReportInv /\ WR!Writer => ReportMutexInv' /\ DataInv' /\ NewsInv'
<1> SUFFICES ASSUME ReportInv, WR!Writer PROVE ReportMutexInv' /\ DataInv' /\ NewsInv'
  OBVIOUS
<1> USE DEF ReportInv, WR!TypeOK, ReportMutexInv, DataInv, NewsInv, WriterLabel, ReaderLabel, Writing,
        Reading, WR!Thread, WR!NoThread, WR!At, WR!Goto
<1>1. CASE WR!Clear
  BY <1>1 DEF WR!Clear
<1>2. CASE WR!WriterLock
  BY <1>2 DEF WR!WriterLock, WR!MutexLock
<1>3. CASE WR!WriteA
  BY <1>3 DEF WR!WriteA
<1>4. CASE WR!WriteB
  BY <1>4 DEF WR!WriteB
<1>5. CASE WR!WriterSignal
  BY <1>5 DEF WR!WriterSignal, WR!CondSignal, WR!Wake
<1>6. CASE WR!WriterUnlock
  BY <1>6 DEF WR!WriterUnlock, WR!MutexUnlock
<1>7. CASE WR!Sleep
  BY <1>7 DEF WR!Sleep
<1>8. QED
  BY <1>1, <1>2, <1>3, <1>4, <1>5, <1>6, <1>7 DEF WR!Writer

LEMMA ReaderInv == ReportInv /\ (WR!Reader \/ WR!Spuriously) => ReportMutexInv' /\ DataInv' /\ NewsInv'
<1> SUFFICES ASSUME ReportInv, WR!Reader \/ WR!Spuriously PROVE ReportMutexInv' /\ DataInv' /\ NewsInv'
  OBVIOUS
<1> USE DEF ReportInv, WR!TypeOK, ReportMutexInv, DataInv, NewsInv, WriterLabel, ReaderLabel, Writing,
        Reading, WR!Thread, WR!NoThread, WR!At, WR!Goto
<1>1. CASE WR!ReaderLock
  BY <1>1 DEF WR!ReaderLock, WR!MutexLock
<1>2. CASE WR!ReaderWait
  BY <1>2 DEF WR!ReaderWait, WR!CondPark
<1>3. CASE WR!ReaderResume
  BY <1>3 DEF WR!ReaderResume, WR!CondResume, WR!MutexLock
<1>4. CASE WR!Report
  BY <1>4 DEF WR!Report
<1>5. CASE WR!ReaderUnlock
  BY <1>5 DEF WR!ReaderUnlock, WR!MutexUnlock
<1>6. CASE WR!Spuriously
  BY <1>6 DEF WR!Spuriously, WR!SpuriousWakeup, WR!Wake
<1>7. QED
  BY <1>1, <1>2, <1>3, <1>4, <1>5, <1>6 DEF WR!Reader

LEMMA ReportStep == ModulusOK /\ ReportInv /\ [WR!Next]_WR!vars => ReportInv'
<1>1. ReportInv /\ UNCHANGED WR!vars => ReportInv'
  BY DEF WR!vars, ReportInv, WR!TypeOK, ReportMutexInv, DataInv, NewsInv, Writing, Reading, WR!At
<1>2. QED
  BY <1>1, WriterType, ReaderType, WriterInv, ReaderInv DEF WR!Next, ReportInv

\* Every variable keeps its type; both numbers stay below Modulus.
THEOREM ReportTypeCorrect == ASSUME ModulusOK PROVE WR!Spec => []WR!TypeOK
<1>1. ReportInv => WR!TypeOK
  BY DEF ReportInv
<1>2. QED
  BY ReportInit, ReportStep, <1>1, PTL DEF WR!Spec

\* Until a wait returns without a signal, the reader prints only what it has not
\* printed before.
THEOREM FreshReportAlways == ASSUME ModulusOK PROVE WR!Spec => []WR!FreshReport
<1>1. ReportInv => WR!FreshReport
  BY DEF ReportInv, NewsInv, WR!FreshReport
<1>2. QED
  BY ReportInit, ReportStep, <1>1, PTL DEF WR!Spec

\* The reader prints both halves of the latest completed write, also after a
\* spurious wakeup.
THEOREM WholePairAlways == ASSUME ModulusOK PROVE WR!Spec => WR!WholePair
<1>1. ReportInv /\ [WR!Next]_WR!vars => [WR!Report => printed' = written]_WR!vars
  BY DEF ReportInv, ReportMutexInv, Writing, Reading, DataInv, WR!At, WR!Report
<1>2. QED
  BY ReportInit, ReportStep, <1>1, PTL DEF WR!Spec, WR!WholePair
=============================================================================
