------------------------------ MODULE PingPong ------------------------------
(***************************************************************************)
(* cxx/tests64/conditionvar.cpp: main starts the threads pong and ping,    *)
(* one after the other, waiting each time on sync_cond until the new       *)
(* thread has signalled it; then the two threads take HowMany turns at     *)
(* printing, each waking the other through gcond.  Neither wait of the     *)
(* program re-checks a condition in a loop.                                *)
(***************************************************************************)
EXTENDS Integers, Sequences, Pthread

CONSTANT HowMany   \* howmany, 10 in the code

ASSUME HowManyAssumption == HowMany \in Nat \ {0}

Worker == {"ping", "pong"}
Thread == Worker \cup {"main"}

\* thread_list: pong is started first.
ThreadList == [k \in 0..1 |-> IF k = 0 THEN "pong" ELSE "ping"]

VARIABLES
  pc,    \* the call each thread makes next
  i,     \* the loop variable of main, ping and pong
  out,   \* the lines printed so far
  env    \* the platform of this behaviour, which no step changes

vars == <<owner, waiting, pc, i, out, env>>

\* May pthread_cond_wait return without a signal?  May pthread_create fail?
Platform == [spurious : BOOLEAN, createMayFail : BOOLEAN]
Calm == env = [spurious |-> FALSE, createMayFail |-> FALSE]

Goto(t, label) == pc' = [pc EXCEPT ![t] = label]
At(t, label) == pc[t] = label

Init ==
  /\ PthreadInit({"sync_mutex", "gmutex"}, {"sync_cond", "gcond"})
  /\ pc = [t \in Thread |-> IF t = "main" THEN "lock" ELSE "unborn"]
  /\ i = [t \in Thread |-> 0]
  /\ out = <<>>
  /\ env \in Platform
-----------------------------------------------------------------------------
(* main *)

MainLock ==
  /\ At("main", "lock")
  /\ MutexLock("main", "sync_mutex")
  /\ Goto("main", "create")
  /\ UNCHANGED <<i, out, env>>

\* pthread_create reports an error by a positive number, which the code's
\* "< 0" does not see: main goes on to wait as if the thread existed.
MainCreate ==
  /\ At("main", "create")
  /\ \/ pc' = [pc EXCEPT !["main"] = "wait", ![ThreadList[i["main"]]] = "hs_lock"]
     \/ env.createMayFail /\ Goto("main", "wait")
  /\ UNCHANGED <<owner, waiting, i, out, env>>

\* Mutant: main goes on without waiting for the handshake.
MainWait_Skipped ==
  /\ At("main", "wait")
  /\ Goto("main", "unlock")
  /\ UNCHANGED <<owner, waiting, i, out, env>>

MainWait ==
  /\ At("main", "wait")
  /\ CondPark("main", "sync_cond", "sync_mutex")
  /\ Goto("main", "parked")
  /\ UNCHANGED <<i, out, env>>

MainResume ==
  /\ At("main", "parked")
  /\ CondResume("main", "sync_cond", "sync_mutex")
  /\ Goto("main", "unlock")
  /\ UNCHANGED <<i, out, env>>

\* The unlock, and the step of the loop over thread_list.
MainUnlock ==
  /\ At("main", "unlock")
  /\ MutexUnlock("sync_mutex")
  /\ IF i["main"] + 1 < 2
       THEN i' = [i EXCEPT !["main"] = @ + 1] /\ Goto("main", "lock")
       ELSE i' = [i EXCEPT !["main"] = 0] /\ Goto("main", "join")
  /\ UNCHANGED <<out, env>>

\* Mutant: only the first thread is joined.
MainJoin_FirstOnly ==
  /\ At("main", "join")
  /\ At(ThreadList[i["main"]], "done")
  /\ Goto("main", "exit")
  /\ UNCHANGED <<owner, waiting, i, out, env>>

\* A join of a thread that was never created is undefined: tident[i] is
\* still 0 and the process dies on it.
MainJoin ==
  /\ At("main", "join")
  /\ LET t == ThreadList[i["main"]] IN
       \/ /\ At(t, "done")
          /\ IF i["main"] + 1 < 2
               THEN i' = [i EXCEPT !["main"] = @ + 1] /\ UNCHANGED pc
               ELSE UNCHANGED i /\ Goto("main", "exit")
       \/ /\ At(t, "unborn")
          /\ pc' = [u \in Thread |-> "crashed"]
          /\ UNCHANGED i
  /\ UNCHANGED <<owner, waiting, out, env>>

MainStep ==
  MainLock \/ MainCreate \/ MainWait \/ MainResume \/ MainUnlock \/ MainJoin
-----------------------------------------------------------------------------
(* The handshake with main that ping and pong both begin with *)

HandshakeLock(t) ==
  /\ At(t, "hs_lock")
  /\ MutexLock(t, "sync_mutex")
  /\ Goto(t, "hs_signal")
  /\ UNCHANGED <<i, out, env>>

\* Mutant: the new thread forgets to signal main.
HandshakeSignal_Missing(t) ==
  /\ At(t, "hs_signal")
  /\ Goto(t, "hs_unlock")
  /\ UNCHANGED <<owner, waiting, i, out, env>>

HandshakeSignal(t) ==
  /\ At(t, "hs_signal")
  /\ CondSignal("sync_cond")
  /\ Goto(t, "hs_unlock")
  /\ UNCHANGED <<i, out, env>>

HandshakeUnlock(t) ==
  /\ At(t, "hs_unlock")
  /\ MutexUnlock("sync_mutex")
  /\ Goto(t, "lock")
  /\ UNCHANGED <<i, out, env>>
-----------------------------------------------------------------------------
(* The loop bodies: ping locks, prints, signals, waits and unlocks;  *)
(* pong locks, waits, prints, signals and unlocks.                   *)

\* Mutant: ping waits at the top of its loop, as pong does.
After_BothWaitFirst(t, label) ==
  CASE label = "lock"   -> "wait"
    [] label = "print"  -> "signal"
    [] label = "signal" -> "unlock"
    [] label = "parked" -> "print"

After(t, label) ==
  CASE label = "lock"   -> IF t = "ping" THEN "print" ELSE "wait"
    [] label = "print"  -> "signal"
    [] label = "signal" -> IF t = "ping" THEN "wait" ELSE "unlock"
    [] label = "parked" -> IF t = "ping" THEN "unlock" ELSE "print"

Lock(t) ==
  /\ At(t, "lock")
  /\ MutexLock(t, "gmutex")
  /\ Goto(t, After(t, "lock"))
  /\ UNCHANGED <<i, out, env>>

PrintTurn(t) ==
  /\ At(t, "print")
  /\ out' = Append(out, [who |-> t, nr |-> i[t]])
  /\ Goto(t, After(t, "print"))
  /\ UNCHANGED <<owner, waiting, i, env>>

Signal(t) ==
  /\ At(t, "signal")
  /\ CondSignal("gcond")
  /\ Goto(t, After(t, "signal"))
  /\ UNCHANGED <<i, out, env>>

Wait(t) ==
  /\ At(t, "wait")
  /\ CondPark(t, "gcond", "gmutex")
  /\ Goto(t, "parked")
  /\ UNCHANGED <<i, out, env>>

Resume(t) ==
  /\ At(t, "parked")
  /\ CondResume(t, "gcond", "gmutex")
  /\ Goto(t, After(t, "parked"))
  /\ UNCHANGED <<i, out, env>>

\* Mutant: one round too many.
Unlock_OneRoundMore(t) ==
  /\ At(t, "unlock")
  /\ MutexUnlock("gmutex")
  /\ i' = [i EXCEPT ![t] = @ + 1]
  /\ Goto(t, IF i[t] + 1 <= HowMany THEN "lock" ELSE "bye")
  /\ UNCHANGED <<out, env>>

\* The unlock, the loop's i++ and test; ping's usleep only delays.
Unlock(t) ==
  /\ At(t, "unlock")
  /\ MutexUnlock("gmutex")
  /\ i' = [i EXCEPT ![t] = @ + 1]
  /\ Goto(t, IF i[t] + 1 < HowMany THEN "lock" ELSE "bye")
  /\ UNCHANGED <<out, env>>

\* "ping-bye" / "pong-bye", and the return.
Bye(t) ==
  /\ At(t, "bye")
  /\ Goto(t, "done")
  /\ UNCHANGED <<owner, waiting, i, out, env>>

WorkerStep(t) ==
  \/ HandshakeLock(t) \/ HandshakeSignal(t) \/ HandshakeUnlock(t)
  \/ Lock(t) \/ PrintTurn(t) \/ Signal(t) \/ Wait(t) \/ Resume(t)
  \/ Unlock(t) \/ Bye(t)
-----------------------------------------------------------------------------
Spuriously ==
  /\ env.spurious
  /\ ~At("main", "crashed")
  /\ \E c \in {"sync_cond", "gcond"} : SpuriousWakeup(c)
  /\ UNCHANGED <<pc, i, out, env>>

Next == MainStep \/ (\E t \in Worker : WorkerStep(t)) \/ Spuriously

Spec == Init /\ [][Next]_vars

\* The scheduler runs every thread that can run; nothing obliges a
\* condition variable to wake anybody spuriously.
FairSpec == Spec /\ WF_vars(MainStep) /\ \A t \in Worker : WF_vars(WorkerStep(t))
-----------------------------------------------------------------------------
WorkerLabel ==
  {"unborn", "hs_lock", "hs_signal", "hs_unlock", "lock", "print", "signal",
   "wait", "parked", "unlock", "bye", "done", "crashed"}

MainLabel ==
  {"lock", "create", "wait", "parked", "unlock", "join", "exit", "crashed"}

\* Type invariant.
TypeOK ==
  /\ owner \in [{"sync_mutex", "gmutex"} -> Thread \cup {NoThread}]
  /\ waiting \in [{"sync_cond", "gcond"} -> SUBSET Thread]
  /\ waiting["gcond"] \subseteq Worker
  /\ waiting["sync_cond"] \subseteq {"main"}
  /\ pc \in [Thread -> WorkerLabel \cup MainLabel]
  /\ pc["main"] \in MainLabel
  /\ \A t \in Worker : pc[t] \in WorkerLabel
  /\ i \in [Thread -> Nat]
  /\ i["main"] \in 0..1
  /\ out \in Seq([who : Worker, nr : Nat])
  /\ env \in Platform

\* Unless a condition variable wakes spuriously, the lines come out strictly
\* in turn: what is printed is always a prefix of 0 : ping, 0 : pong, 1 : ping,
\* ...  This rests on each thread being woken only by the other one's signal,
\* and on every signal following a print inside the same critical section of
\* gmutex.  (A platform that wakes spuriously is mapped to a silent program.)
Ideal == INSTANCE Alternation
           WITH Rounds <- HowMany, out <- IF env.spurious THEN <<>> ELSE out
InTurn == ~env.spurious => \A k \in 1..Len(out) : out[k] = Ideal!Line(k)
Alternates == Ideal!Spec

\* Both threads are parked on gcond, each expecting the other to signal.
LostWakeup == waiting["gcond"] = Worker

\* Ping signals although pong is not yet waiting: the only way to lose a
\* wakeup.  So when both are parked, exactly one printed ping is unanswered.
LostMeansUnanswered ==
  ~env.spurious /\ LostWakeup =>
    Len(out) = 2 * i["pong"] + 1 /\ i["ping"] = i["pong"]

\* No thread is started before its predecessor has signalled sync_cond:
\* main's wait returns only on that signal.
StartedInOrder ==
  ~env.spurious /\ ~At("ping", "unborn") => pc["pong"] \notin {"hs_lock", "hs_signal"}

\* main returns, and so ends the process, only after both threads have
\* returned with all their lines printed, whatever the platform does: the
\* joins of lines 47-50.
ExitsAfterBoth ==
  At("main", "exit") => /\ \A t \in Worker : At(t, "done")
                        /\ Len(out) = 2 * HowMany

\* On a calm platform the program ends unless the wakeup is lost.  It never
\* stops in any other state: no third kind of deadlock.
EndsOrLosesWakeup == Calm => <>[](At("main", "exit") \/ LostWakeup)
=============================================================================
