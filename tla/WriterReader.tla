---------------------------- MODULE WriterReader ----------------------------
(***************************************************************************)
(* cxx/tests64/conditionvar2.cpp: a writer that puts a pair of random      *)
(* numbers into the shared mydata every two seconds, and a reader that     *)
(* prints the pair each time it is woken.  Both loop for ever.             *)
(***************************************************************************)
EXTENDS Integers, Pthread

CONSTANT Modulus   \* the random numbers are taken % Modulus, 6000 in the code

ASSUME ModulusAssumption == Modulus \in Nat \ {0}

Thread == {"writer", "reader"}
Number == 0 .. Modulus - 1
Pair == [a : Number, b : Number]

VARIABLES
  pc,        \* the call each thread makes next
  mydata,    \* the shared struct com_data
  written,   \* history: the last pair the writer completed
  unseen,    \* history: written has not been printed yet
  printed,   \* history: the last printed pair, after every print
  spurred    \* history: a wait has returned without a signal

vars == <<owner, waiting, pc, mydata, written, unseen, printed, spurred>>

At(t, label) == pc[t] = label
Goto(t, label) == pc' = [pc EXCEPT ![t] = label]

Zero == [a |-> 0, b |-> 0]

\* mydata is a global and starts as zero.
Init ==
  /\ PthreadInit({"mutex_lock"}, {"thread_cond"})
  /\ pc = [t \in Thread |-> IF t = "writer" THEN "clear" ELSE "lock"]
  /\ mydata = Zero
  /\ written = Zero
  /\ unseen = FALSE
  /\ printed = Zero
  /\ spurred = FALSE
-----------------------------------------------------------------------------
(* do_write *)

\* Lines 24 and 25 clear the struct before the loop, without the mutex.
Clear ==
  /\ At("writer", "clear")
  /\ mydata' = Zero
  /\ Goto("writer", "lock")
  /\ UNCHANGED <<owner, waiting, written, unseen, printed, spurred>>

\* Mutant: the writer does not take the mutex.
WriterLock_None ==
  /\ At("writer", "lock")
  /\ Goto("writer", "write_a")
  /\ UNCHANGED <<owner, waiting, mydata, written, unseen, printed, spurred>>

WriterLock ==
  /\ At("writer", "lock")
  /\ MutexLock("writer", "mutex_lock")
  /\ Goto("writer", "write_a")
  /\ UNCHANGED <<mydata, written, unseen, printed, spurred>>

WriteA ==
  /\ At("writer", "write_a")
  /\ \E n \in Number : mydata' = [mydata EXCEPT !.a = n]
  /\ Goto("writer", "write_b")
  /\ UNCHANGED <<owner, waiting, written, unseen, printed, spurred>>

WriteB ==
  /\ At("writer", "write_b")
  /\ \E n \in Number : mydata' = [mydata EXCEPT !.b = n]
  /\ written' = mydata'
  /\ unseen' = TRUE
  /\ Goto("writer", "signal")
  /\ UNCHANGED <<owner, waiting, printed, spurred>>

\* Mutant: the writer does not signal.
WriterSignal_Missing ==
  /\ At("writer", "signal")
  /\ Goto("writer", "unlock")
  /\ UNCHANGED <<owner, waiting, mydata, written, unseen, printed, spurred>>

WriterSignal ==
  /\ At("writer", "signal")
  /\ CondSignal("thread_cond")
  /\ Goto("writer", "unlock")
  /\ UNCHANGED <<mydata, written, unseen, printed, spurred>>

WriterUnlock ==
  /\ At("writer", "unlock")
  /\ MutexUnlock("mutex_lock")
  /\ Goto("writer", "sleep")
  /\ UNCHANGED <<mydata, written, unseen, printed, spurred>>

Sleep ==
  /\ At("writer", "sleep")
  /\ Goto("writer", "lock")
  /\ UNCHANGED <<owner, waiting, mydata, written, unseen, printed, spurred>>

Writer ==
  Clear \/ WriterLock \/ WriteA \/ WriteB \/ WriterSignal \/ WriterUnlock \/ Sleep
-----------------------------------------------------------------------------
(* do_read *)

ReaderLock ==
  /\ At("reader", "lock")
  /\ MutexLock("reader", "mutex_lock")
  /\ Goto("reader", "wait")
  /\ UNCHANGED <<mydata, written, unseen, printed, spurred>>

\* Mutant: the reader prints without waiting.
ReaderWait_Skipped ==
  /\ At("reader", "wait")
  /\ Goto("reader", "print")
  /\ UNCHANGED <<owner, waiting, mydata, written, unseen, printed, spurred>>

ReaderWait ==
  /\ At("reader", "wait")
  /\ CondPark("reader", "thread_cond", "mutex_lock")
  /\ Goto("reader", "parked")
  /\ UNCHANGED <<mydata, written, unseen, printed, spurred>>

ReaderResume ==
  /\ At("reader", "parked")
  /\ CondResume("reader", "thread_cond", "mutex_lock")
  /\ Goto("reader", "print")
  /\ UNCHANGED <<mydata, written, unseen, printed, spurred>>

Report ==
  /\ At("reader", "print")
  /\ printed' = mydata
  /\ unseen' = FALSE
  /\ Goto("reader", "unlock")
  /\ UNCHANGED <<owner, waiting, mydata, written, spurred>>

ReaderUnlock ==
  /\ At("reader", "unlock")
  /\ MutexUnlock("mutex_lock")
  /\ Goto("reader", "lock")
  /\ UNCHANGED <<mydata, written, unseen, printed, spurred>>

Reader == ReaderLock \/ ReaderWait \/ ReaderResume \/ Report \/ ReaderUnlock

\* pthread_cond_wait may return without a signal.
Spuriously ==
  /\ SpuriousWakeup("thread_cond")
  /\ spurred' = TRUE
  /\ UNCHANGED <<pc, mydata, written, unseen, printed>>

Next == Writer \/ Reader \/ Spuriously

Spec == Init /\ [][Next]_vars

\* The scheduler runs both threads.  The mutex is free for the two seconds
\* the writer sleeps, so a reader that wants it gets it: strong fairness of
\* the reader.
FairSpec == Spec /\ WF_vars(Writer) /\ SF_vars(Reader)
-----------------------------------------------------------------------------
\* Type invariant.
TypeOK ==
  /\ owner \in [{"mutex_lock"} -> Thread \cup {NoThread}]
  /\ waiting \in [{"thread_cond"} -> SUBSET {"reader"}]
  /\ pc \in [Thread -> {"clear", "lock", "write_a", "write_b", "signal", "unlock",
                        "sleep", "wait", "parked", "print"}]
  /\ {mydata, written, printed} \subseteq Pair
  /\ {unseen, spurred} \subseteq BOOLEAN

\* The reader prints both halves of one write, and of the latest one: never a
\* from one write with b from another, even after a spurious wakeup.
WholePair == [][Report => printed' = written]_vars

\* Until the first spurious wakeup no write is reported twice, and nothing is
\* reported before the first write: the single unconditional wait stands in
\* for a "new data" flag.
FreshReport == ~spurred /\ At("reader", "print") => unseen

\* The reader keeps reporting.  It may miss writes, but it is never parked for
\* good: there is always a later write to wake it.
KeepsReporting == []<><<Report>>_vars
=============================================================================
