------------------------------ MODULE Pthread ------------------------------
(***************************************************************************)
(* The pthread mutexes and condition variables that the two condition      *)
(* variable demos (cxx/tests64/conditionvar.cpp and conditionvar2.cpp)     *)
(* call.  The library is external to the repository; each operator is the  *)
(* effect of one call as those programs rely on it:                        *)
(*                                                                         *)
(*   - a default mutex is held by at most one thread and is not fair;      *)
(*   - pthread_cond_signal moves one waiter out of the condition's wait    *)
(*     set, and is forgotten when the set is empty;                        *)
(*   - pthread_cond_wait gives the mutex up and enters the wait set in one *)
(*     step (CondPark) and, once out of the set, returns only after it has *)
(*     taken the mutex again (CondResume).                                 *)
(***************************************************************************)

VARIABLES owner,     \* owner[m]: the thread that holds mutex m, or NoThread
          waiting    \* waiting[c]: the threads parked on condition c

NoThread == "none"

\* PTHREAD_MUTEX_INITIALIZER / pthread_mutex_init and their _cond_ peers.
PthreadInit(Mutex, Cond) ==
  /\ owner = [m \in Mutex |-> NoThread]
  /\ waiting = [c \in Cond |-> {}]

MutexLock(t, m) ==
  /\ owner[m] = NoThread
  /\ owner' = [owner EXCEPT ![m] = t]
  /\ UNCHANGED waiting

MutexUnlock(m) ==
  /\ owner' = [owner EXCEPT ![m] = NoThread]
  /\ UNCHANGED waiting

\* One waiter leaves the wait set of c.
Wake(c) == \E w \in waiting[c] : waiting' = [waiting EXCEPT ![c] = @ \ {w}]

CondSignal(c) ==
  /\ \/ Wake(c)
     \/ waiting[c] = {} /\ UNCHANGED waiting
  /\ UNCHANGED owner

CondPark(t, c, m) ==
  /\ owner' = [owner EXCEPT ![m] = NoThread]
  /\ waiting' = [waiting EXCEPT ![c] = @ \cup {t}]

CondResume(t, c, m) ==
  /\ t \notin waiting[c]
  /\ MutexLock(t, m)

\* POSIX lets pthread_cond_wait return although nobody signalled.
SpuriousWakeup(c) == Wake(c) /\ UNCHANGED owner
=============================================================================
