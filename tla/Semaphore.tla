------------------------------ MODULE Semaphore -----------------------------
(***************************************************************************)
(* class Semaphore: a counter, a mutex and a condition variable.           *)
(*                                                                         *)
(* counter_ is only touched under mutex_, so what a thread does from       *)
(* locking it to unlocking it, or to going to sleep in                     *)
(* pthread_cond_wait(), is one step.  pc[t] is                             *)
(*    "idle"    not in a call                                              *)
(*    "wait"    in Wait(), before the first test of the counter            *)
(*    "asleep"  in pthread_cond_wait()                                     *)
(*    "woken"   back from pthread_cond_wait(), before the next test        *)
(***************************************************************************)
EXTENDS Integers, FiniteSets

CONSTANTS Threads,     \* the threads that call Wait(), TryWait() and Signal()
          InitValue,   \* initValue of the constructor
          MaxSignals   \* bound on the number of calls of Signal()

ASSUME SemaphoreAssumption ==
    /\ IsFiniteSet(Threads)
    /\ InitValue \in Nat
    /\ MaxSignals \in Nat

VARIABLES counter,  \* counter_
          pc,       \* where each thread is
          signals   \* the number of calls of Signal() so far

semaphoreVars == <<counter, pc, signals>>

SemaphoreTypeOK ==
    /\ counter \in Nat
    /\ pc \in [Threads -> {"idle", "wait", "asleep", "woken"}]
    /\ signals \in 0..MaxSignals

SemaphoreInit ==
    /\ counter = InitValue
    /\ pc = [t \in Threads |-> "idle"]
    /\ signals = 0

Asleep == {t \in Threads : pc[t] = "asleep"}
Woken  == {t \in Threads : pc[t] = "woken"}

-----------------------------------------------------------------------------
CallWait(t) ==
    /\ pc[t] = "idle"
    /\ pc' = [pc EXCEPT ![t] = "wait"]
    /\ UNCHANGED <<counter, signals>>

\* while (counter_ <= 0) sleep; counter_--;
TestCounter(t) ==
    /\ pc[t] \in {"wait", "woken"}
    /\ IF counter > 0
       THEN pc' = [pc EXCEPT ![t] = "idle"]   /\ counter' = counter - 1
       ELSE pc' = [pc EXCEPT ![t] = "asleep"] /\ counter' = counter
    /\ UNCHANGED signals

TryWait(t) ==
    /\ pc[t] = "idle"
    /\ counter' = IF counter > 0 THEN counter - 1 ELSE counter
    /\ UNCHANGED <<pc, signals>>

\* pthread_cond_signal() wakes one of the sleeping threads, if there is one.
CondSignal ==
    \/ Asleep = {} /\ UNCHANGED pc
    \/ \E t \in Asleep : pc' = [pc EXCEPT ![t] = "woken"]

\* Slip: the condition is signalled only when the counter leaves zero.
Signal_FromZero(t) ==
    /\ pc[t] = "idle"
    /\ signals < MaxSignals
    /\ signals' = signals + 1
    /\ counter' = counter + 1
    /\ IF counter = 0 THEN CondSignal ELSE UNCHANGED pc

\* Slip: waking a thread adds a permit of its own.
Signal_Twice(t) ==
    /\ pc[t] = "idle"
    /\ signals < MaxSignals
    /\ signals' = signals + 1
    /\ counter' = IF Asleep = {} THEN counter + 1 ELSE counter + 2
    /\ CondSignal

Signal(t) ==
    /\ pc[t] = "idle"
    /\ signals < MaxSignals
    /\ signals' = signals + 1
    /\ counter' = counter + 1
    /\ CondSignal

\* pthread_cond_wait() may also return without a signal.
SpuriousWakeUp(t) ==
    /\ pc[t] = "asleep"
    /\ pc' = [pc EXCEPT ![t] = "woken"]
    /\ UNCHANGED <<counter, signals>>

\* The system rests when no Signal() is left and nobody can go on.
Resting ==
    /\ signals = MaxSignals
    /\ \A t \in Threads : pc[t] = "asleep"
    /\ UNCHANGED semaphoreVars

SemaphoreNext ==
    \/ \E t \in Threads :
          CallWait(t) \/ TestCounter(t) \/ TryWait(t) \/ Signal(t) \/ SpuriousWakeUp(t)
    \/ Resting

SemaphoreSpec == SemaphoreInit /\ [][SemaphoreNext]_semaphoreVars

\* A thread that is awake inside Wait() gets mutex_ in the end.
SemaphoreFairSpec == SemaphoreSpec /\ \A t \in Threads : WF_semaphoreVars(TestCounter(t))

-----------------------------------------------------------------------------
\* No wake-up is lost: as long as a thread sleeps, every permit in the counter
\* is matched by a thread that was woken and has not tested the counter yet.
\* Threads that take a permit in between only make a woken one sleep again.
NoLostWakeUp == Asleep # {} => counter <= Cardinality(Woken)

\* Wait() and Signal() implement taking and giving a permit, however often
\* waiting threads are woken in between.
Counting == INSTANCE CountingSemaphore WITH InitialPermits <- InitValue, permits <- counter
CountsPermits == Counting!PermitsSpec

\* A permit does not stay unused while threads wait for one.
PermitsAreUsed ==
    LET Waiting == {t \in Threads : pc[t] # "idle"}
    IN  (counter > 0 /\ Waiting # {}) ~> (counter = 0 \/ Waiting = {})
=============================================================================
