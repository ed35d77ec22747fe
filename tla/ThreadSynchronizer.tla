------------------------- MODULE ThreadSynchronizer -------------------------
(***************************************************************************)
(* class ThreadSynchronizer: a mutex with Lock, UnlockSuccess and          *)
(* UnlockFailure, shared by one producing and one consuming thread.        *)
(*                                                                         *)
(* The module holds the object's members and its operations.  An operation *)
(* is split at every point where the other thread, or a SetAbort() of a    *)
(* third thread, can be told apart; at[t] is the statement that thread t   *)
(* executes next inside the object:                                        *)
(*    "outside"     not in a call; the last unlock returned true           *)
(*    "wait"        Lock(): waiting for its semaphore                      *)
(*    "retest"      Lock(): the second test of abort_                      *)
(*    "lock"        Lock(): waiting for mutex_                             *)
(*    "tested"      Lock(): the last test of abort_, mutex_ held           *)
(*    "locked"      Lock() has returned true                               *)
(*    "unlock"      UnlockSuccess/UnlockFailure(): about to free mutex_    *)
(*    "return"      UnlockSuccess/UnlockFailure(): about to read abort_    *)
(*    "refused"     Lock() or the unlock has returned false                *)
(* Semaphores are counters here; mutex_ is the name of its holder.         *)
(* held_by_, which only the assertions read, is in SynchronizedThreads.    *)
(***************************************************************************)
EXTENDS Integers

VARIABLES abort,      \* abort_
          waiting,    \* producer_waiting_, consumer_waiting_
          mutex,      \* mutex_: the thread that holds it, or "none"
          semaphore,  \* counters of producer_semaphore_, consumer_semaphore_
          at          \* where each thread is inside this object

syncVars == <<abort, waiting, mutex, semaphore, at>>

ThreadType == {"producer", "consumer"}

Other(t) == IF t = "producer" THEN "consumer" ELSE "producer"

Places == {"outside", "wait", "retest", "lock", "tested",
           "locked", "unlock", "return", "refused"}

SyncTypeOK ==
    /\ abort \in BOOLEAN
    /\ waiting \in [ThreadType -> BOOLEAN]
    /\ mutex \in ThreadType \cup {"none"}
    /\ semaphore \in [ThreadType -> Nat]
    /\ at \in [ThreadType -> Places]

\* The constructor signals both semaphores once.
SyncInit ==
    /\ abort = FALSE
    /\ waiting = [t \in ThreadType |-> FALSE]
    /\ mutex = "none"
    /\ semaphore = [t \in ThreadType |-> 1]
    /\ at = [t \in ThreadType |-> "outside"]

Goto(t, place) == at' = [at EXCEPT ![t] = place]

-----------------------------------------------------------------------------
(* Lock(t)                                                                 *)

\* The call and its first test of abort_.
CallLock(t) ==
    /\ at[t] \in {"outside", "refused"}
    /\ Goto(t, IF abort THEN "refused" ELSE "wait")
    /\ UNCHANGED <<abort, waiting, mutex, semaphore>>

WaitSemaphore(t) ==
    /\ at[t] = "wait"
    /\ semaphore[t] > 0
    /\ semaphore' = [semaphore EXCEPT ![t] = @ - 1]
    /\ Goto(t, "retest")
    /\ UNCHANGED <<abort, waiting, mutex>>

\* The test of abort_ between the semaphore and the mutex.
RetestAbort(t) ==
    /\ at[t] = "retest"
    /\ Goto(t, IF abort THEN "refused" ELSE "lock")
    /\ UNCHANGED <<abort, waiting, mutex, semaphore>>

LockMutex(t) ==
    /\ at[t] = "lock"
    /\ mutex = "none"
    /\ mutex' = t
    /\ Goto(t, "tested")
    /\ UNCHANGED <<abort, waiting, semaphore>>

\* The last test of abort_: mutex_ is given back if it is set.
FinishLock(t) ==
    /\ at[t] = "tested"
    /\ IF abort
       THEN mutex' = "none" /\ Goto(t, "refused")
       ELSE mutex' = mutex  /\ Goto(t, "locked")
    /\ UNCHANGED <<abort, waiting, semaphore>>

-----------------------------------------------------------------------------
(* UnlockSuccess(t) and UnlockFailure(t)                                   *)

\* Slip: the other side is woken but its flag is not reset.
UnlockSuccess_KeepsFlag(t) ==
    /\ at[t] = "locked"
    /\ semaphore' = [s \in ThreadType |->
                        IF s = t \/ waiting[s] THEN semaphore[s] + 1
                                               ELSE semaphore[s]]
    /\ Goto(t, "unlock")
    /\ UNCHANGED <<abort, waiting, mutex>>

\* Slip: the other side is not woken.
UnlockSuccess_NoWakeUp(t) ==
    /\ at[t] = "locked"
    /\ semaphore' = [semaphore EXCEPT ![t] = @ + 1]
    /\ Goto(t, "unlock")
    /\ UNCHANGED <<abort, waiting, mutex>>

\* Both signals and the reset of the flag happen under mutex_, which the
\* woken thread needs before it can look at anything: one step.
UnlockSuccess(t) ==
    /\ at[t] = "locked"
    /\ semaphore' = [s \in ThreadType |->
                        IF s = t \/ waiting[s] THEN semaphore[s] + 1
                                               ELSE semaphore[s]]
    /\ waiting' = [waiting EXCEPT ![Other(t)] = FALSE]
    /\ Goto(t, "unlock")
    /\ UNCHANGED <<abort, mutex>>

\* Slip: the failing side gives itself a signal.
UnlockFailure_SignalsSelf(t) ==
    /\ at[t] = "locked"
    /\ waiting' = [waiting EXCEPT ![t] = TRUE]
    /\ semaphore' = [semaphore EXCEPT ![t] = @ + 1]
    /\ Goto(t, "unlock")
    /\ UNCHANGED <<abort, mutex>>

UnlockFailure(t) ==
    /\ at[t] = "locked"
    /\ waiting' = [waiting EXCEPT ![t] = TRUE]
    /\ Goto(t, "unlock")
    /\ UNCHANGED <<abort, mutex, semaphore>>

UnlockMutex(t) ==
    /\ at[t] = "unlock"
    /\ mutex' = "none"
    /\ Goto(t, "return")
    /\ UNCHANGED <<abort, waiting, semaphore>>

\* return !abort_;
ReturnFromUnlock(t) ==
    /\ at[t] = "return"
    /\ Goto(t, IF abort THEN "refused" ELSE "outside")
    /\ UNCHANGED <<abort, waiting, mutex, semaphore>>

\* Everything the object does by itself once it has been called.
RunInside(t) ==
    \/ WaitSemaphore(t) \/ RetestAbort(t) \/ LockMutex(t) \/ FinishLock(t)
    \/ UnlockMutex(t) \/ ReturnFromUnlock(t)

-----------------------------------------------------------------------------
(* SetAbort(): the flag first, then a signal for each semaphore.           *)

\* Slip: the flag is never set.
RaiseAbort_NoFlag ==
    UNCHANGED <<abort, waiting, mutex, semaphore, at>>

\* Slip: only the producer is signalled.
SignalAbort_ProducerOnly ==
    /\ semaphore' = [semaphore EXCEPT !["producer"] = @ + 1]
    /\ UNCHANGED <<abort, waiting, mutex, at>>

RaiseAbort ==
    /\ abort' = TRUE
    /\ UNCHANGED <<waiting, mutex, semaphore, at>>

SignalAbort ==
    /\ semaphore' = [t \in ThreadType |-> semaphore[t] + 1]
    /\ UNCHANGED <<abort, waiting, mutex, at>>
=============================================================================
