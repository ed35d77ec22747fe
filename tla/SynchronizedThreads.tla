------------------------ MODULE SynchronizedThreads -------------------------
(***************************************************************************)
(* A producing and a consuming thread that use one ThreadSynchronizer the  *)
(* way its header tells them to, while other threads call SetAbort().  The *)
(* buffer they guard is abstracted: whether a visit ends with              *)
(* UnlockSuccess or UnlockFailure is the client's choice, limited by the   *)
(* rule that both sides never find themselves blocked at once.             *)
(***************************************************************************)
EXTENDS ThreadSynchronizer

CONSTANT MaxSetAbort   \* bound on the number of calls of SetAbort()

ASSUME MaxSetAbortAssumption == MaxSetAbort \in Nat

VARIABLES held_by,     \* held_by_
          raising,     \* SetAbort() calls between the flag and the signals
          set_aborts,  \* SetAbort() calls made so far
          num_errors   \* num_errors_

vars == <<syncVars, held_by, raising, set_aborts, num_errors>>

TypeOK ==
    /\ SyncTypeOK
    /\ held_by \in ThreadType
    /\ raising \in Nat
    /\ set_aborts \in 0..MaxSetAbort
    /\ num_errors \in Nat

\* The constructor does not initialise held_by_.
Init ==
    /\ SyncInit
    /\ held_by \in ThreadType
    /\ raising = 0
    /\ set_aborts = 0
    /\ num_errors = 0

-----------------------------------------------------------------------------
Call(t) ==
    /\ at[t] = "outside"   \* a client that was refused returns from its thread
    /\ CallLock(t)
    /\ UNCHANGED <<held_by, raising, set_aborts, num_errors>>

\* held_by_ = t follows mutex_.Lock().
Inside(t) ==
    /\ RunInside(t)
    /\ held_by' = IF at[t] = "lock" THEN t ELSE held_by
    /\ UNCHANGED <<raising, set_aborts, num_errors>>

Success(t) ==
    /\ UnlockSuccess(t)
    /\ UNCHANGED <<held_by, raising, set_aborts, num_errors>>

Failure(t) ==
    /\ UnlockFailure(t)
    /\ UNCHANGED <<held_by, raising, set_aborts, num_errors>>

\* A client that keeps the rule of the header.
RuleFailure(t) == ~waiting[Other(t)] /\ Failure(t)

SetAbortFlag ==
    /\ set_aborts < MaxSetAbort
    /\ set_aborts' = set_aborts + 1
    /\ RaiseAbort
    /\ raising' = raising + 1
    /\ UNCHANGED <<held_by, num_errors>>

SetAbortSignal ==
    /\ raising > 0
    /\ SignalAbort
    /\ raising' = raising - 1
    /\ UNCHANGED <<held_by, set_aborts, num_errors>>

\* The system rests when both threads were refused.
Stopped ==
    /\ \A t \in ThreadType : at[t] = "refused"
    /\ raising = 0
    /\ UNCHANGED vars

Thread(t) == Call(t) \/ Inside(t) \/ Success(t)

Next ==
    \/ \E t \in ThreadType : Thread(t) \/ RuleFailure(t)
    \/ SetAbortFlag
    \/ SetAbortSignal
    \/ Stopped

\* Clients that do not keep the rule.
UnruledNext ==
    \/ \E t \in ThreadType : Thread(t) \/ Failure(t)
    \/ SetAbortFlag
    \/ SetAbortSignal
    \/ Stopped

Spec == Init /\ [][Next]_vars

UnruledSpec == Init /\ [][UnruledNext]_vars

\* Each thread goes on as long as it can; SetAbort() runs to its end.
Fairness ==
    /\ \A t \in ThreadType : WF_vars(Thread(t) \/ RuleFailure(t))
    /\ WF_vars(SetAbortSignal)

FairSpec == Spec /\ Fairness

-----------------------------------------------------------------------------
(* Safety                                                                  *)

\* Where a thread has passed its semaphore and not yet given it back.
InHand(t) == at[t] \in {"retest", "lock", "tested", "locked"}

\* Between a successful mutex_.Lock() and the matching mutex_.Unlock().
HoldsMutex(t) == at[t] \in {"tested", "locked", "unlock"}

\* mutex_ is held by exactly the thread that is between its Lock and its
\* Unlock, whatever SetAbort() does in between: the early "return false" paths
\* of Lock() free it.
MutexInv == \A t \in ThreadType : (mutex = t) <=> HoldsMutex(t)

\* Until an abort each side owns exactly one token: it is in its semaphore, in
\* its hand, or owed to it by the other side (its waiting flag).  A signal lost
\* or given twice by UnlockSuccess/UnlockFailure would break the count: the
\* thread would hang, or enter again without the other one's success.
TokenInv ==
    ~abort => \A t \in ThreadType :
                 semaphore[t] + (IF InHand(t) THEN 1 ELSE 0)
                              + (IF waiting[t] THEN 1 ELSE 0) = 1

\* The assertions "unlocking a mutex you don't hold" and "code error" of
\* UnlockFailure() cannot fail, even when SetAbort() adds signals to the
\* semaphore of a thread that is already owed one: the flag is set first.
AssertionsHold ==
    \A t \in ThreadType : at[t] = "locked" => held_by = t /\ ~waiting[t]

\* What the header says of num_errors_ and of UnlockFailure(): when both sides
\* unlocked with failure in turn, this has been counted (and warned about).
BothFailuresCounted ==
    (waiting["producer"] /\ waiting["consumer"]) => num_errors > 0

-----------------------------------------------------------------------------
(* Refinement of the abstract specification                                *)

Turns == INSTANCE TurnTaking WITH
    holder  <- IF at["producer"] = "locked" THEN "producer"
               ELSE IF at["consumer"] = "locked" THEN "consumer" ELSE "none",
    blocked <- {t \in ThreadType : waiting[t]},
    aborted <- abort

\* The object gives its clients turns as TurnTaking describes them: one at a
\* time, a failed one only after the other's success, nobody after an abort.
TakesTurns == Turns!TurnSpec

-----------------------------------------------------------------------------
(* Liveness                                                                *)

\* A thread that unlocked with failure is owed a wake-up, and gets it.
WakeUpComes == \A t \in ThreadType : waiting[t] ~> (~waiting[t] \/ abort)

\* SetAbort() frees every thread: whoever is in the object, waiting for the
\* semaphore or the mutex included, leaves it.
AbortFreesThreads ==
    \A t \in ThreadType : abort ~> (at[t] = "refused")
=============================================================================
