----------------------- MODULE Synchronization_proofs -----------------------
(***************************************************************************)
(* Proofs about the two ways in which threads of the decoders and of the   *)
(* trainers wait for each other:                                           *)
(*  - a producer and a consumer sharing a ThreadSynchronizer, for every    *)
(*    number of SetAbort() calls;                                          *)
(*  - class Semaphore, for any number of threads and of signals: it        *)
(*    implements a count of permits, and no wake-up is lost.               *)
(* The two specifications share no variable; each theorem is about one.    *)
(***************************************************************************)
EXTENDS SynchronizedThreads, Semaphore, FiniteSetTheorems, TLAPS

\* A signal of SetAbort() is pending only after its flag was set.
RaisingInv == raising > 0 => abort

\* held_by_ names the thread that is past its mutex_.Lock().
HeldByInv ==
    \A t \in ThreadType : at[t] \in {"tested", "locked"} => held_by = t

\* The inductive invariant: the checked invariants, and how held_by_ and the
\* pending signals of SetAbort() relate to them.
IInv ==
    /\ TypeOK
    /\ RaisingInv
    /\ MutexInv
    /\ HeldByInv
    /\ TokenInv
    /\ AssertionsHold

-----------------------------------------------------------------------------
LEMMA OtherFact == \A t \in ThreadType : Other(t) \in ThreadType /\ Other(t) # t
BY DEF ThreadType, Other

LEMMA InitIInv == Init => IInv
<1> SUFFICES ASSUME Init PROVE IInv
  OBVIOUS
<1> USE DEF Init, SyncInit
<1>1. TypeOK
  <2>1. waiting \in [ThreadType -> BOOLEAN]
    OBVIOUS
  <2>2. semaphore \in [ThreadType -> Nat] /\ at \in [ThreadType -> Places]
    BY DEF Places
  <2>3. set_aborts \in 0..MaxSetAbort
    BY MaxSetAbortAssumption
  <2> QED BY <2>1, <2>2, <2>3 DEF TypeOK, SyncTypeOK
<1>2. RaisingInv /\ MutexInv /\ HeldByInv /\ AssertionsHold
  BY DEF RaisingInv, MutexInv, HeldByInv, AssertionsHold, HoldsMutex, ThreadType
<1>3. TokenInv
  BY DEF TokenInv, InHand
<1> QED BY <1>1, <1>2, <1>3 DEF IInv

\* Type correctness is preserved by every step.
LEMMA NextTypeOK == ASSUME TypeOK, [Next]_vars PROVE TypeOK'
<1> USE DEF TypeOK, SyncTypeOK, Places
<1>1. CASE UNCHANGED vars
  BY <1>1 DEF vars, syncVars
<1>2. ASSUME NEW t \in ThreadType, Call(t) PROVE TypeOK'
  BY <1>2 DEF Call, CallLock, Goto
<1>3. ASSUME NEW t \in ThreadType, Inside(t) PROVE TypeOK'
  <2>0. UNCHANGED <<raising, set_aborts, num_errors>> /\ RunInside(t)
        /\ held_by' = IF at[t] = "lock" THEN t ELSE held_by
    BY <1>3 DEF Inside
  <2>1. CASE RetestAbort(t)
    BY <2>0, <2>1 DEF RetestAbort, Goto
  <2>2. CASE WaitSemaphore(t)
    BY <2>0, <2>2 DEF WaitSemaphore, Goto
  <2>3. CASE LockMutex(t)
    BY <2>0, <2>3 DEF LockMutex, Goto
  <2>4. CASE FinishLock(t)
    BY <2>0, <2>4 DEF FinishLock, Goto
  <2>5. CASE UnlockMutex(t)
    BY <2>0, <2>5 DEF UnlockMutex, Goto
  <2>6. CASE ReturnFromUnlock(t)
    BY <2>0, <2>6 DEF ReturnFromUnlock, Goto
  <2> QED BY <2>0, <2>1, <2>2, <2>3, <2>4, <2>5, <2>6 DEF RunInside
<1>4. ASSUME NEW t \in ThreadType, Success(t) PROVE TypeOK'
  <2>1. semaphore' \in [ThreadType -> Nat]
    BY <1>4 DEF Success, UnlockSuccess
  <2>2. waiting' \in [ThreadType -> BOOLEAN]
    BY <1>4 DEF Success, UnlockSuccess
  <2>3. at' \in [ThreadType -> Places]
    BY <1>4 DEF Success, UnlockSuccess, Goto
  <2> QED BY <1>4, <2>1, <2>2, <2>3 DEF Success, UnlockSuccess
<1>5. ASSUME NEW t \in ThreadType, RuleFailure(t) PROVE TypeOK'
  BY <1>5 DEF RuleFailure, Failure, UnlockFailure, Goto
<1>6. CASE SetAbortFlag
  BY <1>6, MaxSetAbortAssumption DEF SetAbortFlag, RaiseAbort
<1>7. CASE SetAbortSignal
  BY <1>7 DEF SetAbortSignal, SignalAbort
<1>8. CASE Stopped
  BY <1>8 DEF Stopped, vars, syncVars
<1> QED BY <1>1, <1>2, <1>3, <1>4, <1>5, <1>6, <1>7, <1>8 DEF Next, Thread

\* The inductive step: one case per action.
LEMMA NextIInv == ASSUME IInv, [Next]_vars PROVE IInv'
<1>0. TypeOK'
  BY NextTypeOK DEF IInv
<1> SUFFICES RaisingInv' /\ MutexInv' /\ HeldByInv' /\ TokenInv' /\ AssertionsHold'
  BY <1>0 DEF IInv
<1> USE DEF IInv, TypeOK, SyncTypeOK, Places, RaisingInv, MutexInv, HeldByInv, TokenInv,
            AssertionsHold, HoldsMutex, InHand
<1>1. CASE UNCHANGED vars
  BY <1>1 DEF vars, syncVars
<1>2. ASSUME NEW t \in ThreadType, Call(t)
      PROVE RaisingInv' /\ MutexInv' /\ HeldByInv' /\ TokenInv' /\ AssertionsHold'
  BY <1>2 DEF Call, CallLock, Goto, ThreadType
<1>3. ASSUME NEW t \in ThreadType, Inside(t)
      PROVE RaisingInv' /\ MutexInv' /\ HeldByInv' /\ TokenInv' /\ AssertionsHold'
  <2>0. UNCHANGED <<raising, set_aborts, num_errors>> /\ RunInside(t)
        /\ held_by' = IF at[t] = "lock" THEN t ELSE held_by
    BY <1>3 DEF Inside
  <2>1. CASE RetestAbort(t)
    BY <2>0, <2>1 DEF RetestAbort, Goto, ThreadType
  <2>2. CASE WaitSemaphore(t)
    BY <2>0, <2>2 DEF WaitSemaphore, Goto, ThreadType
  <2>3. CASE LockMutex(t)
    BY <2>0, <2>3 DEF LockMutex, Goto, ThreadType
  <2>4. CASE FinishLock(t)
    BY <2>0, <2>4 DEF FinishLock, Goto, ThreadType
  <2>5. CASE UnlockMutex(t)
    BY <2>0, <2>5 DEF UnlockMutex, Goto, ThreadType
  <2>6. CASE ReturnFromUnlock(t)
    BY <2>0, <2>6 DEF ReturnFromUnlock, Goto, ThreadType
  <2> QED BY <2>0, <2>1, <2>2, <2>3, <2>4, <2>5, <2>6 DEF RunInside
<1>4. ASSUME NEW t \in ThreadType, Success(t)
      PROVE RaisingInv' /\ MutexInv' /\ HeldByInv' /\ TokenInv' /\ AssertionsHold'
  BY <1>4, OtherFact DEF Success, UnlockSuccess, Goto, ThreadType, Other
<1>5. ASSUME NEW t \in ThreadType, RuleFailure(t)
      PROVE RaisingInv' /\ MutexInv' /\ HeldByInv' /\ TokenInv' /\ AssertionsHold'
  BY <1>5 DEF RuleFailure, Failure, UnlockFailure, Goto, ThreadType
<1>6. CASE SetAbortFlag
  BY <1>6 DEF SetAbortFlag, RaiseAbort, ThreadType
<1>7. CASE SetAbortSignal
  BY <1>7 DEF SetAbortSignal, SignalAbort, ThreadType
<1>8. CASE Stopped
  BY <1>8 DEF Stopped, vars, syncVars
<1> QED BY <1>1, <1>2, <1>3, <1>4, <1>5, <1>6, <1>7, <1>8 DEF Next, Thread

\* Every behaviour of the two threads keeps the inductive invariant.
THEOREM AlwaysIInv == Spec => []IInv
<1>1. Init => IInv
  BY InitIInv
<1>2. IInv /\ [Next]_vars => IInv'
  BY NextIInv
<1> QED BY <1>1, <1>2, PTL DEF Spec

-----------------------------------------------------------------------------
\* The members of the synchronizer keep their types.
THEOREM TypeCorrect == Spec => []TypeOK
<1>1. IInv => TypeOK
  BY DEF IInv
<1> QED BY <1>1, AlwaysIInv, PTL

\* mutex_ is freed on every path out of Lock() and the unlocks, and held by the
\* thread that is between them: the two threads exclude each other.
THEOREM MutualExclusion == Spec => []MutexInv
<1>1. IInv => MutexInv
  BY DEF IInv
<1> QED BY <1>1, AlwaysIInv, PTL

\* No wake-up is lost or given twice before an abort.
THEOREM TokensConserved == Spec => []TokenInv
<1>1. IInv => TokenInv
  BY DEF IInv
<1> QED BY <1>1, AlwaysIInv, PTL

\* The two assertions of UnlockFailure() never fail, aborts included.
THEOREM UnlockFailureAssertsHold == Spec => []AssertionsHold
<1>1. IInv => AssertionsHold
  BY DEF IInv
<1> QED BY <1>1, AlwaysIInv, PTL

-----------------------------------------------------------------------------
(* The refinement: Lock() maps to Enter when its last test of abort_       *)
(* succeeds, the unlocks to LeaveSuccess and LeaveFailure when they are    *)
(* called, SetAbort() to Abort when it sets the flag.                      *)

LEMMA InitTurns == Init => Turns!TurnInit
BY DEF Init, SyncInit, Turns!TurnInit, ThreadType

\* A thread that passes the last test owns its token: it is not blocked.
LEMMA EnterTurns ==
    ASSUME IInv, NEW t \in ThreadType, FinishLock(t)
    PROVE  Turns!Enter(t) \/ UNCHANGED Turns!turnVars
<1> USE DEF IInv, TypeOK, SyncTypeOK, MutexInv, HoldsMutex, TokenInv, InHand, Goto, FinishLock,
            ThreadType
<1>1. CASE abort
  BY <1>1 DEF Turns!turnVars
<1>2. CASE ~abort
  <2>1. ~waiting[t] /\ \A s \in ThreadType : at[s] # "locked"
    BY <1>2
  <2>2. at' = [at EXCEPT ![t] = "locked"] /\ UNCHANGED <<waiting, abort>>
    BY <1>2
  <2> QED BY <1>2, <2>1, <2>2 DEF Turns!Enter
<1> QED BY <1>1, <1>2

LEMMA NextTurns == ASSUME IInv, [Next]_vars PROVE [Turns!TurnNext]_(Turns!turnVars)
<1> USE DEF IInv, TypeOK, SyncTypeOK, MutexInv, HoldsMutex
<1>1. CASE UNCHANGED vars
  BY <1>1 DEF vars, syncVars, Turns!turnVars
<1>2. ASSUME NEW t \in ThreadType, Call(t) PROVE UNCHANGED Turns!turnVars
  BY <1>2 DEF Call, CallLock, Goto, ThreadType, Turns!turnVars
<1>3. ASSUME NEW t \in ThreadType, Inside(t) PROVE [Turns!TurnNext]_(Turns!turnVars)
  <2>1. CASE FinishLock(t)
    BY <2>1, EnterTurns DEF Turns!TurnNext, ThreadType, Turns!Threads
  <2>2. CASE RetestAbort(t)
    BY <2>2 DEF RetestAbort, Goto, ThreadType, Turns!turnVars
  <2>3. CASE WaitSemaphore(t)
    BY <2>3 DEF WaitSemaphore, Goto, ThreadType, Turns!turnVars
  <2>4. CASE LockMutex(t)
    BY <2>4 DEF LockMutex, Goto, ThreadType, Turns!turnVars
  <2>5. CASE UnlockMutex(t)
    BY <2>5 DEF UnlockMutex, Goto, ThreadType, Turns!turnVars
  <2>6. CASE ReturnFromUnlock(t)
    BY <2>6 DEF ReturnFromUnlock, Goto, ThreadType, Turns!turnVars
  <2> QED BY <1>3, <2>1, <2>2, <2>3, <2>4, <2>5, <2>6 DEF Inside, RunInside
<1>4. ASSUME NEW t \in ThreadType, Success(t) PROVE Turns!LeaveSuccess(t)
  BY <1>4 DEF Success, UnlockSuccess, Goto, ThreadType, Other, Turns!LeaveSuccess, Turns!Peer
<1>5. ASSUME NEW t \in ThreadType, RuleFailure(t) PROVE Turns!LeaveFailure(t)
  BY <1>5 DEF RuleFailure, Failure, UnlockFailure, Goto, ThreadType, Turns!LeaveFailure
<1>6. CASE SetAbortFlag
  BY <1>6 DEF SetAbortFlag, RaiseAbort, Turns!TurnNext, Turns!Abort
<1>7. CASE SetAbortSignal
  BY <1>7 DEF SetAbortSignal, SignalAbort, Turns!turnVars
<1>8. CASE Stopped
  BY <1>8 DEF Stopped, vars, syncVars, Turns!turnVars
<1> QED
  BY <1>1, <1>2, <1>3, <1>4, <1>5, <1>6, <1>7, <1>8
     DEF Next, Thread, Turns!TurnNext, Turns!Threads, ThreadType

\* The synchronizer implements turn taking: a thread that unlocked with failure
\* enters again only after the other one's success, and nobody after an abort.
THEOREM ImplementsTurnTaking == Spec => TakesTurns
<1>1. Init => Turns!TurnInit
  BY InitTurns
<1>2. IInv /\ [Next]_vars => [Turns!TurnNext]_(Turns!turnVars)
  BY NextTurns
<1> QED BY <1>1, <1>2, AlwaysIInv, PTL DEF Spec, TakesTurns, Turns!TurnSpec

-----------------------------------------------------------------------------
\* Class Semaphore: the inductive invariant adds the types to the property.
SemaphoreIInv == SemaphoreTypeOK /\ NoLostWakeUp

\* Sets of threads are finite.
LEMMA ThreadsAreFinite ==
    ASSUME NEW T \in SUBSET Threads
    PROVE  IsFiniteSet(T) /\ Cardinality(T) \in Nat
<1>1. IsFiniteSet(T)
  BY FS_Subset, SemaphoreAssumption DEF SemaphoreAssumption
<1> QED BY <1>1, FS_CardinalityType

\* The types hold at first.
LEMMA SemaphoreInitTypes == ASSUME SemaphoreInit PROVE SemaphoreTypeOK
BY SemaphoreAssumption DEF SemaphoreAssumption, SemaphoreInit, SemaphoreTypeOK

\* No thread sleeps at first.
LEMMA SemaphoreInitEstablishes == ASSUME SemaphoreInit PROVE SemaphoreIInv
<1>1. Asleep = {}
  BY DEF SemaphoreInit, Asleep
<1> QED BY <1>1, SemaphoreInitTypes DEF SemaphoreIInv, NoLostWakeUp

-----------------------------------------------------------------------------
\* Waking a sleeping thread adds one to those that were woken.
LEMMA WakingAddsOne ==
    ASSUME SemaphoreTypeOK, NEW t \in Asleep, pc' = [pc EXCEPT ![t] = "woken"]
    PROVE  /\ Asleep' = Asleep \ {t}
           /\ Cardinality(Woken') = Cardinality(Woken) + 1
           /\ Cardinality(Woken) \in Nat
<1>1. Woken' = Woken \cup {t} /\ t \notin Woken /\ Asleep' = Asleep \ {t}
  BY DEF SemaphoreTypeOK, Asleep, Woken
<1>2. IsFiniteSet(Woken) /\ Cardinality(Woken) \in Nat
  BY ThreadsAreFinite DEF Woken
<1> QED BY <1>1, <1>2, FS_AddElement

\* A thread in Wait() takes a permit or goes to sleep.
LEMMA TestKeeps ==
    ASSUME SemaphoreIInv, NEW t \in Threads, TestCounter(t)
    PROVE  NoLostWakeUp'
<1> USE DEF SemaphoreIInv, SemaphoreTypeOK
<1>1. IsFiniteSet(Woken) /\ Cardinality(Woken) \in Nat
  BY ThreadsAreFinite DEF Woken
<1>2. CASE counter = 0
  <2>1. counter' = 0
    BY <1>2 DEF TestCounter
  <2>2. Cardinality(Woken') \in Nat
    <3>1. pc' \in [Threads -> {"idle", "wait", "asleep", "woken"}]
      BY DEF TestCounter
    <3>2. Woken' \in SUBSET Threads
      BY <3>1 DEF Woken
    <3> QED BY <3>2, ThreadsAreFinite
  <2> QED BY <2>1, <2>2 DEF NoLostWakeUp
<1>3. CASE counter > 0
  <2>1. counter' = counter - 1 /\ pc' = [pc EXCEPT ![t] = "idle"]
    BY <1>3 DEF TestCounter
  <2>2. Asleep' = Asleep
    BY <2>1 DEF Asleep, TestCounter
  <2>3. Woken' = Woken \ {t}
    BY <2>1 DEF Woken
  <2>4. Cardinality(Woken') >= Cardinality(Woken) - 1
    BY <1>1, <2>3, FS_RemoveElement
  <2>5. Cardinality(Woken') \in Nat
    BY <1>1, <2>3, FS_RemoveElement, ThreadsAreFinite DEF Woken
  <2> QED BY <1>1, <2>1, <2>2, <2>4, <2>5 DEF NoLostWakeUp
<1> QED BY <1>2, <1>3

\* A signal adds a permit, and wakes a thread if one sleeps.
LEMMA SignalKeeps ==
    ASSUME SemaphoreIInv, NEW t \in Threads, Signal(t)
    PROVE  NoLostWakeUp'
<1>1. CASE Asleep = {} /\ UNCHANGED pc
  BY <1>1 DEF NoLostWakeUp, Asleep
<1>2. ASSUME NEW u \in Asleep, pc' = [pc EXCEPT ![u] = "woken"]
      PROVE  NoLostWakeUp'
  <2>1. Cardinality(Woken') = Cardinality(Woken) + 1 /\ Cardinality(Woken) \in Nat
    BY <1>2, WakingAddsOne DEF SemaphoreIInv
  <2>2. counter <= Cardinality(Woken) /\ counter \in Nat
    BY <1>2 DEF SemaphoreIInv, NoLostWakeUp, SemaphoreTypeOK
  <2>3. counter' = counter + 1
    BY DEF Signal
  <2> QED BY <2>1, <2>2, <2>3 DEF NoLostWakeUp
<1> QED BY <1>1, <1>2 DEF Signal, CondSignal

\* A thread that wakes without a signal is one more that was woken.
LEMMA SpuriousKeeps ==
    ASSUME SemaphoreIInv, NEW t \in Threads, SpuriousWakeUp(t)
    PROVE  NoLostWakeUp'
<1>1. t \in Asleep /\ pc' = [pc EXCEPT ![t] = "woken"] /\ counter' = counter
  BY DEF SpuriousWakeUp, Asleep
<1>2. Cardinality(Woken') = Cardinality(Woken) + 1 /\ Cardinality(Woken) \in Nat
  BY <1>1, WakingAddsOne DEF SemaphoreIInv
<1>3. counter <= Cardinality(Woken) /\ counter \in Nat
  BY <1>1 DEF SemaphoreIInv, NoLostWakeUp, SemaphoreTypeOK
<1> QED BY <1>1, <1>2, <1>3 DEF NoLostWakeUp

\* A thread that enters Wait(), or takes a permit in passing, wakes nobody and
\* puts nobody to sleep.
LEMMA OthersKeep ==
    ASSUME SemaphoreIInv, NEW t \in Threads, CallWait(t) \/ TryWait(t)
    PROVE  NoLostWakeUp'
<1>1. Asleep' = Asleep /\ Woken' = Woken
  BY DEF SemaphoreIInv, SemaphoreTypeOK, Asleep, Woken, CallWait, TryWait
<1>2. counter' <= counter /\ counter \in Nat /\ counter' \in Nat
  BY DEF SemaphoreIInv, SemaphoreTypeOK, CallWait, TryWait
<1>3. Cardinality(Woken) \in Nat
  BY ThreadsAreFinite DEF Woken
<1> QED BY <1>1, <1>2, <1>3 DEF SemaphoreIInv, NoLostWakeUp

\* The types are kept.
LEMMA SemaphoreStepTypes == ASSUME SemaphoreTypeOK, [SemaphoreNext]_semaphoreVars PROVE SemaphoreTypeOK'
<1> USE SemaphoreAssumption DEF SemaphoreAssumption, SemaphoreTypeOK
<1>1. ASSUME NEW t \in Threads, CallWait(t) \/ TestCounter(t) \/ TryWait(t) \/ SpuriousWakeUp(t)
      PROVE  SemaphoreTypeOK'
  BY <1>1 DEF CallWait, TestCounter, TryWait, SpuriousWakeUp
<1>2. ASSUME NEW t \in Threads, Signal(t) PROVE SemaphoreTypeOK'
  <2>1. counter' \in Nat /\ signals' \in 0..MaxSignals
    BY <1>2 DEF Signal
  <2>2. pc' \in [Threads -> {"idle", "wait", "asleep", "woken"}]
    BY <1>2 DEF Signal, CondSignal, Asleep
  <2> QED BY <2>1, <2>2
<1>3. CASE Resting \/ UNCHANGED semaphoreVars
  BY <1>3 DEF Resting, semaphoreVars
<1> QED BY <1>1, <1>2, <1>3 DEF SemaphoreNext

\* The invariant is inductive.
LEMMA SemaphoreStepKeeps == ASSUME SemaphoreIInv, [SemaphoreNext]_semaphoreVars PROVE SemaphoreIInv'
<1>1. SemaphoreTypeOK'
  BY SemaphoreStepTypes DEF SemaphoreIInv
<1>2. CASE Resting \/ UNCHANGED semaphoreVars
  BY <1>1, <1>2 DEF SemaphoreIInv, NoLostWakeUp, Asleep, Woken, Resting, semaphoreVars
<1> QED BY <1>1, <1>2, TestKeeps, SignalKeeps, SpuriousKeeps, OthersKeep DEF SemaphoreNext, SemaphoreIInv

-----------------------------------------------------------------------------
\* The members of the class keep their types: counter_ is never negative,
\* although a woken thread can be overtaken by another one.
THEOREM SemaphoreTypeCorrect == SemaphoreSpec => []SemaphoreTypeOK
<1> QED BY SemaphoreInitTypes, SemaphoreStepTypes, PTL DEF SemaphoreSpec

\* As long as a thread sleeps, every permit is matched by a thread that was
\* woken: signalling once per Signal(), whatever the counter was, is enough.
THEOREM WakeUpsAreKept == SemaphoreSpec => []NoLostWakeUp
<1>1. SemaphoreSpec => []SemaphoreIInv
  BY SemaphoreInitEstablishes, SemaphoreStepKeeps, PTL DEF SemaphoreSpec
<1> QED BY <1>1, PTL DEF SemaphoreIInv

-----------------------------------------------------------------------------
\* Each step takes a permit that is there, gives one, or leaves them alone.
LEMMA StepSimulates ==
    ASSUME SemaphoreTypeOK, [SemaphoreNext]_semaphoreVars
    PROVE  [Counting!Take \/ Counting!Give]_counter
<1> USE DEF Counting!Take, Counting!Give, SemaphoreTypeOK
<1>1. ASSUME NEW t \in Threads,
             CallWait(t) \/ TestCounter(t) \/ TryWait(t) \/ Signal(t) \/ SpuriousWakeUp(t)
      PROVE  [Counting!Take \/ Counting!Give]_counter
  BY <1>1 DEF CallWait, TestCounter, TryWait, Signal, SpuriousWakeUp
<1>2. CASE Resting \/ UNCHANGED semaphoreVars
  BY <1>2 DEF Resting, semaphoreVars
<1> QED BY <1>1, <1>2 DEF SemaphoreNext

\* Wait(), TryWait() and Signal() implement the abstract count of permits.
THEOREM ImplementsCountingSemaphore == SemaphoreSpec => CountsPermits
<1>1. SemaphoreInit => Counting!PermitsInit
  BY DEF SemaphoreInit, Counting!PermitsInit
<1> QED BY <1>1, SemaphoreTypeCorrect, StepSimulates, PTL DEF SemaphoreSpec, CountsPermits, Counting!PermitsSpec
=============================================================================
