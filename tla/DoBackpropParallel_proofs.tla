---------------------- MODULE DoBackpropParallel_proofs ---------------------
(***************************************************************************)
(* Proofs about the ExamplesRepository as DoBackpropParallel() uses it, for *)
(* any number of examples and threads: its two semaphores give it to one   *)
(* thread at a time, without a mutex, its assertions hold, and what is     *)
(* returned is the sum over all the examples.                              *)
(*                                                                         *)
(* The first two follow from OnePermit.  The sum needs to know where every *)
(* example is (SharesInv): not read yet, in the batch, in the repository,  *)
(* with one thread, or in the total.                                       *)
(***************************************************************************)
EXTENDS DoBackpropParallel, SequenceTheorems, FiniteSetTheorems, TLAPS

MainInside == main \in {"accepting", "ending"}
Providing(t) == thread[t] = "providing"

\* There is one permit in all: in one of the semaphores, with the calling
\* thread, or with one of the training threads.
OnePermit ==
    /\ full + empty <= 1
    /\ MainInside => full + empty = 0 /\ \A t \in Objects : ~Providing(t)
    /\ \A t \in Objects : Providing(t) => full + empty = 0
    /\ \A t, u \in Objects : Providing(t) /\ Providing(u) => t = u

\* The repository is empty as long as the permit is on the side of the calling
\* thread, and it holds a minibatch as long as it is on the other side.
Contents ==
    /\ empty = 1 \/ MainInside \/ done => examples = <<>>
    /\ full = 1 /\ ~done => examples # <<>>
    /\ \A t \in Objects : Providing(t) /\ ~done => examples # <<>>

\* done_ is set by the last thing the calling thread does with the repository.
DoneLast ==
    /\ done => main \in {"join", "sum", "returned"} /\ empty = 0
    /\ main \in {"accept", "accepting"} => batch # <<>>
    /\ \A t \in Objects : thread[t] # "backprop" => local[t] = <<>>

IInv == TypeOK /\ OnePermit /\ Contents /\ DoneLast

-----------------------------------------------------------------------------
\* The invariant holds at first.
LEMMA InitEstablishes == ASSUME Init PROVE IInv
<1> USE BackpropAssumption DEF Init, Repo!RepositoryInit
<1>1. TypeOK
  <2>1. <<>> \in Seq(Example)
    OBVIOUS
  <2>2. /\ thread \in [Objects -> {"none", "provide", "providing", "backprop", "returned"}]
        /\ local \in [Objects -> Seq(Example)]
        /\ sums \in [Objects -> Seq(Example)]
    BY <2>1
  <2>3. 0 \in 0..NumExamples /\ 0 \in 0..NumThreads
    OBVIOUS
  <2>4. Repo!RepositoryTypeOK(Example)
    <3>1. full = 0 /\ empty = 1 /\ examples = <<>> /\ done = FALSE
      OBVIOUS
    <3>2. full \in 0..1 /\ empty \in 0..1
      BY <3>1, 0 \in 0..1, 1 \in 0..1
    <3>3. done \in BOOLEAN
      BY <3>1, Zenon
    <3>4. examples \in Seq(Example)
      BY <2>1, <3>1
    <3> QED BY <3>2, <3>3, <3>4, Zenon DEF Repo!RepositoryTypeOK
  <2>5. /\ main \in {"create", "read", "accept", "accepting", "end", "ending",
                    "join", "sum", "returned"}
        /\ pos \in 0..NumExamples /\ summed \in 0..NumThreads
        /\ batch \in Seq(Example) /\ total \in Seq(Example)
        /\ threw \in BOOLEAN
    BY <2>1, <2>3
  <2> HIDE DEF Init
  <2> QED BY <2>2, <2>4, <2>5 DEF TypeOK
<1>2. OnePermit /\ Contents /\ DoneLast
  BY DEF OnePermit, Contents, DoneLast, MainInside, Providing
<1> QED BY <1>1, <1>2 DEF IInv

\* Constructed preserves the invariant.
LEMMA ConstructedPreserves == ASSUME IInv, Constructed PROVE IInv'
<1> USE BackpropAssumption DEF IInv, TypeOK, Constructed, worker, repository
<1>1. TypeOK'
  BY DEF Repo!RepositoryTypeOK, OnePermit, MainInside, Providing, Example
<1>2. OnePermit'
  BY DEF Repo!RepositoryTypeOK, OnePermit, MainInside, Providing
<1>3. Contents'
  BY DEF Repo!RepositoryTypeOK, OnePermit, Contents, DoneLast, MainInside, Providing
<1>4. DoneLast'
  BY DEF Repo!RepositoryTypeOK, OnePermit, DoneLast, MainInside
<1> QED BY <1>1, <1>2, <1>3, <1>4

\* ReadExample preserves the invariant.
LEMMA ReadExamplePreserves == ASSUME IInv, ReadExample PROVE IInv'
<1> USE BackpropAssumption DEF IInv, TypeOK, ReadExample, worker, repository
<1>1. TypeOK'
  BY DEF Repo!RepositoryTypeOK, OnePermit, MainInside, Providing, Example
<1>2. OnePermit'
  BY DEF Repo!RepositoryTypeOK, OnePermit, MainInside, Providing
<1>3. Contents'
  BY DEF Repo!RepositoryTypeOK, OnePermit, Contents, DoneLast, MainInside, Providing
<1>4. DoneLast'
  BY DEF Repo!RepositoryTypeOK, OnePermit, DoneLast, MainInside
<1> QED BY <1>1, <1>2, <1>3, <1>4

\* ReadAll preserves the invariant.
LEMMA ReadAllPreserves == ASSUME IInv, ReadAll PROVE IInv'
<1> USE BackpropAssumption DEF IInv, TypeOK, ReadAll, worker, repository
<1>1. TypeOK'
  BY DEF Repo!RepositoryTypeOK, OnePermit, MainInside, Providing, Example
<1>2. OnePermit'
  BY DEF Repo!RepositoryTypeOK, OnePermit, MainInside, Providing
<1>3. Contents'
  BY DEF Repo!RepositoryTypeOK, OnePermit, Contents, DoneLast, MainInside, Providing
<1>4. DoneLast'
  BY DEF Repo!RepositoryTypeOK, OnePermit, DoneLast, MainInside
<1> QED BY <1>1, <1>2, <1>3, <1>4

\* ReaderThrows preserves the invariant.
LEMMA ReaderThrowsPreserves == ASSUME IInv, ReaderThrows PROVE IInv'
<1> USE BackpropAssumption DEF IInv, TypeOK, ReaderThrows, worker, repository
<1>1. TypeOK'
  BY DEF Repo!RepositoryTypeOK, OnePermit, MainInside, Providing, Example
<1>2. OnePermit'
  BY DEF Repo!RepositoryTypeOK, OnePermit, MainInside, Providing
<1>3. Contents'
  BY DEF Repo!RepositoryTypeOK, OnePermit, Contents, DoneLast, MainInside, Providing
<1>4. DoneLast'
  BY DEF Repo!RepositoryTypeOK, OnePermit, DoneLast, MainInside
<1> QED BY <1>1, <1>2, <1>3, <1>4

\* MainWaits preserves the invariant.
LEMMA MainWaitsPreserves == ASSUME IInv, MainWaits PROVE IInv'
<1> USE BackpropAssumption DEF IInv, TypeOK, MainWaits, Repo!WaitEmpty, worker, repository
<1>1. TypeOK'
  BY DEF Repo!RepositoryTypeOK, OnePermit, MainInside, Providing, Example
<1>2. OnePermit'
  BY DEF Repo!RepositoryTypeOK, OnePermit, MainInside, Providing
<1>3. Contents'
  BY DEF Repo!RepositoryTypeOK, OnePermit, Contents, DoneLast, MainInside, Providing
<1>4. DoneLast'
  BY DEF Repo!RepositoryTypeOK, OnePermit, DoneLast, MainInside
<1> QED BY <1>1, <1>2, <1>3, <1>4

\* Accept preserves the invariant.
LEMMA AcceptPreserves == ASSUME IInv, Accept PROVE IInv'
<1> USE BackpropAssumption DEF IInv, TypeOK, Accept, Repo!AcceptExamples, worker, repository
<1>1. TypeOK'
  BY DEF Repo!RepositoryTypeOK, OnePermit, MainInside, Providing, Example
<1>2. OnePermit'
  BY DEF Repo!RepositoryTypeOK, OnePermit, MainInside, Providing
<1>3. Contents'
  BY DEF Repo!RepositoryTypeOK, OnePermit, Contents, DoneLast, MainInside, Providing
<1>4. DoneLast'
  BY DEF Repo!RepositoryTypeOK, OnePermit, DoneLast, MainInside
<1> QED BY <1>1, <1>2, <1>3, <1>4

\* End preserves the invariant.
LEMMA EndPreserves == ASSUME IInv, End PROVE IInv'
<1> USE BackpropAssumption DEF IInv, TypeOK, End, Repo!ExamplesDone, worker, repository
<1>1. TypeOK'
  BY DEF Repo!RepositoryTypeOK, OnePermit, MainInside, Providing, Example
<1>2. OnePermit'
  BY DEF Repo!RepositoryTypeOK, OnePermit, MainInside, Providing
<1>3. Contents'
  BY DEF Repo!RepositoryTypeOK, OnePermit, Contents, DoneLast, MainInside, Providing
<1>4. DoneLast'
  BY DEF Repo!RepositoryTypeOK, OnePermit, DoneLast, MainInside
<1> QED BY <1>1, <1>2, <1>3, <1>4

\* JoinThreads preserves the invariant.
LEMMA JoinThreadsPreserves == ASSUME IInv, JoinThreads PROVE IInv'
<1> USE BackpropAssumption DEF IInv, TypeOK, JoinThreads, worker, repository
<1>1. TypeOK'
  BY DEF Repo!RepositoryTypeOK, OnePermit, MainInside, Providing, Example
<1>2. OnePermit'
  BY DEF Repo!RepositoryTypeOK, OnePermit, MainInside, Providing
<1>3. Contents'
  BY DEF Repo!RepositoryTypeOK, OnePermit, Contents, DoneLast, MainInside, Providing
<1>4. DoneLast'
  BY DEF Repo!RepositoryTypeOK, OnePermit, DoneLast, MainInside
<1> QED BY <1>1, <1>2, <1>3, <1>4

\* SumUp preserves the invariant.
LEMMA SumUpPreserves == ASSUME IInv, SumUp PROVE IInv'
<1> USE BackpropAssumption DEF IInv, TypeOK, SumUp, worker, repository
<1>1. TypeOK'
  <2>1. summed + 1 \in Objects /\ summed' \in 0..NumThreads
    BY DEF Objects
  <2>2. sums[summed + 1] \in Seq(Example)
    BY <2>1
  <2>3. total' \in Seq(Example)
    <3> HIDE DEF Example
    <3> QED BY <2>2, SMT
  <2> QED BY <2>1, <2>3 DEF Repo!RepositoryTypeOK
<1>2. OnePermit'
  BY DEF Repo!RepositoryTypeOK, OnePermit, MainInside, Providing
<1>3. Contents'
  BY DEF Repo!RepositoryTypeOK, OnePermit, Contents, DoneLast, MainInside, Providing
<1>4. DoneLast'
  BY DEF Repo!RepositoryTypeOK, OnePermit, DoneLast, MainInside
<1> QED BY <1>1, <1>2, <1>3, <1>4

\* Return preserves the invariant.
LEMMA ReturnPreserves == ASSUME IInv, Return PROVE IInv'
<1> USE BackpropAssumption DEF IInv, TypeOK, Return, worker, repository
<1>1. TypeOK'
  BY DEF Repo!RepositoryTypeOK, OnePermit, MainInside, Providing, Example
<1>2. OnePermit'
  BY DEF Repo!RepositoryTypeOK, OnePermit, MainInside, Providing
<1>3. Contents'
  BY DEF Repo!RepositoryTypeOK, OnePermit, Contents, DoneLast, MainInside, Providing
<1>4. DoneLast'
  BY DEF Repo!RepositoryTypeOK, OnePermit, DoneLast, MainInside
<1> QED BY <1>1, <1>2, <1>3, <1>4

\* CreateThread preserves the invariant.
LEMMA CreateThreadPreserves == ASSUME NEW t \in Objects, IInv, CreateThread(t) PROVE IInv'
<1> USE BackpropAssumption DEF IInv, TypeOK, CreateThread, worker, repository
<1>1. TypeOK'
  BY DEF Repo!RepositoryTypeOK, OnePermit, MainInside, Providing, Example
<1>2. OnePermit'
  BY DEF Repo!RepositoryTypeOK, OnePermit, MainInside, Providing
<1>3. Contents'
  BY DEF Repo!RepositoryTypeOK, OnePermit, Contents, DoneLast, MainInside, Providing
<1>4. DoneLast'
  BY DEF Repo!RepositoryTypeOK, OnePermit, DoneLast, MainInside
<1> QED BY <1>1, <1>2, <1>3, <1>4

\* WorkerWaits preserves the invariant.
LEMMA WorkerWaitsPreserves == ASSUME NEW t \in Objects, IInv, WorkerWaits(t) PROVE IInv'
<1> USE BackpropAssumption DEF IInv, TypeOK, WorkerWaits, Repo!WaitFull, worker, repository
<1>1. TypeOK'
  BY DEF Repo!RepositoryTypeOK, OnePermit, MainInside, Providing, Example
<1>2. OnePermit'
  BY DEF Repo!RepositoryTypeOK, OnePermit, MainInside, Providing
<1>3. Contents'
  BY DEF Repo!RepositoryTypeOK, OnePermit, Contents, DoneLast, MainInside, Providing
<1>4. DoneLast'
  BY DEF Repo!RepositoryTypeOK, OnePermit, DoneLast, MainInside
<1> QED BY <1>1, <1>2, <1>3, <1>4

\* WorkerTakes preserves the invariant.
LEMMA WorkerTakesPreserves == ASSUME NEW t \in Objects, IInv, WorkerTakes(t) PROVE IInv'
<1> USE BackpropAssumption DEF IInv, TypeOK, WorkerTakes, Repo!ProvideExamples, worker, repository
<1>1. TypeOK'
  BY DEF Repo!RepositoryTypeOK, OnePermit, MainInside, Providing, Example
<1>2. OnePermit'
  BY DEF Repo!RepositoryTypeOK, OnePermit, MainInside, Providing
<1>3. Contents'
  BY DEF Repo!RepositoryTypeOK, OnePermit, Contents, DoneLast, MainInside, Providing
<1>4. DoneLast'
  BY DEF Repo!RepositoryTypeOK, OnePermit, DoneLast, MainInside
<1> QED BY <1>1, <1>2, <1>3, <1>4

\* WorkerReturns preserves the invariant.
LEMMA WorkerReturnsPreserves == ASSUME NEW t \in Objects, IInv, WorkerReturns(t) PROVE IInv'
<1> USE BackpropAssumption DEF IInv, TypeOK, WorkerReturns, Repo!NoneLeft, worker, repository
<1>1. TypeOK'
  BY DEF Repo!RepositoryTypeOK, OnePermit, MainInside, Providing, Example
<1>2. OnePermit'
  BY DEF Repo!RepositoryTypeOK, OnePermit, MainInside, Providing
<1>3. Contents'
  BY DEF Repo!RepositoryTypeOK, OnePermit, Contents, DoneLast, MainInside, Providing
<1>4. DoneLast'
  BY DEF Repo!RepositoryTypeOK, OnePermit, DoneLast, MainInside
<1> QED BY <1>1, <1>2, <1>3, <1>4

\* Backprop preserves the invariant.
LEMMA BackpropPreserves == ASSUME NEW t \in Objects, IInv, Backprop(t) PROVE IInv'
<1> USE BackpropAssumption DEF IInv, TypeOK, Backprop, worker, repository
<1>1. TypeOK'
  BY DEF Repo!RepositoryTypeOK, OnePermit, MainInside, Providing, Example
<1>2. OnePermit'
  BY DEF Repo!RepositoryTypeOK, OnePermit, MainInside, Providing
<1>3. Contents'
  BY DEF Repo!RepositoryTypeOK, OnePermit, Contents, DoneLast, MainInside, Providing
<1>4. DoneLast'
  BY DEF Repo!RepositoryTypeOK, OnePermit, DoneLast, MainInside
<1> QED BY <1>1, <1>2, <1>3, <1>4

\* Every step preserves the invariant.
LEMMA NextPreserves == IInv /\ [Next]_vars => IInv'
<1> SUFFICES ASSUME IInv, [Next]_vars PROVE IInv'
  OBVIOUS
<1>1. CASE Main
  BY <1>1, ConstructedPreserves, ReadExamplePreserves, ReadAllPreserves, MainWaitsPreserves,
     AcceptPreserves, EndPreserves, JoinThreadsPreserves, SumUpPreserves, ReturnPreserves,
     CreateThreadPreserves DEF Main
<1>2. CASE ReaderThrows
  BY <1>2, ReaderThrowsPreserves
<1>3. CASE \E t \in Objects : Worker(t)
  BY <1>3, WorkerWaitsPreserves, WorkerTakesPreserves, WorkerReturnsPreserves,
     BackpropPreserves DEF Worker
<1>4. CASE UNCHANGED vars
  BY <1>4 DEF vars, worker, repository, IInv, TypeOK, Repo!RepositoryTypeOK, OnePermit,
              Contents, DoneLast, MainInside, Providing
<1> QED BY <1>1, <1>2, <1>3, <1>4 DEF Next, Finished

LEMMA Invariance == Spec => []IInv
<1>1. Init => IInv
  BY InitEstablishes
<1> QED BY <1>1, NextPreserves, PTL DEF Spec

-----------------------------------------------------------------------------
\* The members and the local vectors keep their types; in particular neither
\* semaphore ever holds more than one permit.
THEOREM TypeCorrect == Spec => []TypeOK
<1>1. IInv => TypeOK
  BY DEF IInv
<1> QED BY <1>1, Invariance, PTL

\* The assertions of AcceptExamples(), ExamplesDone() and ProvideExamples()
\* never fail, and no two threads are ever inside the repository at once.
THEOREM RepositoryIsExclusive == Spec => []RepositoryAssertionsHold
<1>1. IInv => RepositoryAssertionsHold
  BY DEF IInv, OnePermit, Contents, DoneLast, MainInside, Providing, RepositoryAssertionsHold
<1> QED BY <1>1, Invariance, PTL
-----------------------------------------------------------------------------
(***************************************************************************)
(* Each example is counted once.                                           *)
(***************************************************************************)

\* The examples in a vector, and that none is in it twice.
Ran(s) == {s[k] : k \in DOMAIN s}
Injective(s) == \A k, l \in DOMAIN s : s[k] = s[l] => k = l

\* No example is twice in the vector of the calling thread, in the repository,
\* in the vector of a training thread or in what a training thread has summed.
NoneTwice ==
    /\ Injective(batch) /\ Injective(examples)
    /\ \A t \in Objects : Injective(local[t]) /\ Injective(sums[t])

\* No example is in two of these places,
Apart ==
    /\ Ran(batch) \cap Ran(examples) = {}
    /\ \A t \in Objects :
          /\ Ran(batch) \cap Ran(local[t]) = {} /\ Ran(batch) \cap Ran(sums[t]) = {}
          /\ Ran(examples) \cap Ran(local[t]) = {} /\ Ran(examples) \cap Ran(sums[t]) = {}
    /\ \A t, u \in Objects :
          /\ Ran(local[t]) \cap Ran(sums[u]) = {}
          /\ t # u => Ran(local[t]) \cap Ran(local[u]) = {} /\ Ran(sums[t]) \cap Ran(sums[u]) = {}

\* and those that were read are in one of them.
NoneLost ==
    \A e : e \in 1..pos <=>
       \/ e \in Ran(batch) \/ e \in Ran(examples)
       \/ \E t \in Objects : e \in Ran(local[t]) \/ e \in Ran(sums[t])

\* The total is made of the sums of the objects that were destroyed.
TotalOfSummed ==
    /\ Injective(total)
    /\ \A e : e \in Ran(total) <=> \E t \in 1..summed : e \in Ran(sums[t])

Shares == NoneTwice /\ Apart /\ NoneLost /\ TotalOfSummed

\* The calling thread ends the examples when all were handed over, the training
\* threads return after that, and the sums are made when all have returned.
EndsInOrder ==
    /\ main \in {"end", "ending"} \/ done => pos = NumExamples /\ batch = <<>>
    /\ \A t \in Objects : thread[t] = "returned" => done
    /\ IF main \in {"sum", "returned"} THEN \A t \in Objects : thread[t] = "returned"
                                       ELSE summed = 0
    /\ main = "returned" => summed = NumThreads

SharesInv == Shares /\ EndsInOrder

-----------------------------------------------------------------------------
\* Facts about the vectors.
LEMMA EmptyVector == Ran(<<>>) = {} /\ Injective(<<>>)
BY DEF Ran, Injective

LEMMA ConcatVectors ==
    ASSUME NEW S, NEW s \in Seq(S), NEW t \in Seq(S)
    PROVE  /\ Ran(s \o t) = Ran(s) \cup Ran(t)
           /\ Injective(s) /\ Injective(t) /\ Ran(s) \cap Ran(t) = {} => Injective(s \o t)
<1>1. /\ Len(s) \in Nat /\ Len(t) \in Nat /\ DOMAIN s = 1..Len(s) /\ DOMAIN t = 1..Len(t)
      /\ DOMAIN (s \o t) = 1..(Len(s) + Len(t))
      /\ \A k \in 1..(Len(s) + Len(t)) :
            (s \o t)[k] = IF k <= Len(s) THEN s[k] ELSE t[k - Len(s)]
  OBVIOUS
<1>2. ASSUME NEW e \in Ran(s \o t) PROVE e \in Ran(s) \cup Ran(t)
  <2>1. PICK k \in 1..(Len(s) + Len(t)) : e = (s \o t)[k]
    BY <1>1 DEF Ran
  <2>2. CASE k <= Len(s)
    BY <1>1, <2>1, <2>2 DEF Ran
  <2>3. CASE k > Len(s)
    <3>1. k - Len(s) \in 1..Len(t)
      BY <1>1, <2>3
    <3> QED BY <1>1, <2>1, <2>3, <3>1 DEF Ran
  <2> QED BY <1>1, <2>2, <2>3
<1>3. ASSUME NEW e \in Ran(s) PROVE e \in Ran(s \o t)
  <2>1. PICK k \in 1..Len(s) : e = s[k]
    BY <1>1 DEF Ran
  <2>2. k \in 1..(Len(s) + Len(t)) /\ e = (s \o t)[k]
    BY <1>1, <2>1
  <2> QED BY <1>1, <2>2 DEF Ran
<1>4. ASSUME NEW e \in Ran(t) PROVE e \in Ran(s \o t)
  <2>1. PICK k \in 1..Len(t) : e = t[k]
    BY <1>1 DEF Ran
  <2>2. k + Len(s) \in 1..(Len(s) + Len(t)) /\ e = (s \o t)[k + Len(s)]
    BY <1>1, <2>1
  <2> QED BY <1>1, <2>2 DEF Ran
<1>5. ASSUME Injective(s), Injective(t), Ran(s) \cap Ran(t) = {},
             NEW k \in 1..(Len(s) + Len(t)), NEW l \in 1..(Len(s) + Len(t)),
             (s \o t)[k] = (s \o t)[l]
      PROVE  k = l
  <2>1. CASE k <= Len(s) /\ l <= Len(s)
    BY <1>1, <1>5, <2>1 DEF Injective
  <2>2. CASE k > Len(s) /\ l > Len(s)
    <3>1. k - Len(s) \in 1..Len(t) /\ l - Len(s) \in 1..Len(t)
      BY <1>1, <2>2
    <3>2. t[k - Len(s)] = t[l - Len(s)]
      BY <1>1, <1>5, <2>2
    <3>3. k - Len(s) = l - Len(s)
      BY <1>1, <1>5, <3>1, <3>2 DEF Injective
    <3> QED BY <1>1, <3>3
  <2>3. CASE k <= Len(s) /\ l > Len(s)
    <3>1. k \in 1..Len(s) /\ l - Len(s) \in 1..Len(t) /\ s[k] = t[l - Len(s)]
      BY <1>1, <1>5, <2>3
    <3> QED BY <1>1, <1>5, <3>1 DEF Ran
  <2>4. CASE k > Len(s) /\ l <= Len(s)
    <3>1. l \in 1..Len(s) /\ k - Len(s) \in 1..Len(t) /\ s[l] = t[k - Len(s)]
      BY <1>1, <1>5, <2>4
    <3> QED BY <1>1, <1>5, <3>1 DEF Ran
  <2> QED BY <1>1, <2>1, <2>2, <2>3, <2>4
<1> QED BY <1>1, <1>2, <1>3, <1>4, <1>5 DEF Injective

LEMMA AppendToVector ==
    ASSUME NEW S, NEW s \in Seq(S), NEW e \in S
    PROVE  /\ Ran(Append(s, e)) = Ran(s) \cup {e}
           /\ Injective(s) /\ e \notin Ran(s) => Injective(Append(s, e))
<1>1. Append(s, e) = s \o <<e>> /\ <<e>> \in Seq(S)
  BY AppendIsConcat
<1>2. Ran(<<e>>) = {e} /\ Injective(<<e>>)
  BY DEF Ran, Injective
<1> QED BY <1>1, <1>2, ConcatVectors
-----------------------------------------------------------------------------
LEMMA InitShares == Init => SharesInv
<1> SUFFICES ASSUME Init PROVE SharesInv
  OBVIOUS
<1> USE BackpropAssumption DEF Init, Repo!RepositoryInit
<1>1. NoneTwice /\ Apart
  BY EmptyVector DEF NoneTwice, Apart
<1>2. NoneLost
  BY EmptyVector DEF NoneLost
<1>3. TotalOfSummed
  BY EmptyVector DEF TotalOfSummed
<1>4. EndsInOrder
  BY DEF EndsInOrder, Objects
<1> QED BY <1>1, <1>2, <1>3, <1>4 DEF SharesInv, Shares

\* Most steps move no example.
LEMMA NothingMoves ==
    ASSUME Shares, UNCHANGED <<pos, batch, examples, local, sums, summed, total>>
    PROVE  Shares'
BY DEF Shares, NoneTwice, Apart, NoneLost, TotalOfSummed

\* ReadExample: the next example goes to the vector of the calling thread.
LEMMA ReadExampleShares == ASSUME IInv, SharesInv, ReadExample PROVE SharesInv'
<1> USE BackpropAssumption DEF SharesInv
<1>1. /\ pos \in 0..NumExamples /\ pos' = pos + 1 /\ pos + 1 \in Example
      /\ batch \in Seq(Example) /\ batch' = Append(batch, pos + 1)
      /\ UNCHANGED <<examples, local, sums, summed, total, thread, done>>
  BY DEF ReadExample, worker, repository, IInv, TypeOK, Example
<1>2. pos + 1 \notin 1..pos
  BY <1>1
<1>3. /\ pos + 1 \notin Ran(batch) /\ pos + 1 \notin Ran(examples)
      /\ \A t \in Objects : pos + 1 \notin Ran(local[t]) /\ pos + 1 \notin Ran(sums[t])
  BY <1>2 DEF Shares, NoneLost
<1>4. Ran(batch') = Ran(batch) \cup {pos + 1} /\ Injective(batch')
  BY <1>1, <1>3, AppendToVector DEF Shares, NoneTwice
<1>5. NoneTwice' /\ Apart' /\ TotalOfSummed'
  <2>1. NoneTwice'
    BY <1>1, <1>4 DEF Shares, NoneTwice
  <2>2. Apart'
    BY <1>1, <1>3, <1>4 DEF Shares, Apart
  <2>3. TotalOfSummed'
    BY <1>1 DEF Shares, TotalOfSummed
  <2> QED BY <2>1, <2>2, <2>3
<1>6. NoneLost'
  <2>1. \A e : e \in 1..pos' <=> e \in 1..pos \/ e = pos + 1
    BY <1>1
  <2> QED BY <1>1, <1>4, <2>1 DEF Shares, NoneLost
<1>7. EndsInOrder'
  BY <1>1 DEF EndsInOrder, ReadExample, IInv, DoneLast
<1> QED BY <1>5, <1>6, <1>7 DEF Shares

\* Accept: the vector of the calling thread goes to the repository, whose empty
\* one comes back.
LEMMA AcceptShares == ASSUME IInv, SharesInv, Accept PROVE SharesInv'
<1> USE DEF SharesInv
<1>1. /\ examples' = batch /\ batch' = examples /\ examples = <<>>
      /\ UNCHANGED <<pos, local, sums, summed, total, thread, done>>
      /\ main = "accepting" /\ main' = "read"
  BY DEF Accept, Repo!AcceptExamples, worker, IInv, Contents, MainInside
<1>2. Shares'
  BY <1>1 DEF Shares, NoneTwice, Apart, NoneLost, TotalOfSummed
<1>3. EndsInOrder'
  BY <1>1 DEF EndsInOrder, IInv, DoneLast
<1> QED BY <1>2, <1>3

\* WorkerTakes: the examples of the repository go to a training thread.
LEMMA WorkerTakesShares ==
    ASSUME NEW t \in Objects, IInv, SharesInv, WorkerTakes(t)
    PROVE  SharesInv'
<1> USE DEF SharesInv
<1>1. /\ local' = [local EXCEPT ![t] = examples] /\ examples' = <<>>
      /\ local \in [Objects -> Seq(Example)] /\ local[t] = <<>>
      /\ UNCHANGED <<pos, batch, sums, summed, total, main, done>>
      /\ thread' = [thread EXCEPT ![t] = "backprop"] /\ ~done
  BY DEF WorkerTakes, Repo!ProvideExamples, IInv, TypeOK, DoneLast
<1>2. local'[t] = examples /\ \A u \in Objects \ {t} : local'[u] = local[u]
  BY <1>1
<1>3. Ran(examples') = {} /\ Injective(examples') /\ Ran(local[t]) = {}
  BY <1>1, EmptyVector
<1>4. NoneTwice' /\ TotalOfSummed'
  BY <1>1, <1>2, <1>3 DEF Shares, NoneTwice, TotalOfSummed
<1>5. Apart'
  BY <1>1, <1>2, <1>3 DEF Shares, Apart
<1>6. NoneLost'
  BY <1>1, <1>2, <1>3 DEF Shares, NoneLost
<1>7. EndsInOrder'
  BY <1>1 DEF EndsInOrder, IInv, TypeOK
<1> QED BY <1>4, <1>5, <1>6, <1>7 DEF Shares

\* Backprop: the examples of a training thread go to its sums.
LEMMA BackpropShares ==
    ASSUME NEW t \in Objects, IInv, SharesInv, Backprop(t)
    PROVE  SharesInv'
<1> USE DEF SharesInv
<1>1. /\ local' = [local EXCEPT ![t] = <<>>] /\ sums' = [sums EXCEPT ![t] = @ \o local[t]]
      /\ local \in [Objects -> Seq(Example)] /\ sums \in [Objects -> Seq(Example)]
      /\ UNCHANGED <<pos, batch, examples, summed, total, main, done>>
      /\ thread[t] = "backprop" /\ thread' = [thread EXCEPT ![t] = "provide"]
  BY DEF Backprop, repository, IInv, TypeOK
<1>2. /\ local'[t] = <<>> /\ sums'[t] = sums[t] \o local[t]
      /\ \A u \in Objects \ {t} : local'[u] = local[u] /\ sums'[u] = sums[u]
  BY <1>1
<1>3. Ran(local'[t]) = {} /\ Injective(local'[t])
  BY <1>2, EmptyVector
<1>4. sums[t] \in Seq(Example) /\ local[t] \in Seq(Example)
  BY <1>1
<1>5. Ran(sums'[t]) = Ran(sums[t]) \cup Ran(local[t]) /\ Injective(sums'[t])
  <2>1. Injective(sums[t]) /\ Injective(local[t]) /\ Ran(sums[t]) \cap Ran(local[t]) = {}
    BY DEF Shares, NoneTwice, Apart
  <2> QED BY <1>2, <1>4, <2>1, ConcatVectors
<1>6. NoneTwice'
  BY <1>1, <1>2, <1>3, <1>5 DEF Shares, NoneTwice
<1>7. Apart'
  BY <1>1, <1>2, <1>3, <1>5 DEF Shares, Apart
<1>8. NoneLost'
  BY <1>1, <1>2, <1>3, <1>5 DEF Shares, NoneLost
<1>9. TotalOfSummed'
  <2>1. summed = 0
    BY <1>1 DEF EndsInOrder
  <2> QED BY <1>1, <2>1 DEF Shares, TotalOfSummed
<1>10. EndsInOrder'
  BY <1>1 DEF EndsInOrder, IInv, TypeOK
<1> QED BY <1>6, <1>7, <1>8, <1>9, <1>10 DEF Shares

\* SumUp: the sums of one object more go to the total.
LEMMA SumUpShares == ASSUME IInv, SharesInv, SumUp PROVE SharesInv'
<1> USE BackpropAssumption DEF SharesInv
<1>1. /\ main = "sum" /\ main' = main /\ summed \in 0..NumThreads
      /\ summed' = summed + 1 /\ summed + 1 \in Objects
      /\ total' = total \o sums[summed + 1]
      /\ total \in Seq(Example) /\ sums[summed + 1] \in Seq(Example)
      /\ UNCHANGED <<pos, batch, examples, local, sums, thread, done>>
  BY DEF SumUp, worker, repository, IInv, TypeOK, Objects
<1>2. NoneTwice' /\ Apart' /\ NoneLost'
  BY <1>1 DEF Shares, NoneTwice, Apart, NoneLost
<1>3. Ran(total) \cap Ran(sums[summed + 1]) = {}
  <2>1. ASSUME NEW u \in 1..summed PROVE u \in Objects /\ u # summed + 1
    BY <1>1 DEF Objects
  <2> QED BY <1>1, <2>1 DEF Shares, TotalOfSummed, Apart
<1>4. Ran(total') = Ran(total) \cup Ran(sums[summed + 1]) /\ Injective(total')
  BY <1>1, <1>3, ConcatVectors DEF Shares, NoneTwice, TotalOfSummed
<1>5. TotalOfSummed'
  <2>1. \A u : u \in 1..summed' <=> u \in 1..summed \/ u = summed + 1
    BY <1>1
  <2> QED BY <1>1, <1>4, <2>1 DEF Shares, TotalOfSummed
<1>6. EndsInOrder'
  BY <1>1 DEF EndsInOrder
<1> QED BY <1>2, <1>5, <1>6 DEF Shares

\* Every step keeps the examples apart and together.
LEMMA NextShares == IInv /\ SharesInv /\ [Next]_vars => SharesInv'
<1> SUFFICES ASSUME IInv, SharesInv, [Next]_vars PROVE SharesInv'
  OBVIOUS
<1> USE BackpropAssumption
<1>1. CASE Constructed \/ JoinThreads \/ Return \/ ReadAll \/ ReaderThrows \/ MainWaits \/ End
  <2>1. Shares'
    BY <1>1, NothingMoves DEF SharesInv, Constructed, JoinThreads, Return, ReadAll, ReaderThrows,
       MainWaits, Repo!WaitEmpty, End, Repo!ExamplesDone, worker, repository
  <2>2. EndsInOrder'
    BY <1>1 DEF SharesInv, EndsInOrder, IInv, TypeOK, DoneLast, Constructed, JoinThreads, Return,
       ReadAll, ReaderThrows, MainWaits, Repo!WaitEmpty, End, Repo!ExamplesDone, worker, repository
  <2> QED BY <2>1, <2>2 DEF SharesInv
<1>2. ASSUME NEW t \in Objects, CreateThread(t) \/ WorkerWaits(t) \/ WorkerReturns(t)
      PROVE  SharesInv'
  <2>1. Shares'
    BY <1>2, NothingMoves DEF SharesInv, CreateThread, WorkerWaits, Repo!WaitFull, WorkerReturns,
       Repo!NoneLeft, repository
  <2>2. EndsInOrder'
    BY <1>2 DEF SharesInv, EndsInOrder, IInv, TypeOK, CreateThread, WorkerWaits, Repo!WaitFull,
       WorkerReturns, Repo!NoneLeft, repository
  <2> QED BY <2>1, <2>2 DEF SharesInv
<1>3. CASE UNCHANGED vars
  <2>1. Shares'
    BY <1>3, NothingMoves DEF SharesInv, vars, worker, repository
  <2> QED BY <1>3, <2>1 DEF SharesInv, EndsInOrder, vars, worker, repository
<1> QED BY <1>1, <1>2, <1>3, ReadExampleShares, AcceptShares, SumUpShares, WorkerTakesShares,
           BackpropShares DEF Next, Main, Worker, Finished

\* What DoBackpropParallel() returns is made of all the examples of the table,
\* each of them once, however many threads have shared them and in whatever
\* order they took them.
THEOREM SumIsOfAll == Spec => []SumOfAll
<1>1. IInv /\ SharesInv => SumOfAll
  <2> SUFFICES ASSUME IInv, SharesInv, main = "returned"
               PROVE  Len(total) = NumExamples /\ Ran(total) = Example
    BY DEF SumOfAll, Ran
  <2> USE BackpropAssumption
  <2>1. /\ total \in Seq(Example) /\ summed = NumThreads
        /\ \A t \in Objects : thread[t] = "returned"
    BY DEF IInv, TypeOK, SharesInv, EndsInOrder
  <2>2. done
    BY <2>1 DEF SharesInv, EndsInOrder, Objects
  <2>3. pos = NumExamples /\ batch = <<>> /\ examples = <<>> /\ \A t \in Objects : local[t] = <<>>
    BY <2>1, <2>2 DEF SharesInv, EndsInOrder, IInv, Contents, DoneLast
  <2>4. Ran(total) = Example
    BY <2>1, <2>3, EmptyVector DEF SharesInv, Shares, NoneLost, TotalOfSummed, Objects, Example
  <2>5. /\ Len(total) \in Nat /\ total \in [1..Len(total) -> Example] /\ DOMAIN total = 1..Len(total)
    BY <2>1, LenProperties
  <2>6. total \in Bijection(1..Len(total), Example)
    BY <2>4, <2>5 DEF SharesInv, Shares, TotalOfSummed, Injective, Ran, Bijection, Injection,
                      Surjection, IsInjective
  <2>7. Cardinality(Example) = Len(total)
    BY <2>5, <2>6, FS_CountingElements DEF ExistsBijection
  <2>8. Cardinality(Example) = NumExamples
    BY FS_Interval DEF Example
  <2> QED BY <2>4, <2>7, <2>8
<1> QED BY <1>1, InitShares, NextShares, Invariance, PTL DEF Spec
=============================================================================
