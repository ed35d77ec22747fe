------------------------- MODULE DoBackpropParallel -------------------------
(***************************************************************************)
(* DoBackpropParallel() that reads its examples from a table: the calling  *)
(* thread groups them into minibatches and gives them to the threads of a  *)
(* MultiThreader through an ExamplesRepository.  Examples are numbered in  *)
(* the order of the table; the sums that the threads make (weight, log     *)
(* probability, gradient) are the sequence of the examples in them.        *)
(* num_threads = 0, which makes the constructor of the MultiThreader run   *)
(* the operator () itself and wait for examples that nobody reads, is left *)
(* out.                                                                    *)
(*                                                                         *)
(* main is where the calling thread is:                                    *)
(*    "create"   in the constructor of MultiThreader                       *)
(*    "read"     in the loop over the examples                             *)
(*    "accept"   in AcceptExamples(), "accepting" behind its Wait()        *)
(*    "end"      in ExamplesDone(),   "ending"    behind its Wait()        *)
(*    "join"     in the destructor of MultiThreader, also when an          *)
(*               exception of the reader unwinds the stack                 *)
(*    "sum"      all threads are joined, their objects are being destroyed *)
(*    "returned"                                                           *)
(* and thread[t] is where the operator () of object t is:                  *)
(*    "none"     not started                                               *)
(*    "provide"  in ProvideExamples(), "providing" behind its Wait()       *)
(*    "backprop" in DoBackprop(), "returned" when it has returned          *)
(***************************************************************************)
EXTENDS Naturals, Sequences, FiniteSets

CONSTANTS NumExamples,     \* the number of examples in the table
          MinibatchSize,   \* minibatch_size
          NumThreads,      \* g_num_threads
          ReaderMayThrow   \* may the table reader throw an exception?

ASSUME BackpropAssumption ==
    /\ NumExamples \in Nat /\ MinibatchSize \in Nat \ {0} /\ NumThreads \in Nat \ {0}
    /\ ReaderMayThrow \in BOOLEAN

VARIABLES
    main,
    pos,      \* how many examples were read
    batch,    \* the local vector "examples" of the loop
    thread,   \* [Objects -> where the operator () is]
    local,    \* [Objects -> the local vector "examples" of the operator ()]
    sums,     \* [Objects -> what has gone into tot_weight_ and log_prob_]
    summed,   \* how many objects were destroyed
    total,    \* what has gone into *tot_weight_ptr_ and *log_prob_ptr_
    threw,    \* an exception was thrown by the reader
    full, empty, examples, done

Repo == INSTANCE ExamplesRepository
repository == <<full, empty, examples, done>>
worker == <<thread, local, sums>>
vars == <<main, pos, batch, worker, summed, total, threw, repository>>

\* The objects of cvec_
Objects == 1..NumThreads
Example == 1..NumExamples

Init ==
    /\ main = "create"
    /\ pos = 0 /\ batch = <<>>
    /\ thread = [t \in Objects |-> "none"]
    /\ local = [t \in Objects |-> <<>>]
    /\ sums = [t \in Objects |-> <<>>]
    /\ summed = 0 /\ total = <<>> /\ threw = FALSE
    /\ Repo!RepositoryInit

-----------------------------------------------------------------------------
(***************************************************************************)
(* The MultiThreader.                                                      *)
(***************************************************************************)

\* The threads are created one by one, while the first ones already run.
CreateThread(t) ==
    /\ main = "create"
    /\ thread[t] = "none"
    /\ \A u \in 1..(t - 1) : thread[u] # "none"
    /\ thread' = [thread EXCEPT ![t] = "provide"]
    /\ UNCHANGED <<main, pos, batch, local, sums, summed, total, threw, repository>>

Constructed ==
    /\ main = "create"
    /\ \A t \in Objects : thread[t] # "none"
    /\ main' = "read"
    /\ UNCHANGED <<pos, batch, worker, summed, total, threw, repository>>

\* Slip: the threads are not joined before the objects are destroyed.
JoinThreads_None ==
    /\ main = "join"
    /\ main' = "sum"
    /\ UNCHANGED <<pos, batch, worker, summed, total, threw, repository>>

\* pthread_join() of all threads
JoinThreads ==
    /\ main = "join"
    /\ \A t \in Objects : thread[t] = "returned"
    /\ main' = "sum"
    /\ UNCHANGED <<pos, batch, worker, summed, total, threw, repository>>

\* ~DoBackpropParallelClass() of one object after the other
SumUp ==
    /\ main = "sum"
    /\ summed < NumThreads
    /\ summed' = summed + 1
    /\ total' = total \o sums[summed + 1]
    /\ UNCHANGED <<main, pos, batch, worker, threw, repository>>

Return ==
    /\ main = "sum"
    /\ summed = NumThreads
    /\ main' = "returned"
    /\ UNCHANGED <<pos, batch, worker, summed, total, threw, repository>>

-----------------------------------------------------------------------------
(***************************************************************************)
(* The loop of DoBackpropParallel() over the examples.                     *)
(***************************************************************************)

\* One example is read; a full minibatch is given to the repository.
ReadExample ==
    /\ main = "read"
    /\ pos < NumExamples
    /\ pos' = pos + 1
    /\ batch' = Append(batch, pos')
    /\ main' = IF Len(batch') = MinibatchSize THEN "accept" ELSE "read"
    /\ UNCHANGED <<worker, summed, total, threw, repository>>

\* The table is at its end: the partial minibatch first, then ExamplesDone().
ReadAll ==
    /\ main = "read"
    /\ pos = NumExamples
    /\ main' = IF batch # <<>> THEN "accept" ELSE "end"
    /\ UNCHANGED <<pos, batch, worker, summed, total, threw, repository>>

\* Value() or Next() throws: the MultiThreader is destroyed on the way out.
ReaderThrows ==
    /\ ReaderMayThrow
    /\ main = "read"
    /\ pos < NumExamples
    /\ threw' = TRUE
    /\ main' = "join"
    /\ UNCHANGED <<pos, batch, worker, summed, total, repository>>

MainWaits ==
    /\ \/ main = "accept" /\ main' = "accepting"
       \/ main = "end" /\ main' = "ending"
    /\ Repo!WaitEmpty
    /\ UNCHANGED <<pos, batch, worker, summed, total, threw>>

Accept ==
    /\ main = "accepting"
    /\ Repo!AcceptExamples(batch)
    /\ batch' = examples
    /\ main' = "read"
    /\ UNCHANGED <<pos, worker, summed, total, threw>>

End ==
    /\ main = "ending"
    /\ Repo!ExamplesDone
    /\ main' = "join"
    /\ UNCHANGED <<pos, batch, worker, summed, total, threw>>

Main == Constructed \/ (\E t \in Objects : CreateThread(t))
        \/ ReadExample \/ ReadAll \/ MainWaits \/ Accept \/ End
        \/ JoinThreads \/ SumUp \/ Return

-----------------------------------------------------------------------------
(***************************************************************************)
(* The operator () of DoBackpropParallelClass.                             *)
(***************************************************************************)
WorkerWaits(t) ==
    /\ thread[t] = "provide"
    /\ Repo!WaitFull
    /\ thread' = [thread EXCEPT ![t] = "providing"]
    /\ UNCHANGED <<main, pos, batch, local, sums, summed, total, threw>>

WorkerTakes(t) ==
    /\ thread[t] = "providing"
    /\ Repo!ProvideExamples
    /\ local' = [local EXCEPT ![t] = examples]
    /\ thread' = [thread EXCEPT ![t] = "backprop"]
    /\ UNCHANGED <<main, pos, batch, sums, summed, total, threw>>

WorkerReturns(t) ==
    /\ thread[t] = "providing"
    /\ Repo!NoneLeft
    /\ thread' = [thread EXCEPT ![t] = "returned"]
    /\ UNCHANGED <<main, pos, batch, local, sums, summed, total, threw>>

\* DoBackprop(), the sums, examples.clear()
Backprop(t) ==
    /\ thread[t] = "backprop"
    /\ sums' = [sums EXCEPT ![t] = @ \o local[t]]
    /\ local' = [local EXCEPT ![t] = <<>>]
    /\ thread' = [thread EXCEPT ![t] = "provide"]
    /\ UNCHANGED <<main, pos, batch, summed, total, threw, repository>>

Worker(t) == WorkerWaits(t) \/ WorkerTakes(t) \/ WorkerReturns(t) \/ Backprop(t)

Finished == main = "returned" /\ UNCHANGED vars

Next == Main \/ ReaderThrows \/ (\E t \in Objects : Worker(t)) \/ Finished

Spec == Init /\ [][Next]_vars

\* All threads are scheduled; the reader need not throw.
FairSpec == Spec /\ WF_vars(Main) /\ \A t \in Objects : WF_vars(Worker(t))

-----------------------------------------------------------------------------
(***************************************************************************)
(* Properties.                                                             *)
(***************************************************************************)
TypeOK ==
    /\ main \in {"create", "read", "accept", "accepting", "end", "ending",
                 "join", "sum", "returned"}
    /\ pos \in 0..NumExamples
    /\ batch \in Seq(Example)
    /\ thread \in [Objects -> {"none", "provide", "providing", "backprop", "returned"}]
    /\ local \in [Objects -> Seq(Example)]
    /\ sums \in [Objects -> Seq(Example)]
    /\ summed \in 0..NumThreads
    /\ total \in Seq(Example)
    /\ threw \in BOOLEAN
    /\ Repo!RepositoryTypeOK(Example)

\* The assertions of the repository hold where they are tested, so that no
\* operation ever meets another one between its Wait() and its Signal().
RepositoryAssertionsHold ==
    /\ main \in {"accepting", "ending"} => examples = <<>>
    /\ main = "accepting" => batch # <<>>
    /\ \A t \in Objects : thread[t] = "providing" =>
          IF done THEN examples = <<>> ELSE examples # <<>> /\ local[t] = <<>>
    /\ \A t, u \in Objects :
          thread[t] = "providing" /\ thread[u] = "providing" => t = u
    /\ main \in {"accepting", "ending"} => \A t \in Objects : thread[t] # "providing"

\* The objective function and the gradient that are returned are those of all
\* the examples, each counted once, however the threads shared them.
SumOfAll ==
    main = "returned" => Len(total) = NumExamples /\ {total[k] : k \in DOMAIN total} = Example

\* The call returns, unless the reader throws.
Returns == <>(main = "returned" \/ threw)

\* The comment on the MultiThreader: its destructor re-joins the threads.
DestructorJoins == main = "join" ~> main = "sum"
=============================================================================
