------------------------- MODULE ExamplesRepository -------------------------
(***************************************************************************)
(* class ExamplesRepository: one minibatch of examples between the thread  *)
(* that reads them and the threads that train on them.  The semaphores are *)
(* counts of permits (module Semaphore); between its Wait() and its        *)
(* Signal() an operation has the repository to itself only if the          *)
(* semaphores say so, hence each operation is two steps.  Who calls the    *)
(* operations is left to the modules that instantiate this one.            *)
(***************************************************************************)
EXTENDS Naturals, Sequences

VARIABLES full,      \* full_semaphore_
          empty,     \* empty_semaphore_
          examples,  \* examples_, the sequence of the examples in it
          done       \* done_

repository == <<full, empty, examples, done>>

RepositoryInit == full = 0 /\ empty = 1 /\ examples = <<>> /\ done = FALSE

\* AcceptExamples() and ExamplesDone() begin with empty_semaphore_.Wait().
\* Slip: they do not wait.
WaitEmpty_NoWait ==
    /\ empty' = IF empty > 0 THEN empty - 1 ELSE empty
    /\ UNCHANGED <<full, examples, done>>

WaitEmpty ==
    /\ empty > 0
    /\ empty' = empty - 1
    /\ UNCHANGED <<full, examples, done>>

\* examples_.swap(*examples) with the caller's vector "batch".
AcceptExamples(batch) ==
    /\ examples' = batch
    /\ full' = full + 1
    /\ UNCHANGED <<empty, done>>

ExamplesDone ==
    /\ done' = TRUE
    /\ full' = full + 1
    /\ UNCHANGED <<empty, examples>>

\* ProvideExamples() begins with full_semaphore_.Wait().
WaitFull ==
    /\ full > 0
    /\ full' = full - 1
    /\ UNCHANGED <<empty, examples, done>>

\* Slip: the next thread is not woken.
NoneLeft_NoSignal ==
    /\ done
    /\ UNCHANGED repository

\* No examples are left: the next thread that waits is let through as well.
NoneLeft ==
    /\ done
    /\ full' = full + 1
    /\ UNCHANGED <<empty, examples, done>>

\* The caller's empty vector is swapped with examples_.
ProvideExamples ==
    /\ ~done
    /\ examples' = <<>>
    /\ empty' = empty + 1
    /\ UNCHANGED <<full, done>>

RepositoryTypeOK(Example) ==
    /\ full \in 0..1 /\ empty \in 0..1
    /\ examples \in Seq(Example)
    /\ done \in BOOLEAN
=============================================================================
