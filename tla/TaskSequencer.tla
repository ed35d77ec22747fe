--------------------------- MODULE TaskSequencer ----------------------------
(***************************************************************************)
(* class TaskSequencer: tasks run in parallel, their destructors in order. *)
(*                                                                         *)
(* Task i is the i-th one given to Run(); its RunTaskArgsList is node i,   *)
(* and 0 is NULL.  The two semaphores are counts of permits, which is what *)
(* module Semaphore shows a Semaphore to be.  pc[i] is where RunTask() of  *)
(* task i is:                                                              *)
(*    "none"     not given to Run() yet                                    *)
(*    "unborn"   its node exists but pthread_create() failed               *)
(*    "compute"  in the operator ()                                        *)
(*    "join"     about to look at tail, or in pthread_join(tail->thread)   *)
(*    "delete"   before the destructor, "deleting" in it                   *)
(*    "unlink"   before the deletion of the tail                           *)
(*    "signal"   before tot_threads_avail_.Signal()                        *)
(*    "leave"    after it, "exited" when the thread has ended              *)
(* and main is where the thread that owns the TaskSequencer is:            *)
(*    "idle"     not in a call                                             *)
(*    "run"      in Run() at the first semaphore, "total" at the second,   *)
(*               "create" behind both                                      *)
(*    "wait"     in Wait(),  "destroy"  in the destructor                  *)
(*    "gone"     the destructor has returned                               *)
(*    "undefined" pthread_join() was given a pthread_t nobody wrote        *)
(***************************************************************************)
EXTENDS Integers, Sequences, FiniteSets

CONSTANTS NumTasks,         \* bound on the number of calls of Run()
          NumThreads,       \* num_threads
          NumThreadsTotal,  \* num_threads_total, or its default
          CreateMayFail     \* may pthread_create() fail?

\* The second conjunct is the assertion of the constructor.
ASSUME TaskSequencerAssumption ==
    /\ NumTasks \in Nat /\ NumThreads \in Nat /\ NumThreadsTotal \in Nat
    /\ NumThreadsTotal >= NumThreads
    /\ CreateMayFail \in BOOLEAN

VARIABLES main, given, thread_list, threads_avail, tot_threads_avail,
          pc,      \* [1..NumTasks -> where the task's thread is]
          tail,    \* [1..NumTasks -> member tail of the node]
          cell,    \* [1..NumTasks -> {"none", "live", "freed"}], the node itself
          joins,   \* [1..NumTasks -> how often the thread was joined]
          output   \* the tasks whose destructor has begun, in order

vars == <<main, given, thread_list, threads_avail, tot_threads_avail,
          pc, tail, cell, joins, output>>
semaphores == <<threads_avail, tot_threads_avail>>

Tasks == 1..NumTasks
Null  == 0
PCs   == {"none", "unborn", "compute", "join", "delete", "deleting", "unlink",
          "signal", "leave", "exited"}

TypeOK ==
    /\ main \in {"idle", "run", "total", "create", "wait", "destroy", "gone", "undefined"}
    /\ given \in 0..NumTasks
    /\ thread_list \in Tasks \cup {Null}
    /\ threads_avail \in Nat /\ tot_threads_avail \in Nat
    /\ pc \in [Tasks -> PCs]
    /\ tail \in [Tasks -> Tasks \cup {Null}]
    /\ cell \in [Tasks -> {"none", "live", "freed"}]
    /\ joins \in [Tasks -> Nat]
    /\ output \in Seq(Tasks)

Init ==
    /\ main = "idle" /\ given = 0 /\ thread_list = Null
    /\ threads_avail = NumThreads /\ tot_threads_avail = NumThreadsTotal
    /\ pc = [i \in Tasks |-> "none"]
    /\ tail = [i \in Tasks |-> Null]
    /\ cell = [i \in Tasks |-> "none"]
    /\ joins = [i \in Tasks |-> 0]
    /\ output = <<>>

-----------------------------------------------------------------------------
(***************************************************************************)
(* The owner: Run(), Wait() and the destructor.                            *)
(***************************************************************************)

CallRun ==
    /\ main = "idle" /\ given < NumTasks /\ main' = "run"
    /\ UNCHANGED <<given, thread_list, semaphores, pc, tail, cell, joins, output>>

\* threads_avail_.Wait(): Run() stays at "run" while no thread is free
RunTakesThread ==
    /\ main = "run"
    /\ threads_avail > 0
    /\ threads_avail' = threads_avail - 1
    /\ main' = "total"
    /\ UNCHANGED <<given, thread_list, tot_threads_avail, pc, tail, cell, joins, output>>

\* tot_threads_avail_.Wait()
RunTakesTotal ==
    /\ main = "total"
    /\ tot_threads_avail > 0
    /\ tot_threads_avail' = tot_threads_avail - 1
    /\ main' = "create"
    /\ UNCHANGED <<given, thread_list, threads_avail, pc, tail, cell, joins, output>>

\* The node is put at the head of the list before the thread is created.  When
\* pthread_create() fails, KALDI_ERR throws and the unwinding of the owner's
\* stack runs the destructor with the node still in the list.
RunCreates ==
    /\ main = "create"
    /\ given' = given + 1
    /\ thread_list' = given'
    /\ tail' = [tail EXCEPT ![given'] = thread_list]
    /\ cell' = [cell EXCEPT ![given'] = "live"]
    /\ \/ pc' = [pc EXCEPT ![given'] = "compute"] /\ main' = "idle"
       \/ CreateMayFail /\ pc' = [pc EXCEPT ![given'] = "unborn"] /\ main' = "destroy"
    /\ UNCHANGED <<semaphores, joins, output>>

CallWait ==
    /\ main = "idle" /\ main' = "wait"
    /\ UNCHANGED <<given, thread_list, semaphores, pc, tail, cell, joins, output>>

CallDestructor ==
    /\ main = "idle" /\ main' = "destroy"
    /\ UNCHANGED <<given, thread_list, semaphores, pc, tail, cell, joins, output>>

ReturnFromWait == main' = IF main = "wait" THEN "idle" ELSE "gone"

\* Wait() and the destructor with nothing left to wait for
WaitForNothing ==
    /\ main \in {"wait", "destroy"}
    /\ thread_list = Null
    /\ ReturnFromWait
    /\ UNCHANGED <<given, thread_list, semaphores, pc, tail, cell, joins, output>>

\* Slip: thread_list_ is not reset after its node was deleted.
WaitForLast_KeepsList ==
    /\ main \in {"wait", "destroy"}
    /\ thread_list # Null
    /\ pc[thread_list] = "exited"
    /\ joins' = [joins EXCEPT ![thread_list] = @ + 1]
    /\ cell' = [cell EXCEPT ![thread_list] = "freed"]
    /\ ReturnFromWait
    /\ UNCHANGED <<given, thread_list, semaphores, pc, tail, output>>

\* pthread_join(thread_list_->thread), then the node is deleted.
WaitForLast ==
    /\ main \in {"wait", "destroy"}
    /\ thread_list # Null
    /\ pc[thread_list] = "exited"
    /\ joins' = [joins EXCEPT ![thread_list] = @ + 1]
    /\ cell' = [cell EXCEPT ![thread_list] = "freed"]
    /\ thread_list' = Null
    /\ ReturnFromWait
    /\ UNCHANGED <<given, semaphores, pc, tail, output>>

\* The member thread of a node whose pthread_create() failed is uninitialised.
WaitForUnborn ==
    /\ main \in {"wait", "destroy"}
    /\ thread_list # Null
    /\ pc[thread_list] = "unborn"
    /\ main' = "undefined"
    /\ UNCHANGED <<given, thread_list, semaphores, pc, tail, cell, joins, output>>

Owner == CallRun \/ RunTakesThread \/ RunTakesTotal \/ RunCreates
         \/ CallWait \/ CallDestructor \/ WaitForNothing \/ WaitForLast \/ WaitForUnborn

-----------------------------------------------------------------------------
(***************************************************************************)
(* RunTask(), the function of the thread of task i.                        *)
(***************************************************************************)
Goto(i, place) == pc' = [pc EXCEPT ![i] = place]

\* Slip: the permit of the computation is given back twice.
FinishTask_Twice(i) ==
    /\ pc[i] = "compute" /\ Goto(i, "join")
    /\ threads_avail' = threads_avail + 2
    /\ UNCHANGED <<main, given, thread_list, tot_threads_avail, tail, cell, joins, output>>

\* Slip: the permit of the computation is not given back.
FinishTask_Keeps(i) ==
    /\ pc[i] = "compute" /\ Goto(i, "join")
    /\ UNCHANGED <<main, given, thread_list, semaphores, tail, cell, joins, output>>

\* operator () has returned: threads_avail_.Signal()
FinishTask(i) ==
    /\ pc[i] = "compute" /\ Goto(i, "join")
    /\ threads_avail' = threads_avail + 1
    /\ UNCHANGED <<main, given, thread_list, tot_threads_avail, tail, cell, joins, output>>

\* Slip: a thread that is already deleting its object is not waited for.
JoinTail_Early(i) ==
    /\ pc[i] = "join" /\ Goto(i, "delete")
    /\ tail[i] # Null => pc[tail[i]] \in {"deleting", "unlink", "signal", "leave", "exited"}
    /\ joins' = [j \in Tasks |-> IF j = tail[i] THEN joins[j] + 1 ELSE joins[j]]
    /\ UNCHANGED <<main, given, thread_list, semaphores, tail, cell, output>>

\* pthread_join(tail->thread), when there is a tail
JoinTail(i) ==
    /\ pc[i] = "join" /\ Goto(i, "delete")
    /\ tail[i] # Null => pc[tail[i]] = "exited"
    /\ joins' = [j \in Tasks |-> IF j = tail[i] THEN joins[j] + 1 ELSE joins[j]]
    /\ UNCHANGED <<main, given, thread_list, semaphores, tail, cell, output>>

\* delete args->c;
BeginDelete(i) ==
    /\ pc[i] = "delete" /\ Goto(i, "deleting")
    /\ output' = Append(output, i)
    /\ UNCHANGED <<main, given, thread_list, semaphores, tail, cell, joins>>

EndDelete(i) ==
    /\ pc[i] = "deleting" /\ Goto(i, "unlink")
    /\ UNCHANGED <<main, given, thread_list, semaphores, tail, cell, joins, output>>

\* Slip: the node is deleted but tail is not set to NULL.
DeleteTail_KeepsPointer(i) ==
    /\ pc[i] = "unlink" /\ Goto(i, "signal")
    /\ cell' = [j \in Tasks |-> IF j = tail[i] THEN "freed" ELSE cell[j]]
    /\ UNCHANGED <<main, given, thread_list, semaphores, tail, joins, output>>

\* Slip: tail is set to NULL but the node is not deleted.
DeleteTail_Leaks(i) ==
    /\ pc[i] = "unlink" /\ Goto(i, "signal")
    /\ tail' = [tail EXCEPT ![i] = Null]
    /\ UNCHANGED <<main, given, thread_list, semaphores, cell, joins, output>>

\* delete args->tail; args->tail = NULL;
DeleteTail(i) ==
    /\ pc[i] = "unlink" /\ Goto(i, "signal")
    /\ cell' = [j \in Tasks |-> IF j = tail[i] THEN "freed" ELSE cell[j]]
    /\ tail' = [tail EXCEPT ![i] = Null]
    /\ UNCHANGED <<main, given, thread_list, semaphores, joins, output>>

\* tot_threads_avail_.Signal(), while the thread is still alive
SignalTotal(i) ==
    /\ pc[i] = "signal" /\ Goto(i, "leave")
    /\ tot_threads_avail' = tot_threads_avail + 1
    /\ UNCHANGED <<main, given, thread_list, threads_avail, tail, cell, joins, output>>

Exit(i) ==
    /\ pc[i] = "leave" /\ Goto(i, "exited")
    /\ UNCHANGED <<main, given, thread_list, semaphores, tail, cell, joins, output>>

RunTask(i) == FinishTask(i) \/ JoinTail(i) \/ BeginDelete(i) \/ EndDelete(i)
              \/ DeleteTail(i) \/ SignalTotal(i) \/ Exit(i)

\* The program goes on without the sequencer once the destructor has returned;
\* after undefined behaviour nothing is said of the owner.
Ended == main \in {"gone", "undefined"} /\ UNCHANGED vars

Next == Owner \/ (\E i \in Tasks : RunTask(i)) \/ Ended

Spec == Init /\ [][Next]_vars

\* Threads are scheduled, operator () and the destructors return, and a call of
\* the owner goes on when it can; it is up to the owner whether it makes one.
FairSpec ==
    /\ Spec
    /\ \A i \in Tasks : WF_vars(RunTask(i))
    /\ WF_vars(RunTakesThread) /\ WF_vars(RunTakesTotal) /\ WF_vars(RunCreates)
    /\ WF_vars(WaitForNothing \/ WaitForLast)

-----------------------------------------------------------------------------
(***************************************************************************)
(* Properties.                                                             *)
(***************************************************************************)
At(places) == {i \in Tasks : pc[i] \in places}
Alive == At(PCs \ {"none", "unborn", "exited"})

\* The destructors run one at a time and in the order of Run().
Ordered == INSTANCE OrderedOutput WITH busy <- At({"deleting"}) # {}
OutputInOrder == Ordered!OrderedSpec

\* No more than num_threads threads compute.  The comment of RunTask() says that
\* tot_threads_avail_ limits the threads that are alive; since a thread signals
\* it before it ends, the limit is num_threads_total and one more.
ThreadsBounded ==
    /\ Cardinality(At({"compute"})) <= NumThreads
    /\ Cardinality(Alive) <= NumThreadsTotal + 1

\* A node is only used before it is deleted: by its own thread, by the thread
\* that has it as its tail, and by the owner in Wait().
NoUseAfterFree ==
    /\ \A i \in Alive : cell[i] = "live"
    /\ \A i \in At({"join", "unlink"}) : tail[i] # Null => cell[tail[i]] = "live"
    /\ main \in {"wait", "destroy"} /\ thread_list # Null => cell[thread_list] = "live"

\* The two assertions on tail->tail and thread_list_->tail.
AssertionsHold ==
    /\ \A i \in At({"unlink"}) : tail[i] # Null => tail[tail[i]] = Null
    /\ main \in {"wait", "destroy"} /\ thread_list # Null /\ pc[thread_list] = "exited"
          => tail[thread_list] = Null

\* Nothing is left behind: when the destructor has returned, every thread was
\* joined, exactly once, every node was deleted and every destructor has run.
NothingLeft ==
    main = "gone" => \A i \in 1..given :
        pc[i] = "exited" /\ joins[i] = 1 /\ cell[i] = "freed"

\* The comment of the class: the destructor waits for the jobs that still run.
DestructorWaits == main \in {"gone", "undefined"} => At({"compute", "join", "delete"}) = {}

\* No call of the owner hangs, unless pthread_create() has failed: Run() gets
\* past both semaphores, whose permits are given back at different places, by
\* threads that wait for each other, and Wait() and the destructor return.
CallsReturn ==
    main \in {"run", "total", "create", "wait", "destroy"}
        ~> main \in {"idle", "gone"} \/ At({"unborn"}) # {}
=============================================================================
