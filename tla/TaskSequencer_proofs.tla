------------------------ MODULE TaskSequencer_proofs ------------------------
(***************************************************************************)
(* Proofs about TaskSequencer, for any number of tasks and of permits: the *)
(* destructors run one at a time and in the order of Run(), a node is      *)
(* never used after it was deleted, the assertions of the code hold, the   *)
(* destructor leaves nothing behind, and the semaphores bound how many     *)
(* threads compute and how many are alive: each permit that was taken is   *)
(* charged to a thread (Charged), and a step moves one thread from one     *)
(* count to another (CountMove).                                           *)
(***************************************************************************)
EXTENDS TaskSequencer, FiniteSetTheorems, TLAPS

\* The tasks given so far are those whose thread was created; a thread could
\* not be created only for the last one, and then the owner is on its way out.
Numbered ==
    /\ \A i \in Tasks : pc[i] = "none" <=> i > given
    /\ \A i \in Tasks : pc[i] = "unborn" => thread_list = i /\ main \in {"destroy", "undefined"}
    /\ main \in {"run", "total", "create"} => given < NumTasks

\* thread_list is the last task, or NULL when all have ended.
ListHead ==
    /\ thread_list \in {Null, given}
    /\ thread_list = Null => \A i \in Tasks : i <= given => pc[i] = "exited"
    /\ main = "gone" => thread_list = Null

\* A tail is the task before, or NULL when all tasks before have ended, and a
\* thread that has passed pthread_join() is one whose predecessors have ended.
Tails ==
    /\ \A i \in Tasks : tail[i] \in {Null, i - 1}
    /\ \A i, j \in Tasks : j < i /\ i <= given /\ tail[i] = Null => pc[j] = "exited"
    /\ \A i, j \in Tasks :
          j < i /\ pc[i] \in {"delete", "deleting", "unlink", "signal", "leave", "exited"}
             => pc[j] = "exited"
    /\ \A i \in Tasks : pc[i] \in {"none", "signal", "leave", "exited"} => tail[i] = Null

\* The output is 1, 2, ..., and the threads say how far it has come.
Outputs ==
    /\ Len(output) \in 0..given
    /\ \A k \in 1..Len(output) : output[k] = k
    /\ \A i \in Tasks :
          pc[i] \in {"deleting", "unlink", "signal", "leave", "exited"} <=> i <= Len(output)

\* The thread of task i was joined by the thread of the next task, which has
\* not deleted node i yet.
JoinedByNext(i) ==
    i + 1 \in Tasks /\ tail[i + 1] = i /\ pc[i + 1] \in {"delete", "deleting", "unlink"}

\* A node lives as long as the list, the next task or its own thread has it.
Cells ==
    /\ \A i \in Tasks : cell[i] = "none" <=> i > given
    /\ \A i \in Tasks : cell[i] = "live" <=>
          i <= given /\ (thread_list = i \/ (i + 1 \in Tasks /\ tail[i + 1] = i))
    /\ \A i \in Tasks : pc[i] \notin {"none", "exited"} => cell[i] = "live"
    /\ \A i \in Tasks : joins[i] = IF cell[i] = "freed" \/ JoinedByNext(i) THEN 1 ELSE 0

IInv == TypeOK /\ Numbered /\ ListHead /\ Tails /\ Outputs /\ Cells

-----------------------------------------------------------------------------
\* The invariant holds at first.
LEMMA InitEstablishes == ASSUME Init PROVE IInv
<1>1. TypeOK
  BY TaskSequencerAssumption DEF Init, TypeOK, PCs, Tasks, Null
<1>2. Numbered /\ ListHead /\ Tails
  BY TaskSequencerAssumption DEF Init, Numbered, ListHead, Tails, Tasks, Null
<1>3. Outputs
  BY TaskSequencerAssumption DEF Init, Outputs, Tasks
<1>4. Cells
  BY TaskSequencerAssumption DEF Init, Cells, JoinedByNext, Tasks, Null
<1> QED BY <1>1, <1>2, <1>3, <1>4 DEF IInv

\* CallRun preserves the invariant.
LEMMA CallRunPreserves == ASSUME IInv, CallRun PROVE IInv'
<1> USE TaskSequencerAssumption DEF Tasks, Null
<1>1. TypeOK'
  BY DEF IInv, TypeOK, PCs, Numbered, CallRun, semaphores
<1>2. Numbered'
  BY DEF IInv, TypeOK, Numbered, ListHead, CallRun, semaphores
<1>3. ListHead'
  BY DEF IInv, TypeOK, Numbered, ListHead, Tails, CallRun, semaphores
<1>4. Tails'
  BY DEF IInv, TypeOK, Numbered, ListHead, Tails, CallRun, semaphores
<1>5. Outputs'
  BY DEF IInv, TypeOK, Numbered, Tails, Outputs, CallRun, semaphores
<1>6. Cells'
  BY DEF IInv, TypeOK, Numbered, ListHead, Tails, Cells, JoinedByNext, CallRun, semaphores
<1> QED BY <1>1, <1>2, <1>3, <1>4, <1>5, <1>6 DEF IInv

\* RunTakesThread preserves the invariant.
LEMMA RunTakesThreadPreserves == ASSUME IInv, RunTakesThread PROVE IInv'
<1> USE TaskSequencerAssumption DEF Tasks, Null
<1>1. TypeOK'
  BY DEF IInv, TypeOK, PCs, Numbered, RunTakesThread
<1>2. Numbered'
  BY DEF IInv, TypeOK, Numbered, ListHead, RunTakesThread
<1>3. ListHead'
  BY DEF IInv, TypeOK, Numbered, ListHead, Tails, RunTakesThread
<1>4. Tails'
  BY DEF IInv, TypeOK, Numbered, ListHead, Tails, RunTakesThread
<1>5. Outputs'
  BY DEF IInv, TypeOK, Numbered, Tails, Outputs, RunTakesThread
<1>6. Cells'
  BY DEF IInv, TypeOK, Numbered, ListHead, Tails, Cells, JoinedByNext, RunTakesThread
<1> QED BY <1>1, <1>2, <1>3, <1>4, <1>5, <1>6 DEF IInv

\* RunTakesTotal preserves the invariant.
LEMMA RunTakesTotalPreserves == ASSUME IInv, RunTakesTotal PROVE IInv'
<1> USE TaskSequencerAssumption DEF Tasks, Null
<1>1. TypeOK'
  BY DEF IInv, TypeOK, PCs, Numbered, RunTakesTotal
<1>2. Numbered'
  BY DEF IInv, TypeOK, Numbered, ListHead, RunTakesTotal
<1>3. ListHead'
  BY DEF IInv, TypeOK, Numbered, ListHead, Tails, RunTakesTotal
<1>4. Tails'
  BY DEF IInv, TypeOK, Numbered, ListHead, Tails, RunTakesTotal
<1>5. Outputs'
  BY DEF IInv, TypeOK, Numbered, Tails, Outputs, RunTakesTotal
<1>6. Cells'
  BY DEF IInv, TypeOK, Numbered, ListHead, Tails, Cells, JoinedByNext, RunTakesTotal
<1> QED BY <1>1, <1>2, <1>3, <1>4, <1>5, <1>6 DEF IInv

\* RunCreates preserves the invariant.
LEMMA RunCreatesPreserves == ASSUME IInv, RunCreates PROVE IInv'
<1> USE TaskSequencerAssumption DEF Tasks, Null
<1>0. /\ given' = given + 1 /\ given' \in Tasks /\ given \in Nat
      /\ thread_list' = given' /\ thread_list \in Tasks \cup {Null}
      /\ pc[given'] = "none" /\ pc'[given'] \in {"compute", "unborn"}
      /\ tail'[given'] = thread_list
      /\ \A j \in Tasks : j # given' => pc'[j] = pc[j] /\ tail'[j] = tail[j]
  BY DEF IInv, TypeOK, Numbered, RunCreates
<1>1. TypeOK'
  <2>1. pc' \in [Tasks -> PCs]
    BY <1>0 DEF IInv, TypeOK, PCs, RunCreates
  <2>2. tail' \in [Tasks -> Tasks \cup {Null}] /\ cell' \in [Tasks -> {"none", "live", "freed"}]
    BY <1>0 DEF IInv, TypeOK, RunCreates
  <2>3. main' \in {"idle", "destroy"} /\ given' \in 0..NumTasks
    BY <1>0 DEF RunCreates
  <2> QED BY <1>0, <2>1, <2>2, <2>3 DEF IInv, TypeOK, RunCreates, semaphores
<1>2. Numbered'
  BY DEF IInv, TypeOK, Numbered, ListHead, RunCreates, semaphores
<1>3. ListHead'
  BY DEF IInv, TypeOK, Numbered, ListHead, Tails, RunCreates, semaphores
<1>4. Tails'
  <2>1. \A j \in Tasks : tail'[j] \in {Null, j - 1}
    BY <1>0 DEF IInv, ListHead, Tails
  <2>2. \A j \in Tasks : j <= given => pc[j] # "none" /\ pc'[j] = pc[j]
    BY <1>0 DEF IInv, Numbered
  <2>3. \A j, k \in Tasks : k < j /\ j <= given' /\ tail'[j] = Null => pc'[k] = "exited"
    BY <1>0, <2>2 DEF IInv, ListHead, Tails
  <2>4. \A j, k \in Tasks :
           k < j /\ pc'[j] \in {"delete", "deleting", "unlink", "signal", "leave", "exited"}
              => pc'[k] = "exited"
    BY <1>0 DEF IInv, Tails
  <2>5. \A j \in Tasks : pc'[j] \in {"none", "signal", "leave", "exited"} => tail'[j] = Null
    BY <1>0 DEF IInv, Tails
  <2> QED BY <2>1, <2>3, <2>4, <2>5 DEF Tails
<1>5. Outputs'
  BY DEF IInv, TypeOK, Numbered, Tails, Outputs, RunCreates, semaphores
<1>6. Cells'
  BY DEF IInv, TypeOK, Numbered, ListHead, Tails, Cells, JoinedByNext, RunCreates, semaphores
<1> QED BY <1>1, <1>2, <1>3, <1>4, <1>5, <1>6 DEF IInv

\* CallWait preserves the invariant.
LEMMA CallWaitPreserves == ASSUME IInv, CallWait PROVE IInv'
<1> USE TaskSequencerAssumption DEF Tasks, Null
<1>1. TypeOK'
  BY DEF IInv, TypeOK, PCs, Numbered, CallWait, semaphores
<1>2. Numbered'
  BY DEF IInv, TypeOK, Numbered, ListHead, CallWait, semaphores
<1>3. ListHead'
  BY DEF IInv, TypeOK, Numbered, ListHead, Tails, CallWait, semaphores
<1>4. Tails'
  BY DEF IInv, TypeOK, Numbered, ListHead, Tails, CallWait, semaphores
<1>5. Outputs'
  BY DEF IInv, TypeOK, Numbered, Tails, Outputs, CallWait, semaphores
<1>6. Cells'
  BY DEF IInv, TypeOK, Numbered, ListHead, Tails, Cells, JoinedByNext, CallWait, semaphores
<1> QED BY <1>1, <1>2, <1>3, <1>4, <1>5, <1>6 DEF IInv

\* CallDestructor preserves the invariant.
LEMMA CallDestructorPreserves == ASSUME IInv, CallDestructor PROVE IInv'
<1> USE TaskSequencerAssumption DEF Tasks, Null
<1>1. TypeOK'
  BY DEF IInv, TypeOK, PCs, Numbered, CallDestructor, semaphores
<1>2. Numbered'
  BY DEF IInv, TypeOK, Numbered, ListHead, CallDestructor, semaphores
<1>3. ListHead'
  BY DEF IInv, TypeOK, Numbered, ListHead, Tails, CallDestructor, semaphores
<1>4. Tails'
  BY DEF IInv, TypeOK, Numbered, ListHead, Tails, CallDestructor, semaphores
<1>5. Outputs'
  BY DEF IInv, TypeOK, Numbered, Tails, Outputs, CallDestructor, semaphores
<1>6. Cells'
  BY DEF IInv, TypeOK, Numbered, ListHead, Tails, Cells, JoinedByNext, CallDestructor, semaphores
<1> QED BY <1>1, <1>2, <1>3, <1>4, <1>5, <1>6 DEF IInv

\* WaitForNothing preserves the invariant.
LEMMA WaitForNothingPreserves == ASSUME IInv, WaitForNothing PROVE IInv'
<1> USE TaskSequencerAssumption DEF Tasks, Null
<1>1. TypeOK'
  BY DEF IInv, TypeOK, PCs, Numbered, WaitForNothing, ReturnFromWait, semaphores
<1>2. Numbered'
  BY DEF IInv, TypeOK, Numbered, ListHead, WaitForNothing, ReturnFromWait, semaphores
<1>3. ListHead'
  BY DEF IInv, TypeOK, Numbered, ListHead, Tails, WaitForNothing, ReturnFromWait, semaphores
<1>4. Tails'
  BY DEF IInv, TypeOK, Numbered, ListHead, Tails, WaitForNothing, ReturnFromWait, semaphores
<1>5. Outputs'
  BY DEF IInv, TypeOK, Numbered, Tails, Outputs, WaitForNothing, ReturnFromWait, semaphores
<1>6. Cells'
  BY DEF IInv, TypeOK, Numbered, ListHead, Tails, Cells, JoinedByNext, WaitForNothing, ReturnFromWait, semaphores
<1> QED BY <1>1, <1>2, <1>3, <1>4, <1>5, <1>6 DEF IInv

\* WaitForLast preserves the invariant.
LEMMA WaitForLastPreserves == ASSUME IInv, WaitForLast PROVE IInv'
<1> USE TaskSequencerAssumption DEF Tasks, Null
<1>1. TypeOK'
  BY DEF IInv, TypeOK, PCs, Numbered, WaitForLast, ReturnFromWait, semaphores
<1>2. Numbered'
  BY DEF IInv, TypeOK, Numbered, ListHead, WaitForLast, ReturnFromWait, semaphores
<1>3. ListHead'
  BY DEF IInv, TypeOK, Numbered, ListHead, Tails, WaitForLast, ReturnFromWait, semaphores
<1>4. Tails'
  BY DEF IInv, TypeOK, Numbered, ListHead, Tails, WaitForLast, ReturnFromWait, semaphores
<1>5. Outputs'
  BY DEF IInv, TypeOK, Numbered, Tails, Outputs, WaitForLast, ReturnFromWait, semaphores
<1>6. Cells'
  BY DEF IInv, TypeOK, Numbered, ListHead, Tails, Cells, JoinedByNext, WaitForLast, ReturnFromWait, semaphores
<1> QED BY <1>1, <1>2, <1>3, <1>4, <1>5, <1>6 DEF IInv

\* WaitForUnborn preserves the invariant.
LEMMA WaitForUnbornPreserves == ASSUME IInv, WaitForUnborn PROVE IInv'
<1> USE TaskSequencerAssumption DEF Tasks, Null
<1>1. TypeOK'
  BY DEF IInv, TypeOK, PCs, Numbered, WaitForUnborn, semaphores
<1>2. Numbered'
  BY DEF IInv, TypeOK, Numbered, ListHead, WaitForUnborn, semaphores
<1>3. ListHead'
  BY DEF IInv, TypeOK, Numbered, ListHead, Tails, WaitForUnborn, semaphores
<1>4. Tails'
  BY DEF IInv, TypeOK, Numbered, ListHead, Tails, WaitForUnborn, semaphores
<1>5. Outputs'
  BY DEF IInv, TypeOK, Numbered, Tails, Outputs, WaitForUnborn, semaphores
<1>6. Cells'
  BY DEF IInv, TypeOK, Numbered, ListHead, Tails, Cells, JoinedByNext, WaitForUnborn, semaphores
<1> QED BY <1>1, <1>2, <1>3, <1>4, <1>5, <1>6 DEF IInv

\* FinishTask preserves the invariant.
LEMMA FinishTaskPreserves == ASSUME NEW i \in Tasks, IInv, FinishTask(i) PROVE IInv'
<1> USE TaskSequencerAssumption DEF Tasks, Null
<1>1. TypeOK'
  BY DEF IInv, TypeOK, PCs, Numbered, FinishTask, Goto
<1>2. Numbered'
  BY DEF IInv, TypeOK, Numbered, ListHead, FinishTask, Goto
<1>3. ListHead'
  BY DEF IInv, TypeOK, Numbered, ListHead, Tails, FinishTask, Goto
<1>4. Tails'
  BY DEF IInv, TypeOK, Numbered, ListHead, Tails, FinishTask, Goto
<1>5. Outputs'
  BY DEF IInv, TypeOK, Numbered, Tails, Outputs, FinishTask, Goto
<1>6. Cells'
  <2>1. \A j \in Tasks : JoinedByNext(j)' <=> JoinedByNext(j)
    BY DEF IInv, TypeOK, JoinedByNext, FinishTask, Goto
  <2>2. \A j \in Tasks : pc'[j] \notin {"none", "exited"} => cell'[j] = "live"
    BY DEF IInv, TypeOK, Cells, FinishTask, Goto
  <2> QED BY <2>1, <2>2 DEF IInv, Cells, FinishTask
<1> QED BY <1>1, <1>2, <1>3, <1>4, <1>5, <1>6 DEF IInv

\* JoinTail preserves the invariant.
LEMMA JoinTailPreserves == ASSUME NEW i \in Tasks, IInv, JoinTail(i) PROVE IInv'
<1> USE TaskSequencerAssumption DEF Tasks, Null
<1>1. TypeOK'
  BY DEF IInv, TypeOK, PCs, Numbered, JoinTail, Goto, semaphores
<1>2. Numbered'
  BY DEF IInv, TypeOK, Numbered, ListHead, JoinTail, Goto, semaphores
<1>3. ListHead'
  BY DEF IInv, TypeOK, Numbered, ListHead, Tails, JoinTail, Goto, semaphores
<1>4. Tails'
  <2>1. /\ pc[i] = "join" /\ pc'[i] = "delete" /\ i <= given
        /\ \A j \in Tasks : j # i => pc'[j] = pc[j]
    BY DEF IInv, TypeOK, Numbered, JoinTail, Goto
  <2>2. \A j \in Tasks : j < i => pc[j] = "exited"
    <3>1. CASE tail[i] = Null
      BY <2>1, <3>1 DEF IInv, Tails
    <3>2. CASE tail[i] # Null
      <4>1. tail[i] = i - 1 /\ tail[i] \in Tasks /\ pc[i - 1] = "exited"
        BY <3>2 DEF IInv, TypeOK, Tails, JoinTail
      <4> QED BY <4>1 DEF IInv, Tails
    <3> QED BY <3>1, <3>2
  <2> QED BY <2>1, <2>2 DEF IInv, Tails, JoinTail
<1>5. Outputs'
  BY DEF IInv, TypeOK, Numbered, Tails, Outputs, JoinTail, Goto, semaphores
<1>6. Cells'
  BY DEF IInv, TypeOK, Numbered, ListHead, Tails, Cells, JoinedByNext, JoinTail, Goto, semaphores
<1> QED BY <1>1, <1>2, <1>3, <1>4, <1>5, <1>6 DEF IInv

\* BeginDelete preserves the invariant.
LEMMA BeginDeletePreserves == ASSUME NEW i \in Tasks, IInv, BeginDelete(i) PROVE IInv'
<1> USE TaskSequencerAssumption DEF Tasks, Null
<1>1. TypeOK'
  BY DEF IInv, TypeOK, PCs, Numbered, BeginDelete, Goto, semaphores
<1>2. Numbered'
  BY DEF IInv, TypeOK, Numbered, ListHead, BeginDelete, Goto, semaphores
<1>3. ListHead'
  BY DEF IInv, TypeOK, Numbered, ListHead, Tails, BeginDelete, Goto, semaphores
<1>4. Tails'
  BY DEF IInv, TypeOK, Numbered, ListHead, Tails, BeginDelete, Goto, semaphores
<1>5. Outputs'
  <2>1. \A j \in Tasks : j # i => pc'[j] = pc[j]
    BY DEF IInv, TypeOK, BeginDelete, Goto
  <2>2. pc[i] = "delete" /\ pc'[i] = "deleting" /\ i <= given
    BY DEF IInv, TypeOK, Numbered, BeginDelete, Goto
  <2>3. Len(output) = i - 1
    <3>1. i > Len(output)
      BY <2>2 DEF IInv, Outputs
    <3>2. \A j \in Tasks : j < i => j <= Len(output)
      BY <2>2 DEF IInv, Tails, Outputs
    <3>3. i = 1 \/ i - 1 \in Tasks
      BY DEF IInv, TypeOK
    <3> QED BY <3>1, <3>2, <3>3 DEF IInv, TypeOK, Outputs
  <2>4. /\ Len(output') = i /\ output'[i] = i
        /\ \A k \in 1..(i - 1) : output'[k] = output[k]
    BY <2>3 DEF IInv, TypeOK, BeginDelete
  <2>5. Len(output') \in 0..given'
    BY <2>2, <2>4 DEF IInv, TypeOK, BeginDelete
  <2>6. \A k \in 1..Len(output') : output'[k] = k
    <3>1. \A k \in 1..(i - 1) : output'[k] = k
      BY <2>3, <2>4 DEF IInv, Outputs
    <3>2. \A k \in 1..i : k = i \/ k \in 1..(i - 1)
      OBVIOUS
    <3> HIDE DEF Tasks
    <3> QED BY <2>4, <3>1, <3>2
  <2> QED BY <2>1, <2>2, <2>3, <2>4, <2>5, <2>6 DEF IInv, TypeOK, Outputs
<1>6. Cells'
  BY DEF IInv, TypeOK, Numbered, ListHead, Tails, Cells, JoinedByNext, BeginDelete, Goto, semaphores
<1> QED BY <1>1, <1>2, <1>3, <1>4, <1>5, <1>6 DEF IInv

\* EndDelete preserves the invariant.
LEMMA EndDeletePreserves == ASSUME NEW i \in Tasks, IInv, EndDelete(i) PROVE IInv'
<1> USE TaskSequencerAssumption DEF Tasks, Null
<1>1. TypeOK'
  BY DEF IInv, TypeOK, PCs, Numbered, EndDelete, Goto, semaphores
<1>2. Numbered'
  BY DEF IInv, TypeOK, Numbered, ListHead, EndDelete, Goto, semaphores
<1>3. ListHead'
  BY DEF IInv, TypeOK, Numbered, ListHead, Tails, EndDelete, Goto, semaphores
<1>4. Tails'
  <2>1. \A j \in Tasks : j # i => pc'[j] = pc[j]
    BY DEF IInv, TypeOK, EndDelete, Goto
  <2>2. pc[i] = "deleting" /\ pc'[i] = "unlink"
    BY DEF IInv, TypeOK, EndDelete, Goto
  <2> QED BY <2>1, <2>2 DEF IInv, TypeOK, Tails, EndDelete
<1>5. Outputs'
  BY DEF IInv, TypeOK, Numbered, Tails, Outputs, EndDelete, Goto, semaphores
<1>6. Cells'
  BY DEF IInv, TypeOK, Numbered, ListHead, Tails, Cells, JoinedByNext, EndDelete, Goto, semaphores
<1> QED BY <1>1, <1>2, <1>3, <1>4, <1>5, <1>6 DEF IInv

\* DeleteTail preserves the invariant.
LEMMA DeleteTailPreserves == ASSUME NEW i \in Tasks, IInv, DeleteTail(i) PROVE IInv'
<1> USE TaskSequencerAssumption DEF Tasks, Null
<1>1. TypeOK'
  BY DEF IInv, TypeOK, PCs, Numbered, DeleteTail, Goto, semaphores
<1>2. Numbered'
  BY DEF IInv, TypeOK, Numbered, ListHead, DeleteTail, Goto, semaphores
<1>3. ListHead'
  BY DEF IInv, TypeOK, Numbered, ListHead, Tails, DeleteTail, Goto, semaphores
<1>4. Tails'
  BY DEF IInv, TypeOK, Numbered, ListHead, Tails, DeleteTail, Goto, semaphores
<1>5. Outputs'
  BY DEF IInv, TypeOK, Numbered, Tails, Outputs, DeleteTail, Goto, semaphores
<1>6. Cells'
  <2>1. tail[i] # Null => /\ tail[i] = i - 1 /\ tail[i] \in Tasks
                          /\ pc[tail[i]] = "exited" /\ cell[tail[i]] = "live"
                          /\ JoinedByNext(tail[i]) /\ thread_list # tail[i]
    BY DEF IInv, TypeOK, Numbered, ListHead, Tails, Cells, JoinedByNext, DeleteTail
  <2>2. \A j \in Tasks : j # tail[i] =>
           cell'[j] = cell[j] /\ (JoinedByNext(j)' <=> JoinedByNext(j))
    BY DEF IInv, TypeOK, Tails, JoinedByNext, DeleteTail, Goto
  <2>3. tail[i] # Null => cell'[tail[i]] = "freed"
    BY <2>1 DEF DeleteTail
  <2>4. \A j \in Tasks : cell'[j] = "none" <=> j > given
    BY <2>1, <2>2, <2>3 DEF IInv, TypeOK, Cells
  <2>5. \A j \in Tasks : cell'[j] = "live" <=>
           j <= given /\ (thread_list = j \/ (j + 1 \in Tasks /\ tail'[j + 1] = j))
    BY <2>1, <2>2, <2>3 DEF IInv, TypeOK, Tails, Cells, DeleteTail
  <2>6. \A j \in Tasks : pc'[j] \notin {"none", "exited"} => cell'[j] = "live"
    BY <2>1, <2>2, <2>3 DEF IInv, TypeOK, Cells, DeleteTail, Goto
  <2>7. \A j \in Tasks :
           joins[j] = IF cell'[j] = "freed" \/ JoinedByNext(j)' THEN 1 ELSE 0
    BY <2>1, <2>2, <2>3 DEF IInv, TypeOK, Cells
  <2> QED BY <2>4, <2>5, <2>6, <2>7 DEF Cells, DeleteTail
<1> QED BY <1>1, <1>2, <1>3, <1>4, <1>5, <1>6 DEF IInv

\* SignalTotal preserves the invariant.
LEMMA SignalTotalPreserves == ASSUME NEW i \in Tasks, IInv, SignalTotal(i) PROVE IInv'
<1> USE TaskSequencerAssumption DEF Tasks, Null
<1>1. TypeOK'
  BY DEF IInv, TypeOK, PCs, Numbered, SignalTotal, Goto
<1>2. Numbered'
  BY DEF IInv, TypeOK, Numbered, ListHead, SignalTotal, Goto
<1>3. ListHead'
  BY DEF IInv, TypeOK, Numbered, ListHead, Tails, SignalTotal, Goto
<1>4. Tails'
  BY DEF IInv, TypeOK, Numbered, ListHead, Tails, SignalTotal, Goto
<1>5. Outputs'
  BY DEF IInv, TypeOK, Numbered, Tails, Outputs, SignalTotal, Goto
<1>6. Cells'
  BY DEF IInv, TypeOK, Numbered, ListHead, Tails, Cells, JoinedByNext, SignalTotal, Goto
<1> QED BY <1>1, <1>2, <1>3, <1>4, <1>5, <1>6 DEF IInv

\* Exit preserves the invariant.
LEMMA ExitPreserves == ASSUME NEW i \in Tasks, IInv, Exit(i) PROVE IInv'
<1> USE TaskSequencerAssumption DEF Tasks, Null
<1>1. TypeOK'
  BY DEF IInv, TypeOK, PCs, Numbered, Exit, Goto, semaphores
<1>2. Numbered'
  BY DEF IInv, TypeOK, Numbered, ListHead, Exit, Goto, semaphores
<1>3. ListHead'
  BY DEF IInv, TypeOK, Numbered, ListHead, Tails, Exit, Goto, semaphores
<1>4. Tails'
  BY DEF IInv, TypeOK, Numbered, ListHead, Tails, Exit, Goto, semaphores
<1>5. Outputs'
  BY DEF IInv, TypeOK, Numbered, Tails, Outputs, Exit, Goto, semaphores
<1>6. Cells'
  BY DEF IInv, TypeOK, Numbered, ListHead, Tails, Cells, JoinedByNext, Exit, Goto, semaphores
<1> QED BY <1>1, <1>2, <1>3, <1>4, <1>5, <1>6 DEF IInv

\* Every step preserves the invariant.
LEMMA NextPreserves == IInv /\ [Next]_vars => IInv'
<1> SUFFICES ASSUME IInv, [Next]_vars PROVE IInv'
  OBVIOUS
<1>1. CASE Owner
  BY <1>1, CallRunPreserves, RunTakesThreadPreserves, RunTakesTotalPreserves, RunCreatesPreserves,
     CallWaitPreserves, CallDestructorPreserves, WaitForNothingPreserves,
     WaitForLastPreserves, WaitForUnbornPreserves DEF Owner
<1>2. CASE \E i \in Tasks : RunTask(i)
  BY <1>2, FinishTaskPreserves, JoinTailPreserves, BeginDeletePreserves,
     EndDeletePreserves, DeleteTailPreserves, SignalTotalPreserves,
     ExitPreserves DEF RunTask
<1>3. CASE UNCHANGED vars
  BY <1>3 DEF vars, IInv, TypeOK, Numbered, ListHead, Tails, Outputs, Cells, JoinedByNext
<1> QED BY <1>1, <1>2, <1>3 DEF Next, Ended

LEMMA Invariance == Spec => []IInv
<1>1. Init => IInv
  BY InitEstablishes
<1> QED BY <1>1, NextPreserves, PTL DEF Spec

-----------------------------------------------------------------------------
(***************************************************************************)
(* What follows from the invariant.                                        *)
(***************************************************************************)

\* The members of the class and of the nodes keep their types.
THEOREM TypeCorrect == Spec => []TypeOK
<1>1. IInv => TypeOK
  BY DEF IInv
<1> QED BY <1>1, Invariance, PTL

\* No thread and no call of the owner uses a node that was deleted, although
\* each node is deleted by another thread than the one it belongs to.
THEOREM NodesOutliveTheirUse == Spec => []NoUseAfterFree
<1>1. IInv => NoUseAfterFree
  <2> SUFFICES ASSUME IInv PROVE NoUseAfterFree
    OBVIOUS
  <2> USE TaskSequencerAssumption DEF Tasks, Null
  <2>1. \A i \in Alive : cell[i] = "live"
    BY DEF IInv, Cells, Alive, At, PCs
  <2>2. \A i \in Tasks : tail[i] # Null => cell[tail[i]] = "live"
    <3> SUFFICES ASSUME NEW i \in Tasks, tail[i] # Null PROVE cell[tail[i]] = "live"
      OBVIOUS
    <3>1. tail[i] = i - 1 /\ tail[i] \in Tasks /\ i <= given
      BY DEF IInv, TypeOK, Tails, Numbered
    <3> QED BY <3>1 DEF IInv, TypeOK, Cells
  <2>3. thread_list # Null => cell[thread_list] = "live"
    BY DEF IInv, TypeOK, ListHead, Cells
  <2> QED BY <2>1, <2>2, <2>3 DEF NoUseAfterFree, At
<1> QED BY <1>1, Invariance, PTL

\* The assertions on tail->tail and on thread_list_->tail never fail.
THEOREM TaskAssertionsHold == Spec => []AssertionsHold
<1>1. IInv => AssertionsHold
  <2> SUFFICES ASSUME IInv PROVE AssertionsHold
    OBVIOUS
  <2> USE TaskSequencerAssumption DEF Tasks, Null
  <2>1. ASSUME NEW i \in At({"unlink"}), tail[i] # Null PROVE tail[tail[i]] = Null
    <3>1. tail[i] = i - 1 /\ tail[i] \in Tasks /\ pc[i] = "unlink" /\ i \in Tasks
      BY <2>1 DEF IInv, TypeOK, Tails, At
    <3>2. pc[tail[i]] = "exited"
      BY <3>1 DEF IInv, TypeOK, Tails
    <3> QED BY <3>1, <3>2 DEF IInv, Tails
  <2>2. thread_list # Null /\ pc[thread_list] = "exited" => tail[thread_list] = Null
    BY DEF IInv, TypeOK, Tails
  <2> QED BY <2>1, <2>2 DEF AssertionsHold
<1> QED BY <1>1, Invariance, PTL

\* When the destructor has returned, every thread has ended and was joined
\* exactly once, and every node was deleted.
THEOREM DestructorLeavesNothing == Spec => []NothingLeft
<1>1. IInv => NothingLeft
  <2> SUFFICES ASSUME IInv, main = "gone", NEW i \in 1..given
               PROVE  pc[i] = "exited" /\ joins[i] = 1 /\ cell[i] = "freed"
    BY DEF NothingLeft
  <2> USE TaskSequencerAssumption DEF Tasks, Null
  <2>1. i \in Tasks /\ i <= given /\ thread_list = Null
    BY DEF IInv, TypeOK, ListHead
  <2>2. \A j \in Tasks : tail[j] = Null
    BY <2>1 DEF IInv, TypeOK, Numbered, ListHead, Tails
  <2>3. cell[i] = "freed"
    BY <2>1, <2>2 DEF IInv, TypeOK, Cells
  <2> QED BY <2>1, <2>3 DEF IInv, ListHead, Cells
<1> QED BY <1>1, Invariance, PTL

-----------------------------------------------------------------------------
(***************************************************************************)
(* The destructors run one at a time and in the order of Run().            *)
(***************************************************************************)
LEMMA AtOthers == ASSUME IInv, NEW i \in Tasks, NEW place, Goto(i, place),
                         place # "deleting", pc[i] # "deleting"
                  PROVE  At({"deleting"})' = At({"deleting"})
BY DEF IInv, TypeOK, At, Goto

LEMMA InitOrdered == Init => Ordered!OrderedInit
BY DEF Init, Ordered!OrderedInit, At

LEMMA NextOrdered ==
    IInv /\ [Next]_vars
        => [Ordered!OrderedNext]_<<given, output, At({"deleting"}) # {}>>
<1> SUFFICES ASSUME IInv, [Next]_vars
             PROVE  [Ordered!OrderedNext]_<<given, output, At({"deleting"}) # {}>>
  OBVIOUS
<1> USE TaskSequencerAssumption DEF Tasks, Null
<1>1. CASE RunCreates
  <2>1. given' = given + 1 /\ output' = output
    BY <1>1 DEF RunCreates
  <2>2. At({"deleting"})' = At({"deleting"})
    BY <1>1 DEF IInv, TypeOK, Numbered, RunCreates, At
  <2> QED BY <2>1, <2>2 DEF Ordered!OrderedNext, Ordered!Give
<1>2. CASE \E i \in Tasks : BeginDelete(i)
  <2> PICK i \in Tasks : BeginDelete(i)
    BY <1>2
  <2>1. pc[i] = "delete" /\ i <= given /\ i \in At({"deleting"})'
    BY DEF IInv, TypeOK, Numbered, BeginDelete, Goto, At
  <2>2. At({"deleting"}) = {}
    <3>1. \A j \in Tasks : j < i => pc[j] = "exited"
      BY <2>1 DEF IInv, Tails
    <3>2. \A j \in Tasks : i < j => pc[j] # "deleting"
      BY <2>1 DEF IInv, Tails
    <3> QED BY <2>1, <3>1, <3>2 DEF At
  <2>3. Len(output) = i - 1
    <3>1. i > Len(output)
      BY <2>1 DEF IInv, Outputs
    <3>2. \A j \in Tasks : j < i => j <= Len(output)
      BY <2>1 DEF IInv, Tails, Outputs
    <3>3. i = 1 \/ i - 1 \in Tasks
      BY DEF IInv, TypeOK
    <3> QED BY <3>1, <3>2, <3>3 DEF IInv, TypeOK, Outputs
  <2>4. output' = Append(output, Len(output) + 1) /\ given' = given
    BY <2>3 DEF BeginDelete
  <2> QED BY <2>1, <2>2, <2>3, <2>4 DEF IInv, TypeOK, Ordered!OrderedNext, Ordered!BeginDestructor
<1>3. CASE \E i \in Tasks : EndDelete(i)
  <2> PICK i \in Tasks : EndDelete(i)
    BY <1>3
  <2>1. i \in At({"deleting"}) /\ pc'[i] = "unlink" /\ output' = output /\ given' = given
    BY DEF IInv, TypeOK, EndDelete, Goto, At
  <2>2. At({"deleting"})' = {}
    <3>1. \A j \in Tasks : j # i => pc'[j] # "deleting"
      BY <2>1 DEF IInv, TypeOK, Tails, EndDelete, Goto, At
    <3> QED BY <2>1, <3>1 DEF At
  <2> QED BY <2>1, <2>2 DEF Ordered!OrderedNext, Ordered!EndDestructor
<1>4. CASE \E i \in Tasks : FinishTask(i) \/ JoinTail(i) \/ DeleteTail(i)
                             \/ SignalTotal(i) \/ Exit(i)
  <2> PICK i \in Tasks : FinishTask(i) \/ JoinTail(i) \/ DeleteTail(i)
                         \/ SignalTotal(i) \/ Exit(i)
    BY <1>4
  <2>1. output' = output /\ given' = given
    BY DEF FinishTask, JoinTail, DeleteTail, SignalTotal, Exit
  <2>2. At({"deleting"})' = At({"deleting"})
    BY AtOthers DEF FinishTask, JoinTail, DeleteTail, SignalTotal, Exit
  <2> QED BY <2>1, <2>2
<1>5. CASE UNCHANGED <<given, output, pc>>
  BY <1>5 DEF At
<1>6. Owner => RunCreates \/ UNCHANGED <<given, output, pc>>
  BY DEF Owner, CallRun, RunTakesThread, RunTakesTotal, CallWait, CallDestructor,
         WaitForNothing, WaitForLast, WaitForUnborn
<1>7. Next => \/ Owner \/ UNCHANGED vars
              \/ \E i \in Tasks : \/ BeginDelete(i) \/ EndDelete(i)
                                   \/ FinishTask(i) \/ JoinTail(i) \/ DeleteTail(i)
                                   \/ SignalTotal(i) \/ Exit(i)
  BY DEF Next, Ended, RunTask
<1> QED BY <1>1, <1>2, <1>3, <1>4, <1>5, <1>6, <1>7 DEF vars

\* The TaskSequencer implements the promise of its comment: the destructors of
\* the tasks run one at a time, in the order in which Run() was called.
THEOREM ImplementsOrderedOutput == Spec => OutputInOrder
<1>1. Init => Ordered!OrderedInit
  BY InitOrdered
<1>2. IInv /\ [Next]_vars
        => [Ordered!OrderedNext]_<<given, output, At({"deleting"}) # {}>>
  BY NextOrdered
<1> QED BY <1>1, <1>2, Invariance, PTL DEF Spec, OutputInOrder, Ordered!OrderedSpec
-----------------------------------------------------------------------------
(***************************************************************************)
(* How many threads there are.                                             *)
(***************************************************************************)

\* The threads that hold a permit of tot_threads_avail_.
Charged == {"compute", "join", "delete", "deleting", "unlink", "signal"}

\* The permits that the semaphores, the owner and the threads have between
\* them are those of the constructor: none is given back twice.  (One is lost
\* when pthread_create() fails, hence <=.)
Permits ==
    /\ threads_avail + Cardinality(At({"compute"}))
          + (IF main \in {"total", "create"} THEN 1 ELSE 0) <= NumThreads
    /\ tot_threads_avail + Cardinality(At(Charged))
          + (IF main = "create" THEN 1 ELSE 0) <= NumThreadsTotal

\* How many threads are at some places, before and after one of them moves.
LEMMA CountAt ==
    ASSUME NEW places, TypeOK
    PROVE  IsFiniteSet(At(places)) /\ Cardinality(At(places)) \in Nat
<1>1. IsFiniteSet(Tasks)
  BY FS_Interval, TaskSequencerAssumption DEF Tasks
<1>2. At(places) \in SUBSET Tasks
  BY DEF At
<1>3. IsFiniteSet(At(places))
  BY <1>1, <1>2, FS_Subset
<1> QED BY <1>3, FS_CardinalityType

LEMMA CountMove ==
    ASSUME NEW places, NEW i \in Tasks, NEW to, TypeOK, pc' = [pc EXCEPT ![i] = to]
    PROVE  Cardinality(At(places)') = Cardinality(At(places))
               + (IF to \in places THEN 1 ELSE 0) - (IF pc[i] \in places THEN 1 ELSE 0)
<1>1. i \in At(places) <=> pc[i] \in places
  BY DEF At
<1>2. At(places)' = IF to \in places THEN At(places) \cup {i} ELSE At(places) \ {i}
  BY DEF At, TypeOK
<1>3. IsFiniteSet(At(places)) /\ Cardinality(At(places)) \in Nat
  BY CountAt
<1>4. /\ Cardinality(At(places) \cup {i}) =
            IF i \in At(places) THEN Cardinality(At(places)) ELSE Cardinality(At(places)) + 1
      /\ Cardinality(At(places) \ {i}) =
            IF i \in At(places) THEN Cardinality(At(places)) - 1 ELSE Cardinality(At(places))
  BY <1>3, FS_AddElement, FS_RemoveElement
<1> QED BY <1>1, <1>2, <1>3, <1>4

\* The permits balance at first.
LEMMA InitPermits == Init => Permits
<1> SUFFICES ASSUME Init PROVE Permits
  OBVIOUS
<1>1. At({"compute"}) = {} /\ At(Charged) = {}
  BY DEF Init, At, Charged
<1>2. Cardinality(At({"compute"})) = 0 /\ Cardinality(At(Charged)) = 0
  BY <1>1, FS_EmptySet
<1> QED BY <1>2, TaskSequencerAssumption DEF Init, Permits

\* Every step keeps the permits balanced: the owner takes one of each kind for
\* a new thread, FinishTask and SignalTotal give one back, and no other step of
\* a thread crosses the places where it holds one.
LEMMA NextPermits == IInv /\ Permits /\ [Next]_vars => Permits'
<1> SUFFICES ASSUME IInv, Permits, [Next]_vars PROVE Permits'
  OBVIOUS
<1> USE TaskSequencerAssumption DEF Charged
<1>0. /\ TypeOK
      /\ Cardinality(At({"compute"})) \in Nat /\ Cardinality(At(Charged)) \in Nat
  BY CountAt DEF IInv
<1>1. ASSUME NEW i \in Tasks, RunTask(i) PROVE Permits'
  <2>1. PICK to \in PCs : pc' = [pc EXCEPT ![i] = to]
    BY <1>1 DEF RunTask, FinishTask, JoinTail, BeginDelete, EndDelete, DeleteTail, SignalTotal,
                Exit, Goto, PCs
  <2>2. /\ Cardinality(At({"compute"})') = Cardinality(At({"compute"}))
              + (IF to \in {"compute"} THEN 1 ELSE 0) - (IF pc[i] \in {"compute"} THEN 1 ELSE 0)
        /\ Cardinality(At(Charged)') = Cardinality(At(Charged))
              + (IF to \in Charged THEN 1 ELSE 0) - (IF pc[i] \in Charged THEN 1 ELSE 0)
    BY <1>0, <2>1, CountMove
  <2>3. pc'[i] = to
    BY <1>0, <2>1 DEF TypeOK
  <2>4. pc[i] \in PCs /\ threads_avail \in Nat /\ tot_threads_avail \in Nat
    BY <1>0 DEF TypeOK
  <2>5. CASE FinishTask(i)
    <3>1. pc[i] = "compute" /\ to = "join"
      BY <2>1, <2>3, <2>5, <1>0 DEF FinishTask, Goto, TypeOK
    <3>2. /\ threads_avail' = threads_avail + 1 /\ tot_threads_avail' = tot_threads_avail
          /\ main' = main
      BY <2>5 DEF FinishTask
    <3> QED BY <1>0, <2>2, <2>4, <3>1, <3>2 DEF Permits
  <2>6. CASE SignalTotal(i)
    <3>1. pc[i] = "signal" /\ to = "leave"
      BY <2>1, <2>3, <2>6, <1>0 DEF SignalTotal, Goto, TypeOK
    <3>2. /\ threads_avail' = threads_avail /\ tot_threads_avail' = tot_threads_avail + 1
          /\ main' = main
      BY <2>6 DEF SignalTotal
    <3> QED BY <1>0, <2>2, <2>4, <3>1, <3>2 DEF Permits
  <2>7. CASE JoinTail(i) \/ BeginDelete(i) \/ EndDelete(i) \/ DeleteTail(i) \/ Exit(i)
    <3>1. <<pc[i], to>> \in {<<"join", "delete">>, <<"delete", "deleting">>,
                             <<"deleting", "unlink">>, <<"unlink", "signal">>,
                             <<"leave", "exited">>}
      BY <2>1, <2>3, <2>7, <1>0 DEF JoinTail, BeginDelete, EndDelete, DeleteTail, Exit, Goto, TypeOK
    <3>2. /\ threads_avail' = threads_avail /\ tot_threads_avail' = tot_threads_avail
          /\ main' = main
      BY <2>7 DEF JoinTail, BeginDelete, EndDelete, DeleteTail, Exit, semaphores
    <3> QED BY <1>0, <2>2, <2>4, <3>1, <3>2 DEF Permits
  <2> QED BY <1>1, <2>5, <2>6, <2>7 DEF RunTask
<1>2. CASE RunCreates
  <2>1. PICK i \in Tasks : i = given' /\ pc[i] = "none"
    BY <1>2 DEF RunCreates, IInv, TypeOK, Numbered, Tasks
  <2>2. PICK to \in {"compute", "unborn"} :
           pc' = [pc EXCEPT ![i] = to] /\ main' \in {"idle", "destroy"}
    BY <1>2, <2>1 DEF RunCreates
  <2>3. /\ Cardinality(At({"compute"})') = Cardinality(At({"compute"}))
              + (IF to \in {"compute"} THEN 1 ELSE 0) - (IF pc[i] \in {"compute"} THEN 1 ELSE 0)
        /\ Cardinality(At(Charged)') = Cardinality(At(Charged))
              + (IF to \in Charged THEN 1 ELSE 0) - (IF pc[i] \in Charged THEN 1 ELSE 0)
    BY <1>0, <2>2, CountMove
  <2> QED BY <1>0, <1>2, <2>1, <2>2, <2>3 DEF Permits, TypeOK, RunCreates, semaphores
<1>3. CASE \/ CallRun \/ RunTakesThread \/ RunTakesTotal \/ CallWait \/ CallDestructor
           \/ WaitForNothing \/ WaitForLast \/ WaitForUnborn \/ UNCHANGED vars
  <2>1. pc' = pc
    BY <1>3 DEF CallRun, RunTakesThread, RunTakesTotal, CallWait, CallDestructor, WaitForNothing,
                WaitForLast, WaitForUnborn, vars
  <2>2. At({"compute"})' = At({"compute"}) /\ At(Charged)' = At(Charged)
    BY <2>1 DEF At
  <2> QED BY <1>0, <1>3, <2>2 DEF Permits, TypeOK, CallRun, RunTakesThread, RunTakesTotal, CallWait,
             CallDestructor, WaitForNothing, WaitForLast, WaitForUnborn, ReturnFromWait,
             semaphores, vars
<1> QED BY <1>1, <1>2, <1>3 DEF Next, Owner, Ended

\* At most num_threads tasks compute at once; and at most num_threads_total
\* threads and one more are alive, since only one thread at a time can be
\* between its last signal and its end.
THEOREM ThreadsAreBounded == Spec => []ThreadsBounded
<1>1. IInv /\ Permits => ThreadsBounded
  <2> SUFFICES ASSUME IInv, Permits PROVE ThreadsBounded
    OBVIOUS
  <2> USE TaskSequencerAssumption
  <2>1. /\ TypeOK
        /\ Cardinality(At({"compute"})) \in Nat
        /\ IsFiniteSet(At(Charged)) /\ Cardinality(At(Charged)) \in Nat
        /\ IsFiniteSet(At({"leave"}))
    BY CountAt DEF IInv
  <2>2. Cardinality(At({"compute"})) <= NumThreads /\ Cardinality(At(Charged)) <= NumThreadsTotal
    BY <2>1 DEF Permits, TypeOK
  <2>3. Alive = At(Charged) \cup At({"leave"})
    BY <2>1 DEF Alive, At, PCs, Charged, TypeOK
  <2>4. ASSUME NEW i \in At({"leave"}), NEW j \in At({"leave"}) PROVE i = j
    <3>1. /\ i \in Tasks /\ pc[i] = "leave" /\ i \in Int
          /\ j \in Tasks /\ pc[j] = "leave" /\ j \in Int
      BY DEF At, Tasks
    <3> QED BY <3>1 DEF IInv, Tails
  <2>5. PICK x : At({"leave"}) \subseteq {x}
    BY <2>4
  <2>6. Alive \in SUBSET (At(Charged) \cup {x})
    BY <2>3, <2>5
  <2>7. /\ IsFiniteSet(At(Charged) \cup {x})
        /\ Cardinality(At(Charged) \cup {x}) <= Cardinality(At(Charged)) + 1
        /\ Cardinality(At(Charged) \cup {x}) \in Nat
    <3>1. /\ IsFiniteSet(At(Charged) \cup {x})
          /\ Cardinality(At(Charged) \cup {x}) =
                IF x \in At(Charged) THEN Cardinality(At(Charged)) ELSE Cardinality(At(Charged)) + 1
      BY <2>1, FS_AddElement
    <3> QED BY <2>1, <3>1
  <2>8. Cardinality(Alive) <= Cardinality(At(Charged) \cup {x}) /\ IsFiniteSet(Alive)
    BY <2>6, <2>7, FS_Subset
  <2>9. Cardinality(Alive) \in Nat
    BY <2>8, FS_CardinalityType
  <2> QED BY <2>1, <2>2, <2>7, <2>8, <2>9 DEF ThreadsBounded
<1>2. Init => Permits
  BY InitPermits
<1> QED BY <1>1, <1>2, NextPermits, Invariance, PTL DEF Spec
=============================================================================
