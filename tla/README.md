# Formal models of Kaldi's concurrent and stateful core

Kaldi is a speech recognition toolkit: several hundred command line programs
over a C++ library. Most of the library is sequential numerical code. The code
that is hard to get right and hard to test is elsewhere: where threads hand
data to each other, and where an object keeps a state over a long sequence of
calls that nobody wrote down. This directory holds TLA+ models of that part, TLC
configurations that check them on small instances, and TLAPS proofs.

Paths below are relative to the repository's `src/` directory (the C++ code).

## Inventory

For each component: the state it keeps, its operations, who it interacts with,
what is hard about it, and what makes it correct.

### Modelled now

**ThreadSynchronizer** (`online2/online-nnet2-decoding-threaded.{h,cc}`). State:
`abort_`, `producer_waiting_`, `consumer_waiting_`, a mutex, two semaphores and
`num_errors_`. Operations: `Lock`, `UnlockSuccess`, `UnlockFailure`, `SetAbort`.
A producer and a consumer take turns; the one that fails waits until the other
has succeeded. Hard: a wake-up must be neither lost nor doubled, and `SetAbort`
may come between any two instructions. Correct when the two sides exclude each
other, exactly one wake-up is there for each waiter, and an abort frees both.

**SingleUtteranceNnet2DecoderThreaded** (same files). State: waveform queue,
processed waveform, feature pipeline, decodable object, decoder,
`num_frames_decoded_`, `abort_`, `error_`, two synchronizers, two mutexes.
Three threads: the application's, the neural net's, the graph search's. Hard:
three threads agree on frame counts through state that is partly read without a
lock; the application may terminate at any time; each thread may throw. Correct
when no frame or sample is lost or decoded twice, what is reported as remaining
waveform is what was not decoded, every call returns, and a failure of one
thread ends the other.

**Semaphore** (`thread/kaldi-semaphore.cc`). State: `counter_`, a mutex, a
condition variable. Operations: `Wait`, `TryWait`, `Signal`. Hard: a woken
thread can be overtaken. Correct when no permit is left while threads sleep.

**TaskSequencer** (`thread/kaldi-task-sequence.h`). State: two semaphores, and
a linked list of tasks whose nodes are shared between the threads. Operations:
`Run`, `Wait`, the destructor, and `RunTask` in each thread. Hard: each node is
deleted by another thread than its own; a failure half-way through `Run`.
Correct when the destructors of the tasks run one at a time and in order, nodes
are used only while they live, threads are bounded and nothing is left behind.

**ExamplesRepository, DoBackpropParallel, MultiThreader**
(`nnet2/nnet-example.{h,cc}`, `nnet2/nnet-update-parallel.cc`,
`thread/kaldi-thread.h`). State: one minibatch, `done_`, two semaphores; local
vectors and sums per thread. Hard: several threads share one place without a
mutex, termination is passed from thread to thread, sums are made in destructors
without a lock. Correct when each example is counted exactly once and the call
returns.

**SequentialTableReader** (`util/kaldi-table-inl.h`). State: the state, place and
object of a script or archive reader; with the option `bg` a background thread,
two semaphores, a key and an object of its own. Operations: `Open`, `Done`,
`Key`, `Value`, `FreeCurrent`, `Next`, `Close`, the destructor, and
`RunInBackground`. Hard: no mutex protects the base reader, which one thread
deletes; errors come at any entry and must not get lost on their way through the
other thread. Correct when only one thread uses the base reader, keys come in
order and none is skipped, `Close` returns and tells of errors.

**RandomAccessTableReader** (same file). State: caches, the position in the
archive, what was found last and what is to be deleted on the next call, in four
implementations. Operations: `HasKey`, `Value`, `Close`. Hard: the answer depends
on the whole history of queries. Correct when a key is found exactly if it is
there, `Value` keeps what `HasKey` promised, and objects live long enough.

**CuMemoryAllocator** (`cudamatrix/cu-allocator.{h,cc}`). State: per size a cache
as a list and a map that refer to each other, byte counts, limits. Operations:
`MallocPitch`, `Free`, and the freeing of cached memory inside them. Hard: the
two structures must agree after any sequence of calls; unsigned arithmetic on
counts; retries when the device is full. Correct when each block is in exactly
one place, counts balance, and no allocation is given up before the caches were
asked for what it needs.

**OnlineSilenceWeighting, OnlineIvectorFeature**
(`online2/online-ivector-feature.{h,cc}`). State: per frame the token,
transition-id and weight last given; a priority queue of changes of weights;
statistics. Operations: `ComputeCurrentTraceback`, `GetDeltaWeights`,
`UpdateFrameWeights`, `GetFrame`. Hard: the decoder changes its mind about
frames whose weight is already in the statistics; two threads do these steps in
the threaded decoder. Correct when no change is lost or repeated, each frame has
the weight that the last traceback means, and has one before its features go
into an iVector.

### Planned

| Component | State | Hard | Correct when |
|---|---|---|---|
| Barrier (`thread/kaldi-barrier.cc`) | `threshold_`, `counter_`, `cycle_` | reuse while slow threads sleep | nobody passes early, nobody stays |
| DiscriminativeExamplesRepository (`nnet2/nnet-compute-discriminative-parallel.cc`) | a queue of four, `done_` | as ExamplesRepository, with a queue | each example once, in order |
| TableWriter (`util/kaldi-table-inl.h`) | states of two files | an error in one of them | `Close` tells of it |
| GstBufferSource (`gst-plugin/gst-audio-source.cc`) | a queue of buffers, `ended_` | the end races with the last buffer | all samples are read once |
| OnlinePaSource, OnlineTcpVectorSource (`online/`) | ring buffer, packets | overflow, time-outs | samples in order, losses counted |
| OnlineCmvn and other online features (`feat/online-feature.cc`) | caches, frozen state | stale caches, frames not ready yet | same value however it is asked for |

### Not modelled

The decoders (`decoder/`), the neural nets (`nnet/`, `nnet2/`, `nnet3/`,
`chain/`), acoustic models and adaptation (`gmm/`, `sgmm/`, `sgmm2/`,
`ivector/`, `transform/`), trees and topologies (`tree/`, `hmm/`), lattices,
language models and keyword search (`lat/`, `fstext/`, `lm/`, `kws/`), the
matrix library and the GPU kernels: sequential code over real numbers, whose
results depend on values that TLC cannot enumerate. `base/`, option parsing and
stream I/O, the command line programs, and the recipes in `egs/`: wording, I/O
and scripting. `PROJECT.json` lists each with its reason.

## Modules

| Module | Stands for | Uses |
|---|---|---|
| `TurnTaking` | what a ThreadSynchronizer promises (abstract) | |
| `ThreadSynchronizer` | its members and operations, one action per critical section | |
| `SynchronizedThreads` | two clients of one synchronizer, and threads that call `SetAbort` | `ThreadSynchronizer`; `TurnTaking` by refinement |
| `Nnet2DecoderThreaded` | the three threads of the online decoder | two instances of `ThreadSynchronizer` |
| `Nnet2DecoderThreaded_proofs` | proofs | |
| `CountingSemaphore` | what a Semaphore promises (abstract) | |
| `Semaphore` | `Wait`, `TryWait`, `Signal` and the sleeping threads | `CountingSemaphore` by refinement |
| `Synchronization_proofs` | proofs about `SynchronizedThreads` and `Semaphore` | |
| `OrderedOutput` | what a TaskSequencer promises (abstract) | |
| `TaskSequencer` | `Run`, `Wait`, the destructor, `RunTask` | `OrderedOutput` by refinement |
| `TaskSequencer_proofs` | proofs | |
| `ExamplesRepository` | its three operations | |
| `DoBackpropParallel` | the reader of the examples and the training threads | `ExamplesRepository` |
| `DoBackpropParallel_proofs` | proofs | |
| `TableReading` | what reading a table from beginning to end promises (abstract) | |
| `SequentialTableReader` | script, archive and background reader, and the user | `TableReading` by refinement |
| `SequentialTableReader_proofs` | proofs | |
| `RandomAccessTableReader` | its four implementations, and the user | |
| `RandomAccessTableReader_proofs` | proofs | |
| `CuMemoryAllocator` | the allocator with its caches, and the device | |
| `CuMemoryAllocator_proofs` | proofs | |
| `OnlineSilenceWeighting` | its operations, as operators on `frame_info_` | |
| `OnlineIvectorFeature` | queue and statistics, in the two programs that weigh silence | `OnlineSilenceWeighting` |
| `OnlineIvectorFeature_proofs` | proofs | |

A definition whose comment begins with "Slip" is a plausible bug of the
definition below it. It is part of no specification; `PROJECT.json` ("mutants")
says which property it breaks when it takes the other's place.

### How state and actions correspond to the code

*Granularity.* Data that is only touched under one mutex changes in one step,
from the lock to the unlock. What a thread does on its own is merged into the
step before. Every place where the code may block (a mutex another thread can
hold for long, a semaphore, a condition variable, `pthread_join`) and every
place where it reads what another thread writes is a step of its own. A `pc`, or
a record field `pc`, says where a thread is; its values are listed in the
header of each module.

*ThreadSynchronizer.* `waiting[s]`, `semaphore[s]` and `at[s]` are indexed by
the side, "producer" or "consumer". `Lock` is `CallLock`, `WaitSemaphore`,
`RetestAbort`, `LockMutex`, `FinishLock`: `abort_` is tested at three places,
and `SetAbort` (`RaiseAbort`, then `SignalAbort`) fits between any two.

*Nnet2DecoderThreaded.* A piece of waveform is its number of samples. Features,
log-likelihoods and decoded frames are counted, with the arithmetic of
`NumFrames()`, of the right context in `NnetOnlineComputer`, and of
`AcceptLoglikes()`. The two worker threads are `NnetTop` ... `NnetCatches` and
`SearchTop` ... `SearchCatches`, one action per stretch between two blocking
points. `Throwing` says where exceptions may come from; the fields `thrown`
remember that one was thrown. `AdvanceDecoding()` counts frame by frame and the
traceback comes after it, while `num_frames_decoded_` is set last:
`SearchThrows` therefore leaves any number of frames of the batch decoded. A
traceback that throws also leaves `silence_weighting_mutex_` locked; what blocks
there is excepted, like all else that waits after an exception of the search.
Left out: the silence weighting (which `OnlineIvectorFeature` has), the lattice
and best path, a `pthread_create` that fails.

*Semaphore, TaskSequencer, ExamplesRepository.* `Semaphore` shows that a
Semaphore implements a count of permits (`CountsPermits`). The other modules
therefore have semaphores as counts that a step takes from when they are
positive. In `TaskSequencer`, a `Run()` that waits at its first semaphore has
`main = "run"` (`CallRun`, then `RunTakesThread`), at its second `main = "total"`;
`tail`, `cell` and `joins` are the member `tail` of
a node, whether the node is allocated, and how often its thread was joined. In
`DoBackpropParallel` the sums of weights, log probabilities and gradients are
the sequence of the examples that went into them, so that a lost or repeated
example shows; the trained net itself, which in the "hogwild" mode is updated
without locks on purpose, is not there.

*SequentialTableReader.* `user` and `thread` say where the two threads are. A
table is a sequence of entries that are good, have an unreadable value
(`badValue`), or cannot be got over (`badLine`); the base reader is a record of
`state_`, its place in the table, and the place whose object it holds, 0 if none.
`Done()` and `Key()` change nothing; what `Key()` would return is recorded in
`keys`. Between two calls of the user, `Value`, `FreeCurrent`, `AskNext` and
`Close` are enabled as the header allows them. `Class` says what an entry is for
the abstract `TableReading`, where a permissive script reader drops unreadable
values and any other reader shows their keys.

*RandomAccessTableReader.* Keys are numbers, objects are the entries they come
from. A call is one action, the pending deletion of the call before included.
After an exception only `Close` is called.

*CuMemoryAllocator.* A list node and its map entry are identified by the time of
the entry, which is unique. One action per call, but the loop that frees cached
memory and each call of `cudaMalloc` are steps of their own, so that the counts
can be seen in between. CUDA gives memory only when it has the bytes, and may fail
at any call even then, since `cudaMallocPitch` pads rows and memory is fragmented:
the second and third attempt may fail too. The field `call.cached` is a history
variable, the bytes in the caches when the first attempt failed. `FreeUnknown` is
the error for a pointer that was never given out.

*OnlineIvectorFeature.* A token is the path that leads to it, for a graph
without epsilon arcs whose paths do not merge: two paths share exactly the tokens
of their common beginning. Weights are integers, `FullWeight` of which stand for
1.0, so that sums are exact; the code's floats can only add a rounding error, for
which its assertion on the weights leaves 0.01. `ready` is `NumFramesReady()` of the whole
feature pipeline, up to which frames are weighed and given to the neural net;
`lda_ready` is that of the iVector's own features, which are computed from the base
features without the pitch. With `--add-pitch` the pipeline has the minimum of the
two streams, and `OnlineProcessPitch` holds frames back: `PitchLags` are the numbers
by which `ready` may lag, {0} without pitch. `delta_weights` is the bag of what
is in the priority queue, and the element that is taken from it is a least one. Any
path may become the best one whenever the decoder goes on.
`UpdateStatsUntilFrameWeighted()` is several steps, since the search thread may
trace back at any time: `UpdateStatsUntil`, with its assertion, one `PopChange` for
each element of the queue that is due, `StatsUpdated`. `AcceptChunk`,
`TraceAndWeigh`, `AdvanceDecoding` and, when it has computed, `DecodeFrames` are the
loop of `online2-wav-nnet2-latgen-faster`; the other actions are the nnet and the
search thread of the threaded decoder, each under `silence_weighting_mutex_`.

## Runs

| Run | Asks | Bounds |
|---|---|---|
| `synchronized_threads` | turn taking, no lost wake-up, aborts at any point | 2 clients, 2 calls of `SetAbort` that may overlap |
| `nnet2_decode` | agreement of the threads, completeness, every call returns, errors stop both threads | 3 samples in pieces of 1 and 2; window 2, right context 1, batches of 2, an exception of the neural net at any batch |
| `nnet2_remaining` | discarding and copying, remaining waveform | window 1, no right context, batches of 1, `max_loglikes_copy` 1, exceptions at all three places |
| `semaphore` | counting, no permit left while threads sleep | 3 threads, 1 initial permit, 4 signals |
| `task_sequencer` | order, bounds, life time of nodes, no leak, `Run`, `Wait` and the destructor return | 5 tasks, 2 computing, 3 in all, `pthread_create` may fail |
| `do_backprop` | each example exactly once, termination | 5 examples in minibatches of 2, 3 threads, the reader may throw |
| `sequential_table_reader` | exclusive use of the base reader, key and value, no hang, a true reading of the table | every table of up to 4 entries with every combination of options |
| `table_reader_throws` | does `Close` return after `Next` threw? | tables of up to 2 entries; a violation |
| `random_access_table_reader` | no key lost, `Value` keeps what `HasKey` said, once means once | every table of up to 3 entries over 3 keys, every sequence of calls |
| `cu_allocator` | no block leaked or shared, counts and limits, list and map agree, caches are given back before an allocation is given up | requests of 1, 2, 3 and 6 bytes on a device of 13 on which any attempt may fail, 8 calls |
| `silence_weighting` | no change lost or repeated, weights are what the traceback means, when the assertions can fail | 3 transition-ids, weights 0 and 1, runs of 2, 4 frames, chunks of 0 to 2, both programs, with and without the greedy option, pitch behind by 0 or 1 frames |
| `silence_weights_threaded` | the assertion on the weights, in the threaded decoder | 2 transition-ids, 6 frames, chunks of 1 and 3, batches of 2; a violation |

*Why the bounds are enough.* A synchronizer has exactly two sides. Two frames
more than the right context, with a batch smaller than the utterance, make the
decoder go through a first, a middle and a flushed chunk; pieces of 1 and 2
samples fall both on and off the frame boundaries; `max_loglikes_copy` 0 makes
the nnet thread wait for the search after every chunk, and 1 lets it run ahead.
Three threads at a semaphore are one that is woken, one that overtakes it and
one that sleeps on. Five tasks with two and three permits fill both semaphores
and give each kind of neighbour in the list; the proofs cover any number. Five
examples in minibatches of two leave a partial one, and three threads leave one
without work. Four entries are a table in which an error has entries that were
read before it and at least two that the background thread could run ahead to;
the proofs cover any length. Three entries over three keys contain every order,
a duplicate, a missing key and an unreadable entry at each place. Requests of 1
and 2 to 3 bytes share a cache or not; 13 bytes leave room for two blocks of the
largest size and no third, and since each attempt may fail all the same, every
number of attempts happens with every content of the caches. Runs of two with
four frames can be cut, joined and lengthened, and a chunk of no frames makes
the same frames be weighed twice; a lag of 0 or 1 that changes from chunk to
chunk is all that comparisons of `lda_ready` with `ready` tell apart.
`MaxSamples`, `MaxSignals`, `NumTasks`, `NumExamples`, `MaxTime` and `MaxFrames`
only bound how long an execution goes on; `MaxQueued` bounds the changes that
chunks without a frame add to the queue.

*Deadlock* is checked except where the system really stops: in runs in which an
exception leaves a thread waiting (`nnet2_remaining`, `do_backprop`,
`table_reader_throws`, `sequential_table_reader`), and in those whose user has
nothing left to call, or whose utterance is at its end
(`random_access_table_reader`, `silence_weighting`, `silence_weights_threaded`).
The liveness properties say who must nevertheless finish.

*Fairness.* A thread that can take a step takes one in the end: weak fairness of
each thread's actions, which is what a preemptive scheduler gives. The calls an
application makes are not fair, nor are exceptions; of the table reader's user
only the calls he is in are. Mutexes are held for finite stretches and have only
two contenders wherever a liveness property is checked, so that weak fairness of
the holder and of the waiter is enough. In `TaskSequencer` the owner is the only
thread that waits at `threads_avail_` and `tot_threads_avail_`, so that nobody
can overtake him there and weak fairness of `RunTakesThread` and `RunTakesTotal`
is justified; whether he calls `Run()` at all is not assumed. Fairness of a
computation step assumes that the task, `Compute()`, `DoBackprop()` or the
reading of an entry returns.

## Disagreements between the code and what is said of it

Two have a run that TLC finds violated:

* **`Next()` of the background reader throws, and then `Close()` hangs**
  (`table_reader_throws`). `Next()` calls `SwapHolder()`, hence `Value()` of a
  script reader that is not permissive, between its `Wait()` and its `Signal()`.
  When the value cannot be read the background thread never goes on, and
  `Close()` or the destructor waits for it for ever. `util/kaldi-table.h`, line
  325, says that `Next()` does not throw.
* **The weight of a frame leaves its range in the threaded decoder**
  (`silence_weights_threaded`). The queue of changes is ordered by frame and then
  by size. The nnet thread weighs all frames that are ready, but takes out only
  those of its batch; when a later traceback changes +1 to 0 meanwhile, -1 comes
  out before +1, and `KALDI_ASSERT(current_frame_weight_debug_[frame] >= -0.01
  ...)` fails.

Others are shown by a change of a configuration of this directory:

| What | Module, specification and constants | TLC finds violated |
|---|---|---|
| Two failures in a row are silent, where the header of ThreadSynchronizer (line 86) promises a warning and in the end an exception: nothing increments `num_errors_` then, and both threads wait | `SynchronizedThreads`, `UnruledSpec`, `MaxSetAbort = 0` | `BothFailuresCounted` |
| An exception of the decoder blocks the nnet thread: `RunDecoderSearchInternal()` calls `AdvanceDecoding()` between `Lock()` and `UnlockSuccess()`, and `AbortAllThreads()` does not free who waits for the mutex | `Nnet2DecoderThreaded`, `FairSpec`, as `Nnet2Decode.cfg` with `Throwing = {"search"}`, `PieceDims = {3}`, no deadlock check | `ErrorFreesThreads` |
| A very short utterance is an error: `InputFinished()` after too little waveform makes the nnet thread call `Flush()` without a chunk, an assertion failure that makes `Wait()` throw | `Nnet2DecoderThreaded`, `Spec`, `MinSamples = 0`, `MaxSamples = 2`, `PieceDims = {1}` | `NoError` |
| `GetAdaptationState()` can block for good when called while decoding: the nnet thread holds `feature_pipeline_mutex_` while it waits for waveform | `Nnet2DecoderThreaded`, `EarlySpec`, no deadlock check | `AdaptationStateReturns` |
| A `pthread_create` that failed is joined: `Run()` links the node first, the destructor joins a `pthread_t` that was never written | `TaskSequencer`, `Spec`, 3 tasks, 2 threads, 2 in all | `DestructorWaits` |
| A failing example reader hangs the training: the destructor of `MultiThreader` joins threads that wait for `ExamplesDone()` | `DoBackpropParallel`, `FairSpec`, 3 examples, 2 threads | `DestructorJoins` |
| With pitch, greedy extraction and silence weighting the program ends with an assertion failure: `GetFrame()` asks for all of `lda_->NumFramesReady()` frames, but only those that the pipeline had ready were weighed, and `KALDI_ASSERT(... frame <= most_recent_frame_with_weight_)` (`online2/online-ivector-feature.cc`, lines 216-219) fails. No option check excludes the combination | `OnlineIvectorFeature`, `Spec`, as `OnlineIvectorFeature.cfg` | `FramesHaveWeights` |

And these a reading shows:

* `FinalizeDecoding()` throws before `Wait()`, where the header
  (`online2/online-nnet2-decoding-threaded.h`, line 237) says that it calls `Wait()`.
* `tot_threads_avail_` limits the live threads to `num_threads_total` plus one,
  not to `num_threads_total` (`ThreadsBounded` has the true limit).
* `num_frames_output_and_correct_` is never increased
  (`online2/online-ivector-feature.h`, lines 488-500, say what it is for):
  `GetBeginFrame()` is always 0, and the loop there is dead code.
* `ComputeCurrentTraceback()` stops at the frame where the old and the new path
  meet and leaves the transition-id of that frame, although the paths may leave
  the token by different arcs. `WeightsAreMeant` therefore speaks of the
  transition-ids of the last traceback, and `TokensOfBestPath` of tokens.
* The option `max-state-duration` says "longer than", the code has `>=`.
* With the option `once` a script reader's `HasKey()` can say yes behind a
  `Value()` of the key while the next `Value()` throws; an unsorted archive's
  reader checks for repeated requests only against the first deleted key; a
  doubly sorted one ignores the option. `OnceMeansOnce` and `YesMeansValue` except
  exactly these.
* An allocation can be given up while memory is cached: the two rounds of
  `FreeSomeCachedMemory()` (`cudamatrix/cu-allocator.cc`, lines 94-112) free the bytes
  that were asked for, of whatever sizes the caches have, which need not be in one
  piece and does not count the padding of rows. `CacheGivenBack` says how much was
  given back before the last attempt.
* The destructor of a script reader throws in the state `kError` even when the
  reader is permissive, `Close()` does not. After a failed `Open()` that
  destructor throws while `impl_` still points to the object.
* When `pthread_create` fails, `Open()` of the background reader returns `false`
  with `impl_` set, and a later `Close()` reads the `thread_` that nobody wrote.

## Proofs

Everything in the eight proof modules holds for every value of the constants. The
assumptions are the named ones on the constants, as the code states them; three
theorems have a hypothesis of their own: `LongEnough`, `IsFraction` and `PitchLags =
{0}`, all explained below. Every inductive invariant
was model-checked on the bounds of its run before it was proved.

`Synchronization_proofs`, the ThreadSynchronizer: `TypeCorrect`, `MutualExclusion`,
`TokensConserved`, `UnlockFailureAssertsHold`, `ImplementsTurnTaking`. The
invariant `IInv` is the conjunction of the checked invariants and of two facts
they need: `held_by_` names the thread that is past its `mutex_.Lock()`
(`HeldByInv`), and the signals of a `SetAbort` are pending only after its flag
was set (`RaisingInv`). Its core is `TokenInv`: until an abort each side owns one
token, which is in its semaphore, in its hand, or owed to it as its waiting flag.
That the assertions of `UnlockFailure()` hold is not inductive alone: a side inside
must be known not to be waiting, which follows from the token in its hand; and
`TokenInv` needs `RaisingInv`, or a late signal of `SetAbort` could add a token
before an abort. There is one case per action; the refinement of `TurnTaking`
follows step by step, most steps being stutters.

`Nnet2DecoderThreaded_proofs`: `FramesAreOrdered`, `AllIsDecoded`,
`OnlyExceptionsAreErrors`, `NoMutualWait`, `WaveformIsKept`,
`RemainingWaveformIsRight`, for any waveform, window, right context, batch size
and place of an exception. There are four invariants, each proved with the help
of those before it: where each thread is in its code and in the two
synchronizers, and who knows of an abort (`Control`); how far each stage is, in
frames (`Frames`); the permits of the synchronizer of the decodable object
(`Waiting`); and where the samples are and what the end of the input means
(`Waveform`). None of the properties is inductive alone, because what one thread
knows of another's count was true when it held a lock that it no longer holds:
`Control` says what could have changed since. `RemainingWaveformIsRight` has an
exact count only if the search did not throw. If it did, up to a batch of frames
was decoded and not counted (`Counted`), and the remaining waveform begins with
them. `OnlyExceptionsAreErrors` has the hypothesis `LongEnough`, that the
shortest utterance has more frames than the right context. It is not true
without it, as the table above shows ("A very short utterance is an error").

`TaskSequencer_proofs`: `TypeCorrect`, `NodesOutliveTheirUse`,
`TaskAssertionsHold`, `DestructorLeavesNothing`, `ImplementsOrderedOutput`,
`ThreadsAreBounded`. The
invariant `IInv` has five named parts besides the types: tasks are numbered in
the order they were given (`Numbered`); the list is the last task, or NULL when
all have ended (`ListHead`); a task's tail is the task before it, or NULL when
all before it have ended, and a task past its join has only ended predecessors
(`Tails`); the output is 1, 2, 3, ... up to the tasks that have begun their
destructor (`Outputs`); a node lives exactly as long as the list or the next task
points to it (`Cells`). None of the properties is inductive without `Tails`: that
a thread has ended says nothing of the ones before it, unless it is known that it
joined them first. One lemma per action shows that the parts are preserved; the
refinement then needs only that a thread about to delete its object is number
`Len(output) + 1` and that nobody else is deleting. `ThreadsAreBounded` is about
cardinalities: each permit that was taken is charged to a thread (`Permits`), and
each step moves one thread from one count to another (`CountMove`).

`DoBackpropParallel_proofs`: `TypeCorrect`, `RepositoryIsExclusive`, `SumIsOfAll`. The
repository has no mutex; what protects it is that there is one permit in all,
which is in one of its semaphores, with the calling thread, or with one training
thread (`OnePermit`). The assertions follow once it is known on which side of the
hand-over the deque is empty (`Contents`) and that `done_` is the last thing the
calling thread writes (`DoneLast`). An exception of the reader is one of the
cases: it leaves the permit where it is. That the sums hold every example once
needs to know where each one is (`SharesInv`): not read yet, in the batch, in the
repository, with one thread, or in the total.

`Synchronization_proofs`, class Semaphore: `SemaphoreTypeCorrect`, `WakeUpsAreKept`,
`ImplementsCountingSemaphore`.
The state formula `NoLostWakeUp`, as long as a thread sleeps there are no more
permits than threads that were woken, is inductive with the types alone. The
argument is one about cardinalities: a `Signal()` adds one permit and, if anybody
sleeps, one woken thread; a woken thread that leaves takes a permit with it, and
one that was overtaken goes back to sleep only when there is no permit.

`SequentialTableReader_proofs`: `InvariantHolds`, `ReaderIsExclusive`,
`KeyAndValueBelongTogether`, `ImplementsReading`. What stands in for a mutex is
one baton (`OneBaton`): while the background thread sleeps there is at most one
permit, in one of the semaphores or in the user's hand, and while it works there
is none. That is inductive only together with what each side found out about the
base reader before it went on (`BaseKnown`) and with who exists at all (`Threads`),
since `Close()` deletes the base reader with the permit in its hand. Key and
value need in addition that the object of the base reader is that of its place
(`PlaceInTable`, `ShownKey`). For the refinement of `TableReading` the invariant
says where the base reader is, seen from the last key shown: at it or one step
ahead, with nothing but dropped entries between (`Frontier`), and who moves it
next (`Moves`). That the script reader stops at the next entry that is not dropped
rests on the least element of a set of numbers, which is derived from the
library's theorem that strict inclusion of finite sets is well-founded.

`RandomAccessTableReader_proofs`: `ValueIsRight`, `KeysAreKept`, `YesIsKept`,
`GivenOnce`, for every table and any calls; the last two are action properties. The
answer to a query depends on all the queries before it, so that the invariant says
of each implementation what its members know of the table: `script_` is complete
and what was given is a tombstone (`Script`); how far the archive was read, and why
not further (`Archive`); what was read is in memory, or was given and is not needed
again (`Memory`); with the options that promise an order of the queries, what was
passed is behind (`Requested`). `YesKept` is what a yes of `HasKey()` leaves for the
next call, `NoKeyLost` needs the stronger `NothingMissing`, which speaks also of
entries behind an error that is yet to be met.

`CuMemoryAllocator_proofs`: `EveryBlockIsOnce`, `CachesDoAgree`, `BooksDoBalance`,
`CacheIsGivenBack`, for any sizes of requests, any memory of the device, any calls
and any failures of CUDA. `Lookup()` takes an element from the back of a map
entry and from the middle of the list, `RemoveLeastRecentlyUsed()` one from the
front of both. That these are the same element (`Goes`) follows from the order of
time in both (`InOrder`) and from each node having its entry (`Matched`), and order
is kept because `t_` only grows (`Timely`). The counts (`Books`) and limits
(`Limits`) are inductive when it is known what `FreeSomeCachedMemory()` was asked
for: the overflow before the first `cudaMalloc`, then all that is cached or the
whole request. That it does not run out of caches, which its assertion says, is a
consequence: while not enough is freed, not all blocks are the user's. For
`CacheIsGivenBack` the invariant follows the bytes in the caches from the first
failure to the last attempt (`Returned`): each round gives back at least the request
or all, and at least half. The cost of
a cache is an integer there; the code rounds it to a float, which can change only
which cache comes first.

`OnlineIvectorFeature_proofs`: `TokensAreOfBestPath`, `ChangesDoAddUp`,
`WeightsAreAsMeant` (an action property), `AssertionsDoHold`,
`FramesDoHaveWeights`, for any number of frames, chunk sizes, weights,
transition-ids and limit on a run, and for any lag of the pitch but in the last.
The invariant of both programs, `Inv`, has these parts:

* There is a path whose tokens `frame_info_` has (`Tracking`, with `Covered`): the
  tokens of the frames before a frame are the beginnings of its own token, and the
  frames behind the path have none. A traceback that meets a token it knows can
  therefore stop: all tokens before it are on the new path too. Where the frames
  are weighed, and in the threaded decoder always, that path is the present best
  one (`Traced`); the single-threaded program may have decoded since.
* The queue and the statistics make up the weight last given, also of frames
  without one (`AddUp`), and only frames that have a weight are in the queue
  (`QueueOk`).
* After `UpdateFrameWeights()` all frames that are ready have a weight (`Weighed`),
  and the iVector's own features are ahead of them by a lag of the pitch
  (`Lagging`). So the assertion on the frame that is asked for has failed only
  where greedy extraction asked for all of the latter and there were more of them
  (`NoneMissing`); without pitch there never are, which is `FramesDoHaveWeights`.

That `GetDeltaWeights()`, one pass which corrects the weights of a run when it ends,
gives each frame the weight that its whole run means is a lemma on the recursive
function of that pass: it has, up to each frame, the weights meant for the frames up
to it, but for the run that is still open. It is shown for a least number of frames
where it would fail.

That the weights in the statistics stay between 0 and 1 holds in the
single-threaded program only, and only because of the order of its loop, which
is what `InRange` says: of each frame at most one change waits (`OneChange`),
because frames are weighed when the queue is empty, or when the decoder has not
gone on since they were weighed, so that no weight changes (`Quiet`, `Settled`).
When the decoder goes on, it has asked for all the frames there are, and all
changes were taken out; where asking fails, the program ends. A sum of changes
of which at most one is not 0, and which ends at a weight between 0 and 1, has
not left that range on its way. `IsFraction`, that `silence_weight` lies between
0 and 1, is a hypothesis of this theorem alone: the option can be set to any
number, and with another one the code's assertion on the weights fails for the
first silence.

*Sums.* The provers cannot do induction over a fold. A sum is therefore shown to
count a set, the units of its summands (the allocator), or to be the difference of
two such counts, of the positive and of the negative units (`ChangesAddUp`): if the
recursion behind the fold and the count differed on some set of summands, they would
differ on one with no smaller such set, by the library's theorem on strict
inclusion, and they do not (`SumIsCount`, `SumIsBalance`). The theorems on
cardinalities then give what is needed.

Only model-checked: all liveness properties, because fairness and `ENABLED` are out
of the prover's reach. `WeightsInRange` is not proved, because it is not true of
the threaded decoder: `silence_weights_threaded` has the counterexample.

## Plan

Next modules, in this order, the most important behaviour first:

1. `DiscriminativeExamplesRepository` and an abstract `ExampleQueue` that both
   repositories implement.
2. `Barrier`, with threads that pass several cycles; then `MultiThreader` with
   failing `pthread_create` as its own component.
3. `TableWriter`: two files and the result of `Close`.
4. `GstBufferSource` and the other audio sources: abstract specification, a
   stream of samples that is read once and in order, 3 buffers.
5. The online features: caches against the value computed from scratch.

Next theorems: with each of these modules, the refinement of its abstract
specification first. Every safety property that a run of this directory checks and
finds true is proved; what is left of the present modules is liveness.
