------------------------ MODULE Nnet2DecoderThreaded ------------------------
(***************************************************************************)
(* class SingleUtteranceNnet2DecoderThreaded: the decoding of one          *)
(* utterance by three threads.                                             *)
(*   main    gives pieces of waveform, ends or aborts the input, joins     *)
(*   nnet    waveform -> features -> log-likelihoods                       *)
(*   search  log-likelihoods -> decoded frames                             *)
(* main and nnet share input_waveform_ under waveform_synchronizer_, nnet  *)
(* and search share decodable_ under decodable_synchronizer_ (both are     *)
(* instances of ThreadSynchronizer); feature_pipeline_mutex_ and           *)
(* decoder_mutex_ protect the feature pipeline and the decoder.            *)
(*                                                                         *)
(* A piece of waveform is its number of samples; features, log-likelihoods *)
(* and decoded frames are counted.  The silence weighting, a leaf lock     *)
(* around statistics, is left out.                                         *)
(***************************************************************************)
EXTENDS Integers, SequencesExt, FiniteSetsExt

CONSTANTS
    PieceDims,        \* the sizes of the pieces given to AcceptWaveform()
    MaxSamples,       \* bound on the number of samples of the utterance
    MinSamples,       \* InputFinished() is called after that many samples
    Shift, Window,    \* samples per frame shift, and in one frame's window
    RightContext,     \* frames of right context of the neural net
    NnetBatchSize,    \* nnet_batch_size
    MaxLoglikesCopy,  \* max_loglikes_copy
    DecodeBatchSize,  \* decode_batch_size
    Throwing          \* where an exception may be thrown: a subset of
                      \* {"features", "compute", "search"}

\* What OnlineNnet2DecodingThreadedConfig::Check() asserts of the options.
ASSUME ConfigAssumption ==
    /\ NnetBatchSize \in Nat \ {0}
    /\ MaxLoglikesCopy \in Nat
    /\ DecodeBatchSize \in Nat \ {0}

ASSUME DataAssumption ==
    /\ PieceDims \subseteq Nat \ {0}
    /\ MaxSamples \in Nat /\ MinSamples \in Nat /\ RightContext \in Nat
    /\ Shift \in Nat \ {0} /\ Window \in Nat \ {0}
    /\ Shift <= Window
    /\ Throwing \subseteq {"features", "compute", "search"}

VARIABLES
    main,       \* [pc, dim, terminated]: the call the main thread is in
    wave,       \* [input, processed, received, discarded, finished]
    pipe,       \* feature_pipeline_: [samples, finished]
    nnet,       \* locals of the nnet thread: [pc, consumed, output, rows, last],
                \* and thrown: an exception of "Throwing" was thrown in it
    decodable,  \* decodable_: [offset, rows, finished]
    search,     \* the search thread and decoder_: [pc, frames, thrown]
    num_frames_decoded,      \* num_frames_decoded_
    feature_pipeline_mutex,  \* holder of feature_pipeline_mutex_, or "none"
    decoder_mutex,           \* holder of decoder_mutex_, or "none"
    joined,     \* the threads that WaitForAllThreads() has joined
    abort, error,  \* abort_, error_
    aborting,   \* how far each caller of AbortAllThreads() is in it
    \* waveform_synchronizer_
    wabort, wwaiting, wmutex, wsemaphore, wat,
    \* decodable_synchronizer_
    dabort, dwaiting, dmutex, dsemaphore, dat

wsync == <<wabort, wwaiting, wmutex, wsemaphore, wat>>
dsync == <<dabort, dwaiting, dmutex, dsemaphore, dat>>
flags == <<abort, error, aborting, joined>>
vars  == <<main, wave, pipe, nnet, decodable, search, num_frames_decoded,
           feature_pipeline_mutex, decoder_mutex, flags, wsync, dsync>>

WS == INSTANCE ThreadSynchronizer WITH
         abort <- wabort, waiting <- wwaiting, mutex <- wmutex,
         semaphore <- wsemaphore, at <- wat
DS == INSTANCE ThreadSynchronizer WITH
         abort <- dabort, waiting <- dwaiting, mutex <- dmutex,
         semaphore <- dsemaphore, at <- dat

Sum(pieces) == FoldSeq(+, 0, pieces)

\* NumFrames() of the feature extraction (snip_edges).
NumFrames(samples) ==
    IF samples < Window THEN 0 ELSE 1 + (samples - Window) \div Shift

NumFramesReady == NumFrames(pipe.samples)

\* feature_pipeline_.IsLastFrame(NumFramesReady() - 1)
FeaturesDone == pipe.finished

NumLoglikesReady == decodable.offset + decodable.rows

\* Frames of output of the nnet computer after "frames" frames of input and
\* before Flush(): the right context is kept back.
OutputFrames(frames) == IF frames > RightContext THEN frames - RightContext ELSE 0

Init ==
    /\ main = [pc |-> "idle", dim |-> 0, terminated |-> FALSE]
    /\ wave = [input |-> <<>>, processed |-> <<>>, received |-> 0,
               discarded |-> 0, finished |-> FALSE]
    /\ pipe = [samples |-> 0, finished |-> FALSE]
    /\ nnet = [pc |-> "top", consumed |-> 0, output |-> 0, rows |-> 0, last |-> FALSE,
               thrown |-> FALSE]
    /\ decodable = [offset |-> 0, rows |-> 0, finished |-> FALSE]
    /\ search = [pc |-> "top", frames |-> 0, thrown |-> FALSE]
    /\ num_frames_decoded = 0
    /\ feature_pipeline_mutex = "none"
    /\ decoder_mutex = "none"
    /\ joined = {}
    /\ abort = FALSE /\ error = FALSE
    /\ aborting = [t \in {"main", "nnet", "search"} |-> "no"]
    /\ WS!SyncInit /\ DS!SyncInit

-----------------------------------------------------------------------------
(* AbortAllThreads(): abort_ and error_, then SetAbort() of the waveform   *)
(* synchronizer, then SetAbort() of the decodable synchronizer.            *)

\* Slip: abort_ is not set.
AbortAllThreads_NoFlag(t, is_error) ==
    /\ error' = (error \/ is_error)
    /\ aborting' = [aborting EXCEPT ![t] = "wave_flag"]
    /\ UNCHANGED <<abort, joined>>

AbortAllThreads(t, is_error) ==
    /\ abort' = TRUE
    /\ error' = (error \/ is_error)
    /\ aborting' = [aborting EXCEPT ![t] = "wave_flag"]
    /\ UNCHANGED joined

\* Slip: decodable_synchronizer_ is forgotten.
AbortStep_WaveformOnly(t) ==
    /\ \/ /\ aborting[t] = "wave_flag"
          /\ WS!RaiseAbort
          /\ aborting' = [aborting EXCEPT ![t] = "wave_signal"]
       \/ /\ aborting[t] = "wave_signal"
          /\ WS!SignalAbort
          /\ aborting' = [aborting EXCEPT ![t] = "no"]
    /\ UNCHANGED <<main, wave, pipe, nnet, decodable, search, num_frames_decoded, dsync,
                   feature_pipeline_mutex, decoder_mutex, abort, error, joined>>

AbortStep(t) ==
    /\ \/ /\ aborting[t] = "wave_flag"
          /\ WS!RaiseAbort /\ UNCHANGED dsync
          /\ aborting' = [aborting EXCEPT ![t] = "wave_signal"]
       \/ /\ aborting[t] = "wave_signal"
          /\ WS!SignalAbort /\ UNCHANGED dsync
          /\ aborting' = [aborting EXCEPT ![t] = "loglikes_flag"]
       \/ /\ aborting[t] = "loglikes_flag"
          /\ DS!RaiseAbort /\ UNCHANGED wsync
          /\ aborting' = [aborting EXCEPT ![t] = "loglikes_signal"]
       \/ /\ aborting[t] = "loglikes_signal"
          /\ DS!SignalAbort /\ UNCHANGED wsync
          /\ aborting' = [aborting EXCEPT ![t] = "no"]
    /\ UNCHANGED <<main, wave, pipe, nnet, decodable, search, num_frames_decoded,
                   feature_pipeline_mutex, decoder_mutex, abort, error, joined>>

Exited(t) ==
    /\ aborting[t] = "no"
    /\ CASE t = "nnet" -> nnet.pc = "exit" [] t = "search" -> search.pc = "exit"

-----------------------------------------------------------------------------
(* The nnet thread: RunNnetEvaluationInternal() and FeatureComputation().  *)
(* nnet.pc is "top" (start of the loop), "wave" (in Lock() of the waveform *)
(* synchronizer), "taken" (in its unlock), "take" (about to take           *)
(* features), "give" (in Lock() of the decodable synchronizer), "retry"    *)
(* and "given" (in its unlocks), "finish" and "finished" (the same around  *)
(* InputIsFinished()), "false" (returning false), "threw", "exit".         *)

NnetUnchanged == UNCHANGED <<main, search, num_frames_decoded, decoder_mutex>>

NnetGoto(place) == nnet' = [nnet EXCEPT !.pc = place]

\* feature_pipeline_mutex_ is locked; FeatureComputation() returns at once
\* when it needs no more waveform, else it calls Lock().
NnetTop ==
    /\ nnet.pc = "top"
    /\ feature_pipeline_mutex = "none"
    /\ feature_pipeline_mutex' = "nnet"
    /\ IF FeaturesDone \/ NumFramesReady - nnet.consumed >= NnetBatchSize
       THEN NnetGoto("take") /\ UNCHANGED wsync
       ELSE NnetGoto("wave") /\ WS!CallLock("consumer")
    /\ UNCHANGED <<wave, pipe, decodable, flags, dsync>> /\ NnetUnchanged

\* No waveform is there: register the end of the input, or fail.
NoWaveform ==
    /\ wave.input = <<>>
    /\ IF wave.finished /\ ~FeaturesDone
       THEN pipe' = [pipe EXCEPT !.finished = TRUE] /\ WS!UnlockSuccess("consumer")
       ELSE UNCHANGED pipe /\ WS!UnlockFailure("consumer")
    /\ UNCHANGED wave

\* How many pieces the loop takes: it goes on while what it has gives less
\* than a batch of frames.
PiecesTaken ==
    Cardinality({k \in 0..Len(wave.input) - 1 :
        NumFrames(pipe.samples + Sum(SubSeq(wave.input, 1, k))) - nnet.consumed
            < NnetBatchSize})

\* Slip: what the neural net has consumed is discarded.
PiecesBehind_Consumed(processed) ==
    Cardinality({k \in 1..Len(processed) :
        wave.discarded + Sum(SubSeq(processed, 1, k)) < Shift * nnet.consumed})

\* How many processed pieces are behind num_frames_decoded_.  It is read here
\* without decodable_synchronizer_; it only grows, so that the loop ends as if
\* it had been read once, when the loop stops.
PiecesBehind(processed) ==
    Cardinality({k \in 1..Len(processed) :
        wave.discarded + Sum(SubSeq(processed, 1, k)) < Shift * num_frames_decoded})

\* Slip: num_samples_discarded_ is not incremented.
TakeWaveform_NoCount ==
    /\ wave.input # <<>>
    /\ LET n == PiecesTaken
           processed == wave.processed \o SubSeq(wave.input, 1, n)
           m == PiecesBehind(processed)
       IN /\ pipe' = [pipe EXCEPT !.samples = @ + Sum(SubSeq(wave.input, 1, n))]
          /\ wave' = [wave EXCEPT
                !.input = SubSeq(@, n + 1, Len(@)),
                !.processed = SubSeq(processed, m + 1, Len(processed))]
    /\ WS!UnlockSuccess("consumer")

TakeWaveform ==
    /\ wave.input # <<>>
    /\ LET n == PiecesTaken
           processed == wave.processed \o SubSeq(wave.input, 1, n)
           m == PiecesBehind(processed)
       IN /\ pipe' = [pipe EXCEPT !.samples = @ + Sum(SubSeq(wave.input, 1, n))]
          /\ wave' = [wave EXCEPT
                !.input = SubSeq(@, n + 1, Len(@)),
                !.processed = SubSeq(processed, m + 1, Len(processed)),
                !.discarded = @ + Sum(SubSeq(processed, 1, m))]
    /\ WS!UnlockSuccess("consumer")

\* The body of FeatureComputation() under the waveform synchronizer.
NnetWaveform ==
    /\ nnet.pc = "wave"
    /\ wat["consumer"] = "locked"
    /\ NoWaveform \/ TakeWaveform
    /\ NnetGoto("taken")
    /\ UNCHANGED <<decodable, feature_pipeline_mutex, flags, dsync>> /\ NnetUnchanged

\* Lock() or the unlock returned false: FeatureComputation() returns false and
\* feature_pipeline_mutex_ is freed.
NnetWaveformRefused ==
    /\ nnet.pc \in {"wave", "taken"}
    /\ wat["consumer"] = "refused"
    /\ feature_pipeline_mutex' = "none"
    /\ NnetGoto("false")
    /\ UNCHANGED <<wave, pipe, decodable, flags, wsync, dsync>> /\ NnetUnchanged

\* An exception of the feature pipeline leaves both locks behind.
NnetFeaturesThrow ==
    /\ "features" \in Throwing
    /\ nnet.pc = "wave"
    /\ wat["consumer"] = "locked"
    /\ wave.input # <<>>
    /\ nnet' = [nnet EXCEPT !.pc = "threw", !.thrown = TRUE]
    /\ UNCHANGED <<wave, pipe, decodable, feature_pipeline_mutex, flags, wsync, dsync>>
    /\ NnetUnchanged

NnetWaveformTaken ==
    /\ nnet.pc = "taken"
    /\ wat["consumer"] = "outside"
    /\ NnetGoto("take")
    /\ UNCHANGED <<wave, pipe, decodable, feature_pipeline_mutex, flags, wsync, dsync>>
    /\ NnetUnchanged

\* Flush() asserts that there was a first chunk; with right context it pads
\* with the last frame of a chunk that was long enough to give output.
FlushFails == nnet.consumed = 0 \/ (RightContext > 0 /\ nnet.consumed <= RightContext)

FramesTaken == Min({NumFramesReady - nnet.consumed, NnetBatchSize})

Flushing == FramesTaken = 0 /\ FeaturesDone

\* At most a batch of frames is taken, feature_pipeline_mutex_ freed, and the
\* computer run on them; Flush() when the features have ended.
NnetCompute ==
    /\ nnet.pc = "take"
    /\ ~(Flushing /\ FlushFails)
    /\ feature_pipeline_mutex' = "none"
    /\ LET consumed == nnet.consumed + FramesTaken
           rows == IF Flushing THEN RightContext
                   ELSE OutputFrames(consumed) - OutputFrames(nnet.consumed)
       IN /\ nnet' = [nnet EXCEPT
                !.consumed = consumed, !.rows = rows, !.last = Flushing,
                !.pc = IF rows > 0 THEN "give" ELSE IF Flushing THEN "finish" ELSE "top"]
          /\ IF rows > 0 \/ Flushing THEN DS!CallLock("producer") ELSE UNCHANGED dsync
    /\ UNCHANGED <<wave, pipe, decodable, flags, wsync>> /\ NnetUnchanged

\* The computation throws after feature_pipeline_mutex_ was freed.
NnetComputeThrows ==
    /\ nnet.pc = "take"
    /\ \/ Flushing /\ FlushFails /\ NnetGoto("threw")
       \/ /\ "compute" \in Throwing /\ FramesTaken > 0
          /\ nnet' = [nnet EXCEPT !.pc = "threw", !.thrown = TRUE]
    /\ feature_pipeline_mutex' = "none"
    /\ UNCHANGED <<wave, pipe, decodable, flags, wsync, dsync>> /\ NnetUnchanged

\* Those of decoded frames are discarded, the new ones appended.  Slip: the nnet
\* thread does not count them.
AcceptLoglikes_NoCount ==
    /\ decodable' = [decodable EXCEPT
          !.offset = num_frames_decoded,
          !.rows = @ - (num_frames_decoded - decodable.offset) + nnet.rows]
    /\ nnet' = [nnet EXCEPT !.pc = "given"]
AcceptLoglikes ==
    /\ decodable' = [decodable EXCEPT
          !.offset = num_frames_decoded,
          !.rows = @ - (num_frames_decoded - decodable.offset) + nnet.rows]
    /\ nnet' = [nnet EXCEPT !.output = @ + nnet.rows, !.pc = "given"]

\* Few enough old log-likelihoods would have to be copied.  Slip: "<".
FewToCopy_Strict == nnet.output - num_frames_decoded < MaxLoglikesCopy
FewToCopy == nnet.output - num_frames_decoded <= MaxLoglikesCopy

\* The new log-likelihoods are accepted, or the search thread has to go first.
NnetGive ==
    /\ nnet.pc = "give"
    /\ dat["producer"] = "locked"
    /\ \/ FewToCopy /\ AcceptLoglikes /\ DS!UnlockSuccess("producer")
       \/ ~FewToCopy /\ NnetGoto("retry") /\ DS!UnlockFailure("producer") /\ UNCHANGED decodable
    /\ UNCHANGED <<wave, pipe, feature_pipeline_mutex, flags, wsync>> /\ NnetUnchanged

\* The unlock returned true: the next Lock(), or the next round of the loop.
NnetGiven ==
    /\ nnet.pc \in {"retry", "given"}
    /\ dat["producer"] = "outside"
    /\ IF nnet.pc = "retry" \/ nnet.last
       THEN DS!CallLock("producer") ELSE UNCHANGED dsync
    /\ NnetGoto(IF nnet.pc = "retry" THEN "give"
                ELSE IF nnet.last THEN "finish" ELSE "top")
    /\ UNCHANGED <<wave, pipe, decodable, feature_pipeline_mutex, flags, wsync>>
    /\ NnetUnchanged

NnetInputIsFinished ==
    /\ nnet.pc = "finish"
    /\ dat["producer"] = "locked"
    /\ decodable' = [decodable EXCEPT !.finished = TRUE]
    /\ DS!UnlockSuccess("producer")
    /\ NnetGoto("finished")
    /\ UNCHANGED <<wave, pipe, feature_pipeline_mutex, flags, wsync>> /\ NnetUnchanged

NnetFinished ==
    /\ nnet.pc = "finished"
    /\ dat["producer"] = "outside"
    /\ NnetGoto("exit")
    /\ UNCHANGED <<wave, pipe, decodable, feature_pipeline_mutex, flags, wsync, dsync>>
    /\ NnetUnchanged

NnetLoglikesRefused ==
    /\ nnet.pc \in {"give", "retry", "given", "finish", "finished"}
    /\ dat["producer"] = "refused"
    /\ NnetGoto("false")
    /\ UNCHANGED <<wave, pipe, decodable, feature_pipeline_mutex, flags, wsync, dsync>>
    /\ NnetUnchanged

\* RunNnetEvaluation(): returning false without abort_ is an exception too.
NnetReturnsFalse ==
    /\ nnet.pc = "false"
    /\ NnetGoto(IF abort THEN "exit" ELSE "threw")
    /\ UNCHANGED <<wave, pipe, decodable, feature_pipeline_mutex, flags, wsync, dsync>>
    /\ NnetUnchanged

NnetCatches ==
    /\ nnet.pc = "threw"
    /\ NnetGoto("exit")
    /\ AbortAllThreads("nnet", TRUE)
    /\ UNCHANGED <<wave, pipe, decodable, feature_pipeline_mutex, wsync, dsync>>
    /\ NnetUnchanged

Nnet ==
    \/ NnetTop \/ NnetWaveform \/ NnetWaveformRefused \/ NnetFeaturesThrow
    \/ NnetWaveformTaken \/ NnetCompute \/ NnetComputeThrows \/ NnetGive \/ NnetGiven
    \/ NnetInputIsFinished \/ NnetFinished \/ NnetLoglikesRefused
    \/ NnetReturnsFalse \/ NnetCatches

-----------------------------------------------------------------------------
(* The search thread: RunDecoderSearchInternal().  search.pc is "top",     *)
(* "lock" (in Lock()), "decoder" (about to lock decoder_mutex_), "decoded" *)
(* (decoder_mutex_ held, frames advanced), "unlock" and "last" (in the     *)
(* unlock, after which it loops or returns), "false", "threw", "exit".     *)

SearchUnchanged == UNCHANGED <<main, wave, pipe, nnet, decodable, feature_pipeline_mutex, wsync>>

SearchGoto(place) == search' = [search EXCEPT !.pc = place]

SearchTop ==
    /\ search.pc = "top"
    /\ DS!CallLock("consumer")
    /\ SearchGoto("lock")
    /\ UNCHANGED <<num_frames_decoded, decoder_mutex, flags>> /\ SearchUnchanged

\* Slip: no frames is taken for the end.
SearchNoFrames_Ends ==
    /\ search.pc = "lock"
    /\ dat["consumer"] = "locked"
    /\ NumLoglikesReady <= search.frames
    /\ DS!UnlockSuccess("consumer") /\ SearchGoto("last")
    /\ UNCHANGED <<num_frames_decoded, decoder_mutex, flags>> /\ SearchUnchanged

\* No frames to decode: the end if it was the last one, else a failure.
SearchNoFrames ==
    /\ search.pc = "lock"
    /\ dat["consumer"] = "locked"
    /\ NumLoglikesReady <= search.frames
    /\ IF decodable.finished
       THEN DS!UnlockSuccess("consumer") /\ SearchGoto("last")
       ELSE DS!UnlockFailure("consumer") /\ SearchGoto("unlock")
    /\ UNCHANGED <<num_frames_decoded, decoder_mutex, flags>> /\ SearchUnchanged

\* decoder_.AdvanceDecoding(&decodable_, DecodeBatchSize)
AdvanceDecoding == Min({NumLoglikesReady, search.frames + DecodeBatchSize})

\* decoder_mutex_ is locked and up to DecodeBatchSize frames are decoded.
SearchAdvance ==
    /\ search.pc = "lock"
    /\ dat["consumer"] = "locked"
    /\ NumLoglikesReady > search.frames
    /\ decoder_mutex = "none"
    /\ decoder_mutex' = "search"
    /\ search' = [search EXCEPT !.pc = "decoded", !.frames = AdvanceDecoding]
    /\ UNCHANGED <<num_frames_decoded, flags, dsync>> /\ SearchUnchanged

\* An exception of the decoder, or of the traceback after it, leaves decoder_mutex_
\* and the lock behind.  AdvanceDecoding() counts frame by frame, so some frames of
\* the batch are decoded already, or all of them, and none is published.
SearchThrows ==
    /\ "search" \in Throwing
    /\ search.pc = "lock"
    /\ dat["consumer"] = "locked"
    /\ NumLoglikesReady > search.frames
    /\ decoder_mutex = "none"
    /\ decoder_mutex' = "search"
    /\ \E frames \in search.frames..AdvanceDecoding :
          search' = [search EXCEPT !.pc = "threw", !.frames = frames, !.thrown = TRUE]
    /\ UNCHANGED <<num_frames_decoded, flags, dsync>> /\ SearchUnchanged

SearchPublish ==
    /\ search.pc = "decoded"
    /\ decoder_mutex' = "none"
    /\ num_frames_decoded' = search.frames
    /\ DS!UnlockSuccess("consumer")
    /\ SearchGoto("unlock")
    /\ UNCHANGED flags /\ SearchUnchanged

\* The unlock has returned, or Lock() has returned false.  The result of the
\* last unlock is not looked at.
SearchReturned ==
    /\ \/ search.pc = "unlock" /\ dat["consumer"] = "outside" /\ SearchGoto("top")
       \/ search.pc \in {"lock", "unlock"} /\ dat["consumer"] = "refused" /\ SearchGoto("false")
       \/ search.pc = "last" /\ dat["consumer"] \in {"outside", "refused"} /\ SearchGoto("exit")
       \/ search.pc = "false" /\ SearchGoto(IF abort THEN "exit" ELSE "threw")
    /\ UNCHANGED <<num_frames_decoded, decoder_mutex, flags, dsync>> /\ SearchUnchanged

SearchCatches ==
    /\ search.pc = "threw"
    /\ SearchGoto("exit")
    /\ AbortAllThreads("search", TRUE)
    /\ UNCHANGED <<num_frames_decoded, decoder_mutex, dsync>> /\ SearchUnchanged

Search ==
    \/ SearchTop \/ SearchNoFrames \/ SearchAdvance \/ SearchThrows \/ SearchPublish
    \/ SearchReturned \/ SearchCatches

-----------------------------------------------------------------------------
(* The main thread.  main.pc is "idle" between two calls; "accept",        *)
(* "pending" and "finish" in Lock() of AcceptWaveform(),                   *)
(* NumWaveformPiecesPending() and InputFinished(), "unlock" in their       *)
(* unlock; "terminate" in TerminateDecoding(); "join" in Wait(); "decoder" *)
(* in a function that reads the decoder under decoder_mutex_ (GetLattice,  *)
(* GetBestPath, NumFramesDecoded, EndpointDetected); "features" in         *)
(* GetAdaptationState(); "finalize" in FinalizeDecoding(); "destroy" in    *)
(* the destructor, "gone" after it.                                        *)

MainUnchanged == UNCHANGED <<pipe, nnet, decodable, search, num_frames_decoded,
                             feature_pipeline_mutex, decoder_mutex, dsync>>

MainGoto(place) == main' = [main EXCEPT !.pc = place]

AllJoined == joined = {"nnet", "search"}

AcceptWaveform(dim) ==
    /\ main.pc = "idle"
    /\ ~wave.finished    \* "you cannot call AcceptWaveform any more"
    /\ wave.received + dim <= MaxSamples
    /\ main' = [main EXCEPT !.pc = "accept", !.dim = dim]
    /\ wave' = [wave EXCEPT !.received = @ + dim]
    /\ WS!CallLock("producer")
    /\ UNCHANGED flags /\ MainUnchanged

NumWaveformPiecesPending ==
    /\ main.pc = "idle"
    /\ MainGoto("pending")
    /\ WS!CallLock("producer")
    /\ UNCHANGED <<wave, flags>> /\ MainUnchanged

InputFinished ==
    /\ main.pc = "idle"
    /\ ~wave.finished
    /\ wave.received >= MinSamples
    /\ MainGoto("finish")
    /\ WS!CallLock("producer")
    /\ UNCHANGED <<wave, flags>> /\ MainUnchanged

\* The body of the three calls under the waveform synchronizer.
MainLocked ==
    /\ main.pc \in {"accept", "pending", "finish"}
    /\ wat["producer"] = "locked"
    /\ wave' = CASE main.pc = "accept"  -> [wave EXCEPT !.input = Append(@, main.dim)]
                 [] main.pc = "pending" -> wave
                 [] main.pc = "finish"  -> [wave EXCEPT !.finished = TRUE]
    /\ MainGoto("unlock")
    /\ WS!UnlockSuccess("producer")
    /\ UNCHANGED flags /\ MainUnchanged

\* The call returns; a refused Lock() is an exception of the call, the result
\* of the unlock is not looked at.
MainReturns ==
    /\ \/ main.pc \in {"accept", "pending", "finish"} /\ wat["producer"] = "refused"
       \/ main.pc = "unlock" /\ wat["producer"] \in {"outside", "refused"}
       \/ main.pc = "terminate" /\ aborting["main"] = "no"
       \/ main.pc = "decoder" /\ decoder_mutex = "none"
       \/ main.pc = "features" /\ feature_pipeline_mutex = "none"
       \/ main.pc = "finalize"
       \/ main.pc = "join" /\ AllJoined
    /\ MainGoto("idle")
    /\ UNCHANGED <<wave, flags, wsync>> /\ MainUnchanged

\* Called at most once per utterance here.
TerminateDecoding ==
    /\ main.pc = "idle"
    /\ ~main.terminated
    /\ main' = [main EXCEPT !.pc = "terminate", !.terminated = TRUE]
    /\ AbortAllThreads("main", FALSE)
    /\ UNCHANGED <<wave, wsync>> /\ MainUnchanged

Wait ==
    /\ main.pc = "idle"
    /\ wave.finished \/ abort
    /\ MainGoto("join")
    /\ UNCHANGED <<wave, flags, wsync>> /\ MainUnchanged

\* The calls that only read: the decoder at any time, the adaptation state
\* after Wait().
ReadDecoder ==
    /\ main.pc = "idle"
    /\ MainGoto("decoder")
    /\ UNCHANGED <<wave, flags, wsync>> /\ MainUnchanged

CallGetAdaptationState ==
    /\ main.pc = "idle"
    /\ MainGoto("features")
    /\ UNCHANGED <<wave, flags, wsync>> /\ MainUnchanged

GetAdaptationState == AllJoined /\ CallGetAdaptationState

\* It fails unless Wait() was called; an application calls it after that.
FinalizeDecoding ==
    /\ main.pc = "idle"
    /\ AllJoined
    /\ MainGoto("finalize")
    /\ UNCHANGED <<wave, flags, wsync>> /\ MainUnchanged

\* The destructor aborts unless that was done, and joins the threads.
Destroy ==
    /\ main.pc = "idle"
    /\ MainGoto("destroy")
    /\ IF abort THEN UNCHANGED flags ELSE AbortAllThreads("main", FALSE)
    /\ UNCHANGED <<wave, wsync>> /\ MainUnchanged

\* WaitForAllThreads(): the nnet thread first.
Join(t) ==
    /\ main.pc \in {"join", "destroy"}
    /\ aborting["main"] = "no"
    /\ t \notin joined
    /\ t = "search" => "nnet" \in joined
    /\ Exited(t)
    /\ joined' = joined \cup {t}
    /\ UNCHANGED <<main, wave, abort, error, aborting, wsync>> /\ MainUnchanged

Destroyed ==
    /\ main.pc = "destroy"
    /\ AllJoined
    /\ MainGoto("gone")
    /\ UNCHANGED <<wave, flags, wsync>> /\ MainUnchanged

Gone == main.pc = "gone" /\ UNCHANGED vars

\* The calls an application makes, and what they do once they are made.
MainCalls ==
    \/ \E dim \in PieceDims : AcceptWaveform(dim)
    \/ NumWaveformPiecesPending \/ InputFinished \/ TerminateDecoding \/ Wait
    \/ ReadDecoder \/ GetAdaptationState \/ FinalizeDecoding \/ Destroy

MainRuns ==
    \/ MainLocked \/ MainReturns \/ Join("nnet") \/ Join("search") \/ Destroyed

-----------------------------------------------------------------------------
\* What a thread does inside a synchronizer.
InWaveform(t) ==
    /\ WS!RunInside(t)
    /\ UNCHANGED <<main, wave, pipe, nnet, decodable, search, num_frames_decoded,
                   feature_pipeline_mutex, decoder_mutex, flags, dsync>>

InDecodable(t) ==
    /\ DS!RunInside(t)
    /\ UNCHANGED <<main, wave, pipe, nnet, decodable, search, num_frames_decoded,
                   feature_pipeline_mutex, decoder_mutex, flags, wsync>>

Runs ==
    \/ MainRuns \/ Nnet \/ Search
    \/ \E t \in {"main", "nnet", "search"} : AbortStep(t)
    \/ \E t \in {"producer", "consumer"} : InWaveform(t) \/ InDecodable(t)

Next == MainCalls \/ Runs \/ Gone

Spec == Init /\ [][Next]_vars

\* Each thread goes on as long as it can; which calls are made is free.
Fairness ==
    /\ WF_vars(MainRuns) /\ WF_vars(Nnet) /\ WF_vars(Search)
    /\ \A t \in {"main", "nnet", "search"} : WF_vars(AbortStep(t))
    /\ \A t \in {"producer", "consumer"} : WF_vars(InWaveform(t)) /\ WF_vars(InDecodable(t))

FairSpec == Spec /\ Fairness

\* An application that asks for the adaptation state without having called Wait().
EarlySpec == Init /\ [][Next \/ CallGetAdaptationState]_vars /\ Fairness

-----------------------------------------------------------------------------
(* Safety                                                                  *)

\* The two worker threads agree on the frames: what is discarded was published
\* as decoded, what is published was decoded, what is decoded was output, and
\* the nnet thread's count of its output is what the decodable object has.
\* The assertions of RunNnetEvaluationInternal(), AcceptLoglikes(),
\* AdvanceDecoding() and LogLikelihood() all follow from this order.
FramesOrdered ==
    /\ decodable.offset <= num_frames_decoded
    /\ num_frames_decoded <= search.frames
    /\ search.frames <= NumLoglikesReady
    /\ nnet.output = NumLoglikesReady
    /\ nnet.output <= nnet.consumed
    /\ nnet.consumed <= NumFramesReady
    /\ nnet.pc = "finished" => nnet.consumed = nnet.output

Stored == Sum(wave.processed) + Sum(wave.input)

\* No sample is lost between the threads: the feature pipeline has had what is
\* discarded or kept as processed, and the rest is still in input_waveform_.
WaveformKept ==
    /\ pipe.samples = wave.discarded + Sum(wave.processed)
    /\ ~abort => wave.discarded + Stored =
                     wave.received - (IF main.pc = "accept" THEN main.dim ELSE 0)

\* GetRemainingWaveform() after Wait(): its assertions hold (nothing was
\* discarded that is not decoded, and all that is decoded was received) and it
\* starts right after the frames that the decoder has really decoded; or, when
\* the search threw, at most a batch of frames before.
RemainingWaveform ==
    AllJoined =>
        /\ wave.discarded <= Shift * num_frames_decoded
        /\ Shift * num_frames_decoded <= wave.discarded + Stored
        /\ search.frames - num_frames_decoded
              \in 0..(IF search.thrown THEN DecodeBatchSize ELSE 0)

\* When Wait() returns and nobody aborted, all frames of the waveform given to
\* AcceptWaveform() are decoded.
DecodedAll == AllJoined /\ ~abort => search.frames = NumFrames(wave.received)

\* error_ is something "we should never encounter": TerminateDecoding() and the
\* destructor stop the threads without making them return abnormally, and only
\* an exception of the features, the neural net or the decoder sets it.
NoError == error => nnet.thrown \/ search.thrown

\* No synchronizer ever has both its threads waiting for each other.
NeverBothWaiting ==
    /\ ~(wwaiting["producer"] /\ wwaiting["consumer"])
    /\ ~(dwaiting["producer"] /\ dwaiting["consumer"])

-----------------------------------------------------------------------------
(* Liveness                                                                *)

\* Every call returns: AcceptWaveform() does not block, Wait() and the
\* destructor join the threads, wherever an abort finds them.
CallsReturn == main.pc \notin {"idle", "gone"} ~> main.pc \in {"idle", "gone"}

\* "If an error happened in one thread, we need to make sure the other threads
\* can exit too."
ErrorFreesThreads == error ~> (Exited("nnet") /\ Exited("search"))

\* "If this blocks, it shouldn't be for very long."
AdaptationStateReturns == main.pc = "features" ~> main.pc # "features"
=============================================================================
