------------------------ MODULE OnlineIvectorFeature ------------------------
(***************************************************************************)
(* The silence-weighted statistics of class OnlineIvectorFeature, fed by   *)
(* an OnlineSilenceWeighting, in the two programs that use them:           *)
(*   faster    online2-wav-nnet2-latgen-faster: one thread that accepts a  *)
(*             chunk of waveform, weighs the frames, computes features     *)
(*             and decodes, in turn                                        *)
(*   threaded  SingleUtteranceNnet2DecoderThreaded: the nnet thread        *)
(*             accepts, weighs and computes features batch by batch while  *)
(*             the search thread decodes and traces back                   *)
(* The statistics of a frame are the weight they were accumulated with;    *)
(* each change that is taken from the queue is a step, between which the   *)
(* search thread may trace back.                                           *)
(* With --add-pitch the features that the neural net reads are the minimum *)
(* of several streams and lag behind those that the iVectors are computed  *)
(* from: "ready" counts the former, "lda_ready" the latter.                *)
(* Frames are numbered from 1, so that the number of frames ready is also  *)
(* the last of them.                                                       *)
(***************************************************************************)
EXTENDS OnlineSilenceWeighting, Bags

CONSTANTS
    Programs,       \* a subset of {"faster", "threaded"}
    GreedyOptions,  \* the values of greedy_ivector_extractor: of BOOLEAN
    ChunkFrames,    \* the new frames that a chunk of waveform may give
    PitchLags,      \* by how much the pitch may lag: {0} without --add-pitch
    RightContext,   \* frames of right context of the neural net
    NnetBatchSize,  \* nnet_batch_size
    MaxFrames,      \* bound on the frames of the utterance
    MaxQueued       \* bound on delta_weights_: with more changes in it, no
                    \* chunk comes that is too short to give a frame

ASSUME ProgramAssumption ==
    /\ Programs \subseteq {"faster", "threaded"} /\ GreedyOptions \subseteq BOOLEAN
    /\ ChunkFrames \subseteq Nat /\ PitchLags \subseteq Nat
    /\ RightContext \in Nat /\ MaxFrames \in Nat /\ MaxQueued \in Nat
    /\ NnetBatchSize \in Nat \ {0}

VARIABLES
    program, greedy,   \* the program; greedy_ivector_extractor
    pc,                \* where the program, or its nnet thread, is
    ready, finished,   \* NumFramesReady() of the feature pipeline;
                       \* InputFinished() was called
    lda_ready,         \* lda_->NumFramesReady() of OnlineIvectorFeature
    idle,              \* the last waveform_synchronizer_ turn was a failure
    consumed,          \* num_frames_consumed of the nnet thread
    best,              \* the decoder's best path: decoded so many frames
    frame_info,        \* frame_info_
    delta_weights,     \* delta_weights_, the bag of what is in the queue
    until,             \* the frame that UpdateStatsUntilFrameWeighted() was
                       \* asked for, 0 outside of it
    num_frames_stats, most_recent_frame_with_weight,
    applied,           \* the weight of each frame in the statistics, which
                       \* is also current_frame_weight_debug_
    failed             \* the assertion that failed, or "none"

weighting == <<frame_info, delta_weights, most_recent_frame_with_weight>>
statistics == <<until, num_frames_stats, applied, failed>>
available == <<ready, lda_ready>>
input == <<available, finished, idle, consumed>>
vars == <<program, greedy, pc, input, best, weighting, statistics>>

Init ==
    /\ program \in Programs /\ greedy \in GreedyOptions
    /\ pc = "accept"
    /\ ready = 0 /\ lda_ready = 0 /\ finished = FALSE /\ idle = FALSE /\ consumed = 0
    /\ best = <<>>
    /\ frame_info = <<>> /\ delta_weights = EmptyBag
    /\ until = 0 /\ num_frames_stats = 0 /\ most_recent_frame_with_weight = 0
    /\ applied = [t \in 1 .. MaxFrames |-> 0]
    /\ failed = "none"

-----------------------------------------------------------------------------
\* The order of the priority queue: std::greater, so that the least pair is
\* on top.
Before(p, q) == p[1] < q[1] \/ (p[1] = q[1] /\ p[2] < q[2])
IsTop(p) == BagIn(p, delta_weights) /\ \A q \in BagToSet(delta_weights) : ~Before(q, p)

\* UpdateFrameWeights(deltas).
UpdateFrameWeights(deltas) ==
    /\ delta_weights' = delta_weights (+) SetToBag(deltas)
    /\ most_recent_frame_with_weight' =
         Max({most_recent_frame_with_weight} \cup {p[1] : p \in deltas})

\* GetDeltaWeights() for the frames that are ready, then UpdateFrameWeights().
WeighFrames(info) ==
    LET resized == Resized(info, ready)
        weights == FrameWeights(resized)
    IN  /\ frame_info' = Committed(resized, weights)
        /\ UpdateFrameWeights(DeltaWeights(resized, weights))

\* UpdateStatsUntilFrameWeighted(frame) begins with its assertion.
UpdateStatsUntil(frame) ==
    /\ until' = frame
    /\ failed' = IF frame > most_recent_frame_with_weight THEN "frame has a weight" ELSE failed
    /\ UNCHANGED <<delta_weights, num_frames_stats, applied>>

\* GetFrame() of the frames up to "frame".
GetFrames(frame) == UpdateStatsUntil(IF greedy THEN lda_ready ELSE frame)

\* If the frame is new, the changes of all frames up to it are due.
Due(p) == num_frames_stats < until /\ p[1] <= until

\* The top of the queue goes into the statistics of its frame, and the weight
\* that the frame has then must lie between 0 and 1.
PopChange ==
    /\ pc = "update" /\ failed = "none"
    /\ \E p \in BagToSet(delta_weights) :
          /\ IsTop(p) /\ Due(p)
          /\ delta_weights' = delta_weights (-) SetToBag({p})
          /\ applied' = [applied EXCEPT ![p[1]] = @ + p[2]]
          /\ failed' = IF applied'[p[1]] \in 0 .. FullWeight THEN failed ELSE "weight in range"
    /\ UNCHANGED <<program, greedy, pc, input, best, frame_info,
                   most_recent_frame_with_weight, until, num_frames_stats>>

\* UpdateStatsUntilFrameWeighted() returns when no change is due.
StatsUpdated ==
    /\ \A p \in BagToSet(delta_weights) : ~Due(p)
    /\ num_frames_stats' = Max({num_frames_stats, until})
    /\ until' = 0
    /\ UNCHANGED <<delta_weights, applied, failed>>

\* The decoder goes on to n frames; any path may turn out to be the best one.
Decode(n) == best' \in [1 .. n -> TransitionIds]

\* More waveform, or its end, gives n new frames, and the pitch lags by some
\* frames then.
Accept(n) ==
    /\ ready + n <= MaxFrames
    /\ n = 0 => BagCardinality(delta_weights) <= MaxQueued
    /\ ready' = ready + n
    /\ lda_ready' \in {ready' + lag : lag \in PitchLags}
    /\ lda_ready' >= lda_ready

-----------------------------------------------------------------------------
(* online2-wav-nnet2-latgen-faster *)

Faster(from, to) ==
    /\ program = "faster" /\ failed = "none"
    /\ pc = from /\ pc' = to
    /\ UNCHANGED <<program, greedy, idle, consumed>>

\* AcceptWaveform(chunk), and InputFinished() when it is the last one.
AcceptChunk ==
    /\ Faster("accept", "weigh")
    /\ ~finished
    /\ \E n \in ChunkFrames, last \in BOOLEAN :
         Accept(n) /\ finished' = last
    /\ UNCHANGED <<best, weighting, statistics>>

\* ComputeCurrentTraceback(), GetDeltaWeights(), UpdateFrameWeights().
TraceAndWeigh ==
    /\ Faster("weigh", "advance")
    /\ WeighFrames(Traceback(frame_info, best))
    /\ UNCHANGED <<available, finished, best, statistics>>

\* NumFramesReady() of DecodableNnet2Online.
Decodable == IF finished THEN ready ELSE Max({0, ready - RightContext})

\* AdvanceDecoding() decodes all it can, for which the neural net asks for
\* all the features that there are.
AdvanceDecoding ==
    /\ Decodable > Len(best)
    /\ Faster("advance", "update")
    /\ GetFrames(ready)
    /\ UNCHANGED <<available, finished, best, frame_info, most_recent_frame_with_weight>>

DecodeFrames ==
    /\ Faster("update", "accept")
    /\ StatsUpdated
    /\ Decode(Decodable)
    /\ UNCHANGED <<available, finished, frame_info, most_recent_frame_with_weight>>

\* AdvanceDecoding() has nothing to decode.
DecodeNothing ==
    /\ Decodable <= Len(best)
    /\ Faster("advance", "accept")
    /\ UNCHANGED <<available, finished, best, weighting, statistics>>

-----------------------------------------------------------------------------
(* SingleUtteranceNnet2DecoderThreaded *)

Nnet(from, to) ==
    /\ program = "threaded" /\ failed = "none"
    /\ pc = from /\ pc' = to
    /\ UNCHANGED <<program, greedy>>

Usable == ready - consumed

\* FeatureComputation() takes one piece of waveform after the other, until
\* there are enough frames or the main thread has given no more.
AcceptPiece ==
    /\ Nnet(pc, "more")
    /\ pc \in {"accept", "more"} /\ ~finished
    /\ Usable < NnetBatchSize
    /\ \E n \in ChunkFrames : Accept(n)
    /\ idle' = FALSE
    /\ UNCHANGED <<finished, consumed, best, weighting, statistics>>

\* FeatureComputation() learns of the end of the input, which makes the
\* frames ready that only waited for more context.
AcceptEnd ==
    /\ Nnet("accept", "more")
    /\ ~finished /\ Usable < NnetBatchSize
    /\ \E n \in ChunkFrames : Accept(n)
    /\ finished' = TRUE /\ idle' = FALSE
    /\ UNCHANGED <<consumed, best, weighting, statistics>>

\* FeatureComputation() gets nothing: UnlockFailure(), after which it will
\* not get its turn before there is something.
AcceptNothing ==
    /\ Nnet("accept", "more")
    /\ ~finished /\ Usable < NnetBatchSize /\ ~idle
    /\ idle' = TRUE
    /\ UNCHANGED <<available, finished, consumed, best, weighting, statistics>>

\* GetDeltaWeights() and UpdateFrameWeights().
WeighPieces ==
    /\ Nnet(pc, "compute")
    /\ \/ pc = "more"
       \/ pc = "accept" /\ (finished \/ Usable >= NnetBatchSize)
    /\ WeighFrames(frame_info)
    /\ UNCHANGED <<input, best, statistics>>

\* The number of frames of the next batch.
Rows == Min({Usable, NnetBatchSize})

\* GetFrame() of each frame of the next batch.
GetBatch ==
    /\ Rows > 0
    /\ Nnet("compute", "update")
    /\ GetFrames(consumed + Rows)
    /\ UNCHANGED <<input, best, frame_info, most_recent_frame_with_weight>>

\* Compute() of the batch.
ComputeBatch ==
    /\ Nnet("update", "accept")
    /\ StatsUpdated
    /\ consumed' = consumed + Rows
    /\ UNCHANGED <<available, finished, idle, best, frame_info, most_recent_frame_with_weight>>

\* There is no frame: Flush() at the end, else try again.
NoBatch ==
    /\ Rows = 0
    /\ Nnet("compute", IF finished THEN "flushed" ELSE "accept")
    /\ UNCHANGED <<input, best, weighting, statistics>>

\* The search thread decodes one frame that the neural net has output, and
\* traces back.
SearchFrame ==
    LET output == IF pc = "flushed" THEN consumed ELSE consumed - RightContext
    IN  /\ program = "threaded" /\ failed = "none"
        /\ Len(best) < output
        /\ Decode(Len(best) + 1)
        /\ frame_info' = Traceback(frame_info, best')
        /\ UNCHANGED <<program, greedy, pc, input, delta_weights, statistics,
                       most_recent_frame_with_weight>>

Next ==
    \/ AcceptChunk \/ TraceAndWeigh
    \/ AdvanceDecoding \/ DecodeFrames \/ DecodeNothing
    \/ AcceptPiece \/ AcceptEnd \/ AcceptNothing \/ WeighPieces
    \/ GetBatch \/ ComputeBatch \/ NoBatch
    \/ PopChange \/ SearchFrame

Spec == Init /\ [][Next]_vars

-----------------------------------------------------------------------------
\* No change of a weight is lost or applied twice, however often the decoder
\* changes its mind: what is in the statistics of a frame and what still
\* waits in the queue make up the weight the frame was last given.
ChangesAddUp ==
    LET Pending(t) == SumFunction([p \in {q \in BagToSet(delta_weights) : q[1] = t} |->
                                      p[2] * delta_weights[p]])
    IN  \A t \in DOMAIN frame_info :
            applied[t] + Pending(t) = frame_info[t].current_weight

\* The assertions of UpdateStatsUntilFrameWeighted(): a frame that is asked
\* for has no weight only when greedy extraction asks for frames that the pitch
\* lags behind (see FramesHaveWeights), and a weight in the statistics is out
\* of range only in the threaded program (see WeightsInRange).
AssertionsHold ==
    /\ failed = "frame has a weight" => greedy /\ lda_ready > ready
    /\ failed = "weight in range" => program = "threaded"

\* Every frame that OnlineIvectorFeature is asked for has a weight, its
\* KALDI_ASSERT(frame <= most_recent_frame_with_weight_): true without
\* --add-pitch, and false with it and with greedy extraction.
FramesHaveWeights == failed # "frame has a weight"

\* After each GetDeltaWeights() all frames have the weight that the
\* transition-ids of the last traceback mean: runs that a traceback has cut,
\* joined or lengthened, and frames that had no traceback before, included.
WeightsAreMeant ==
    [][pc' # pc /\ pc' \in {"advance", "compute"} =>
        \A t \in DOMAIN frame_info' :
            frame_info'[t].current_weight = MeantWeight(frame_info', t)]_vars

\* Although the traceback stops early, it leaves every frame with the token
\* of the decoder's best path, and none without a transition-id.
TokensOfBestPath ==
    program = "threaded" \/ pc = "advance" =>
        \A t \in 1 .. Len(best) :
            /\ frame_info[t].token = TokenBefore(best, t)
            /\ frame_info[t].transition_id \in TransitionIds

\* "this is only used for validating that the frame-weighting code is not
\* buggy" (online-ivector-feature.h, line 359): the assertion that follows,
\* that the weight of a frame in the statistics lies between 0 and 1.
WeightsInRange == failed # "weight in range"
=============================================================================
