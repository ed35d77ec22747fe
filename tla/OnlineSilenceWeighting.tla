----------------------- MODULE OnlineSilenceWeighting -----------------------
(***************************************************************************)
(* class OnlineSilenceWeighting: what the decoder's best path says of each *)
(* frame, and the weight of the frame that follows from it.                *)
(*                                                                         *)
(* These are operators on frame_info_; OnlineIvectorFeature owns the       *)
(* variable.  Frames are numbered from 1.  A path is the sequence of its   *)
(* transition-ids, and a token is the path that leads to it (it has one    *)
(* backpointer): a graph without epsilon arcs whose paths do not merge.    *)
(***************************************************************************)
EXTENDS Integers, SequencesExt, FiniteSetsExt

CONSTANTS
    TransitionIds, SilenceIds,  \* all of them; those of silence phones
    MaxStateDuration,           \* max_state_duration; <= 0: no limit
    FullWeight,                 \* the weight of what is not silence, 1.0, in
    SilenceWeight               \* the same units as silence_weight

NoId == "none"                  \* transition_id == -1
NoToken == <<NoId>>             \* token == NULL

ASSUME WeightingAssumption ==
    /\ SilenceIds \subseteq TransitionIds
    /\ NoId \notin TransitionIds
    /\ MaxStateDuration \in Int
    /\ FullWeight \in Nat /\ SilenceWeight \in Int

FrameInfo == [token |-> NoToken, transition_id |-> NoId, current_weight |-> 0]

\* frame_info_.resize(n), which is only ever done to a shorter one.
Resized(info, n) ==
    info \o [i \in 1 .. Max({0, n - Len(info)}) |-> FrameInfo]

\* The token that the arc of frame t leaves, on the path "best".
TokenBefore(best, t) == SubSeq(best, 1, t - 1)

\* The loop of ComputeCurrentTraceback(): back from the last frame decoded to
\* the first one that is known, which is left as it is.
TraceBackTo(info, best, known) ==
    LET stop == Max(known \cup {0})
    IN  [t \in DOMAIN info |->
            IF t \in stop + 1 .. Len(best)
            THEN [info[t] EXCEPT !.token = TokenBefore(best, t),
                                 !.transition_id = best[t]]
            ELSE info[t]]

\* Slip: a frame is known when its transition-id has not changed.
Traceback_SameId(info, best) ==
    LET resized == Resized(info, Len(best))
    IN  TraceBackTo(resized, best,
                    {t \in 1 .. Len(best) : resized[t].transition_id = best[t]})

\* ComputeCurrentTraceback(): a frame is known when its token is.
Traceback(info, best) ==
    LET resized == Resized(info, Len(best))
    IN  TraceBackTo(resized, best,
                    {t \in 1 .. Len(best) : resized[t].token = TokenBefore(best, t)})

-----------------------------------------------------------------------------
\* GetDeltaWeights() on frame t.  "sofar" has the weights of the frames before
\* it and how many of the last ones are in its run (current_run_start_offset);
\* "next" is that number for the frame after the end of the run.
WeighFrame(info, sofar, t, next) ==
    LET id == info[t].transition_id
        run == sofar.run + 1
        ends == t = Len(info) \/ info[t + 1].transition_id # id
        long == MaxStateDuration > 0 /\ ends /\ run >= MaxStateDuration
        own == IF id \in SilenceIds THEN SilenceWeight ELSE FullWeight
    IN  IF id = NoId
        THEN [sofar EXCEPT !.weights = Append(@, Last(@))]
        ELSE [weights |-> [u \in 1 .. t |->
                              IF long /\ u > t - run THEN SilenceWeight
                              ELSE IF u < t THEN sofar.weights[u] ELSE own],
              run |-> IF ends THEN next ELSE run]

\* Slip: the start of the run is not moved when the transition-id changes.
Weigh_RunsOn(info, sofar, t) == WeighFrame(info, sofar, t, sofar.run + 1)

Weigh(info, sofar, t) == WeighFrame(info, sofar, t, 0)

\* The weights of all frames.  GetBeginFrame() is 0: nothing ever increases
\* num_frames_output_and_correct_, which starts at 0.
FrameWeights(info) ==
    LET weighed[t \in 0 .. Len(info)] ==
            IF t = 0 THEN [weights |-> <<>>, run |-> 0]
            ELSE Weigh(info, weighed[t - 1], t)
    IN  IF info # <<>> /\ info[1].transition_id = NoId
        THEN [t \in DOMAIN info |-> SilenceWeight]
        ELSE weighed[Len(info)].weights

\* The pairs (frame, change) for some frames.
Changes(info, weights, frames) ==
    {<<t, weights[t] - info[t].current_weight>> : t \in frames}

\* Slip: the last frame is not returned when its weight has not changed.
DeltaWeights_Changed(info, weights) ==
    Changes(info, weights, {t \in DOMAIN info : weights[t] # info[t].current_weight})

\* The pairs that GetDeltaWeights() returns: the frames whose weight has
\* changed, and the last one in any case.
DeltaWeights(info, weights) ==
    Changes(info, weights,
            {t \in DOMAIN info : weights[t] # info[t].current_weight \/ t = Len(info)})

\* Slip: the last frame, of which a pair is returned in any case, is not
\* recorded.
Committed_NotLast(info, weights) ==
    [t \in DOMAIN info |->
        IF t = Len(info) THEN info[t]
        ELSE [info[t] EXCEPT !.current_weight = weights[t]]]

\* frame_info_ after GetDeltaWeights().
Committed(info, weights) ==
    [t \in DOMAIN info |-> [info[t] EXCEPT !.current_weight = weights[t]]]

-----------------------------------------------------------------------------
\* What the weights are meant to be: silence_weight for the frames of silence
\* phones and of runs of max_state_duration frames or more, and for the
\* frames that follow the decoded ones the weight of the last of those.
RunAround(info, t) ==
    {u \in DOMAIN info :
        \A v \in DOMAIN info :
            v \in u .. t \cup t .. u => info[v].transition_id = info[t].transition_id}

IsDownweighted(info, t) ==
    \/ info[t].transition_id \in SilenceIds
    \/ MaxStateDuration > 0 /\ Cardinality(RunAround(info, t)) >= MaxStateDuration

MeantWeight(info, t) ==
    LET decoded == {u \in 1 .. t : info[u].transition_id # NoId}
    IN  IF decoded = {} \/ IsDownweighted(info, Max(decoded))
        THEN SilenceWeight ELSE FullWeight
=============================================================================
