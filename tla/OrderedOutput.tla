--------------------------- MODULE OrderedOutput ----------------------------
(***************************************************************************)
(* What class TaskSequencer promises in its comment: the destructors of    *)
(* the tasks run one at a time, and in the order in which the tasks were   *)
(* given to Run().  busy says that a destructor is running.                *)
(***************************************************************************)
EXTENDS Naturals, Sequences

VARIABLES given, output, busy

OrderedInit == given = 0 /\ output = <<>> /\ busy = FALSE

Give ==
    /\ given' = given + 1
    /\ UNCHANGED <<output, busy>>

BeginDestructor ==
    /\ ~busy
    /\ Len(output) < given
    /\ busy' = TRUE
    /\ output' = Append(output, Len(output) + 1)
    /\ UNCHANGED given

EndDestructor ==
    /\ busy
    /\ busy' = FALSE
    /\ UNCHANGED <<given, output>>

OrderedNext == Give \/ BeginDestructor \/ EndDestructor

OrderedSpec == OrderedInit /\ [][OrderedNext]_<<given, output, busy>>
=============================================================================
