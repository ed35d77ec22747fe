----------------------------- MODULE TurnTaking -----------------------------
(***************************************************************************)
(* What a ThreadSynchronizer promises its two clients, taken from the way  *)
(* its operations are used: at most one of the two threads is inside, a    *)
(* thread that left with a failure does not come back until the other one  *)
(* has been inside and left with a success, and nobody comes in after an   *)
(* abort.  The detailed specification SynchronizedThreads implements it.   *)
(***************************************************************************)

VARIABLES holder,   \* the thread inside, or "none"
          blocked,  \* the threads that left with a failure and were not yet woken
          aborted   \* SetAbort() has been called

turnVars == <<holder, blocked, aborted>>

Threads == {"producer", "consumer"}

Peer(t) == IF t = "producer" THEN "consumer" ELSE "producer"

TurnInit ==
    /\ holder = "none"
    /\ blocked = {}
    /\ aborted = FALSE

Enter(t) ==
    /\ holder = "none"
    /\ t \notin blocked
    /\ ~aborted
    /\ holder' = t
    /\ UNCHANGED <<blocked, aborted>>

LeaveSuccess(t) ==
    /\ holder = t
    /\ holder' = "none"
    /\ blocked' = blocked \ {Peer(t)}
    /\ UNCHANGED aborted

LeaveFailure(t) ==
    /\ holder = t
    /\ holder' = "none"
    /\ blocked' = blocked \cup {t}
    /\ UNCHANGED aborted

Abort ==
    /\ aborted' = TRUE
    /\ UNCHANGED <<holder, blocked>>

TurnNext ==
    \/ \E t \in Threads : Enter(t) \/ LeaveSuccess(t) \/ LeaveFailure(t)
    \/ Abort

TurnSpec == TurnInit /\ [][TurnNext]_turnVars
=============================================================================
