-------------------------- MODULE CountingSemaphore -------------------------
(***************************************************************************)
(* What a Semaphore promises: a number of permits; taking one is possible  *)
(* only when there is one.                                                 *)
(***************************************************************************)
EXTENDS Integers

CONSTANT InitialPermits
VARIABLE permits

PermitsInit == permits = InitialPermits
Take == permits > 0 /\ permits' = permits - 1
Give == permits' = permits + 1

PermitsSpec == PermitsInit /\ [][Take \/ Give]_permits
=============================================================================
