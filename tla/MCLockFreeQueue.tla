-------------------------- MODULE MCLockFreeQueue --------------------------
(* LockFreeQueue with two values and four allocations: enough for the      *)
(* reclaim loop to run more than once in a call and to trail a consumer    *)
(* that is several nodes ahead of first.                                   *)
EXTENDS LockFreeQueue
============================================================================
