------------------------------- MODULE MCMlfqLoad -------------------------------
(* Constants of the TLC instances of MlfqLoad. *)
EXTENDS MlfqLoad

MCQuantum == [l \in 0 .. MLFQ_LEVELS - 1 |-> 2 ^ l]
=============================================================================
