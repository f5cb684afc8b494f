------------------------------- MODULE MCMlfqHistory -------------------------------
(* Constants of the TLC instances of MlfqHistory. *)
EXTENDS MlfqHistory

MCQuantum == [l \in 0 .. MLFQ_LEVELS - 1 |-> 2 ^ l]
=============================================================================
