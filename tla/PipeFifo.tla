------------------------------ MODULE PipeFifo ------------------------------
(***************************************************************************)
(* What kernel/pipe.c promises: a bounded first-in first-out queue of      *)
(* bytes that takes no byte after its read end is closed.                  *)
(***************************************************************************)
EXTENDS Naturals, Sequences

CONSTANTS Byte, PIPESIZE

VARIABLES queue, readable, writable

fifoVars == <<queue, readable, writable>>

FifoInit == queue = <<>> /\ readable = TRUE /\ writable = TRUE

Put(b) ==
  /\ readable /\ writable /\ Len(queue) < PIPESIZE
  /\ queue' = Append(queue, b)
  /\ UNCHANGED <<readable, writable>>
Get ==
  /\ readable /\ queue # <<>>
  /\ queue' = Tail(queue)
  /\ UNCHANGED <<readable, writable>>
CloseRead  == readable /\ readable' = FALSE /\ UNCHANGED <<queue, writable>>
CloseWrite == writable /\ writable' = FALSE /\ UNCHANGED <<queue, readable>>

FifoNext == (\E b \in Byte : Put(b)) \/ Get \/ CloseRead \/ CloseWrite

FifoSpec == FifoInit /\ [][FifoNext]_fifoVars
=============================================================================
