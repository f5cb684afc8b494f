------------------------------ MODULE MCLogPipe ------------------------------
(***************************************************************************)
(* The log and a pipe, which share no state, in one instance: the initial  *)
(* state settles which of them a behaviour is about.  The pipe stops when  *)
(* both its ends are closed.                                               *)
(***************************************************************************)
EXTENDS Log, Pipe, TLC

VARIABLE about

Symmetry == Permutations(Block)

MCInit == Init /\ PipeInit /\ about \in {"log", "pipe"}
MCLog  == about = "log" /\ Next /\ UNCHANGED pipeVars
MCPipe == about = "pipe" /\ PipeNext /\ UNCHANGED vars
MCDone == about = "pipe" /\ open = {} /\ UNCHANGED <<vars, pipeVars>>
MCNext == (MCLog \/ MCPipe \/ MCDone) /\ UNCHANGED about
MCSpec == MCInit /\ [][MCNext]_<<vars, pipeVars, about>>
=============================================================================
