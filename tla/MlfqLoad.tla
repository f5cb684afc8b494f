------------------------------ MODULE MlfqLoad ------------------------------
(***************************************************************************)
(* Mlfq under a compute-bound load: every slot holds a process that never  *)
(* sleeps, exits or forks, so the clock is the only thing that takes the   *)
(* hart from it.  Whether each of them is served is then up to the         *)
(* scheduler alone.                                                        *)
(***************************************************************************)
EXTENDS Mlfq

LoadInit ==
  /\ state = [p \in Proc |-> "RUNNABLE"]
  /\ queue_level \in [Proc -> Level]
  /\ q_ticks     = [p \in Proc |-> 0]
  /\ wait_time   = [p \in Proc |-> 0]
  /\ used        = [p \in Proc |-> 0]
  /\ exiting     = {}
  /\ lock        = [p \in Proc |-> NoCpu]
  /\ proc        = [c \in CPU |-> NoProc]
  /\ pc          = [c \in CPU |-> "scan"]
  /\ scan_level  = [c \in CPU |-> 0]
  /\ slot        = [c \in CPU |-> 0]

LoadStep(c) == SchedulerStep(c) \/ TimerStep(c)

\* A hart keeps executing instructions and its timer keeps interrupting it.
LoadSpec ==
  /\ LoadInit /\ [][\E c \in CPU : LoadStep(c)]_vars
  /\ \A c \in CPU : WF_vars(LoadStep(c))

\* Aging serves everyone: a process that waits is dispatched in the end, although
\* the lowest slot of a level always wins it (proc.c: scheduler).
EveryoneServed == \A p \in Proc : state[p] = "RUNNABLE" ~> state[p] = "RUNNING"
=============================================================================
