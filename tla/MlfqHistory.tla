---------------------------- MODULE MlfqHistory ----------------------------
(***************************************************************************)
(* Mlfq with two history variables, for what the scheduler promises about  *)
(* priority and about aging.  They observe the steps and restrict none.    *)
(***************************************************************************)
EXTENDS Mlfq

VARIABLES
  fresh,    \* per hart, what became eligible or was promoted since its scan began
  waited    \* timer ticks of the machine since a process last became RUNNABLE

hvars == <<vars, fresh, waited>>

HInit ==
  /\ Init
  /\ fresh  = [c \in CPU |-> {}]
  /\ waited = [p \in Proc |-> 0]

Raised == {p \in Proc :
  \/ state[p] # "RUNNABLE" /\ state'[p] = "RUNNABLE"
  \/ queue_level'[p] < queue_level[p]}

ScanBegins(c) == pc[c] = "age" /\ pc'[c] = "scan"

Observe ==
  fresh' = [c \in CPU |-> IF ScanBegins(c) THEN {} ELSE fresh[c] \union Raised]

\* Every tick counts for every waiting process, whichever hart takes it.
CountTick ==
  waited' = [p \in Proc |->
    IF state[p] = "RUNNABLE" /\ waited[p] < AGING_THRESHOLD THEN waited[p] + 1
    ELSE waited[p]]

\* The clock of a hart that runs no process: c->proc is 0, clockintr() charges nobody.
IdleTick(c) ==
  /\ pc[c] \in {"scan", "age"}
  /\ CountTick
  /\ UNCHANGED <<vars, fresh>>

HStep(c) ==
  \/ Tick(c) /\ Observe /\ CountTick
  \/ /\ SchedulerStep(c) \/ ReleaseOwn(c) \/ Yield(c) \/ ProcessStep(c)
     /\ Observe
     /\ waited' = [p \in Proc |-> IF state'[p] = "RUNNABLE" THEN waited[p] ELSE 0]

HNext == \E c \in CPU : HStep(c) \/ IdleTick(c)

HSpec == HInit /\ [][HNext]_hvars

-----------------------------------------------------------------------------
\* The scan takes q before p when it meets both eligible.
Before(q, p) ==
  \/ queue_level[q] < queue_level[p]
  \/ queue_level[q] = queue_level[p] /\ q < p

\* A hart passes a process over only if that became RUNNABLE, or was promoted,
\* after the hart began its scan: locking the table one slot at a time loses no
\* process that was there all along (proc.c: scheduler, the scan).
PassesOverOnlyFresh ==
  [][\A c \in CPU : \A q \in Proc :
       Dispatch(c) /\ state[q] = "RUNNABLE" /\ Before(q, slot[c]) => q \in fresh[c]]_hvars

\* "ticks waited to promote" (proc.c:424) and "ticks spent waiting while RUNNABLE
\* (for aging)" (proc.h:100): no process is promoted before it waited that many
\* clock ticks (proc.c: scheduler, the aging pass).
PromotedAfterTicks ==
  [][\A p \in Proc : queue_level'[p] < queue_level[p] /\ state[p] = "RUNNABLE"
       => waited[p] >= AGING_THRESHOLD]_hvars
=============================================================================
