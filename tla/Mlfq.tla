-------------------------------- MODULE Mlfq --------------------------------
(***************************************************************************)
(* The multi-level feedback scheduler of kernel/proc.c with the tick       *)
(* accounting of kernel/trap.c.                                            *)
(*                                                                         *)
(* Every hart runs scheduler(): it scans the table for the first RUNNABLE  *)
(* process of the highest level, switches to it, charges it for the ticks  *)
(* it used when it comes back, and ages the processes that wait.  The      *)
(* process table is protected slot by slot by p->lock, which the scheduler *)
(* takes and the process releases on the other side of swtch(), and the    *)
(* other way round when the process gives the hart up.                     *)
(*                                                                         *)
(* Abstractions.  A critical section that takes one p->lock and releases   *)
(* it again is one step, enabled when the lock is free; the lock is held   *)
(* between steps only across swtch().  What a process computes is not      *)
(* modelled, only what it does to the table: it is ticked, sleeps, exits,  *)
(* forks, wakes, kills or reaps.  kfork's USED interval is inside Fork.    *)
(***************************************************************************)
EXTENDS Integers

CONSTANTS
  NPROC,            \* slots of the process table
  CPU,              \* the harts
  NoCpu,            \* the owner of a p->lock nobody holds
  MLFQ_LEVELS,      \* number of queues; level 0 has the highest priority
  mlfq_quantum,     \* ticks a process may use at each level
  AGING_THRESHOLD   \* scheduler passes a RUNNABLE process waits for promotion

Proc   == 0 .. NPROC - 1
NoProc == NPROC                        \* c->proc = 0
Level  == 0 .. MLFQ_LEVELS - 1

ASSUME TableAssumption ==
  /\ NPROC \in Nat \ {0}
  /\ NoCpu \notin CPU
ASSUME LevelsAssumption ==
  /\ MLFQ_LEVELS \in Nat \ {0}
  /\ mlfq_quantum \in [Level -> Nat \ {0}]
  /\ AGING_THRESHOLD \in Nat \ {0}

VARIABLES
  state,         \* p->state
  queue_level,   \* p->queue_level
  q_ticks,       \* p->q_ticks
  wait_time,     \* p->wait_time, which AGING_THRESHOLD caps (see AgeSlot)
  used,          \* p->total_ticks minus prev_total, of the hart running p
  exiting,       \* processes a timer trap sent into kexit(), interrupts off
  lock,          \* the hart holding p->lock
  proc,          \* c->proc
  pc,            \* what hart c executes
  scan_level,    \* scheduler()'s local variable level
  slot           \* scheduler()'s local variable p

procVars  == <<state, queue_level, q_ticks, wait_time, used, exiting>>
cpuVars   == <<proc, pc, scan_level, slot>>
vars      == <<procVars, lock, cpuVars>>

ProcState == {"UNUSED", "SLEEPING", "RUNNABLE", "RUNNING", "ZOMBIE"}

(***************************************************************************)
(* Hart c is in scheduler()'s loop ("scan", "age"), or on the kernel stack *)
(* of c->proc: just switched to and still holding p->lock ("switched"),    *)
(* executing the process ("run"), returning from a timer interrupt that    *)
(* will make it yield ("ticked"), or in sched() with p->lock held          *)
(* ("leaving").                                                            *)
(***************************************************************************)
ProcessPc == {"switched", "run", "ticked", "leaving"}
PcLabel   == {"scan", "age"} \union ProcessPc

OnCpu(c, p) == proc[c] = p /\ pc[c] \in ProcessPc

Init ==
  /\ state       = [p \in Proc |-> IF p = 0 THEN "RUNNABLE" ELSE "UNUSED"]
  /\ queue_level = [p \in Proc |-> 0]
  /\ q_ticks     = [p \in Proc |-> 0]
  /\ wait_time   = [p \in Proc |-> 0]
  /\ used        = [p \in Proc |-> 0]
  /\ exiting     = {}
  /\ lock        = [p \in Proc |-> NoCpu]
  /\ proc        = [c \in CPU |-> NoProc]
  /\ pc          = [c \in CPU |-> "scan"]
  /\ scan_level  = [c \in CPU |-> 0]
  /\ slot        = [c \in CPU |-> 0]

-----------------------------------------------------------------------------
(* scheduler(): choosing and dispatching *)

EligibleAtAnyLevel(c) == state[slot[c]] = "RUNNABLE"
Eligible(c) ==
  /\ state[slot[c]] = "RUNNABLE"
  /\ queue_level[slot[c]] = scan_level[c]

\* The scan looks at one slot under its lock and goes on: to the next slot,
\* then to the next level, then, with nothing chosen, to the aging pass.
SkipSlot(c) ==
  /\ pc[c] = "scan"
  /\ lock[slot[c]] = NoCpu
  /\ ~Eligible(c)
  /\ IF slot[c] < NPROC - 1
     THEN /\ slot' = [slot EXCEPT ![c] = slot[c] + 1]
          /\ UNCHANGED <<scan_level, pc>>
     ELSE /\ slot' = [slot EXCEPT ![c] = 0]
          /\ IF scan_level[c] < MLFQ_LEVELS - 1
             THEN /\ scan_level' = [scan_level EXCEPT ![c] = scan_level[c] + 1]
                  /\ UNCHANGED pc
             ELSE /\ scan_level' = [scan_level EXCEPT ![c] = 0]
                  /\ pc' = [pc EXCEPT ![c] = "age"]
  /\ UNCHANGED <<procVars, lock, proc>>

\* The lock of the chosen process stays held across swtch().
Dispatch(c) ==
  /\ pc[c] = "scan"
  /\ lock[slot[c]] = NoCpu
  /\ Eligible(c)
  /\ lock'  = [lock EXCEPT ![slot[c]] = c]
  /\ state' = [state EXCEPT ![slot[c]] = "RUNNING"]
  /\ proc'  = [proc EXCEPT ![c] = slot[c]]
  /\ used'  = [used EXCEPT ![slot[c]] = 0]
  /\ pc'    = [pc EXCEPT ![c] = "switched"]
  /\ UNCHANGED <<queue_level, q_ticks, wait_time, exiting, scan_level, slot>>

\* The process, on the other side of swtch(), releases its own lock.
ReleaseOwn(c) ==
  /\ pc[c] = "switched"
  /\ lock' = [lock EXCEPT ![proc[c]] = NoCpu]
  /\ pc'   = [pc EXCEPT ![c] = "run"]
  /\ UNCHANGED <<procVars, proc, scan_level, slot>>

\* Back from the process: charge the ticks, demote it when its quantum is
\* exhausted, and release its lock.
Charged(p)   == q_ticks[p] + used[p]
ExhaustedLate(p) == Charged(p) > mlfq_quantum[queue_level[p]]
Exhausted(p) == Charged(p) >= mlfq_quantum[queue_level[p]]

DemotedPastLast(p) == IF Exhausted(p) THEN queue_level[p] + 1 ELSE queue_level[p]

Demoted(p) ==
  IF Exhausted(p) /\ queue_level[p] < MLFQ_LEVELS - 1
  THEN queue_level[p] + 1 ELSE queue_level[p]

SwitchBack(c) ==
  LET p == proc[c] IN
  /\ pc[c] = "leaving"
  /\ proc'        = [proc EXCEPT ![c] = NoProc]
  /\ q_ticks'     = [q_ticks EXCEPT ![p] = IF Exhausted(p) THEN 0 ELSE Charged(p)]
  /\ queue_level' = [queue_level EXCEPT ![p] = Demoted(p)]
  /\ wait_time'   = [wait_time EXCEPT ![p] = 0]
  /\ used'        = [used EXCEPT ![p] = 0]
  /\ lock'        = [lock EXCEPT ![p] = NoCpu]
  /\ pc'          = [pc EXCEPT ![c] = "age"]
  /\ slot'        = [slot EXCEPT ![c] = 0]
  /\ scan_level'  = [scan_level EXCEPT ![c] = 0]
  /\ UNCHANGED <<state, exiting>>

-----------------------------------------------------------------------------
(* scheduler(): the aging pass *)

WaitedOnce(p) == 1
Waited(p)   == wait_time[p] + 1
Promoted(p) == Waited(p) >= AGING_THRESHOLD /\ queue_level[p] > 0

\* One slot of the pass.  Past the threshold wait_time only grows, and only at
\* level 0, where nothing reads it until the process runs and it is reset: the
\* cap loses no behaviour.
AgeSlot(c) ==
  LET p == slot[c] IN
  /\ pc[c] = "age"
  /\ lock[p] = NoCpu
  /\ IF state[p] = "RUNNABLE"
     THEN IF Promoted(p)
          THEN /\ queue_level' = [queue_level EXCEPT ![p] = queue_level[p] - 1]
               /\ q_ticks'     = [q_ticks EXCEPT ![p] = 0]
               /\ wait_time'   = [wait_time EXCEPT ![p] = 0]
          ELSE /\ wait_time'   = [wait_time EXCEPT ![p] =
                    IF Waited(p) < AGING_THRESHOLD THEN Waited(p) ELSE AGING_THRESHOLD]
               /\ UNCHANGED <<queue_level, q_ticks>>
     ELSE /\ wait_time' = [wait_time EXCEPT ![p] = 0]
          /\ UNCHANGED <<queue_level, q_ticks>>
  /\ IF p < NPROC - 1
     THEN slot' = [slot EXCEPT ![c] = p + 1] /\ UNCHANGED pc
     ELSE slot' = [slot EXCEPT ![c] = 0] /\ pc' = [pc EXCEPT ![c] = "scan"]
  /\ UNCHANGED <<state, used, exiting, lock, proc, scan_level>>

-----------------------------------------------------------------------------
(* The process on hart c *)

\* clockintr(): charge the tick, without p->lock.  usertrap() calls kexit() with
\* interrupts still off, every spinlock restores that on release and sched()
\* carries it across swtch(), so an exiting process is ticked no more.
Tick(c) ==
  /\ pc[c] = "run"
  /\ proc[c] \notin exiting
  /\ used'      = [used EXCEPT ![proc[c]] = used[proc[c]] + 1]
  /\ wait_time' = [wait_time EXCEPT ![proc[c]] = 0]
  /\ pc'        = [pc EXCEPT ![c] = "ticked"]
  /\ UNCHANGED <<state, queue_level, q_ticks, exiting, lock, proc, scan_level, slot>>

\* Take p->lock, change the state and enter sched().
LeaveAsUnlocked(c, s) ==
  /\ lock[proc[c]] = NoCpu
  /\ state' = [state EXCEPT ![proc[c]] = s]
  /\ pc'    = [pc EXCEPT ![c] = "leaving"]
  /\ UNCHANGED <<queue_level, q_ticks, wait_time, used, lock, proc, scan_level, slot>>
LeaveAsRunning(c, s) ==
  /\ lock[proc[c]] = NoCpu
  /\ lock'  = [lock EXCEPT ![proc[c]] = c]
  /\ pc'    = [pc EXCEPT ![c] = "leaving"]
  /\ UNCHANGED <<state, queue_level, q_ticks, wait_time, used, proc, scan_level, slot>>
LeaveAs(c, s) ==
  /\ lock[proc[c]] = NoCpu
  /\ lock'  = [lock EXCEPT ![proc[c]] = c]
  /\ state' = [state EXCEPT ![proc[c]] = s]
  /\ pc'    = [pc EXCEPT ![c] = "leaving"]
  /\ UNCHANGED <<queue_level, q_ticks, wait_time, used, proc, scan_level, slot>>

\* yield(): both trap handlers call it after a timer interrupt and nowhere else.
Yield(c) ==
  /\ pc[c] = "ticked"
  /\ LeaveAs(c, "RUNNABLE")
  /\ UNCHANGED exiting

\* usertrap() looks at p->killed after the timer interrupt and before yield().
KilledInterruptsOn(c) ==
  /\ pc[c] = "ticked"
  /\ proc[c] # 0
  /\ pc' = [pc EXCEPT ![c] = "run"]
  /\ UNCHANGED <<procVars, lock, proc, scan_level, slot>>
KilledBeforeYield(c) ==
  /\ pc[c] = "ticked"
  /\ proc[c] # 0
  /\ proc[c] \notin exiting
  /\ exiting' = exiting \union {proc[c]}
  /\ pc'      = [pc EXCEPT ![c] = "run"]
  /\ UNCHANGED <<state, queue_level, q_ticks, wait_time, used, lock, proc, scan_level, slot>>

\* sleep().
Sleep(c) ==
  /\ pc[c] = "run"
  /\ LeaveAs(c, "SLEEPING")
  /\ UNCHANGED exiting

\* kexit(); init, the process of slot 0, does not exit.
Exit(c) ==
  /\ pc[c] = "run"
  /\ proc[c] # 0
  /\ LeaveAs(c, "ZOMBIE")
  /\ exiting' = exiting \ {proc[c]}

\* wakeup() of one sleeper, by a process or by an interrupt handler.
Wakeup(c, q) ==
  /\ pc[c] \in {"scan", "age", "run"}
  /\ lock[q] = NoCpu
  /\ state[q] = "SLEEPING"
  /\ state'     = [state EXCEPT ![q] = "RUNNABLE"]
  /\ q_ticks'   = [q_ticks EXCEPT ![q] = 0]
  /\ wait_time' = [wait_time EXCEPT ![q] = 0]
  /\ UNCHANGED <<queue_level, used, exiting, lock, cpuVars>>

\* kkill() wakes a sleeper and leaves its accounting alone.
KillSleeper(c, q) ==
  /\ pc[c] = "run"
  /\ proc[c] \notin exiting
  /\ lock[q] = NoCpu
  /\ state[q] = "SLEEPING"
  /\ state' = [state EXCEPT ![q] = "RUNNABLE"]
  /\ UNCHANGED <<queue_level, q_ticks, wait_time, used, exiting, lock, cpuVars>>

\* kfork(): allocproc() resets the accounting of the slot it takes.
Fork(c, q) ==
  /\ pc[c] = "run"
  /\ proc[c] \notin exiting
  /\ lock[q] = NoCpu
  /\ state[q] = "UNUSED"
  /\ state'       = [state EXCEPT ![q] = "RUNNABLE"]
  /\ queue_level' = [queue_level EXCEPT ![q] = 0]
  /\ q_ticks'     = [q_ticks EXCEPT ![q] = 0]
  /\ wait_time'   = [wait_time EXCEPT ![q] = 0]
  /\ UNCHANGED <<used, exiting, lock, cpuVars>>

\* kwait(): freeproc() leaves the accounting of the slot alone.
Reap(c, q) ==
  /\ pc[c] = "run"
  /\ proc[c] \notin exiting
  /\ lock[q] = NoCpu
  /\ state[q] = "ZOMBIE"
  /\ state' = [state EXCEPT ![q] = "UNUSED"]
  /\ UNCHANGED <<queue_level, q_ticks, wait_time, used, exiting, lock, cpuVars>>

-----------------------------------------------------------------------------
SchedulerStep(c) == SkipSlot(c) \/ Dispatch(c) \/ SwitchBack(c) \/ AgeSlot(c)
TimerStep(c)     == ReleaseOwn(c) \/ Tick(c) \/ Yield(c)
ProcessStep(c) ==
  \/ KilledBeforeYield(c) \/ Sleep(c) \/ Exit(c)
  \/ \E q \in Proc : Wakeup(c, q) \/ KillSleeper(c, q) \/ Fork(c, q) \/ Reap(c, q)

Next == \E c \in CPU : SchedulerStep(c) \/ TimerStep(c) \/ ProcessStep(c)

Spec == Init /\ [][Next]_vars

-----------------------------------------------------------------------------
TypeOK ==
  /\ state       \in [Proc -> ProcState]
  /\ queue_level \in [Proc -> Level]
  /\ q_ticks     \in [Proc -> Nat]
  /\ wait_time   \in [Proc -> 0 .. AGING_THRESHOLD]
  /\ used        \in [Proc -> Nat]
  /\ exiting     \in SUBSET Proc
  /\ lock        \in [Proc -> CPU \union {NoCpu}]
  /\ proc        \in [CPU -> Proc \union {NoProc}]
  /\ pc          \in [CPU -> PcLabel]
  /\ scan_level  \in [CPU -> Level]
  /\ slot        \in [CPU -> Proc]

\* The handover of p->lock across swtch(): the scheduler takes it and the process
\* releases it, or the process takes it and the scheduler releases it, and nobody
\* else holds it between two steps (proc.c: scheduler, sched, forkret).
LockHandover ==
  \A c \in CPU :
    /\ pc[c] \in ProcessPc <=> proc[c] # NoProc
    /\ \A p \in Proc : lock[p] = c <=> proc[c] = p /\ pc[c] \in {"switched", "leaving"}
    /\ pc[c] \in {"switched", "run", "ticked"} => state[proc[c]] = "RUNNING"
    /\ pc[c] = "leaving" => state[proc[c]] # "RUNNING"

\* No process is on two harts: a process that has set its state to RUNNABLE in
\* yield() is still on its kernel stack until swtch(), and only p->lock keeps the
\* scheduler of another hart from running it there (proc.c: sched, scheduler).
OneHartPerProcess ==
  \A c, d \in CPU : \A p \in Proc : OnCpu(c, p) /\ OnCpu(d, p) => c = d

\* A process nobody holds the lock of is RUNNING exactly when some hart executes
\* it: none is left RUNNING without a hart, so none is lost to every scan, and
\* no sleeper, zombie or free slot is executing (proc.c: scheduler, sleep, kexit).
RunningIffOnHart ==
  \A p \in Proc : lock[p] = NoCpu =>
    (state[p] = "RUNNING" <=> \E c \in CPU : OnCpu(c, p))

\* The quantum of its level bounds what a process has been charged, whatever
\* demotions, promotions, wake-ups, kills and reuse of the slot happened to it
\* (proc.c: scheduler's demotion and aging, wakeup, kkill, allocproc).
WithinQuantum == \A p \in Proc : q_ticks[p] < mlfq_quantum[queue_level[p]]

\* A hart charges at most one tick to one dispatch: both trap handlers yield after
\* a timer interrupt, and the one way round yield(), kexit() of a killed process,
\* runs with interrupts off to its end, through every sleep on the way (trap.c:
\* usertrap, kerneltrap; proc.c: sched).
OneTickPerDispatch == \A p \in Proc : used[p] <= 1
=============================================================================
