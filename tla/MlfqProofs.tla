----------------------------- MODULE MlfqProofs -----------------------------
(***************************************************************************)
(* Proofs about Mlfq, for every number of slots, harts and levels.         *)
(*                                                                         *)
(* The inductive invariant is MlfqInv: who holds a p->lock between two     *)
(* steps and what it says of the process's state (LockHandover), that no   *)
(* process is on two harts, that a RUNNING process is on one, that its     *)
(* quantum bounds what a process was charged, and that the tick of the     *)
(* current dispatch is charged once.  HInv adds the scan of scheduler(),   *)
(* which takes one p->lock at a time, so that the table moves under it: it *)
(* still passes over nobody who was there all along.                       *)
(***************************************************************************)
EXTENDS MlfqHistory, TLAPS

RunningIsOnHart ==
  \A p \in Proc : state[p] = "RUNNING" => \E c \in CPU : OnCpu(c, p)

\* Until its timer interrupt, a process that is not exiting was charged nothing.
UntickedWhileRunning ==
  \A c \in CPU :
    \/ pc[c] = "switched"
    \/ pc[c] = "run" /\ proc[c] \notin exiting
    => used[proc[c]] = 0

Handover == LockHandover /\ OneHartPerProcess /\ RunningIsOnHart
MlfqInv  == TypeOK /\ Handover /\ WithinQuantum /\ UntickedWhileRunning /\ OneTickPerDispatch

-----------------------------------------------------------------------------
\* A hart that executes a process has a slot of the table in c->proc.
LEMMA OnProcess ==
  ASSUME TypeOK, LockHandover, NEW c \in CPU, pc[c] \in ProcessPc
  PROVE  proc[c] \in Proc
BY TableAssumption DEF TypeOK, LockHandover, Proc, NoProc

\* The two counters of scheduler()'s loops stay inside their ranges.
LEMMA LoopBounds ==
  ASSUME TypeOK, NEW c \in CPU
  PROVE  /\ 0 \in Proc /\ 0 \in Level /\ 0 \in 0 .. AGING_THRESHOLD
         /\ slot[c] < NPROC - 1 => slot[c] + 1 \in Proc
         /\ scan_level[c] < MLFQ_LEVELS - 1 => scan_level[c] + 1 \in Level
<1>1. slot[c] \in Proc /\ scan_level[c] \in Level
  BY DEF TypeOK
<1>2. NPROC \in Nat \ {0} /\ MLFQ_LEVELS \in Nat \ {0} /\ AGING_THRESHOLD \in Nat \ {0}
  BY TableAssumption, LevelsAssumption
<1> QED BY <1>1, <1>2 DEF Proc, Level

\* What the scheduler computes for a process is of its type.
LEMMA AccountBounds ==
  ASSUME TypeOK, NEW p \in Proc
  PROVE  /\ Charged(p) \in Nat /\ Demoted(p) \in Level
         /\ Promoted(p) => queue_level[p] - 1 \in Level
         /\ Waited(p) \in Nat
         /\ Waited(p) < AGING_THRESHOLD => Waited(p) \in 0 .. AGING_THRESHOLD
         /\ AGING_THRESHOLD \in 0 .. AGING_THRESHOLD
<1>1. queue_level[p] \in Level /\ q_ticks[p] \in Nat /\ used[p] \in Nat
      /\ wait_time[p] \in 0 .. AGING_THRESHOLD
  BY DEF TypeOK
<1>2. MLFQ_LEVELS \in Nat \ {0} /\ AGING_THRESHOLD \in Nat \ {0}
  BY LevelsAssumption
<1>3. Charged(p) \in Nat
  BY <1>1 DEF Charged
<1>4. Demoted(p) \in Level /\ (Promoted(p) => queue_level[p] - 1 \in Level)
  BY <1>1, <1>2 DEF Demoted, Promoted, Level
<1>5. Waited(p) \in Nat
  BY <1>1, <1>2 DEF Waited
<1> QED BY <1>2, <1>3, <1>4, <1>5

\* Every step keeps the type of every field.
LEMMA TypeStep == TypeOK /\ LockHandover /\ [Next]_vars => TypeOK'
<1> SUFFICES ASSUME TypeOK, LockHandover, [Next]_vars PROVE TypeOK'
  OBVIOUS
<1>1. CASE UNCHANGED vars
  BY <1>1 DEF vars, procVars, cpuVars, TypeOK
<1>2. ASSUME NEW c \in CPU, SchedulerStep(c) PROVE TypeOK'
  <2>1. CASE SkipSlot(c)
    <3>1. slot' \in [CPU -> Proc]
      BY <2>1, LoopBounds DEF SkipSlot, TypeOK
    <3>2. scan_level' \in [CPU -> Level]
      BY <2>1, LoopBounds DEF SkipSlot, TypeOK
    <3>3. pc' \in [CPU -> PcLabel]
      BY <2>1, TableAssumption DEF SkipSlot, TypeOK, PcLabel
    <3> QED BY <2>1, <3>1, <3>2, <3>3 DEF SkipSlot, procVars, TypeOK
  <2>2. CASE Dispatch(c)
    BY <2>2 DEF Dispatch, TypeOK, ProcState, PcLabel, ProcessPc
  <2>3. CASE SwitchBack(c)
    <3> DEFINE p == proc[c]
    <3>1. p \in Proc
      BY <2>3, OnProcess DEF SwitchBack, ProcessPc
    <3>2. q_ticks' \in [Proc -> Nat] /\ queue_level' \in [Proc -> Level]
      BY <2>3, <3>1, AccountBounds DEF SwitchBack, TypeOK
    <3>3. wait_time' \in [Proc -> 0 .. AGING_THRESHOLD] /\ used' \in [Proc -> Nat]
      BY <2>3, <3>1, LoopBounds DEF SwitchBack, TypeOK
    <3>4. /\ proc' \in [CPU -> Proc \union {NoProc}]
          /\ slot' \in [CPU -> Proc] /\ scan_level' \in [CPU -> Level]
          /\ lock' \in [Proc -> CPU \union {NoCpu}]
      BY <2>3, <3>1, LoopBounds DEF SwitchBack, TypeOK
    <3>5. pc' \in [CPU -> PcLabel]
      BY <2>3 DEF SwitchBack, TypeOK, PcLabel
    <3> QED BY <2>3, <3>2, <3>3, <3>4, <3>5 DEF SwitchBack, TypeOK
  <2>4. CASE AgeSlot(c)
    <3> DEFINE p == slot[c]
    <3>1. p \in Proc
      BY DEF TypeOK
    <3>2. q_ticks' \in [Proc -> Nat] /\ queue_level' \in [Proc -> Level]
      BY <2>4, <3>1, AccountBounds DEF AgeSlot, TypeOK
    <3>3. wait_time' \in [Proc -> 0 .. AGING_THRESHOLD]
      BY <2>4, <3>1, AccountBounds, LoopBounds DEF AgeSlot, TypeOK
    <3>4. slot' \in [CPU -> Proc]
      BY <2>4, LoopBounds DEF AgeSlot, TypeOK
    <3>5. pc' \in [CPU -> PcLabel]
      BY <2>4, TableAssumption DEF AgeSlot, TypeOK, PcLabel
    <3> QED BY <2>4, <3>2, <3>3, <3>4, <3>5 DEF AgeSlot, TypeOK
  <2> QED BY <1>2, <2>1, <2>2, <2>3, <2>4 DEF SchedulerStep
<1>3. ASSUME NEW c \in CPU, TimerStep(c) PROVE TypeOK'
  <2>1. pc[c] \in ProcessPc
    BY <1>3 DEF TimerStep, ReleaseOwn, Tick, Yield, ProcessPc
  <2>2. proc[c] \in Proc
    BY <2>1, OnProcess
  <2>3. CASE ReleaseOwn(c)
    BY <2>2, <2>3 DEF ReleaseOwn, procVars, TypeOK, PcLabel, ProcessPc
  <2>4. CASE Tick(c)
    BY <2>2, <2>4, LoopBounds DEF Tick, TypeOK, PcLabel, ProcessPc
  <2>5. CASE Yield(c)
    BY <2>2, <2>5 DEF Yield, LeaveAs, TypeOK, ProcState, PcLabel, ProcessPc
  <2> QED BY <1>3, <2>3, <2>4, <2>5 DEF TimerStep
<1>4. ASSUME NEW c \in CPU, ProcessStep(c) PROVE TypeOK'
  <2>1. CASE KilledBeforeYield(c)
    <3>1. proc[c] \in Proc
      BY <2>1, OnProcess DEF KilledBeforeYield, ProcessPc
    <3> QED BY <2>1, <3>1 DEF KilledBeforeYield, TypeOK, PcLabel, ProcessPc
  <2>2. CASE Sleep(c)
    <3>1. proc[c] \in Proc
      BY <2>2, OnProcess DEF Sleep, ProcessPc
    <3> QED BY <2>2, <3>1 DEF Sleep, LeaveAs, TypeOK, ProcState, PcLabel, ProcessPc
  <2>3. CASE Exit(c)
    <3>1. proc[c] \in Proc
      BY <2>3, OnProcess DEF Exit, ProcessPc
    <3> QED BY <2>3, <3>1 DEF Exit, LeaveAs, TypeOK, ProcState, PcLabel, ProcessPc
  <2>4. ASSUME NEW q \in Proc, Wakeup(c, q) PROVE TypeOK'
    BY <2>4, LoopBounds DEF Wakeup, cpuVars, TypeOK, ProcState
  <2>5. ASSUME NEW q \in Proc, KillSleeper(c, q) PROVE TypeOK'
    BY <2>5 DEF KillSleeper, cpuVars, TypeOK, ProcState
  <2>6. ASSUME NEW q \in Proc, Fork(c, q) PROVE TypeOK'
    BY <2>6, LoopBounds DEF Fork, cpuVars, TypeOK, ProcState
  <2>7. ASSUME NEW q \in Proc, Reap(c, q) PROVE TypeOK'
    BY <2>7 DEF Reap, cpuVars, TypeOK, ProcState
  <2> QED BY <1>4, <2>1, <2>2, <2>3, <2>4, <2>5, <2>6, <2>7 DEF ProcessStep
<1> QED BY <1>1, <1>2, <1>3, <1>4 DEF Next
-----------------------------------------------------------------------------
\* What a step of hart c that touches only its own process, or none, leaves to
\* the other harts: their part of the handover holds as before.
LEMMA HandoverStep ==
  TypeOK /\ TypeOK' /\ Handover /\ [Next]_vars => Handover'
<1> SUFFICES ASSUME TypeOK, TypeOK', Handover, [Next]_vars PROVE Handover'
  OBVIOUS
<1> USE DEF Handover, LockHandover, OneHartPerProcess, RunningIsOnHart, OnCpu
<1>1. NoProc \notin Proc /\ NoCpu \notin CPU
  BY TableAssumption DEF Proc, NoProc
<1>2. CASE UNCHANGED vars
  BY <1>2 DEF vars, procVars, cpuVars
<1>3. ASSUME NEW c \in CPU, SchedulerStep(c) PROVE Handover'
  <2>1. CASE SkipSlot(c)
    <3>1. UNCHANGED <<state, lock, proc>> /\ pc[c] = "scan"
      BY <2>1 DEF SkipSlot, procVars
    <3>2. pc' = pc \/ pc' = [pc EXCEPT ![c] = "age"]
      BY <2>1, Zenon DEF SkipSlot
    <3> QED BY <3>1, <3>2 DEF TypeOK, ProcessPc
  <2>2. CASE Dispatch(c)
    <3>1. slot[c] \in Proc /\ lock[slot[c]] = NoCpu /\ state[slot[c]] = "RUNNABLE"
          /\ proc[c] = NoProc
      BY <2>2 DEF Dispatch, Eligible, TypeOK, ProcessPc
    <3>2. \A d \in CPU : pc[d] \in ProcessPc => proc[d] # slot[c]
      BY <1>1, <3>1 DEF ProcessPc
    <3>3. /\ state' = [state EXCEPT ![slot[c]] = "RUNNING"]
          /\ lock' = [lock EXCEPT ![slot[c]] = c]
          /\ proc' = [proc EXCEPT ![c] = slot[c]]
          /\ pc' = [pc EXCEPT ![c] = "switched"]
      BY <2>2 DEF Dispatch
    <3> QED BY <1>1, <3>1, <3>2, <3>3 DEF TypeOK, ProcessPc
  <2>3. CASE SwitchBack(c)
    <3>1. pc[c] = "leaving" /\ proc[c] \in Proc
      BY <2>3, OnProcess DEF SwitchBack, ProcessPc
    <3>2. /\ state' = state
          /\ lock' = [lock EXCEPT ![proc[c]] = NoCpu]
          /\ proc' = [proc EXCEPT ![c] = NoProc]
          /\ pc' = [pc EXCEPT ![c] = "age"]
      BY <2>3 DEF SwitchBack
    <3> QED BY <1>1, <3>1, <3>2 DEF TypeOK, ProcessPc
  <2>4. CASE AgeSlot(c)
    <3>1. UNCHANGED <<state, lock, proc>> /\ pc[c] = "age"
      BY <2>4 DEF AgeSlot
    <3>2. pc' = pc \/ pc' = [pc EXCEPT ![c] = "scan"]
      BY <2>4, Zenon DEF AgeSlot
    <3> QED BY <3>1, <3>2 DEF TypeOK, ProcessPc
  <2> QED BY <1>3, <2>1, <2>2, <2>3, <2>4 DEF SchedulerStep
<1>4. ASSUME NEW c \in CPU, TimerStep(c) PROVE Handover'
  <2>1. CASE ReleaseOwn(c)
    <3>1. pc[c] = "switched" /\ proc[c] \in Proc
      BY <2>1, OnProcess DEF ReleaseOwn, ProcessPc
    <3>2. /\ UNCHANGED <<state, proc>>
          /\ lock' = [lock EXCEPT ![proc[c]] = NoCpu]
          /\ pc' = [pc EXCEPT ![c] = "run"]
      BY <2>1 DEF ReleaseOwn, procVars
    <3> QED BY <1>1, <3>1, <3>2 DEF TypeOK, ProcessPc
  <2>2. CASE Tick(c)
    BY <2>2 DEF Tick, TypeOK, ProcessPc
  <2>3. CASE Yield(c)
    BY <2>3, <1>1, OnProcess DEF Yield, LeaveAs, TypeOK, ProcessPc
  <2> QED BY <1>4, <2>1, <2>2, <2>3 DEF TimerStep
<1>5. ASSUME NEW c \in CPU, ProcessStep(c) PROVE Handover'
  <2>1. CASE KilledBeforeYield(c)
    BY <2>1 DEF KilledBeforeYield, TypeOK, ProcessPc
  <2>2. CASE Sleep(c)
    BY <2>2, <1>1, OnProcess DEF Sleep, LeaveAs, TypeOK, ProcessPc
  <2>3. CASE Exit(c)
    BY <2>3, <1>1, OnProcess DEF Exit, LeaveAs, TypeOK, ProcessPc
  <2>4. ASSUME NEW q \in Proc,
               Wakeup(c, q) \/ KillSleeper(c, q) \/ Fork(c, q) \/ Reap(c, q)
        PROVE Handover'
    <3>1. /\ UNCHANGED <<lock, proc, pc>>
          /\ lock[q] = NoCpu /\ state[q] # "RUNNING"
          /\ \E s \in {"RUNNABLE", "UNUSED"} : state' = [state EXCEPT ![q] = s]
      BY <2>4 DEF Wakeup, KillSleeper, Fork, Reap, cpuVars
    <3>2. \A d \in CPU : pc[d] \in ProcessPc => proc[d] # q
      BY <1>1, <3>1 DEF ProcessPc
    <3> QED BY <3>1, <3>2 DEF TypeOK, ProcessPc
  <2> QED BY <1>5, <2>1, <2>2, <2>3, <2>4 DEF ProcessStep
<1> QED BY <1>2, <1>3, <1>4, <1>5 DEF Next

-----------------------------------------------------------------------------
\* Demotion empties the quantum that a charge exhausts, and nothing else charges.
LEMMA QuantumStep ==
  TypeOK /\ LockHandover /\ WithinQuantum /\ [Next]_vars => WithinQuantum'
<1> SUFFICES ASSUME TypeOK, LockHandover, WithinQuantum, [Next]_vars,
                    NEW p \in Proc
             PROVE  (q_ticks[p] < mlfq_quantum[queue_level[p]])'
  BY DEF WithinQuantum
<1>1. q_ticks[p] < mlfq_quantum[queue_level[p]]
  BY DEF WithinQuantum
<1>2. \A l \in Level : mlfq_quantum[l] \in Nat /\ 0 < mlfq_quantum[l]
  BY LevelsAssumption
<1>3. CASE UNCHANGED <<q_ticks, queue_level>>
  BY <1>1, <1>3
<1>4. ASSUME NEW c \in CPU, SwitchBack(c)
      PROVE  (q_ticks[p] < mlfq_quantum[queue_level[p]])'
  <2>1. proc[c] \in Proc
    BY <1>4, OnProcess DEF SwitchBack, ProcessPc
  <2>2. CASE p = proc[c]
    <3>1. /\ q_ticks'[p] = IF Exhausted(p) THEN 0 ELSE Charged(p)
          /\ queue_level'[p] = Demoted(p)
      BY <1>4, <2>2 DEF SwitchBack, TypeOK
    <3>2. Charged(p) \in Nat /\ Demoted(p) \in Level /\ queue_level[p] \in Level
      BY AccountBounds DEF TypeOK
    <3>3. CASE Exhausted(p)
      BY <1>2, <3>1, <3>2, <3>3
    <3>4. CASE ~Exhausted(p)
      <4>1. Demoted(p) = queue_level[p] /\ ~(Charged(p) >= mlfq_quantum[queue_level[p]])
        BY <3>4 DEF Demoted, Exhausted
      <4>2. Charged(p) < mlfq_quantum[queue_level[p]]
        BY <1>2, <3>2, <4>1
      <4> QED BY <3>1, <3>4, <4>1, <4>2
    <3> QED BY <3>3, <3>4
  <2>3. CASE p # proc[c]
    BY <1>1, <1>4, <2>3 DEF SwitchBack, TypeOK
  <2> QED BY <2>2, <2>3
<1>5. ASSUME NEW c \in CPU, AgeSlot(c)
      PROVE  (q_ticks[p] < mlfq_quantum[queue_level[p]])'
  <2>1. CASE UNCHANGED <<q_ticks, queue_level>>
    BY <1>1, <2>1
  <2>2. CASE /\ Promoted(slot[c])
             /\ queue_level' = [queue_level EXCEPT ![slot[c]] = queue_level[slot[c]] - 1]
             /\ q_ticks'     = [q_ticks EXCEPT ![slot[c]] = 0]
    <3>1. slot[c] \in Proc /\ queue_level[slot[c]] - 1 \in Level
      BY <2>2, AccountBounds DEF TypeOK
    <3> QED BY <1>1, <1>2, <2>2, <3>1 DEF TypeOK
  <2> QED BY <1>5, <2>1, <2>2, Zenon DEF AgeSlot
<1>6. ASSUME NEW c \in CPU, NEW q \in Proc, Wakeup(c, q) \/ Fork(c, q)
      PROVE  (q_ticks[p] < mlfq_quantum[queue_level[p]])'
  <2>1. 0 \in Level /\ queue_level[p] \in Level
    BY LoopBounds, <1>6 DEF TypeOK
  <2>2. q_ticks' = [q_ticks EXCEPT ![q] = 0]
        /\ (queue_level' = queue_level \/ queue_level' = [queue_level EXCEPT ![q] = 0])
    BY <1>6 DEF Wakeup, Fork
  <2> QED BY <1>1, <1>2, <2>1, <2>2 DEF TypeOK
<1>7. ASSUME NEW c \in CPU, SchedulerStep(c) \/ TimerStep(c) \/ ProcessStep(c)
      PROVE  (q_ticks[p] < mlfq_quantum[queue_level[p]])'
  BY <1>3, <1>4, <1>5, <1>6, <1>7
     DEF SchedulerStep, TimerStep, ProcessStep, SkipSlot, Dispatch, ReleaseOwn, Tick,
         Yield, KilledBeforeYield, Sleep, Exit, LeaveAs, KillSleeper, Reap, procVars
<1> QED BY <1>3, <1>7 DEF Next, vars, procVars

\* The tick of a dispatch comes once: after it the process leaves the hart, or
\* exits with interrupts off.
LEMMA TickStep ==
  TypeOK /\ Handover /\ UntickedWhileRunning /\ OneTickPerDispatch /\ [Next]_vars
    => UntickedWhileRunning' /\ OneTickPerDispatch'
<1> SUFFICES ASSUME TypeOK, Handover, UntickedWhileRunning, OneTickPerDispatch, [Next]_vars
             PROVE  UntickedWhileRunning' /\ OneTickPerDispatch'
  OBVIOUS
<1> USE DEF UntickedWhileRunning, OneTickPerDispatch
<1>1. LockHandover /\ OneHartPerProcess
  BY DEF Handover
<1>2. \A c, d \in CPU : pc[c] \in ProcessPc /\ pc[d] \in ProcessPc /\ proc[c] = proc[d]
        => c = d
  BY <1>1, OnProcess DEF OneHartPerProcess, OnCpu
<1>3. CASE UNCHANGED <<used, exiting, proc, pc>>
  BY <1>3
<1>4. ASSUME NEW c \in CPU, SkipSlot(c) \/ AgeSlot(c)
      PROVE  UntickedWhileRunning' /\ OneTickPerDispatch'
  <2>1. UNCHANGED <<used, exiting, proc>>
    BY <1>4 DEF SkipSlot, AgeSlot, procVars
  <2>2. pc' = pc \/ pc' = [pc EXCEPT ![c] = "age"] \/ pc' = [pc EXCEPT ![c] = "scan"]
    BY <1>4, Zenon DEF SkipSlot, AgeSlot
  <2> QED BY <2>1, <2>2 DEF TypeOK
<1>5. ASSUME NEW c \in CPU, Dispatch(c)
      PROVE  UntickedWhileRunning' /\ OneTickPerDispatch'
  <2>1. slot[c] \in Proc /\ used' = [used EXCEPT ![slot[c]] = 0] /\ exiting' = exiting
        /\ proc' = [proc EXCEPT ![c] = slot[c]] /\ pc' = [pc EXCEPT ![c] = "switched"]
    BY <1>5 DEF Dispatch, TypeOK
  <2> QED BY <2>1 DEF TypeOK
<1>6. ASSUME NEW c \in CPU, SwitchBack(c)
      PROVE  UntickedWhileRunning' /\ OneTickPerDispatch'
  <2>1. proc[c] \in Proc /\ used' = [used EXCEPT ![proc[c]] = 0] /\ exiting' = exiting
        /\ proc' = [proc EXCEPT ![c] = NoProc] /\ pc' = [pc EXCEPT ![c] = "age"]
    BY <1>1, <1>6, OnProcess DEF SwitchBack, ProcessPc
  <2> QED BY <2>1 DEF TypeOK
<1>7. ASSUME NEW c \in CPU, ReleaseOwn(c)
      PROVE  UntickedWhileRunning' /\ OneTickPerDispatch'
  BY <1>7 DEF ReleaseOwn, procVars, TypeOK
<1>8. ASSUME NEW c \in CPU, Tick(c)
      PROVE  UntickedWhileRunning' /\ OneTickPerDispatch'
  <2>1. proc[c] \in Proc /\ pc[c] = "run" /\ used[proc[c]] = 0
    BY <1>1, <1>8, OnProcess DEF Tick, ProcessPc
  <2>2. used' = [used EXCEPT ![proc[c]] = 1] /\ UNCHANGED <<exiting, proc>>
        /\ pc' = [pc EXCEPT ![c] = "ticked"]
    BY <1>8, <2>1 DEF Tick
  <2> QED BY <1>2, <2>1, <2>2 DEF TypeOK, ProcessPc
<1>9. ASSUME NEW c \in CPU, Yield(c) \/ Sleep(c) \/ Exit(c)
      PROVE  UntickedWhileRunning' /\ OneTickPerDispatch'
  <2>1. UNCHANGED <<used, proc>> /\ pc' = [pc EXCEPT ![c] = "leaving"]
    BY <1>9 DEF Yield, Sleep, Exit, LeaveAs
  <2>2. pc[c] \in ProcessPc
    BY <1>9 DEF Yield, Sleep, Exit, ProcessPc
  <2>3. exiting' = exiting \/ exiting' = exiting \ {proc[c]}
    BY <1>9 DEF Yield, Sleep, Exit
  <2> QED BY <1>2, <2>1, <2>2, <2>3 DEF TypeOK, ProcessPc
<1>10. ASSUME NEW c \in CPU, KilledBeforeYield(c)
       PROVE  UntickedWhileRunning' /\ OneTickPerDispatch'
  BY <1>10 DEF KilledBeforeYield, TypeOK
<1>11. ASSUME NEW c \in CPU, NEW q \in Proc,
              Wakeup(c, q) \/ KillSleeper(c, q) \/ Fork(c, q) \/ Reap(c, q)
       PROVE  UntickedWhileRunning' /\ OneTickPerDispatch'
  BY <1>3, <1>11 DEF Wakeup, KillSleeper, Fork, Reap, cpuVars
<1> QED BY <1>3, <1>4, <1>5, <1>6, <1>7, <1>8, <1>9, <1>10, <1>11
        DEF Next, SchedulerStep, TimerStep, ProcessStep, vars, procVars, cpuVars

-----------------------------------------------------------------------------
\* The table of a booted machine satisfies the inductive invariant.
LEMMA InitInv == Init => MlfqInv
<1> SUFFICES ASSUME Init PROVE MlfqInv
  OBVIOUS
<1>1. 0 \in Proc /\ 0 \in Level /\ 0 \in 0 .. AGING_THRESHOLD
  BY TableAssumption, LevelsAssumption DEF Proc, Level
<1>2. TypeOK
  BY <1>1 DEF Init, TypeOK, ProcState, PcLabel
<1>3. Handover
  BY TableAssumption DEF Init, Handover, LockHandover, OneHartPerProcess,
                         RunningIsOnHart, OnCpu, ProcessPc
<1>4. WithinQuantum
  BY <1>1, LevelsAssumption DEF Init, WithinQuantum
<1>5. UntickedWhileRunning /\ OneTickPerDispatch
  BY DEF Init, UntickedWhileRunning, OneTickPerDispatch
<1> QED BY <1>2, <1>3, <1>4, <1>5 DEF MlfqInv

LEMMA InvStep == MlfqInv /\ [Next]_vars => MlfqInv'
BY TypeStep, HandoverStep, QuantumStep, TickStep DEF MlfqInv, Handover

\* The inductive invariant holds in every reachable state.
LEMMA Invariance == Spec => []MlfqInv
BY InitInv, InvStep, PTL DEF Spec

\* Every field keeps its type (proc.h: struct proc, struct cpu).
THEOREM TypeCorrect == Spec => []TypeOK
BY Invariance, PTL DEF MlfqInv

\* p->lock crosses swtch() in the right hands (proc.c: scheduler, sched).
THEOREM HandoverCorrect == Spec => []LockHandover
BY Invariance, PTL DEF MlfqInv, Handover

\* No two harts execute one process (proc.c: scheduler, yield).
THEOREM OneHart == Spec => []OneHartPerProcess
BY Invariance, PTL DEF MlfqInv, Handover

\* RUNNING is true to what the harts do, whenever p->lock is free (proc.c: sched).
THEOREM RunningCorrect == Spec => []RunningIffOnHart
<1>1. MlfqInv => RunningIffOnHart
  BY TableAssumption DEF MlfqInv, Handover, LockHandover, RunningIsOnHart, RunningIffOnHart,
         OnCpu, ProcessPc
<1> QED BY <1>1, Invariance, PTL

\* No level charges a process for more than its quantum (proc.c: scheduler).
THEOREM QuantumRespected == Spec => []WithinQuantum
BY Invariance, PTL DEF MlfqInv

\* One dispatch is charged at most one tick (trap.c: usertrap, kerneltrap).
THEOREM OneTick == Spec => []OneTickPerDispatch
BY Invariance, PTL DEF MlfqInv

-----------------------------------------------------------------------------
(* The scan, with the history variables *)

\* The scan of hart c has been past the place q is in now.
Passed(c, q) ==
  \/ queue_level[q] < scan_level[c]
  \/ queue_level[q] = scan_level[c] /\ q < slot[c]

ScanInv ==
  /\ fresh \in [CPU -> SUBSET Proc]
  /\ \A c \in CPU :
       /\ pc[c] = "age" => scan_level[c] = 0
       /\ pc[c] = "scan" =>
            \A q \in Proc : state[q] = "RUNNABLE" /\ Passed(c, q) => q \in fresh[c]

HInv == MlfqInv /\ ScanInv

-----------------------------------------------------------------------------
\* The ways a hart's place in the table may change.
Stays(d)  == /\ pc'[d] = pc[d] /\ scan_level'[d] = scan_level[d]
             /\ pc[d] = "scan" => slot'[d] = slot[d]
Begins(d) == pc[d] = "age" /\ pc'[d] = "scan" /\ scan_level'[d] = scan_level[d] /\ slot'[d] = 0
Leaves(d) == /\ pc[d] # "age" /\ pc'[d] \notin {"scan", "age"}
             /\ scan_level'[d] = scan_level[d]
Returns(d) == pc[d] # "age" /\ pc'[d] = "age" /\ scan_level'[d] = 0

\* Every step moves a hart in one of them, or passes over a slot.
LEMMA ScanMoves ==
  ASSUME TypeOK, [Next]_vars
  PROVE  \A d \in CPU : SkipSlot(d) \/ Stays(d) \/ Begins(d) \/ Leaves(d) \/ Returns(d)
<1> USE DEF Stays, Begins, Leaves, Returns
<1>1. CASE UNCHANGED vars
  BY <1>1 DEF vars, cpuVars
<1>2. ASSUME NEW c \in CPU, SchedulerStep(c) \/ TimerStep(c) \/ ProcessStep(c),
             NEW d \in CPU
      PROVE  SkipSlot(d) \/ Stays(d) \/ Begins(d) \/ Leaves(d) \/ Returns(d)
  <2>1. CASE SkipSlot(c)
    <3>1. CASE d = c
      BY <2>1, <3>1
    <3>2. CASE d # c
      <4>1. /\ pc' = pc \/ pc' = [pc EXCEPT ![c] = "age"]
            /\ \/ scan_level' = scan_level
               \/ scan_level' = [scan_level EXCEPT ![c] = 0]
               \/ scan_level' = [scan_level EXCEPT ![c] = scan_level[c] + 1]
            /\ slot' = [slot EXCEPT ![c] = 0] \/ slot' = [slot EXCEPT ![c] = slot[c] + 1]
        BY <2>1, Zenon DEF SkipSlot
      <4> QED BY <3>2, <4>1 DEF TypeOK
    <3> QED BY <3>1, <3>2
  <2>2. CASE Dispatch(c)
    BY <2>2 DEF Dispatch, TypeOK
  <2>3. CASE SwitchBack(c)
    BY <2>3 DEF SwitchBack, TypeOK
  <2>4. CASE AgeSlot(c)
    <3>1. /\ pc[c] = "age" /\ scan_level' = scan_level
          /\ \/ slot' = [slot EXCEPT ![c] = slot[c] + 1] /\ pc' = pc
             \/ slot' = [slot EXCEPT ![c] = 0] /\ pc' = [pc EXCEPT ![c] = "scan"]
      BY <2>4, Zenon DEF AgeSlot
    <3> QED BY <3>1 DEF TypeOK
  <2>5. CASE TimerStep(c)
    BY <2>5 DEF TimerStep, ReleaseOwn, Tick, Yield, LeaveAs, TypeOK
  <2>6. CASE ProcessStep(c)
    <3>1. CASE KilledBeforeYield(c) \/ Sleep(c) \/ Exit(c)
      BY <3>1 DEF KilledBeforeYield, Sleep, Exit, LeaveAs, TypeOK
    <3>2. ASSUME NEW q \in Proc,
                 Wakeup(c, q) \/ KillSleeper(c, q) \/ Fork(c, q) \/ Reap(c, q)
          PROVE  Stays(d)
      BY <3>2 DEF Wakeup, KillSleeper, Fork, Reap, cpuVars
    <3> QED BY <2>6, <3>1, <3>2 DEF ProcessStep
  <2> QED BY <1>2, <2>1, <2>2, <2>3, <2>4, <2>5, <2>6 DEF SchedulerStep
<1> QED BY <1>1, <1>2 DEF Next

\* A slot that is not eligible where the scan stands is not passed over by the
\* move to the next place.
LEMMA SkipPasses ==
  ASSUME TypeOK, NEW c \in CPU, SkipSlot(c), pc'[c] = "scan", NEW q \in Proc,
         state[q] = "RUNNABLE", Passed(c, q)'
  PROVE  Passed(c, q)
<1>1. /\ queue_level' = queue_level /\ queue_level[q] \in Nat
      /\ scan_level[c] \in Nat /\ slot[c] \in Nat /\ q \in Nat /\ NPROC \in Nat \ {0}
      /\ slot[c] <= NPROC - 1 /\ q <= NPROC - 1
  BY TableAssumption, LevelsAssumption DEF SkipSlot, procVars, TypeOK, Level, Proc
<1>2. ~(q = slot[c] /\ queue_level[q] = scan_level[c])
  BY DEF SkipSlot, Eligible
<1>3. CASE slot[c] < NPROC - 1
  <2>1. slot'[c] = slot[c] + 1 /\ scan_level'[c] = scan_level[c]
    BY <1>3 DEF SkipSlot, TypeOK
  <2> QED BY <1>1, <1>2, <2>1 DEF Passed
<1>4. CASE ~(slot[c] < NPROC - 1)
  <2>1. slot'[c] = 0
    BY <1>4 DEF SkipSlot, TypeOK
  <2>2. scan_level'[c] = scan_level[c] + 1
    BY <1>4, Zenon DEF SkipSlot, TypeOK
  <2> QED BY <1>1, <1>2, <1>4, <2>1, <2>2 DEF Passed
<1> QED BY <1>3, <1>4

-----------------------------------------------------------------------------
\* The history variables only watch: every step is a step of Mlfq.
LEMMA HistoryObserves == [HNext]_hvars => [Next]_vars
BY DEF HNext, HStep, IdleTick, Next, TimerStep, hvars

\* Who was not raised was eligible before, at the same priority or a higher one.
LEMMA NotRaised ==
  ASSUME TypeOK, TypeOK', NEW q \in Proc, state'[q] = "RUNNABLE", q \notin Raised
  PROVE  state[q] = "RUNNABLE" /\ queue_level[q] <= queue_level'[q]
<1>1. queue_level[q] \in Int /\ queue_level'[q] \in Int
  BY LevelsAssumption DEF TypeOK, Level
<1> QED BY <1>1 DEF Raised

\* A hart that does not move keeps what it passed.
LEMMA StaysPassed ==
  ASSUME TypeOK, TypeOK', NEW d \in CPU, NEW q \in Proc, pc[d] = "scan", Stays(d),
         queue_level[q] <= queue_level'[q], Passed(d, q)'
  PROVE  Passed(d, q)
<1>1. /\ queue_level[q] \in Int /\ queue_level'[q] \in Int
      /\ scan_level[d] \in Int /\ slot[d] \in Int /\ q \in Int
  BY TableAssumption, LevelsAssumption DEF TypeOK, Level, Proc
<1> QED BY <1>1 DEF Stays, Passed

LEMMA ScanStep == TypeOK /\ TypeOK' /\ ScanInv /\ [HNext]_hvars => ScanInv'
<1> SUFFICES ASSUME TypeOK, TypeOK', ScanInv, [HNext]_hvars PROVE ScanInv'
  OBVIOUS
<1>1. CASE UNCHANGED <<vars, fresh>>
  BY <1>1 DEF vars, procVars, cpuVars, ScanInv, Passed
<1>2. CASE Observe /\ [Next]_vars
  <2>1. fresh' \in [CPU -> SUBSET Proc]
    BY <1>2 DEF Observe, Raised, ScanInv
  <2>2. ASSUME NEW d \in CPU, pc'[d] = "age" PROVE scan_level'[d] = 0
    <3>1. CASE SkipSlot(d)
      BY <2>2, <3>1, Zenon DEF SkipSlot, TypeOK, ScanInv
    <3>2. CASE ~SkipSlot(d)
      BY <1>2, <2>2, <3>2, ScanMoves DEF Stays, Begins, Leaves, Returns, ScanInv
    <3> QED BY <3>1, <3>2
  <2>3. ASSUME NEW d \in CPU, pc'[d] = "scan", NEW q \in Proc,
               state'[q] = "RUNNABLE", Passed(d, q)'
        PROVE  q \in fresh'[d]
    <3>1. CASE Begins(d)
      <4>1. scan_level'[d] = 0 /\ slot'[d] = 0
        BY <3>1 DEF Begins, ScanInv
      <4>2. queue_level'[q] \in Nat /\ q \in Nat
        <5>1. queue_level'[q] \in Level
          BY DEF TypeOK
        <5> QED BY <5>1, TableAssumption, LevelsAssumption DEF Level, Proc
      <4>3. ~(queue_level'[q] < 0) /\ ~(q < 0)
        BY <4>2
      <4>4. ~Passed(d, q)'
        BY <4>1, <4>3 DEF Passed
      <4> QED BY <2>3, <4>4
    <3>2. CASE ~Begins(d)
      <4>1. (SkipSlot(d) \/ Stays(d)) /\ pc[d] = "scan"
        <5>1. SkipSlot(d) => pc[d] = "scan"
          BY DEF SkipSlot
        <5> QED BY <1>2, <2>3, <3>2, <5>1, ScanMoves DEF Stays, Leaves, Returns
      <4>2. fresh'[d] = fresh[d] \union Raised
        BY <1>2, <4>1 DEF Observe, ScanBegins
      <4>3. CASE q \in Raised
        BY <4>2, <4>3
      <4>4. CASE q \notin Raised
        <5>1. state[q] = "RUNNABLE" /\ queue_level[q] <= queue_level'[q]
          BY <2>3, <4>4, NotRaised
        <5>2. Passed(d, q)
          <6>1. CASE SkipSlot(d)
            BY <2>3, <5>1, <6>1, SkipPasses
          <6>2. CASE Stays(d)
            BY <2>3, <4>1, <5>1, <6>2, StaysPassed
          <6> QED BY <4>1, <6>1, <6>2
        <5> QED BY <4>1, <4>2, <5>1, <5>2 DEF ScanInv
      <4> QED BY <4>3, <4>4
    <3> QED BY <3>1, <3>2
  <2> QED BY <2>1, <2>2, <2>3 DEF ScanInv
<1>3. CASE HNext
  BY <1>1, <1>2, <1>3, HistoryObserves DEF HNext, HStep, IdleTick
<1> QED BY <1>1, <1>3 DEF hvars

LEMMA HInvariance == HSpec => []HInv
<1>1. HInit => HInv
  <2> SUFFICES ASSUME HInit PROVE HInv
    OBVIOUS
  <2>1. MlfqInv
    BY InitInv DEF HInit
  <2>2. ScanInv
    <3>1. \A c \in CPU : pc[c] = "scan" /\ scan_level[c] = 0 /\ slot[c] = 0
      BY DEF HInit, Init
    <3>2. \A q \in Proc : queue_level[q] = 0 /\ q \in Nat
      BY TableAssumption DEF HInit, Init, Proc
    <3>3. fresh \in [CPU -> SUBSET Proc]
      BY DEF HInit
    <3> QED BY <3>1, <3>2, <3>3 DEF ScanInv, Passed
  <2> QED BY <2>1, <2>2 DEF HInv
<1>2. HInv /\ [HNext]_hvars => HInv'
  <2>1. HInv /\ [HNext]_hvars => MlfqInv'
    BY HistoryObserves, InvStep DEF HInv
  <2> QED BY <2>1, ScanStep DEF HInv, MlfqInv
<1> QED BY <1>1, <1>2, PTL DEF HSpec

\* A hart passes over only what became RUNNABLE, or was promoted, after its scan
\* began (proc.c: scheduler).
THEOREM PriorityRespected == HSpec => PassesOverOnlyFresh
<1> DEFINE Fair == \A c \in CPU : \A q \in Proc :
      Dispatch(c) /\ state[q] = "RUNNABLE" /\ Before(q, slot[c]) => q \in fresh[c]
<1>1. HInv => Fair
  <2> SUFFICES ASSUME HInv, NEW c \in CPU, NEW q \in Proc, Dispatch(c),
                      state[q] = "RUNNABLE", Before(q, slot[c])
               PROVE  q \in fresh[c]
    OBVIOUS
  <2>1. pc[c] = "scan" /\ queue_level[slot[c]] = scan_level[c]
    BY DEF Dispatch, Eligible
  <2>2. Passed(c, q)
    BY <2>1 DEF Before, Passed
  <2> QED BY <2>1, <2>2 DEF HInv, ScanInv
<1>2. HInv /\ [HNext]_hvars => [Fair]_hvars
  BY <1>1
<1> QED BY <1>2, HInvariance, PTL DEF HSpec, PassesOverOnlyFresh
=============================================================================
