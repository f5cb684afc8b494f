------------------------------- MODULE Clock --------------------------------
(***************************************************************************)
(* Spin locks and interrupt nesting (kernel/spinlock.c), the timer         *)
(* interrupt (kernel/trap.c), sched(), yield() and sleep() (kernel/proc.c) *)
(* and the system call pause() (kernel/sysproc.c): threads that wait for   *)
(* ticks, preempted at any point where interrupts are on and resumed on    *)
(* any hart.                                                               *)
(*                                                                         *)
(* Abstractions.  push_off() is a step and so is winning a lock; what a    *)
(* hart does under a lock until it gives it up or wants another is one     *)
(* step.  The locks that scheduler() and wakeup() take and give back       *)
(* around a single test are not shown when the test fails.  The choice of  *)
(* the next thread is that of module Mlfq: here it is any runnable one.  A *)
(* thread that was killed leaves its call and is replaced by a new one.    *)
(***************************************************************************)
EXTENDS Integers

CONSTANTS
  Hart, hart0, NoHart,   \* the harts, and the one that counts ticks
  NTHREAD,
  UINT,                  \* ticks is a uint: it counts modulo UINT
  Pauses                 \* the numbers of ticks that pause() is asked for

ASSUME ClockAssumption ==
  /\ hart0 \in Hart /\ NoHart \notin Hart
  /\ NTHREAD \in Nat /\ UINT \in Nat /\ Pauses \subseteq 0 .. UINT - 2

Thread   == 1 .. NTHREAD
NoThread == 0

VARIABLES
  proc, sie, noff, intena,   \* each hart: c->proc, the interrupt enable bit, c->noff, c->intena
  spin,      \* the hart has done the push_off() of an acquire() and not won the lock
  trap,      \* where the hart is in its timer interrupt, "none" outside
  wakes,     \* the first thread wakeup(&ticks) has yet to visit, by hart
  swtched,   \* the thread whose lock scheduler() must release, by hart
  state,     \* p->state
  at,        \* where the thread is in pause(), "user" outside, "forkret" before
  yielded,   \* the thread was switched out inside a timer interrupt
  saved,     \* the local variable intena of sched()
  tickslock, plock,
  ticks, ticks0, n, killed

hartVars   == <<proc, sie, noff, intena, spin, trap, wakes, swtched>>
threadVars == <<state, at, yielded, saved, ticks0, n, killed>>
lockVars   == <<tickslock, plock>>
clockVars  == <<hartVars, threadVars, lockVars, ticks>>

ClockInit ==
  /\ proc = [h \in Hart |-> NoThread] /\ sie = [h \in Hart |-> TRUE]
  /\ noff = [h \in Hart |-> 0] /\ intena = [h \in Hart |-> FALSE]
  /\ spin = [h \in Hart |-> FALSE] /\ trap = [h \in Hart |-> "none"]
  /\ wakes = [h \in Hart |-> 0] /\ swtched = [h \in Hart |-> NoThread]
  /\ state = [t \in Thread |-> "RUNNABLE"] /\ at = [t \in Thread |-> "forkret"]
  /\ yielded = [t \in Thread |-> FALSE] /\ saved = [t \in Thread |-> TRUE]
  /\ tickslock = NoHart /\ plock = [t \in Thread |-> NoHart]
  /\ ticks = 0 /\ ticks0 = [t \in Thread |-> 0] /\ n = [t \in Thread |-> 0]
  /\ killed = [t \in Thread |-> FALSE]

-----------------------------------------------------------------------------
(* spinlock.c *)

\* push_off(), which comes first in acquire().
PushOff(h) ==
  /\ ~spin[h]
  /\ spin'   = [spin EXCEPT ![h] = TRUE]
  /\ intena' = [intena EXCEPT ![h] = IF noff[h] = 0 THEN sie[h] ELSE @]
  /\ noff'   = [noff EXCEPT ![h] = @ + 1]
  /\ sie'    = [sie EXCEPT ![h] = FALSE]
  /\ UNCHANGED <<proc, trap, wakes, swtched, threadVars, lockVars, ticks>>

\* The swap in acquire() that finds the lock free.
WinTicks(h) ==
  /\ spin[h] /\ spin' = [spin EXCEPT ![h] = FALSE]
  /\ tickslock = NoHart /\ tickslock' = h
WinProc(h, t) ==
  /\ spin[h] /\ spin' = [spin EXCEPT ![h] = FALSE]
  /\ plock[t] = NoHart /\ plock' = [plock EXCEPT ![t] = h]

PopOff(h) ==
  /\ noff' = [noff EXCEPT ![h] = @ - 1]
  /\ sie'  = [sie EXCEPT ![h] = IF noff[h] = 1 /\ intena[h] THEN TRUE ELSE @]

-----------------------------------------------------------------------------
(* sched() and the scheduler *)

RestoredOfHart(h, t) == TRUE        \* what push_off() in scheduler() has left there
Restored(h, t)       == saved[t]

\* scheduler() finds t runnable, and swtch() returns in the sched() of t.
Dispatch(h, t) ==
  /\ proc[h] = NoThread /\ trap[h] = "none" /\ swtched[h] = NoThread
  /\ state[t] = "RUNNABLE" /\ plock[t] = NoHart
  /\ plock'  = [plock EXCEPT ![t] = h]
  /\ state'  = [state EXCEPT ![t] = "RUNNING"]
  /\ proc'   = [proc EXCEPT ![h] = t]
  /\ noff'   = [noff EXCEPT ![h] = 1] /\ sie' = [sie EXCEPT ![h] = FALSE]
  /\ intena' = [intena EXCEPT ![h] = Restored(h, t)]
  /\ trap'   = [trap EXCEPT ![h] = IF yielded[t] THEN "resume" ELSE "none"]
  /\ UNCHANGED <<spin, wakes, swtched, at, yielded, saved, ticks0, n, killed, tickslock, ticks>>

\* sched(): the hart goes to its scheduler, which is to release the lock of t.
Switch(h, t) ==
  /\ saved'   = [saved EXCEPT ![t] = intena[h]]
  /\ proc'    = [proc EXCEPT ![h] = NoThread]
  /\ swtched' = [swtched EXCEPT ![h] = t]

\* scheduler() releases it and begins its next round, which turns interrupts on.
BackInScheduler(h) ==
  /\ swtched[h] # NoThread
  /\ plock'   = [plock EXCEPT ![swtched[h]] = NoHart]
  /\ swtched' = [swtched EXCEPT ![h] = NoThread]
  /\ noff'    = [noff EXCEPT ![h] = @ - 1]
  /\ sie'     = [sie EXCEPT ![h] = TRUE]
  /\ UNCHANGED <<proc, intena, spin, trap, wakes, threadVars, tickslock, ticks>>

-----------------------------------------------------------------------------
(* The timer interrupt: kerneltrap() or usertrap(), devintr(), clockintr() *)

Elapsed(t) == (ticks - ticks0[t]) % UINT

\* Every hart may be interrupted when its interrupts are on.  Bound: a thread that
\* pauses runs again before the counter has gone round once (13 years).
Timer(h) ==
  /\ sie[h] /\ trap[h] = "none"
  /\ h = hart0 => \A t \in Thread : at[t] \notin {"forkret", "user", "pause"} => Elapsed(t) < UINT - 1
  /\ sie'  = [sie EXCEPT ![h] = FALSE]
  /\ trap' = [trap EXCEPT ![h] = IF h = hart0 THEN "clock" ELSE "yield"]
  /\ UNCHANGED <<proc, noff, intena, spin, wakes, swtched, threadVars, lockVars, ticks>>

ClockLock(h) == trap[h] = "clock" /\ PushOff(h)

Tick(h) ==
  /\ trap[h] = "clock" /\ WinTicks(h)
  /\ ticks' = (ticks + 1) % UINT
  /\ wakes' = [wakes EXCEPT ![h] = 1]
  /\ trap'  = [trap EXCEPT ![h] = "wakeup"]
  /\ UNCHANGED <<proc, sie, noff, intena, swtched, threadVars, plock>>

\* wakeup(&ticks) visits the next thread, but not its own.
WakeNext(h) ==
  LET t == wakes[h] IN
  /\ trap[h] = "wakeup" /\ t \in Thread
  /\ t # proc[h] => plock[t] = NoHart
  /\ state' = [state EXCEPT ![t] = IF t # proc[h] /\ @ = "SLEEPING" THEN "RUNNABLE" ELSE @]
  /\ wakes' = [wakes EXCEPT ![h] = t + 1]
  /\ UNCHANGED <<proc, sie, noff, intena, spin, trap, swtched, at, yielded, saved, ticks0, n,
                 killed, lockVars, ticks>>

TickDone(h) ==
  /\ trap[h] = "wakeup" /\ wakes[h] \notin Thread
  /\ tickslock' = NoHart /\ PopOff(h)
  /\ wakes' = [wakes EXCEPT ![h] = 0]
  /\ trap'  = [trap EXCEPT ![h] = "yield"]
  /\ UNCHANGED <<proc, intena, spin, swtched, threadVars, plock, ticks>>

YieldLock(h) == trap[h] = "yield" /\ proc[h] # NoThread /\ PushOff(h)

Yield(h) ==
  LET t == proc[h] IN
  /\ trap[h] = "yield" /\ t # NoThread
  /\ WinProc(h, t)
  /\ state'   = [state EXCEPT ![t] = "RUNNABLE"]
  /\ yielded' = [yielded EXCEPT ![t] = TRUE]
  /\ trap'    = [trap EXCEPT ![h] = "none"]
  /\ Switch(h, t)
  /\ UNCHANGED <<sie, noff, intena, wakes, at, ticks0, n, killed, tickslock, ticks>>

\* Back in yield(), on any hart: release p->lock and return from the interrupt.
YieldResumes(h) ==
  LET t == proc[h] IN
  /\ trap[h] = "resume" /\ t # NoThread
  /\ plock'   = [plock EXCEPT ![t] = NoHart] /\ PopOff(h)
  /\ yielded' = [yielded EXCEPT ![t] = FALSE]
  /\ trap'    = [trap EXCEPT ![h] = "return"]
  /\ UNCHANGED <<proc, intena, spin, wakes, swtched, state, at, saved, ticks0, n, killed, tickslock, ticks>>

TrapReturn(h) ==
  /\ trap[h] = "return" \/ (trap[h] = "yield" /\ proc[h] = NoThread)
  /\ trap' = [trap EXCEPT ![h] = "none"]
  /\ sie'  = [sie EXCEPT ![h] = TRUE]
  /\ UNCHANGED <<proc, noff, intena, spin, wakes, swtched, threadVars, lockVars, ticks>>

-----------------------------------------------------------------------------
(* sys_pause() and sleep() *)

Runs(h, t, label) == proc[h] = t /\ trap[h] = "none" /\ at[t] = label
MoveTo(t, label)  == at' = [at EXCEPT ![t] = label]

\* A new thread's first dispatch ends in forkret(), which releases its lock.
ForkRet(h, t) ==
  /\ Runs(h, t, "forkret")
  /\ plock' = [plock EXCEPT ![t] = NoHart] /\ PopOff(h)
  /\ MoveTo(t, "user")
  /\ UNCHANGED <<proc, intena, spin, trap, wakes, swtched, state, yielded, saved, ticks0, n, killed, tickslock, ticks>>

Call(h, t) ==
  /\ Runs(h, t, "user")
  /\ \E i \in Pauses : n' = [n EXCEPT ![t] = i]
  /\ MoveTo(t, "pause")
  /\ UNCHANGED <<hartVars, state, yielded, saved, ticks0, killed, lockVars, ticks>>

PauseLock(h, t) ==
  /\ \E label \in {"pause", "relock"} : Runs(h, t, label)
  /\ PushOff(h)

Pause(h, t) ==
  /\ Runs(h, t, "pause") /\ WinTicks(h)
  /\ ticks0' = [ticks0 EXCEPT ![t] = ticks]
  /\ MoveTo(t, "test")
  /\ UNCHANGED <<proc, sie, noff, intena, trap, wakes, swtched, state, yielded, saved, n, killed, plock, ticks>>

Relock(h, t) ==
  /\ Runs(h, t, "relock") /\ WinTicks(h)
  /\ MoveTo(t, "test")
  /\ UNCHANGED <<proc, sie, noff, intena, trap, wakes, swtched, state, yielded, saved, ticks0, n, killed, plock, ticks>>

ElapsedUnwrapped(t) == IF ticks < ticks0[t] THEN 0 ELSE ticks - ticks0[t]
Waited(t)           == Elapsed(t)

\* The condition of the loop; a killed thread leaves it, too.
PauseEnds(h, t) ==
  /\ Runs(h, t, "test")
  /\ Waited(t) >= n[t] \/ killed[t]
  /\ tickslock' = NoHart /\ PopOff(h)
  /\ killed' = [killed EXCEPT ![t] = FALSE]
  /\ n' = [n EXCEPT ![t] = 0] /\ ticks0' = [ticks0 EXCEPT ![t] = 0]
  /\ MoveTo(t, "user")
  /\ UNCHANGED <<proc, intena, spin, trap, wakes, swtched, state, yielded, saved, plock, ticks>>

PauseGoesOn(h, t) ==
  /\ Runs(h, t, "test")
  /\ Waited(t) < n[t] /\ ~killed[t]
  /\ MoveTo(t, "sleep")
  /\ UNCHANGED <<hartVars, state, yielded, saved, ticks0, n, killed, lockVars, ticks>>

SleepLock(h, t) == Runs(h, t, "sleep") /\ PushOff(h)

\* sleep() has p->lock: give tickslock up, and sched().
Sleep(h, t) ==
  /\ Runs(h, t, "sleep") /\ WinProc(h, t)
  /\ tickslock' = NoHart
  /\ noff'  = [noff EXCEPT ![h] = @ - 1]
  /\ state' = [state EXCEPT ![t] = "SLEEPING"]
  /\ MoveTo(t, "woken")
  /\ Switch(h, t)
  /\ UNCHANGED <<sie, intena, trap, wakes, yielded, ticks0, n, killed, ticks>>

\* sched() has returned: sleep() releases p->lock and goes for tickslock.
Woken(h, t) ==
  /\ Runs(h, t, "woken")
  /\ plock' = [plock EXCEPT ![t] = NoHart] /\ PopOff(h)
  /\ MoveTo(t, "relock")
  /\ UNCHANGED <<proc, intena, spin, trap, wakes, swtched, state, yielded, saved, ticks0, n, killed, tickslock, ticks>>

\* kkill() by another process.
KillPausing(t) ==
  /\ at[t] \notin {"forkret", "user"} /\ plock[t] = NoHart /\ ~killed[t]
  /\ killed' = [killed EXCEPT ![t] = TRUE]
  /\ state'  = [state EXCEPT ![t] = IF @ = "SLEEPING" THEN "RUNNABLE" ELSE @]
  /\ UNCHANGED <<hartVars, at, yielded, saved, ticks0, n, lockVars, ticks>>

-----------------------------------------------------------------------------
TimerInterrupt(h) == \/ Timer(h) \/ ClockLock(h) \/ Tick(h) \/ WakeNext(h) \/ TickDone(h)
                     \/ YieldLock(h) \/ Yield(h) \/ YieldResumes(h) \/ TrapReturn(h)
PauseCall(h, t) == \/ Call(h, t) \/ PauseLock(h, t) \/ Pause(h, t) \/ Relock(h, t)
                   \/ PauseEnds(h, t) \/ PauseGoesOn(h, t) \/ SleepLock(h, t) \/ Sleep(h, t)
Scheduling(h, t) == Dispatch(h, t) \/ ForkRet(h, t) \/ Woken(h, t)

ClockNext ==
  \/ \E h \in Hart : TimerInterrupt(h) \/ BackInScheduler(h)
  \/ \E h \in Hart, t \in Thread : PauseCall(h, t) \/ Scheduling(h, t)
  \/ \E t \in Thread : KillPausing(t)

ClockSpec == ClockInit /\ [][ClockNext]_clockVars

-----------------------------------------------------------------------------
HeldBy(h) == {t \in Thread : plock[t] = h} \union (IF tickslock = h THEN {0} ELSE {})

\* Whatever a thread does and wherever it is resumed, a hart takes interrupts exactly
\* when it neither holds nor wants a lock nor serves an interrupt; it never waits for a
\* lock it holds itself, and holds one lock at most besides the one it wants: acquire(),
\* sched() and pop_off() do not panic (spinlock.c: push_off, pop_off; proc.c: sched).
InterruptsMatchNesting ==
  \A h \in Hart :
    /\ sie[h] = (HeldBy(h) = {} /\ ~spin[h] /\ trap[h] = "none")
    /\ noff[h] = (IF HeldBy(h) = {} THEN 0 ELSE 1) + (IF spin[h] THEN 1 ELSE 0)
    /\ \A x, y \in HeldBy(h) : x = y
    /\ spin[h] /\ trap[h] = "clock" => tickslock # h
    /\ spin[h] /\ proc[h] # NoThread =>
         /\ trap[h] = "none" /\ at[proc[h]] \in {"pause", "relock"} => tickslock # h
         /\ trap[h] = "yield" \/ at[proc[h]] = "sleep" => plock[proc[h]] # h

\* Nobody sleeps in pause() whose ticks have passed, also across the wrap of the
\* counter, unless the clock interrupt is about to wake it (sysproc.c: sys_pause;
\* trap.c: clockintr; proc.c: sleep, wakeup).
PausersNotDue ==
  \A t \in Thread : state[t] = "SLEEPING" =>
    \/ (ticks - ticks0[t]) % UINT < n[t]
    \/ trap[hart0] = "wakeup" /\ wakes[hart0] <= t
=============================================================================
