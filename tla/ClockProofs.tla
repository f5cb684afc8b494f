---------------------------- MODULE ClockProofs -----------------------------
(***************************************************************************)
(* Interrupts nest as locks do, for any number of harts and threads.       *)
(***************************************************************************)
EXTENDS Clock, TLAPS

Interruptible == {"user", "pause", "relock"}   \* where a thread has its interrupts on
Resuming      == {"woken", "forkret"}          \* where its hart holds p->lock for it

HartTypes ==
  /\ proc \in [Hart -> Thread \union {NoThread}] /\ swtched \in [Hart -> Thread \union {NoThread}]
  /\ noff \in [Hart -> Int] /\ wakes \in [Hart -> Int]
  /\ trap \in [Hart -> {"none", "clock", "wakeup", "yield", "resume", "return"}]

HartFlags ==
  sie \in [Hart -> BOOLEAN] /\ intena \in [Hart -> BOOLEAN] /\ spin \in [Hart -> BOOLEAN]

ThreadTypes ==
  /\ state \in [Thread -> {"RUNNABLE", "RUNNING", "SLEEPING"}]
  /\ at \in [Thread -> Interruptible \union Resuming \union {"test", "sleep"}]
  /\ yielded \in [Thread -> BOOLEAN] /\ saved \in [Thread -> BOOLEAN]
  /\ tickslock \in Hart \union {NoHart} /\ plock \in [Thread -> Hart \union {NoHart}]

ClockTypes == HartTypes /\ HartFlags /\ ThreadTypes

\* The locks a hart holds, by what it is doing.
HasTicks(h) == trap[h] = "wakeup" \/ (proc[h] # NoThread /\ at[proc[h]] \in {"test", "sleep"})
Has(h, t)   == \/ swtched[h] = t
               \/ proc[h] = t /\ (trap[h] = "resume" \/ (trap[h] = "none" /\ at[t] \in Resuming))
HasProc(h)  == \/ swtched[h] # NoThread \/ trap[h] = "resume"
               \/ proc[h] # NoThread /\ trap[h] = "none" /\ at[proc[h]] \in Resuming

TicksOwner == \A h \in Hart : tickslock = h <=> HasTicks(h)
ProcOwner  == \A h \in Hart, t \in Thread : plock[t] = h <=> Has(h, t)
Owners     == TicksOwner /\ ProcOwner

\* Where a hart may be waiting for a lock.
Spinning(h) ==
  spin[h] => \/ trap[h] = "clock"
             \/ trap[h] = "yield" /\ proc[h] # NoThread
             \/ /\ trap[h] = "none" /\ proc[h] # NoThread
                /\ at[proc[h]] \in {"pause", "relock", "sleep"}

Places ==
  /\ \A h \in Hart :
       /\ swtched[h] # NoThread => proc[h] = NoThread /\ trap[h] = "none" /\ ~spin[h]
       /\ proc[h] = NoThread => trap[h] \notin {"resume", "return"}
       /\ Spinning(h)
  /\ \A h \in Hart, t \in Thread : proc[h] = t =>
       /\ state[t] = "RUNNING"
       /\ yielded[t] <=> trap[h] = "resume"
       /\ trap[h] # "none" => at[t] \in Interruptible
       /\ \A g \in Hart : proc[g] = t => g = h

\* What sched() has saved for a thread that is switched out.
Away ==
  \A t \in Thread : (\A h \in Hart : proc[h] # t) =>
    /\ saved[t] <=> ~yielded[t]
    /\ yielded[t] => at[t] \in Interruptible
    /\ ~yielded[t] => at[t] \in Resuming

NestingAt(h) ==
  /\ noff[h] = (IF HasTicks(h) THEN 1 ELSE 0) + (IF HasProc(h) THEN 1 ELSE 0)
               + (IF spin[h] THEN 1 ELSE 0)
  /\ sie[h] <=> ~HasTicks(h) /\ ~HasProc(h) /\ ~spin[h] /\ trap[h] = "none"
  /\ (HasTicks(h) \/ spin[h] \/ (HasProc(h) /\ swtched[h] = NoThread))
       => (intena[h] <=> trap[h] = "none")
Nesting == \A h \in Hart : NestingAt(h)

ClockInv == ClockTypes /\ Owners /\ Places /\ Away /\ Nesting

\* What the invariant says of one hart and its thread.
LEMMA Here ==
  ASSUME ClockInv, NEW h \in Hart
  PROVE  /\ proc[h] \in Thread \union {NoThread} /\ swtched[h] \in Thread \union {NoThread}
         /\ NoThread \notin Thread
         /\ swtched[h] # NoThread => proc[h] = NoThread /\ trap[h] = "none" /\ ~spin[h]
         /\ proc[h] # NoThread =>
              /\ at[proc[h]] \in Interruptible \union Resuming \union {"test", "sleep"}
              /\ trap[h] # "none" => at[proc[h]] \in Interruptible
              /\ \A g \in Hart : proc[g] = proc[h] => g = h
         /\ Spinning(h)
BY DEF ClockInv, ClockTypes, HartTypes, ThreadTypes, Places, Spinning, Thread, NoThread

-----------------------------------------------------------------------------
\* The harts begin in their schedulers and the threads in forkret().
LEMMA InitClock == ClockInit => ClockInv
<1> SUFFICES ASSUME ClockInit PROVE ClockInv
  OBVIOUS
<1> USE ClockAssumption DEF ClockInit, Thread, NoThread
<1>1. HartTypes
  BY DEF HartTypes
<1>2. HartFlags
  BY DEF HartFlags
<1>3. ThreadTypes
  BY DEF ThreadTypes, Interruptible, Resuming
<1>4. Owners
  BY DEF Owners, TicksOwner, ProcOwner, HasTicks, Has
<1>5. Places
  BY DEF Places, Spinning
<1>6. Away
  BY DEF Away, Interruptible, Resuming
<1>7. Nesting
  <2> SUFFICES ASSUME NEW h \in Hart PROVE NestingAt(h)
    BY DEF Nesting
  <2>1. ~HasTicks(h) /\ ~HasProc(h)
    BY DEF HasTicks, HasProc
  <2>2. ~spin[h] /\ sie[h] /\ noff[h] = 0 /\ trap[h] = "none"
    OBVIOUS
  <2> QED BY <2>1, <2>2 DEF NestingAt
<1> QED BY <1>1, <1>2, <1>3, <1>4, <1>5, <1>6, <1>7 DEF ClockInv, ClockTypes

\* The types of what belongs to a hart, the numbers and labels first and the flags apart.
LEMMA HartTypesStep ==
  ASSUME ClockInv, [ClockNext]_clockVars
  PROVE  HartTypes'
<1> USE ClockAssumption DEF ClockInv, ClockTypes, Thread, NoThread,
              hartVars, threadVars, lockVars,
              HartTypes
<1>1. CASE UNCHANGED clockVars
  BY <1>1 DEF clockVars
<1>2. ASSUME NEW h \in Hart, Timer(h) PROVE HartTypes'
  BY <1>2 DEF Timer
<1>3. ASSUME NEW h \in Hart, ClockLock(h) PROVE HartTypes'
  BY <1>3 DEF ClockLock, PushOff
<1>4. ASSUME NEW h \in Hart, Tick(h) PROVE HartTypes'
  BY <1>4 DEF Tick, WinTicks
<1>5. ASSUME NEW h \in Hart, WakeNext(h) PROVE HartTypes'
  BY <1>5 DEF WakeNext
<1>6. ASSUME NEW h \in Hart, TickDone(h) PROVE HartTypes'
  BY <1>6 DEF TickDone, PopOff
<1>7. ASSUME NEW h \in Hart, YieldLock(h) PROVE HartTypes'
  BY <1>7 DEF YieldLock, PushOff
<1>8. ASSUME NEW h \in Hart, Yield(h) PROVE HartTypes'
  BY <1>8 DEF Yield, WinProc, Switch
<1>9. ASSUME NEW h \in Hart, YieldResumes(h) PROVE HartTypes'
  BY <1>9 DEF YieldResumes, PopOff
<1>10. ASSUME NEW h \in Hart, TrapReturn(h) PROVE HartTypes'
  BY <1>10 DEF TrapReturn
<1>11. ASSUME NEW h \in Hart, BackInScheduler(h) PROVE HartTypes'
  BY <1>11 DEF BackInScheduler
<1>12. ASSUME NEW h \in Hart, NEW t \in Thread, Call(h, t) PROVE HartTypes'
  BY <1>12 DEF Call, Runs, MoveTo
<1>13. ASSUME NEW h \in Hart, NEW t \in Thread, PauseLock(h, t) PROVE HartTypes'
  BY <1>13 DEF PauseLock, PushOff, Runs
<1>14. ASSUME NEW h \in Hart, NEW t \in Thread, Pause(h, t) PROVE HartTypes'
  BY <1>14 DEF Pause, WinTicks, Runs, MoveTo
<1>15. ASSUME NEW h \in Hart, NEW t \in Thread, Relock(h, t) PROVE HartTypes'
  BY <1>15 DEF Relock, WinTicks, Runs, MoveTo
<1>16. ASSUME NEW h \in Hart, NEW t \in Thread, PauseEnds(h, t) PROVE HartTypes'
  BY <1>16 DEF PauseEnds, PopOff, Runs, MoveTo
<1>17. ASSUME NEW h \in Hart, NEW t \in Thread, PauseGoesOn(h, t) PROVE HartTypes'
  BY <1>17 DEF PauseGoesOn, Runs, MoveTo
<1>18. ASSUME NEW h \in Hart, NEW t \in Thread, SleepLock(h, t) PROVE HartTypes'
  BY <1>18 DEF SleepLock, PushOff, Runs
<1>19. ASSUME NEW h \in Hart, NEW t \in Thread, Sleep(h, t) PROVE HartTypes'
  BY <1>19 DEF Sleep, WinProc, Switch, Runs, MoveTo
<1>20. ASSUME NEW h \in Hart, NEW t \in Thread, Dispatch(h, t) PROVE HartTypes'
  BY <1>20 DEF Dispatch, Restored
<1>21. ASSUME NEW h \in Hart, NEW t \in Thread, ForkRet(h, t) PROVE HartTypes'
  BY <1>21 DEF ForkRet, Runs, MoveTo, PopOff
<1>22. ASSUME NEW h \in Hart, NEW t \in Thread, Woken(h, t) PROVE HartTypes'
  BY <1>22 DEF Woken, Runs, MoveTo, PopOff
<1>23. ASSUME NEW t \in Thread, KillPausing(t) PROVE HartTypes'
  BY <1>23 DEF KillPausing
<1>24. ASSUME NEW h \in Hart, TimerInterrupt(h) PROVE HartTypes'
  BY <1>2, <1>3, <1>4, <1>5, <1>6, <1>7, <1>8, <1>9, <1>10, <1>24 DEF TimerInterrupt
<1>25. ASSUME NEW h \in Hart, NEW t \in Thread, PauseCall(h, t) PROVE HartTypes'
  BY <1>12, <1>13, <1>14, <1>15, <1>16, <1>17, <1>18, <1>19, <1>25 DEF PauseCall
<1>26. ASSUME NEW h \in Hart, NEW t \in Thread, Scheduling(h, t) PROVE HartTypes'
  BY <1>20, <1>21, <1>22, <1>26 DEF Scheduling
<1> QED
  BY <1>1, <1>11, <1>23, <1>24, <1>25, <1>26 DEF ClockNext

\* The interrupt enable bit, intena and the push_off() before a lock are flags.
LEMMA HartFlagsStep ==
  ASSUME ClockInv, [ClockNext]_clockVars
  PROVE  HartFlags'
<1> USE ClockAssumption DEF ClockInv, ClockTypes, Thread, NoThread,
              hartVars, threadVars, lockVars,
              HartFlags
<1>1. CASE UNCHANGED clockVars
  BY <1>1 DEF clockVars
<1>2. ASSUME NEW h \in Hart, Timer(h) PROVE HartFlags'
  BY <1>2 DEF Timer
<1>3. ASSUME NEW h \in Hart, ClockLock(h) PROVE HartFlags'
  BY <1>3 DEF ClockLock, PushOff
<1>4. ASSUME NEW h \in Hart, Tick(h) PROVE HartFlags'
  BY <1>4 DEF Tick, WinTicks
<1>5. ASSUME NEW h \in Hart, WakeNext(h) PROVE HartFlags'
  BY <1>5 DEF WakeNext
<1>6. ASSUME NEW h \in Hart, TickDone(h) PROVE HartFlags'
  BY <1>6 DEF TickDone, PopOff
<1>7. ASSUME NEW h \in Hart, YieldLock(h) PROVE HartFlags'
  BY <1>7 DEF YieldLock, PushOff
<1>8. ASSUME NEW h \in Hart, Yield(h) PROVE HartFlags'
  BY <1>8 DEF Yield, WinProc, Switch
<1>9. ASSUME NEW h \in Hart, YieldResumes(h) PROVE HartFlags'
  BY <1>9 DEF YieldResumes, PopOff
<1>10. ASSUME NEW h \in Hart, TrapReturn(h) PROVE HartFlags'
  BY <1>10 DEF TrapReturn
<1>11. ASSUME NEW h \in Hart, BackInScheduler(h) PROVE HartFlags'
  BY <1>11 DEF BackInScheduler
<1>12. ASSUME NEW h \in Hart, NEW t \in Thread, Call(h, t) PROVE HartFlags'
  BY <1>12 DEF Call, Runs, MoveTo
<1>13. ASSUME NEW h \in Hart, NEW t \in Thread, PauseLock(h, t) PROVE HartFlags'
  BY <1>13 DEF PauseLock, PushOff, Runs
<1>14. ASSUME NEW h \in Hart, NEW t \in Thread, Pause(h, t) PROVE HartFlags'
  BY <1>14 DEF Pause, WinTicks, Runs, MoveTo
<1>15. ASSUME NEW h \in Hart, NEW t \in Thread, Relock(h, t) PROVE HartFlags'
  BY <1>15 DEF Relock, WinTicks, Runs, MoveTo
<1>16. ASSUME NEW h \in Hart, NEW t \in Thread, PauseEnds(h, t) PROVE HartFlags'
  BY <1>16 DEF PauseEnds, PopOff, Runs, MoveTo
<1>17. ASSUME NEW h \in Hart, NEW t \in Thread, PauseGoesOn(h, t) PROVE HartFlags'
  BY <1>17 DEF PauseGoesOn, Runs, MoveTo
<1>18. ASSUME NEW h \in Hart, NEW t \in Thread, SleepLock(h, t) PROVE HartFlags'
  BY <1>18 DEF SleepLock, PushOff, Runs
<1>19. ASSUME NEW h \in Hart, NEW t \in Thread, Sleep(h, t) PROVE HartFlags'
  BY <1>19 DEF Sleep, WinProc, Switch, Runs, MoveTo
<1>20. ASSUME NEW h \in Hart, NEW t \in Thread, Dispatch(h, t) PROVE HartFlags'
  BY <1>20 DEF Dispatch, Restored, ThreadTypes
<1>21. ASSUME NEW h \in Hart, NEW t \in Thread, ForkRet(h, t) PROVE HartFlags'
  BY <1>21 DEF ForkRet, Runs, MoveTo, PopOff
<1>22. ASSUME NEW h \in Hart, NEW t \in Thread, Woken(h, t) PROVE HartFlags'
  BY <1>22 DEF Woken, Runs, MoveTo, PopOff
<1>23. ASSUME NEW t \in Thread, KillPausing(t) PROVE HartFlags'
  BY <1>23 DEF KillPausing
<1>24. ASSUME NEW h \in Hart, TimerInterrupt(h) PROVE HartFlags'
  BY <1>2, <1>3, <1>4, <1>5, <1>6, <1>7, <1>8, <1>9, <1>10, <1>24 DEF TimerInterrupt
<1>25. ASSUME NEW h \in Hart, NEW t \in Thread, PauseCall(h, t) PROVE HartFlags'
  BY <1>12, <1>13, <1>14, <1>15, <1>16, <1>17, <1>18, <1>19, <1>25 DEF PauseCall
<1>26. ASSUME NEW h \in Hart, NEW t \in Thread, Scheduling(h, t) PROVE HartFlags'
  BY <1>20, <1>21, <1>22, <1>26 DEF Scheduling
<1> QED
  BY <1>1, <1>11, <1>23, <1>24, <1>25, <1>26 DEF ClockNext

\* The threads and the locks keep to their states.
LEMMA ThreadTypesStep ==
  ASSUME ClockInv, [ClockNext]_clockVars
  PROVE  ThreadTypes'
<1> USE ClockAssumption DEF ClockInv, ClockTypes, Thread, NoThread,
              hartVars, threadVars, lockVars,
              ThreadTypes, HartTypes, Interruptible, Resuming
<1>1. CASE UNCHANGED clockVars
  BY <1>1 DEF clockVars
<1>2. ASSUME NEW h \in Hart, Timer(h) PROVE ThreadTypes'
  BY <1>2 DEF Timer
<1>3. ASSUME NEW h \in Hart, ClockLock(h) PROVE ThreadTypes'
  BY <1>3 DEF ClockLock, PushOff
<1>4. ASSUME NEW h \in Hart, Tick(h) PROVE ThreadTypes'
  BY <1>4 DEF Tick, WinTicks
<1>5. ASSUME NEW h \in Hart, WakeNext(h) PROVE ThreadTypes'
  BY <1>5 DEF WakeNext
<1>6. ASSUME NEW h \in Hart, TickDone(h) PROVE ThreadTypes'
  BY <1>6 DEF TickDone, PopOff
<1>7. ASSUME NEW h \in Hart, YieldLock(h) PROVE ThreadTypes'
  BY <1>7 DEF YieldLock, PushOff
<1>8. ASSUME NEW h \in Hart, Yield(h) PROVE ThreadTypes'
  BY <1>8 DEF Yield, WinProc, Switch, HartFlags
<1>9. ASSUME NEW h \in Hart, YieldResumes(h) PROVE ThreadTypes'
  BY <1>9 DEF YieldResumes, PopOff
<1>10. ASSUME NEW h \in Hart, TrapReturn(h) PROVE ThreadTypes'
  BY <1>10 DEF TrapReturn
<1>11. ASSUME NEW h \in Hart, BackInScheduler(h) PROVE ThreadTypes'
  BY <1>11 DEF BackInScheduler
<1>12. ASSUME NEW h \in Hart, NEW t \in Thread, Call(h, t) PROVE ThreadTypes'
  BY <1>12 DEF Call, Runs, MoveTo
<1>13. ASSUME NEW h \in Hart, NEW t \in Thread, PauseLock(h, t) PROVE ThreadTypes'
  BY <1>13 DEF PauseLock, PushOff, Runs
<1>14. ASSUME NEW h \in Hart, NEW t \in Thread, Pause(h, t) PROVE ThreadTypes'
  BY <1>14 DEF Pause, WinTicks, Runs, MoveTo
<1>15. ASSUME NEW h \in Hart, NEW t \in Thread, Relock(h, t) PROVE ThreadTypes'
  BY <1>15 DEF Relock, WinTicks, Runs, MoveTo
<1>16. ASSUME NEW h \in Hart, NEW t \in Thread, PauseEnds(h, t) PROVE ThreadTypes'
  BY <1>16 DEF PauseEnds, PopOff, Runs, MoveTo
<1>17. ASSUME NEW h \in Hart, NEW t \in Thread, PauseGoesOn(h, t) PROVE ThreadTypes'
  BY <1>17 DEF PauseGoesOn, Runs, MoveTo
<1>18. ASSUME NEW h \in Hart, NEW t \in Thread, SleepLock(h, t) PROVE ThreadTypes'
  BY <1>18 DEF SleepLock, PushOff, Runs
<1>19. ASSUME NEW h \in Hart, NEW t \in Thread, Sleep(h, t) PROVE ThreadTypes'
  BY <1>19 DEF Sleep, WinProc, Switch, Runs, MoveTo, HartFlags
<1>20. ASSUME NEW h \in Hart, NEW t \in Thread, Dispatch(h, t) PROVE ThreadTypes'
  BY <1>20 DEF Dispatch, Restored
<1>21. ASSUME NEW h \in Hart, NEW t \in Thread, ForkRet(h, t) PROVE ThreadTypes'
  BY <1>21 DEF ForkRet, Runs, MoveTo, PopOff
<1>22. ASSUME NEW h \in Hart, NEW t \in Thread, Woken(h, t) PROVE ThreadTypes'
  BY <1>22 DEF Woken, Runs, MoveTo, PopOff
<1>23. ASSUME NEW t \in Thread, KillPausing(t) PROVE ThreadTypes'
  BY <1>23 DEF KillPausing
<1>24. ASSUME NEW h \in Hart, TimerInterrupt(h) PROVE ThreadTypes'
  BY <1>2, <1>3, <1>4, <1>5, <1>6, <1>7, <1>8, <1>9, <1>10, <1>24 DEF TimerInterrupt
<1>25. ASSUME NEW h \in Hart, NEW t \in Thread, PauseCall(h, t) PROVE ThreadTypes'
  BY <1>12, <1>13, <1>14, <1>15, <1>16, <1>17, <1>18, <1>19, <1>25 DEF PauseCall
<1>26. ASSUME NEW h \in Hart, NEW t \in Thread, Scheduling(h, t) PROVE ThreadTypes'
  BY <1>20, <1>21, <1>22, <1>26 DEF Scheduling
<1> QED
  BY <1>1, <1>11, <1>23, <1>24, <1>25, <1>26 DEF ClockNext

\* A thread is on one hart, and only where it may take interrupts is it interrupted.
LEMMA PlacesStep ==
  ASSUME ClockInv, [ClockNext]_clockVars
  PROVE  Places'
<1> USE ClockAssumption DEF ClockInv, ClockTypes, Thread, NoThread,
              hartVars, threadVars, lockVars,
              HartTypes, ThreadTypes, HartFlags, Interruptible, Resuming, Owners, TicksOwner,
              ProcOwner, Places, Spinning, HasTicks, Has, Spinning, Away
<1>1. CASE UNCHANGED clockVars
  BY <1>1 DEF clockVars
<1>2. ASSUME NEW h \in Hart, Timer(h) PROVE Places'
  <2>1. ~HasTicks(h) /\ ~HasProc(h) /\ ~spin[h] /\ trap[h] = "none"
    BY <1>2 DEF Timer, Nesting, NestingAt
  <2>2. \A t \in Thread : proc[h] = t => at[t] \in Interruptible /\ ~yielded[t]
    BY <2>1 DEF HasProc
  <2>3. /\ \A g \in Hart :
             trap'[g] = IF g = h THEN (IF h = hart0 THEN "clock" ELSE "yield") ELSE trap[g]
        /\ UNCHANGED <<proc, spin, swtched, at, state, yielded>>
    BY <1>2 DEF Timer
  <2>4. swtched[h] = NoThread
    BY <1>2, <2>1 DEF Timer, Nesting, NestingAt, HasProc
  <2>5. Spinning(h)'
    BY <2>1, <2>3, <2>4
  <2>6. \A g \in Hart : Spinning(g)'
    BY <2>3, <2>5
  <2>7. /\ \A g \in Hart :
             /\ swtched[g] # NoThread => proc[g] = NoThread /\ trap[g] = "none" /\ ~spin[g]
             /\ proc[g] = NoThread => trap[g] \notin {"resume", "return"}
        /\ \A g \in Hart, t \in Thread : proc[g] = t =>
             /\ state[t] = "RUNNING"
             /\ yielded[t] <=> trap[g] = "resume"
             /\ trap[g] # "none" => at[t] \in Interruptible
             /\ \A i \in Hart : proc[i] = t => i = g
    OBVIOUS
  <2> HIDE DEF ClockInv, ClockTypes, HartTypes, ThreadTypes, HartFlags, Interruptible, Resuming,
               Owners, TicksOwner, ProcOwner, Places, Spinning, HasTicks, Has, Away
  <2>8. \A g \in Hart :
          /\ swtched'[g] # NoThread => proc'[g] = NoThread /\ trap'[g] = "none" /\ ~spin'[g]
          /\ proc'[g] = NoThread => trap'[g] \notin {"resume", "return"}
    BY <2>3, <2>4, <2>7
  <2>9. \A g \in Hart, t \in Thread : proc'[g] = t =>
          /\ state'[t] = "RUNNING"
          /\ yielded'[t] <=> trap'[g] = "resume"
          /\ trap'[g] # "none" => at'[t] \in Interruptible
          /\ \A i \in Hart : proc'[i] = t => i = g
    BY <2>2, <2>3, <2>7
  <2> QED
    BY <2>6, <2>8, <2>9 DEF Places, Interruptible
<1>3. ASSUME NEW h \in Hart, ClockLock(h) PROVE Places'
  BY <1>3 DEF ClockLock, PushOff
<1>4. ASSUME NEW h \in Hart, Tick(h) PROVE Places'
  BY <1>4 DEF Tick, WinTicks
<1>5. ASSUME NEW h \in Hart, WakeNext(h) PROVE Places'
  BY <1>5 DEF WakeNext
<1>6. ASSUME NEW h \in Hart, TickDone(h) PROVE Places'
  BY <1>6 DEF TickDone, PopOff
<1>7. ASSUME NEW h \in Hart, YieldLock(h) PROVE Places'
  BY <1>7 DEF YieldLock, PushOff
<1>8. ASSUME NEW h \in Hart, Yield(h) PROVE Places'
  BY <1>8 DEF Yield, WinProc, Switch
<1>9. ASSUME NEW h \in Hart, YieldResumes(h) PROVE Places'
  BY <1>9 DEF YieldResumes, PopOff
<1>10. ASSUME NEW h \in Hart, TrapReturn(h) PROVE Places'
  BY <1>10 DEF TrapReturn
<1>11. ASSUME NEW h \in Hart, BackInScheduler(h) PROVE Places'
  BY <1>11 DEF BackInScheduler
<1>12. ASSUME NEW h \in Hart, NEW t \in Thread, Call(h, t) PROVE Places'
  BY <1>12 DEF Call, Runs, MoveTo
<1>13. ASSUME NEW h \in Hart, NEW t \in Thread, PauseLock(h, t) PROVE Places'
  BY <1>13 DEF PauseLock, PushOff, Runs
<1>14. ASSUME NEW h \in Hart, NEW t \in Thread, Pause(h, t) PROVE Places'
  BY <1>14 DEF Pause, WinTicks, Runs, MoveTo
<1>15. ASSUME NEW h \in Hart, NEW t \in Thread, Relock(h, t) PROVE Places'
  BY <1>15 DEF Relock, WinTicks, Runs, MoveTo
<1>16. ASSUME NEW h \in Hart, NEW t \in Thread, PauseEnds(h, t) PROVE Places'
  BY <1>16 DEF PauseEnds, PopOff, Runs, MoveTo
<1>17. ASSUME NEW h \in Hart, NEW t \in Thread, PauseGoesOn(h, t) PROVE Places'
  BY <1>17 DEF PauseGoesOn, Runs, MoveTo
<1>18. ASSUME NEW h \in Hart, NEW t \in Thread, SleepLock(h, t) PROVE Places'
  BY <1>18 DEF SleepLock, PushOff, Runs
<1>19. ASSUME NEW h \in Hart, NEW t \in Thread, Sleep(h, t) PROVE Places'
  BY <1>19 DEF Sleep, WinProc, Switch, Runs, MoveTo
<1>20. ASSUME NEW h \in Hart, NEW t \in Thread, Dispatch(h, t) PROVE Places'
  BY <1>20 DEF Dispatch, Restored
<1>21. ASSUME NEW h \in Hart, NEW t \in Thread, ForkRet(h, t) PROVE Places'
  BY <1>21 DEF ForkRet, Runs, MoveTo, PopOff
<1>22. ASSUME NEW h \in Hart, NEW t \in Thread, Woken(h, t) PROVE Places'
  BY <1>22 DEF Woken, Runs, MoveTo, PopOff
<1>23. ASSUME NEW t \in Thread, KillPausing(t) PROVE Places'
  BY <1>23 DEF KillPausing
<1> HIDE DEF HartTypes, ThreadTypes, HartFlags, Interruptible, Resuming, Owners, TicksOwner,
              ProcOwner, Places, Spinning, HasTicks, Has, Away
<1>24. ASSUME NEW h \in Hart, TimerInterrupt(h) PROVE Places'
  BY <1>2, <1>3, <1>4, <1>5, <1>6, <1>7, <1>8, <1>9, <1>10, <1>24 DEF TimerInterrupt
<1>25. ASSUME NEW h \in Hart, NEW t \in Thread, PauseCall(h, t) PROVE Places'
  BY <1>12, <1>13, <1>14, <1>15, <1>16, <1>17, <1>18, <1>19, <1>25 DEF PauseCall
<1>26. ASSUME NEW h \in Hart, NEW t \in Thread, Scheduling(h, t) PROVE Places'
  BY <1>20, <1>21, <1>22, <1>26 DEF Scheduling
<1> QED
  BY <1>1, <1>11, <1>23, <1>24, <1>25, <1>26 DEF ClockNext

\* What a thread finds when it is resumed, wherever that is.
LEMMA AwayStep ==
  ASSUME ClockInv, [ClockNext]_clockVars
  PROVE  Away'
<1> USE ClockAssumption DEF ClockInv, ClockTypes, Thread, NoThread,
              hartVars, threadVars, lockVars,
              HartTypes, ThreadTypes, HartFlags, Interruptible, Resuming, Owners, TicksOwner,
              ProcOwner, Places, Spinning, HasTicks, Has, Spinning, Away, Nesting, NestingAt,
              HasProc
<1>1. CASE UNCHANGED clockVars
  BY <1>1 DEF clockVars
<1>2. ASSUME NEW h \in Hart, Timer(h) PROVE Away'
  BY <1>2 DEF Timer
<1>3. ASSUME NEW h \in Hart, ClockLock(h) PROVE Away'
  BY <1>3 DEF ClockLock, PushOff
<1>4. ASSUME NEW h \in Hart, Tick(h) PROVE Away'
  BY <1>4 DEF Tick, WinTicks
<1>5. ASSUME NEW h \in Hart, WakeNext(h) PROVE Away'
  BY <1>5 DEF WakeNext
<1>6. ASSUME NEW h \in Hart, TickDone(h) PROVE Away'
  BY <1>6 DEF TickDone, PopOff
<1>7. ASSUME NEW h \in Hart, YieldLock(h) PROVE Away'
  BY <1>7 DEF YieldLock, PushOff
<1>8. ASSUME NEW h \in Hart, Yield(h) PROVE Away'
  BY <1>8 DEF Yield, WinProc, Switch
<1>9. ASSUME NEW h \in Hart, YieldResumes(h) PROVE Away'
  BY <1>9 DEF YieldResumes, PopOff
<1>10. ASSUME NEW h \in Hart, TrapReturn(h) PROVE Away'
  BY <1>10 DEF TrapReturn
<1>11. ASSUME NEW h \in Hart, BackInScheduler(h) PROVE Away'
  BY <1>11 DEF BackInScheduler
<1>12. ASSUME NEW h \in Hart, NEW t \in Thread, Call(h, t) PROVE Away'
  BY <1>12 DEF Call, Runs, MoveTo
<1>13. ASSUME NEW h \in Hart, NEW t \in Thread, PauseLock(h, t) PROVE Away'
  BY <1>13 DEF PauseLock, PushOff, Runs
<1>14. ASSUME NEW h \in Hart, NEW t \in Thread, Pause(h, t) PROVE Away'
  BY <1>14 DEF Pause, WinTicks, Runs, MoveTo
<1>15. ASSUME NEW h \in Hart, NEW t \in Thread, Relock(h, t) PROVE Away'
  BY <1>15 DEF Relock, WinTicks, Runs, MoveTo
<1>16. ASSUME NEW h \in Hart, NEW t \in Thread, PauseEnds(h, t) PROVE Away'
  BY <1>16 DEF PauseEnds, PopOff, Runs, MoveTo
<1>17. ASSUME NEW h \in Hart, NEW t \in Thread, PauseGoesOn(h, t) PROVE Away'
  BY <1>17 DEF PauseGoesOn, Runs, MoveTo
<1>18. ASSUME NEW h \in Hart, NEW t \in Thread, SleepLock(h, t) PROVE Away'
  BY <1>18 DEF SleepLock, PushOff, Runs
<1>19. ASSUME NEW h \in Hart, NEW t \in Thread, Sleep(h, t) PROVE Away'
  BY <1>19 DEF Sleep, WinProc, Switch, Runs, MoveTo
<1>20. ASSUME NEW h \in Hart, NEW t \in Thread, Dispatch(h, t) PROVE Away'
  BY <1>20 DEF Dispatch, Restored
<1>21. ASSUME NEW h \in Hart, NEW t \in Thread, ForkRet(h, t) PROVE Away'
  BY <1>21 DEF ForkRet, Runs, MoveTo, PopOff
<1>22. ASSUME NEW h \in Hart, NEW t \in Thread, Woken(h, t) PROVE Away'
  BY <1>22 DEF Woken, Runs, MoveTo, PopOff
<1>23. ASSUME NEW t \in Thread, KillPausing(t) PROVE Away'
  BY <1>23 DEF KillPausing
<1> HIDE DEF HartTypes, ThreadTypes, HartFlags, Interruptible, Resuming, Owners, TicksOwner,
              ProcOwner, Places, Spinning, HasTicks, Has, Away, Nesting, NestingAt, HasProc
<1>24. ASSUME NEW h \in Hart, TimerInterrupt(h) PROVE Away'
  BY <1>2, <1>3, <1>4, <1>5, <1>6, <1>7, <1>8, <1>9, <1>10, <1>24 DEF TimerInterrupt
<1>25. ASSUME NEW h \in Hart, NEW t \in Thread, PauseCall(h, t) PROVE Away'
  BY <1>12, <1>13, <1>14, <1>15, <1>16, <1>17, <1>18, <1>19, <1>25 DEF PauseCall
<1>26. ASSUME NEW h \in Hart, NEW t \in Thread, Scheduling(h, t) PROVE Away'
  BY <1>20, <1>21, <1>22, <1>26 DEF Scheduling
<1> QED
  BY <1>1, <1>11, <1>23, <1>24, <1>25, <1>26 DEF ClockNext

\* A step of another hart.
Unmoved(g) ==
  /\ proc'[g] = proc[g] /\ swtched'[g] = swtched[g] /\ trap'[g] = trap[g] /\ spin'[g] = spin[g]
  /\ noff'[g] = noff[g] /\ sie'[g] = sie[g] /\ intena'[g] = intena[g]
  /\ proc[g] # NoThread => at'[proc[g]] = at[proc[g]]

\* What a hart holds and its interrupt state are out of the reach of the others.
LEMMA Elsewhere ==
  ASSUME ClockInv, NEW g \in Hart, Unmoved(g)
  PROVE  NestingAt(g)' /\ (HasTicks(g)' <=> HasTicks(g))
<1>1. (HasTicks(g)' <=> HasTicks(g)) /\ (HasProc(g)' <=> HasProc(g))
  BY DEF HasTicks, HasProc, Unmoved
<1> QED BY <1>1 DEF NestingAt, Unmoved, ClockInv, Nesting

\* tickslock is held by the hart that is between acquire() and release(), and no other.
LEMMA TicksOwnerStep ==
  ASSUME ClockInv, [ClockNext]_clockVars
  PROVE  TicksOwner'
<1> USE ClockAssumption DEF ClockInv, ClockTypes, Thread, NoThread,
              hartVars, threadVars, lockVars
<1>1. CASE UNCHANGED clockVars
  BY <1>1 DEF clockVars, HartTypes, ThreadTypes, HartFlags, Interruptible, Resuming, Owners,
     TicksOwner, Places, Spinning, HasTicks
<1>2. ASSUME NEW h \in Hart, Timer(h) PROVE TicksOwner'
  BY <1>2 DEF Timer, HartTypes, ThreadTypes, HartFlags, Interruptible, Resuming, Owners,
     TicksOwner, Places, Nesting, NestingAt, HasProc, Has, HasTicks
<1>3. ASSUME NEW h \in Hart, ClockLock(h) PROVE TicksOwner'
  BY <1>3 DEF ClockLock, PushOff, HartTypes, ThreadTypes, HartFlags, Interruptible, Resuming,
     Owners, TicksOwner, Places, Spinning, HasTicks
<1>4. ASSUME NEW h \in Hart, Tick(h) PROVE TicksOwner'
  BY <1>4 DEF Tick, WinTicks, HartTypes, ThreadTypes, HartFlags, Interruptible, Resuming,
     Owners, TicksOwner, Places, Spinning, HasTicks
<1>5. ASSUME NEW h \in Hart, WakeNext(h) PROVE TicksOwner'
  BY <1>5 DEF WakeNext, HartTypes, ThreadTypes, HartFlags, Interruptible, Resuming, Owners,
     TicksOwner, Places, Spinning, HasTicks
<1>6. ASSUME NEW h \in Hart, TickDone(h) PROVE TicksOwner'
  <2>1. trap[h] = "wakeup" /\ trap'[h] = "yield"
    BY <1>6 DEF TickDone, PopOff, HartTypes, ThreadTypes, HartFlags
  <2>2. proc' = proc /\ at' = at /\ swtched' = swtched /\ spin' = spin
    BY <1>6 DEF TickDone, PopOff
  <2>3. /\ proc[h] \in Thread \union {NoThread} /\ swtched[h] \in Thread \union {NoThread}
        /\ NoThread \notin Thread
        /\ swtched[h] # NoThread => proc[h] = NoThread /\ trap[h] = "none" /\ ~spin[h]
        /\ proc[h] # NoThread /\ trap[h] # "none" => at[proc[h]] \in Interruptible
    BY Here
  <2>4. Spinning(h)
    BY Here
  <2>6. HasTicks(h) /\ ~HasProc(h) /\ ~spin[h]
    BY <2>1, <2>3, <2>4 DEF Spinning, HasTicks, HasProc, Interruptible, Resuming
  <2>7. ~HasTicks(h)' /\ ~HasProc(h)' /\ ~spin[h]'
    BY <2>1, <2>2, <2>3, <2>4, <2>6 DEF Spinning, HasTicks, HasProc, Interruptible, Resuming
  <2>8. (tickslock = h <=> HasTicks(h))'
    BY <1>6, <2>6, <2>7 DEF TickDone, PopOff, Owners, TicksOwner
  <2>9. ASSUME NEW g \in Hart, g # h PROVE (tickslock = g <=> HasTicks(g))'
    <3>1. Unmoved(g)
      BY <1>6, <2>9 DEF Unmoved, TickDone, PopOff, HartTypes, ThreadTypes, HartFlags, Places
    <3>2. HasTicks(g)' <=> HasTicks(g)
      BY <3>1, Elsewhere
    <3> QED BY <1>6, <2>6, <2>9, <3>2 DEF TickDone, PopOff, Owners, TicksOwner
  <2> QED BY <2>8, <2>9 DEF TicksOwner
<1>7. ASSUME NEW h \in Hart, YieldLock(h) PROVE TicksOwner'
  BY <1>7 DEF YieldLock, PushOff, HartTypes, ThreadTypes, HartFlags, Interruptible, Resuming,
     Owners, TicksOwner, Places, Spinning, HasTicks
<1>8. ASSUME NEW h \in Hart, Yield(h) PROVE TicksOwner'
  <2>1. trap[h] = "yield" /\ trap'[h] = "none" /\ spin[h] /\ ~spin'[h] /\ proc[h] \in Thread /\
       proc'[h] = NoThread /\ swtched'[h] = proc[h]
    BY <1>8 DEF Yield, WinProc, Switch, HartTypes, ThreadTypes, HartFlags
  <2>2. at' = at
    BY <1>8 DEF Yield, WinProc, Switch
  <2>3. /\ proc[h] \in Thread \union {NoThread} /\ swtched[h] \in Thread \union {NoThread}
        /\ NoThread \notin Thread
        /\ swtched[h] # NoThread => proc[h] = NoThread /\ trap[h] = "none" /\ ~spin[h]
        /\ proc[h] # NoThread /\ trap[h] # "none" => at[proc[h]] \in Interruptible
    BY Here
  <2>4. Spinning(h)
    BY Here
  <2>6. ~HasTicks(h) /\ ~HasProc(h) /\ spin[h]
    BY <2>1, <2>3, <2>4 DEF Spinning, HasTicks, HasProc, Interruptible, Resuming
  <2>7. ~HasTicks(h)' /\ HasProc(h)' /\ ~spin[h]'
    BY <2>1, <2>2, <2>3, <2>4, <2>6 DEF Spinning, HasTicks, HasProc, Interruptible, Resuming
  <2>8. (tickslock = h <=> HasTicks(h))'
    BY <1>8, <2>6, <2>7 DEF Yield, WinProc, Switch, Owners, TicksOwner
  <2>9. ASSUME NEW g \in Hart, g # h PROVE (tickslock = g <=> HasTicks(g))'
    <3>1. Unmoved(g)
      BY <1>8, <2>9 DEF Unmoved, Yield, WinProc, Switch, HartTypes, ThreadTypes, HartFlags,
         Places
    <3>2. HasTicks(g)' <=> HasTicks(g)
      BY <3>1, Elsewhere
    <3> QED BY <1>8, <2>6, <2>9, <3>2 DEF Yield, WinProc, Switch, Owners, TicksOwner
  <2> QED BY <2>8, <2>9 DEF TicksOwner
<1>9. ASSUME NEW h \in Hart, YieldResumes(h) PROVE TicksOwner'
  BY <1>9 DEF YieldResumes, PopOff, HartTypes, ThreadTypes, HartFlags, Interruptible, Resuming,
     Owners, TicksOwner, Places, Spinning, HasTicks
<1>10. ASSUME NEW h \in Hart, TrapReturn(h) PROVE TicksOwner'
  BY <1>10 DEF TrapReturn, HartTypes, ThreadTypes, HartFlags, Interruptible, Resuming, Owners,
     TicksOwner, Places, Spinning, HasTicks
<1>11. ASSUME NEW h \in Hart, BackInScheduler(h) PROVE TicksOwner'
  BY <1>11 DEF BackInScheduler, HartTypes, ThreadTypes, HartFlags, Interruptible, Resuming,
     Owners, TicksOwner, Places, Spinning, HasTicks
<1>12. ASSUME NEW h \in Hart, NEW t \in Thread, Call(h, t) PROVE TicksOwner'
  BY <1>12 DEF Call, Runs, MoveTo, HartTypes, ThreadTypes, HartFlags, Interruptible, Resuming,
     Owners, TicksOwner, Places, Spinning, HasTicks
<1>13. ASSUME NEW h \in Hart, NEW t \in Thread, PauseLock(h, t) PROVE TicksOwner'
  BY <1>13 DEF PauseLock, PushOff, Runs, HartTypes, ThreadTypes, HartFlags, Interruptible,
     Resuming, Owners, TicksOwner, Places, Spinning, HasTicks
<1>14. ASSUME NEW h \in Hart, NEW t \in Thread, Pause(h, t) PROVE TicksOwner'
  BY <1>14 DEF Pause, WinTicks, Runs, MoveTo, HartTypes, ThreadTypes, HartFlags, Interruptible,
     Resuming, Owners, TicksOwner, Places, Spinning, HasTicks
<1>15. ASSUME NEW h \in Hart, NEW t \in Thread, Relock(h, t) PROVE TicksOwner'
  BY <1>15 DEF Relock, WinTicks, Runs, MoveTo, HartTypes, ThreadTypes, HartFlags, Interruptible,
     Resuming, Owners, TicksOwner, Places, Spinning, HasTicks
<1>16. ASSUME NEW h \in Hart, NEW t \in Thread, PauseEnds(h, t) PROVE TicksOwner'
  BY <1>16 DEF PauseEnds, PopOff, Runs, MoveTo, HartTypes, ThreadTypes, HartFlags,
     Interruptible, Resuming, Owners, TicksOwner, Places, Spinning, HasTicks
<1>17. ASSUME NEW h \in Hart, NEW t \in Thread, PauseGoesOn(h, t) PROVE TicksOwner'
  BY <1>17 DEF PauseGoesOn, Runs, MoveTo, HartTypes, ThreadTypes, HartFlags, Interruptible,
     Resuming, Owners, TicksOwner, Places, Spinning, HasTicks
<1>18. ASSUME NEW h \in Hart, NEW t \in Thread, SleepLock(h, t) PROVE TicksOwner'
  BY <1>18 DEF SleepLock, PushOff, Runs, HartTypes, ThreadTypes, HartFlags, Interruptible,
     Resuming, Owners, TicksOwner, Places, Spinning, HasTicks
<1>19. ASSUME NEW h \in Hart, NEW t \in Thread, Sleep(h, t) PROVE TicksOwner'
  BY <1>19 DEF Sleep, WinProc, Switch, Runs, MoveTo, HartTypes, ThreadTypes, HartFlags,
     Interruptible, Resuming, Owners, TicksOwner, Places, Spinning, HasTicks
<1>20. ASSUME NEW h \in Hart, NEW t \in Thread, Dispatch(h, t) PROVE TicksOwner'
  <2>1. trap[h] = "none" /\ proc[h] = NoThread /\ proc'[h] = t /\ swtched[h] = NoThread /\
       trap'[h] = (IF yielded[t] THEN "resume" ELSE "none")
    BY <1>20 DEF Dispatch, Restored, HartTypes, ThreadTypes, HartFlags
  <2>2. swtched' = swtched /\ at' = at /\ spin' = spin
    BY <1>20 DEF Dispatch, Restored
  <2>3. /\ proc[h] \in Thread \union {NoThread} /\ swtched[h] \in Thread \union {NoThread}
        /\ NoThread \notin Thread
        /\ swtched[h] # NoThread => proc[h] = NoThread /\ trap[h] = "none" /\ ~spin[h]
        /\ proc[h] # NoThread /\ trap[h] # "none" => at[proc[h]] \in Interruptible
    BY Here
  <2>4. Spinning(h)
    BY Here
  <2>5. NoThread \notin Thread /\ (yielded[t] => at[t] \in Interruptible) /\ (~yielded[t] =>
       at[t] \in Resuming) /\ (saved[t] <=> ~yielded[t])
    BY <1>20 DEF Dispatch, Restored, HartTypes, ThreadTypes, HartFlags, Places, Away
  <2>6. ~HasTicks(h) /\ ~HasProc(h) /\ ~spin[h]
    BY <2>1, <2>3, <2>4 DEF Spinning, HasTicks, HasProc, Interruptible, Resuming
  <2>7. ~HasTicks(h)' /\ HasProc(h)' /\ ~spin[h]'
    BY <2>1, <2>2, <2>3, <2>4, <2>6, <2>5 DEF Spinning, HasTicks, HasProc, Interruptible,
       Resuming
  <2>8. (tickslock = h <=> HasTicks(h))'
    BY <1>20, <2>6, <2>7 DEF Dispatch, Restored, Owners, TicksOwner
  <2>9. ASSUME NEW g \in Hart, g # h PROVE (tickslock = g <=> HasTicks(g))'
    <3>1. Unmoved(g)
      BY <1>20, <2>9 DEF Unmoved, Dispatch, Restored, HartTypes, ThreadTypes, HartFlags, Places
    <3>2. HasTicks(g)' <=> HasTicks(g)
      BY <3>1, Elsewhere
    <3> QED BY <1>20, <2>6, <2>9, <3>2 DEF Dispatch, Restored, Owners, TicksOwner
  <2> QED BY <2>8, <2>9 DEF TicksOwner
<1>21. ASSUME NEW h \in Hart, NEW t \in Thread, ForkRet(h, t) PROVE TicksOwner'
  BY <1>21 DEF ForkRet, Runs, MoveTo, PopOff, HartTypes, ThreadTypes, HartFlags, Interruptible,
     Resuming, Owners, TicksOwner, Places, Spinning, HasTicks
<1>22. ASSUME NEW h \in Hart, NEW t \in Thread, Woken(h, t) PROVE TicksOwner'
  BY <1>22 DEF Woken, Runs, MoveTo, PopOff, HartTypes, ThreadTypes, HartFlags, Interruptible,
     Resuming, Owners, TicksOwner, Places, Spinning, HasTicks
<1>23. ASSUME NEW t \in Thread, KillPausing(t) PROVE TicksOwner'
  BY <1>23 DEF KillPausing, HartTypes, ThreadTypes, HartFlags, Interruptible, Resuming, Owners,
     TicksOwner, Places, Spinning, HasTicks
<1>24. ASSUME NEW h \in Hart, TimerInterrupt(h) PROVE TicksOwner'
  BY <1>2, <1>3, <1>4, <1>5, <1>6, <1>7, <1>8, <1>9, <1>10, <1>24 DEF TimerInterrupt
<1>25. ASSUME NEW h \in Hart, NEW t \in Thread, PauseCall(h, t) PROVE TicksOwner'
  BY <1>12, <1>13, <1>14, <1>15, <1>16, <1>17, <1>18, <1>19, <1>25 DEF PauseCall
<1>26. ASSUME NEW h \in Hart, NEW t \in Thread, Scheduling(h, t) PROVE TicksOwner'
  BY <1>20, <1>21, <1>22, <1>26 DEF Scheduling
<1> QED
  BY <1>1, <1>11, <1>23, <1>24, <1>25, <1>26 DEF ClockNext

\* p->lock is handed over in swtch() and always belongs to the hart that will release it.
LEMMA ProcOwnerStep ==
  ASSUME ClockInv, [ClockNext]_clockVars
  PROVE  ProcOwner'
<1> USE ClockAssumption DEF ClockInv, ClockTypes, Thread, NoThread,
              hartVars, threadVars, lockVars
<1>1. CASE UNCHANGED clockVars
  BY <1>1 DEF clockVars, HartTypes, ThreadTypes, HartFlags, Interruptible, Resuming, Owners,
     ProcOwner, Places, Spinning, Has
<1>2. ASSUME NEW h \in Hart, Timer(h) PROVE ProcOwner'
  BY <1>2 DEF Timer, HartTypes, ThreadTypes, HartFlags, Interruptible, Resuming, Owners,
     ProcOwner, Places, Nesting, NestingAt, HasProc, Has, HasTicks
<1>3. ASSUME NEW h \in Hart, ClockLock(h) PROVE ProcOwner'
  BY <1>3 DEF ClockLock, PushOff, HartTypes, ThreadTypes, HartFlags, Interruptible, Resuming,
     Owners, ProcOwner, Places, Spinning, Has
<1>4. ASSUME NEW h \in Hart, Tick(h) PROVE ProcOwner'
  BY <1>4 DEF Tick, WinTicks, HartTypes, ThreadTypes, HartFlags, Interruptible, Resuming,
     Owners, ProcOwner, Places, Spinning, Has
<1>5. ASSUME NEW h \in Hart, WakeNext(h) PROVE ProcOwner'
  BY <1>5 DEF WakeNext, HartTypes, ThreadTypes, HartFlags, Interruptible, Resuming, Owners,
     ProcOwner, Places, Spinning, Has
<1>6. ASSUME NEW h \in Hart, TickDone(h) PROVE ProcOwner'
  BY <1>6 DEF TickDone, PopOff, HartTypes, ThreadTypes, HartFlags, Interruptible, Resuming,
     Owners, ProcOwner, Places, Spinning, Has
<1>7. ASSUME NEW h \in Hart, YieldLock(h) PROVE ProcOwner'
  BY <1>7 DEF YieldLock, PushOff, HartTypes, ThreadTypes, HartFlags, Interruptible, Resuming,
     Owners, ProcOwner, Places, Spinning, Has
<1>8. ASSUME NEW h \in Hart, Yield(h) PROVE ProcOwner'
  BY <1>8 DEF Yield, WinProc, Switch, HartTypes, ThreadTypes, HartFlags, Interruptible,
     Resuming, Owners, ProcOwner, Places, Spinning, Has
<1>9. ASSUME NEW h \in Hart, YieldResumes(h) PROVE ProcOwner'
  BY <1>9 DEF YieldResumes, PopOff, HartTypes, ThreadTypes, HartFlags, Interruptible, Resuming,
     Owners, ProcOwner, Places, Spinning, Has
<1>10. ASSUME NEW h \in Hart, TrapReturn(h) PROVE ProcOwner'
  <2>1. (trap[h] = "return" \/ (trap[h] = "yield" /\ proc[h] = NoThread)) /\ trap'[h] = "none"
    BY <1>10 DEF TrapReturn, HartTypes, ThreadTypes, HartFlags
  <2>2. proc' = proc /\ at' = at /\ swtched' = swtched /\ spin' = spin
    BY <1>10 DEF TrapReturn
  <2>3. /\ proc[h] \in Thread \union {NoThread} /\ swtched[h] \in Thread \union {NoThread}
        /\ NoThread \notin Thread
        /\ swtched[h] # NoThread => proc[h] = NoThread /\ trap[h] = "none" /\ ~spin[h]
        /\ proc[h] # NoThread /\ trap[h] # "none" => at[proc[h]] \in Interruptible
    BY Here
  <2>4. Spinning(h)
    BY Here
  <2>6. ~HasTicks(h) /\ ~HasProc(h) /\ ~spin[h]
    BY <2>1, <2>3, <2>4 DEF Spinning, HasTicks, HasProc, Interruptible, Resuming
  <2>7. ~HasTicks(h)' /\ ~HasProc(h)' /\ ~spin[h]'
    BY <2>1, <2>2, <2>3, <2>4, <2>6 DEF Spinning, HasTicks, HasProc, Interruptible, Resuming
  <2>8. \A u \in Thread : (plock[u] = h <=> Has(h, u))'
    BY <1>10, <2>1, <2>2, <2>3 DEF TrapReturn, Owners, ProcOwner, Has, Interruptible, Resuming
  <2>9. ASSUME NEW g \in Hart, g # h PROVE \A u \in Thread : (plock[u] = g <=> Has(g, u))'
    <3>1. Unmoved(g)
      BY <1>10, <2>9 DEF Unmoved, TrapReturn, HartTypes, ThreadTypes, HartFlags, Places
    <3> QED BY <1>10, <3>1 DEF TrapReturn, Owners, ProcOwner, Has, Unmoved
  <2> QED BY <2>8, <2>9 DEF ProcOwner
<1>11. ASSUME NEW h \in Hart, BackInScheduler(h) PROVE ProcOwner'
  BY <1>11 DEF BackInScheduler, HartTypes, ThreadTypes, HartFlags, Interruptible, Resuming,
     Owners, ProcOwner, Places, Spinning, Has
<1>12. ASSUME NEW h \in Hart, NEW t \in Thread, Call(h, t) PROVE ProcOwner'
  BY <1>12 DEF Call, Runs, MoveTo, HartTypes, ThreadTypes, HartFlags, Interruptible, Resuming,
     Owners, ProcOwner, Places, Spinning, Has
<1>13. ASSUME NEW h \in Hart, NEW t \in Thread, PauseLock(h, t) PROVE ProcOwner'
  BY <1>13 DEF PauseLock, PushOff, Runs, HartTypes, ThreadTypes, HartFlags, Interruptible,
     Resuming, Owners, ProcOwner, Places, Spinning, Has
<1>14. ASSUME NEW h \in Hart, NEW t \in Thread, Pause(h, t) PROVE ProcOwner'
  BY <1>14 DEF Pause, WinTicks, Runs, MoveTo, HartTypes, ThreadTypes, HartFlags, Interruptible,
     Resuming, Owners, ProcOwner, Places, Spinning, Has
<1>15. ASSUME NEW h \in Hart, NEW t \in Thread, Relock(h, t) PROVE ProcOwner'
  BY <1>15 DEF Relock, WinTicks, Runs, MoveTo, HartTypes, ThreadTypes, HartFlags, Interruptible,
     Resuming, Owners, ProcOwner, Places, Spinning, Has
<1>16. ASSUME NEW h \in Hart, NEW t \in Thread, PauseEnds(h, t) PROVE ProcOwner'
  BY <1>16 DEF PauseEnds, PopOff, Runs, MoveTo, HartTypes, ThreadTypes, HartFlags,
     Interruptible, Resuming, Owners, ProcOwner, Places, Spinning, Has
<1>17. ASSUME NEW h \in Hart, NEW t \in Thread, PauseGoesOn(h, t) PROVE ProcOwner'
  BY <1>17 DEF PauseGoesOn, Runs, MoveTo, HartTypes, ThreadTypes, HartFlags, Interruptible,
     Resuming, Owners, ProcOwner, Places, Spinning, Has
<1>18. ASSUME NEW h \in Hart, NEW t \in Thread, SleepLock(h, t) PROVE ProcOwner'
  BY <1>18 DEF SleepLock, PushOff, Runs, HartTypes, ThreadTypes, HartFlags, Interruptible,
     Resuming, Owners, ProcOwner, Places, Spinning, Has
<1>19. ASSUME NEW h \in Hart, NEW t \in Thread, Sleep(h, t) PROVE ProcOwner'
  BY <1>19 DEF Sleep, WinProc, Switch, Runs, MoveTo, HartTypes, ThreadTypes, HartFlags,
     Interruptible, Resuming, Owners, ProcOwner, Places, Spinning, Has
<1>20. ASSUME NEW h \in Hart, NEW t \in Thread, Dispatch(h, t) PROVE ProcOwner'
  BY <1>20 DEF Dispatch, Restored, HartTypes, ThreadTypes, HartFlags, Interruptible, Resuming,
     Owners, ProcOwner, Places, Spinning, Has, Away
<1>21. ASSUME NEW h \in Hart, NEW t \in Thread, ForkRet(h, t) PROVE ProcOwner'
  BY <1>21 DEF ForkRet, Runs, MoveTo, PopOff, HartTypes, ThreadTypes, HartFlags, Interruptible,
     Resuming, Owners, ProcOwner, Places, Spinning, Has
<1>22. ASSUME NEW h \in Hart, NEW t \in Thread, Woken(h, t) PROVE ProcOwner'
  BY <1>22 DEF Woken, Runs, MoveTo, PopOff, HartTypes, ThreadTypes, HartFlags, Interruptible,
     Resuming, Owners, ProcOwner, Places, Spinning, Has
<1>23. ASSUME NEW t \in Thread, KillPausing(t) PROVE ProcOwner'
  BY <1>23 DEF KillPausing, HartTypes, ThreadTypes, HartFlags, Interruptible, Resuming, Owners,
     ProcOwner, Places, Spinning, Has
<1>24. ASSUME NEW h \in Hart, TimerInterrupt(h) PROVE ProcOwner'
  BY <1>2, <1>3, <1>4, <1>5, <1>6, <1>7, <1>8, <1>9, <1>10, <1>24 DEF TimerInterrupt
<1>25. ASSUME NEW h \in Hart, NEW t \in Thread, PauseCall(h, t) PROVE ProcOwner'
  BY <1>12, <1>13, <1>14, <1>15, <1>16, <1>17, <1>18, <1>19, <1>25 DEF PauseCall
<1>26. ASSUME NEW h \in Hart, NEW t \in Thread, Scheduling(h, t) PROVE ProcOwner'
  BY <1>20, <1>21, <1>22, <1>26 DEF Scheduling
<1> QED
  BY <1>1, <1>11, <1>23, <1>24, <1>25, <1>26 DEF ClockNext

\* noff counts the locks of the hart, and intena says where the outermost was taken.
LEMMA NestingStep ==
  ASSUME ClockInv, [ClockNext]_clockVars
  PROVE  Nesting'
<1> USE ClockAssumption DEF ClockInv, ClockTypes, Thread, NoThread,
              hartVars, threadVars, lockVars
<1>1. CASE UNCHANGED clockVars
  BY <1>1 DEF clockVars, HartTypes, ThreadTypes, HartFlags, Interruptible, Resuming, Owners,
     TicksOwner, ProcOwner, Places, Spinning, HasTicks, Has, Away, Nesting, NestingAt, HasProc
<1>2. ASSUME NEW h \in Hart, Timer(h) PROVE Nesting'
  BY <1>2 DEF Timer, HartTypes, ThreadTypes, HartFlags, Interruptible, Resuming, Owners,
     TicksOwner, ProcOwner, Places, Spinning, HasTicks, Has, Away, Nesting, NestingAt, HasProc
<1>3. ASSUME NEW h \in Hart, ClockLock(h) PROVE Nesting'
  <2>1. trap[h] = "clock" /\ ~spin[h] /\ spin'[h]
BY <1>3 DEF ClockLock, PushOff, HartTypes, ThreadTypes, HartFlags
  <2>2. proc' = proc /\ at' = at /\ swtched' = swtched /\ trap' = trap
    BY <1>3 DEF ClockLock, PushOff
  <2>3. /\ proc[h] \in Thread \union {NoThread} /\ swtched[h] \in Thread \union {NoThread}
        /\ NoThread \notin Thread
        /\ swtched[h] # NoThread => proc[h] = NoThread /\ trap[h] = "none" /\ ~spin[h]
        /\ proc[h] # NoThread /\ trap[h] # "none" => at[proc[h]] \in Interruptible
    BY Here
  <2>4. Spinning(h)
    BY Here
  <2>6. ~HasTicks(h) /\ ~HasProc(h) /\ ~spin[h]
    BY <2>1, <2>3, <2>4 DEF Spinning, HasTicks, HasProc, Interruptible, Resuming
  <2>7. ~HasTicks(h)' /\ ~HasProc(h)' /\ spin[h]'
    BY <2>1, <2>2, <2>3, <2>4, <2>6 DEF Spinning, HasTicks, HasProc, Interruptible, Resuming
  <2>8. NestingAt(h)'
BY <1>3, <2>1, <2>3, <2>6, <2>7 DEF ClockLock, PushOff, HartTypes, ThreadTypes, HartFlags,
       Nesting, NestingAt
  <2>9. ASSUME NEW g \in Hart, g # h PROVE NestingAt(g)'
    <3>1. Unmoved(g)
BY <1>3, <2>9 DEF Unmoved, ClockLock, PushOff, HartTypes, ThreadTypes, HartFlags, Places
    <3> QED BY <3>1, Elsewhere
  <2> QED BY <2>8, <2>9 DEF Nesting
<1>4. ASSUME NEW h \in Hart, Tick(h) PROVE Nesting'
  <2>1. trap[h] = "clock" /\ trap'[h] = "wakeup" /\ spin[h] /\ ~spin'[h]
BY <1>4 DEF Tick, WinTicks, HartTypes, ThreadTypes, HartFlags
  <2>2. proc' = proc /\ at' = at /\ swtched' = swtched
    BY <1>4 DEF Tick, WinTicks
  <2>3. /\ proc[h] \in Thread \union {NoThread} /\ swtched[h] \in Thread \union {NoThread}
        /\ NoThread \notin Thread
        /\ swtched[h] # NoThread => proc[h] = NoThread /\ trap[h] = "none" /\ ~spin[h]
        /\ proc[h] # NoThread /\ trap[h] # "none" => at[proc[h]] \in Interruptible
    BY Here
  <2>4. Spinning(h)
    BY Here
  <2>6. ~HasTicks(h) /\ ~HasProc(h) /\ spin[h]
    BY <2>1, <2>3, <2>4 DEF Spinning, HasTicks, HasProc, Interruptible, Resuming
  <2>7. HasTicks(h)' /\ ~HasProc(h)' /\ ~spin[h]'
    BY <2>1, <2>2, <2>3, <2>4, <2>6 DEF Spinning, HasTicks, HasProc, Interruptible, Resuming
  <2>8. NestingAt(h)'
BY <1>4, <2>1, <2>3, <2>6, <2>7 DEF Tick, WinTicks, HartTypes, ThreadTypes, HartFlags, Nesting,
       NestingAt
  <2>9. ASSUME NEW g \in Hart, g # h PROVE NestingAt(g)'
    <3>1. Unmoved(g)
BY <1>4, <2>9 DEF Unmoved, Tick, WinTicks, HartTypes, ThreadTypes, HartFlags, Places
    <3> QED BY <3>1, Elsewhere
  <2> QED BY <2>8, <2>9 DEF Nesting
<1>5. ASSUME NEW h \in Hart, WakeNext(h) PROVE Nesting'
  BY <1>5 DEF WakeNext, HartTypes, ThreadTypes, HartFlags, Interruptible, Resuming, Owners,
     TicksOwner, ProcOwner, Places, Spinning, HasTicks, Has, Away, Nesting, NestingAt, HasProc
<1>6. ASSUME NEW h \in Hart, TickDone(h) PROVE Nesting'
  <2>1. trap[h] = "wakeup" /\ trap'[h] = "yield"
    BY <1>6 DEF TickDone, PopOff, HartTypes, ThreadTypes, HartFlags
  <2>2. proc' = proc /\ at' = at /\ swtched' = swtched /\ spin' = spin
    BY <1>6 DEF TickDone, PopOff
  <2>3. /\ proc[h] \in Thread \union {NoThread} /\ swtched[h] \in Thread \union {NoThread}
        /\ NoThread \notin Thread
        /\ swtched[h] # NoThread => proc[h] = NoThread /\ trap[h] = "none" /\ ~spin[h]
        /\ proc[h] # NoThread /\ trap[h] # "none" => at[proc[h]] \in Interruptible
    BY Here
  <2>4. Spinning(h)
    BY Here
  <2>6. HasTicks(h) /\ ~HasProc(h) /\ ~spin[h]
    BY <2>1, <2>3, <2>4 DEF Spinning, HasTicks, HasProc, Interruptible, Resuming
  <2>7. ~HasTicks(h)' /\ ~HasProc(h)' /\ ~spin[h]'
    BY <2>1, <2>2, <2>3, <2>4, <2>6 DEF Spinning, HasTicks, HasProc, Interruptible, Resuming
  <2>8. NestingAt(h)'
    BY <1>6, <2>1, <2>3, <2>6, <2>7 DEF TickDone, PopOff, HartTypes, ThreadTypes, HartFlags,
       Nesting, NestingAt
  <2>9. ASSUME NEW g \in Hart, g # h PROVE NestingAt(g)'
    <3>1. Unmoved(g)
      BY <1>6, <2>9 DEF Unmoved, TickDone, PopOff, HartTypes, ThreadTypes, HartFlags, Places
    <3> QED BY <3>1, Elsewhere
  <2> QED BY <2>8, <2>9 DEF Nesting
<1>7. ASSUME NEW h \in Hart, YieldLock(h) PROVE Nesting'
  <2>1. trap[h] = "yield" /\ ~spin[h] /\ spin'[h] /\ proc[h] # NoThread
    BY <1>7 DEF YieldLock, PushOff, HartTypes, ThreadTypes, HartFlags
  <2>2. proc' = proc /\ at' = at /\ swtched' = swtched /\ trap' = trap
    BY <1>7 DEF YieldLock, PushOff
  <2>3. /\ proc[h] \in Thread \union {NoThread} /\ swtched[h] \in Thread \union {NoThread}
        /\ NoThread \notin Thread
        /\ swtched[h] # NoThread => proc[h] = NoThread /\ trap[h] = "none" /\ ~spin[h]
        /\ proc[h] # NoThread /\ trap[h] # "none" => at[proc[h]] \in Interruptible
    BY Here
  <2>4. Spinning(h)
    BY Here
  <2>6. ~HasTicks(h) /\ ~HasProc(h) /\ ~spin[h]
    BY <2>1, <2>3, <2>4 DEF Spinning, HasTicks, HasProc, Interruptible, Resuming
  <2>7. ~HasTicks(h)' /\ ~HasProc(h)' /\ spin[h]'
    BY <2>1, <2>2, <2>3, <2>4, <2>6 DEF Spinning, HasTicks, HasProc, Interruptible, Resuming
  <2>8. NestingAt(h)'
    BY <1>7, <2>1, <2>3, <2>6, <2>7 DEF YieldLock, PushOff, HartTypes, ThreadTypes, HartFlags,
       Nesting, NestingAt
  <2>9. ASSUME NEW g \in Hart, g # h PROVE NestingAt(g)'
    <3>1. Unmoved(g)
      BY <1>7, <2>9 DEF Unmoved, YieldLock, PushOff, HartTypes, ThreadTypes, HartFlags, Places
    <3> QED BY <3>1, Elsewhere
  <2> QED BY <2>8, <2>9 DEF Nesting
<1>8. ASSUME NEW h \in Hart, Yield(h) PROVE Nesting'
  <2>1. trap[h] = "yield" /\ trap'[h] = "none" /\ spin[h] /\ ~spin'[h] /\ proc[h] \in Thread /\
       proc'[h] = NoThread /\ swtched'[h] = proc[h]
    BY <1>8 DEF Yield, WinProc, Switch, HartTypes, ThreadTypes, HartFlags
  <2>2. at' = at
    BY <1>8 DEF Yield, WinProc, Switch
  <2>3. /\ proc[h] \in Thread \union {NoThread} /\ swtched[h] \in Thread \union {NoThread}
        /\ NoThread \notin Thread
        /\ swtched[h] # NoThread => proc[h] = NoThread /\ trap[h] = "none" /\ ~spin[h]
        /\ proc[h] # NoThread /\ trap[h] # "none" => at[proc[h]] \in Interruptible
    BY Here
  <2>4. Spinning(h)
    BY Here
  <2>6. ~HasTicks(h) /\ ~HasProc(h) /\ spin[h]
    BY <2>1, <2>3, <2>4 DEF Spinning, HasTicks, HasProc, Interruptible, Resuming
  <2>7. ~HasTicks(h)' /\ HasProc(h)' /\ ~spin[h]'
    BY <2>1, <2>2, <2>3, <2>4, <2>6 DEF Spinning, HasTicks, HasProc, Interruptible, Resuming
  <2>8. NestingAt(h)'
    BY <1>8, <2>1, <2>3, <2>6, <2>7 DEF Yield, WinProc, Switch, HartTypes, ThreadTypes,
       HartFlags, Nesting, NestingAt
  <2>9. ASSUME NEW g \in Hart, g # h PROVE NestingAt(g)'
    <3>1. Unmoved(g)
      BY <1>8, <2>9 DEF Unmoved, Yield, WinProc, Switch, HartTypes, ThreadTypes, HartFlags,
         Places
    <3> QED BY <3>1, Elsewhere
  <2> QED BY <2>8, <2>9 DEF Nesting
<1>9. ASSUME NEW h \in Hart, YieldResumes(h) PROVE Nesting'
  <2>1. trap[h] = "resume" /\ trap'[h] = "return"
    BY <1>9 DEF YieldResumes, PopOff, HartTypes, ThreadTypes, HartFlags
  <2>2. proc' = proc /\ at' = at /\ swtched' = swtched /\ spin' = spin
    BY <1>9 DEF YieldResumes, PopOff
  <2>3. /\ proc[h] \in Thread \union {NoThread} /\ swtched[h] \in Thread \union {NoThread}
        /\ NoThread \notin Thread
        /\ swtched[h] # NoThread => proc[h] = NoThread /\ trap[h] = "none" /\ ~spin[h]
        /\ proc[h] # NoThread /\ trap[h] # "none" => at[proc[h]] \in Interruptible
    BY Here
  <2>4. Spinning(h)
    BY Here
  <2>6. ~HasTicks(h) /\ HasProc(h) /\ ~spin[h]
    BY <2>1, <2>3, <2>4 DEF Spinning, HasTicks, HasProc, Interruptible, Resuming
  <2>7. ~HasTicks(h)' /\ ~HasProc(h)' /\ ~spin[h]'
    BY <2>1, <2>2, <2>3, <2>4, <2>6 DEF Spinning, HasTicks, HasProc, Interruptible, Resuming
  <2>8. NestingAt(h)'
    BY <1>9, <2>1, <2>3, <2>6, <2>7 DEF YieldResumes, PopOff, HartTypes, ThreadTypes, HartFlags,
       Nesting, NestingAt
  <2>9. ASSUME NEW g \in Hart, g # h PROVE NestingAt(g)'
    <3>1. Unmoved(g)
      BY <1>9, <2>9 DEF Unmoved, YieldResumes, PopOff, HartTypes, ThreadTypes, HartFlags, Places
    <3> QED BY <3>1, Elsewhere
  <2> QED BY <2>8, <2>9 DEF Nesting
<1>10. ASSUME NEW h \in Hart, TrapReturn(h) PROVE Nesting'
  <2>1. (trap[h] = "return" \/ (trap[h] = "yield" /\ proc[h] = NoThread)) /\ trap'[h] = "none"
    BY <1>10 DEF TrapReturn, HartTypes, ThreadTypes, HartFlags
  <2>2. proc' = proc /\ at' = at /\ swtched' = swtched /\ spin' = spin
    BY <1>10 DEF TrapReturn
  <2>3. /\ proc[h] \in Thread \union {NoThread} /\ swtched[h] \in Thread \union {NoThread}
        /\ NoThread \notin Thread
        /\ swtched[h] # NoThread => proc[h] = NoThread /\ trap[h] = "none" /\ ~spin[h]
        /\ proc[h] # NoThread /\ trap[h] # "none" => at[proc[h]] \in Interruptible
    BY Here
  <2>4. Spinning(h)
    BY Here
  <2>6. ~HasTicks(h) /\ ~HasProc(h) /\ ~spin[h]
    BY <2>1, <2>3, <2>4 DEF Spinning, HasTicks, HasProc, Interruptible, Resuming
  <2>7. ~HasTicks(h)' /\ ~HasProc(h)' /\ ~spin[h]'
    BY <2>1, <2>2, <2>3, <2>4, <2>6 DEF Spinning, HasTicks, HasProc, Interruptible, Resuming
  <2>8. NestingAt(h)'
    BY <1>10, <2>1, <2>3, <2>6, <2>7 DEF TrapReturn, HartTypes, ThreadTypes, HartFlags, Nesting,
       NestingAt
  <2>9. ASSUME NEW g \in Hart, g # h PROVE NestingAt(g)'
    <3>1. Unmoved(g)
      BY <1>10, <2>9 DEF Unmoved, TrapReturn, HartTypes, ThreadTypes, HartFlags, Places
    <3> QED BY <3>1, Elsewhere
  <2> QED BY <2>8, <2>9 DEF Nesting
<1>11. ASSUME NEW h \in Hart, BackInScheduler(h) PROVE Nesting'
  <2>1. swtched[h] # NoThread /\ swtched'[h] = NoThread
    BY <1>11 DEF BackInScheduler, HartTypes, ThreadTypes, HartFlags
  <2>2. proc' = proc /\ at' = at /\ trap' = trap /\ spin' = spin
    BY <1>11 DEF BackInScheduler
  <2>3. /\ proc[h] \in Thread \union {NoThread} /\ swtched[h] \in Thread \union {NoThread}
        /\ NoThread \notin Thread
        /\ swtched[h] # NoThread => proc[h] = NoThread /\ trap[h] = "none" /\ ~spin[h]
        /\ proc[h] # NoThread /\ trap[h] # "none" => at[proc[h]] \in Interruptible
    BY Here
  <2>4. Spinning(h)
    BY Here
  <2>6. ~HasTicks(h) /\ HasProc(h) /\ ~spin[h]
    BY <2>1, <2>3, <2>4 DEF Spinning, HasTicks, HasProc, Interruptible, Resuming
  <2>7. ~HasTicks(h)' /\ ~HasProc(h)' /\ ~spin[h]'
    BY <2>1, <2>2, <2>3, <2>4, <2>6 DEF Spinning, HasTicks, HasProc, Interruptible, Resuming
  <2>8. NestingAt(h)'
    BY <1>11, <2>1, <2>3, <2>6, <2>7 DEF BackInScheduler, HartTypes, ThreadTypes, HartFlags,
       Nesting, NestingAt
  <2>9. ASSUME NEW g \in Hart, g # h PROVE NestingAt(g)'
    <3>1. Unmoved(g)
      BY <1>11, <2>9 DEF Unmoved, BackInScheduler, HartTypes, ThreadTypes, HartFlags, Places
    <3> QED BY <3>1, Elsewhere
  <2> QED BY <2>8, <2>9 DEF Nesting
<1>12. ASSUME NEW h \in Hart, NEW t \in Thread, Call(h, t) PROVE Nesting'
  <2>1. trap[h] = "none" /\ proc[h] = t /\ at[t] = "user" /\ at'[t] = "pause"
    BY <1>12 DEF Call, Runs, MoveTo, HartTypes, ThreadTypes, HartFlags
  <2>2. proc' = proc /\ trap' = trap /\ swtched' = swtched /\ spin' = spin
    BY <1>12 DEF Call, Runs, MoveTo
  <2>3. /\ proc[h] \in Thread \union {NoThread} /\ swtched[h] \in Thread \union {NoThread}
        /\ NoThread \notin Thread
        /\ swtched[h] # NoThread => proc[h] = NoThread /\ trap[h] = "none" /\ ~spin[h]
        /\ proc[h] # NoThread /\ trap[h] # "none" => at[proc[h]] \in Interruptible
    BY Here
  <2>4. Spinning(h)
    BY Here
  <2>6. ~HasTicks(h) /\ ~HasProc(h) /\ ~spin[h]
    BY <2>1, <2>3, <2>4 DEF Spinning, HasTicks, HasProc, Interruptible, Resuming
  <2>7. ~HasTicks(h)' /\ ~HasProc(h)' /\ ~spin[h]'
    BY <2>1, <2>2, <2>3, <2>4, <2>6 DEF Spinning, HasTicks, HasProc, Interruptible, Resuming
  <2>8. NestingAt(h)'
    BY <1>12, <2>1, <2>3, <2>6, <2>7 DEF Call, Runs, MoveTo, HartTypes, ThreadTypes, HartFlags,
       Nesting, NestingAt
  <2>9. ASSUME NEW g \in Hart, g # h PROVE NestingAt(g)'
    <3>1. Unmoved(g)
      BY <1>12, <2>9 DEF Unmoved, Call, Runs, MoveTo, HartTypes, ThreadTypes, HartFlags, Places
    <3> QED BY <3>1, Elsewhere
  <2> QED BY <2>8, <2>9 DEF Nesting
<1>13. ASSUME NEW h \in Hart, NEW t \in Thread, PauseLock(h, t) PROVE Nesting'
  <2>1. /\ trap[h] = "none" /\ proc[h] = t /\ at[t] \in {"pause", "relock"}
        /\ ~spin[h] /\ spin'[h]
BY <1>13 DEF PauseLock, PushOff, Runs, HartTypes, ThreadTypes, HartFlags
  <2>2. proc' = proc /\ at' = at /\ swtched' = swtched /\ trap' = trap
    BY <1>13 DEF PauseLock, PushOff, Runs
  <2>3. /\ proc[h] \in Thread \union {NoThread} /\ swtched[h] \in Thread \union {NoThread}
        /\ NoThread \notin Thread
        /\ swtched[h] # NoThread => proc[h] = NoThread /\ trap[h] = "none" /\ ~spin[h]
        /\ proc[h] # NoThread /\ trap[h] # "none" => at[proc[h]] \in Interruptible
    BY Here
  <2>4. Spinning(h)
    BY Here
  <2>6. ~HasTicks(h) /\ ~HasProc(h) /\ ~spin[h]
    BY <2>1, <2>3, <2>4 DEF Spinning, HasTicks, HasProc, Interruptible, Resuming
  <2>7. ~HasTicks(h)' /\ ~HasProc(h)' /\ spin[h]'
    BY <2>1, <2>2, <2>3, <2>4, <2>6 DEF Spinning, HasTicks, HasProc, Interruptible, Resuming
  <2>8. NestingAt(h)'
BY <1>13, <2>1, <2>3, <2>6, <2>7 DEF PauseLock, PushOff, Runs, HartTypes, ThreadTypes,
       HartFlags, Nesting, NestingAt
  <2>9. ASSUME NEW g \in Hart, g # h PROVE NestingAt(g)'
    <3>1. Unmoved(g)
BY <1>13, <2>9 DEF Unmoved, PauseLock, PushOff, Runs, HartTypes, ThreadTypes, HartFlags, Places
    <3> QED BY <3>1, Elsewhere
  <2> QED BY <2>8, <2>9 DEF Nesting
<1>14. ASSUME NEW h \in Hart, NEW t \in Thread, Pause(h, t) PROVE Nesting'
  <2>1. /\ trap[h] = "none" /\ proc[h] = t /\ at[t] = "pause" /\ at'[t] = "test"
        /\ spin[h] /\ ~spin'[h]
BY <1>14 DEF Pause, WinTicks, Runs, MoveTo, HartTypes, ThreadTypes, HartFlags
  <2>2. proc' = proc /\ trap' = trap /\ swtched' = swtched
    BY <1>14 DEF Pause, WinTicks, Runs, MoveTo
  <2>3. /\ proc[h] \in Thread \union {NoThread} /\ swtched[h] \in Thread \union {NoThread}
        /\ NoThread \notin Thread
        /\ swtched[h] # NoThread => proc[h] = NoThread /\ trap[h] = "none" /\ ~spin[h]
        /\ proc[h] # NoThread /\ trap[h] # "none" => at[proc[h]] \in Interruptible
    BY Here
  <2>4. Spinning(h)
    BY Here
  <2>6. ~HasTicks(h) /\ ~HasProc(h) /\ spin[h]
    BY <2>1, <2>3, <2>4 DEF Spinning, HasTicks, HasProc, Interruptible, Resuming
  <2>7. HasTicks(h)' /\ ~HasProc(h)' /\ ~spin[h]'
    BY <2>1, <2>2, <2>3, <2>4, <2>6 DEF Spinning, HasTicks, HasProc, Interruptible, Resuming
  <2>8. NestingAt(h)'
BY <1>14, <2>1, <2>3, <2>6, <2>7 DEF Pause, WinTicks, Runs, MoveTo, HartTypes, ThreadTypes,
       HartFlags, Nesting, NestingAt
  <2>9. ASSUME NEW g \in Hart, g # h PROVE NestingAt(g)'
    <3>1. Unmoved(g)
BY <1>14, <2>9 DEF Unmoved, Pause, WinTicks, Runs, MoveTo, HartTypes, ThreadTypes, HartFlags,
         Places
    <3> QED BY <3>1, Elsewhere
  <2> QED BY <2>8, <2>9 DEF Nesting
<1>15. ASSUME NEW h \in Hart, NEW t \in Thread, Relock(h, t) PROVE Nesting'
  <2>1. /\ trap[h] = "none" /\ proc[h] = t /\ at[t] = "relock" /\ at'[t] = "test"
        /\ spin[h] /\ ~spin'[h]
BY <1>15 DEF Relock, WinTicks, Runs, MoveTo, HartTypes, ThreadTypes, HartFlags
  <2>2. proc' = proc /\ trap' = trap /\ swtched' = swtched
    BY <1>15 DEF Relock, WinTicks, Runs, MoveTo
  <2>3. /\ proc[h] \in Thread \union {NoThread} /\ swtched[h] \in Thread \union {NoThread}
        /\ NoThread \notin Thread
        /\ swtched[h] # NoThread => proc[h] = NoThread /\ trap[h] = "none" /\ ~spin[h]
        /\ proc[h] # NoThread /\ trap[h] # "none" => at[proc[h]] \in Interruptible
    BY Here
  <2>4. Spinning(h)
    BY Here
  <2>6. ~HasTicks(h) /\ ~HasProc(h) /\ spin[h]
    BY <2>1, <2>3, <2>4 DEF Spinning, HasTicks, HasProc, Interruptible, Resuming
  <2>7. HasTicks(h)' /\ ~HasProc(h)' /\ ~spin[h]'
    BY <2>1, <2>2, <2>3, <2>4, <2>6 DEF Spinning, HasTicks, HasProc, Interruptible, Resuming
  <2>8. NestingAt(h)'
BY <1>15, <2>1, <2>3, <2>6, <2>7 DEF Relock, WinTicks, Runs, MoveTo, HartTypes, ThreadTypes,
       HartFlags, Nesting, NestingAt
  <2>9. ASSUME NEW g \in Hart, g # h PROVE NestingAt(g)'
    <3>1. Unmoved(g)
BY <1>15, <2>9 DEF Unmoved, Relock, WinTicks, Runs, MoveTo, HartTypes, ThreadTypes, HartFlags,
         Places
    <3> QED BY <3>1, Elsewhere
  <2> QED BY <2>8, <2>9 DEF Nesting
<1>16. ASSUME NEW h \in Hart, NEW t \in Thread, PauseEnds(h, t) PROVE Nesting'
  <2>1. trap[h] = "none" /\ proc[h] = t /\ at[t] = "test" /\ at'[t] = "user"
    BY <1>16 DEF PauseEnds, PopOff, Runs, MoveTo, HartTypes, ThreadTypes, HartFlags
  <2>2. proc' = proc /\ trap' = trap /\ swtched' = swtched /\ spin' = spin
    BY <1>16 DEF PauseEnds, PopOff, Runs, MoveTo
  <2>3. /\ proc[h] \in Thread \union {NoThread} /\ swtched[h] \in Thread \union {NoThread}
        /\ NoThread \notin Thread
        /\ swtched[h] # NoThread => proc[h] = NoThread /\ trap[h] = "none" /\ ~spin[h]
        /\ proc[h] # NoThread /\ trap[h] # "none" => at[proc[h]] \in Interruptible
    BY Here
  <2>4. Spinning(h)
    BY Here
  <2>6. HasTicks(h) /\ ~HasProc(h) /\ ~spin[h]
    BY <2>1, <2>3, <2>4 DEF Spinning, HasTicks, HasProc, Interruptible, Resuming
  <2>7. ~HasTicks(h)' /\ ~HasProc(h)' /\ ~spin[h]'
    BY <2>1, <2>2, <2>3, <2>4, <2>6 DEF Spinning, HasTicks, HasProc, Interruptible, Resuming
  <2>8. NestingAt(h)'
    BY <1>16, <2>1, <2>3, <2>6, <2>7 DEF PauseEnds, PopOff, Runs, MoveTo, HartTypes,
       ThreadTypes, HartFlags, Nesting, NestingAt
  <2>9. ASSUME NEW g \in Hart, g # h PROVE NestingAt(g)'
    <3>1. Unmoved(g)
      BY <1>16, <2>9 DEF Unmoved, PauseEnds, PopOff, Runs, MoveTo, HartTypes, ThreadTypes,
         HartFlags, Places
    <3> QED BY <3>1, Elsewhere
  <2> QED BY <2>8, <2>9 DEF Nesting
<1>17. ASSUME NEW h \in Hart, NEW t \in Thread, PauseGoesOn(h, t) PROVE Nesting'
  <2>1. trap[h] = "none" /\ proc[h] = t /\ at[t] = "test" /\ at'[t] = "sleep"
BY <1>17 DEF PauseGoesOn, Runs, MoveTo, HartTypes, ThreadTypes, HartFlags
  <2>2. proc' = proc /\ trap' = trap /\ swtched' = swtched /\ spin' = spin
    BY <1>17 DEF PauseGoesOn, Runs, MoveTo
  <2>3. /\ proc[h] \in Thread \union {NoThread} /\ swtched[h] \in Thread \union {NoThread}
        /\ NoThread \notin Thread
        /\ swtched[h] # NoThread => proc[h] = NoThread /\ trap[h] = "none" /\ ~spin[h]
        /\ proc[h] # NoThread /\ trap[h] # "none" => at[proc[h]] \in Interruptible
    BY Here
  <2>4. Spinning(h)
    BY Here
  <2>6. HasTicks(h) /\ ~HasProc(h) /\ ~spin[h]
    BY <2>1, <2>3, <2>4 DEF Spinning, HasTicks, HasProc, Interruptible, Resuming
  <2>7. HasTicks(h)' /\ ~HasProc(h)' /\ ~spin[h]'
    BY <2>1, <2>2, <2>3, <2>4, <2>6 DEF Spinning, HasTicks, HasProc, Interruptible, Resuming
  <2>8. NestingAt(h)'
BY <1>17, <2>1, <2>3, <2>6, <2>7 DEF PauseGoesOn, Runs, MoveTo, HartTypes, ThreadTypes,
       HartFlags, Nesting, NestingAt
  <2>9. ASSUME NEW g \in Hart, g # h PROVE NestingAt(g)'
    <3>1. Unmoved(g)
BY <1>17, <2>9 DEF Unmoved, PauseGoesOn, Runs, MoveTo, HartTypes, ThreadTypes, HartFlags, Places
    <3> QED BY <3>1, Elsewhere
  <2> QED BY <2>8, <2>9 DEF Nesting
<1>18. ASSUME NEW h \in Hart, NEW t \in Thread, SleepLock(h, t) PROVE Nesting'
  <2>1. trap[h] = "none" /\ proc[h] = t /\ at[t] = "sleep" /\ ~spin[h] /\ spin'[h]
    BY <1>18 DEF SleepLock, PushOff, Runs, HartTypes, ThreadTypes, HartFlags
  <2>2. proc' = proc /\ trap' = trap /\ swtched' = swtched /\ at' = at
    BY <1>18 DEF SleepLock, PushOff, Runs
  <2>3. /\ proc[h] \in Thread \union {NoThread} /\ swtched[h] \in Thread \union {NoThread}
        /\ NoThread \notin Thread
        /\ swtched[h] # NoThread => proc[h] = NoThread /\ trap[h] = "none" /\ ~spin[h]
        /\ proc[h] # NoThread /\ trap[h] # "none" => at[proc[h]] \in Interruptible
    BY Here
  <2>4. Spinning(h)
    BY Here
  <2>6. HasTicks(h) /\ ~HasProc(h) /\ ~spin[h]
    BY <2>1, <2>3, <2>4 DEF Spinning, HasTicks, HasProc, Interruptible, Resuming
  <2>7. HasTicks(h)' /\ ~HasProc(h)' /\ spin[h]'
    BY <2>1, <2>2, <2>3, <2>4, <2>6 DEF Spinning, HasTicks, HasProc, Interruptible, Resuming
  <2>8. NestingAt(h)'
    BY <1>18, <2>1, <2>3, <2>6, <2>7 DEF SleepLock, PushOff, Runs, HartTypes, ThreadTypes,
       HartFlags, Nesting, NestingAt
  <2>9. ASSUME NEW g \in Hart, g # h PROVE NestingAt(g)'
    <3>1. Unmoved(g)
      BY <1>18, <2>9 DEF Unmoved, SleepLock, PushOff, Runs, HartTypes, ThreadTypes, HartFlags,
         Places
    <3> QED BY <3>1, Elsewhere
  <2> QED BY <2>8, <2>9 DEF Nesting
<1>19. ASSUME NEW h \in Hart, NEW t \in Thread, Sleep(h, t) PROVE Nesting'
  <2>1. trap[h] = "none" /\ proc[h] = t /\ proc'[h] = NoThread /\ swtched'[h] = t /\ at[t] =
       "sleep" /\ spin[h] /\ ~spin'[h]
    BY <1>19 DEF Sleep, WinProc, Switch, Runs, MoveTo, HartTypes, ThreadTypes, HartFlags
  <2>2. trap' = trap
    BY <1>19 DEF Sleep, WinProc, Switch, Runs, MoveTo
  <2>3. /\ proc[h] \in Thread \union {NoThread} /\ swtched[h] \in Thread \union {NoThread}
        /\ NoThread \notin Thread
        /\ swtched[h] # NoThread => proc[h] = NoThread /\ trap[h] = "none" /\ ~spin[h]
        /\ proc[h] # NoThread /\ trap[h] # "none" => at[proc[h]] \in Interruptible
    BY Here
  <2>4. Spinning(h)
    BY Here
  <2>6. HasTicks(h) /\ ~HasProc(h) /\ spin[h]
    BY <2>1, <2>3, <2>4 DEF Spinning, HasTicks, HasProc, Interruptible, Resuming
  <2>7. ~HasTicks(h)' /\ HasProc(h)' /\ ~spin[h]'
    BY <2>1, <2>2, <2>3, <2>4, <2>6 DEF Spinning, HasTicks, HasProc, Interruptible, Resuming
  <2>8. NestingAt(h)'
    BY <1>19, <2>1, <2>3, <2>6, <2>7 DEF Sleep, WinProc, Switch, Runs, MoveTo, HartTypes,
       ThreadTypes, HartFlags, Nesting, NestingAt
  <2>9. ASSUME NEW g \in Hart, g # h PROVE NestingAt(g)'
    <3>1. Unmoved(g)
      BY <1>19, <2>9 DEF Unmoved, Sleep, WinProc, Switch, Runs, MoveTo, HartTypes, ThreadTypes,
         HartFlags, Places
    <3> QED BY <3>1, Elsewhere
  <2> QED BY <2>8, <2>9 DEF Nesting
<1>20. ASSUME NEW h \in Hart, NEW t \in Thread, Dispatch(h, t) PROVE Nesting'
  <2>1. trap[h] = "none" /\ proc[h] = NoThread /\ proc'[h] = t /\ swtched[h] = NoThread /\
       trap'[h] = (IF yielded[t] THEN "resume" ELSE "none")
    BY <1>20 DEF Dispatch, Restored, HartTypes, ThreadTypes, HartFlags
  <2>2. swtched' = swtched /\ at' = at /\ spin' = spin
    BY <1>20 DEF Dispatch, Restored
  <2>3. /\ proc[h] \in Thread \union {NoThread} /\ swtched[h] \in Thread \union {NoThread}
        /\ NoThread \notin Thread
        /\ swtched[h] # NoThread => proc[h] = NoThread /\ trap[h] = "none" /\ ~spin[h]
        /\ proc[h] # NoThread /\ trap[h] # "none" => at[proc[h]] \in Interruptible
    BY Here
  <2>4. Spinning(h)
    BY Here
  <2>5. NoThread \notin Thread /\ (yielded[t] => at[t] \in Interruptible) /\ (~yielded[t] =>
       at[t] \in Resuming) /\ (saved[t] <=> ~yielded[t])
    BY <1>20 DEF Dispatch, Restored, HartTypes, ThreadTypes, HartFlags, Places, Away
  <2>6. ~HasTicks(h) /\ ~HasProc(h) /\ ~spin[h]
    BY <2>1, <2>3, <2>4 DEF Spinning, HasTicks, HasProc, Interruptible, Resuming
  <2>7. ~HasTicks(h)' /\ HasProc(h)' /\ ~spin[h]'
    BY <2>1, <2>2, <2>3, <2>4, <2>6, <2>5 DEF Spinning, HasTicks, HasProc, Interruptible,
       Resuming
  <2>8. NestingAt(h)'
    BY <1>20, <2>1, <2>3, <2>6, <2>7, <2>5 DEF Dispatch, Restored, HartTypes, ThreadTypes,
       HartFlags, Nesting, NestingAt
  <2>9. ASSUME NEW g \in Hart, g # h PROVE NestingAt(g)'
    <3>1. Unmoved(g)
      BY <1>20, <2>9 DEF Unmoved, Dispatch, Restored, HartTypes, ThreadTypes, HartFlags, Places
    <3> QED BY <3>1, Elsewhere
  <2> QED BY <2>8, <2>9 DEF Nesting
<1>21. ASSUME NEW h \in Hart, NEW t \in Thread, ForkRet(h, t) PROVE Nesting'
  <2>1. trap[h] = "none" /\ proc[h] = t /\ at[t] = "forkret" /\ at'[t] = "user"
    BY <1>21 DEF ForkRet, Runs, MoveTo, PopOff, HartTypes, ThreadTypes, HartFlags
  <2>2. proc' = proc /\ trap' = trap /\ swtched' = swtched /\ spin' = spin
    BY <1>21 DEF ForkRet, Runs, MoveTo, PopOff
  <2>3. /\ proc[h] \in Thread \union {NoThread} /\ swtched[h] \in Thread \union {NoThread}
        /\ NoThread \notin Thread
        /\ swtched[h] # NoThread => proc[h] = NoThread /\ trap[h] = "none" /\ ~spin[h]
        /\ proc[h] # NoThread /\ trap[h] # "none" => at[proc[h]] \in Interruptible
    BY Here
  <2>4. Spinning(h)
    BY Here
  <2>6. ~HasTicks(h) /\ HasProc(h) /\ ~spin[h]
    BY <2>1, <2>3, <2>4 DEF Spinning, HasTicks, HasProc, Interruptible, Resuming
  <2>7. ~HasTicks(h)' /\ ~HasProc(h)' /\ ~spin[h]'
    BY <2>1, <2>2, <2>3, <2>4, <2>6 DEF Spinning, HasTicks, HasProc, Interruptible, Resuming
  <2>8. NestingAt(h)'
    BY <1>21, <2>1, <2>3, <2>6, <2>7 DEF ForkRet, Runs, MoveTo, PopOff, HartTypes, ThreadTypes,
       HartFlags, Nesting, NestingAt
  <2>9. ASSUME NEW g \in Hart, g # h PROVE NestingAt(g)'
    <3>1. Unmoved(g)
      BY <1>21, <2>9 DEF Unmoved, ForkRet, Runs, MoveTo, PopOff, HartTypes, ThreadTypes,
         HartFlags, Places
    <3> QED BY <3>1, Elsewhere
  <2> QED BY <2>8, <2>9 DEF Nesting
<1>22. ASSUME NEW h \in Hart, NEW t \in Thread, Woken(h, t) PROVE Nesting'
  <2>1. trap[h] = "none" /\ proc[h] = t /\ at[t] = "woken" /\ at'[t] = "relock"
    BY <1>22 DEF Woken, Runs, MoveTo, PopOff, HartTypes, ThreadTypes, HartFlags
  <2>2. proc' = proc /\ trap' = trap /\ swtched' = swtched /\ spin' = spin
    BY <1>22 DEF Woken, Runs, MoveTo, PopOff
  <2>3. /\ proc[h] \in Thread \union {NoThread} /\ swtched[h] \in Thread \union {NoThread}
        /\ NoThread \notin Thread
        /\ swtched[h] # NoThread => proc[h] = NoThread /\ trap[h] = "none" /\ ~spin[h]
        /\ proc[h] # NoThread /\ trap[h] # "none" => at[proc[h]] \in Interruptible
    BY Here
  <2>4. Spinning(h)
    BY Here
  <2>6. ~HasTicks(h) /\ HasProc(h) /\ ~spin[h]
    BY <2>1, <2>3, <2>4 DEF Spinning, HasTicks, HasProc, Interruptible, Resuming
  <2>7. ~HasTicks(h)' /\ ~HasProc(h)' /\ ~spin[h]'
    BY <2>1, <2>2, <2>3, <2>4, <2>6 DEF Spinning, HasTicks, HasProc, Interruptible, Resuming
  <2>8. NestingAt(h)'
    BY <1>22, <2>1, <2>3, <2>6, <2>7 DEF Woken, Runs, MoveTo, PopOff, HartTypes, ThreadTypes,
       HartFlags, Nesting, NestingAt
  <2>9. ASSUME NEW g \in Hart, g # h PROVE NestingAt(g)'
    <3>1. Unmoved(g)
      BY <1>22, <2>9 DEF Unmoved, Woken, Runs, MoveTo, PopOff, HartTypes, ThreadTypes,
         HartFlags, Places
    <3> QED BY <3>1, Elsewhere
  <2> QED BY <2>8, <2>9 DEF Nesting
<1>23. ASSUME NEW t \in Thread, KillPausing(t) PROVE Nesting'
  BY <1>23 DEF KillPausing, HartTypes, ThreadTypes, HartFlags, Interruptible, Resuming, Owners,
     TicksOwner, ProcOwner, Places, Spinning, HasTicks, Has, Away, Nesting, NestingAt, HasProc
<1>24. ASSUME NEW h \in Hart, TimerInterrupt(h) PROVE Nesting'
  BY <1>2, <1>3, <1>4, <1>5, <1>6, <1>7, <1>8, <1>9, <1>10, <1>24 DEF TimerInterrupt
<1>25. ASSUME NEW h \in Hart, NEW t \in Thread, PauseCall(h, t) PROVE Nesting'
  BY <1>12, <1>13, <1>14, <1>15, <1>16, <1>17, <1>18, <1>19, <1>25 DEF PauseCall
<1>26. ASSUME NEW h \in Hart, NEW t \in Thread, Scheduling(h, t) PROVE Nesting'
  BY <1>20, <1>21, <1>22, <1>26 DEF Scheduling
<1> QED
  BY <1>1, <1>11, <1>23, <1>24, <1>25, <1>26 DEF ClockNext

\* Every step keeps the invariant.
LEMMA ClockStep == ClockInv /\ [ClockNext]_clockVars => ClockInv'
BY HartTypesStep, HartFlagsStep, ThreadTypesStep, PlacesStep, AwayStep, TicksOwnerStep,
   ProcOwnerStep, NestingStep DEF ClockInv, ClockTypes, Owners

\* The invariant of harts and threads: who holds which lock follows from where each is,
\* and the interrupt state from the locks (spinlock.c, sched(), the timer interrupt).
THEOREM ClockInvariant == ClockSpec => []ClockInv
BY InitClock, ClockStep, PTL DEF ClockSpec

\* The two kinds of lock are never held at once, except that one is wanted.
LEMMA OneLock ==
  ASSUME ClockInv, NEW h \in Hart
  PROVE  /\ HeldBy(h) = {} <=> ~HasTicks(h) /\ ~HasProc(h)
         /\ ~(HasTicks(h) /\ HasProc(h))
         /\ \A x, y \in HeldBy(h) : x = y
<1>1. tickslock = h <=> HasTicks(h)
  BY DEF ClockInv, Owners, TicksOwner
<1>2. \A t \in Thread : plock[t] = h <=> Has(h, t)
  BY DEF ClockInv, Owners, ProcOwner
<1>3. HasProc(h) <=> \E t \in Thread : Has(h, t)
  BY Here DEF HasProc, Has, ClockInv, Places
<1>4. \A t, u \in Thread : Has(h, t) /\ Has(h, u) => t = u
  BY Here DEF Has
<1>5. ~(HasTicks(h) /\ HasProc(h))
  BY Here DEF HasTicks, HasProc, Interruptible, Resuming
<1>6. HeldBy(h) = {} <=> ~HasTicks(h) /\ ~HasProc(h)
  BY <1>1, <1>2, <1>3 DEF HeldBy
<1>7. \A x, y \in HeldBy(h) : x = y
  BY <1>1, <1>2, <1>3, <1>4, <1>5 DEF HeldBy
<1> QED BY <1>5, <1>6, <1>7

\* A hart takes interrupts exactly when it has nothing to lose by one, never waits for a
\* lock of its own and never holds two: acquire(), sched() and pop_off() do not panic.
THEOREM InterruptsNest == ClockSpec => []InterruptsMatchNesting
<1>1. ASSUME ClockInv PROVE InterruptsMatchNesting
  <2> SUFFICES ASSUME NEW h \in Hart
               PROVE  /\ sie[h] = (HeldBy(h) = {} /\ ~spin[h] /\ trap[h] = "none")
                      /\ noff[h] = (IF HeldBy(h) = {} THEN 0 ELSE 1) + (IF spin[h] THEN 1 ELSE 0)
                      /\ \A x, y \in HeldBy(h) : x = y
                      /\ spin[h] /\ trap[h] = "clock" => tickslock # h
                      /\ spin[h] /\ proc[h] # NoThread =>
                           /\ trap[h] = "none" /\ at[proc[h]] \in {"pause", "relock"}
                              => tickslock # h
                           /\ trap[h] = "yield" \/ at[proc[h]] = "sleep" => plock[proc[h]] # h
    BY DEF InterruptsMatchNesting
  <2>1. NestingAt(h) /\ sie[h] \in BOOLEAN
    BY <1>1 DEF ClockInv, Nesting, ClockTypes, HartFlags
  <2>2. sie[h] = (HeldBy(h) = {} /\ ~spin[h] /\ trap[h] = "none")
    BY <1>1, <2>1, OneLock DEF NestingAt
  <2>3. noff[h] = (IF HeldBy(h) = {} THEN 0 ELSE 1) + (IF spin[h] THEN 1 ELSE 0)
    BY <1>1, <2>1, OneLock DEF NestingAt
  <2>4. (tickslock = h <=> HasTicks(h)) /\ \A t \in Thread : plock[t] = h <=> Has(h, t)
    BY <1>1 DEF ClockInv, Owners, TicksOwner, ProcOwner
  <2>5. spin[h] /\ trap[h] = "clock" => tickslock # h
    BY <1>1, <2>4, Here DEF HasTicks, Interruptible
  <2>6. spin[h] /\ proc[h] # NoThread =>
           /\ trap[h] = "none" /\ at[proc[h]] \in {"pause", "relock"} => tickslock # h
           /\ trap[h] = "yield" \/ at[proc[h]] = "sleep" => plock[proc[h]] # h
    BY <1>1, <2>4, Here DEF HasTicks, Has, Interruptible, Resuming
  <2> QED BY <1>1, <2>2, <2>3, <2>5, <2>6, OneLock
<1> QED BY <1>1, ClockInvariant, PTL
-----------------------------------------------------------------------------
(* Nobody sleeps through its tick *)

Due(t) == ~(Elapsed(t) < n[t])

\* A thread on its way into sleep() is not due, and the clock interrupt visits all threads.
DueInv ==
  /\ DOMAIN n = Thread /\ DOMAIN ticks0 = Thread
  /\ \A h \in Hart : trap[h] \in {"clock", "wakeup"} => h = hart0
  /\ trap[hart0] = "wakeup" => wakes[hart0] \in 1 .. NTHREAD + 1
  /\ \A t \in Thread : at[t] = "sleep" => ~Due(t)
  /\ \A t \in Thread : state[t] = "SLEEPING" =>
       ~Due(t) \/ (trap[hart0] = "wakeup" /\ wakes[hart0] <= t)

\* What a thread waits for is settled by the clock and its own call.
LEMMA DueSame ==
  ASSUME NEW t \in Thread, ticks' = ticks, ticks0'[t] = ticks0[t], n'[t] = n[t]
  PROVE  Due(t)' <=> Due(t)
BY DEF Due, Elapsed

\* A thread between the test of pause() and sleep() has tickslock.
LEMMA TestersHaveTicks ==
  ASSUME ClockInv, NEW t \in Thread, at[t] = "sleep"
  PROVE  \E h \in Hart : tickslock = h
<1>1. PICK h \in Hart : proc[h] = t
  BY DEF ClockInv, Away, Interruptible, Resuming
<1>2. HasTicks(h)
  BY <1>1, Here DEF HasTicks
<1> QED
  BY <1>2 DEF ClockInv, Owners, TicksOwner

\* A step that puts nobody to sleep and leaves clock, calls and clock interrupt alone.
LEMMA DueKept ==
  ASSUME DueInv, UNCHANGED <<ticks, ticks0, n, wakes>>,
         \A t \in Thread : /\ state'[t] = "SLEEPING" => state[t] = "SLEEPING"
                           /\ at'[t] = "sleep" => at[t] = "sleep",
         \A h \in Hart : \/ trap'[h] = trap[h]
                         \/ trap[h] # "wakeup" /\ trap'[h] \notin {"clock", "wakeup"}
  PROVE  DueInv'
<1>1. \A t \in Thread : Due(t)' <=> Due(t)
  BY DueSame
<1>2. trap'[hart0] = "wakeup" <=> trap[hart0] = "wakeup"
  BY ClockAssumption
<1>3. \A h \in Hart : trap'[h] \in {"clock", "wakeup"} => h = hart0
  BY DEF DueInv
<1> QED
  BY <1>1, <1>2, <1>3 DEF DueInv

\* Every step keeps sleepers short of their ticks, or in the path of wakeup(&ticks).
LEMMA DueStep ==
  ASSUME ClockInv, DueInv, [ClockNext]_clockVars
  PROVE  DueInv'
<1> USE ClockAssumption DEF hartVars, threadVars, lockVars
<1>1. CASE UNCHANGED clockVars
  BY <1>1, DueKept DEF clockVars
<1>2. ASSUME NEW h \in Hart, Timer(h) PROVE DueInv'
  <2>1. UNCHANGED <<state, at, ticks, ticks0, n, wakes>>
    BY <1>2 DEF Timer
  <2>2. /\ trap[h] = "none" /\ \A g \in Hart : g # h => trap'[g] = trap[g]
        /\ trap'[h] = IF h = hart0 THEN "clock" ELSE "yield"
    BY <1>2 DEF Timer, ClockInv, ClockTypes, HartTypes
  <2> QED
    BY <2>1, <2>2, DueSame DEF DueInv
<1>3. ASSUME NEW h \in Hart, ClockLock(h) PROVE DueInv'
  <2>1. UNCHANGED <<ticks, ticks0, n, wakes>>
    BY <1>3 DEF ClockLock, PushOff
  <2>2. \A u \in Thread : /\ state'[u] = "SLEEPING" => state[u] = "SLEEPING"
                          /\ at'[u] = "sleep" => at[u] = "sleep"
    BY <1>3 DEF ClockLock, PushOff, ClockInv, ClockTypes, ThreadTypes
  <2>3. \A g \in Hart : \/ trap'[g] = trap[g]
                        \/ trap[g] # "wakeup" /\ trap'[g] \notin {"clock", "wakeup"}
    BY <1>3 DEF ClockLock, PushOff, ClockInv, ClockTypes, HartTypes
  <2> QED
    BY <2>1, <2>2, <2>3, DueKept
<1>4. ASSUME NEW h \in Hart, Tick(h) PROVE DueInv'
  <2>1. /\ UNCHANGED <<state, at, ticks0, n>> /\ trap[h] = "clock" /\ tickslock = NoHart
        /\ wakes' = [wakes EXCEPT ![h] = 1] /\ trap' = [trap EXCEPT ![h] = "wakeup"]
    BY <1>4 DEF Tick, WinTicks
  <2>2. h = hart0 /\ NTHREAD \in Nat /\ NoHart \notin Hart
    BY <2>1, ClockAssumption DEF DueInv
  <2>3. /\ wakes'[h] = 1 /\ trap'[h] = "wakeup"
        /\ \A g \in Hart : g # h => wakes'[g] = wakes[g] /\ trap'[g] = trap[g]
    BY <2>1 DEF ClockInv, ClockTypes, HartTypes
  <2>4. \A u \in Thread : at[u] # "sleep"
    BY <2>1, <2>2, TestersHaveTicks
  <2>5. \A u \in Thread : wakes'[hart0] <= u
    BY <2>2, <2>3 DEF Thread
  <2> QED
    BY <2>1, <2>2, <2>3, <2>4, <2>5 DEF DueInv
<1>5. ASSUME NEW h \in Hart, WakeNext(h) PROVE DueInv'
  <2> DEFINE w == wakes[h]
  <2>1. /\ UNCHANGED <<at, ticks, ticks0, n, trap>> /\ trap[h] = "wakeup" /\ w \in Thread
        /\ wakes' = [wakes EXCEPT ![h] = w + 1]
        /\ state' = [state EXCEPT ![w] = IF w # proc[h] /\ @ = "SLEEPING" THEN "RUNNABLE" ELSE @]
    BY <1>5 DEF WakeNext
  <2>2. h = hart0 /\ NTHREAD \in Nat
    BY <2>1, ClockAssumption DEF DueInv
  <2>3. state'[w] # "SLEEPING" /\ \A u \in Thread : u # w => state'[u] = state[u]
    <3>1. w = proc[h] => state[w] = "RUNNING"
      BY <2>1 DEF ClockInv, Places
    <3> QED
      BY <2>1, <3>1 DEF ClockInv, ClockTypes, ThreadTypes
  <2>4. wakes'[h] = w + 1 /\ \A g \in Hart : g # h => wakes'[g] = wakes[g]
    BY <2>1 DEF ClockInv, ClockTypes, HartTypes
  <2>5. w \in 1 .. NTHREAD /\ w + 1 \in 1 .. NTHREAD + 1
    BY <2>1, <2>2 DEF Thread
  <2>6. \A u \in Thread : u # w /\ w <= u => w + 1 <= u
    BY <2>5 DEF Thread
  <2> QED
    BY <2>1, <2>2, <2>3, <2>4, <2>5, <2>6, DueSame DEF DueInv
<1>6. ASSUME NEW h \in Hart, TickDone(h) PROVE DueInv'
  <2>1. /\ UNCHANGED <<state, at, ticks, ticks0, n>> /\ trap[h] = "wakeup"
        /\ wakes[h] \notin Thread
    BY <1>6 DEF TickDone
  <2>2. trap'[h] = "yield" /\ \A g \in Hart : g # h => trap'[g] = trap[g] /\ wakes'[g] = wakes[g]
    BY <1>6 DEF TickDone, ClockInv, ClockTypes, HartTypes
  <2>3. h = hart0 /\ NTHREAD \in Nat /\ wakes[h] \in 1 .. NTHREAD + 1
    BY <2>1, ClockAssumption DEF DueInv
  <2>4. \A u \in Thread : ~(wakes[hart0] <= u)
    BY <2>1, <2>3 DEF Thread
  <2> QED
    BY <2>1, <2>2, <2>3, <2>4, DueSame DEF DueInv
<1>7. ASSUME NEW h \in Hart, YieldLock(h) PROVE DueInv'
  <2>1. UNCHANGED <<ticks, ticks0, n, wakes>>
    BY <1>7 DEF YieldLock, PushOff
  <2>2. \A u \in Thread : /\ state'[u] = "SLEEPING" => state[u] = "SLEEPING"
                          /\ at'[u] = "sleep" => at[u] = "sleep"
    BY <1>7 DEF YieldLock, PushOff, ClockInv, ClockTypes, ThreadTypes
  <2>3. \A g \in Hart : \/ trap'[g] = trap[g]
                        \/ trap[g] # "wakeup" /\ trap'[g] \notin {"clock", "wakeup"}
    BY <1>7 DEF YieldLock, PushOff, ClockInv, ClockTypes, HartTypes
  <2> QED
    BY <2>1, <2>2, <2>3, DueKept
<1>8. ASSUME NEW h \in Hart, Yield(h) PROVE DueInv'
  <2>1. UNCHANGED <<ticks, ticks0, n, wakes>>
    BY <1>8 DEF Yield, WinProc, Switch
  <2>2. \A u \in Thread : /\ state'[u] = "SLEEPING" => state[u] = "SLEEPING"
                          /\ at'[u] = "sleep" => at[u] = "sleep"
    BY <1>8 DEF Yield, WinProc, Switch, ClockInv, ClockTypes, ThreadTypes
  <2>3. \A g \in Hart : \/ trap'[g] = trap[g]
                        \/ trap[g] # "wakeup" /\ trap'[g] \notin {"clock", "wakeup"}
    BY <1>8 DEF Yield, WinProc, Switch, ClockInv, ClockTypes, HartTypes
  <2> QED
    BY <2>1, <2>2, <2>3, DueKept
<1>9. ASSUME NEW h \in Hart, YieldResumes(h) PROVE DueInv'
  <2>1. UNCHANGED <<ticks, ticks0, n, wakes>>
    BY <1>9 DEF YieldResumes, PopOff
  <2>2. \A u \in Thread : /\ state'[u] = "SLEEPING" => state[u] = "SLEEPING"
                          /\ at'[u] = "sleep" => at[u] = "sleep"
    BY <1>9 DEF YieldResumes, PopOff, ClockInv, ClockTypes, ThreadTypes
  <2>3. \A g \in Hart : \/ trap'[g] = trap[g]
                        \/ trap[g] # "wakeup" /\ trap'[g] \notin {"clock", "wakeup"}
    BY <1>9 DEF YieldResumes, PopOff, ClockInv, ClockTypes, HartTypes
  <2> QED
    BY <2>1, <2>2, <2>3, DueKept
<1>10. ASSUME NEW h \in Hart, TrapReturn(h) PROVE DueInv'
  <2>1. UNCHANGED <<ticks, ticks0, n, wakes>>
    BY <1>10 DEF TrapReturn
  <2>2. \A u \in Thread : /\ state'[u] = "SLEEPING" => state[u] = "SLEEPING"
                          /\ at'[u] = "sleep" => at[u] = "sleep"
    BY <1>10 DEF TrapReturn, ClockInv, ClockTypes, ThreadTypes
  <2>3. \A g \in Hart : \/ trap'[g] = trap[g]
                        \/ trap[g] # "wakeup" /\ trap'[g] \notin {"clock", "wakeup"}
    BY <1>10 DEF TrapReturn, ClockInv, ClockTypes, HartTypes
  <2> QED
    BY <2>1, <2>2, <2>3, DueKept
<1>11. ASSUME NEW h \in Hart, BackInScheduler(h) PROVE DueInv'
  <2>1. UNCHANGED <<ticks, ticks0, n, wakes>>
    BY <1>11 DEF BackInScheduler
  <2>2. \A u \in Thread : /\ state'[u] = "SLEEPING" => state[u] = "SLEEPING"
                          /\ at'[u] = "sleep" => at[u] = "sleep"
    BY <1>11 DEF BackInScheduler, ClockInv, ClockTypes, ThreadTypes
  <2>3. \A g \in Hart : \/ trap'[g] = trap[g]
                        \/ trap[g] # "wakeup" /\ trap'[g] \notin {"clock", "wakeup"}
    BY <1>11 DEF BackInScheduler, ClockInv, ClockTypes, HartTypes
  <2> QED
    BY <2>1, <2>2, <2>3, DueKept
<1>12. ASSUME NEW h \in Hart, NEW t \in Thread, Call(h, t) PROVE DueInv'
  <2>1. /\ UNCHANGED <<state, ticks, trap, wakes, ticks0>> /\ proc[h] = t
        /\ at'[t] # "sleep" /\ \A u \in Thread : u # t => at'[u] = at[u]
    BY <1>12 DEF Call, hartVars, Runs, MoveTo, ClockInv, ClockTypes, ThreadTypes, Interruptible
  <2>2. /\ DOMAIN n' = Thread /\ DOMAIN ticks0' = Thread
        /\ \A u \in Thread : u # t => n'[u] = n[u] /\ ticks0'[u] = ticks0[u]
    BY <1>12 DEF Call, DueInv
  <2>3. state[t] = "RUNNING"
    BY <2>1 DEF ClockInv, Places
  <2> QED
    BY <2>1, <2>2, <2>3, DueSame DEF DueInv
<1>13. ASSUME NEW h \in Hart, NEW t \in Thread, PauseLock(h, t) PROVE DueInv'
  <2>1. UNCHANGED <<ticks, ticks0, n, wakes>>
    BY <1>13 DEF PauseLock, PushOff
  <2>2. \A u \in Thread : /\ state'[u] = "SLEEPING" => state[u] = "SLEEPING"
                          /\ at'[u] = "sleep" => at[u] = "sleep"
    BY <1>13 DEF PauseLock, PushOff, ClockInv, ClockTypes, ThreadTypes
  <2>3. \A g \in Hart : \/ trap'[g] = trap[g]
                        \/ trap[g] # "wakeup" /\ trap'[g] \notin {"clock", "wakeup"}
    BY <1>13 DEF PauseLock, PushOff, ClockInv, ClockTypes, HartTypes
  <2> QED
    BY <2>1, <2>2, <2>3, DueKept
<1>14. ASSUME NEW h \in Hart, NEW t \in Thread, Pause(h, t) PROVE DueInv'
  <2>1. /\ UNCHANGED <<state, ticks, trap, wakes, n>> /\ proc[h] = t
        /\ at'[t] # "sleep" /\ \A u \in Thread : u # t => at'[u] = at[u]
    BY <1>14 DEF Pause, Runs, MoveTo, ClockInv, ClockTypes, ThreadTypes, Interruptible
  <2>2. /\ DOMAIN n' = Thread /\ DOMAIN ticks0' = Thread
        /\ \A u \in Thread : u # t => n'[u] = n[u] /\ ticks0'[u] = ticks0[u]
    BY <1>14 DEF Pause, DueInv
  <2>3. state[t] = "RUNNING"
    BY <2>1 DEF ClockInv, Places
  <2> QED
    BY <2>1, <2>2, <2>3, DueSame DEF DueInv
<1>15. ASSUME NEW h \in Hart, NEW t \in Thread, Relock(h, t) PROVE DueInv'
  <2>1. UNCHANGED <<ticks, ticks0, n, wakes>>
    BY <1>15 DEF Relock, WinTicks, MoveTo
  <2>2. \A u \in Thread : /\ state'[u] = "SLEEPING" => state[u] = "SLEEPING"
                          /\ at'[u] = "sleep" => at[u] = "sleep"
    BY <1>15 DEF Relock, WinTicks, MoveTo, ClockInv, ClockTypes, ThreadTypes
  <2>3. \A g \in Hart : \/ trap'[g] = trap[g]
                        \/ trap[g] # "wakeup" /\ trap'[g] \notin {"clock", "wakeup"}
    BY <1>15 DEF Relock, WinTicks, MoveTo, ClockInv, ClockTypes, HartTypes
  <2> QED
    BY <2>1, <2>2, <2>3, DueKept
<1>16. ASSUME NEW h \in Hart, NEW t \in Thread, PauseEnds(h, t) PROVE DueInv'
  <2>1. /\ UNCHANGED <<state, ticks, trap, wakes>> /\ proc[h] = t
        /\ at'[t] # "sleep" /\ \A u \in Thread : u # t => at'[u] = at[u]
    BY <1>16 DEF PauseEnds, Runs, MoveTo, ClockInv, ClockTypes, ThreadTypes, Interruptible
  <2>2. /\ DOMAIN n' = Thread /\ DOMAIN ticks0' = Thread
        /\ \A u \in Thread : u # t => n'[u] = n[u] /\ ticks0'[u] = ticks0[u]
    BY <1>16 DEF PauseEnds, DueInv
  <2>3. state[t] = "RUNNING"
    BY <2>1 DEF ClockInv, Places
  <2> QED
    BY <2>1, <2>2, <2>3, DueSame DEF DueInv
<1>17. ASSUME NEW h \in Hart, NEW t \in Thread, PauseGoesOn(h, t) PROVE DueInv'
  <2>1. /\ UNCHANGED <<state, ticks, ticks0, n, trap, wakes>> /\ ~Due(t)
        /\ at' = [at EXCEPT ![t] = "sleep"]
    BY <1>17 DEF PauseGoesOn, MoveTo, hartVars, Waited, Due
  <2>2. \A u \in Thread : u # t => at'[u] = at[u]
    BY <2>1 DEF ClockInv, ClockTypes, ThreadTypes
  <2> QED
    BY <2>1, <2>2, DueSame DEF DueInv
<1>18. ASSUME NEW h \in Hart, NEW t \in Thread, SleepLock(h, t) PROVE DueInv'
  <2>1. UNCHANGED <<ticks, ticks0, n, wakes>>
    BY <1>18 DEF SleepLock, PushOff
  <2>2. \A u \in Thread : /\ state'[u] = "SLEEPING" => state[u] = "SLEEPING"
                          /\ at'[u] = "sleep" => at[u] = "sleep"
    BY <1>18 DEF SleepLock, PushOff, ClockInv, ClockTypes, ThreadTypes
  <2>3. \A g \in Hart : \/ trap'[g] = trap[g]
                        \/ trap[g] # "wakeup" /\ trap'[g] \notin {"clock", "wakeup"}
    BY <1>18 DEF SleepLock, PushOff, ClockInv, ClockTypes, HartTypes
  <2> QED
    BY <2>1, <2>2, <2>3, DueKept
<1>19. ASSUME NEW h \in Hart, NEW t \in Thread, Sleep(h, t) PROVE DueInv'
  <2>1. /\ UNCHANGED <<ticks, ticks0, n, trap, wakes>> /\ at[t] = "sleep"
        /\ state' = [state EXCEPT ![t] = "SLEEPING"] /\ at' = [at EXCEPT ![t] = "woken"]
    BY <1>19 DEF Sleep, Runs, MoveTo
  <2>2. /\ at'[t] = "woken"
        /\ \A u \in Thread : u # t => at'[u] = at[u] /\ state'[u] = state[u]
    BY <2>1 DEF ClockInv, ClockTypes, ThreadTypes
  <2>3. ~Due(t)
    BY <2>1 DEF DueInv
  <2> QED
    BY <2>1, <2>2, <2>3, DueSame DEF DueInv
<1>20. ASSUME NEW h \in Hart, NEW t \in Thread, Dispatch(h, t) PROVE DueInv'
  <2>1. UNCHANGED <<at, ticks, ticks0, n, wakes>>
    BY <1>20 DEF Dispatch
  <2>2. state'[t] = "RUNNING" /\ \A u \in Thread : u # t => state'[u] = state[u]
    BY <1>20 DEF Dispatch, ClockInv, ClockTypes, ThreadTypes
  <2>3. /\ trap[h] = "none" /\ trap'[h] \notin {"clock", "wakeup"}
        /\ \A g \in Hart : g # h => trap'[g] = trap[g]
    BY <1>20 DEF Dispatch, ClockInv, ClockTypes, HartTypes
  <2> QED
    BY <2>1, <2>2, <2>3, DueKept
<1>21. ASSUME NEW h \in Hart, NEW t \in Thread, ForkRet(h, t) PROVE DueInv'
  <2>1. UNCHANGED <<ticks, ticks0, n, wakes>>
    BY <1>21 DEF ForkRet, PopOff, MoveTo
  <2>2. \A u \in Thread : /\ state'[u] = "SLEEPING" => state[u] = "SLEEPING"
                          /\ at'[u] = "sleep" => at[u] = "sleep"
    BY <1>21 DEF ForkRet, PopOff, MoveTo, ClockInv, ClockTypes, ThreadTypes
  <2>3. \A g \in Hart : \/ trap'[g] = trap[g]
                        \/ trap[g] # "wakeup" /\ trap'[g] \notin {"clock", "wakeup"}
    BY <1>21 DEF ForkRet, PopOff, MoveTo, ClockInv, ClockTypes, HartTypes
  <2> QED
    BY <2>1, <2>2, <2>3, DueKept
<1>22. ASSUME NEW h \in Hart, NEW t \in Thread, Woken(h, t) PROVE DueInv'
  <2>1. UNCHANGED <<ticks, ticks0, n, wakes>>
    BY <1>22 DEF Woken, PopOff, MoveTo
  <2>2. \A u \in Thread : /\ state'[u] = "SLEEPING" => state[u] = "SLEEPING"
                          /\ at'[u] = "sleep" => at[u] = "sleep"
    BY <1>22 DEF Woken, PopOff, MoveTo, ClockInv, ClockTypes, ThreadTypes
  <2>3. \A g \in Hart : \/ trap'[g] = trap[g]
                        \/ trap[g] # "wakeup" /\ trap'[g] \notin {"clock", "wakeup"}
    BY <1>22 DEF Woken, PopOff, MoveTo, ClockInv, ClockTypes, HartTypes
  <2> QED
    BY <2>1, <2>2, <2>3, DueKept
<1>23. ASSUME NEW t \in Thread, KillPausing(t) PROVE DueInv'
  <2>1. UNCHANGED <<ticks, ticks0, n, wakes>>
    BY <1>23 DEF KillPausing
  <2>2. \A u \in Thread : /\ state'[u] = "SLEEPING" => state[u] = "SLEEPING"
                          /\ at'[u] = "sleep" => at[u] = "sleep"
    BY <1>23 DEF KillPausing, ClockInv, ClockTypes, ThreadTypes
  <2>3. \A g \in Hart : \/ trap'[g] = trap[g]
                        \/ trap[g] # "wakeup" /\ trap'[g] \notin {"clock", "wakeup"}
    BY <1>23 DEF KillPausing, ClockInv, ClockTypes, HartTypes
  <2> QED
    BY <2>1, <2>2, <2>3, DueKept
<1>24. ASSUME NEW h \in Hart, TimerInterrupt(h) PROVE DueInv'
  BY <1>2, <1>3, <1>4, <1>5, <1>6, <1>7, <1>8, <1>9, <1>10, <1>24 DEF TimerInterrupt
<1>25. ASSUME NEW h \in Hart, NEW t \in Thread, PauseCall(h, t) PROVE DueInv'
  BY <1>12, <1>13, <1>14, <1>15, <1>16, <1>17, <1>18, <1>19, <1>25 DEF PauseCall
<1>26. ASSUME NEW h \in Hart, NEW t \in Thread, Scheduling(h, t) PROVE DueInv'
  BY <1>20, <1>21, <1>22, <1>26 DEF Scheduling
<1> QED
  BY <1>1, <1>11, <1>23, <1>24, <1>25, <1>26 DEF ClockNext

\* Nobody sleeps in pause() whose ticks have passed, at any wrap of the counter, unless
\* the clock interrupt is about to wake it (sysproc.c: sys_pause; trap.c: clockintr;
\* proc.c: sleep, wakeup).
THEOREM PausersWakeUp == ClockSpec => []PausersNotDue
<1>1. ClockInit => DueInv
  <2> SUFFICES ASSUME ClockInit PROVE DueInv
    OBVIOUS
  <2> QED
    BY ClockAssumption DEF ClockInit, DueInv
<1>2. ClockInv /\ DueInv /\ [ClockNext]_clockVars => DueInv'
  BY DueStep
<1>3. DueInv => PausersNotDue
  BY DEF DueInv, PausersNotDue, Due, Elapsed
<1> QED
  BY <1>1, <1>2, <1>3, ClockInvariant, PTL DEF ClockSpec
=============================================================================
