----------------------------- MODULE ProcProofs -----------------------------
(***************************************************************************)
(* Fork, exit, wait, kill and the sleep between them keep the family of    *)
(* processes a tree and lose no wakeup, for any number of slots and pids.  *)
(***************************************************************************)
EXTENDS Proc, TLAPS

HasWaitLock == {"reparent", "wakeinit", "wakeparent", "zombie", "unlock",
                "scan", "check", "sleep"}
HasOwnLock  == {"unlock", "swtch", "sleeping"}
Exiting     == {"exit", "reparent", "wakeinit", "wakeparent", "zombie", "unlock", "swtch"}
Childless   == {"none", "wakeparent", "zombie", "unlock", "swtch"}
Forking     == {"adopt", "start"}

\* Where a thread is settles what it holds.
Locks ==
  \A p \in Proc : /\ wait_lock = p <=> pc[p] \in HasWaitLock
                  /\ plock[p] = IF pc[p] \in HasOwnLock THEN p ELSE NoProc

\* ... and the state of its process.
States ==
  \A p \in Proc :
    /\ pc[p] = "none" => state[p] \in {"UNUSED", "USED", "ZOMBIE"}
    /\ pc[p] = "new" => state[p] = "RUNNABLE"
    /\ pc[p] = "asleep" => state[p] = "RUNNABLE" \/ (state[p] = "SLEEPING" /\ chan[p] = p)
    /\ pc[p] \in {"unlock", "swtch"} => state[p] = "ZOMBIE"
    /\ pc[p] \notin {"none", "new", "asleep", "unlock", "swtch"} => state[p] = "RUNNING"

\* init lives for ever: it does not exit, and nobody names its pid.
InitLives ==
  /\ pid[initproc] = 1 /\ ~killed[initproc] /\ parent[initproc] = NoProc
  /\ pc[initproc] \notin Exiting \union {"none"}
  /\ \A p \in Proc : pc[p] = "kill" => arg[p] \in KillPids

\* A slot that is being filled in has one parent at work on it.
Forks ==
  /\ \A p \in Proc : pc[p] \in Forking => arg[p] \in Proc /\ state[arg[p]] = "USED"
  /\ \A p, q \in Proc : pc[p] \in Forking /\ pc[q] \in Forking /\ arg[p] = arg[q] => p = q
  /\ \A p \in Proc : pc[p] = "start" => parent[arg[p]] = p

\* A loop over the table begins at its first slot.
Rewound ==
  \A p \in Proc :
    pc[p] \in {"none", "new", "user", "exit", "wakeparent", "zombie", "unlock", "swtch"} =>
      pp[p] = 0

\* Every process but init has a parent ...
NoParent  == \A q \in Proc : state[q] = "UNUSED" => parent[q] = NoProc
HasParent ==
  \A q \in Proc : q # initproc /\ state[q] \notin {"UNUSED", "USED"} => parent[q] \in Proc

\* ... and exit() has left none to a process that is gone.
NoChild   == \A p, q \in Proc : parent[q] = p => pc[p] \notin Childless
HandsOver ==
  \A p, q \in Proc : /\ pc[p] = "reparent" /\ q < pp[p] => parent[q] # p
                     /\ pc[p] = "wakeinit" /\ q <= pp[p] => parent[q] # p

Parents == NoParent /\ HasParent /\ NoChild /\ HandsOver

\* kwait() has found no zombie so far.
Scans ==
  \A p, q \in Proc :
    /\ pc[p] = "scan" /\ q < pp[p] /\ parent[q] = p => state[q] # "ZOMBIE"
    /\ pc[p] \in {"check", "sleep"} /\ parent[q] = p => state[q] # "ZOMBIE"

\* A process that sleeps, or is about to with its lock held, hears of every zombie.
Dozing(p) == pc[p] = "sleeping" \/ state[p] = "SLEEPING"
HearsOf ==
  \A p, q \in Proc : Dozing(p) /\ parent[q] = p /\ state[q] = "ZOMBIE" =>
    p = initproc /\ \E r \in Proc : pc[r] = "wakeinit"
HasHeard == \A p, q \in Proc : pc[q] = "zombie" /\ parent[q] = p => ~Dozing(p)

Heard == HearsOf /\ HasHeard

ProcInv == TypeOK /\ Locks /\ States /\ InitLives /\ Forks /\ Rewound /\ Parents /\ Scans /\ Heard

-----------------------------------------------------------------------------
(* Preservation *)

\* Slots are numbers, and the last step of a loop over them is at the last slot.
LEMMA SlotFacts ==
  ASSUME TypeOK, NEW p \in Proc
  PROVE  /\ pp[p] \in Proc /\ 0 \in Proc /\ Proc \subseteq Nat
         /\ ~Last(p) => pp[p] + 1 \in Proc
         /\ Last(p) => \A q \in Proc : q <= pp[p]
         /\ \A q \in Proc : q <= pp[p] => q < pp[p] \/ q = pp[p]
         /\ \A q \in Proc : q < pp[p] + 1 => q <= pp[p]
<1>1. NPROC \in Nat /\ NPROC >= 1
  BY ProcAssumption
<1>2. pp[p] \in 0 .. NPROC - 1
  BY DEF TypeOK, Proc
<1>3. ASSUME Last(p), NEW q \in Proc PROVE q <= pp[p]
  BY <1>1, <1>3 DEF Last, Proc
<1>4. ~Last(p) => pp[p] + 1 \in Proc
  BY <1>1, <1>2 DEF Last, Proc
<1>5. pp[p] \in Proc /\ 0 \in Proc /\ Proc \subseteq Nat
  BY <1>1, <1>2 DEF Proc
<1>6. ASSUME NEW q \in Proc
      PROVE  /\ q <= pp[p] => q < pp[p] \/ q = pp[p]
             /\ q < pp[p] + 1 => q <= pp[p]
  <2>1. pp[p] \in Nat /\ q \in Nat
    BY <1>5
  <2> QED
    BY <2>1
<1> QED
  BY <1>3, <1>4, <1>5, <1>6

\* A slot without a process has no thread, and init always is a process.
LEMMA InUse ==
  ASSUME TypeOK, States
  PROVE  /\ \A q \in Proc : state[q] \in {"UNUSED", "USED"} => pc[q] = "none"
         /\ \A q \in Proc : state[q] = "SLEEPING" => pc[q] = "asleep" /\ chan[q] = q
         /\ InitLives => initproc \in Proc /\ state[initproc] \notin {"UNUSED", "USED", "ZOMBIE"}
<1>1. initproc \in Proc
  BY ProcAssumption DEF initproc, Proc
<1>2. \A q \in Proc : state[q] \in {"UNUSED", "USED"} => pc[q] = "none"
  BY DEF TypeOK, States
<1>3. \A q \in Proc : state[q] = "SLEEPING" => pc[q] = "asleep" /\ chan[q] = q
  BY DEF TypeOK, States
<1>4. \A q \in Proc : state[q] = "ZOMBIE" => pc[q] \in {"none", "unlock", "swtch"}
  BY DEF TypeOK, States
<1> QED
  BY <1>1, <1>2, <1>3, <1>4 DEF InitLives, Exiting

\* A step of one thread that leaves the processes alone and does not lead to the end
\* of exit() leaves the families alone.
LEMMA ParentsKept ==
  ASSUME TypeOK, Parents, NEW p \in Proc, state' = state, parent' = parent,
         \A q \in Proc \ {p} : pc'[q] = pc[q] /\ pp'[q] = pp[q],
         pc'[p] \notin Childless \union {"reparent", "wakeinit"}
  PROVE  Parents'
BY DEF TypeOK, Parents, NoParent, HasParent, NoChild, HandsOver, Childless

\* A step of one thread that leaves the processes alone and is not one of sleep() or
\* of the wakeups of exit() leaves nobody unwoken.
LEMMA HeardKept ==
  ASSUME TypeOK, Heard, NEW p \in Proc, state' = state, parent' = parent,
         \A q \in Proc \ {p} : pc'[q] = pc[q],
         pc[p] # "wakeinit", pc'[p] \notin {"sleeping", "zombie"}
  PROVE  Heard'
BY DEF TypeOK, Heard, HearsOf, HasHeard, Dozing

\* A step that wakes sleepers and changes no state otherwise.
OnlyWakes ==
  \A q \in Proc :
    state'[q] = state[q] \/ (state[q] = "SLEEPING" /\ state'[q] = "RUNNABLE")

\* wakeup() makes sleepers RUNNABLE, leaves the others alone and leaves none asleep
\* on its channel.
LEMMA Woken ==
  ASSUME TypeOK, States, Locks, NEW x \in Proc, Wakeup(x)
  PROVE  /\ OnlyWakes
         /\ pc[x] # "sleeping" /\ state'[x] # "SLEEPING"
<1> USE DEF OnlyWakes
<1>1. pc[x] # "sleeping"
  BY ProcAssumption DEF TypeOK, Wakeup, Free, Locks, HasOwnLock
<1>2. CASE state[x] = "SLEEPING" /\ chan[x] = x
  BY <1>1, <1>2 DEF TypeOK, Wakeup
<1>3. CASE ~(state[x] = "SLEEPING" /\ chan[x] = x)
  <2>1. state[x] # "SLEEPING" /\ state' = state
    BY <1>3, InUse DEF Wakeup
  <2> QED
    BY <1>1, <2>1
<1> QED
  BY <1>2, <1>3

\* exit() is left to processes that have a parent.
LEMMA ParentOf ==
  ASSUME TypeOK, States, InitLives, Parents, NEW p \in Proc, pc[p] = "wakeparent"
  PROVE  parent[p] \in Proc
BY DEF States, InitLives, Exiting, Parents, HasParent

\* wait_lock makes its owner the only one to wait, to exit or to be about to sleep.
LEMMA WaitLockOwner ==
  ASSUME TypeOK, Locks, NEW p \in Proc, pc[p] \in HasWaitLock
  PROVE  \A q \in Proc \ {p} : pc[q] \notin HasWaitLock
BY DEF TypeOK, Locks

\* Every step keeps the types.
LEMMA TypesStep ==
  ASSUME TypeOK, States, InitLives, Forks, Parents, [Next]_vars
  PROVE  TypeOK'
<1> USE ProcAssumption DEF table, local, Free, At, Goto, OnlyWakes, TypeOK, ProcState,
   PcLabel, Forks, Forking
<1>1. CASE UNCHANGED vars
  BY <1>1 DEF vars
<1>2. ASSUME NEW p \in Proc, Dispatch(p) PROVE TypeOK'
  BY <1>2, SlotFacts DEF Dispatch
<1>3. ASSUME NEW p \in Proc, TrapKilled(p) PROVE TypeOK'
  BY <1>3, SlotFacts DEF TrapKilled
<1>4. ASSUME NEW p \in Proc, EnterFork(p) PROVE TypeOK'
  BY <1>4, SlotFacts DEF EnterFork, Syscall
<1>5. ASSUME NEW p \in Proc, EnterWait(p) PROVE TypeOK'
  BY <1>5, SlotFacts DEF EnterWait, Syscall
<1>6. ASSUME NEW p \in Proc, EnterExit(p) PROVE TypeOK'
  BY <1>6, SlotFacts DEF EnterExit, Syscall
<1>7. ASSUME NEW p \in Proc, EnterKill(p) PROVE TypeOK'
  <2>1. 0 \in Proc /\ KillPids \subseteq Pid
    BY <1>7, ProcAssumption, SlotFacts
  <2> QED
    BY <1>7, <2>1 DEF EnterKill, Syscall
<1>8. ASSUME NEW p \in Proc, AllocSkip(p) PROVE TypeOK'
  <2>1. 0 \in Proc /\ (~Last(p) => pp[p] + 1 \in Proc)
    BY SlotFacts
  <2>2. pc' \in [Proc -> PcLabel]
    BY <1>8, <2>1 DEF AllocSkip, Return, Step, Last
  <2>3. pp' \in [Proc -> Proc]
    BY <1>8, <2>1 DEF AllocSkip, Return, Step, Last
  <2>4. arg' \in [Proc -> Proc \union Pid]
    BY <1>8, <2>1 DEF AllocSkip, Return, Step, Last
  <2>5. havekids' \in [Proc -> BOOLEAN]
    BY <1>8, <2>1 DEF AllocSkip, Return, Step, Last
  <2> QED
    BY <1>8, <2>2, <2>3, <2>4, <2>5 DEF AllocSkip
<1>9. ASSUME NEW p \in Proc, Alloc(p) PROVE TypeOK'
  <2>1. pp[p] \in Proc /\ nextpid \in Pid /\ nextpid' \in 2 .. MAXPID + 1
    BY <1>9, ProcAssumption DEF Alloc, Pid
  <2> QED
    BY <1>9, <2>1 DEF Alloc
<1>10. ASSUME NEW p \in Proc, AllocFails(p) PROVE TypeOK'
  <2>1. pp[p] \in Proc /\ 0 \in Proc /\ 0 \in Pid /\ nextpid' \in 2 .. MAXPID + 1
    BY <1>10, ProcAssumption, SlotFacts DEF AllocFails, Pid
  <2> QED
    BY <1>10, <2>1 DEF AllocFails, Freed, Return
<1>11. ASSUME NEW p \in Proc, AllocBound(p) PROVE TypeOK'
  BY <1>11, SlotFacts DEF AllocBound, Return
<1>12. ASSUME NEW p \in Proc, Adopt(p) PROVE TypeOK'
  BY <1>12, SlotFacts DEF Adopt
<1>13. ASSUME NEW p \in Proc, Start(p) PROVE TypeOK'
  <2>1. 0 \in Proc /\ arg[p] \in Proc
    BY <1>13, SlotFacts DEF Start
  <2> QED
    BY <1>13, <2>1 DEF Start
<1>14. ASSUME NEW p \in Proc, ExitLock(p) PROVE TypeOK'
  BY <1>14, SlotFacts DEF ExitLock
<1>15. ASSUME NEW p \in Proc, Reparent(p) PROVE TypeOK'
  <2>1. initproc \in Proc
    BY InUse
  <2>2. parent' \in [Proc -> Proc \union {NoProc}]
    BY <1>15, <2>1 DEF Reparent
  <2>3. pp' \in [Proc -> Proc]
    BY <1>15, SlotFacts DEF Reparent, Abandoned, NextSlot, Step, Last
  <2>4. pc' \in [Proc -> PcLabel]
    BY <1>15 DEF Reparent, Abandoned, NextSlot, Step, Last
  <2> QED
    BY <1>15, <2>2, <2>3, <2>4 DEF Reparent
<1>16. ASSUME NEW p \in Proc, WakeInit(p) PROVE TypeOK'
  BY <1>16, SlotFacts DEF WakeInit, Wakeup, Step, Last
<1>17. ASSUME NEW p \in Proc, WakeParent(p) PROVE TypeOK'
  BY <1>17, SlotFacts DEF WakeParent, Wakeup
<1>18. ASSUME NEW p \in Proc, Zombie(p) PROVE TypeOK'
  BY <1>18, SlotFacts DEF Zombie
<1>19. ASSUME NEW p \in Proc, Unlock(p) PROVE TypeOK'
  BY <1>19, SlotFacts DEF Unlock
<1>20. ASSUME NEW p \in Proc, Swtch(p) PROVE TypeOK'
  BY <1>20, SlotFacts DEF Swtch
<1>21. ASSUME NEW p \in Proc, WaitLock(p) PROVE TypeOK'
  BY <1>21, SlotFacts DEF WaitLock
<1>22. ASSUME NEW p \in Proc, ScanOther(p) PROVE TypeOK'
  BY <1>22, SlotFacts DEF ScanOther, Child, NextSlot, Step, Last
<1>23. ASSUME NEW p \in Proc, ScanLive(p) PROVE TypeOK'
  BY <1>23, SlotFacts DEF ScanLive, Child, NextSlot, Step, Last
<1>24. ASSUME NEW p \in Proc, Reap(p) PROVE TypeOK'
  <2>1. pp[p] \in Proc /\ 0 \in Proc /\ 0 \in Pid
    BY <1>24, ProcAssumption, SlotFacts DEF Pid
  <2> QED
    BY <1>24, <2>1 DEF Reap, Child, Freed
<1>25. ASSUME NEW p \in Proc, ReapFails(p) PROVE TypeOK'
  BY <1>25, SlotFacts DEF ReapFails, Child, Return
<1>26. ASSUME NEW p \in Proc, WaitEnds(p) PROVE TypeOK'
  BY <1>26, SlotFacts DEF WaitEnds, Return
<1>27. ASSUME NEW p \in Proc, WaitSleeps(p) PROVE TypeOK'
  BY <1>27, SlotFacts DEF WaitSleeps
<1>28. ASSUME NEW p \in Proc, SleepLock(p) PROVE TypeOK'
  BY <1>28, SlotFacts DEF SleepLock
<1>29. ASSUME NEW p \in Proc, SleepSwtch(p) PROVE TypeOK'
  BY <1>29, SlotFacts DEF SleepSwtch
<1>30. ASSUME NEW p \in Proc, KillSkip(p) PROVE TypeOK'
  <2>1. 0 \in Proc /\ (~Last(p) => pp[p] + 1 \in Proc)
    BY SlotFacts
  <2>2. pc' \in [Proc -> PcLabel]
    BY <1>30, <2>1 DEF KillSkip, Return, Step, Last
  <2>3. pp' \in [Proc -> Proc]
    BY <1>30, <2>1 DEF KillSkip, Return, Step, Last
  <2>4. arg' \in [Proc -> Proc \union Pid]
    BY <1>30, <2>1 DEF KillSkip, Return, Step, Last
  <2>5. havekids' \in [Proc -> BOOLEAN]
    BY <1>30, <2>1 DEF KillSkip, Return, Step, Last
  <2> QED
    BY <1>30, <2>2, <2>3, <2>4, <2>5 DEF KillSkip
<1>31. ASSUME NEW p \in Proc, KillFound(p) PROVE TypeOK'
  BY <1>31, SlotFacts DEF KillFound, Return
<1> QED
  BY <1>1, <1>2, <1>3, <1>4, <1>5, <1>6, <1>7, <1>8, <1>9, <1>10, <1>11, <1>12, <1>13,
     <1>14, <1>15, <1>16, <1>17, <1>18, <1>19, <1>20, <1>21, <1>22, <1>23, <1>24, <1>25,
     <1>26, <1>27, <1>28, <1>29, <1>30, <1>31 DEF Next, Enter, Fork, Exit, Wait, Kill

\* Every step keeps the locks with the threads that hold them.
LEMMA LocksStep ==
  ASSUME TypeOK, Locks, Forks, States, [Next]_vars
  PROVE  Locks'
<1> USE ProcAssumption DEF table, local, Free, At, Goto, OnlyWakes, Locks, TypeOK,
   HasWaitLock, HasOwnLock
<1>1. CASE UNCHANGED vars
  BY <1>1 DEF vars
<1>2. ASSUME NEW p \in Proc, Dispatch(p) PROVE Locks'
  BY <1>2 DEF Dispatch
<1>3. ASSUME NEW p \in Proc, TrapKilled(p) PROVE Locks'
  BY <1>3 DEF TrapKilled
<1>4. ASSUME NEW p \in Proc, EnterFork(p) PROVE Locks'
  BY <1>4 DEF EnterFork, Syscall
<1>5. ASSUME NEW p \in Proc, EnterWait(p) PROVE Locks'
  BY <1>5 DEF EnterWait, Syscall
<1>6. ASSUME NEW p \in Proc, EnterExit(p) PROVE Locks'
  BY <1>6 DEF EnterExit, Syscall
<1>7. ASSUME NEW p \in Proc, EnterKill(p) PROVE Locks'
  BY <1>7 DEF EnterKill, Syscall
<1>8. ASSUME NEW p \in Proc, AllocSkip(p) PROVE Locks'
  BY <1>8 DEF AllocSkip, Return, Step, Last
<1>9. ASSUME NEW p \in Proc, Alloc(p) PROVE Locks'
  BY <1>9 DEF Alloc
<1>10. ASSUME NEW p \in Proc, AllocFails(p) PROVE Locks'
  BY <1>10 DEF AllocFails, Freed, Return
<1>11. ASSUME NEW p \in Proc, AllocBound(p) PROVE Locks'
  BY <1>11 DEF AllocBound, Return
<1>12. ASSUME NEW p \in Proc, Adopt(p) PROVE Locks'
  BY <1>12 DEF Adopt
<1>13. ASSUME NEW p \in Proc, Start(p) PROVE Locks'
  <2>1. arg[p] \in Proc /\ arg[p] # p /\ pc[arg[p]] = "none"
    BY <1>13, InUse DEF Start, Forks, Forking, States
  <2>2. pc' = [q \in Proc |-> IF q = p THEN "user" ELSE IF q = arg[p] THEN "new" ELSE pc[q]]
    BY <1>13, <2>1 DEF Start
  <2> QED
    BY <1>13, <2>1, <2>2 DEF Start
<1>14. ASSUME NEW p \in Proc, ExitLock(p) PROVE Locks'
  BY <1>14 DEF ExitLock
<1>15. ASSUME NEW p \in Proc, Reparent(p) PROVE Locks'
  BY <1>15 DEF Reparent, Abandoned, NextSlot, Step, Last
<1>16. ASSUME NEW p \in Proc, WakeInit(p) PROVE Locks'
  BY <1>16 DEF WakeInit, Wakeup, Step, Last
<1>17. ASSUME NEW p \in Proc, WakeParent(p) PROVE Locks'
  BY <1>17 DEF WakeParent, Wakeup
<1>18. ASSUME NEW p \in Proc, Zombie(p) PROVE Locks'
  BY <1>18 DEF Zombie
<1>19. ASSUME NEW p \in Proc, Unlock(p) PROVE Locks'
  BY <1>19 DEF Unlock
<1>20. ASSUME NEW p \in Proc, Swtch(p) PROVE Locks'
  BY <1>20 DEF Swtch
<1>21. ASSUME NEW p \in Proc, WaitLock(p) PROVE Locks'
  BY <1>21 DEF WaitLock
<1>22. ASSUME NEW p \in Proc, ScanOther(p) PROVE Locks'
  BY <1>22 DEF ScanOther, Child, NextSlot, Step, Last
<1>23. ASSUME NEW p \in Proc, ScanLive(p) PROVE Locks'
  BY <1>23 DEF ScanLive, Child, NextSlot, Step, Last
<1>24. ASSUME NEW p \in Proc, Reap(p) PROVE Locks'
  BY <1>24 DEF Reap, Child, Freed
<1>25. ASSUME NEW p \in Proc, ReapFails(p) PROVE Locks'
  BY <1>25 DEF ReapFails, Child, Return
<1>26. ASSUME NEW p \in Proc, WaitEnds(p) PROVE Locks'
  BY <1>26 DEF WaitEnds, Return
<1>27. ASSUME NEW p \in Proc, WaitSleeps(p) PROVE Locks'
  BY <1>27 DEF WaitSleeps
<1>28. ASSUME NEW p \in Proc, SleepLock(p) PROVE Locks'
  BY <1>28 DEF SleepLock
<1>29. ASSUME NEW p \in Proc, SleepSwtch(p) PROVE Locks'
  BY <1>29 DEF SleepSwtch
<1>30. ASSUME NEW p \in Proc, KillSkip(p) PROVE Locks'
  BY <1>30 DEF KillSkip, Return, Step, Last
<1>31. ASSUME NEW p \in Proc, KillFound(p) PROVE Locks'
  BY <1>31 DEF KillFound, Return
<1> QED
  BY <1>1, <1>2, <1>3, <1>4, <1>5, <1>6, <1>7, <1>8, <1>9, <1>10, <1>11, <1>12, <1>13,
     <1>14, <1>15, <1>16, <1>17, <1>18, <1>19, <1>20, <1>21, <1>22, <1>23, <1>24, <1>25,
     <1>26, <1>27, <1>28, <1>29, <1>30, <1>31 DEF Next, Enter, Fork, Exit, Wait, Kill

\* Every step keeps the state of a process in step with its thread.
LEMMA StatesStep ==
  ASSUME TypeOK, Locks, Forks, States, [Next]_vars
  PROVE  States'
<1> USE ProcAssumption DEF table, local, Free, At, Goto, OnlyWakes, States, TypeOK
<1>1. CASE UNCHANGED vars
  BY <1>1 DEF vars
<1>2. ASSUME NEW p \in Proc, Dispatch(p) PROVE States'
  BY <1>2 DEF Dispatch
<1>3. ASSUME NEW p \in Proc, TrapKilled(p) PROVE States'
  BY <1>3 DEF TrapKilled
<1>4. ASSUME NEW p \in Proc, EnterFork(p) PROVE States'
  BY <1>4 DEF EnterFork, Syscall
<1>5. ASSUME NEW p \in Proc, EnterWait(p) PROVE States'
  BY <1>5 DEF EnterWait, Syscall
<1>6. ASSUME NEW p \in Proc, EnterExit(p) PROVE States'
  BY <1>6 DEF EnterExit, Syscall
<1>7. ASSUME NEW p \in Proc, EnterKill(p) PROVE States'
  BY <1>7 DEF EnterKill, Syscall
<1>8. ASSUME NEW p \in Proc, AllocSkip(p) PROVE States'
  BY <1>8 DEF AllocSkip, Return, Step, Last
<1>9. ASSUME NEW p \in Proc, Alloc(p) PROVE States'
  BY <1>9 DEF Alloc
<1>10. ASSUME NEW p \in Proc, AllocFails(p) PROVE States'
  BY <1>10 DEF AllocFails, Freed, Return
<1>11. ASSUME NEW p \in Proc, AllocBound(p) PROVE States'
  BY <1>11 DEF AllocBound, Return
<1>12. ASSUME NEW p \in Proc, Adopt(p) PROVE States'
  BY <1>12 DEF Adopt
<1>13. ASSUME NEW p \in Proc, Start(p) PROVE States'
  BY <1>13 DEF Start
<1>14. ASSUME NEW p \in Proc, ExitLock(p) PROVE States'
  BY <1>14 DEF ExitLock
<1>15. ASSUME NEW p \in Proc, Reparent(p) PROVE States'
  BY <1>15 DEF Reparent, Abandoned, NextSlot, Step, Last
<1>16. ASSUME NEW p \in Proc, WakeInit(p) PROVE States'
  BY <1>16 DEF WakeInit, Wakeup, Step, Last
<1>17. ASSUME NEW p \in Proc, WakeParent(p) PROVE States'
  BY <1>17 DEF WakeParent, Wakeup
<1>18. ASSUME NEW p \in Proc, Zombie(p) PROVE States'
  BY <1>18 DEF Zombie
<1>19. ASSUME NEW p \in Proc, Unlock(p) PROVE States'
  BY <1>19 DEF Unlock
<1>20. ASSUME NEW p \in Proc, Swtch(p) PROVE States'
  BY <1>20 DEF Swtch
<1>21. ASSUME NEW p \in Proc, WaitLock(p) PROVE States'
  BY <1>21 DEF WaitLock
<1>22. ASSUME NEW p \in Proc, ScanOther(p) PROVE States'
  BY <1>22 DEF ScanOther, Child, NextSlot, Step, Last
<1>23. ASSUME NEW p \in Proc, ScanLive(p) PROVE States'
  BY <1>23 DEF ScanLive, Child, NextSlot, Step, Last
<1>24. ASSUME NEW p \in Proc, Reap(p) PROVE States'
  <2>1. pp[p] \in Proc /\ pp[p] # p /\ pc[pp[p]] = "none"
    BY <1>24 DEF Reap, Locks, HasOwnLock
  <2> QED
    BY <1>24, <2>1 DEF Reap, Child, Freed
<1>25. ASSUME NEW p \in Proc, ReapFails(p) PROVE States'
  BY <1>25 DEF ReapFails, Child, Return
<1>26. ASSUME NEW p \in Proc, WaitEnds(p) PROVE States'
  BY <1>26 DEF WaitEnds, Return
<1>27. ASSUME NEW p \in Proc, WaitSleeps(p) PROVE States'
  BY <1>27 DEF WaitSleeps
<1>28. ASSUME NEW p \in Proc, SleepLock(p) PROVE States'
  BY <1>28 DEF SleepLock
<1>29. ASSUME NEW p \in Proc, SleepSwtch(p) PROVE States'
  BY <1>29 DEF SleepSwtch
<1>30. ASSUME NEW p \in Proc, KillSkip(p) PROVE States'
  BY <1>30 DEF KillSkip, Return, Step, Last
<1>31. ASSUME NEW p \in Proc, KillFound(p) PROVE States'
  BY <1>31 DEF KillFound, Return
<1> QED
  BY <1>1, <1>2, <1>3, <1>4, <1>5, <1>6, <1>7, <1>8, <1>9, <1>10, <1>11, <1>12, <1>13,
     <1>14, <1>15, <1>16, <1>17, <1>18, <1>19, <1>20, <1>21, <1>22, <1>23, <1>24, <1>25,
     <1>26, <1>27, <1>28, <1>29, <1>30, <1>31 DEF Next, Enter, Fork, Exit, Wait, Kill

\* Every step keeps init alive.
LEMMA InitLivesStep ==
  ASSUME TypeOK, Locks, States, Forks, InitLives, [Next]_vars
  PROVE  InitLives'
<1> USE ProcAssumption DEF table, local, Free, At, Goto, OnlyWakes, InitLives, TypeOK,
   Exiting
<1>1. CASE UNCHANGED vars
  BY <1>1 DEF vars
<1>2. ASSUME NEW p \in Proc, Dispatch(p) PROVE InitLives'
  BY <1>2, SlotFacts DEF Dispatch
<1>3. ASSUME NEW p \in Proc, TrapKilled(p) PROVE InitLives'
  BY <1>3, SlotFacts DEF TrapKilled
<1>4. ASSUME NEW p \in Proc, EnterFork(p) PROVE InitLives'
  BY <1>4, SlotFacts DEF EnterFork, Syscall
<1>5. ASSUME NEW p \in Proc, EnterWait(p) PROVE InitLives'
  BY <1>5, SlotFacts DEF EnterWait, Syscall
<1>6. ASSUME NEW p \in Proc, EnterExit(p) PROVE InitLives'
  BY <1>6, SlotFacts DEF EnterExit, Syscall
<1>7. ASSUME NEW p \in Proc, EnterKill(p) PROVE InitLives'
  BY <1>7, SlotFacts DEF EnterKill, Syscall
<1>8. ASSUME NEW p \in Proc, AllocSkip(p) PROVE InitLives'
  <2>1. pid' = pid /\ killed' = killed
    BY <1>8 DEF AllocSkip, Return, Step, Last
  <2>2. initproc \in Proc /\ parent'[initproc] = NoProc
    BY <1>8, InUse DEF AllocSkip, Return, Step, Last
  <2>3. pc' = pc \/ pc' = [pc EXCEPT ![p] = "user"]
    BY <1>8 DEF AllocSkip, Return, Step, Last
  <2>4. \A q \in Proc : pc'[q] = "kill" => pc[q] = "kill" /\ arg'[q] = arg[q]
    BY <1>8, <2>3 DEF AllocSkip, Return, Step, Last
  <2> QED
    BY <1>8, <2>1, <2>2, <2>3, <2>4 DEF AllocSkip
<1>9. ASSUME NEW p \in Proc, Alloc(p) PROVE InitLives'
  <2>1. pp[p] \in Proc /\ pp[p] # initproc
    BY <1>9, InUse DEF Alloc
  <2> QED
    BY <1>9, <2>1, InUse DEF Alloc
<1>10. ASSUME NEW p \in Proc, AllocFails(p) PROVE InitLives'
  <2>1. pp[p] \in Proc /\ pp[p] # initproc
    BY <1>10, InUse DEF AllocFails
  <2> QED
    BY <1>10, <2>1, InUse DEF AllocFails, Freed, Return
<1>11. ASSUME NEW p \in Proc, AllocBound(p) PROVE InitLives'
  BY <1>11, SlotFacts DEF AllocBound, Return
<1>12. ASSUME NEW p \in Proc, Adopt(p) PROVE InitLives'
  <2>1. arg[p] \in Proc /\ arg[p] # initproc
    BY <1>12, InUse DEF Adopt, Forks, Forking
  <2> QED
    BY <1>12, <2>1, InUse DEF Adopt
<1>13. ASSUME NEW p \in Proc, Start(p) PROVE InitLives'
  <2>1. arg[p] \in Proc /\ arg[p] # initproc /\ initproc \in Proc
    BY <1>13, InUse DEF Start, Forks, Forking
  <2>2. \A q \in Proc : pc'[q] \in {pc[q], "user", "new"} /\ (q # p => arg'[q] = arg[q])
    BY <1>13, <2>1 DEF Start
  <2>3. pc'[p] = "user" \/ pc'[p] = "new"
    BY <1>13, <2>1 DEF Start
  <2> QED
    BY <1>13, <2>1, <2>2, <2>3 DEF Start
<1>14. ASSUME NEW p \in Proc, ExitLock(p) PROVE InitLives'
  BY <1>14, SlotFacts DEF ExitLock
<1>15. ASSUME NEW p \in Proc, Reparent(p) PROVE InitLives'
  <2>1. pid' = pid /\ killed' = killed
    BY <1>15 DEF Reparent, Abandoned, NextSlot, Step, Last
  <2>2. initproc \in Proc /\ parent'[initproc] = NoProc
    BY <1>15, InUse DEF Reparent, Abandoned, NextSlot, Step, Last
  <2>3. pc' = pc \/ pc' = [pc EXCEPT ![p] = "wakeinit"] \/ pc' = [pc EXCEPT ![p] = "wakeparent"]
    BY <1>15 DEF Reparent, Abandoned, NextSlot, Step, Last
  <2>4. \A q \in Proc : pc'[q] = "kill" => pc[q] = "kill" /\ arg'[q] = arg[q]
    BY <1>15, <2>3 DEF Reparent, Abandoned, NextSlot, Step, Last
  <2> QED
    BY <1>15, <2>1, <2>2, <2>3, <2>4 DEF Reparent
<1>16. ASSUME NEW p \in Proc, WakeInit(p) PROVE InitLives'
  BY <1>16, SlotFacts DEF WakeInit, Wakeup, Step, Last
<1>17. ASSUME NEW p \in Proc, WakeParent(p) PROVE InitLives'
  BY <1>17, SlotFacts DEF WakeParent, Wakeup
<1>18. ASSUME NEW p \in Proc, Zombie(p) PROVE InitLives'
  BY <1>18, SlotFacts DEF Zombie
<1>19. ASSUME NEW p \in Proc, Unlock(p) PROVE InitLives'
  BY <1>19, SlotFacts DEF Unlock
<1>20. ASSUME NEW p \in Proc, Swtch(p) PROVE InitLives'
  BY <1>20, SlotFacts DEF Swtch
<1>21. ASSUME NEW p \in Proc, WaitLock(p) PROVE InitLives'
  BY <1>21, SlotFacts DEF WaitLock
<1>22. ASSUME NEW p \in Proc, ScanOther(p) PROVE InitLives'
  <2>1. pid' = pid /\ killed' = killed
    BY <1>22 DEF ScanOther, Child, NextSlot, Step, Last
  <2>2. initproc \in Proc /\ parent'[initproc] = NoProc
    BY <1>22, InUse DEF ScanOther, Child, NextSlot, Step, Last
  <2>3. pc' = pc \/ pc' = [pc EXCEPT ![p] = "check"]
    BY <1>22 DEF ScanOther, Child, NextSlot, Step, Last
  <2>4. \A q \in Proc : pc'[q] = "kill" => pc[q] = "kill" /\ arg'[q] = arg[q]
    BY <1>22, <2>3 DEF ScanOther, Child, NextSlot, Step, Last
  <2> QED
    BY <1>22, <2>1, <2>2, <2>3, <2>4 DEF ScanOther
<1>23. ASSUME NEW p \in Proc, ScanLive(p) PROVE InitLives'
  <2>1. pid' = pid /\ killed' = killed
    BY <1>23 DEF ScanLive, Child, NextSlot, Step, Last
  <2>2. initproc \in Proc /\ parent'[initproc] = NoProc
    BY <1>23, InUse DEF ScanLive, Child, NextSlot, Step, Last
  <2>3. pc' = pc \/ pc' = [pc EXCEPT ![p] = "check"]
    BY <1>23 DEF ScanLive, Child, NextSlot, Step, Last
  <2>4. \A q \in Proc : pc'[q] = "kill" => pc[q] = "kill" /\ arg'[q] = arg[q]
    BY <1>23, <2>3 DEF ScanLive, Child, NextSlot, Step, Last
  <2> QED
    BY <1>23, <2>1, <2>2, <2>3, <2>4 DEF ScanLive
<1>24. ASSUME NEW p \in Proc, Reap(p) PROVE InitLives'
  BY <1>24, SlotFacts DEF Reap, Child, Freed
<1>25. ASSUME NEW p \in Proc, ReapFails(p) PROVE InitLives'
  BY <1>25, SlotFacts DEF ReapFails, Child, Return
<1>26. ASSUME NEW p \in Proc, WaitEnds(p) PROVE InitLives'
  BY <1>26, SlotFacts DEF WaitEnds, Return
<1>27. ASSUME NEW p \in Proc, WaitSleeps(p) PROVE InitLives'
  BY <1>27, SlotFacts DEF WaitSleeps
<1>28. ASSUME NEW p \in Proc, SleepLock(p) PROVE InitLives'
  BY <1>28, SlotFacts DEF SleepLock
<1>29. ASSUME NEW p \in Proc, SleepSwtch(p) PROVE InitLives'
  BY <1>29, SlotFacts DEF SleepSwtch
<1>30. ASSUME NEW p \in Proc, KillSkip(p) PROVE InitLives'
  <2>1. pid' = pid /\ killed' = killed
    BY <1>30 DEF KillSkip, Return, Step, Last
  <2>2. initproc \in Proc /\ parent'[initproc] = NoProc
    BY <1>30, InUse DEF KillSkip, Return, Step, Last
  <2>3. pc' = pc \/ pc' = [pc EXCEPT ![p] = "user"]
    BY <1>30 DEF KillSkip, Return, Step, Last
  <2>4. \A q \in Proc : pc'[q] = "kill" => pc[q] = "kill" /\ arg'[q] = arg[q]
    BY <1>30, <2>3 DEF KillSkip, Return, Step, Last
  <2> QED
    BY <1>30, <2>1, <2>2, <2>3, <2>4 DEF KillSkip
<1>31. ASSUME NEW p \in Proc, KillFound(p) PROVE InitLives'
  BY <1>31, SlotFacts DEF KillFound, Return
<1> QED
  BY <1>1, <1>2, <1>3, <1>4, <1>5, <1>6, <1>7, <1>8, <1>9, <1>10, <1>11, <1>12, <1>13,
     <1>14, <1>15, <1>16, <1>17, <1>18, <1>19, <1>20, <1>21, <1>22, <1>23, <1>24, <1>25,
     <1>26, <1>27, <1>28, <1>29, <1>30, <1>31 DEF Next, Enter, Fork, Exit, Wait, Kill

\* Every step keeps a slot that is filled in with the one that fills it.
LEMMA ForksStep ==
  ASSUME TypeOK, States, Forks, Parents, [Next]_vars
  PROVE  Forks'
<1> USE ProcAssumption DEF table, local, Free, At, Goto, OnlyWakes, Forks, TypeOK, Forking
<1>1. CASE UNCHANGED vars
  BY <1>1 DEF vars
<1>2. ASSUME NEW p \in Proc, Dispatch(p) PROVE Forks'
  BY <1>2 DEF Dispatch
<1>3. ASSUME NEW p \in Proc, TrapKilled(p) PROVE Forks'
  BY <1>3 DEF TrapKilled
<1>4. ASSUME NEW p \in Proc, EnterFork(p) PROVE Forks'
  BY <1>4 DEF EnterFork, Syscall
<1>5. ASSUME NEW p \in Proc, EnterWait(p) PROVE Forks'
  BY <1>5 DEF EnterWait, Syscall
<1>6. ASSUME NEW p \in Proc, EnterExit(p) PROVE Forks'
  BY <1>6 DEF EnterExit, Syscall
<1>7. ASSUME NEW p \in Proc, EnterKill(p) PROVE Forks'
  BY <1>7 DEF EnterKill, Syscall
<1>8. ASSUME NEW p \in Proc, AllocSkip(p) PROVE Forks'
  BY <1>8 DEF AllocSkip, Return, Step, Last
<1>9. ASSUME NEW p \in Proc, Alloc(p) PROVE Forks'
  BY <1>9 DEF Alloc
<1>10. ASSUME NEW p \in Proc, AllocFails(p) PROVE Forks'
  BY <1>10 DEF AllocFails, Freed, Return
<1>11. ASSUME NEW p \in Proc, AllocBound(p) PROVE Forks'
  BY <1>11 DEF AllocBound, Return
<1>12. ASSUME NEW p \in Proc, Adopt(p) PROVE Forks'
  BY <1>12 DEF Adopt
<1>13. ASSUME NEW p \in Proc, Start(p) PROVE Forks'
  BY <1>13 DEF Start
<1>14. ASSUME NEW p \in Proc, ExitLock(p) PROVE Forks'
  BY <1>14 DEF ExitLock
<1>15. ASSUME NEW p \in Proc, Reparent(p) PROVE Forks'
  BY <1>15 DEF Reparent, Abandoned, NextSlot, Step, Last
<1>16. ASSUME NEW p \in Proc, WakeInit(p) PROVE Forks'
  BY <1>16 DEF WakeInit, Wakeup, Step, Last
<1>17. ASSUME NEW p \in Proc, WakeParent(p) PROVE Forks'
  BY <1>17 DEF WakeParent, Wakeup
<1>18. ASSUME NEW p \in Proc, Zombie(p) PROVE Forks'
  <2>1. state[p] # "USED"
    BY <1>18 DEF States, Zombie
  <2>2. \A q \in Proc : pc'[q] \in Forking => pc[q] \in Forking /\ pc'[q] = pc[q] /\ arg[q] # p
    BY <1>18, <2>1 DEF Zombie
  <2> QED
    BY <1>18, <2>2 DEF Zombie
<1>19. ASSUME NEW p \in Proc, Unlock(p) PROVE Forks'
  BY <1>19 DEF Unlock
<1>20. ASSUME NEW p \in Proc, Swtch(p) PROVE Forks'
  BY <1>20 DEF Swtch
<1>21. ASSUME NEW p \in Proc, WaitLock(p) PROVE Forks'
  BY <1>21 DEF WaitLock
<1>22. ASSUME NEW p \in Proc, ScanOther(p) PROVE Forks'
  BY <1>22 DEF ScanOther, Child, NextSlot, Step, Last
<1>23. ASSUME NEW p \in Proc, ScanLive(p) PROVE Forks'
  BY <1>23 DEF ScanLive, Child, NextSlot, Step, Last
<1>24. ASSUME NEW p \in Proc, Reap(p) PROVE Forks'
  BY <1>24 DEF Reap, Child, Freed
<1>25. ASSUME NEW p \in Proc, ReapFails(p) PROVE Forks'
  BY <1>25 DEF ReapFails, Child, Return
<1>26. ASSUME NEW p \in Proc, WaitEnds(p) PROVE Forks'
  BY <1>26 DEF WaitEnds, Return
<1>27. ASSUME NEW p \in Proc, WaitSleeps(p) PROVE Forks'
  BY <1>27 DEF WaitSleeps
<1>28. ASSUME NEW p \in Proc, SleepLock(p) PROVE Forks'
  BY <1>28 DEF SleepLock
<1>29. ASSUME NEW p \in Proc, SleepSwtch(p) PROVE Forks'
  <2>1. state[p] # "USED"
    BY <1>29 DEF States, SleepSwtch
  <2>2. \A q \in Proc : pc'[q] \in Forking => pc[q] \in Forking /\ pc'[q] = pc[q] /\ arg[q] # p
    BY <1>29, <2>1 DEF SleepSwtch
  <2> QED
    BY <1>29, <2>2 DEF SleepSwtch
<1>30. ASSUME NEW p \in Proc, KillSkip(p) PROVE Forks'
  <2>1. CASE Last(p)
    BY <1>30, <2>1 DEF KillSkip, Return
  <2>2. CASE ~Last(p)
    BY <1>30, <2>2 DEF KillSkip, Step
  <2> QED
    BY <2>1, <2>2
<1>31. ASSUME NEW p \in Proc, KillFound(p) PROVE Forks'
  BY <1>31 DEF KillFound, Return
<1> QED
  BY <1>1, <1>2, <1>3, <1>4, <1>5, <1>6, <1>7, <1>8, <1>9, <1>10, <1>11, <1>12, <1>13,
     <1>14, <1>15, <1>16, <1>17, <1>18, <1>19, <1>20, <1>21, <1>22, <1>23, <1>24, <1>25,
     <1>26, <1>27, <1>28, <1>29, <1>30, <1>31 DEF Next, Enter, Fork, Exit, Wait, Kill

\* Every step leaves the loops at their first slot.
LEMMA RewoundStep ==
  ASSUME TypeOK, States, Forks, Rewound, [Next]_vars
  PROVE  Rewound'
<1> USE ProcAssumption DEF table, local, Free, At, Goto, OnlyWakes, Rewound, TypeOK
<1>1. CASE UNCHANGED vars
  BY <1>1 DEF vars
<1>2. ASSUME NEW p \in Proc, Dispatch(p) PROVE Rewound'
  BY <1>2 DEF Dispatch
<1>3. ASSUME NEW p \in Proc, TrapKilled(p) PROVE Rewound'
  BY <1>3 DEF TrapKilled
<1>4. ASSUME NEW p \in Proc, EnterFork(p) PROVE Rewound'
  BY <1>4 DEF EnterFork, Syscall
<1>5. ASSUME NEW p \in Proc, EnterWait(p) PROVE Rewound'
  BY <1>5 DEF EnterWait, Syscall
<1>6. ASSUME NEW p \in Proc, EnterExit(p) PROVE Rewound'
  BY <1>6 DEF EnterExit, Syscall
<1>7. ASSUME NEW p \in Proc, EnterKill(p) PROVE Rewound'
  BY <1>7 DEF EnterKill, Syscall
<1>8. ASSUME NEW p \in Proc, AllocSkip(p) PROVE Rewound'
  BY <1>8 DEF AllocSkip, Return, Step, Last
<1>9. ASSUME NEW p \in Proc, Alloc(p) PROVE Rewound'
  BY <1>9 DEF Alloc
<1>10. ASSUME NEW p \in Proc, AllocFails(p) PROVE Rewound'
  BY <1>10 DEF AllocFails, Freed, Return
<1>11. ASSUME NEW p \in Proc, AllocBound(p) PROVE Rewound'
  BY <1>11 DEF AllocBound, Return
<1>12. ASSUME NEW p \in Proc, Adopt(p) PROVE Rewound'
  BY <1>12 DEF Adopt
<1>13. ASSUME NEW p \in Proc, Start(p) PROVE Rewound'
  <2>1. arg[p] \in Proc /\ pc[arg[p]] = "none" /\ pp[arg[p]] = 0
    BY <1>13, InUse DEF Start, Forks, Forking
  <2>2. /\ pp' = [pp EXCEPT ![p] = 0]
        /\ pc' = [q \in Proc |-> IF q = p THEN "user" ELSE IF q = arg[p] THEN "new" ELSE pc[q]]
    BY <1>13, <2>1 DEF Start
  <2> QED
    BY <2>1, <2>2
<1>14. ASSUME NEW p \in Proc, ExitLock(p) PROVE Rewound'
  BY <1>14 DEF ExitLock
<1>15. ASSUME NEW p \in Proc, Reparent(p) PROVE Rewound'
  BY <1>15 DEF Reparent, Abandoned, NextSlot, Step, Last
<1>16. ASSUME NEW p \in Proc, WakeInit(p) PROVE Rewound'
  BY <1>16 DEF WakeInit, Wakeup, Step, Last
<1>17. ASSUME NEW p \in Proc, WakeParent(p) PROVE Rewound'
  BY <1>17 DEF WakeParent, Wakeup
<1>18. ASSUME NEW p \in Proc, Zombie(p) PROVE Rewound'
  BY <1>18 DEF Zombie
<1>19. ASSUME NEW p \in Proc, Unlock(p) PROVE Rewound'
  BY <1>19 DEF Unlock
<1>20. ASSUME NEW p \in Proc, Swtch(p) PROVE Rewound'
  BY <1>20 DEF Swtch
<1>21. ASSUME NEW p \in Proc, WaitLock(p) PROVE Rewound'
  BY <1>21 DEF WaitLock
<1>22. ASSUME NEW p \in Proc, ScanOther(p) PROVE Rewound'
  BY <1>22 DEF ScanOther, Child, NextSlot, Step, Last
<1>23. ASSUME NEW p \in Proc, ScanLive(p) PROVE Rewound'
  BY <1>23 DEF ScanLive, Child, NextSlot, Step, Last
<1>24. ASSUME NEW p \in Proc, Reap(p) PROVE Rewound'
  BY <1>24 DEF Reap, Child, Freed
<1>25. ASSUME NEW p \in Proc, ReapFails(p) PROVE Rewound'
  BY <1>25 DEF ReapFails, Child, Return
<1>26. ASSUME NEW p \in Proc, WaitEnds(p) PROVE Rewound'
  BY <1>26 DEF WaitEnds, Return
<1>27. ASSUME NEW p \in Proc, WaitSleeps(p) PROVE Rewound'
  BY <1>27 DEF WaitSleeps
<1>28. ASSUME NEW p \in Proc, SleepLock(p) PROVE Rewound'
  BY <1>28 DEF SleepLock
<1>29. ASSUME NEW p \in Proc, SleepSwtch(p) PROVE Rewound'
  BY <1>29 DEF SleepSwtch
<1>30. ASSUME NEW p \in Proc, KillSkip(p) PROVE Rewound'
  BY <1>30 DEF KillSkip, Return, Step, Last
<1>31. ASSUME NEW p \in Proc, KillFound(p) PROVE Rewound'
  BY <1>31 DEF KillFound, Return
<1> QED
  BY <1>1, <1>2, <1>3, <1>4, <1>5, <1>6, <1>7, <1>8, <1>9, <1>10, <1>11, <1>12, <1>13,
     <1>14, <1>15, <1>16, <1>17, <1>18, <1>19, <1>20, <1>21, <1>22, <1>23, <1>24, <1>25,
     <1>26, <1>27, <1>28, <1>29, <1>30, <1>31 DEF Next, Enter, Fork, Exit, Wait, Kill

\* Every step keeps every process in a family.
LEMMA ParentsStep ==
  ASSUME TypeOK, Locks, States, InitLives, Forks, Rewound, Parents, [Next]_vars
  PROVE  Parents'
<1> USE ProcAssumption DEF table, local, Free, At, Goto, OnlyWakes, TypeOK
<1>1. CASE UNCHANGED vars
  BY <1>1 DEF vars, Parents, NoParent, HasParent, NoChild, HandsOver, Childless
<1>2. ASSUME NEW p \in Proc, Dispatch(p) PROVE Parents'
  BY <1>2 DEF Dispatch, Parents, NoParent, HasParent, NoChild, HandsOver, Childless
<1>3. ASSUME NEW p \in Proc, TrapKilled(p) PROVE Parents'
  BY <1>3 DEF TrapKilled, Parents, NoParent, HasParent, NoChild, HandsOver, Childless
<1>4. ASSUME NEW p \in Proc, EnterFork(p) PROVE Parents'
  BY <1>4 DEF EnterFork, Syscall, Parents, NoParent, HasParent, NoChild, HandsOver,
     Childless
<1>5. ASSUME NEW p \in Proc, EnterWait(p) PROVE Parents'
  BY <1>5 DEF EnterWait, Syscall, Parents, NoParent, HasParent, NoChild, HandsOver,
     Childless
<1>6. ASSUME NEW p \in Proc, EnterExit(p) PROVE Parents'
  BY <1>6 DEF EnterExit, Syscall, Parents, NoParent, HasParent, NoChild, HandsOver,
     Childless
<1>7. ASSUME NEW p \in Proc, EnterKill(p) PROVE Parents'
  BY <1>7 DEF EnterKill, Syscall, Parents, NoParent, HasParent, NoChild, HandsOver,
     Childless
<1>8. ASSUME NEW p \in Proc, AllocSkip(p) PROVE Parents'
  <2>1. pc'[p] \notin Childless \union {"reparent", "wakeinit"}
    BY <1>8 DEF Childless, AllocSkip, Return, Step, Last
  <2> QED
    BY <1>8, <2>1, ParentsKept DEF AllocSkip, Return, Step, Last
<1>9. ASSUME NEW p \in Proc, Alloc(p) PROVE Parents'
  BY <1>9 DEF Alloc, Parents, NoParent, HasParent, NoChild, HandsOver, Childless
<1>10. ASSUME NEW p \in Proc, AllocFails(p) PROVE Parents'
  BY <1>10 DEF AllocFails, Freed, Return, Parents, NoParent, HasParent, NoChild, HandsOver,
     Childless
<1>11. ASSUME NEW p \in Proc, AllocBound(p) PROVE Parents'
  BY <1>11 DEF AllocBound, Return, Parents, NoParent, HasParent, NoChild, HandsOver,
     Childless
<1>12. ASSUME NEW p \in Proc, Adopt(p) PROVE Parents'
  <2>1. arg[p] \in Proc /\ state[arg[p]] = "USED"
    BY <1>12 DEF Forks, Forking, Adopt
  <2>2. NoParent'
    BY <1>12, <2>1 DEF Parents, NoParent, HasParent, NoChild, HandsOver, Adopt, Childless
  <2>3. HasParent'
    BY <1>12, <2>1 DEF Parents, NoParent, HasParent, NoChild, HandsOver, Adopt, Childless
  <2>4. NoChild'
    BY <1>12, <2>1 DEF Parents, NoParent, HasParent, NoChild, HandsOver, Adopt, Childless
  <2>5. HandsOver'
    BY <1>12, <2>1 DEF Parents, NoParent, HasParent, NoChild, HandsOver, Adopt, Childless
  <2> QED
    BY <2>2, <2>3, <2>4, <2>5 DEF Parents
<1>13. ASSUME NEW p \in Proc, Start(p) PROVE Parents'
  <2>1. arg[p] \in Proc /\ state[arg[p]] = "USED" /\ parent[arg[p]] = p /\ arg[p] # p
    BY <1>13, InUse DEF Forks, Forking, Start, States
  <2>2. pc' = [q \in Proc |-> IF q = p THEN "user" ELSE IF q = arg[p] THEN "new" ELSE pc[q]]
    BY <1>13, <2>1 DEF Start
  <2>3. NoParent'
    BY <1>13, <2>1, <2>2 DEF Parents, NoParent, HasParent, NoChild, HandsOver, Start, Childless
  <2>4. HasParent'
    BY <1>13, <2>1, <2>2 DEF Parents, NoParent, HasParent, NoChild, HandsOver, Start, Childless
  <2>5. NoChild'
    BY <1>13, <2>1, <2>2 DEF Parents, NoParent, HasParent, NoChild, HandsOver, Start, Childless
  <2>6. HandsOver'
    BY <1>13, <2>1, <2>2 DEF Parents, NoParent, HasParent, NoChild, HandsOver, Start, Childless
  <2> QED
    BY <2>3, <2>4, <2>5, <2>6 DEF Parents
<1>14. ASSUME NEW p \in Proc, ExitLock(p) PROVE Parents'
  <2>1. pp[p] = 0 /\ Proc \subseteq Nat
    BY <1>14, SlotFacts DEF Rewound, ExitLock
  <2>2. NoParent'
    BY <1>14, <2>1 DEF Parents, NoParent, HasParent, NoChild, HandsOver, ExitLock, Childless
  <2>3. HasParent'
    BY <1>14, <2>1 DEF Parents, NoParent, HasParent, NoChild, HandsOver, ExitLock, Childless
  <2>4. NoChild'
    BY <1>14, <2>1 DEF Parents, NoParent, HasParent, NoChild, HandsOver, ExitLock, Childless
  <2>5. HandsOver'
    BY <1>14, <2>1 DEF Parents, NoParent, HasParent, NoChild, HandsOver, ExitLock, Childless
  <2> QED
    BY <2>2, <2>3, <2>4, <2>5 DEF Parents
<1>15. ASSUME NEW p \in Proc, Reparent(p) PROVE Parents'
  <2>1. CASE Abandoned(p, pp[p])
    <3>1. pp[p] \in Proc /\ initproc \in Proc /\ p # initproc /\ Proc \subseteq Nat
      BY <1>15, SlotFacts, InUse DEF InitLives, Exiting, Reparent
    <3>2. pc[initproc] \notin Childless
      BY DEF InitLives, Exiting, Childless
    <3>3. NoParent'
      BY <1>15, <2>1, <3>1 DEF Reparent, Parents, NoParent, Abandoned
    <3>4. HasParent'
      BY <1>15, <2>1, <3>1 DEF Reparent, Parents, HasParent, Abandoned
    <3>5. NoChild'
      BY <1>15, <2>1, <3>1, <3>2 DEF Reparent, Parents, NoChild, Abandoned, Childless
    <3>6. HandsOver'
      <4> SUFFICES ASSUME NEW r \in Proc, NEW q \in Proc
                   PROVE  /\ pc'[r] = "reparent" /\ q < pp'[r] => parent'[q] # r
                          /\ pc'[r] = "wakeinit" /\ q <= pp'[r] => parent'[q] # r
        BY DEF HandsOver
      <4>1. pc[initproc] \notin {"reparent", "wakeinit"}
        BY DEF InitLives, Exiting
      <4>2. CASE r = p
        <5>1. q <= pp[p] /\ q # pp[p] => parent[q] # p
          BY <1>15, SlotFacts DEF Reparent, Parents, HandsOver
        <5>2. /\ pc'[p] = "wakeinit" /\ pp'[p] = pp[p]
              /\ parent' = [parent EXCEPT ![pp[p]] = initproc]
          BY <1>15, <2>1 DEF Reparent
        <5> QED
          BY <3>1, <4>2, <5>1, <5>2
      <4>3. CASE r # p
        BY <1>15, <2>1, <3>1, <4>1, <4>3 DEF Reparent, Parents, HandsOver, Abandoned
      <4> QED
        BY <4>2, <4>3
    <3> QED
      BY <3>3, <3>4, <3>5, <3>6 DEF Parents
  <2>2. CASE ~Abandoned(p, pp[p])
    <3>1. /\ pp[p] \in Proc /\ Proc \subseteq Nat
          /\ parent' = parent /\ state' = state /\ NextSlot(p, "wakeparent")
      BY <1>15, <2>2, SlotFacts DEF Reparent
    <3>2. \A q \in Proc : q <= pp[p] => parent[q] # p
      BY <1>15, <2>2, <3>1, SlotFacts DEF Reparent, Parents, HandsOver, Abandoned
    <3>3. CASE Last(p)
      <4>1. \A q \in Proc : parent[q] # p
        BY <3>2, <3>3, SlotFacts
      <4>2. pc' = [pc EXCEPT ![p] = "wakeparent"] /\ \A q \in Proc \ {p} : pp'[q] = pp[q]
        BY <3>1, <3>3 DEF NextSlot, Step
      <4> QED
        BY <3>1, <4>1, <4>2 DEF Parents, NoParent, HasParent, NoChild, HandsOver, Childless
    <3>4. CASE ~Last(p)
      <4>1. pc' = pc /\ pp' = [pp EXCEPT ![p] = pp[p] + 1]
        BY <3>1, <3>4 DEF NextSlot, Step
      <4>2. \A q \in Proc : q < pp[p] + 1 => parent[q] # p
        BY <3>1, <3>2, SlotFacts
      <4> QED
        BY <1>15, <3>1, <4>1, <4>2 DEF Reparent, Parents, NoParent, HasParent, NoChild, HandsOver
    <3> QED
      BY <3>3, <3>4
  <2> QED
    BY <2>1, <2>2
<1>16. ASSUME NEW p \in Proc, WakeInit(p) PROVE Parents'
  <2>1. /\ pp[p] \in Proc /\ Proc \subseteq Nat /\ parent' = parent
        /\ OnlyWakes
        /\ \A q \in Proc \ {p} : pc'[q] = pc[q] /\ pp'[q] = pp[q]
    <3>1. OnlyWakes
      BY <1>16, Woken, InUse DEF WakeInit
    <3>2. \A q \in Proc \ {p} : pc'[q] = pc[q] /\ pp'[q] = pp[q]
      BY <1>16 DEF WakeInit, Step
    <3> QED
      BY <1>16, <3>1, <3>2, SlotFacts DEF WakeInit
  <2>2. \A q \in Proc : q <= pp[p] => parent[q] # p
    BY <1>16 DEF WakeInit, Parents, HandsOver
  <2>3. NoParent' /\ HasParent'
    BY <2>1 DEF Parents, NoParent, HasParent
  <2>4. CASE Last(p)
    <3>1. \A q \in Proc : parent[q] # p
      BY <2>2, <2>4, SlotFacts
    <3>2. pc'[p] = "wakeparent"
      BY <1>16, <2>4 DEF WakeInit
    <3> QED
      BY <2>1, <2>3, <3>1, <3>2 DEF Parents, NoChild, HandsOver
  <2>5. CASE ~Last(p)
    <3>1. pc'[p] = "reparent" /\ pp'[p] = pp[p] + 1
      BY <1>16, <2>5 DEF WakeInit, Step
    <3>2. \A q \in Proc : q < pp[p] + 1 => parent[q] # p
      BY <2>1, <2>2, SlotFacts
    <3> QED
      BY <2>1, <2>3, <3>1, <3>2 DEF Parents, NoChild, HandsOver, Childless
  <2> QED
    BY <2>4, <2>5
<1>17. ASSUME NEW p \in Proc, WakeParent(p) PROVE Parents'
  BY <1>17 DEF WakeParent, Wakeup, Parents, NoParent, HasParent, NoChild, HandsOver,
     Childless
<1>18. ASSUME NEW p \in Proc, Zombie(p) PROVE Parents'
  <2>1. state[p] = "RUNNING" /\ pc[p] = "zombie"
    BY <1>18 DEF States, Zombie
  <2>2. /\ parent' = parent /\ pp' = pp /\ state' = [state EXCEPT ![p] = "ZOMBIE"]
        /\ pc' = [pc EXCEPT ![p] = "unlock"]
    BY <1>18 DEF Zombie
  <2>3. NoParent'
    BY <1>18, <2>1, <2>2 DEF Parents, NoParent, HasParent, NoChild, HandsOver, Zombie,
       Childless
  <2>4. HasParent'
    BY <1>18, <2>1, <2>2 DEF Parents, NoParent, HasParent, NoChild, HandsOver, Zombie,
       Childless
  <2>5. NoChild'
    BY <1>18, <2>1, <2>2 DEF Parents, NoParent, HasParent, NoChild, HandsOver, Zombie,
       Childless
  <2>6. HandsOver'
    BY <1>18, <2>1, <2>2 DEF Parents, NoParent, HasParent, NoChild, HandsOver, Zombie,
       Childless
  <2> QED
    BY <2>3, <2>4, <2>5, <2>6 DEF Parents
<1>19. ASSUME NEW p \in Proc, Unlock(p) PROVE Parents'
  BY <1>19 DEF Unlock, Parents, NoParent, HasParent, NoChild, HandsOver, Childless
<1>20. ASSUME NEW p \in Proc, Swtch(p) PROVE Parents'
  BY <1>20 DEF Swtch, Parents, NoParent, HasParent, NoChild, HandsOver, Childless
<1>21. ASSUME NEW p \in Proc, WaitLock(p) PROVE Parents'
  BY <1>21 DEF WaitLock, Parents, NoParent, HasParent, NoChild, HandsOver, Childless
<1>22. ASSUME NEW p \in Proc, ScanOther(p) PROVE Parents'
  BY <1>22 DEF ScanOther, Child, NextSlot, Step, Last, Parents, NoParent, HasParent,
     NoChild, HandsOver, Childless
<1>23. ASSUME NEW p \in Proc, ScanLive(p) PROVE Parents'
  BY <1>23 DEF ScanLive, Child, NextSlot, Step, Last, Parents, NoParent, HasParent, NoChild,
     HandsOver, Childless
<1>24. ASSUME NEW p \in Proc, Reap(p) PROVE Parents'
  BY <1>24 DEF Reap, Child, Freed, Parents, NoParent, HasParent, NoChild, HandsOver,
     Childless
<1>25. ASSUME NEW p \in Proc, ReapFails(p) PROVE Parents'
  BY <1>25 DEF ReapFails, Child, Return, Parents, NoParent, HasParent, NoChild, HandsOver,
     Childless
<1>26. ASSUME NEW p \in Proc, WaitEnds(p) PROVE Parents'
  BY <1>26 DEF WaitEnds, Return, Parents, NoParent, HasParent, NoChild, HandsOver, Childless
<1>27. ASSUME NEW p \in Proc, WaitSleeps(p) PROVE Parents'
  BY <1>27 DEF WaitSleeps, Parents, NoParent, HasParent, NoChild, HandsOver, Childless
<1>28. ASSUME NEW p \in Proc, SleepLock(p) PROVE Parents'
  BY <1>28 DEF SleepLock, Parents, NoParent, HasParent, NoChild, HandsOver, Childless
<1>29. ASSUME NEW p \in Proc, SleepSwtch(p) PROVE Parents'
  <2>1. state[p] = "RUNNING"
    BY <1>29 DEF States, SleepSwtch
  <2>2. /\ parent' = parent /\ pp' = pp /\ state' = [state EXCEPT ![p] = "SLEEPING"]
        /\ pc' = [pc EXCEPT ![p] = "asleep"]
    BY <1>29 DEF SleepSwtch
  <2>3. NoParent'
    BY <1>29, <2>1, <2>2 DEF Parents, NoParent, HasParent, NoChild, HandsOver, SleepSwtch,
       Childless
  <2>4. HasParent'
    BY <1>29, <2>1, <2>2 DEF Parents, NoParent, HasParent, NoChild, HandsOver, SleepSwtch,
       Childless
  <2>5. NoChild'
    BY <1>29, <2>1, <2>2 DEF Parents, NoParent, HasParent, NoChild, HandsOver, SleepSwtch,
       Childless
  <2>6. HandsOver'
    BY <1>29, <2>1, <2>2 DEF Parents, NoParent, HasParent, NoChild, HandsOver, SleepSwtch,
       Childless
  <2> QED
    BY <2>3, <2>4, <2>5, <2>6 DEF Parents
<1>30. ASSUME NEW p \in Proc, KillSkip(p) PROVE Parents'
  <2>1. pc'[p] \notin Childless \union {"reparent", "wakeinit"}
    BY <1>30 DEF Childless, KillSkip, Return, Step, Last
  <2> QED
    BY <1>30, <2>1, ParentsKept DEF KillSkip, Return, Step, Last
<1>31. ASSUME NEW p \in Proc, KillFound(p) PROVE Parents'
  BY <1>31 DEF KillFound, Return, Parents, NoParent, HasParent, NoChild, HandsOver,
     Childless
<1> QED
  BY <1>1, <1>2, <1>3, <1>4, <1>5, <1>6, <1>7, <1>8, <1>9, <1>10, <1>11, <1>12, <1>13,
     <1>14, <1>15, <1>16, <1>17, <1>18, <1>19, <1>20, <1>21, <1>22, <1>23, <1>24, <1>25,
     <1>26, <1>27, <1>28, <1>29, <1>30, <1>31 DEF Next, Enter, Fork, Exit, Wait, Kill

\* Every step keeps what kwait() has found.
LEMMA ScansStep ==
  ASSUME TypeOK, Locks, States, Forks, Parents, Scans, [Next]_vars
  PROVE  Scans'
<1> USE ProcAssumption DEF table, local, Free, At, Goto, OnlyWakes, Scans, TypeOK
<1>1. CASE UNCHANGED vars
  BY <1>1 DEF vars
<1>2. ASSUME NEW p \in Proc, Dispatch(p) PROVE Scans'
  BY <1>2 DEF Dispatch
<1>3. ASSUME NEW p \in Proc, TrapKilled(p) PROVE Scans'
  BY <1>3 DEF TrapKilled
<1>4. ASSUME NEW p \in Proc, EnterFork(p) PROVE Scans'
  BY <1>4 DEF EnterFork, Syscall
<1>5. ASSUME NEW p \in Proc, EnterWait(p) PROVE Scans'
  BY <1>5 DEF EnterWait, Syscall
<1>6. ASSUME NEW p \in Proc, EnterExit(p) PROVE Scans'
  BY <1>6 DEF EnterExit, Syscall
<1>7. ASSUME NEW p \in Proc, EnterKill(p) PROVE Scans'
  BY <1>7 DEF EnterKill, Syscall
<1>8. ASSUME NEW p \in Proc, AllocSkip(p) PROVE Scans'
  BY <1>8 DEF AllocSkip, Return, Step, Last
<1>9. ASSUME NEW p \in Proc, Alloc(p) PROVE Scans'
  BY <1>9 DEF Alloc
<1>10. ASSUME NEW p \in Proc, AllocFails(p) PROVE Scans'
  BY <1>10 DEF AllocFails, Freed, Return
<1>11. ASSUME NEW p \in Proc, AllocBound(p) PROVE Scans'
  BY <1>11 DEF AllocBound, Return
<1>12. ASSUME NEW p \in Proc, Adopt(p) PROVE Scans'
  BY <1>12 DEF Adopt
<1>13. ASSUME NEW p \in Proc, Start(p) PROVE Scans'
  BY <1>13 DEF Start
<1>14. ASSUME NEW p \in Proc, ExitLock(p) PROVE Scans'
  BY <1>14 DEF ExitLock
<1>15. ASSUME NEW p \in Proc, Reparent(p) PROVE Scans'
  <2>1. \A r \in Proc \ {p} : pc[r] \notin HasWaitLock
    BY <1>15, WaitLockOwner DEF HasWaitLock, Reparent
  <2>2. \A r \in Proc : pc'[r] \notin {"scan", "check", "sleep"}
    BY <1>15, <2>1 DEF HasWaitLock, Reparent, Abandoned, NextSlot, Step, Last
  <2> QED
    BY <2>2
<1>16. ASSUME NEW p \in Proc, WakeInit(p) PROVE Scans'
  BY <1>16 DEF WakeInit, Wakeup, Step, Last
<1>17. ASSUME NEW p \in Proc, WakeParent(p) PROVE Scans'
  BY <1>17 DEF WakeParent, Wakeup
<1>18. ASSUME NEW p \in Proc, Zombie(p) PROVE Scans'
  <2>1. \A r \in Proc \ {p} : pc[r] \notin HasWaitLock
    BY <1>18, WaitLockOwner DEF HasWaitLock, Zombie
  <2>2. \A r \in Proc : pc'[r] \notin {"scan", "check", "sleep"}
    BY <1>18, <2>1 DEF HasWaitLock, Zombie
  <2> QED
    BY <2>2
<1>19. ASSUME NEW p \in Proc, Unlock(p) PROVE Scans'
  BY <1>19 DEF Unlock
<1>20. ASSUME NEW p \in Proc, Swtch(p) PROVE Scans'
  BY <1>20 DEF Swtch
<1>21. ASSUME NEW p \in Proc, WaitLock(p) PROVE Scans'
  <2>1. \A r \in Proc : pc[r] \notin HasWaitLock
    BY <1>21, ProcAssumption DEF WaitLock, Locks
  <2>2. \A q \in Proc : ~(q < 0)
    BY SlotFacts
  <2>3. pc' = [pc EXCEPT ![p] = "scan"] /\ pp'[p] = 0
    BY <1>21 DEF WaitLock
  <2> QED
    BY <1>21, <2>1, <2>2, <2>3 DEF HasWaitLock
<1>22. ASSUME NEW p \in Proc, ScanOther(p) PROVE Scans'
  <2>1. \A q \in Proc : q <= pp[p] /\ parent[q] = p => state[q] # "ZOMBIE"
    BY <1>22, SlotFacts DEF ScanOther, Child
  <2>2. parent' = parent /\ state' = state /\ \A r \in Proc \ {p} : pc'[r] = pc[r]
          /\ pp'[r] = pp[r]
    BY <1>22 DEF ScanOther, Child, NextSlot, Step, Last
  <2>3. CASE Last(p)
    <3>1. pc'[p] = "check"
      BY <1>22, <2>3 DEF ScanOther, NextSlot
    <3>2. \A q \in Proc : parent[q] = p => state[q] # "ZOMBIE"
      BY <2>1, <2>3, SlotFacts
    <3> QED
      BY <2>2, <3>1, <3>2
  <2>4. CASE ~Last(p)
    <3>1. pc'[p] = "scan" /\ pp'[p] = pp[p] + 1
      BY <1>22, <2>4 DEF ScanOther, NextSlot, Step
    <3>2. \A q \in Proc : q < pp[p] + 1 /\ parent[q] = p => state[q] # "ZOMBIE"
      BY <2>1, SlotFacts
    <3> QED
      BY <2>2, <3>1, <3>2
  <2> QED
    BY <2>3, <2>4
<1>23. ASSUME NEW p \in Proc, ScanLive(p) PROVE Scans'
  <2>1. \A q \in Proc : q <= pp[p] /\ parent[q] = p => state[q] # "ZOMBIE"
    BY <1>23, SlotFacts DEF ScanLive, Child
  <2>2. parent' = parent /\ state' = state /\ \A r \in Proc \ {p} : pc'[r] = pc[r]
          /\ pp'[r] = pp[r]
    BY <1>23 DEF ScanLive, Child, NextSlot, Step, Last
  <2>3. CASE Last(p)
    <3>1. pc'[p] = "check"
      BY <1>23, <2>3 DEF ScanLive, NextSlot
    <3>2. \A q \in Proc : parent[q] = p => state[q] # "ZOMBIE"
      BY <2>1, <2>3, SlotFacts
    <3> QED
      BY <2>2, <3>1, <3>2
  <2>4. CASE ~Last(p)
    <3>1. pc'[p] = "scan" /\ pp'[p] = pp[p] + 1
      BY <1>23, <2>4 DEF ScanLive, NextSlot, Step
    <3>2. \A q \in Proc : q < pp[p] + 1 /\ parent[q] = p => state[q] # "ZOMBIE"
      BY <2>1, SlotFacts
    <3> QED
      BY <2>2, <3>1, <3>2
  <2> QED
    BY <2>3, <2>4
<1>24. ASSUME NEW p \in Proc, Reap(p) PROVE Scans'
  BY <1>24 DEF Reap, Child, Freed
<1>25. ASSUME NEW p \in Proc, ReapFails(p) PROVE Scans'
  BY <1>25 DEF ReapFails, Child, Return
<1>26. ASSUME NEW p \in Proc, WaitEnds(p) PROVE Scans'
  BY <1>26 DEF WaitEnds, Return
<1>27. ASSUME NEW p \in Proc, WaitSleeps(p) PROVE Scans'
  BY <1>27 DEF WaitSleeps
<1>28. ASSUME NEW p \in Proc, SleepLock(p) PROVE Scans'
  BY <1>28 DEF SleepLock
<1>29. ASSUME NEW p \in Proc, SleepSwtch(p) PROVE Scans'
  BY <1>29 DEF SleepSwtch
<1>30. ASSUME NEW p \in Proc, KillSkip(p) PROVE Scans'
  BY <1>30 DEF KillSkip, Return, Step, Last
<1>31. ASSUME NEW p \in Proc, KillFound(p) PROVE Scans'
  BY <1>31 DEF KillFound, Return
<1> QED
  BY <1>1, <1>2, <1>3, <1>4, <1>5, <1>6, <1>7, <1>8, <1>9, <1>10, <1>11, <1>12, <1>13,
     <1>14, <1>15, <1>16, <1>17, <1>18, <1>19, <1>20, <1>21, <1>22, <1>23, <1>24, <1>25,
     <1>26, <1>27, <1>28, <1>29, <1>30, <1>31 DEF Next, Enter, Fork, Exit, Wait, Kill

\* Every step keeps those that sleep from missing a zombie.
LEMMA HeardStep ==
  ASSUME TypeOK, Locks, States, InitLives, Forks, Parents, Scans, Heard, [Next]_vars
  PROVE  Heard'
<1> USE ProcAssumption DEF table, local, Free, At, Goto, OnlyWakes, TypeOK
<1>1. CASE UNCHANGED vars
  BY <1>1 DEF vars, Locks, States, InitLives, Forks, Scans, Heard, HearsOf, HasHeard, Dozing
<1>2. ASSUME NEW p \in Proc, Dispatch(p) PROVE Heard'
  BY <1>2 DEF Dispatch, Locks, States, InitLives, Forks, Scans, Heard, HearsOf, HasHeard,
     Dozing
<1>3. ASSUME NEW p \in Proc, TrapKilled(p) PROVE Heard'
  BY <1>3 DEF TrapKilled, Locks, States, InitLives, Forks, Scans, Heard, HearsOf, HasHeard,
     Dozing
<1>4. ASSUME NEW p \in Proc, EnterFork(p) PROVE Heard'
  BY <1>4 DEF EnterFork, Syscall, Locks, States, InitLives, Forks, Scans, Heard, HearsOf,
     HasHeard, Dozing
<1>5. ASSUME NEW p \in Proc, EnterWait(p) PROVE Heard'
  BY <1>5 DEF EnterWait, Syscall, Locks, States, InitLives, Forks, Scans, Heard, HearsOf,
     HasHeard, Dozing
<1>6. ASSUME NEW p \in Proc, EnterExit(p) PROVE Heard'
  BY <1>6 DEF EnterExit, Syscall, Locks, States, InitLives, Forks, Scans, Heard, HearsOf,
     HasHeard, Dozing
<1>7. ASSUME NEW p \in Proc, EnterKill(p) PROVE Heard'
  BY <1>7 DEF EnterKill, Syscall, Locks, States, InitLives, Forks, Scans, Heard, HearsOf,
     HasHeard, Dozing
<1>8. ASSUME NEW p \in Proc, AllocSkip(p) PROVE Heard'
  <2>1. \A q \in Proc \ {p} : pc'[q] = pc[q]
    BY <1>8 DEF AllocSkip, Return, Step, Last
  <2>2. pc[p] # "wakeinit" /\ pc'[p] \notin {"sleeping", "zombie"}
    BY <1>8 DEF AllocSkip, Return, Step, Last
  <2> QED
    BY <1>8, <2>1, <2>2, HeardKept DEF AllocSkip
<1>9. ASSUME NEW p \in Proc, Alloc(p) PROVE Heard'
  BY <1>9 DEF Alloc, Locks, States, InitLives, Forks, Scans, Heard, HearsOf, HasHeard,
     Dozing
<1>10. ASSUME NEW p \in Proc, AllocFails(p) PROVE Heard'
  <2>1. \A q \in Proc \ {p} : pc'[q] = pc[q]
    BY <1>10 DEF AllocFails, Freed, Return
  <2>2. pc[p] # "wakeinit" /\ pc'[p] \notin {"sleeping", "zombie"}
    BY <1>10 DEF AllocFails, Freed, Return
  <2>3. state' = state /\ parent' = parent
    BY <1>10, SlotFacts DEF Parents, NoParent, AllocFails, Freed, Return
  <2> QED
    BY <2>1, <2>2, <2>3, HeardKept
<1>11. ASSUME NEW p \in Proc, AllocBound(p) PROVE Heard'
  BY <1>11 DEF AllocBound, Return, Locks, States, InitLives, Forks, Scans, Heard, HearsOf,
     HasHeard, Dozing
<1>12. ASSUME NEW p \in Proc, Adopt(p) PROVE Heard'
  <2>1. arg[p] \in Proc /\ state[arg[p]] = "USED" /\ pc[arg[p]] = "none"
    BY <1>12, InUse DEF Adopt, Forks, Forking
  <2>2. /\ parent' = [parent EXCEPT ![arg[p]] = p] /\ state' = state
        /\ pc' = [pc EXCEPT ![p] = "start"] /\ arg[p] # p
    BY <1>12, <2>1 DEF Adopt
  <2>3. HearsOf'
    BY <1>12, <2>1, <2>2 DEF Adopt, Heard, HearsOf, HasHeard, Dozing
  <2>4. HasHeard'
    BY <1>12, <2>1, <2>2 DEF Adopt, Heard, HearsOf, HasHeard, Dozing
  <2> QED
    BY <2>3, <2>4 DEF Heard
<1>13. ASSUME NEW p \in Proc, Start(p) PROVE Heard'
  <2>1. arg[p] \in Proc /\ state[arg[p]] = "USED" /\ pc[arg[p]] = "none"
    BY <1>13, InUse DEF Start, Forks, Forking
  <2>2. parent' = parent /\ state' = [state EXCEPT ![arg[p]] = "RUNNABLE"] /\ arg[p] # p
    BY <1>13, <2>1 DEF Start
  <2>3. pc' = [q \in Proc |-> IF q = p THEN "user" ELSE IF q = arg[p] THEN "new" ELSE pc[q]]
    BY <1>13, <2>1, <2>2 DEF Start
  <2>4. HearsOf'
    BY <1>13, <2>1, <2>2, <2>3 DEF Start, Heard, HearsOf, HasHeard, Dozing
  <2>5. HasHeard'
    BY <1>13, <2>1, <2>2, <2>3 DEF Start, Heard, HearsOf, HasHeard, Dozing
  <2> QED
    BY <2>4, <2>5 DEF Heard
<1>14. ASSUME NEW p \in Proc, ExitLock(p) PROVE Heard'
  BY <1>14 DEF ExitLock, Locks, States, InitLives, Forks, Scans, Heard, HearsOf, HasHeard,
     Dozing
<1>15. ASSUME NEW p \in Proc, Reparent(p) PROVE Heard'
  <2>1. \A r \in Proc \ {p} : pc'[r] = pc[r]
    BY <1>15 DEF Reparent, NextSlot
  <2>2. CASE Abandoned(p, pp[p])
    <3>1. parent' = [parent EXCEPT ![pp[p]] = initproc] /\ state' = state /\ pc'[p] = "wakeinit"
      BY <1>15, <2>2 DEF Reparent
    <3>2. \A r \in Proc \ {p} : pc[r] \notin HasWaitLock
      BY <1>15, WaitLockOwner DEF HasWaitLock, Reparent
    <3>3. HearsOf'
      BY <1>15, <2>1, <3>1 DEF Reparent, Heard, HearsOf, Dozing
    <3>4. HasHeard'
      BY <2>1, <3>1, <3>2 DEF HasHeard, HasWaitLock
    <3> QED
      BY <3>3, <3>4 DEF Heard
  <2>3. CASE ~Abandoned(p, pp[p])
    BY <1>15, <2>1, <2>3, HeardKept DEF Reparent, NextSlot
  <2> QED
    BY <2>2, <2>3
<1>16. ASSUME NEW p \in Proc, WakeInit(p) PROVE Heard'
  <2>1. /\ OnlyWakes
        /\ pc[initproc] # "sleeping" /\ state'[initproc] # "SLEEPING"
    BY <1>16, Woken, InUse DEF WakeInit
  <2>2. /\ parent' = parent /\ pc'[p] \in {"wakeparent", "reparent"}
        /\ \A r \in Proc \ {p} : pc'[r] = pc[r]
    BY <1>16 DEF WakeInit
  <2>3. \A r \in Proc \ {p} : pc[r] \notin HasWaitLock
    BY <1>16, WaitLockOwner DEF HasWaitLock, WakeInit
  <2>4. HearsOf'
    <3> SUFFICES ASSUME NEW r \in Proc, NEW q \in Proc,
                      Dozing(r)', parent'[q] = r, state'[q] = "ZOMBIE"
                 PROVE  FALSE
      BY DEF HearsOf
    <3>1. r # initproc
      BY <2>1, <2>2 DEF Dozing
    <3>2. Dozing(r)
      BY <2>1, <2>2 DEF Dozing
    <3> QED
      BY <2>1, <2>2, <3>1, <3>2 DEF Heard, HearsOf
  <2>5. HasHeard'
    BY <2>2, <2>3 DEF HasHeard, HasWaitLock
  <2> QED
    BY <2>4, <2>5 DEF Heard
<1>17. ASSUME NEW p \in Proc, WakeParent(p) PROVE Heard'
  <2>1. parent[p] \in Proc
    BY <1>17, ParentOf DEF WakeParent
  <2>2. /\ OnlyWakes
        /\ pc[parent[p]] # "sleeping" /\ state'[parent[p]] # "SLEEPING"
    BY <1>17, <2>1, Woken DEF WakeParent
  <2>3. parent' = parent /\ pc' = [pc EXCEPT ![p] = "zombie"]
    BY <1>17 DEF WakeParent
  <2>4. \A r \in Proc \ {p} : pc[r] \notin HasWaitLock
    BY <1>17, WaitLockOwner DEF HasWaitLock, WakeParent
  <2>5. HearsOf'
    <3> SUFFICES ASSUME NEW r \in Proc, NEW q \in Proc,
                      Dozing(r)', parent'[q] = r, state'[q] = "ZOMBIE"
                 PROVE  FALSE
      BY DEF HearsOf
    <3>1. Dozing(r)
      BY <2>2, <2>3 DEF Dozing
    <3>2. ~\E s \in Proc : pc[s] = "wakeinit"
      BY <1>17, <2>4 DEF WakeParent, HasWaitLock
    <3> QED
      BY <2>2, <2>3, <3>1, <3>2 DEF Heard, HearsOf
  <2>6. HasHeard'
    BY <2>2, <2>3, <2>4 DEF HasHeard, HasWaitLock, Dozing
  <2> QED
    BY <2>5, <2>6 DEF Heard
<1>18. ASSUME NEW p \in Proc, Zombie(p) PROVE Heard'
  BY <1>18 DEF Zombie, Locks, States, InitLives, Forks, Scans, Heard, HearsOf, HasHeard,
     Dozing
<1>19. ASSUME NEW p \in Proc, Unlock(p) PROVE Heard'
  BY <1>19 DEF Unlock, Locks, States, InitLives, Forks, Scans, Heard, HearsOf, HasHeard,
     Dozing
<1>20. ASSUME NEW p \in Proc, Swtch(p) PROVE Heard'
  BY <1>20 DEF Swtch, Locks, States, InitLives, Forks, Scans, Heard, HearsOf, HasHeard,
     Dozing
<1>21. ASSUME NEW p \in Proc, WaitLock(p) PROVE Heard'
  BY <1>21 DEF WaitLock, Locks, States, InitLives, Forks, Scans, Heard, HearsOf, HasHeard,
     Dozing
<1>22. ASSUME NEW p \in Proc, ScanOther(p) PROVE Heard'
  <2>1. \A q \in Proc \ {p} : pc'[q] = pc[q]
    BY <1>22 DEF ScanOther, Child, NextSlot, Step, Last
  <2>2. pc[p] # "wakeinit" /\ pc'[p] \notin {"sleeping", "zombie"}
    BY <1>22 DEF ScanOther, Child, NextSlot, Step, Last
  <2> QED
    BY <1>22, <2>1, <2>2, HeardKept DEF ScanOther
<1>23. ASSUME NEW p \in Proc, ScanLive(p) PROVE Heard'
  <2>1. \A q \in Proc \ {p} : pc'[q] = pc[q]
    BY <1>23 DEF ScanLive, Child, NextSlot, Step, Last
  <2>2. pc[p] # "wakeinit" /\ pc'[p] \notin {"sleeping", "zombie"}
    BY <1>23 DEF ScanLive, Child, NextSlot, Step, Last
  <2> QED
    BY <1>23, <2>1, <2>2, HeardKept DEF ScanLive
<1>24. ASSUME NEW p \in Proc, Reap(p) PROVE Heard'
  <2>1. /\ \A q \in Proc \ {pp[p]} : state'[q] = state[q] /\ parent'[q] = parent[q]
        /\ pp[p] \in Proc /\ state'[pp[p]] = "UNUSED" /\ pc' = [pc EXCEPT ![p] = "user"]
    BY <1>24 DEF Reap, Freed
  <2>2. \A r \in Proc \ {p} : pc[r] \notin HasWaitLock
    BY <1>24, WaitLockOwner DEF HasWaitLock, Reap
  <2>3. HearsOf'
    <3> SUFFICES ASSUME NEW r \in Proc, NEW q \in Proc,
                      Dozing(r)', parent'[q] = r, state'[q] = "ZOMBIE"
                 PROVE  FALSE
      BY DEF HearsOf
    <3>1. q # pp[p] /\ parent[q] = r /\ state[q] = "ZOMBIE"
      BY <2>1
    <3>2. Dozing(r)
      BY <2>1 DEF Dozing
    <3>3. ~\E s \in Proc : pc[s] = "wakeinit"
      BY <1>24, <2>2 DEF Reap, HasWaitLock
    <3> QED
      BY <3>1, <3>2, <3>3 DEF Heard, HearsOf
  <2>4. HasHeard'
    BY <2>1, <2>2 DEF HasHeard, HasWaitLock
  <2> QED
    BY <2>3, <2>4 DEF Heard
<1>25. ASSUME NEW p \in Proc, ReapFails(p) PROVE Heard'
  BY <1>25 DEF ReapFails, Child, Return, Locks, States, InitLives, Forks, Scans, Heard,
     HearsOf, HasHeard, Dozing
<1>26. ASSUME NEW p \in Proc, WaitEnds(p) PROVE Heard'
  BY <1>26 DEF WaitEnds, Return, Locks, States, InitLives, Forks, Scans, Heard, HearsOf,
     HasHeard, Dozing
<1>27. ASSUME NEW p \in Proc, WaitSleeps(p) PROVE Heard'
  BY <1>27 DEF WaitSleeps, Locks, States, InitLives, Forks, Scans, Heard, HearsOf, HasHeard,
     Dozing
<1>28. ASSUME NEW p \in Proc, SleepLock(p) PROVE Heard'
  <2>1. /\ state' = state /\ parent' = parent /\ pc' = [pc EXCEPT ![p] = "sleeping"]
        /\ pc[p] = "sleep"
    BY <1>28 DEF SleepLock
  <2>2. \A r \in Proc \ {p} : pc[r] \notin HasWaitLock
    BY <1>28, WaitLockOwner DEF HasWaitLock, SleepLock
  <2>3. HearsOf'
    BY <2>1 DEF Scans, Heard, HearsOf, Dozing
  <2>4. HasHeard'
    BY <2>1, <2>2 DEF HasHeard, HasWaitLock
  <2> QED
    BY <2>3, <2>4 DEF Heard
<1>29. ASSUME NEW p \in Proc, SleepSwtch(p) PROVE Heard'
  BY <1>29 DEF SleepSwtch, Locks, States, InitLives, Forks, Scans, Heard, HearsOf, HasHeard,
     Dozing
<1>30. ASSUME NEW p \in Proc, KillSkip(p) PROVE Heard'
  <2>1. \A q \in Proc \ {p} : pc'[q] = pc[q]
    BY <1>30 DEF KillSkip, Return, Step, Last
  <2>2. pc[p] # "wakeinit" /\ pc'[p] \notin {"sleeping", "zombie"}
    BY <1>30 DEF KillSkip, Return, Step, Last
  <2> QED
    BY <1>30, <2>1, <2>2, HeardKept DEF KillSkip
<1>31. ASSUME NEW p \in Proc, KillFound(p) PROVE Heard'
  BY <1>31 DEF KillFound, Return, Locks, States, InitLives, Forks, Scans, Heard, HearsOf,
     HasHeard, Dozing
<1> QED
  BY <1>1, <1>2, <1>3, <1>4, <1>5, <1>6, <1>7, <1>8, <1>9, <1>10, <1>11, <1>12, <1>13,
     <1>14, <1>15, <1>16, <1>17, <1>18, <1>19, <1>20, <1>21, <1>22, <1>23, <1>24, <1>25,
     <1>26, <1>27, <1>28, <1>29, <1>30, <1>31 DEF Next, Enter, Fork, Exit, Wait, Kill
-----------------------------------------------------------------------------
(* The theorems *)

LEMMA InitInv == Init => ProcInv
<1> SUFFICES ASSUME Init PROVE ProcInv
  OBVIOUS
<1>1. 0 \in Proc /\ 0 \in Pid /\ 1 \in Pid /\ 2 \in 2 .. MAXPID + 1
  BY ProcAssumption DEF Proc, Pid
<1>2. TypeOK
  BY <1>1, ProcAssumption DEF Init, TypeOK, ProcState, PcLabel
<1>3. Locks /\ States
  BY ProcAssumption DEF Init, Locks, States, HasWaitLock, HasOwnLock
<1>4. InitLives /\ Forks /\ Rewound
  BY <1>1 DEF Init, InitLives, Forks, Forking, Rewound, initproc, Exiting
<1>5. Parents
  BY ProcAssumption DEF Init, Parents, NoParent, HasParent, NoChild, HandsOver
<1>6. Scans /\ Heard
  BY DEF Init, Scans, Heard, HearsOf, HasHeard
<1> QED
  BY <1>2, <1>3, <1>4, <1>5, <1>6 DEF ProcInv

\* The invariant of the process table, for any number of slots and pids.
THEOREM ProcInvariant == Spec => []ProcInv
<1>1. ProcInv /\ [Next]_vars => ProcInv'
  BY TypesStep, LocksStep, StatesStep, InitLivesStep, ForksStep, RewoundStep, ParentsStep,
     ScansStep, HeardStep DEF ProcInv
<1> QED
  BY InitInv, <1>1, PTL DEF Spec

\* Every field of the table keeps its type: no loop leaves the table and no parent,
\* channel or lock owner is out of it (proc.c).
THEOREM ProcTypes == Spec => []TypeOK
<1>1. ProcInv => TypeOK
  BY DEF ProcInv
<1> QED
  BY ProcInvariant, <1>1, PTL

\* With wait_lock free, no parent sleeps in kwait() beside a zombie of its own: sleep()
\* takes p->lock before it gives wait_lock up, and exit() holds wait_lock from its
\* wakeups to ZOMBIE (proc.c: sleep, kexit, reparent, kwait).
THEOREM NoWakeupLost == Spec => []NoLostWakeup
<1>1. ProcInv => NoLostWakeup
  <2> SUFFICES ASSUME ProcInv, wait_lock = NoProc, NEW p \in Proc, NEW q \in Proc,
                      state[p] = "SLEEPING", parent[q] = p, state[q] = "ZOMBIE"
               PROVE  FALSE
    BY DEF NoLostWakeup
  <2>1. PICK r \in Proc : pc[r] = "wakeinit"
    BY DEF ProcInv, Heard, HearsOf, Dozing
  <2> QED
    BY <2>1, ProcAssumption DEF ProcInv, Locks, HasWaitLock
<1> QED
  BY ProcInvariant, <1>1, PTL

\* A slot is free only when no thread executes on its kernel stack: freeproc() waits
\* for the child's last swtch() (proc.c: kexit, kwait, freeproc).
THEOREM FreedWithoutThread == Spec => []FreedOffStack
<1>1. ProcInv => FreedOffStack
  BY InUse DEF ProcInv, FreedOffStack
<1> QED
  BY ProcInvariant, <1>1, PTL

-----------------------------------------------------------------------------
(* kill() and new processes *)

\* A free slot has no pid and no mark of a kill.
Unmarked == \A q \in Proc : state[q] = "UNUSED" => pid[q] = 0 /\ ~killed[q]


\* No step marks a free slot, unless kill(0) does.
LEMMA UnmarkedStep ==
  ASSUME 0 \notin KillPids, ProcInv, Unmarked, [Next]_vars
  PROVE  Unmarked'
<1> USE ProcAssumption DEF table, local, Free, At, Goto, OnlyWakes, TypeOK, ProcInv,
   Unmarked
<1>1. CASE UNCHANGED vars
  BY <1>1 DEF vars
<1>2. ASSUME NEW p \in Proc, Dispatch(p) PROVE Unmarked'
  BY <1>2 DEF Dispatch
<1>3. ASSUME NEW p \in Proc, TrapKilled(p) PROVE Unmarked'
  BY <1>3 DEF TrapKilled
<1>4. ASSUME NEW p \in Proc, EnterFork(p) PROVE Unmarked'
  BY <1>4 DEF EnterFork, Syscall
<1>5. ASSUME NEW p \in Proc, EnterWait(p) PROVE Unmarked'
  BY <1>5 DEF EnterWait, Syscall
<1>6. ASSUME NEW p \in Proc, EnterExit(p) PROVE Unmarked'
  BY <1>6 DEF EnterExit, Syscall
<1>7. ASSUME NEW p \in Proc, EnterKill(p) PROVE Unmarked'
  BY <1>7 DEF EnterKill, Syscall
<1>8. ASSUME NEW p \in Proc, AllocSkip(p) PROVE Unmarked'
  BY <1>8 DEF AllocSkip, Return, Step, Last
<1>9. ASSUME NEW p \in Proc, Alloc(p) PROVE Unmarked'
  BY <1>9 DEF Alloc
<1>10. ASSUME NEW p \in Proc, AllocFails(p) PROVE Unmarked'
  BY <1>10 DEF AllocFails, Freed, Return
<1>11. ASSUME NEW p \in Proc, AllocBound(p) PROVE Unmarked'
  BY <1>11 DEF AllocBound, Return
<1>12. ASSUME NEW p \in Proc, Adopt(p) PROVE Unmarked'
  BY <1>12 DEF Adopt
<1>13. ASSUME NEW p \in Proc, Start(p) PROVE Unmarked'
  BY <1>13 DEF Start
<1>14. ASSUME NEW p \in Proc, ExitLock(p) PROVE Unmarked'
  BY <1>14 DEF ExitLock
<1>15. ASSUME NEW p \in Proc, Reparent(p) PROVE Unmarked'
  BY <1>15 DEF Reparent, Abandoned, NextSlot, Step, Last
<1>16. ASSUME NEW p \in Proc, WakeInit(p) PROVE Unmarked'
  <2>1. \A q \in Proc : state'[q] = "UNUSED" => state[q] = "UNUSED"
    BY <1>16, Woken, InUse DEF WakeInit, ProcInv
  <2> QED
    BY <1>16, <2>1 DEF WakeInit
<1>17. ASSUME NEW p \in Proc, WakeParent(p) PROVE Unmarked'
  <2>1. \A q \in Proc : state'[q] = "UNUSED" => state[q] = "UNUSED"
    BY <1>17, ParentOf, Woken DEF WakeParent, ProcInv
  <2> QED
    BY <1>17, <2>1 DEF WakeParent
<1>18. ASSUME NEW p \in Proc, Zombie(p) PROVE Unmarked'
  BY <1>18 DEF Zombie
<1>19. ASSUME NEW p \in Proc, Unlock(p) PROVE Unmarked'
  BY <1>19 DEF Unlock
<1>20. ASSUME NEW p \in Proc, Swtch(p) PROVE Unmarked'
  BY <1>20 DEF Swtch
<1>21. ASSUME NEW p \in Proc, WaitLock(p) PROVE Unmarked'
  BY <1>21 DEF WaitLock
<1>22. ASSUME NEW p \in Proc, ScanOther(p) PROVE Unmarked'
  BY <1>22 DEF ScanOther, Child, NextSlot, Step, Last
<1>23. ASSUME NEW p \in Proc, ScanLive(p) PROVE Unmarked'
  BY <1>23 DEF ScanLive, Child, NextSlot, Step, Last
<1>24. ASSUME NEW p \in Proc, Reap(p) PROVE Unmarked'
  BY <1>24 DEF Reap, Child, Freed
<1>25. ASSUME NEW p \in Proc, ReapFails(p) PROVE Unmarked'
  BY <1>25 DEF ReapFails, Child, Return
<1>26. ASSUME NEW p \in Proc, WaitEnds(p) PROVE Unmarked'
  BY <1>26 DEF WaitEnds, Return
<1>27. ASSUME NEW p \in Proc, WaitSleeps(p) PROVE Unmarked'
  BY <1>27 DEF WaitSleeps
<1>28. ASSUME NEW p \in Proc, SleepLock(p) PROVE Unmarked'
  BY <1>28 DEF SleepLock
<1>29. ASSUME NEW p \in Proc, SleepSwtch(p) PROVE Unmarked'
  BY <1>29 DEF SleepSwtch
<1>30. ASSUME NEW p \in Proc, KillSkip(p) PROVE Unmarked'
  BY <1>30 DEF KillSkip, Return, Step, Last
<1>31. ASSUME NEW p \in Proc, KillFound(p) PROVE Unmarked'
  <2>1. pp[p] \in Proc /\ pid[pp[p]] # 0
    BY <1>31 DEF KillFound, ProcInv, InitLives
  <2>2. state[pp[p]] # "UNUSED"
    BY <2>1 DEF Unmarked
  <2>3. \A q \in Proc : state'[q] = "UNUSED" => q # pp[p] /\ state[q] = "UNUSED"
    BY <1>31, <2>1, <2>2 DEF KillFound
  <2> QED
    BY <1>31, <2>1, <2>3 DEF KillFound
<1> QED
  BY <1>1, <1>2, <1>3, <1>4, <1>5, <1>6, <1>7, <1>8, <1>9, <1>10, <1>11, <1>12, <1>13,
     <1>14, <1>15, <1>16, <1>17, <1>18, <1>19, <1>20, <1>21, <1>22, <1>23, <1>24, <1>25,
     <1>26, <1>27, <1>28, <1>29, <1>30, <1>31 DEF Next, Enter, Fork, Exit, Wait, Kill

\* A slot that is taken has no mark of a kill.
LEMMA BornStep ==
  ASSUME ProcInv, Unmarked, [Next]_vars
  PROVE  \A q \in Proc : state[q] = "UNUSED" /\ state'[q] = "USED" => ~killed'[q]
<1> USE ProcAssumption DEF table, local, Free, At, Goto, OnlyWakes, TypeOK, ProcInv,
   Unmarked
<1>1. CASE UNCHANGED vars
  BY <1>1 DEF vars
<1>2. ASSUME NEW p \in Proc, Dispatch(p)
      PROVE  \A q \in Proc : state[q] = "UNUSED" /\ state'[q] = "USED" => ~killed'[q]
  BY <1>2 DEF Dispatch
<1>3. ASSUME NEW p \in Proc, TrapKilled(p)
      PROVE  \A q \in Proc : state[q] = "UNUSED" /\ state'[q] = "USED" => ~killed'[q]
  BY <1>3 DEF TrapKilled
<1>4. ASSUME NEW p \in Proc, EnterFork(p)
      PROVE  \A q \in Proc : state[q] = "UNUSED" /\ state'[q] = "USED" => ~killed'[q]
  BY <1>4 DEF EnterFork, Syscall
<1>5. ASSUME NEW p \in Proc, EnterWait(p)
      PROVE  \A q \in Proc : state[q] = "UNUSED" /\ state'[q] = "USED" => ~killed'[q]
  BY <1>5 DEF EnterWait, Syscall
<1>6. ASSUME NEW p \in Proc, EnterExit(p)
      PROVE  \A q \in Proc : state[q] = "UNUSED" /\ state'[q] = "USED" => ~killed'[q]
  BY <1>6 DEF EnterExit, Syscall
<1>7. ASSUME NEW p \in Proc, EnterKill(p)
      PROVE  \A q \in Proc : state[q] = "UNUSED" /\ state'[q] = "USED" => ~killed'[q]
  BY <1>7 DEF EnterKill, Syscall
<1>8. ASSUME NEW p \in Proc, AllocSkip(p)
      PROVE  \A q \in Proc : state[q] = "UNUSED" /\ state'[q] = "USED" => ~killed'[q]
  BY <1>8 DEF AllocSkip, Return, Step, Last
<1>9. ASSUME NEW p \in Proc, Alloc(p)
      PROVE  \A q \in Proc : state[q] = "UNUSED" /\ state'[q] = "USED" => ~killed'[q]
  BY <1>9 DEF Alloc
<1>10. ASSUME NEW p \in Proc, AllocFails(p)
      PROVE  \A q \in Proc : state[q] = "UNUSED" /\ state'[q] = "USED" => ~killed'[q]
  BY <1>10 DEF AllocFails, Freed, Return
<1>11. ASSUME NEW p \in Proc, AllocBound(p)
      PROVE  \A q \in Proc : state[q] = "UNUSED" /\ state'[q] = "USED" => ~killed'[q]
  BY <1>11 DEF AllocBound, Return
<1>12. ASSUME NEW p \in Proc, Adopt(p)
      PROVE  \A q \in Proc : state[q] = "UNUSED" /\ state'[q] = "USED" => ~killed'[q]
  BY <1>12 DEF Adopt
<1>13. ASSUME NEW p \in Proc, Start(p)
      PROVE  \A q \in Proc : state[q] = "UNUSED" /\ state'[q] = "USED" => ~killed'[q]
  BY <1>13 DEF Start
<1>14. ASSUME NEW p \in Proc, ExitLock(p)
      PROVE  \A q \in Proc : state[q] = "UNUSED" /\ state'[q] = "USED" => ~killed'[q]
  BY <1>14 DEF ExitLock
<1>15. ASSUME NEW p \in Proc, Reparent(p)
      PROVE  \A q \in Proc : state[q] = "UNUSED" /\ state'[q] = "USED" => ~killed'[q]
  BY <1>15 DEF Reparent, Abandoned, NextSlot, Step, Last
<1>16. ASSUME NEW p \in Proc, WakeInit(p)
      PROVE  \A q \in Proc : state[q] = "UNUSED" /\ state'[q] = "USED" => ~killed'[q]
  BY <1>16, Woken, InUse DEF WakeInit, Wakeup, Step, Last
<1>17. ASSUME NEW p \in Proc, WakeParent(p)
      PROVE  \A q \in Proc : state[q] = "UNUSED" /\ state'[q] = "USED" => ~killed'[q]
  BY <1>17, ParentOf, Woken DEF WakeParent, Wakeup
<1>18. ASSUME NEW p \in Proc, Zombie(p)
      PROVE  \A q \in Proc : state[q] = "UNUSED" /\ state'[q] = "USED" => ~killed'[q]
  BY <1>18 DEF Zombie
<1>19. ASSUME NEW p \in Proc, Unlock(p)
      PROVE  \A q \in Proc : state[q] = "UNUSED" /\ state'[q] = "USED" => ~killed'[q]
  BY <1>19 DEF Unlock
<1>20. ASSUME NEW p \in Proc, Swtch(p)
      PROVE  \A q \in Proc : state[q] = "UNUSED" /\ state'[q] = "USED" => ~killed'[q]
  BY <1>20 DEF Swtch
<1>21. ASSUME NEW p \in Proc, WaitLock(p)
      PROVE  \A q \in Proc : state[q] = "UNUSED" /\ state'[q] = "USED" => ~killed'[q]
  BY <1>21 DEF WaitLock
<1>22. ASSUME NEW p \in Proc, ScanOther(p)
      PROVE  \A q \in Proc : state[q] = "UNUSED" /\ state'[q] = "USED" => ~killed'[q]
  BY <1>22 DEF ScanOther, Child, NextSlot, Step, Last
<1>23. ASSUME NEW p \in Proc, ScanLive(p)
      PROVE  \A q \in Proc : state[q] = "UNUSED" /\ state'[q] = "USED" => ~killed'[q]
  BY <1>23 DEF ScanLive, Child, NextSlot, Step, Last
<1>24. ASSUME NEW p \in Proc, Reap(p)
      PROVE  \A q \in Proc : state[q] = "UNUSED" /\ state'[q] = "USED" => ~killed'[q]
  BY <1>24 DEF Reap, Child, Freed
<1>25. ASSUME NEW p \in Proc, ReapFails(p)
      PROVE  \A q \in Proc : state[q] = "UNUSED" /\ state'[q] = "USED" => ~killed'[q]
  BY <1>25 DEF ReapFails, Child, Return
<1>26. ASSUME NEW p \in Proc, WaitEnds(p)
      PROVE  \A q \in Proc : state[q] = "UNUSED" /\ state'[q] = "USED" => ~killed'[q]
  BY <1>26 DEF WaitEnds, Return
<1>27. ASSUME NEW p \in Proc, WaitSleeps(p)
      PROVE  \A q \in Proc : state[q] = "UNUSED" /\ state'[q] = "USED" => ~killed'[q]
  BY <1>27 DEF WaitSleeps
<1>28. ASSUME NEW p \in Proc, SleepLock(p)
      PROVE  \A q \in Proc : state[q] = "UNUSED" /\ state'[q] = "USED" => ~killed'[q]
  BY <1>28 DEF SleepLock
<1>29. ASSUME NEW p \in Proc, SleepSwtch(p)
      PROVE  \A q \in Proc : state[q] = "UNUSED" /\ state'[q] = "USED" => ~killed'[q]
  BY <1>29 DEF SleepSwtch
<1>30. ASSUME NEW p \in Proc, KillSkip(p)
      PROVE  \A q \in Proc : state[q] = "UNUSED" /\ state'[q] = "USED" => ~killed'[q]
  BY <1>30 DEF KillSkip, Return, Step, Last
<1>31. ASSUME NEW p \in Proc, KillFound(p)
      PROVE  \A q \in Proc : state[q] = "UNUSED" /\ state'[q] = "USED" => ~killed'[q]
  BY <1>31 DEF KillFound, Return
<1> QED
  BY <1>1, <1>2, <1>3, <1>4, <1>5, <1>6, <1>7, <1>8, <1>9, <1>10, <1>11, <1>12, <1>13,
     <1>14, <1>15, <1>16, <1>17, <1>18, <1>19, <1>20, <1>21, <1>22, <1>23, <1>24, <1>25,
     <1>26, <1>27, <1>28, <1>29, <1>30, <1>31 DEF Next, Enter, Fork, Exit, Wait, Kill

\* kill(0) is all that can mark a process before it is born: without it, "the process
\* with the given pid" is a process that has got its pid (proc.c: kkill, freeproc,
\* allocproc).
THEOREM OnlyKillZero ==
  ASSUME 0 \notin KillPids
  PROVE  Spec => NotBornKilled
<1>1. Init => Unmarked
  BY DEF Init, Unmarked
<1>2. ProcInv /\ Unmarked /\ [Next]_vars => Unmarked'
  BY UnmarkedStep
<1>3. ProcInv /\ Unmarked /\ [Next]_vars =>
        [\A q \in Proc : state[q] = "UNUSED" /\ state'[q] = "USED" => ~killed'[q]]_vars
  BY BornStep
<1> QED
  BY ProcInvariant, <1>1, <1>2, <1>3, PTL DEF Spec, NotBornKilled

-----------------------------------------------------------------------------
(* The family tree *)

\* What a slot is in the tree.
Lives ==
  /\ life \in [Proc -> {"free", "live", "zombie"}]
  /\ par \in [Proc -> Proc \union {NoProc}]
  /\ \A q \in Proc : /\ state[q] \in {"UNUSED", "USED"} <=> life[q] = "free"
                     /\ state[q] = "ZOMBIE" <=> life[q] = "zombie"
                     /\ par[q] = IF life[q] = "free" THEN NoProc ELSE parent[q]

LEMMA LivesHere == TypeOK => Lives
<1> SUFFICES ASSUME TypeOK PROVE Lives
  OBVIOUS
<1>1. \A q \in Proc :
        /\ state[q] \in {"UNUSED", "USED"} => life[q] = "free"
        /\ state[q] = "ZOMBIE" => life[q] = "zombie"
        /\ state[q] \notin {"UNUSED", "USED", "ZOMBIE"} => life[q] = "live"
  BY DEF TypeOK, ProcState, life
<1>2. \A q \in Proc : par[q] = IF life[q] = "free" THEN NoProc ELSE parent[q]
  BY DEF par
<1>3. life \in [Proc -> {"free", "live", "zombie"}]
  <2>1. life = [q \in Proc |-> life[q]]
    BY DEF life
  <2> QED
    BY <1>1, <2>1 DEF TypeOK, ProcState
<1>4. par \in [Proc -> Proc \union {NoProc}]
  <2>1. par = [q \in Proc |-> par[q]]
    BY DEF par
  <2> QED
    BY <1>2, <2>1 DEF TypeOK
<1> QED
  BY <1>1, <1>2, <1>3, <1>4 DEF Lives, TypeOK, ProcState

\* ... also after a step.
LEMMA LivesNext == TypeOK' => Lives'
BY LivesHere, PTL

\* What does not bear, kill, bury or hand over a process is invisible in the tree.
LEMMA TreeKept ==
  ASSUME Lives, Lives',
         \A q \in Proc : /\ state'[q] \in {"UNUSED", "USED"} <=> state[q] \in {"UNUSED", "USED"}
                         /\ state'[q] = "ZOMBIE" <=> state[q] = "ZOMBIE"
                         /\ state[q] \notin {"UNUSED", "USED"} => parent'[q] = parent[q]
  PROVE  UNCHANGED Tree!treeVars
<1>1. \A q \in Proc : life'[q] = life[q]
  BY DEF Lives
<1>2. \A q \in Proc : par'[q] = par[q]
  BY <1>1 DEF Lives
<1>3. life' = life /\ par' = par
  BY <1>1, <1>2 DEF Lives
<1> QED
  BY <1>3 DEF Tree!treeVars

LEMMA InitRefines == Init => Tree!TreeInit
<1> SUFFICES ASSUME Init PROVE Tree!TreeInit
  OBVIOUS
<1>1. \A q \in Proc : life[q] = IF q = initproc THEN "live" ELSE "free"
  BY DEF Init, life
<1>2. \A q \in Proc : par[q] = NoProc
  BY DEF Init, par
<1>3. life = [q \in Proc |-> IF q = initproc THEN "live" ELSE "free"]
  BY <1>1 DEF life
<1>4. par = [q \in Proc |-> NoProc]
  BY <1>2 DEF par
<1> QED
  BY <1>3, <1>4 DEF Tree!TreeInit


\* Each step is one of the tree, or invisible in it.
LEMMA StepRefines ==
  ASSUME ProcInv, Lives, Lives', [Next]_vars
  PROVE  [Tree!TreeNext]_Tree!treeVars
<1> USE ProcAssumption DEF table, local, Free, At, Goto, OnlyWakes, ProcInv, TypeOK
<1>1. CASE UNCHANGED vars
  BY <1>1, TreeKept DEF vars
<1>2. ASSUME NEW p \in Proc, Dispatch(p) PROVE [Tree!TreeNext]_Tree!treeVars
  <2>1. state[p] = "RUNNABLE" /\ state' = [state EXCEPT ![p] = "RUNNING"] /\ parent' = parent
    BY <1>2 DEF Dispatch
  <2> QED
    BY <2>1, TreeKept
<1>3. ASSUME NEW p \in Proc, TrapKilled(p) PROVE [Tree!TreeNext]_Tree!treeVars
  BY <1>3, TreeKept DEF TrapKilled
<1>4. ASSUME NEW p \in Proc, EnterFork(p) PROVE [Tree!TreeNext]_Tree!treeVars
  BY <1>4, TreeKept DEF EnterFork, Syscall
<1>5. ASSUME NEW p \in Proc, EnterWait(p) PROVE [Tree!TreeNext]_Tree!treeVars
  BY <1>5, TreeKept DEF EnterWait, Syscall
<1>6. ASSUME NEW p \in Proc, EnterExit(p) PROVE [Tree!TreeNext]_Tree!treeVars
  BY <1>6, TreeKept DEF EnterExit, Syscall
<1>7. ASSUME NEW p \in Proc, EnterKill(p) PROVE [Tree!TreeNext]_Tree!treeVars
  BY <1>7, TreeKept DEF EnterKill, Syscall
<1>8. ASSUME NEW p \in Proc, AllocSkip(p) PROVE [Tree!TreeNext]_Tree!treeVars
  BY <1>8, TreeKept DEF AllocSkip, Return, Step, Last
<1>9. ASSUME NEW p \in Proc, Alloc(p) PROVE [Tree!TreeNext]_Tree!treeVars
  <2>1. /\ pp[p] \in Proc /\ state[pp[p]] = "UNUSED"
        /\ state' = [state EXCEPT ![pp[p]] = "USED"] /\ parent' = parent
    BY <1>9 DEF Alloc
  <2> QED
    BY <2>1, TreeKept
<1>10. ASSUME NEW p \in Proc, AllocFails(p) PROVE [Tree!TreeNext]_Tree!treeVars
  <2>1. /\ pp[p] \in Proc /\ state[pp[p]] = "UNUSED" /\ state' = state
        /\ \A q \in Proc \ {pp[p]} : parent'[q] = parent[q]
    BY <1>10 DEF AllocFails, Freed
  <2> QED
    BY <2>1, TreeKept
<1>11. ASSUME NEW p \in Proc, AllocBound(p) PROVE [Tree!TreeNext]_Tree!treeVars
  BY <1>11, TreeKept DEF AllocBound, Return
<1>12. ASSUME NEW p \in Proc, Adopt(p) PROVE [Tree!TreeNext]_Tree!treeVars
  <2>1. arg[p] \in Proc /\ state[arg[p]] = "USED"
    BY <1>12 DEF Adopt, Forks, Forking
  <2>2. state' = state /\ \A q \in Proc \ {arg[p]} : parent'[q] = parent[q]
    BY <1>12 DEF Adopt
  <2> QED
    BY <2>1, <2>2, TreeKept
<1>13. ASSUME NEW p \in Proc, Start(p) PROVE [Tree!TreeNext]_Tree!treeVars
  <2>1. arg[p] \in Proc /\ state[arg[p]] = "USED" /\ parent[arg[p]] = p /\ state[p] = "RUNNING"
    BY <1>13 DEF Start, Forks, Forking, States
  <2>2. state' = [state EXCEPT ![arg[p]] = "RUNNABLE"] /\ parent' = parent
    BY <1>13 DEF Start
  <2>3. life[p] = "live" /\ life[arg[p]] = "free" /\ life'[arg[p]] = "live" /\ par'[arg[p]] = p
    BY <2>1, <2>2 DEF Lives, TypeOK
  <2>4. \A q \in Proc \ {arg[p]} : life'[q] = life[q]
    BY <2>1, <2>2 DEF Lives, TypeOK
  <2>5. \A q \in Proc \ {arg[p]} : par'[q] = par[q]
    BY <2>2, <2>4 DEF Lives
  <2>6. life' = [life EXCEPT ![arg[p]] = "live"] /\ par' = [par EXCEPT ![arg[p]] = p]
    BY <2>1, <2>3, <2>4, <2>5 DEF Lives
  <2>7. Tree!Fork(p, arg[p])
    BY <2>3, <2>6 DEF Tree!Fork
  <2> QED
    BY <2>1, <2>7 DEF Tree!TreeNext
<1>14. ASSUME NEW p \in Proc, ExitLock(p) PROVE [Tree!TreeNext]_Tree!treeVars
  BY <1>14, TreeKept DEF ExitLock
<1>15. ASSUME NEW p \in Proc, Reparent(p) PROVE [Tree!TreeNext]_Tree!treeVars
  <2>1. state' = state /\ pp[p] \in Proc /\ initproc \in Proc /\ p # initproc
    BY <1>15, InUse DEF Reparent, InitLives, Exiting
  <2>2. CASE ~Abandoned(p, pp[p])
    BY <1>15, <2>1, <2>2, TreeKept DEF Reparent
  <2>3. CASE Abandoned(p, pp[p]) /\ state[pp[p]] \in {"UNUSED", "USED"}
    <3>1. \A q \in Proc : state[q] \notin {"UNUSED", "USED"} => parent'[q] = parent[q]
      BY <1>15, <2>3 DEF Reparent
    <3> QED
      BY <2>1, <3>1, TreeKept
  <2>4. CASE Abandoned(p, pp[p]) /\ state[pp[p]] \notin {"UNUSED", "USED"}
    <3>1. parent' = [parent EXCEPT ![pp[p]] = initproc] /\ parent[pp[p]] = p
      BY <1>15, <2>4 DEF Reparent, Abandoned
    <3>2. \A q \in Proc : life'[q] = life[q]
      BY <2>1 DEF Lives
    <3>3. par[pp[p]] = p /\ par'[pp[p]] = initproc /\ \A q \in Proc \ {pp[p]} : par'[q] = par[q]
      BY <2>1, <2>4, <3>1, <3>2 DEF Lives
    <3>4. life' = life /\ par' = [par EXCEPT ![pp[p]] = initproc]
      BY <2>1, <3>2, <3>3 DEF Lives
    <3>5. Tree!Adopt(pp[p])
      BY <2>1, <3>3, <3>4, ProcAssumption DEF Tree!Adopt
    <3> QED
      BY <2>1, <3>5 DEF Tree!TreeNext
  <2> QED
    BY <2>2, <2>3, <2>4
<1>16. ASSUME NEW p \in Proc, WakeInit(p) PROVE [Tree!TreeNext]_Tree!treeVars
  <2>1. OnlyWakes
    BY <1>16, Woken, InUse DEF WakeInit
  <2>2. parent' = parent
    BY <1>16 DEF WakeInit
  <2> QED
    BY <2>1, <2>2, TreeKept
<1>17. ASSUME NEW p \in Proc, WakeParent(p) PROVE [Tree!TreeNext]_Tree!treeVars
  <2>1. OnlyWakes
    BY <1>17, ParentOf, Woken DEF WakeParent
  <2>2. parent' = parent
    BY <1>17 DEF WakeParent
  <2> QED
    BY <2>1, <2>2, TreeKept
<1>18. ASSUME NEW p \in Proc, Zombie(p) PROVE [Tree!TreeNext]_Tree!treeVars
  <2>1. /\ state[p] = "RUNNING" /\ p # initproc /\ state' = [state EXCEPT ![p] = "ZOMBIE"]
        /\ parent' = parent
    BY <1>18 DEF Zombie, States, InitLives, Exiting
  <2>2. life[p] = "live" /\ life'[p] = "zombie" /\ \A q \in Proc \ {p} : life'[q] = life[q]
    BY <2>1 DEF Lives, TypeOK
  <2>3. \A q \in Proc : par'[q] = par[q]
    BY <2>1, <2>2 DEF Lives
  <2>4. life' = [life EXCEPT ![p] = "zombie"] /\ par' = par
    BY <2>2, <2>3 DEF Lives
  <2>5. \A q \in Proc : par[q] # p
    BY <1>18, ProcAssumption DEF Zombie, Lives, Parents, NoChild, Childless
  <2>6. Tree!Exit(p)
    BY <2>1, <2>2, <2>4, <2>5 DEF Tree!Exit
  <2> QED
    BY <2>6 DEF Tree!TreeNext
<1>19. ASSUME NEW p \in Proc, Unlock(p) PROVE [Tree!TreeNext]_Tree!treeVars
  BY <1>19, TreeKept DEF Unlock
<1>20. ASSUME NEW p \in Proc, Swtch(p) PROVE [Tree!TreeNext]_Tree!treeVars
  BY <1>20, TreeKept DEF Swtch
<1>21. ASSUME NEW p \in Proc, WaitLock(p) PROVE [Tree!TreeNext]_Tree!treeVars
  BY <1>21, TreeKept DEF WaitLock
<1>22. ASSUME NEW p \in Proc, ScanOther(p) PROVE [Tree!TreeNext]_Tree!treeVars
  BY <1>22, TreeKept DEF ScanOther, Child, NextSlot, Step, Last
<1>23. ASSUME NEW p \in Proc, ScanLive(p) PROVE [Tree!TreeNext]_Tree!treeVars
  BY <1>23, TreeKept DEF ScanLive, Child, NextSlot, Step, Last
<1>24. ASSUME NEW p \in Proc, Reap(p) PROVE [Tree!TreeNext]_Tree!treeVars
  <2>1. /\ pp[p] \in Proc /\ state[pp[p]] = "ZOMBIE" /\ parent[pp[p]] = p /\ state[p] = "RUNNING"
        /\ state' = [state EXCEPT ![pp[p]] = "UNUSED"]
             /\ parent' = [parent EXCEPT ![pp[p]] = NoProc]
    BY <1>24 DEF Reap, Child, Freed, States
  <2>2. life[p] = "live" /\ life[pp[p]] = "zombie" /\ life'[pp[p]] = "free" /\ par[pp[p]] = p
    BY <2>1 DEF Lives, TypeOK
  <2>3. \A q \in Proc \ {pp[p]} : life'[q] = life[q]
    BY <2>1 DEF Lives, TypeOK
  <2>4. par'[pp[p]] = NoProc /\ \A q \in Proc \ {pp[p]} : par'[q] = par[q]
    BY <2>1, <2>2, <2>3 DEF Lives
  <2>5. life' = [life EXCEPT ![pp[p]] = "free"] /\ par' = [par EXCEPT ![pp[p]] = NoProc]
    BY <2>1, <2>2, <2>3, <2>4 DEF Lives
  <2>6. Tree!Reap(p, pp[p])
    BY <2>2, <2>5 DEF Tree!Reap
  <2> QED
    BY <2>1, <2>6 DEF Tree!TreeNext
<1>25. ASSUME NEW p \in Proc, ReapFails(p) PROVE [Tree!TreeNext]_Tree!treeVars
  BY <1>25, TreeKept DEF ReapFails, Child, Return
<1>26. ASSUME NEW p \in Proc, WaitEnds(p) PROVE [Tree!TreeNext]_Tree!treeVars
  BY <1>26, TreeKept DEF WaitEnds, Return
<1>27. ASSUME NEW p \in Proc, WaitSleeps(p) PROVE [Tree!TreeNext]_Tree!treeVars
  BY <1>27, TreeKept DEF WaitSleeps
<1>28. ASSUME NEW p \in Proc, SleepLock(p) PROVE [Tree!TreeNext]_Tree!treeVars
  BY <1>28, TreeKept DEF SleepLock
<1>29. ASSUME NEW p \in Proc, SleepSwtch(p) PROVE [Tree!TreeNext]_Tree!treeVars
  <2>1. state[p] = "RUNNING" /\ state' = [state EXCEPT ![p] = "SLEEPING"] /\ parent' = parent
    BY <1>29 DEF SleepSwtch, States
  <2> QED
    BY <2>1, TreeKept
<1>30. ASSUME NEW p \in Proc, KillSkip(p) PROVE [Tree!TreeNext]_Tree!treeVars
  BY <1>30, TreeKept DEF KillSkip, Return, Step, Last
<1>31. ASSUME NEW p \in Proc, KillFound(p) PROVE [Tree!TreeNext]_Tree!treeVars
  <2>1. pp[p] \in Proc /\ parent' = parent
    BY <1>31 DEF KillFound
  <2>2. OnlyWakes
    BY <1>31, <2>1 DEF KillFound
  <2> QED
    BY <2>1, <2>2, TreeKept
<1> QED
  BY <1>1, <1>2, <1>3, <1>4, <1>5, <1>6, <1>7, <1>8, <1>9, <1>10, <1>11, <1>12, <1>13,
     <1>14, <1>15, <1>16, <1>17, <1>18, <1>19, <1>20, <1>21, <1>22, <1>23, <1>24, <1>25,
     <1>26, <1>27, <1>28, <1>29, <1>30, <1>31 DEF Next, Enter, Fork, Exit, Wait, Kill

\* Processes are forked, handed to init, exited and reaped as in ProcTree: nobody exits
\* before its last child is handed over, and only the parent of the moment frees a zombie
\* (proc.c: kfork, reparent, kexit, kwait).
THEOREM ProcessesFormATree == Spec => ImplementsTree
<1>1. ProcInv => TypeOK
  BY DEF ProcInv
<1>2. TypeOK => Lives
  BY LivesHere
<1>3. ProcInv /\ Lives /\ Lives' /\ [Next]_vars => [Tree!TreeNext]_Tree!treeVars
  BY StepRefines
<1> QED
  BY InitRefines, ProcInvariant, <1>1, <1>2, <1>3, PTL DEF Spec, ImplementsTree, Tree!TreeSpec
=============================================================================
