-------------------------------- MODULE Proc --------------------------------
(***************************************************************************)
(* The life of a process in kernel/proc.c: kfork, kexit, kwait, kkill and  *)
(* the sleep and wakeup between them, with wait_lock and every p->lock.    *)
(*                                                                         *)
(* A slot of the table stands for its process and for the kernel thread    *)
(* that executes it; slot 0 holds init.  There are as many harts as        *)
(* processes here: what a RUNNABLE process waits for on a hart is the      *)
(* subject of Mlfq.                                                        *)
(*                                                                         *)
(* Abstractions.  A step takes at most one lock it keeps, or takes and     *)
(* releases one p->lock, or releases what it holds; what a thread does to  *)
(* a slot under one p->lock is a single step.  A process sleeps on its own *)
(* address only, so that wakeup(chan) is one step on the slot of chan.     *)
(* Memory, registers, open files and the current directory are left out:   *)
(* a failing allocation, and a failing copyout(), is a choice.             *)
(***************************************************************************)
EXTENDS Integers

CONSTANTS
  NPROC,      \* slots of the process table
  NoProc,     \* no process: a parent, a channel or the owner of a free lock
  MAXPID,     \* bounds nextpid: kfork fails beyond it
  KillPids    \* the pids user programs pass to kill()

Proc     == 0 .. NPROC - 1
initproc == 0
Pid      == 0 .. MAXPID

ASSUME ProcAssumption ==
  /\ NPROC \in Nat \ {0}
  /\ NoProc \notin Proc
  /\ MAXPID \in Nat \ {0}
  /\ KillPids \subseteq Pid \ {1}

VARIABLES
  state, pid, parent, killed, chan,   \* fields of struct proc
  plock,                              \* who holds p->lock
  wait_lock,                          \* who holds wait_lock
  nextpid,
  pc,                                 \* where the thread of a slot is
  pp,                                 \* its loop variable over the table
  arg,                                \* kkill's pid, kfork's np
  havekids                            \* kwait's local variable

table == <<state, pid, parent, killed, chan>>
local == <<pp, arg, havekids>>
vars  == <<table, plock, wait_lock, nextpid, pc, local>>

ProcState == {"UNUSED", "USED", "SLEEPING", "RUNNABLE", "RUNNING", "ZOMBIE"}

(***************************************************************************)
(* "none": no thread is on the kernel stack of the slot.  "new" and        *)
(* "asleep" wait for a hart.                                               *)
(* "user" is user space.  The others name the next step of a system call.  *)
(***************************************************************************)
PcLabel == {"none", "new", "user",
            "alloc", "adopt", "start",
            "exit", "reparent", "wakeinit", "wakeparent", "zombie", "unlock", "swtch",
            "wait", "scan", "check", "sleep", "sleeping", "asleep", "relock",
            "kill"}

Init ==
  /\ state     = [p \in Proc |-> IF p = initproc THEN "RUNNABLE" ELSE "UNUSED"]
  /\ pid       = [p \in Proc |-> IF p = initproc THEN 1 ELSE 0]
  /\ parent    = [p \in Proc |-> NoProc]
  /\ killed    = [p \in Proc |-> FALSE]
  /\ chan      = [p \in Proc |-> NoProc]
  /\ plock     = [p \in Proc |-> NoProc]
  /\ wait_lock = NoProc
  /\ nextpid   = 2
  /\ pc        = [p \in Proc |-> IF p = initproc THEN "new" ELSE "none"]
  /\ pp        = [p \in Proc |-> 0]
  /\ arg       = [p \in Proc |-> 0]
  /\ havekids  = [p \in Proc |-> FALSE]

Free(q)    == plock[q] = NoProc
At(p, l)   == pc[p] = l
Goto(p, l) == pc' = [pc EXCEPT ![p] = l]
Last(p)    == pp[p] = NPROC - 1
StepOver(p) == pp' = [pp EXCEPT ![p] = pp[p] + 1]
Step(p)    == pp' = [pp EXCEPT ![p] = IF Last(p) THEN 0 ELSE pp[p] + 1]

-----------------------------------------------------------------------------
(* The scheduler and the way into the kernel *)

\* scheduler() runs a new process in forkret() or one that was woken in sleep(),
\* which tidies p->chan up before it releases p->lock.
Dispatch(p) ==
  /\ pc[p] \in {"new", "asleep"}
  /\ state[p] = "RUNNABLE"
  /\ Free(p)
  /\ state' = [state EXCEPT ![p] = "RUNNING"]
  /\ chan'  = [chan EXCEPT ![p] = NoProc]
  /\ Goto(p, IF At(p, "new") THEN "user" ELSE "relock")
  /\ UNCHANGED <<pid, parent, killed, plock, wait_lock, nextpid, local>>

\* usertrap() enters a system call of a process that is not killed; init, an
\* external program, neither exits nor kills.
Syscall(p, l) ==
  /\ At(p, "user") /\ Free(p) /\ ~killed[p]
  /\ p = initproc => l \in {"alloc", "wait"}
  /\ Goto(p, l)
  /\ pp' = [pp EXCEPT ![p] = 0]
  /\ UNCHANGED <<table, plock, wait_lock, nextpid, havekids>>

EnterFork(p) == Syscall(p, "alloc") /\ UNCHANGED arg
EnterWait(p) == Syscall(p, "wait")  /\ UNCHANGED arg
EnterExit(p) == Syscall(p, "exit")  /\ UNCHANGED arg
EnterKill(p) == Syscall(p, "kill")  /\ \E k \in KillPids : arg' = [arg EXCEPT ![p] = k]

\* Any trap from user space, the timer's too, sends a killed process to kexit().
TrapKilled(p) ==
  /\ At(p, "user") /\ Free(p) /\ killed[p]
  /\ Goto(p, "exit")
  /\ UNCHANGED <<table, plock, wait_lock, nextpid, local>>

\* Back to user space; the locals of the system call are dead.
Return(p) ==
  /\ Goto(p, "user")
  /\ pp'       = [pp EXCEPT ![p] = 0]
  /\ arg'      = [arg EXCEPT ![p] = 0]
  /\ havekids' = [havekids EXCEPT ![p] = FALSE]

\* The next slot of a loop over the table, or the end of the loop.
NextSlot(p, after) ==
  /\ Step(p)
  /\ IF Last(p) THEN Goto(p, after) ELSE UNCHANGED pc

\* freeproc()
Freed(q) ==
  /\ state'  = [state EXCEPT ![q] = "UNUSED"]
  /\ pid'    = [pid EXCEPT ![q] = 0]
  /\ parent' = [parent EXCEPT ![q] = NoProc]
  /\ killed' = [killed EXCEPT ![q] = FALSE]
  /\ chan'   = [chan EXCEPT ![q] = NoProc]

\* wakeup(chan), whose only possible sleeper is the process chan itself.
Wakeup(x) ==
  /\ Free(x)
  /\ state' = IF state[x] = "SLEEPING" /\ chan[x] = x
              THEN [state EXCEPT ![x] = "RUNNABLE"] ELSE state

-----------------------------------------------------------------------------
(* kfork() *)

AllocSkip(p) ==
  /\ At(p, "alloc") /\ nextpid <= MAXPID
  /\ Free(pp[p]) /\ state[pp[p]] # "UNUSED"
  /\ IF Last(p) THEN Return(p) ELSE Step(p) /\ UNCHANGED <<pc, arg, havekids>>
  /\ UNCHANGED <<table, plock, wait_lock, nextpid>>

\* The slot is taken and filled in under its lock, which kfork() then releases.
Alloc(p) ==
  /\ At(p, "alloc") /\ Free(pp[p]) /\ state[pp[p]] = "UNUSED"
  /\ nextpid <= MAXPID
  /\ state'   = [state EXCEPT ![pp[p]] = "USED"]
  /\ pid'     = [pid EXCEPT ![pp[p]] = nextpid]
  /\ nextpid' = nextpid + 1
  /\ arg'     = [arg EXCEPT ![p] = pp[p]]
  /\ Goto(p, "adopt")
  /\ UNCHANGED <<parent, killed, chan, plock, wait_lock, pp, havekids>>

\* No memory for the trapframe, the page table or the copy of the parent's pages.
AllocFails(p) ==
  /\ At(p, "alloc") /\ Free(pp[p]) /\ state[pp[p]] = "UNUSED"
  /\ nextpid <= MAXPID
  /\ nextpid' = nextpid + 1
  /\ Freed(pp[p])
  /\ Return(p)
  /\ UNCHANGED <<plock, wait_lock>>

\* The bound of the model: with MAXPID handed out, kfork() fails.
AllocBound(p) ==
  /\ At(p, "alloc") /\ nextpid > MAXPID
  /\ Return(p)
  /\ UNCHANGED <<table, plock, wait_lock, nextpid>>

Adopt(p) ==
  /\ At(p, "adopt") /\ wait_lock = NoProc
  /\ parent' = [parent EXCEPT ![arg[p]] = p]
  /\ Goto(p, "start")
  /\ UNCHANGED <<state, pid, killed, chan, plock, wait_lock, nextpid, local>>

Start(p) ==
  /\ At(p, "start") /\ Free(arg[p])
  /\ state' = [state EXCEPT ![arg[p]] = "RUNNABLE"]
  /\ pc'    = [pc EXCEPT ![arg[p]] = "new", ![p] = "user"]
  /\ pp'    = [pp EXCEPT ![p] = 0]
  /\ arg'   = [arg EXCEPT ![p] = 0]
  /\ UNCHANGED <<pid, parent, killed, chan, plock, wait_lock, nextpid, havekids>>

-----------------------------------------------------------------------------
(* kexit() *)

ExitLock(p) ==
  /\ At(p, "exit") /\ wait_lock = NoProc
  /\ wait_lock' = p
  /\ Goto(p, "reparent")
  /\ UNCHANGED <<table, plock, nextpid, local>>

\* reparent(): every child gets init for a parent, and init is woken for each.
AbandonedAlive(p, q) == parent[q] = p /\ state[q] # "ZOMBIE"
Abandoned(p, q)      == parent[q] = p

Reparent(p) ==
  /\ At(p, "reparent")
  /\ IF Abandoned(p, pp[p])
     THEN /\ parent' = [parent EXCEPT ![pp[p]] = initproc]
          /\ Goto(p, "wakeinit")
          /\ UNCHANGED pp
     ELSE NextSlot(p, "wakeparent") /\ UNCHANGED parent
  /\ UNCHANGED <<state, pid, killed, chan, plock, wait_lock, nextpid, arg, havekids>>

WakeInit(p) ==
  /\ At(p, "wakeinit")
  /\ Wakeup(initproc)
  /\ Step(p)
  /\ Goto(p, IF Last(p) THEN "wakeparent" ELSE "reparent")
  /\ UNCHANGED <<pid, parent, killed, chan, plock, wait_lock, nextpid, arg, havekids>>

WakeParentNever(p) ==
  /\ At(p, "wakeparent")
  /\ Goto(p, "zombie")
  /\ UNCHANGED <<table, plock, wait_lock, nextpid, local>>
WakeParent(p) ==
  /\ At(p, "wakeparent")
  /\ Wakeup(parent[p])
  /\ Goto(p, "zombie")
  /\ UNCHANGED <<pid, parent, killed, chan, plock, wait_lock, nextpid, local>>

\* p->lock is held from here to the scheduler's side of swtch().
ZombieUnlocked(p) ==
  /\ At(p, "zombie") /\ Free(p)
  /\ state' = [state EXCEPT ![p] = "ZOMBIE"]
  /\ Goto(p, "unlock")
  /\ UNCHANGED <<pid, parent, killed, chan, plock, wait_lock, nextpid, local>>
Zombie(p) ==
  /\ At(p, "zombie") /\ Free(p)
  /\ plock' = [plock EXCEPT ![p] = p]
  /\ state' = [state EXCEPT ![p] = "ZOMBIE"]
  /\ Goto(p, "unlock")
  /\ UNCHANGED <<pid, parent, killed, chan, wait_lock, nextpid, local>>

Unlock(p) ==
  /\ At(p, "unlock")
  /\ wait_lock' = NoProc
  /\ Goto(p, "swtch")
  /\ UNCHANGED <<table, plock, nextpid, local>>

Swtch(p) ==
  /\ At(p, "swtch")
  /\ plock' = [plock EXCEPT ![p] = NoProc]
  /\ Goto(p, "none")
  /\ UNCHANGED <<table, wait_lock, nextpid, local>>

-----------------------------------------------------------------------------
(* kwait() *)

\* Both the first acquire(&wait_lock) and the one at the end of sleep().
WaitLock(p) ==
  /\ pc[p] \in {"wait", "relock"} /\ wait_lock = NoProc
  /\ wait_lock' = p
  /\ pp'        = [pp EXCEPT ![p] = 0]
  /\ havekids'  = [havekids EXCEPT ![p] = FALSE]
  /\ Goto(p, "scan")
  /\ UNCHANGED <<table, plock, nextpid, arg>>

Child(p) == parent[pp[p]] = p

ScanOther(p) ==
  /\ At(p, "scan") /\ ~Child(p)
  /\ NextSlot(p, "check")
  /\ UNCHANGED <<table, plock, wait_lock, nextpid, arg, havekids>>

ScanLive(p) ==
  /\ At(p, "scan") /\ Child(p) /\ Free(pp[p]) /\ state[pp[p]] # "ZOMBIE"
  /\ havekids' = [havekids EXCEPT ![p] = TRUE]
  /\ NextSlot(p, "check")
  /\ UNCHANGED <<table, plock, wait_lock, nextpid, arg>>

\* The child's lock is free once its last swtch() is over.
Reap(p) ==
  /\ At(p, "scan") /\ Child(p) /\ Free(pp[p]) /\ state[pp[p]] = "ZOMBIE"
  /\ Freed(pp[p])
  /\ wait_lock' = NoProc
  /\ Goto(p, "user")
  /\ pp'        = [pp EXCEPT ![p] = 0]
  /\ havekids'  = [havekids EXCEPT ![p] = FALSE]
  /\ UNCHANGED <<plock, nextpid, arg>>

\* copyout() of the exit status fails and the zombie stays; init, an external
\* program, asks for no status.
ReapFails(p) ==
  /\ p # initproc
  /\ At(p, "scan") /\ Child(p) /\ Free(pp[p]) /\ state[pp[p]] = "ZOMBIE"
  /\ wait_lock' = NoProc
  /\ Return(p)
  /\ UNCHANGED <<table, plock, nextpid>>

WaitEnds(p) ==
  /\ At(p, "check") /\ Free(p) /\ (havekids[p] => killed[p])
  /\ wait_lock' = NoProc
  /\ Return(p)
  /\ UNCHANGED <<table, plock, nextpid>>

WaitSleeps(p) ==
  /\ At(p, "check") /\ Free(p) /\ havekids[p] /\ ~killed[p]
  /\ Goto(p, "sleep")
  /\ UNCHANGED <<table, plock, wait_lock, nextpid, local>>

\* sleep(): p->lock is taken before wait_lock is given up.
SleepUnlocksFirst(p) ==
  /\ At(p, "sleep")
  /\ wait_lock' = NoProc
  /\ Goto(p, "sleeping")
  /\ UNCHANGED <<table, plock, nextpid, local>>
SleepLock(p) ==
  /\ At(p, "sleep") /\ Free(p)
  /\ plock'     = [plock EXCEPT ![p] = p]
  /\ wait_lock' = NoProc
  /\ Goto(p, "sleeping")
  /\ UNCHANGED <<table, nextpid, local>>

SleepSwtch(p) ==
  /\ At(p, "sleeping")
  /\ state' = [state EXCEPT ![p] = "SLEEPING"]
  /\ chan'  = [chan EXCEPT ![p] = p]
  /\ plock' = [plock EXCEPT ![p] = NoProc]
  /\ Goto(p, "asleep")
  /\ UNCHANGED <<pid, parent, killed, wait_lock, nextpid, local>>

-----------------------------------------------------------------------------
(* kkill() *)

KillSkip(p) ==
  /\ At(p, "kill") /\ Free(pp[p]) /\ pid[pp[p]] # arg[p]
  /\ IF Last(p) THEN Return(p) ELSE Step(p) /\ UNCHANGED <<pc, arg, havekids>>
  /\ UNCHANGED <<table, plock, wait_lock, nextpid>>

KillFound(p) ==
  LET q == pp[p] IN
  /\ At(p, "kill") /\ Free(q) /\ pid[q] = arg[p]
  /\ killed' = [killed EXCEPT ![q] = TRUE]
  /\ state'  = IF state[q] = "SLEEPING" THEN [state EXCEPT ![q] = "RUNNABLE"] ELSE state
  /\ Return(p)
  /\ UNCHANGED <<pid, parent, chan, plock, wait_lock, nextpid>>

-----------------------------------------------------------------------------
Enter(p) == EnterFork(p) \/ EnterWait(p) \/ EnterExit(p) \/ EnterKill(p)
Fork(p)  == \/ AllocSkip(p) \/ Alloc(p) \/ AllocFails(p) \/ AllocBound(p)
            \/ Adopt(p) \/ Start(p)
Exit(p)  == \/ ExitLock(p) \/ Reparent(p) \/ WakeInit(p) \/ WakeParent(p)
            \/ Zombie(p) \/ Unlock(p) \/ Swtch(p)
Wait(p)  == \/ WaitLock(p) \/ ScanOther(p) \/ ScanLive(p) \/ Reap(p) \/ ReapFails(p)
            \/ WaitEnds(p) \/ WaitSleeps(p) \/ SleepLock(p) \/ SleepSwtch(p)
Kill(p)  == KillSkip(p) \/ KillFound(p)

Next == \E p \in Proc :
  Dispatch(p) \/ TrapKilled(p) \/ Enter(p) \/ Fork(p) \/ Exit(p) \/ Wait(p) \/ Kill(p)

Spec == Init /\ [][Next]_vars

(***************************************************************************)
(* A thread in the kernel goes on: a lock it spins for is free again and   *)
(* again and in the end it gets it, and a hart is found for it (there are  *)
(* as many as processes).  A process in user space is interrupted by the   *)
(* timer.  Nobody has to make a system call, but init keeps waiting.       *)
(***************************************************************************)
Kernel(p) == Dispatch(p) \/ TrapKilled(p) \/ Fork(p) \/ Exit(p) \/ Wait(p) \/ Kill(p)

FairSpec == Spec /\ \A p \in Proc : SF_vars(Kernel(p)) /\ SF_vars(EnterWait(initproc))

-----------------------------------------------------------------------------
TypeOK ==
  /\ state     \in [Proc -> ProcState]
  /\ pid       \in [Proc -> Pid]
  /\ parent    \in [Proc -> Proc \union {NoProc}]
  /\ killed    \in [Proc -> BOOLEAN]
  /\ chan      \in [Proc -> Proc \union {NoProc}]
  /\ plock     \in [Proc -> Proc \union {NoProc}]
  /\ wait_lock \in Proc \union {NoProc}
  /\ nextpid   \in 2 .. MAXPID + 1
  /\ pc        \in [Proc -> PcLabel]
  /\ pp        \in [Proc -> Proc]
  /\ arg       \in [Proc -> Proc \union Pid]
  /\ havekids  \in [Proc -> BOOLEAN]

\* "helps ensure that wakeups of wait()ing parents are not lost": with wait_lock
\* free, no parent sleeps in kwait() while a child of its waits to be reaped
\* (proc.c: sleep, kexit, reparent, kwait).
NoLostWakeup ==
  wait_lock = NoProc =>
    \A p, q \in Proc : state[p] = "SLEEPING" /\ parent[q] = p => state[q] # "ZOMBIE"

\* A slot is free only when no thread executes on its kernel stack: the parent
\* waits for the child's last swtch() before freeproc() (proc.c: kexit, kwait).
FreedOffStack == \A q \in Proc : state[q] = "UNUSED" => pc[q] = "none"

\* "Kill the process with the given pid": a process is not born killed, since
\* nobody can have named its pid before (proc.c: kkill, freeproc, allocproc).
NotBornKilled ==
  [][\A q \in Proc : state[q] = "UNUSED" /\ state'[q] = "USED" => ~killed'[q]]_vars

\* A zombie that belongs to init, forked by it or inherited, is freed in the end
\* (proc.c: kexit, reparent, kwait).
InitReaps ==
  \A q \in Proc : state[q] = "ZOMBIE" /\ parent[q] = initproc ~> state[q] # "ZOMBIE"

-----------------------------------------------------------------------------
(* The family tree that the table stands for *)

life ==
  [q \in Proc |-> CASE state[q] \in {"UNUSED", "USED"} -> "free"
                    [] state[q] = "ZOMBIE" -> "zombie"
                    [] OTHER -> "live"]
par == [q \in Proc |-> IF life[q] = "free" THEN NoProc ELSE parent[q]]

Tree == INSTANCE ProcTree WITH Slot <- Proc, root <- initproc, None <- NoProc

\* Processes are forked, passed to init, exited and reaped as ProcTree says: nobody
\* exits before its last child is handed over, and only the parent of the moment
\* frees a zombie (proc.c: kfork, reparent, kexit, kwait).
ImplementsTree == Tree!TreeSpec
=============================================================================
