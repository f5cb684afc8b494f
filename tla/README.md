# A TLA+ development of the Operating-System_SE-303 kernel

The repository is an xv6-riscv kernel (`src/kernel`) whose scheduler has been
replaced by a multi-level feedback queue, plus course notes (`src/Notes`),
exercise programs (`src/Coding`) and third-party teaching simulators
(`src/Simulation_Files`).  `kernel/vm.c`, the user programs and `mkfs` are not in
the repository.  All paths below are relative to `src/kernel` unless they say
otherwise.

## 1. Inventory

| Component | Sources | State | Operations | Hard parts | What makes it correct |
|---|---|---|---|---|---|
| MLFQ scheduler | proc.c (scheduler, sched, yield), trap.c (clockintr) | p->state, queue_level, q_ticks, wait_time, c->proc, p->lock | choose, dispatch, yield, sleep, exit, tick, aging | p->lock is taken on one side of swtch and released on the other; several harts scan one table; tick accounting is split between trap and scheduler | a process on one hart at most; RUNNING exactly when executed; the quantum of a level holds; only fresh arrivals are passed over; everyone is served |
| Process life cycle | proc.c (allocproc ... kkill, sleep, wakeup), sysproc.c, trap.c | proc table, wait_lock, p->lock, pids, parents, killed | fork, exit, wait, kill | lost wakeups, orphans, zombies freed while still running, kill racing with sleep, lock order | a family tree with atomic fork, exit and reap; every zombie of init reaped |
| Spin locks, interrupt nesting | spinlock.c | locked, cpu, noff, intena | acquire, release, push_off, pop_off | intena travels with the thread across swtch | mutual exclusion; interrupts as the outermost section found them |
| Sleep locks | sleeplock.c | locked, pid | acquiresleep, releasesleep | wakeup broadcast, holder identity | mutual exclusion; no lost wakeup |
| Clock and pause | trap.c, sysproc.c | ticks | clockintr, sys_pause, sys_uptime | unsigned wrap, kill before sleep | pause lasts as long as asked, across the wrap |
| Pipes | pipe.c | nread, nwrite, data, readopen, writeopen | alloc, read, write, close | full and empty waits, last close, kill | a bounded queue; nobody sleeps beside what it waits for |
| Log | log.c | header, outstanding, committing, disk | begin_op, end_op, log_write, commit, recover | crash between any two block writes, group commit, space reservation | writes of calls reach the disk all or nothing |
| Buffer cache | bio.c | buffers, refcnt, valid | bread, bwrite, brelse, bpin | one buffer per block, LRU recycling, pinning | one copy of a block, never recycled in use |
| Virtio disk | virtio_disk.c | descriptors, avail and used rings, info | rw, intr | descriptor exhaustion, out-of-order completion | each request completed once, with its own data |
| Inodes, blocks, directories | fs.c | itable, dinodes, bitmap | ialloc, iget, iput, ilock, itrunc, bmap, dirlink, namex | reference count against link count, orphans after a crash | an inode is freed once, when nothing refers to it |
| Open files | file.c, sysfile.c | ftable, ofile | alloc, dup, close, open, link, unlink, create | unwinding of partial failures, removed directories | no leak and no double close on any path |
| Console, UART, printf | console.c, uart.c, printf.c | cons.{r,w,e}, tx_busy | intr, read, write | circular buffer limits, wakeups | r <= w <= e <= r + size; no lost wakeup |
| Page allocator | kalloc.c | freelist | kalloc, kfree | double free, by its callers | - |
| exec, dispatch, boot, PLIC, strings | exec.c, syscall.c, main.c, start.c, plic.c, string.c | - | - | straight-line | - |
| Course notes | ../Notes | buffers, frames, holes | producer and consumer, page replacement, fits, dot product | semaphores, off-by-one | bounded queue; the victim is the oldest or least recently used; the hole is the smallest or largest that fits |

How they interact.  A trap enters the kernel on the stack of its process
(`usertrap`, `kerneltrap`); a timer trap charges the process (`clockintr`) and
yields, an external one runs `uartintr` or `virtio_disk_intr`.  A system call
blocks through `sleep`, which swaps the lock of its condition for p->lock and
switches to the hart's scheduler thread; `wakeup` and `kkill` make a sleeper
RUNNABLE and the scheduler of any hart dispatches it.  Pipes, the log, sleep
locks, the console, the UART, the disk driver and `kwait` all wait that way.  File
calls are bracketed by `begin_op` and `end_op`, modify buffers of the cache, and
hand them to `log_write`; the last one to end commits.  Below, `bread` and
`bwrite` go to the disk driver.  Closing the last reference of a pipe end or an
inode runs `pipeclose` or `iput`.

The hazards, each with its line and the properties aimed at it, are listed in
`PROJECT.json`.

## 2. Plan

In this order, the most important behaviour first.  All of it is written, and every safety
property of section 4 is proved as well as checked.

| # | Modules | Component | Composes | Abstract specification |
|---|---|---|---|---|
| 1 | `Mlfq`, `MlfqHistory`, `MlfqLoad`, `MlfqProofs` | scheduler, p->lock handover, tick accounting | - | - |
| 2 | `Proc`, `ProcTree`, `ProcProofs` | fork, exit, wait, kill | - | a family tree |
| 3 | `Log`, `AtomicDisk`, `LogProofs` | redo log, pinning | buffer contents | a disk with atomic groups of writes |
| 4 | `Pipe`, `PipeFifo`, `PipeProofs`, `MCLogPipe` | pipes | - | a bounded queue |
| 5 | `BlockIo`, `BlockStore`, `BlockIoProofs`, `MCBlockIo` | buffer cache, sleep locks, disk driver and device | the three of them | one copy of each block, with one user |
| 6 | `Files`, `FilesProofs`, `MCFiles` | inodes, directories, open files, file system calls, crash and recovery | on what `AtomicDisk` promises | - |
| 7 | `Clock`, `ClockProofs` | push_off and pop_off over swtch, timer interrupt, pause | sched() with the locks it runs under | - |
| 8 | `Console`, `LineQueue`, `ConsoleProofs`, `MCDevices` | console, UART | console on UART | a queue of finished characters and the line being typed |

What could follow: the calls that section 7 lists (chdir, dup within a process, exec) as
further actions of `Files`, each with a step in its invariant, and directories of more than
one block.

## 3. The models

### Mlfq: the scheduler

One variable per field the scheduler reads or writes.  `pc[c]` says where hart c
is: in the scan of `scheduler()`, just switched to a process, on the process, or
in the aging loop after it; `lock[p]` is the hart that holds p->lock.  `SkipSlot`
and `Dispatch` are one round of the two nested scan loops (one slot under its
lock), `ReleaseOwn` the release on the other side of `swtch`, `SwitchBack` the
accounting after it returns, `AgeSlot` one round of the aging loop.  `Tick` is
`clockintr`; a process leaves its hart by `Yield`, `KilledBeforeYield`, `Sleep` or
`Exit`, all through `sched()`; `Wakeup`, `KillSleeper`, `Fork` and `Reap` are what
other code does to the table under p->lock.  `used` counts the ticks of the
current dispatch.  `MlfqHistory` adds what arrived since a scan began and the real ticks
a process waited; `MlfqLoad` restricts the processes to a compute-bound load.

Left out: printing and n_run.  total_ticks appears as `used`, its difference over the
current dispatch, which is all the scheduler reads of it.

### Proc and ProcTree: process life

A slot of the table is its process and its kernel thread.  Every acquisition of a
lock that is kept is a step of its own; what a thread does to a slot under one
p->lock is one step, because nobody else can look.  Loops over the table
(`allocproc`, `reparent`, `kwait`, `kkill`) advance one slot at a time.  A process
sleeps only in `kwait`, on its own address, so a wakeup concerns one slot; other
channels are the business of the modules that use them.  Failing allocations and
copyouts are choices.  `ProcTree` has a slot free, live or zombie, with fork,
handing over a child, exit and reap as atomic steps; `life` and `par` of `Proc`
map the table to it.  Killing init is left out of the inputs: `kexit` panics on
it by intention.  pids do not wrap: `MAXPID` bounds the number of forks.

### Log and AtomicDisk: the log

On disk: home locations, log blocks, header.  In memory: buffer contents, the
pinned set, `lh`.  `stage` and `tail` are the program counter of `commit()` and of
recovery, one step for each block written, so that `Crash` may fall between any two
of them, also during recovery.  `Recycle` drops any unpinned buffer at any
moment, which is more than the LRU order of bio.c allows.  `OpBlocks` bounds the
different blocks a call writes.  `AtomicDisk` has what the file system reads
and what survives; the refinement maps the second to what recovery would make
of the disk (`Durable`), so installing and recovering are stutters and the header
write is the commit.  A block write is taken to be atomic.

### Pipe and PipeFifo: pipes

pi->lock is a variable and each round of the read and write loops is a step under
it.  The counters wrap at `WRAP`, a multiple of PIPESIZE as 2^32 is of 512.
Between releasing the lock in `sleep()` and being woken a process is "asleep"; a
kill while it holds the lock wakes nobody.  copyin and copyout may fail at any
byte.  `PipeFifo` is a bounded queue with two ends that close.  A killed writer
leaves `pipewrite` without the wakeup at its end (pipe.c:84): `killed` marks that
case, and only in it may a reader sleep beside bytes.  A byte whose copyout fails has left the
buffer and reaches nobody; `PipeFifo` lets Get take a byte without delivering it, because the
code does (pipe.c:123).

### BlockIo and BlockStore: buffer cache and disk

The fields of `struct buf`, the LRU list, the descriptor table with `info`, both rings
and the contents of the disk are variables; `pc` and `buf` say what each process
does with which buffer.  `bget()` is a step that finds or recycles a buffer and
counts the reference, and another that takes its sleep lock, because bcache.lock is
given up between.  `virtio_disk_rw()` allocates three descriptors or sleeps, hands
them over, sleeps until `b->disk` is cleared and frees them.  The device finishes any
request it was given; the handler acknowledges, then takes one used entry a step,
while the device adds more.  `brelse()` is two steps, as in the code: the lock first,
the count later.  Sleepers may also be woken by a kill.  A process
has one buffer at a time, where some callers in fs.c and log.c have two.  `Modify` is what those
callers do to `b->data`.  `BlockStore` has one copy
of each block and at most one user of it: the refinement says that recycling,
reference counts and reordered completion never show.  `Log` takes that for granted.

### Files: inodes, directories, open files

The state is the disk as the code sees it through the cache (inodes, directory
entries, bitmap), the inode table, the open file table and what each process does.
Each system call is cut where it waits for an inode's lock: a step is a path element
of `namex`, the second lock of `create` and `unlink`, an `iput` and its second
critical section.  Errors of the code are disjuncts that unwind as the code does.
`ents` has the names in a directory except "." and "..", which are in `up`: `create` writes
both in a new directory, with the number of its parent, and they stay there when the directory
is removed, until `iput` frees its inode.  `Dirlookup` finds them like any other name.
Paths start at the root, and p->cwd is always the root: a lookup that is in a directory holds
it as a current directory would.  The entries of a directory fit in one block, which `mkdir`
must find; a parent that has to grow and cannot (fs.c:616-626) does not occur.
`Crash` may happen whenever no call is in a transaction; that a crash in the middle
of one goes back to its beginning is what `Log` is shown to implement.  After it
`ireclaim` walks the inodes.  The reference every process has to the root, as its
current directory, is not counted, since the root is never freed.  A file created in
a directory that was removed meanwhile is lost with the directory and stays allocated
with a link count of 1 (sysfile.c:254); no property forbids it.

### Clock: interrupts and ticks

Every hart has its enable bit, `noff` and `intena`; every thread the `intena` that
`sched()` keeps on its stack.  `push_off()` and the winning swap of `acquire()` are
two steps.  `sched()` moves the hart to its scheduler with p->lock held, and any
hart may dispatch the thread again.  The timer interrupt runs on every hart, and on
`hart0` it takes tickslock, counts and wakes the sleepers one at a time.  Threads
are in user space or in `pause()`; ticks wrap at `UINT`.  The one assumption is that
a thread that pauses runs again before the counter has gone round once (`Timer`).

### Console and LineQueue: console and UART

`rd` is where each reader stands in `consoleread()`, `left` what the writers have to
send, `uart` where the interrupt handler is.  The handler holds cons.lock while it
echoes, byte by byte, each after a look at the transmitter that may be stale when
the byte is written, and so do kernel messages.  `uartwrite` waits on `tx_busy`,
which only the interrupt clears.  Characters are classes: ordinary, end of line,
end of file, erase, kill.  `LineQueue` has the finished characters and the unfinished line;
the indices r, w, e and the ring implement it over their wrap.

The model of the queue hands a character over when it leaves the buffer, also when its
copyout fails: what it says of a reader is the order, not the arrival.

### MCDevices and MCLogPipe

`Clock` and `Console` share no state and are checked in one instance, and so are `Log` and
`Pipe`: `about` is chosen in the initial state and never changes.  The pipe comes to an end when
both its ends are closed, and only there `MCDone` lets it stand still.

## 4. Runs

| Run | Bounds | What it shows |
|---|---|---|
| `mlfq` | 2 harts, 2 slots, 3 levels with quanta 1, 2 and 4, aging after 2 passes | table, locks and accounting agree in every interleaving; a dispatch passes over only what became eligible after the scan began |
| `mlfq_load` | 1 hart, 3 slots at any level, 3 levels, aging after 4 | liveness: every compute-bound process is served |
| `mlfq_aging_ticks` | 2 harts, 2 slots, 2 levels | violation: aging counts passes of idle loops, not the ticks that proc.c:424 and proc.h:100 speak of |
| `proc` | 3 slots, pids to 4 (one slot is reused), kill(0), kill(3) | no wakeup of a parent lost, no slot freed under a thread, no deadlock; implements ProcTree; liveness: zombies of init are reaped |
| `proc_kill_zero` | 3 slots | violation: kill(0) marks a free slot, and the next process in it is born killed |
| `log_pipe` | log: 3 calls, 4 blocks, 2 values, 4 log blocks, 2 reserved for a call; pipe: 2 writers, 1 reader, 2 bytes of room, counters modulo 6, calls of up to 3 bytes, one of each side killable | log: implements AtomicDisk over crashes and recycling; the log never overflows; nobody waits in vain; pipe: implements PipeFifo; no writer sleeps beside room; no reader beside bytes, unless a writer was killed; the page is freed unused |
| `blockio` | 2 processes, 3 blocks, 2 values, 2 buffers, 8 descriptors (2 requests), 1 pin | implements BlockStore; no buffer is lost or left counted; each descriptor has one owner; nobody sleeps for what has happened |
| `disk_requests` | 3 processes, 2 blocks, 2 buffers, 5 descriptors (1 request) | with descriptors short nobody sleeps beside free ones; liveness: every request finishes |
| `files` | 2 processes, 2 names, paths of 1 and 2 elements, 3 inodes, 2 blocks, 1 open file | names resolve, blocks have one owner, what is in use is not freed, recovery frees orphans, no panic, no deadlock |
| `files_dotdot` | the same with 3 blocks, the path /n1/n2/.. too, and only mkdir, unlink and open | violation: a lookup in a directory that is removed with its parent follows ".." to a freed inode, and `ilock()` panics |
| `files_orphan` | as `files` | violation: an inode that `ialloc()` gives out again while `iput()` is between freeing it and dropping its reference may end up freed by nobody |
| `devices` | clock: 2 harts, 2 threads, ticks modulo 4, pauses of 2; console: 1 reader, 2 writers, 2 bytes of buffer, indices modulo 4, a transmitter of 3 bytes | interrupts match the locks held across migration; nobody pauses beyond its ticks; no reader or writer sleeps unwoken; no byte overwritten; implements LineQueue |

Why the bounds are enough.  Two harts and two slots give every race for a slot,
including a third party that changes it under the scan; three levels give a
demotion twice and a promotion between.  A dispatch, its tick and aging each need a
single process and hart, or two.  Three slots give init, a parent and its child, so
orphans are handed over while they are created, alive and zombies, and a reused
slot meets a kill meant for its predecessor.  Four log blocks and two reserved for
a call make the third call wait, and room freed by absorption admit it; a
transaction spans the blocks of several calls.  Two bytes of room and calls of three
make every call wait; modulo 6 both counters wrap with the buffer empty, half full
and full.  Three blocks and two buffers force recycling while another block is in use
or pinned, and exhaust the cache; two requests at the device finish in either order,
and five descriptors let a second process take two, fail and give them back.
Two inodes besides the root give a directory with a file in it, one file under two
names, and an inode freed and reused by the other process; two blocks let a
directory or a file fail for want of the third; one open file makes `filealloc` fail.
Two threads on two harts swap harts; a counter modulo 4 wraps during a pause.  In the
console, two characters fill the buffer, and its indices wrap in every
state of it; two writers, the echo and a kernel message are all that can send at once.

The number of distinct blocks a call writes is below its reservation in `log_pipe`
(`OpBlocks` 1, `MAXOPBLOCKS` 2).  That is a real condition on the callers:
`log_write` tests for a full log before it looks for absorption (log.c:221-229), so
with `OpBlocks` = `MAXOPBLOCKS` TLC reaches a full log with a call still active, and
that call panics when it writes a block again.  `filewrite` keeps well below.

Every run checks for deadlock.  It is the only check that sees two processes wait for each
other's locks (proc.c:27, sysfile.c:213); no named property speaks of it.

Where a hazard occurs in the runs.  Descriptors run short in `disk_requests` only, which has
one request at the device at a time; requests finish out of order in `blockio` only.  A write in
`devices` is of one byte, so that a writer waits behind other senders and not behind itself
(`ConsoleWakesUp` is proved for any length).  With three slots in `proc` an exiting process that has
children is a child of init and wakes it anyhow, so the wakeup of `reparent()` (proc.c:322) is
needed for NoLostWakeup and not for InitReaps.

What the models show and no property states, because the code promises nothing
else: a kill between `killed()` and `sleep()` in `kwait` (proc.c:412) leaves the victim
asleep until a child exits; a killed writer leaves its reader asleep beside the bytes
it has put (pipe.c:84) until another write or the last close; a byte whose copyout fails is
lost (pipe.c:123); and a log that pins every buffer of the cache makes the next `bget()` panic
(bio.c:88), which PanicsOnlyWhenFull permits.

CallsNeverPanic is not true of this kernel as it stands.  An entry ".." holds no reference to
the parent, and `sys_unlink` takes the parent's link back when it removes the directory
(sysfile.c:226) but leaves the entry.  A process in the removed directory, as its current
directory or on its way, then reaches the inode of the parent when that has been removed and freed
as well, and `ilock()` panics with "ilock: no type" (fs.c:316): run `files_dotdot`.  Run `files`
and the theorems of `FilesProofs` are therefore about paths without "." and "..".

## 5. Fairness

`LoadSpec` (mlfq_load): weak fairness of each hart, which keeps executing
instructions and whose timer keeps interrupting.  `FairSpec` of `Proc` (proc): strong
fairness of each thread inside the kernel.  A thread competes for locks that are free
again and again and for a hart, and a process in user space is interrupted by its timer;
that it wins in the end is what hardware and, for the hart, the scheduler provide, not
what a spin lock guarantees.  Of the system calls only init's `wait()` is fair, because
the user program init does nothing else; no other process has to make one.  `FairSpec`
of `BlockIo` (disk_requests): weak fairness of the device for each request it was given, of
its interrupt, and of each process inside the driver.  It is weak, so that a process that
sleeps for descriptors and is overtaken is not helped by the assumption; callers need not release
their buffers or ask for new ones.  No safety property depends on fairness.

## 6. Proofs

`MlfqProofs` proves, for every number of slots, harts and levels, every quantum
function with positive quanta and every positive aging threshold
(`TableAssumption`, `LevelsAssumption`):

- `TypeCorrect`: Spec => []TypeOK
- `HandoverCorrect`: p->lock is held between two steps exactly by a hart that is
  switching to or from p
- `OneHart`: no process is executed by two harts
- `RunningCorrect`: an unlocked process is RUNNING exactly when a hart executes it
- `QuantumRespected`: no process is left with a charge its level does not allow
- `OneTick`: a dispatch is charged one tick at most

The argument is one inductive invariant, `MlfqInv`:

    TypeOK /\ Handover /\ WithinQuantum /\ UntickedWhileRunning /\ OneTickPerDispatch
    Handover == LockHandover /\ OneHartPerProcess /\ RunningIsOnHart

Most of these facts are not inductive alone.  Two harts do not execute one process because
a hart that is switching holds p->lock, and because a RUNNABLE process whose lock
is free is on no hart; that needs who holds the lock at each label.  A dispatch is
charged once because a process on its hart that was not sent into `kexit()` was
charged nothing yet (`UntickedWhileRunning`), and the one that was sent has its
interrupts off.  `InitInv` establishes the invariant; `TypeStep`, `HandoverStep`,
`QuantumStep` and `TickStep` preserve its parts, with one step for each action;
`OnProcess`, `LoopBounds` and `AccountBounds` are the facts about single elements
they share.

In the same module, `PriorityRespected` is proved (HSpec => PassesOverOnlyFresh).
Its invariant is `HInv`, `MlfqInv` with `ScanInv`: of a hart in the middle of its scan, every
RUNNABLE process the scan has passed is in `fresh`.  `HistoryObserves` shows that
the history variables only watch, `ScanMoves` the ways a hart's place in the table
may change; at a dispatch the invariant is the property.

`ProcProofs` proves, for any number of slots and of pids and any pids that are killed
(`ProcAssumption`; KillPids leaves out init's):

- `ProcTypes`, `NoWakeupLost` (NoLostWakeup), `FreedWithoutThread` (FreedOffStack)
- `ProcessesFormATree`: Spec => ImplementsTree
- `OnlyKillZero`: 0 \notin KillPids implies Spec => NotBornKilled, the property that run
  `proc_kill_zero` finds violated: the pid 0 of free slots is the only way to it

The invariant is `ProcInv`.  `Locks` and `States` derive the owner of wait_lock and of each
p->lock, and the state of each process, from where its thread is.  `Parents` is what exit()
achieves: a process past `reparent()` has no children, and in its loop none in the slots it
has passed (`HandsOver`), although fork(), exits and the adoption of others go on; it is
what makes `HasParent` inductive, without which a zombie might be reaped by nobody.  `Forks` keeps
a slot that is being filled in to one parent.  For the wakeup, `Scans` says that kwait()
has missed no zombie in the slots it has scanned, since it holds wait_lock, and `Heard` that
a process asleep, or about to sleep with its lock held, has no zombie child unless the
exiting process is still to wake init.  `Rewound` says that each loop over the table starts at
slot 0.  The refinement takes one action of `Proc` after the other: fork's publication, one
handing over for each slot of `reparent()`, exit and reap are steps of `ProcTree`, all else
stutters.

`ClockProofs` proves `InterruptsNest` (ClockSpec => []InterruptsMatchNesting) for any number
of harts and threads, any width of the counter and any pauses (`ClockAssumption`).
The invariant `ClockInv` derives who holds which lock from where each hart and thread
is (`TicksOwner`, `ProcOwner`), says where a hart may wait for a lock (`Places`, with
`Spinning`), what a thread that is switched out has kept of its interrupt state (`Away`),
and that noff counts the locks and intena says whether the outermost was taken with
interrupts on (`Nesting`).  `Away` is why `sched()` must save intena: a thread
switched out in its timer interrupt has FALSE there, one that sleeps TRUE, and the hart
that resumes it has what its scheduler left.  `Elsewhere` confines a step to its hart; one
lemma for each part has one step for each action.  `PausersWakeUp` (ClockSpec => []PausersNotDue)
adds `DueInv`: a thread about to sleep is not due, because it has held tickslock since its
test, and one that sleeps and is due lies ahead of the wakeup loop of the tick that made it
due, in any slot and across the wrap.

`ConsoleProofs` proves `ConsoleWakesUp` and `NothingOverwritten`, for any number of readers
and writers, any buffer and any requests; the second for a transmitter that takes at least three
bytes, as a 16550 does.  Its invariant `ConsoleInv` counts who may still send
without another look at the transmitter (`MayStillSend`): a writer that finds `tx_busy` clear,
the echo and a kernel message, each one byte; that count and the bytes under way never
exceed three, because only an empty transmitter lets one look again.  While `tx_busy` is
set, a byte is under way, an interrupt pending, or the handler about to clear it.  On the
input side, only the owner of cons.lock looks at the indices, and the handler, which has it,
wakes all readers when it moves w.

`ConsoleIsALineQueue` proves the refinement of `LineQueue` for any size of the buffer and any
width of the indices that is a multiple of it.  Beside `ConsoleInv` it needs that w lies
between r and e and that no more is stored than fits (`Between`): a character that is stored
at e then has a slot of its own, so what is finished or typed stays as it was (`AddsLast`,
with `RingKept` and `RingAppends`).  `ConsSteps` says which five things a step may do to the
console, `StepRefines` which operation of the queue each of them is.

`LogProofs` proves, for any calls, blocks and values and any sizes with
MAXOPBLOCKS <= LOGBLOCKS and OpBlocks in 1 .. MAXOPBLOCKS (`LogAssumption`): `TypesHold`, `NobodyStuck`
(NoStuckWaiter), `AtomicThroughCrashes` (Spec => ImplementsAtomicDisk), and for
OpBlocks < MAXOPBLOCKS, the condition section 4 explains, `LogNeverFull` (Spec => []NoPanic).
`LogInv` has the space invariant, which is not inductive with Len(lh) alone: every active
call has MAXOPBLOCKS log blocks reserved beyond the blocks of lh that no active call wrote
(`Space`, with `Unreserved`), so absorption by another call never takes room from anyone.
`Stages` ties the header to lh and `Contents` says, at each stage of the commit and of
recovery, whether a block is to be found in the cache, in its log block or at home; from
it the disk that recovery would make (`Durable`) changes only at the header write, which is the
commit of `AtomicDisk`.

`PipeProofs` proves, for any readers and writers, any PIPESIZE and any multiple of it above
as the width of the counters (`PipeAssumption`): `PipeTypes`, `WritersWakeUp`
(WriterSleepsOnFull), `ReadersWakeUp` (ReaderSleepsOnEmptyUnlessKilled), `FreedWhenUnused`
(FreedUnused) and `PipeIsAQueue` (PipeSpec => ImplementsFifo).  In `PipeInv`, `WritersAsleep` and
`ReadersAsleep` are the two properties with what makes them inductive: the bytes may be gone
already if the reader that took them is still under pi->lock and has its wakeup before it.
`Bounded` says that the distance of the counters, which wrap, is at most PIPESIZE.
The lemmas on remainders (`ModOf`, `ModApart`, `SlotOfWrapped`) show that an index and the
index before its wrap have one slot, and that slots less than a turn apart differ.

`BlockIoProofs` proves, for any finite set of processes, any blocks, buffers and descriptors
and any bound on pins (`BlockIoAssumption`): `BlockIoTypes`, `DescriptorsHaveOneOwner`
(DescriptorsOwned), `SleepersWakeUp` (SleepersHaveAWaker), `NoReferenceLeaks`
(PanicsOnlyWhenFull) and `CacheIsAStore` (Spec => ImplementsBlockStore).  `BlockIoInv` counts:
a reference count is the number of processes that use the buffer, and one more while the log
pins it (`References`), which is why a buffer in use is never recycled.  `Calls` settles from
a process's place which buffer and which lock it has.  `Chains` gives each process that waits
three descriptors of its own with what it asked for, `Requests` puts the head of its chain in
one ring exactly while the disk owns its buffer, in any order of completion, `ReadsDone`
says that a read the device has done is in the buffer, `Reported` that what is in the used ring
has an interrupt to come, and `Waited` that the reason of every sleeper stands.  In the refinement
a block's copy is its buffer's, or the disk's when no buffer has it.

`FilesProofs` proves, for any finite sets of processes and names, any paths that are not
empty and have neither "." nor "..", and any numbers of inodes, blocks and open files
(`FilesAssumption`, and `NoDots` as the premise of each theorem; `files_dotdot` shows that
`FileCallsNeverPanic` is false without it): `FilesTypes`,
`FileCallsNeverPanic` (CallsNeverPanic), `NamesLeadSomewhere` (NamesResolve), `BlocksHaveOwners`
(BlocksOwned), and of every step `UnusedAreFreed` (FreedOnlyUnused) and `OrphansReclaimed`
(ReclaimsOrphans).  All of them rest on `FilesInvariant`, NoDots => (Spec => []FilesInv);
`FilesTypes` adds that what ".." leads to is in range (`UpTyped`), the only fact about `up`:

    FilesInv == Types /\ References /\ Places /\ Locks /\ Copies /\ Allocated /\ NewInodes
                /\ Disk(s) /\ Links /\ Booting

- `References`: the count of an inode is the number of variables of calls that hold it
  (`Held`, the pending `iput()`s among them) and of open files that stand for it; the count of a
  file is the number of descriptors.  A count that is off by one frees an inode under somebody,
  many steps later.
- `Places` and `Locks`: which variables a call has in use at each label, and which inodes it
  has locked there.
- `Copies`: the copy in the inode table is what is on disk, except for the inode that an
  `iput()` has freed and not yet marked invalid.
- `Allocated`: what is referred to is not free (this is the part that needs `NoDots`), and a directory stays one while a call is in it.
  A reference that is only waiting for the second half of its `iput()` is excepted (`Live`):
  `ialloc()` may already have given the inode to somebody else.
- `NewInodes`: between `ialloc()` and the first name, an inode without links belongs to one call.
- `Links`: a link count covers the names, the links a call has counted but not yet written or
  has erased but not yet uncounted (`Pending`), and the subdirectories, whose ".." leads back.
  It is what makes NamesResolve inductive: `sys_link()` counts first and writes later,
  `sys_unlink()` the other way round.  The inequality is strict where a directory was removed
  with a creation under way.
- `Disk`: the blocks of the inodes are a partition of the bitmap, a free inode has none, and only
  directories have entries.
- `Booting`: before the first process runs all is quiet, and no orphan is behind `ireclaim()`.

The proof goes through `StepKeeps`: it derives from what a step does to its own call, to counts,
locks and inodes (`LockMoves`, `RefMoves`, `LiveMoves`, `InoMoves` and so on) the parts of the
invariant that speak of all the processes, and that what is freed was nobody's (`Kept`).  Above it
are a few lemmas for the shapes that actions have in common (`LookKeeps`, `NlinkKeeps`, `WritesKeeps`,
`TableKeeps`), then one for each action.  The operators of fs.c are described once, field by field
(`IlockIs`, `IunlockIs`, `FreeInodeIs` and others), and so is what they do to the disk (`Wrote`,
`DiskTrunc`).  `OrphanIs` is the heart of FreedOnlyUnused: with one reference, a valid copy and
no links, by `References` nobody but the caller of `iput()` has the inode, and by `Links` no name
leads to it, so its lock is free although itable.lock says nothing about it.

What is assumed of the constants is what the code has: tables that are not empty, widths of
counters that are multiples of the sizes they index (2^32 of 512 and 128), NUM >= 3 descriptors,
a value that names no member of a set, finitely many processes and names where references
and names are counted.  No theorem assumes fairness.

Only model-checked:

- the liveness properties `EveryoneServed`, `InitReaps` and `RequestsFinish`, since the proof
  system reasons neither about fairness nor about ENABLED; the wakeup invariants of `Proc` and
  `BlockIo`, which they rest on, are proved;
- that the system does not come to a halt (deadlock); for the order of inode locks, what is
  proved is that `iput()` never waits for one.

The proof system cannot carry out induction over data either; none of the proofs needs it, as
sequences and sets are changed by one element a step.

## 7. Not modelled

- The page allocator: a list under one lock, whose hazard, a double free, lies with its
  callers.
- exec, system call dispatch, boot, PLIC and string functions: straight-line code without
  shared state of its own, and exec depends on `vm.c`, which is not in the repository.
- The course notes and exercise programs, which share no code with the kernel, and the
  teaching simulators, which are third-party.
- Backups and build products.
- Of the modelled parts: what a panic does to the console and to the other harts; the formatting of
  printf; the contents of files, the split of a file into direct and indirect
  blocks, directories of more than one block, offsets, chdir and dup within a process; the feature negotiation of
  the disk and disk errors, on which the driver panics; memory and registers of
  processes; pids after 2^31 forks.

User programs, the device behind each driver, the choices of the scheduler outside `Mlfq` and power
failure are the environment of the models.
