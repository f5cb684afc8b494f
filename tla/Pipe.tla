-------------------------------- MODULE Pipe --------------------------------
(***************************************************************************)
(* A pipe of kernel/pipe.c between the processes that hold its two ends    *)
(* open, which write, read, sleep for room or for bytes, are killed and    *)
(* close.  pi->lock is explicit; under it each round of a loop is a step.  *)
(*                                                                         *)
(* Abstractions.  nread and nwrite count modulo WRAP instead of 2^32.  A   *)
(* process is asleep on &pi->nread when it reads and on &pi->nwrite when   *)
(* it writes.  copyin() and copyout() may fail at any byte.                *)
(***************************************************************************)
EXTENDS Integers, Sequences

CONSTANTS
  Writer, Reader,   \* the processes that hold the write and the read end
  Nobody,           \* owner of the free lock
  Byte,
  PIPESIZE, WRAP,
  MaxN,             \* most bytes of one call
  Killable          \* processes that kkill() may hit

Process == Writer \union Reader
Counter == 0 .. WRAP - 1

ASSUME PipeAssumption ==
  /\ Writer \intersect Reader = {} /\ Nobody \notin Process
  /\ PIPESIZE \in Nat \ {0} /\ WRAP \in Nat
  /\ PIPESIZE < WRAP /\ WRAP % PIPESIZE = 0
  /\ MaxN \in Nat \ {0} /\ Killable \subseteq Process /\ Byte # {}

VARIABLES
  data, nread, nwrite, readopen, writeopen,   \* struct pipe
  lock,      \* pi->lock
  freed,     \* kfree() has taken the page back
  open,      \* the processes whose end is not closed yet
  pc,        \* where each of them is
  left,      \* bytes its call still has to move
  killed     \* its p->killed

pipe  == <<data, nread, nwrite, readopen, writeopen>>
procs == <<open, killed>>
pipeVars  == <<pipe, lock, freed, pc, left, procs>>

PipeInit ==
  /\ data  = [i \in 0 .. PIPESIZE - 1 |-> CHOOSE b \in Byte : TRUE]
  /\ nread = 0 /\ nwrite = 0
  /\ readopen = TRUE /\ writeopen = TRUE
  /\ lock  = Nobody /\ freed = FALSE
  /\ open  = Process
  /\ pc    = [p \in Process |-> "user"]
  /\ left  = [p \in Process |-> 0]
  /\ killed = [p \in Process |-> FALSE]

Next1Wide(n) == n + 1
Next1(n)    == (n + 1) % WRAP
Empty       == nread = nwrite
FullUnwrapped == nwrite = nread + PIPESIZE
Full        == nwrite = (nread + PIPESIZE) % WRAP
Goto(p, l)  == pc' = [pc EXCEPT ![p] = l]

\* wakeup() of one side, while p itself goes on to label l.
WakeAndGoto(side, p, l) ==
  pc' = [q \in Process |-> IF q = p THEN l
                           ELSE IF q \in side /\ pc[q] = "asleep" THEN "awake" ELSE pc[q]]
Locked(p, l) == lock = p /\ pc[p] = l
Unlock       == lock' = Nobody

-----------------------------------------------------------------------------
\* read() and write() of up to MaxN bytes.
Call(p) ==
  /\ pc[p] = "user" /\ p \in open /\ lock = Nobody
  /\ lock' = p
  /\ \E n \in 0 .. MaxN : left' = [left EXCEPT ![p] = n]
  /\ Goto(p, IF p \in Writer THEN "put" ELSE "wait")
  /\ UNCHANGED <<pipe, freed, procs>>

\* The call returns; nothing of its locals is left.
Return(p) ==
  /\ Unlock
  /\ left' = [left EXCEPT ![p] = 0]
  /\ UNCHANGED <<freed, procs>>

-----------------------------------------------------------------------------
(* pipewrite() *)

WriteFails(p) ==
  /\ Locked(p, "put") /\ left[p] > 0 /\ (~readopen \/ killed[p])
  /\ Goto(p, "user") /\ Return(p)
  /\ UNCHANGED pipe

PutFull(p) ==
  /\ Locked(p, "put") /\ left[p] > 0 /\ readopen /\ ~killed[p] /\ Full
  /\ WakeAndGoto(Reader, p, "sleep")
  /\ UNCHANGED <<pipe, lock, freed, left, procs>>

PutByte(p, b) ==
  /\ Locked(p, "put") /\ left[p] > 0 /\ readopen /\ ~killed[p] /\ ~Full
  /\ data'   = [data EXCEPT ![nwrite % PIPESIZE] = b]
  /\ nwrite' = Next1(nwrite)
  /\ left'   = [left EXCEPT ![p] = left[p] - 1]
  /\ UNCHANGED <<nread, readopen, writeopen, lock, freed, pc, procs>>

\* All bytes are in, or copyin() fails.
WriteEndsSilently(p) ==
  /\ Locked(p, "put")
  /\ left[p] > 0 => readopen /\ ~killed[p] /\ ~Full
  /\ Goto(p, "user") /\ Return(p)
  /\ UNCHANGED pipe
WriteEnds(p) ==
  /\ Locked(p, "put")
  /\ left[p] > 0 => readopen /\ ~killed[p] /\ ~Full
  /\ WakeAndGoto(Reader, p, "user") /\ Return(p)
  /\ UNCHANGED pipe

-----------------------------------------------------------------------------
(* piperead() *)

ReadFails(p) ==
  /\ Locked(p, "wait") /\ Empty /\ writeopen /\ killed[p]
  /\ Goto(p, "user") /\ Return(p)
  /\ UNCHANGED pipe

ReadSleeps(p) ==
  /\ Locked(p, "wait") /\ Empty /\ writeopen /\ ~killed[p]
  /\ Goto(p, "sleep")
  /\ UNCHANGED <<pipe, lock, freed, left, procs>>

ReadGoes(p) ==
  /\ Locked(p, "wait") /\ ~(Empty /\ writeopen)
  /\ Goto(p, "get")
  /\ UNCHANGED <<pipe, lock, freed, left, procs>>

GetByte(p) ==
  /\ Locked(p, "get") /\ left[p] > 0 /\ ~Empty
  /\ nread' = Next1(nread)
  /\ left'  = [left EXCEPT ![p] = left[p] - 1]
  /\ UNCHANGED <<data, nwrite, readopen, writeopen, lock, freed, pc, procs>>

\* copyout() of the byte taken fails, and the byte is gone.
GetFails(p) ==
  /\ Locked(p, "get") /\ left[p] > 0 /\ ~Empty
  /\ nread' = Next1(nread)
  /\ WakeAndGoto(Writer, p, "user") /\ Return(p)
  /\ UNCHANGED <<data, nwrite, readopen, writeopen>>

ReadEndsSilently(p) ==
  /\ Locked(p, "get") /\ (left[p] = 0 \/ Empty)
  /\ Goto(p, "user") /\ Return(p)
  /\ UNCHANGED pipe
ReadEnds(p) ==
  /\ Locked(p, "get") /\ (left[p] = 0 \/ Empty)
  /\ WakeAndGoto(Writer, p, "user") /\ Return(p)
  /\ UNCHANGED pipe

-----------------------------------------------------------------------------
(* sleep(), kkill() and pipeclose() *)

\* A kill before this step finds the process running and wakes nobody.
Sleep(p) ==
  /\ Locked(p, "sleep")
  /\ Unlock
  /\ Goto(p, "asleep")
  /\ UNCHANGED <<pipe, freed, left, procs>>

Relock(p) ==
  /\ pc[p] = "awake" /\ lock = Nobody
  /\ lock' = p
  /\ Goto(p, IF p \in Writer THEN "put" ELSE "wait")
  /\ UNCHANGED <<pipe, freed, left, procs>>

Kill(p) ==
  /\ p \in Killable /\ ~killed[p]
  /\ killed' = [killed EXCEPT ![p] = TRUE]
  /\ Goto(p, IF pc[p] = "asleep" THEN "awake" ELSE pc[p])
  /\ UNCHANGED <<pipe, lock, freed, left, open>>

\* close(), or the exit of the process; pipeclose() is called for the last one of
\* an end, wakes the other side and frees the pipe when both ends are closed.
FreedEither(ropen, wopen) == ~ropen \/ ~wopen
FreedWith(ropen, wopen)   == ~ropen /\ ~wopen
Close(p) ==
  LET side   == IF p \in Writer THEN Writer ELSE Reader
      others == Process \ side
      last   == open \intersect side = {p}
  IN
  /\ pc[p] = "user" /\ p \in open
  /\ open' = open \ {p}
  /\ IF last
     THEN /\ lock = Nobody
          /\ readopen'  = (readopen /\ side # Reader)
          /\ writeopen' = (writeopen /\ side # Writer)
          /\ freed'     = FreedWith(readopen', writeopen')
          /\ WakeAndGoto(others, p, "user")
     ELSE UNCHANGED <<readopen, writeopen, freed, pc>>
  /\ UNCHANGED <<data, nread, nwrite, lock, left, killed>>

-----------------------------------------------------------------------------
Write(p) == WriteFails(p) \/ PutFull(p) \/ WriteEnds(p) \/ \E b \in Byte : PutByte(p, b)
Read(p)  == \/ ReadFails(p) \/ ReadSleeps(p) \/ ReadGoes(p)
            \/ GetByte(p) \/ GetFails(p) \/ ReadEnds(p)

PipeNext == \E p \in Process :
  Call(p) \/ Write(p) \/ Read(p) \/ Sleep(p) \/ Relock(p) \/ Kill(p) \/ Close(p)

PipeSpec == PipeInit /\ [][PipeNext]_pipeVars

-----------------------------------------------------------------------------
PipeTypeOK ==
  /\ data \in [0 .. PIPESIZE - 1 -> Byte]
  /\ nread \in Counter /\ nwrite \in Counter
  /\ readopen \in BOOLEAN /\ writeopen \in BOOLEAN /\ freed \in BOOLEAN
  /\ lock \in Process \union {Nobody}
  /\ open \subseteq Process
  /\ pc \in [Process -> {"user", "put", "wait", "get", "sleep", "asleep", "awake"}]
  /\ left \in [Process -> 0 .. MaxN]
  /\ killed \in [Process -> BOOLEAN]

\* "pipe-empty": with the lock free, a reader sleeps only while there is nothing to
\* read and somebody who may still write, as long as no writer is killed inside its
\* call (pipe.c: piperead, pipewrite, pipeclose).
ReaderSleepsOnEmptyUnlessKilled ==
  lock = Nobody /\ (\A p \in Writer : ~killed[p]) =>
    \A p \in Reader : pc[p] = "asleep" => Empty /\ writeopen

\* "pipewrite-full": with the lock free, a writer sleeps only while the buffer is
\* full and somebody may still read (pipe.c: pipewrite, piperead, pipeclose).
WriterSleepsOnFull ==
  lock = Nobody => \A p \in Writer : pc[p] = "asleep" => Full /\ readopen

\* The page goes back to the allocator only when no process is inside a call and
\* none can enter one any more (pipe.c: pipeclose; file.c: fileclose).
FreedUnused ==
  freed => lock = Nobody /\ open = {} /\ \A p \in Process : pc[p] = "user"

-----------------------------------------------------------------------------
\* The bytes between nread and nwrite, across the wrap of both counters.
Contents ==
  [i \in 1 .. (nwrite - nread + WRAP) % WRAP |-> data[(nread + i - 1) % PIPESIZE]]

Fifo == INSTANCE PipeFifo WITH queue <- Contents, readable <- readopen, writable <- writeopen

\* The circular buffer with its two free-running counters is a bounded queue that
\* takes no byte once nobody can read it (pipe.c: pipewrite, piperead, pipeclose).
ImplementsFifo == Fifo!FifoSpec
=============================================================================
