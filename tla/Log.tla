-------------------------------- MODULE Log --------------------------------
(***************************************************************************)
(* The redo log of kernel/log.c over a disk that a crash may interrupt     *)
(* between any two block writes, with the part of the buffer cache it      *)
(* relies on: modified blocks stay pinned in memory until installed.       *)
(*                                                                         *)
(* Abstractions.  A block holds one of a few values; bwrite() writes one   *)
(* block atomically; log.lock sections are single steps.  A buffer that    *)
(* nobody pins may be recycled at any time, and is read again from its     *)
(* home location.                                                          *)
(***************************************************************************)
EXTENDS Integers, Sequences, FiniteSets

CONSTANTS
  Op,            \* processes executing file system calls
  Block,         \* home locations
  Value, Blank,  \* contents of a block; what mkfs left there
  NotCached,     \* no buffer holds the block
  LOGBLOCKS,     \* data blocks of the on-disk log
  MAXOPBLOCKS,   \* what begin_op() reserves for a call
  OpBlocks       \* how many different blocks a call really writes, at most: NoPanic
                 \* needs it below MAXOPBLOCKS, where filewrite() keeps it

ASSUME LogAssumption ==
  /\ Blank \in Value /\ NotCached \notin Value
  /\ MAXOPBLOCKS \in Nat \ {0} /\ LOGBLOCKS \in Nat /\ MAXOPBLOCKS <= LOGBLOCKS
  /\ OpBlocks \in 1 .. MAXOPBLOCKS

VARIABLES
  home,      \* disk: the home locations
  logblock,  \* disk: the log's data blocks
  header,    \* disk: the header block, the sequence of logged block numbers
  cache,     \* memory: the contents of the buffers
  pinned,    \* memory: blocks bpin() keeps in the cache
  lh,        \* memory: log.lh
  stage,     \* what the committing or recovering process does
  tail,      \* its loop variable in write_log() and install_trans()
  op,        \* "idle", "asleep" in begin_op(), "awake" in it, or "active"
  written    \* the blocks each active call has written

diskPart == <<home, logblock, header>>
memPart  == <<cache, pinned, lh>>
opPart   == <<op, written>>
vars     == <<diskPart, memPart, stage, tail, opPart>>

CommitStage  == {"write_log", "write_head", "install", "clear", "done"}
RecoverStage == {"read_head", "recover", "recover_clear"}
committing   == stage \in CommitStage
Active       == {o \in Op : op[o] = "active"}        \* log.outstanding of them

Init ==
  /\ home     = [b \in Block |-> Blank]
  /\ logblock = [i \in 1 .. LOGBLOCKS |-> Blank]
  /\ header   = <<>>
  /\ cache    = [b \in Block |-> NotCached]
  /\ pinned   = {}
  /\ lh       = <<>>
  /\ stage    = "run"
  /\ tail     = 1
  /\ op       = [o \in Op |-> "idle"]
  /\ written  = [o \in Op |-> {}]

Logged(b)   == \E i \in DOMAIN lh : lh[i] = b
StageFromZero(s) == stage' = s /\ tail' = 0
Stage(s)    == stage' = s /\ tail' = 1
\* One more round of a loop over lh, or on to the next stage.
LoopOver(s) == IF tail < Len(lh) THEN tail' = tail + 1 /\ UNCHANGED stage ELSE Stage(s)

-----------------------------------------------------------------------------
(* begin_op(), log_write() and end_op() *)

AdmitsOneMore == Len(lh) + Cardinality(Active) * MAXOPBLOCKS <= LOGBLOCKS
Admits == Len(lh) + (Cardinality(Active) + 1) * MAXOPBLOCKS <= LOGBLOCKS

BeginOp(o) ==
  /\ stage \notin RecoverStage
  /\ op[o] \in {"idle", "awake"}
  /\ op' = [op EXCEPT ![o] = IF ~committing /\ Admits THEN "active" ELSE "asleep"]
  /\ UNCHANGED <<diskPart, memPart, stage, tail, written>>

PinsNever(b) == pinned
Pins(b)      == pinned \union {b}

\* bread(), a modification, log_write() and brelse().  With the log full the call
\* panics, absorption or not.
LogWrite(o, b, v) ==
  /\ o \in Active
  /\ Cardinality(written[o] \union {b}) <= OpBlocks
  /\ Len(lh) < LOGBLOCKS
  /\ cache'   = [cache EXCEPT ![b] = v]
  /\ written' = [written EXCEPT ![o] = written[o] \union {b}]
  /\ IF Logged(b) THEN UNCHANGED <<lh, pinned>>
     ELSE lh' = Append(lh, b) /\ pinned' = Pins(b)
  /\ UNCHANGED <<diskPart, stage, tail, op>>

Woken == [o \in Op |-> IF op[o] = "asleep" THEN "awake" ELSE op[o]]

\* The last call to end commits for all of them, the others make room.
EndOp(o) ==
  /\ o \in Active
  /\ written' = [written EXCEPT ![o] = {}]
  /\ IF Active = {o}
     THEN /\ op' = [op EXCEPT ![o] = "idle"]
          /\ Stage(IF lh = <<>> THEN "done" ELSE "write_log")
     ELSE op' = [Woken EXCEPT ![o] = "idle"] /\ UNCHANGED <<stage, tail>>
  /\ UNCHANGED <<diskPart, memPart>>

-----------------------------------------------------------------------------
(* commit() *)

WriteLog ==
  /\ stage = "write_log"
  /\ logblock' = [logblock EXCEPT ![tail] =
                    IF cache[lh[tail]] = NotCached THEN home[lh[tail]] ELSE cache[lh[tail]]]
  /\ LoopOver("write_head")
  /\ UNCHANGED <<home, header, memPart, opPart>>

WriteHead ==
  /\ stage = "write_head"
  /\ header' = lh
  /\ Stage("install")
  /\ UNCHANGED <<home, logblock, memPart, opPart>>

\* install_trans(): a commit unpins the block it has brought home, a recovery
\* pinned none.
InstallTrans ==
  /\ stage \in {"install", "recover"}
  /\ home'   = [home EXCEPT ![lh[tail]] = logblock[tail]]
  /\ cache'  = [cache EXCEPT ![lh[tail]] = logblock[tail]]
  /\ pinned' = IF stage = "install" THEN pinned \ {lh[tail]} ELSE pinned
  /\ LoopOver(IF stage = "install" THEN "clear" ELSE "recover_clear")
  /\ UNCHANGED <<logblock, header, lh, opPart>>

Clear ==
  /\ stage \in {"clear", "recover_clear"}
  /\ lh'     = <<>>
  /\ header' = <<>>
  /\ Stage(IF stage = "clear" THEN "done" ELSE "run")
  /\ UNCHANGED <<home, logblock, cache, pinned, opPart>>

CommitDoneSilently ==
  /\ stage = "done"
  /\ Stage("run")
  /\ UNCHANGED <<diskPart, memPart, opPart>>
CommitDone ==
  /\ stage = "done"
  /\ Stage("run")
  /\ op' = Woken
  /\ UNCHANGED <<diskPart, memPart, written>>

-----------------------------------------------------------------------------
(* The cache, crashes and recovery *)

\* bget() recycles the buffer of an unpinned block.
Recycle(b) ==
  /\ b \notin pinned /\ cache[b] # NotCached
  /\ cache' = [cache EXCEPT ![b] = NotCached]
  /\ UNCHANGED <<diskPart, pinned, lh, stage, tail, opPart>>

\* Power fails; the disk keeps what was written.
Crash ==
  /\ cache'   = [b \in Block |-> NotCached]
  /\ pinned'  = {}
  /\ lh'      = <<>>
  /\ Stage("read_head")
  /\ op'      = [o \in Op |-> "idle"]
  /\ written' = [o \in Op |-> {}]
  /\ UNCHANGED diskPart

\* recover_from_log(), in fsinit(), before any process makes a system call.
ReadHead ==
  /\ stage = "read_head"
  /\ lh' = header
  /\ Stage(IF header = <<>> THEN "recover_clear" ELSE "recover")
  /\ UNCHANGED <<diskPart, cache, pinned, opPart>>

-----------------------------------------------------------------------------
Commit == WriteLog \/ WriteHead \/ InstallTrans \/ Clear \/ CommitDone

Next ==
  \/ \E o \in Op : BeginOp(o) \/ EndOp(o) \/ \E b \in Block, v \in Value : LogWrite(o, b, v)
  \/ Commit \/ ReadHead \/ Crash
  \/ \E b \in Block : Recycle(b)

Spec == Init /\ [][Next]_vars

-----------------------------------------------------------------------------
TypeOK ==
  /\ home     \in [Block -> Value]
  /\ logblock \in [1 .. LOGBLOCKS -> Value]
  /\ header   \in Seq(Block) /\ Len(header) <= LOGBLOCKS
  /\ cache    \in [Block -> Value \union {NotCached}]
  /\ pinned   \subseteq Block
  /\ lh       \in Seq(Block) /\ Len(lh) <= LOGBLOCKS
  /\ stage    \in {"run"} \union CommitStage \union RecoverStage
  /\ tail     \in 1 .. LOGBLOCKS
  /\ op       \in [Op -> {"idle", "asleep", "awake", "active"}]
  /\ written  \in [Op -> SUBSET Block]

\* No call panics with "too big a transaction", however often it writes the blocks
\* it is entitled to and whatever the others have logged (log.c: begin_op, log_write).
NoPanic == Active # {} => Len(lh) < LOGBLOCKS

\* A call asleep in begin_op() has somebody to wake it: a call that will end, or a
\* commit under way (log.c: begin_op, end_op).
NoStuckWaiter ==
  (\E o \in Op : op[o] = "asleep") => Active # {} \/ committing

-----------------------------------------------------------------------------
(* The disk the file system can rely on *)

\* What recovery would make of the disk.
Durable ==
  [b \in Block |->
    IF \E i \in DOMAIN header : header[i] = b
    THEN logblock[CHOOSE i \in DOMAIN header : header[i] = b] ELSE home[b]]
Memory ==
  [b \in Block |-> IF stage \in RecoverStage THEN Durable[b]
                   ELSE IF cache[b] = NotCached THEN home[b] ELSE cache[b]]

Atomic == INSTANCE AtomicDisk WITH mem <- Memory, disk <- Durable, active <- Active

\* Through every crash, the file system sees the writes of its calls all or nothing:
\* the header write commits, installing and recovering change nothing any more, and
\* no recycled buffer loses a write (log.c: commit, write_head, install_trans,
\* recover_from_log; bio.c: bpin).
ImplementsAtomicDisk == Atomic!DiskSpec
=============================================================================
