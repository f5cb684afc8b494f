------------------------------ MODULE BlockIo -------------------------------
(***************************************************************************)
(* The buffer cache (kernel/bio.c), its sleep locks (kernel/sleeplock.c)   *)
(* and the virtio disk driver (kernel/virtio_disk.c) with the device they  *)
(* drive.  A process reads a block, changes, pins and writes it, and       *)
(* releases it; the device works through the requests in any order.        *)
(*                                                                         *)
(* Abstractions.  A section under bcache.lock or a sleep lock's spin lock  *)
(* is one step, and so is one under disk.vdisk_lock, except the interrupt  *)
(* handler, which runs against the device.  The rings are queues of chain  *)
(* heads: their 16-bit counters wrap at a multiple of NUM.  Every disk     *)
(* transfer succeeds (the driver panics on one that does not), and a bget  *)
(* that panics for want of a buffer is a call that never returns.          *)
(***************************************************************************)
EXTENDS Integers, Sequences, FiniteSets, FiniteSetsExt, SequencesExt

CONSTANTS
  Proc, Nobody,      \* the processes
  Block, NoBlock,    \* block numbers; what an unused buffer is labelled with
  Value, Blank,      \* contents of a block; what the disk holds at first
  NBUF,              \* buffers in the cache
  NUM,               \* descriptors of the disk's queue
  MaxPins            \* blocks the log may have pinned at one time

ASSUME BlockIoAssumption ==
  /\ IsFiniteSet(Proc) /\ Nobody \notin Proc /\ NoBlock \notin Block /\ Blank \in Value
  /\ NUM \in Nat /\ NUM >= 3 /\ NBUF \in Nat /\ MaxPins \in Nat

Buf  == 1 .. NBUF
Desc == 0 .. NUM - 1
None == [b |-> 0]          \* disk.info[].b == 0

VARIABLES
  blockno, valid, locked, refcnt, data,  \* the fields of each struct buf
  lru,      \* the list through prev/next, most recently used first
  pinned,   \* the blocks the log has pinned
  pc, buf,  \* what each process does, and with which buffer
  asleep,   \* the processes in sleep(); the channel follows from pc and buf
  free,     \* disk.free[]
  info,     \* disk.info[] and disk.ops[], by head of chain
  chain,    \* the descriptors each process has allocated
  ondisk,   \* the disk field of each struct buf
  avail, used,  \* the rings: what the device, and what the driver, has yet to see
  irq,      \* the device asks for an interrupt
  handler,  \* "idle", or "drain": virtio_disk_intr() holds vdisk_lock
  medium    \* the disk itself

cacheVars  == <<blockno, valid, locked, refcnt, data, lru, pinned>>
driverVars == <<free, info, chain, ondisk, avail, used, irq, handler>>
vars       == <<cacheVars, driverVars, pc, buf, asleep, medium>>

InitialListOff == [i \in Buf |-> NBUF - i]
InitialList    == [i \in Buf |-> NBUF + 1 - i]   \* binit() pushes each buffer to the front

Init ==
  /\ blockno = [i \in Buf |-> NoBlock] /\ valid = [i \in Buf |-> FALSE]
  /\ locked = [i \in Buf |-> Nobody] /\ refcnt = [i \in Buf |-> 0]
  /\ data = [i \in Buf |-> Blank] /\ lru = InitialList
  /\ pinned = {}
  /\ pc = [p \in Proc |-> "idle"] /\ buf = [p \in Proc |-> 0] /\ asleep = {}
  /\ free = Desc /\ info = [d \in Desc |-> None] /\ chain = [p \in Proc |-> {}]
  /\ ondisk = [i \in Buf |-> FALSE] /\ avail = {} /\ used = <<>>
  /\ irq = FALSE /\ handler = "idle"
  /\ medium = [k \in Block |-> Blank]

Sleepers(at, i) == {p \in asleep : pc[p] = at /\ buf[p] = i}
AnySleepers(at) == {p \in asleep : pc[p] = at}
Go(p, label)    == pc' = [pc EXCEPT ![p] = label]

-----------------------------------------------------------------------------
(* bget(), acquiresleep() *)

LastOfList(i)  == lru[NBUF] = i
LeastRecent(i) == \E n \in Buf : /\ lru[n] = i /\ refcnt[i] = 0
                                /\ \A m \in n + 1 .. NBUF : refcnt[lru[m]] > 0

BgetCached(p, k) ==
  \E i \in Buf :
    /\ blockno[i] = k
    /\ refcnt' = [refcnt EXCEPT ![i] = @ + 1]
    /\ buf' = [buf EXCEPT ![p] = i]
    /\ UNCHANGED <<blockno, valid>>

\* Not cached: take the least recently used buffer nobody refers to.
BgetRecycle(p, k) ==
  \E i \in Buf :
    /\ \A j \in Buf : blockno[j] # k
    /\ LeastRecent(i)
    /\ blockno' = [blockno EXCEPT ![i] = k]
    /\ valid'   = [valid EXCEPT ![i] = FALSE]
    /\ refcnt'  = [refcnt EXCEPT ![i] = 1]
    /\ buf'     = [buf EXCEPT ![p] = i]

Bget(p, k) ==
  /\ pc[p] = "idle"
  /\ BgetCached(p, k) \/ BgetRecycle(p, k)
  /\ Go(p, "lock")
  /\ UNCHANGED <<locked, data, lru, pinned, driverVars, asleep, medium>>

\* Sleep while the buffer is locked; then bread() reads it unless it is valid.
AcquireSleep(p) ==
  LET i == buf[p] IN
  /\ pc[p] = "lock" /\ p \notin asleep
  /\ IF locked[i] # Nobody
     THEN asleep' = asleep \union {p} /\ UNCHANGED <<locked, pc>>
     ELSE /\ locked' = [locked EXCEPT ![i] = p]
          /\ Go(p, IF valid[i] THEN "hold" ELSE "rw")
          /\ UNCHANGED asleep
  /\ UNCHANGED <<blockno, valid, refcnt, data, lru, pinned, driverVars, buf, medium>>

-----------------------------------------------------------------------------
(* What a process does with a locked buffer *)

Modify(p, v) ==
  /\ pc[p] = "hold"
  /\ data' = [data EXCEPT ![buf[p]] = v]
  /\ UNCHANGED <<blockno, valid, locked, refcnt, lru, pinned, driverVars, pc, buf, asleep, medium>>

Bwrite(p) ==
  /\ pc[p] = "hold"
  /\ Go(p, "rw")
  /\ UNCHANGED <<cacheVars, driverVars, buf, asleep, medium>>

\* The log pins a block once, when it logs it, and unpins it when it has installed it.
Bpin(p) ==
  LET i == buf[p] IN
  /\ pc[p] = "hold" /\ blockno[i] \notin pinned /\ Cardinality(pinned) < MaxPins
  /\ refcnt' = [refcnt EXCEPT ![i] = @ + 1]
  /\ pinned' = pinned \union {blockno[i]}
  /\ UNCHANGED <<blockno, valid, locked, data, lru, driverVars, pc, buf, asleep, medium>>

Bunpin(p) ==
  LET i == buf[p] IN
  /\ pc[p] = "hold" /\ blockno[i] \in pinned
  /\ refcnt' = [refcnt EXCEPT ![i] = @ - 1]
  /\ pinned' = pinned \ {blockno[i]}
  /\ UNCHANGED <<blockno, valid, locked, data, lru, driverVars, pc, buf, asleep, medium>>

\* brelse(): releasesleep(), and in a second critical section the reference count.
ReleaseSleep(p) ==
  /\ pc[p] = "hold"
  /\ locked' = [locked EXCEPT ![buf[p]] = Nobody]
  /\ asleep' = asleep \ Sleepers("lock", buf[p])
  /\ Go(p, "unref")
  /\ UNCHANGED <<blockno, valid, refcnt, data, lru, pinned, driverVars, buf, medium>>

MoveToFront(i) ==
  [n \in Buf |-> IF n = 1 THEN i
                 ELSE IF \E m \in 1 .. n - 1 : lru[m] = i THEN lru[n] ELSE lru[n - 1]]

KeptIfLocked(i) == IF locked[i] # Nobody THEN refcnt[i] ELSE refcnt[i] - 1
OneFewer(i)     == refcnt[i] - 1

Brelse(p) ==
  LET i == buf[p] IN
  /\ pc[p] = "unref"
  /\ refcnt' = [refcnt EXCEPT ![i] = OneFewer(i)]
  /\ lru' = IF OneFewer(i) = 0 THEN MoveToFront(i) ELSE lru
  /\ buf' = [buf EXCEPT ![p] = 0]
  /\ Go(p, "idle")
  /\ UNCHANGED <<blockno, valid, locked, data, pinned, driverVars, asleep, medium>>

-----------------------------------------------------------------------------
(* virtio_disk_rw() *)

OnceAwake(i)   == FALSE
StillOwned(i)  == ondisk[i]
WakesNobody    == asleep
WakesForDesc   == asleep \ AnySleepers("rw")   \* wakeup(&disk.free[0]) in free_desc()

Lowest3 == CHOOSE s \in kSubset(3, free) : \A d \in s, e \in free \ s : d < e

\* Three descriptors make a request: tell the device, and sleep on the buffer.
Submit(p) ==
  LET i == buf[p] IN
  /\ pc[p] = "rw" /\ p \notin asleep /\ handler = "idle"
  /\ Cardinality(free) >= 3
  /\ LET head == Min(Lowest3) IN
     /\ free'  = free \ Lowest3
     /\ chain' = [chain EXCEPT ![p] = Lowest3]
     /\ info'  = [info EXCEPT ![head] = [b |-> i, sector |-> blockno[i], write |-> valid[i]]]
     /\ avail' = avail \union {head}
  /\ ondisk' = [ondisk EXCEPT ![i] = TRUE]
  /\ asleep' = asleep \union {p}
  /\ Go(p, "wait")
  /\ UNCHANGED <<cacheVars, used, irq, handler, buf, medium>>

\* Fewer: alloc3_desc() gives back what it got, which wakes everybody else who
\* waits for descriptors, and the process sleeps.
TooFew(p) ==
  /\ pc[p] = "rw" /\ p \notin asleep /\ handler = "idle"
  /\ Cardinality(free) < 3
  /\ asleep' = (IF free = {} THEN asleep ELSE WakesForDesc) \union {p}
  /\ UNCHANGED <<cacheVars, driverVars, pc, buf, medium>>

FreeChain(p) ==
  /\ free'   = free \union chain[p]
  /\ chain'  = [chain EXCEPT ![p] = {}]
  /\ asleep' = WakesForDesc

\* Woken, perhaps by kill(): sleep again while the disk owns the buffer, else free
\* the chain.  bread() then marks the buffer valid.
Finish(p) ==
  LET i == buf[p] IN
  /\ pc[p] = "wait" /\ p \notin asleep /\ handler = "idle"
  /\ IF StillOwned(i)
     THEN asleep' = asleep \union {p} /\ UNCHANGED <<info, free, chain, valid, pc>>
     ELSE /\ info'   = [info EXCEPT ![Min(chain[p])] = None]
          /\ FreeChain(p)
          /\ valid'  = [valid EXCEPT ![i] = TRUE]
          /\ Go(p, "hold")
  /\ UNCHANGED <<blockno, locked, refcnt, data, lru, pinned, buf, ondisk, avail, used, irq, handler, medium>>

\* kill() makes a sleeping process runnable whatever it waits for.
KillWakes(p) ==
  /\ p \in asleep
  /\ asleep' = asleep \ {p}
  /\ UNCHANGED <<cacheVars, driverVars, pc, buf, medium>>

-----------------------------------------------------------------------------
(* virtio_disk_intr() and the device *)

IntrAck ==
  /\ irq /\ handler = "idle"
  /\ irq' = FALSE /\ handler' = "drain"
  /\ UNCHANGED <<cacheVars, free, info, chain, ondisk, avail, used, pc, buf, asleep, medium>>

WakesLockers(i) == asleep \ Sleepers("lock", i)
WakesReader(i)  == asleep \ Sleepers("wait", i)     \* wakeup(b)

IntrEntry ==
  LET i == info[Head(used)].b IN
  /\ handler = "drain" /\ used # <<>>
  /\ ondisk' = [ondisk EXCEPT ![i] = FALSE]
  /\ asleep' = WakesReader(i)
  /\ used'   = Tail(used)
  /\ UNCHANGED <<cacheVars, free, info, chain, avail, irq, handler, pc, buf, medium>>

IntrDoneAfterOne ==
  /\ handler = "drain"
  /\ handler' = "idle"
  /\ UNCHANGED <<cacheVars, free, info, chain, ondisk, avail, used, irq, pc, buf, asleep, medium>>
IntrDone ==
  /\ handler = "drain" /\ used = <<>>
  /\ handler' = "idle"
  /\ UNCHANGED <<cacheVars, free, info, chain, ondisk, avail, used, irq, pc, buf, asleep, medium>>

\* The device finishes any of the requests it was told of.
Device(head) ==
  LET r == info[head] IN
  /\ head \in avail
  /\ avail' = avail \ {head}
  /\ IF r.write
     THEN medium' = [medium EXCEPT ![r.sector] = data[r.b]] /\ UNCHANGED data
     ELSE data' = [data EXCEPT ![r.b] = medium[r.sector]] /\ UNCHANGED medium
  /\ used' = Append(used, head) /\ irq' = TRUE
  /\ UNCHANGED <<blockno, valid, locked, refcnt, lru, pinned, free, info, chain, ondisk, handler,
                 pc, buf, asleep>>

-----------------------------------------------------------------------------
Driver(p) == AcquireSleep(p) \/ Submit(p) \/ TooFew(p) \/ Finish(p)
Release(p) == ReleaseSleep(p) \/ Brelse(p)
Use(p) == \/ \E k \in Block : Bget(p, k)
          \/ \E v \in Value : Modify(p, v)
          \/ Bwrite(p) \/ Bpin(p) \/ Bunpin(p) \/ KillWakes(p)
Handler == IntrAck \/ IntrEntry \/ IntrDone

Next ==
  \/ \E p \in Proc : Driver(p) \/ Release(p) \/ Use(p)
  \/ Handler
  \/ \E head \in Desc : Device(head)

Spec == Init /\ [][Next]_vars

\* The device answers every request, its interrupt is taken, and a process whose
\* turn it is in the driver runs.
FairSpec ==
  /\ Spec
  /\ WF_vars(Handler)
  /\ \A head \in Desc : WF_vars(Device(head))
  /\ \A p \in Proc : WF_vars(Driver(p))

-----------------------------------------------------------------------------
TypeOK ==
  /\ blockno \in [Buf -> Block \union {NoBlock}] /\ valid \in [Buf -> BOOLEAN]
  /\ locked \in [Buf -> Proc \union {Nobody}] /\ refcnt \in [Buf -> 0 .. Cardinality(Proc) + 1]
  /\ data \in [Buf -> Value] /\ lru \in [Buf -> Buf] /\ pinned \subseteq Block
  /\ pc \in [Proc -> {"idle", "lock", "rw", "wait", "hold", "unref"}]
  /\ buf \in [Proc -> 0 .. NBUF] /\ asleep \subseteq Proc
  /\ free \subseteq Desc /\ chain \in [Proc -> SUBSET Desc]
  /\ info \in [Desc -> {None} \union [b : Buf, sector : Block, write : BOOLEAN]]
  /\ ondisk \in [Buf -> BOOLEAN] /\ avail \subseteq Desc /\ used \in Seq(Desc)
  /\ irq \in BOOLEAN /\ handler \in {"idle", "drain"} /\ medium \in [Block -> Value]

\* bget() panics with "no buffers" only when every buffer is pinned or in the hands
\* of a process: references are neither lost nor left behind by any interleaving of
\* lookups, recycling, pins and releases (bio.c: bget, brelse, bpin, bunpin).
PanicsOnlyWhenFull ==
  (\A i \in Buf : refcnt[i] > 0) =>
    Cardinality(pinned) + Cardinality({p \in Proc : buf[p] # 0}) >= NBUF

\* Each descriptor is free or in one chain, and a chain belongs to the driver until
\* the device and the interrupt handler are done with it: no chain is freed twice or
\* under the device (virtio_disk.c: alloc3_desc, free_chain, virtio_disk_intr).
DescriptorsOwned ==
  /\ \A d \in Desc : d \in free <=> \A p \in Proc : d \notin chain[p]
  /\ \A p, q \in Proc : p # q => chain[p] \intersect chain[q] = {}
  /\ \A d \in avail \union Range(used) : \E p \in Proc :
       pc[p] = "wait" /\ d = Min(chain[p]) /\ info[d].b = buf[p]

\* Nobody sleeps for what has already happened: a lock that is free, three free
\* descriptors, or a request whose completion no interrupt will report (sleeplock.c:
\* acquiresleep; virtio_disk.c: free_desc, virtio_disk_intr).
SleepersHaveAWaker ==
  \A p \in asleep :
    CASE pc[p] = "lock" -> locked[buf[p]] # Nobody
      [] pc[p] = "rw"   -> Cardinality(free) < 3
      [] pc[p] = "wait" -> /\ Min(chain[p]) \in avail \union Range(used)
                           /\ used # <<>> => irq \/ handler = "drain"

\* Every disk request is answered and its process goes on with the buffer
\* (virtio_disk.c: virtio_disk_rw, virtio_disk_intr).
RequestsFinish == \A p \in Proc : (pc[p] = "wait") ~> (pc[p] = "hold")

-----------------------------------------------------------------------------
Holds(p, k) == \/ pc[p] = "hold" /\ blockno[buf[p]] = k
               \/ pc[p] \in {"rw", "wait"} /\ blockno[buf[p]] = k /\ valid[buf[p]]

Copies == [k \in Block |-> IF \E i \in Buf : blockno[i] = k /\ valid[i]
                           THEN data[CHOOSE i \in Buf : blockno[i] = k /\ valid[i]]
                           ELSE medium[k]]
Users  == [k \in Block |-> IF \E p \in Proc : Holds(p, k)
                           THEN CHOOSE p \in Proc : Holds(p, k) ELSE Nobody]

Store == INSTANCE BlockStore WITH mem <- Copies, disk <- medium, user <- Users, pins <- pinned

\* Cache, locks, driver and device together keep one copy of each block with one
\* user, read what was last written, and lose nothing that is pinned (bio.c: bget,
\* bread, bwrite; virtio_disk.c: virtio_disk_rw, virtio_disk_intr).
ImplementsBlockStore == Store!StoreSpec
=============================================================================
