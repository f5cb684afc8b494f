----------------------------- MODULE AtomicDisk -----------------------------
(***************************************************************************)
(* What the log of kernel/log.c promises to the file system above it: the  *)
(* writes of a system call reach the disk all together or not at all, and  *)
(* only at a moment when no system call is in the middle of its writes.    *)
(***************************************************************************)
CONSTANTS Op, Block, Value, Blank

VARIABLES
  mem,      \* what the file system reads
  disk,     \* what survives a crash
  active    \* the system calls between begin_op() and end_op()

diskVars == <<mem, disk, active>>

DiskInit ==
  /\ disk = [b \in Block |-> Blank]
  /\ mem = disk
  /\ active = {}

Begin(o) == o \notin active /\ active' = active \union {o} /\ UNCHANGED <<mem, disk>>
End(o)   == o \in active /\ active' = active \ {o} /\ UNCHANGED <<mem, disk>>

Write(b, v) ==
  /\ active # {}
  /\ mem' = [mem EXCEPT ![b] = v]
  /\ UNCHANGED <<disk, active>>

Commit == active = {} /\ disk' = mem /\ UNCHANGED <<mem, active>>
Crash  == mem' = disk /\ active' = {} /\ UNCHANGED disk

DiskNext ==
  \/ \E o \in Op : Begin(o) \/ End(o)
  \/ \E b \in Block, v \in Value : Write(b, v)
  \/ Commit \/ Crash

DiskSpec == DiskInit /\ [][DiskNext]_diskVars
=============================================================================
