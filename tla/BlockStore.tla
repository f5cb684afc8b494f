----------------------------- MODULE BlockStore -----------------------------
(***************************************************************************)
(* What the buffer cache and the disk driver (kernel/bio.c, sleeplock.c,   *)
(* virtio_disk.c) promise to the log and the file system: one copy of each *)
(* block in memory, used by one process at a time; the disk changes only   *)
(* to what that copy holds, and only a block that nobody uses or pins may  *)
(* fall back to what the disk holds.  Module Log rests on this.            *)
(***************************************************************************)
CONSTANTS Proc, Block, Value, Blank, Nobody

VARIABLES
  mem,     \* what a process that locks the block's buffer sees
  disk,    \* what the disk holds
  user,    \* the process that bread() has given the buffer to, or Nobody
  pins     \* the blocks bpin() keeps in memory

storeVars == <<mem, disk, user, pins>>

StoreInit ==
  /\ disk = [k \in Block |-> Blank]
  /\ mem  = disk
  /\ user = [k \in Block |-> Nobody]
  /\ pins = {}

Take(p, k) == user[k] = Nobody /\ user' = [user EXCEPT ![k] = p] /\ UNCHANGED <<mem, disk, pins>>
Put(p, k)  == user[k] = p /\ user' = [user EXCEPT ![k] = Nobody] /\ UNCHANGED <<mem, disk, pins>>

Change(p, k, v) ==
  /\ user[k] = p
  /\ mem' = [mem EXCEPT ![k] = v]
  /\ UNCHANGED <<disk, user, pins>>

Flush(p, k) ==
  /\ user[k] = p
  /\ disk' = [disk EXCEPT ![k] = mem[k]]
  /\ UNCHANGED <<mem, user, pins>>

Pin(p, k) ==
  /\ user[k] = p
  /\ pins' \in {pins \union {k}, pins \ {k}}
  /\ UNCHANGED <<mem, disk, user>>

Drop(k) ==
  /\ user[k] = Nobody /\ k \notin pins
  /\ mem' = [mem EXCEPT ![k] = disk[k]]
  /\ UNCHANGED <<disk, user, pins>>

StoreNext ==
  \E k \in Block :
    \/ Drop(k)
    \/ \E p \in Proc : Take(p, k) \/ Put(p, k) \/ Flush(p, k) \/ Pin(p, k)
                       \/ \E v \in Value : Change(p, k, v)

StoreSpec == StoreInit /\ [][StoreNext]_storeVars
=============================================================================
