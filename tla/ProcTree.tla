------------------------------ MODULE ProcTree ------------------------------
(***************************************************************************)
(* What kernel/proc.c promises about the family of processes, in single    *)
(* steps: the slots in use form a tree below init, a process leaves no     *)
(* child behind, and only its parent of the moment frees it.  Proc         *)
(* implements it with locks and sleeping (module Proc, Tree).              *)
(***************************************************************************)
CONSTANTS Slot, root, None

VARIABLES
  life,    \* "free", "live" or "zombie"
  par      \* the parent

treeVars == <<life, par>>

TreeInit ==
  /\ life = [p \in Slot |-> IF p = root THEN "live" ELSE "free"]
  /\ par  = [p \in Slot |-> None]

\* fork() in p creates q.
Fork(p, q) ==
  /\ life[p] = "live" /\ life[q] = "free"
  /\ life' = [life EXCEPT ![q] = "live"]
  /\ par'  = [par EXCEPT ![q] = p]

\* The parent of q is about to exit and passes q to init.
Adopt(q) ==
  /\ par[q] # None /\ par[q] # root
  /\ par' = [par EXCEPT ![q] = root]
  /\ UNCHANGED life

\* exit() in p: all its children have been passed on.
Exit(p) ==
  /\ p # root /\ life[p] = "live"
  /\ \A q \in Slot : par[q] # p
  /\ life' = [life EXCEPT ![p] = "zombie"]
  /\ UNCHANGED par

\* wait() in p reaps its child q.
Reap(p, q) ==
  /\ life[p] = "live" /\ par[q] = p /\ life[q] = "zombie"
  /\ life' = [life EXCEPT ![q] = "free"]
  /\ par'  = [par EXCEPT ![q] = None]

TreeNext ==
  \/ \E p, q \in Slot : Fork(p, q) \/ Reap(p, q)
  \/ \E p \in Slot : Adopt(p) \/ Exit(p)

TreeSpec == TreeInit /\ [][TreeNext]_treeVars
=============================================================================
