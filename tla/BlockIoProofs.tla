--------------------------- MODULE BlockIoProofs ----------------------------
(***************************************************************************)
(* The buffer cache, its locks and the disk driver keep references,        *)
(* descriptors and sleepers straight and give every block one copy and one *)
(* user, for any number of processes, buffers and descriptors.             *)
(***************************************************************************)
EXTENDS BlockIo, FiniteSetTheorems, SequenceTheorems, WellFoundedInduction, TLAPS

Locking == {"rw", "wait", "hold"}     \* where a process holds its buffer's sleep lock
Waiting(p) == pc[p] = "wait"
Head0(p)   == Min(chain[p])           \* the head of its chain
Rings      == avail \union Range(used)

\* References: the processes that use a buffer, and the log.
Uses(i)   == {p \in Proc : buf[p] = i}
PinRef(i) == IF blockno[i] \in pinned THEN 1 ELSE 0
References ==
  /\ \A i \in Buf : refcnt[i] = Cardinality(Uses(i)) + PinRef(i)
  /\ \A i, j \in Buf : blockno[i] = blockno[j] /\ blockno[i] # NoBlock => i = j
  /\ \A k \in pinned : \E i \in Buf : blockno[i] = k
  /\ IsFiniteSet(pinned)

\* Where a process is settles what it has.
Calls ==
  /\ \A p \in Proc : buf[p] = 0 <=> pc[p] = "idle"
  /\ \A p \in Proc : buf[p] # 0 => blockno[buf[p]] # NoBlock
  /\ \A p \in Proc, i \in Buf : locked[i] = p <=> buf[p] = i /\ pc[p] \in Locking
  /\ \A p \in asleep : pc[p] \in {"lock", "rw", "wait"}
  /\ \A p \in Proc : pc[p] = "hold" => valid[buf[p]]

\* A process waits for its request with a chain that says what it asked for.
Chains ==
  /\ \A p \in Proc : Waiting(p) <=> chain[p] # {}
  /\ \A p \in Proc : Waiting(p) =>
       info[Head0(p)] = [b |-> buf[p], sector |-> blockno[buf[p]], write |-> valid[buf[p]]]
  /\ \A d \in Desc : d \in free <=> \A p \in Proc : d \notin chain[p]
  /\ \A p, q \in Proc : p # q => chain[p] \intersect chain[q] = {}

\* The rings hold the requests whose buffers the disk owns, each once.
Requests ==
  /\ \A d \in Rings : \E p \in Proc : Waiting(p) /\ d = Head0(p)
  /\ \A p \in Proc : Waiting(p) => (ondisk[buf[p]] <=> Head0(p) \in Rings)
  /\ avail \intersect Range(used) = {}
  /\ \A m, n \in DOMAIN used : used[m] = used[n] => m = n

\* A read that the device has done is in the buffer.
ReadsDone ==
  \A p \in Proc :
    Waiting(p) /\ ~valid[buf[p]] /\ Head0(p) \notin avail => data[buf[p]] = medium[blockno[buf[p]]]

Reported == used # <<>> => irq \/ handler = "drain"

\* A sleeper's reason to sleep stands.
Waited ==
  \A p \in asleep : /\ pc[p] = "lock" => locked[buf[p]] # Nobody
                    /\ pc[p] = "rw" => Cardinality(free) < 3
                    /\ Waiting(p) => Head0(p) \in Rings

BlockIoInv ==
  TypeOK /\ References /\ Calls /\ Chains /\ Requests /\ ReadsDone /\ Reported /\ Waited

-----------------------------------------------------------------------------
(* Least elements and counts *)

\* Every set of numbers has a least one.
LEMMA LeastExists ==
  ASSUME NEW S \in SUBSET Nat, S # {}
  PROVE  \E x \in S : \A y \in S : x <= y
<1>1. PICK x \in S : \A y \in S : ~(<<y, x>> \in OpToRel(<, Nat))
  BY NatLessThanWellFounded, WFMin
<1>2. ASSUME NEW y \in S PROVE x <= y
  <2>1. x \in Nat /\ y \in Nat
    OBVIOUS
  <2>2. ~(y < x)
    BY <1>1, <2>1 DEF OpToRel
  <2> QED
    BY <2>1, <2>2
<1> QED
  BY <1>2

\* Min() of a set of descriptors is the least of them.
LEMMA MinFacts ==
  ASSUME NEW S \in SUBSET Desc, S # {}
  PROVE  Min(S) \in S /\ Min(S) \in Desc /\ \A y \in S : Min(S) <= y
<1>1. S \in SUBSET Nat
  BY BlockIoAssumption DEF Desc
<1>2. \E x \in S : \A y \in S : x <= y
  BY <1>1, LeastExists
<1> QED
  BY <1>2 DEF Min

\* Three free descriptors can be had lowest first.
LEMMA Lowest3Facts ==
  ASSUME free \in SUBSET Desc, Cardinality(free) >= 3
  PROVE  /\ Lowest3 \subseteq free /\ Cardinality(Lowest3) = 3
         /\ Lowest3 # {} /\ Min(Lowest3) \in Lowest3
<1>1. IsFiniteSet(free) /\ Cardinality(free) \in Nat
  <2>1. IsFiniteSet(Desc)
    BY BlockIoAssumption, FS_Interval DEF Desc
  <2> QED
    BY <2>1, FS_Subset, FS_CardinalityType
<1>2. ASSUME NEW S \in SUBSET free, Cardinality(S) >= 1, IsFiniteSet(S)
      PROVE  /\ Min(S) \in S /\ \A y \in S : Min(S) <= y
             /\ IsFiniteSet(S \ {Min(S)}) /\ Cardinality(S \ {Min(S)}) = Cardinality(S) - 1
  <2>1. S # {} /\ S \in SUBSET Desc
    BY <1>2, FS_EmptySet
  <2>2. Min(S) \in S /\ \A y \in S : Min(S) <= y
    BY <2>1, MinFacts
  <2> QED
    BY <1>2, <2>2, FS_RemoveElement
<1> DEFINE a == Min(free)
           f1 == free \ {a}
           b == Min(f1)
           f2 == f1 \ {b}
           c == Min(f2)
           s == {a, b, c}
<1>3. /\ a \in free /\ \A y \in free : a <= y
      /\ IsFiniteSet(f1) /\ Cardinality(f1) = Cardinality(free) - 1
  BY <1>1, <1>2
<1> HIDE DEF a
<1>4. /\ b \in f1 /\ \A y \in f1 : b <= y
      /\ IsFiniteSet(f2) /\ Cardinality(f2) = Cardinality(f1) - 1
  <2>1. f1 \in SUBSET free /\ Cardinality(f1) >= 1
    BY <1>1, <1>3
  <2> HIDE DEF f1
  <2> QED
    BY <1>2, <1>3, <2>1
<1> HIDE DEF b
<1>5. c \in f2 /\ \A y \in f2 : c <= y
  <2>1. f2 \in SUBSET free /\ Cardinality(f2) >= 1
    BY <1>1, <1>3, <1>4
  <2> HIDE DEF f2
  <2> QED
    BY <1>2, <1>4, <2>1
<1> HIDE DEF c
<1>6. /\ a # b /\ a # c /\ b # c /\ s \subseteq free
      /\ a \in Nat /\ b \in Nat /\ c \in Nat
  BY <1>3, <1>4, <1>5, BlockIoAssumption DEF Desc
<1>7. Cardinality(s) = 3
  <2>1. IsFiniteSet({a}) /\ Cardinality({a}) = 1
    BY FS_Singleton
  <2>2. IsFiniteSet({a} \union {b}) /\ Cardinality({a} \union {b}) = 2
    BY <1>6, <2>1, FS_AddElement
  <2>3. Cardinality(({a} \union {b}) \union {c}) = 3
    <3> DEFINE ab == {a} \union {b}
    <3>1. c \notin ab /\ IsFiniteSet(ab) /\ Cardinality(ab) = 2
      BY <1>6, <2>2
    <3> HIDE DEF ab
    <3>2. Cardinality(ab \union {c}) = 2 + 1
      BY <3>1, FS_AddElement
    <3> QED
      BY <3>2 DEF ab
  <2>4. s = ({a} \union {b}) \union {c}
    OBVIOUS
  <2> QED
    BY <2>3, <2>4
<1>8. \A d \in s, e \in free \ s : d < e
  <2> SUFFICES ASSUME NEW d \in s, NEW e \in free \ s PROVE d < e
    OBVIOUS
  <2>1. e \in Nat /\ e \in f1 /\ e \in f2 /\ e # a /\ e # b /\ e # c
    BY BlockIoAssumption DEF Desc
  <2>2. a <= e /\ b <= e /\ c <= e
    BY <1>3, <1>4, <1>5, <2>1
  <2> QED
    BY <1>6, <2>1, <2>2
<1>9. s \in kSubset(3, free)
  BY <1>6, <1>7 DEF kSubset
<1>10. Lowest3 \in kSubset(3, free)
  <2> HIDE DEF s
  <2> QED
    BY <1>8, <1>9 DEF Lowest3
<1>11. Lowest3 \subseteq free /\ Cardinality(Lowest3) = 3
  BY <1>10 DEF kSubset
<1>12. Lowest3 # {} /\ Lowest3 \in SUBSET Desc
  BY <1>11, FS_EmptySet
<1> QED
  BY <1>11, <1>12, MinFacts

\* The users of a buffer can be counted.
LEMMA UsesFinite ==
  ASSUME NEW i
  PROVE  /\ IsFiniteSet(Uses(i)) /\ Cardinality(Uses(i)) \in Nat
         /\ Cardinality(Uses(i)) <= Cardinality(Proc)
<1>1. Uses(i) \subseteq Proc
  BY DEF Uses
<1> QED
  BY <1>1, BlockIoAssumption, FS_Subset, FS_CardinalityType

\* A reference count is that of its users and of the log.
LEMMA CountFacts ==
  ASSUME References, NEW i \in Buf
  PROVE  /\ refcnt[i] = Cardinality(Uses(i)) + PinRef(i)
         /\ refcnt[i] \in Nat /\ PinRef(i) \in {0, 1}
         /\ refcnt[i] = 0 => Uses(i) = {} /\ blockno[i] \notin pinned
<1>1. refcnt[i] = Cardinality(Uses(i)) + PinRef(i) /\ PinRef(i) \in {0, 1}
  BY DEF References, PinRef
<1>2. Cardinality(Uses(i)) \in Nat /\ IsFiniteSet(Uses(i))
  BY UsesFinite
<1>3. refcnt[i] = 0 => Cardinality(Uses(i)) = 0 /\ PinRef(i) = 0
  BY <1>1, <1>2
<1>4. Cardinality(Uses(i)) = 0 => Uses(i) = {}
  BY <1>2, FS_EmptySet
<1> QED
  BY <1>1, <1>2, <1>3, <1>4 DEF PinRef

\* A process takes a buffer.
LEMMA UsesTake ==
  ASSUME TypeOK, Calls, NEW p \in Proc, NEW i \in Buf, pc[p] = "idle",
         buf' = [buf EXCEPT ![p] = i]
  PROVE  /\ Uses(i)' = Uses(i) \union {p} /\ p \notin Uses(i)
         /\ Cardinality(Uses(i)') = Cardinality(Uses(i)) + 1
         /\ \A j \in Buf : j # i => Uses(j)' = Uses(j)
<1>1. buf[p] = 0 /\ 0 \notin Buf
  BY BlockIoAssumption DEF Calls, Buf
<1>2. Uses(i)' = Uses(i) \union {p} /\ p \notin Uses(i)
  BY <1>1 DEF Uses, TypeOK
<1>3. \A j \in Buf : j # i => Uses(j)' = Uses(j)
  BY <1>1 DEF Uses, TypeOK
<1> QED
  BY <1>2, <1>3, UsesFinite, FS_AddElement

\* A process gives its buffer back.
LEMMA UsesGive ==
  ASSUME TypeOK, NEW p \in Proc, NEW i \in Buf, buf[p] = i, buf' = [buf EXCEPT ![p] = 0]
  PROVE  /\ Cardinality(Uses(i)) > 0
         /\ Cardinality(Uses(i)') = Cardinality(Uses(i)) - 1
         /\ \A j \in Buf : j # i => Uses(j)' = Uses(j)
<1>1. 0 \notin Buf
  BY BlockIoAssumption DEF Buf
<1>2. Uses(i)' = Uses(i) \ {p} /\ p \in Uses(i)
  BY <1>1 DEF Uses, TypeOK
<1>3. \A j \in Buf : j # i => Uses(j)' = Uses(j)
  BY <1>1 DEF Uses, TypeOK
<1>4. Cardinality(Uses(i) \ {p}) = Cardinality(Uses(i)) - 1
  BY <1>2, UsesFinite, FS_RemoveElement
<1>5. Cardinality(Uses(i)) > 0
  BY <1>2, UsesFinite, FS_EmptySet
<1> QED
  BY <1>2, <1>3, <1>4, <1>5

-----------------------------------------------------------------------------
(* References *)

\* A step that leaves labels, users and pins alone leaves the references alone.
LEMMA ReferencesKept ==
  ASSUME References, UNCHANGED <<blockno, refcnt, buf, pinned>>
  PROVE  References'
  BY DEF References, Uses, PinRef

\* The process that holds a buffer, and the block it holds.
LEMMA HeldBuffer ==
  ASSUME TypeOK, Calls, NEW p \in Proc, pc[p] # "idle"
  PROVE  buf[p] \in Buf /\ blockno[buf[p]] \in Block
<1>1. buf[p] \in Buf
  BY BlockIoAssumption DEF TypeOK, Calls, Buf
<1> QED
  BY <1>1 DEF TypeOK, Calls, Buf

\* bget() counts the process it hands a buffer to.
LEMMA ReferencesAtBget ==
  ASSUME TypeOK, Calls, References, NEW p \in Proc, NEW k \in Block, Bget(p, k)
  PROVE  References'
<1>1. pc[p] = "idle" /\ pinned' = pinned
  BY DEF Bget
<1>2. ASSUME BgetCached(p, k) PROVE References'
  <2>1. PICK i \in Buf : /\ blockno[i] = k /\ blockno' = blockno
                         /\ refcnt' = [refcnt EXCEPT ![i] = @ + 1]
                         /\ buf' = [buf EXCEPT ![p] = i]
    BY <1>2 DEF BgetCached
  <2>2. /\ Cardinality(Uses(i)') = Cardinality(Uses(i)) + 1
        /\ \A j \in Buf : j # i => Uses(j)' = Uses(j)
    BY <1>1, <2>1, UsesTake
  <2>3. \A j \in Buf : PinRef(j)' = PinRef(j)
    BY <1>1, <2>1 DEF PinRef
  <2>4. \A j \in Buf : refcnt'[j] = Cardinality(Uses(j)') + PinRef(j)'
    <3>1. refcnt'[i] = refcnt[i] + 1
      BY <2>1 DEF TypeOK
    <3>2. \A j \in Buf : j # i => refcnt'[j] = refcnt[j]
      BY <2>1 DEF TypeOK
    <3>3. Cardinality(Uses(i)) \in Nat
      BY UsesFinite
    <3> QED
      BY <2>2, <2>3, <3>1, <3>2, <3>3, CountFacts
  <2> QED
    BY <1>1, <2>1, <2>4 DEF References
<1>3. ASSUME BgetRecycle(p, k) PROVE References'
  <2>1. PICK i \in Buf : /\ \A j \in Buf : blockno[j] # k
                         /\ refcnt[i] = 0
                         /\ blockno' = [blockno EXCEPT ![i] = k]
                         /\ refcnt' = [refcnt EXCEPT ![i] = 1]
                         /\ buf' = [buf EXCEPT ![p] = i]
    BY <1>3 DEF BgetRecycle, LeastRecent
  <2>2. Uses(i) = {} /\ blockno[i] \notin pinned
    BY <2>1, CountFacts
  <2>3. /\ Cardinality(Uses(i)') = Cardinality(Uses(i)) + 1
        /\ \A j \in Buf : j # i => Uses(j)' = Uses(j)
    BY <1>1, <2>1, UsesTake
  <2>4. Cardinality(Uses(i)') = 1
    BY <2>2, <2>3, FS_EmptySet
  <2>5. k \notin pinned
    BY <2>1 DEF References
  <2>6. PinRef(i)' = 0 /\ \A j \in Buf : j # i => PinRef(j)' = PinRef(j)
    BY <1>1, <2>1, <2>5 DEF PinRef, TypeOK
  <2>7. \A j \in Buf : refcnt'[j] = Cardinality(Uses(j)') + PinRef(j)'
    <3>1. refcnt'[i] = 1 /\ \A j \in Buf : j # i => refcnt'[j] = refcnt[j]
      BY <2>1 DEF TypeOK
    <3> QED
      BY <2>3, <2>4, <2>6, <3>1, CountFacts
  <2>8. \A j, l \in Buf : blockno'[j] = blockno'[l] /\ blockno'[j] # NoBlock => j = l
    BY <2>1 DEF References, TypeOK
  <2>9. \A q \in pinned : \E j \in Buf : blockno'[j] = q
    BY <2>1, <2>2 DEF References, TypeOK
  <2> QED
    BY <1>1, <2>7, <2>8, <2>9 DEF References
<1> QED
  BY <1>2, <1>3 DEF Bget

\* bpin() and bunpin() count the log.
LEMMA ReferencesAtPin ==
  ASSUME TypeOK, Calls, References, NEW p \in Proc, Bpin(p) \/ Bunpin(p)
  PROVE  References'
<1> DEFINE i == buf[p]
<1>1. i \in Buf /\ blockno[i] \in Block /\ blockno[i] # NoBlock
  BY HeldBuffer, BlockIoAssumption DEF Bpin, Bunpin
<1>2. /\ buf' = buf /\ blockno' = blockno /\ \A j \in Buf : Uses(j)' = Uses(j)
      /\ \/ /\ blockno[i] \notin pinned /\ pinned' = pinned \union {blockno[i]}
            /\ refcnt' = [refcnt EXCEPT ![i] = @ + 1]
         \/ /\ blockno[i] \in pinned /\ pinned' = pinned \ {blockno[i]}
            /\ refcnt' = [refcnt EXCEPT ![i] = @ - 1]
  BY DEF Bpin, Bunpin, Uses
<1> HIDE DEF i
<1>3. \A j \in Buf : j # i => PinRef(j)' = PinRef(j) /\ refcnt'[j] = refcnt[j]
  <2>1. \A j \in Buf : j # i => blockno[j] # blockno[i]
    BY <1>1 DEF References
  <2> QED
    BY <1>2, <2>1 DEF PinRef, TypeOK
<1>4. \/ refcnt'[i] = refcnt[i] + 1 /\ PinRef(i) = 0 /\ blockno[i] \in pinned'
      \/ refcnt'[i] = refcnt[i] - 1 /\ PinRef(i) = 1 /\ blockno[i] \notin pinned'
  BY <1>1, <1>2 DEF PinRef, TypeOK
<1>5. \A j \in Buf : refcnt'[j] = Cardinality(Uses(j)) + (IF blockno[j] \in pinned' THEN 1 ELSE 0)
  <2>1. Cardinality(Uses(i)) \in Nat
    BY UsesFinite
  <2>2. refcnt[i] = Cardinality(Uses(i)) + PinRef(i)
    BY <1>1, CountFacts
  <2>3. refcnt'[i] = Cardinality(Uses(i)) + (IF blockno[i] \in pinned' THEN 1 ELSE 0)
    BY <1>4, <2>1, <2>2
  <2>4. ASSUME NEW j \in Buf, j # i
        PROVE  refcnt'[j] = Cardinality(Uses(j)) + (IF blockno[j] \in pinned' THEN 1 ELSE 0)
    <3>1. PinRef(j)' = IF blockno[j] \in pinned' THEN 1 ELSE 0
      BY <1>2 DEF PinRef
    <3> QED
      BY <1>3, <2>4, <3>1, CountFacts
  <2> QED
    BY <2>3, <2>4
<1>6. IsFiniteSet(pinned')
  BY <1>2, FS_AddElement, FS_RemoveElement DEF References
<1>7. \A q \in pinned' : \E j \in Buf : blockno[j] = q
  BY <1>1, <1>2 DEF References
<1>8. \A j \in Buf : PinRef(j)' = IF blockno[j] \in pinned' THEN 1 ELSE 0
  BY <1>2 DEF PinRef
<1> QED
  BY <1>2, <1>5, <1>6, <1>7, <1>8 DEF References

\* brelse() counts the process that leaves.
LEMMA ReferencesAtBrelse ==
  ASSUME TypeOK, Calls, References, NEW p \in Proc, Brelse(p)
  PROVE  References'
<1>1. PICK i \in Buf : buf[p] = i
  BY HeldBuffer DEF Brelse
<1>2. /\ blockno' = blockno /\ pinned' = pinned /\ buf' = [buf EXCEPT ![p] = 0]
      /\ refcnt' = [refcnt EXCEPT ![i] = refcnt[i] - 1]
  BY <1>1 DEF Brelse, OneFewer
<1>3. /\ Cardinality(Uses(i)') = Cardinality(Uses(i)) - 1
      /\ \A j \in Buf : j # i => Uses(j)' = Uses(j)
  BY <1>1, <1>2, UsesGive
<1>4. \A j \in Buf : PinRef(j)' = PinRef(j)
  BY <1>2 DEF PinRef
<1>5. \A j \in Buf : refcnt'[j] = Cardinality(Uses(j)') + PinRef(j)'
  <2>1. refcnt'[i] = refcnt[i] - 1 /\ \A j \in Buf : j # i => refcnt'[j] = refcnt[j]
    BY <1>2 DEF TypeOK
  <2>2. Cardinality(Uses(i)) \in Nat
    BY UsesFinite
  <2> QED
    BY <1>3, <1>4, <2>1, <2>2, CountFacts
<1> QED
  BY <1>2, <1>5 DEF References

\* Every step keeps the count of references.
LEMMA ReferencesStep ==
  ASSUME TypeOK, Calls, References, [Next]_vars
  PROVE  References'
<1> USE DEF cacheVars, driverVars
<1>1. CASE UNCHANGED vars
  BY <1>1, ReferencesKept DEF vars
<1>2. ASSUME NEW p \in Proc, AcquireSleep(p) PROVE References'
  BY <1>2, ReferencesKept DEF AcquireSleep, Go
<1>3. ASSUME NEW p \in Proc, Submit(p) PROVE References'
  BY <1>3, ReferencesKept DEF Submit, Go
<1>4. ASSUME NEW p \in Proc, TooFew(p) PROVE References'
  BY <1>4, ReferencesKept DEF TooFew, WakesForDesc
<1>5. ASSUME NEW p \in Proc, Finish(p) PROVE References'
  BY <1>5, ReferencesKept DEF Finish, Go, FreeChain, WakesForDesc, StillOwned
<1>6. ASSUME NEW p \in Proc, ReleaseSleep(p) PROVE References'
  BY <1>6, ReferencesKept DEF ReleaseSleep, Go
<1>7. ASSUME NEW p \in Proc, Brelse(p) PROVE References'
  BY <1>7, ReferencesAtBrelse
<1>8. ASSUME NEW p \in Proc, NEW k \in Block, Bget(p, k) PROVE References'
  BY <1>8, ReferencesAtBget
<1>9. ASSUME NEW p \in Proc, NEW v \in Value, Modify(p, v) PROVE References'
  BY <1>9, ReferencesKept DEF Modify
<1>10. ASSUME NEW p \in Proc, Bwrite(p) PROVE References'
  BY <1>10, ReferencesKept DEF Bwrite, Go
<1>11. ASSUME NEW p \in Proc, Bpin(p) PROVE References'
  BY <1>11, ReferencesAtPin
<1>12. ASSUME NEW p \in Proc, Bunpin(p) PROVE References'
  BY <1>12, ReferencesAtPin
<1>13. ASSUME NEW p \in Proc, KillWakes(p) PROVE References'
  BY <1>13, ReferencesKept DEF KillWakes
<1>14. ASSUME IntrAck PROVE References'
  BY <1>14, ReferencesKept DEF IntrAck
<1>15. ASSUME IntrEntry PROVE References'
  BY <1>15, ReferencesKept DEF IntrEntry, WakesReader
<1>16. ASSUME IntrDone PROVE References'
  BY <1>16, ReferencesKept DEF IntrDone
<1>17. ASSUME NEW d \in Desc, Device(d) PROVE References'
  BY <1>17, ReferencesKept DEF Device
<1> QED
  BY <1>1, <1>2, <1>3, <1>4, <1>5, <1>6, <1>7, <1>8, <1>9, <1>10, <1>11, <1>12, <1>13,
     <1>14, <1>15, <1>16, <1>17 DEF Next, Driver, Release, Use, Handler

-----------------------------------------------------------------------------
(* Types *)

\* A request in the rings is that of a process that waits for it.
LEMMA RequestOf ==
  ASSUME TypeOK, Calls, Chains, Requests, NEW d \in Rings
  PROVE  \E p \in Proc :
           /\ Waiting(p) /\ d = Head0(p) /\ buf[p] \in Buf /\ blockno[buf[p]] \in Block
           /\ info[d] = [b |-> buf[p], sector |-> blockno[buf[p]], write |-> valid[buf[p]]]
<1>1. PICK p \in Proc : Waiting(p) /\ d = Head0(p)
  BY DEF Requests
<1>2. buf[p] \in Buf /\ blockno[buf[p]] \in Block
  BY <1>1, HeldBuffer DEF Waiting
<1> QED
  BY <1>1, <1>2 DEF Chains

\* Reference counts within the count of processes and the log.
LEMMA RefcntType ==
  ASSUME References', DOMAIN refcnt' = Buf, refcnt' = [i \in Buf |-> refcnt'[i]]
  PROVE  refcnt' \in [Buf -> 0 .. Cardinality(Proc) + 1]
<1>1. Cardinality(Proc) \in Nat
  BY BlockIoAssumption, FS_CardinalityType
<1>2. ASSUME NEW i \in Buf PROVE refcnt'[i] \in 0 .. Cardinality(Proc) + 1
  <2> DEFINE s == {q \in Proc : buf'[q] = i}
  <2>1. refcnt'[i] = Cardinality(s) + (IF blockno'[i] \in pinned' THEN 1 ELSE 0)
    BY DEF References, Uses, PinRef
  <2>2. s \subseteq Proc
    OBVIOUS
  <2> HIDE DEF s
  <2>3. Cardinality(s) \in Nat /\ Cardinality(s) <= Cardinality(Proc)
    BY <2>2, BlockIoAssumption, FS_Subset, FS_CardinalityType
  <2> QED
    BY <1>1, <2>1, <2>3
<1> QED
  BY <1>2

\* The ring of finished requests as a set.
LEMMA UsedFacts ==
  ASSUME used \in Seq(Desc)
  PROVE  /\ Range(used) \subseteq Desc
         /\ \A d \in Desc : /\ Append(used, d) \in Seq(Desc)
                            /\ Range(Append(used, d)) = Range(used) \union {d}
                            /\ Append(used, d) # <<>>
         /\ used # <<>> =>
              /\ Head(used) \in Range(used) /\ Head(used) \in Desc /\ Tail(used) \in Seq(Desc)
              /\ Len(used) >= 1 /\ DOMAIN Tail(used) = 1 .. Len(used) - 1
              /\ \A n \in DOMAIN Tail(used) : Tail(used)[n] = used[n + 1]
              /\ DOMAIN used = 1 .. Len(used) /\ Head(used) = used[1] /\ Len(used) \in Nat
<1>1. Range(used) \subseteq Desc
  BY DEF Range
<1>2. ASSUME NEW d \in Desc
      PROVE  /\ Append(used, d) \in Seq(Desc)
             /\ Range(Append(used, d)) = Range(used) \union {d}
             /\ Append(used, d) # <<>>
  <2>1. /\ Append(used, d) \in Seq(Desc) /\ Append(used, d) # <<>>
        /\ Len(Append(used, d)) = Len(used) + 1
        /\ \A n \in 1 .. Len(used) : Append(used, d)[n] = used[n]
        /\ Append(used, d)[Len(used) + 1] = d
    BY AppendProperties
  <2>2. /\ DOMAIN Append(used, d) = 1 .. Len(used) + 1 /\ DOMAIN used = 1 .. Len(used)
        /\ Len(used) \in Nat
    BY <2>1
  <2> QED
    BY <2>1, <2>2 DEF Range
<1>3. ASSUME used # <<>>
      PROVE  /\ Head(used) \in Range(used) /\ Head(used) \in Desc /\ Tail(used) \in Seq(Desc)
             /\ Len(used) >= 1 /\ DOMAIN Tail(used) = 1 .. Len(used) - 1
             /\ \A n \in DOMAIN Tail(used) : Tail(used)[n] = used[n + 1]
             /\ DOMAIN used = 1 .. Len(used) /\ Head(used) = used[1] /\ Len(used) \in Nat
  <2>1. /\ Head(used) \in Desc /\ Tail(used) \in Seq(Desc) /\ Len(Tail(used)) = Len(used) - 1
        /\ \A n \in 1 .. Len(Tail(used)) : Tail(used)[n] = used[n + 1]
    BY <1>3, HeadTailProperties
  <2>2. /\ DOMAIN used = 1 .. Len(used) /\ Head(used) = used[1] /\ Len(used) \in Nat
        /\ Len(used) >= 1
    BY <1>3, EmptySeq
  <2>3. DOMAIN Tail(used) = 1 .. Len(used) - 1
    BY <2>1
  <2> QED
    BY <2>1, <2>2, <2>3 DEF Range
<1> QED
  BY <1>1, <1>2, <1>3


\* Every step keeps the types, reference counts with the rest.
LEMMA TypesStep ==
  ASSUME TypeOK, Calls, Chains, Requests, References', [Next]_vars
  PROVE  TypeOK'
<1> USE DEF TypeOK, cacheVars, driverVars
<1>1. CASE UNCHANGED vars
  BY <1>1 DEF vars
<1>2. ASSUME NEW p \in Proc, AcquireSleep(p) PROVE TypeOK'
  <2>1. locked' \in [Buf -> Proc \union {Nobody}] /\ asleep' \subseteq Proc
    BY <1>2 DEF AcquireSleep
  <2>2. pc' \in [Proc -> {"idle", "lock", "rw", "wait", "hold", "unref"}]
    BY <1>2 DEF AcquireSleep, Go
  <2> QED
    BY <1>2, <2>1, <2>2 DEF AcquireSleep
<1>3. ASSUME NEW p \in Proc, Submit(p) PROVE TypeOK'
  <2>1. Lowest3 \subseteq free /\ Min(Lowest3) \in Lowest3
    BY <1>3, Lowest3Facts DEF Submit
  <2>2. buf[p] \in Buf /\ blockno[buf[p]] \in Block
    BY <1>3, HeldBuffer DEF Submit
  <2>3. /\ free' \subseteq Desc /\ chain' \in [Proc -> SUBSET Desc] /\ avail' \subseteq Desc
        /\ asleep' \subseteq Proc
    BY <1>3, <2>1 DEF Submit
  <2>4. [b |-> buf[p], sector |-> blockno[buf[p]], write |-> valid[buf[p]]]
          \in [b : Buf, sector : Block, write : BOOLEAN]
    BY <2>2
  <2>5. info' \in [Desc -> {None} \union [b : Buf, sector : Block, write : BOOLEAN]]
    BY <1>3, <2>1, <2>4 DEF Submit
  <2>6. ondisk' \in [Buf -> BOOLEAN]
    BY <1>3 DEF Submit
  <2> QED
    BY <1>3, <2>3, <2>5, <2>6 DEF Submit, Go
<1>4. ASSUME NEW p \in Proc, TooFew(p) PROVE TypeOK'
  BY <1>4 DEF TooFew, WakesForDesc
<1>5. ASSUME NEW p \in Proc, Finish(p) PROVE TypeOK'
  <2>1. free' \subseteq Desc /\ chain' \in [Proc -> SUBSET Desc] /\ asleep' \subseteq Proc
    BY <1>5 DEF Finish, FreeChain, WakesForDesc
  <2>2. info' \in [Desc -> {None} \union [b : Buf, sector : Block, write : BOOLEAN]]
    BY <1>5 DEF Finish
  <2>3. valid' \in [Buf -> BOOLEAN]
    BY <1>5 DEF Finish
  <2> QED
    BY <1>5, <2>1, <2>2, <2>3 DEF Finish, Go
<1>6. ASSUME NEW p \in Proc, ReleaseSleep(p) PROVE TypeOK'
  BY <1>6 DEF ReleaseSleep, Go
<1>7. ASSUME NEW p \in Proc, Brelse(p) PROVE TypeOK'
  <2>1. refcnt' \in [Buf -> 0 .. Cardinality(Proc) + 1]
    BY <1>7, RefcntType DEF Brelse
  <2>2. buf' \in [Proc -> 0 .. NBUF]
    BY <1>7, BlockIoAssumption DEF Brelse
  <2>3. buf[p] \in Buf
    BY <1>7, HeldBuffer DEF Brelse
  <2>4. lru' \in [Buf -> Buf]
    <3>1. \A n \in Buf : n # 1 => n - 1 \in Buf
      BY BlockIoAssumption DEF Buf
    <3>2. MoveToFront(buf[p]) \in [Buf -> Buf]
      BY <2>3, <3>1 DEF MoveToFront
    <3> QED
      BY <1>7, <3>2 DEF Brelse
  <2> QED
    BY <1>7, <2>1, <2>2, <2>4 DEF Brelse, Go
<1>8. ASSUME NEW p \in Proc, NEW k \in Block, Bget(p, k) PROVE TypeOK'
  <2>1. PICK i \in Buf : /\ buf' = [buf EXCEPT ![p] = i]
                         /\ \/ /\ refcnt' = [refcnt EXCEPT ![i] = @ + 1]
                               /\ blockno' = blockno /\ valid' = valid
                            \/ /\ refcnt' = [refcnt EXCEPT ![i] = 1]
                               /\ blockno' = [blockno EXCEPT ![i] = k]
                               /\ valid' = [valid EXCEPT ![i] = FALSE]
    BY <1>8 DEF Bget, BgetCached, BgetRecycle
  <2>2. refcnt' \in [Buf -> 0 .. Cardinality(Proc) + 1]
    BY <2>1, RefcntType
  <2>3. buf' \in [Proc -> 0 .. NBUF] /\ blockno' \in [Buf -> Block \union {NoBlock}]
    <3>1. i \in 0 .. NBUF
      BY BlockIoAssumption DEF Buf
    <3>2. buf' \in [Proc -> 0 .. NBUF]
      BY <2>1, <3>1
    <3>3. blockno' \in [Buf -> Block \union {NoBlock}]
      <4>1. blockno \in [Buf -> Block \union {NoBlock}]
        OBVIOUS
      <4>2. blockno' = blockno \/ blockno' = [blockno EXCEPT ![i] = k]
        BY <2>1
      <4> HIDE DEF TypeOK
      <4> QED
        BY <4>1, <4>2
    <3> QED
      BY <3>2, <3>3
  <2>4. valid' \in [Buf -> BOOLEAN]
    BY <2>1
  <2> QED
    BY <1>8, <2>2, <2>3, <2>4 DEF Bget, Go
<1>9. ASSUME NEW p \in Proc, NEW v \in Value, Modify(p, v) PROVE TypeOK'
  BY <1>9 DEF Modify
<1>10. ASSUME NEW p \in Proc, Bwrite(p) PROVE TypeOK'
  BY <1>10 DEF Bwrite, Go
<1>11. ASSUME NEW p \in Proc, Bpin(p) PROVE TypeOK'
  <2>1. refcnt' \in [Buf -> 0 .. Cardinality(Proc) + 1]
    BY <1>11, RefcntType DEF Bpin
  <2>2. blockno[buf[p]] \in Block
    BY <1>11, HeldBuffer DEF Bpin
  <2> QED
    BY <1>11, <2>1, <2>2 DEF Bpin
<1>12. ASSUME NEW p \in Proc, Bunpin(p) PROVE TypeOK'
  <2>1. refcnt' \in [Buf -> 0 .. Cardinality(Proc) + 1]
    BY <1>12, RefcntType DEF Bunpin
  <2> QED
    BY <1>12, <2>1 DEF Bunpin
<1>13. ASSUME NEW p \in Proc, KillWakes(p) PROVE TypeOK'
  BY <1>13 DEF KillWakes
<1>14. ASSUME IntrAck PROVE TypeOK'
  BY <1>14 DEF IntrAck
<1>15. ASSUME IntrEntry PROVE TypeOK'
  <2>1. used' \in Seq(Desc)
    BY <1>15, UsedFacts DEF IntrEntry
  <2>2. ondisk' \in [Buf -> BOOLEAN]
    BY <1>15 DEF IntrEntry
  <2> QED
    BY <1>15, <2>1, <2>2 DEF IntrEntry, WakesReader
<1>16. ASSUME IntrDone PROVE TypeOK'
  BY <1>16 DEF IntrDone
<1>17. ASSUME NEW d \in Desc, Device(d) PROVE TypeOK'
  <2>1. used' \in Seq(Desc)
    BY <1>17, UsedFacts DEF Device
  <2>2. PICK p \in Proc :
          /\ buf[p] \in Buf /\ blockno[buf[p]] \in Block
          /\ info[d].b = buf[p] /\ info[d].sector = blockno[buf[p]]
    <3>1. d \in Rings
      BY <1>17 DEF Device, Rings
    <3>2. PICK p \in Proc :
            /\ buf[p] \in Buf /\ blockno[buf[p]] \in Block
            /\ info[d] = [b |-> buf[p], sector |-> blockno[buf[p]], write |-> valid[buf[p]]]
      BY <3>1, RequestOf
    <3>3. info[d].b = buf[p] /\ info[d].sector = blockno[buf[p]]
      BY <3>2
    <3> QED
      BY <3>2, <3>3
  <2>3. data' \in [Buf -> Value]
    <3>1. \/ data' = data
          \/ data' = [data EXCEPT ![buf[p]] = medium[blockno[buf[p]]]]
      BY <1>17, <2>2 DEF Device
    <3>2. medium[blockno[buf[p]]] \in Value
      BY <2>2
    <3> HIDE DEF cacheVars, driverVars
    <3> QED
      BY <3>1, <3>2
  <2>4. medium' \in [Block -> Value]
    <3>1. \/ medium' = medium
          \/ medium' = [medium EXCEPT ![blockno[buf[p]]] = data[buf[p]]]
      BY <1>17, <2>2 DEF Device
    <3>2. data[buf[p]] \in Value
      BY <2>2
    <3> QED
      BY <3>1, <3>2
  <2> QED
    BY <1>17, <2>1, <2>3, <2>4 DEF Device
<1> QED
  BY <1>1, <1>2, <1>3, <1>4, <1>5, <1>6, <1>7, <1>8, <1>9, <1>10, <1>11, <1>12, <1>13,
     <1>14, <1>15, <1>16, <1>17 DEF Next, Driver, Release, Use, Handler

-----------------------------------------------------------------------------
(* Calls and chains *)

\* bget() takes a buffer of the block and no other process sees a label change.
LEMMA BgetFacts ==
  ASSUME TypeOK, References, Calls, NEW p \in Proc, NEW k \in Block, Bget(p, k)
  PROVE  \E i \in Buf :
           /\ buf' = [buf EXCEPT ![p] = i] /\ pc' = [pc EXCEPT ![p] = "lock"]
           /\ pc[p] = "idle" /\ blockno'[i] = k /\ k # NoBlock
           /\ \A q \in Proc : q # p /\ pc[q] # "idle" =>
                /\ buf[q] \in Buf
                /\ blockno'[buf[q]] = blockno[buf[q]] /\ valid'[buf[q]] = valid[buf[q]]
<1>1. pc[p] = "idle" /\ pc' = [pc EXCEPT ![p] = "lock"] /\ k # NoBlock
  BY BlockIoAssumption DEF Bget, Go
<1>2. \A q \in Proc : pc[q] # "idle" => buf[q] \in Buf
  BY HeldBuffer
<1>3. ASSUME BgetCached(p, k)
      PROVE  \E i \in Buf : /\ buf' = [buf EXCEPT ![p] = i] /\ blockno[i] = k
                            /\ blockno' = blockno /\ valid' = valid
  BY <1>3 DEF BgetCached
<1>4. ASSUME BgetRecycle(p, k)
      PROVE  \E i \in Buf : /\ buf' = [buf EXCEPT ![p] = i] /\ blockno'[i] = k
                            /\ \A j \in Buf : j # i => /\ blockno'[j] = blockno[j]
                                                       /\ valid'[j] = valid[j]
                            /\ \A q \in Proc : buf[q] # i
  <2>1. PICK i \in Buf : /\ refcnt[i] = 0 /\ buf' = [buf EXCEPT ![p] = i]
                         /\ blockno' = [blockno EXCEPT ![i] = k]
                         /\ valid' = [valid EXCEPT ![i] = FALSE]
    BY <1>4 DEF BgetRecycle, LeastRecent
  <2>2. Uses(i) = {}
    BY <2>1, CountFacts
  <2> QED
    BY <2>1, <2>2 DEF Uses, TypeOK
<1> QED
  BY <1>1, <1>2, <1>3, <1>4 DEF Bget

\* One process at a time has the lock of a buffer.
LEMMA OneHolder ==
  ASSUME TypeOK, Calls, NEW p \in Proc, NEW q \in Proc, pc[p] \in Locking, pc[q] \in Locking,
         buf[p] = buf[q]
  PROVE  p = q
<1>1. buf[p] \in Buf
  BY HeldBuffer DEF Locking
<1> QED
  BY <1>1 DEF Calls


\* Every step keeps what a process has in step with where it is.
LEMMA CallsStep ==
  ASSUME TypeOK, References, Calls, [Next]_vars
  PROVE  Calls'
<1> USE DEF Calls, Locking, TypeOK, cacheVars, driverVars
<1>1. CASE UNCHANGED vars
  BY <1>1 DEF vars
<1>2. ASSUME NEW p \in Proc, AcquireSleep(p) PROVE Calls'
  <2>1. buf[p] \in Buf
    BY <1>2, HeldBuffer DEF AcquireSleep
  <2>2. CASE locked[buf[p]] # Nobody
    BY <1>2, <2>2 DEF AcquireSleep
  <2>3. CASE locked[buf[p]] = Nobody
    <3>1. /\ pc[p] = "lock" /\ p \notin asleep /\ locked' = [locked EXCEPT ![buf[p]] = p]
          /\ pc' = [pc EXCEPT ![p] = IF valid[buf[p]] THEN "hold" ELSE "rw"]
          /\ buf' = buf /\ blockno' = blockno /\ valid' = valid /\ asleep' = asleep
      BY <1>2, <2>3 DEF AcquireSleep, Go
    <3>2. pc'[p] \in {"hold", "rw"} /\ \A q \in Proc : q # p => pc'[q] = pc[q]
      BY <3>1
    <3>3. pc'[p] = "hold" => valid[buf[p]]
      BY <3>1
    <3>4. \A q \in Proc, i \in Buf :
            locked'[i] = q <=> buf[q] = i /\ pc'[q] \in {"rw", "wait", "hold"}
      BY <2>1, <2>3, <3>1, <3>2, BlockIoAssumption
    <3> QED
      BY <3>1, <3>2, <3>3, <3>4
  <2> QED
    BY <2>2, <2>3
<1>3. ASSUME NEW p \in Proc, Submit(p) PROVE Calls'
  BY <1>3 DEF Submit, Go
<1>4. ASSUME NEW p \in Proc, TooFew(p) PROVE Calls'
  BY <1>4 DEF TooFew, WakesForDesc
<1>5. ASSUME NEW p \in Proc, Finish(p) PROVE Calls'
  <2>1. buf[p] \in Buf
    BY <1>5, HeldBuffer DEF Finish
  <2>2. CASE StillOwned(buf[p])
    BY <1>5, <2>2 DEF Finish
  <2>3. CASE ~StillOwned(buf[p])
    <3>1. /\ pc[p] = "wait" /\ p \notin asleep /\ pc' = [pc EXCEPT ![p] = "hold"]
          /\ valid' = [valid EXCEPT ![buf[p]] = TRUE] /\ asleep' \subseteq asleep
          /\ locked' = locked /\ buf' = buf /\ blockno' = blockno
      BY <1>5, <2>3 DEF Finish, FreeChain, WakesForDesc, Go
    <3> QED
      BY <2>1, <3>1
  <2> QED
    BY <2>2, <2>3
<1>6. ASSUME NEW p \in Proc, ReleaseSleep(p) PROVE Calls'
  <2>1. buf[p] \in Buf /\ \A q \in Proc : pc[q] # "idle" => buf[q] \in Buf
    BY <1>6, HeldBuffer DEF ReleaseSleep
  <2>2. /\ pc[p] = "hold" /\ pc' = [pc EXCEPT ![p] = "unref"]
        /\ locked' = [locked EXCEPT ![buf[p]] = Nobody] /\ asleep' \subseteq asleep
        /\ buf' = buf /\ blockno' = blockno /\ valid' = valid
    BY <1>6 DEF ReleaseSleep, Go
  <2> QED
    BY <2>1, <2>2, BlockIoAssumption
<1>7. ASSUME NEW p \in Proc, Brelse(p) PROVE Calls'
  <2>1. /\ pc[p] = "unref" /\ pc' = [pc EXCEPT ![p] = "idle"] /\ buf' = [buf EXCEPT ![p] = 0]
        /\ asleep' = asleep /\ locked' = locked /\ blockno' = blockno /\ valid' = valid
    BY <1>7 DEF Brelse, Go
  <2>2. 0 \notin Buf
    BY BlockIoAssumption DEF Buf
  <2> QED
    BY <2>1, <2>2
<1>8. ASSUME NEW p \in Proc, NEW k \in Block, Bget(p, k) PROVE Calls'
  <2>1. PICK i \in Buf :
          /\ buf' = [buf EXCEPT ![p] = i] /\ pc' = [pc EXCEPT ![p] = "lock"]
          /\ pc[p] = "idle" /\ blockno'[i] = k /\ k # NoBlock
          /\ \A q \in Proc : q # p /\ pc[q] # "idle" =>
               /\ buf[q] \in Buf
               /\ blockno'[buf[q]] = blockno[buf[q]] /\ valid'[buf[q]] = valid[buf[q]]
    BY <1>8, BgetFacts
  <2>2. 0 \notin Buf /\ locked' = locked /\ asleep' = asleep
    BY <1>8, BlockIoAssumption DEF Bget, Buf
  <2> QED
    BY <2>1, <2>2
<1>9. ASSUME NEW p \in Proc, NEW v \in Value, Modify(p, v) PROVE Calls'
  BY <1>9 DEF Modify
<1>10. ASSUME NEW p \in Proc, Bwrite(p) PROVE Calls'
  BY <1>10 DEF Bwrite, Go
<1>11. ASSUME NEW p \in Proc, Bpin(p) PROVE Calls'
  BY <1>11 DEF Bpin
<1>12. ASSUME NEW p \in Proc, Bunpin(p) PROVE Calls'
  BY <1>12 DEF Bunpin
<1>13. ASSUME NEW p \in Proc, KillWakes(p) PROVE Calls'
  BY <1>13 DEF KillWakes
<1>14. ASSUME IntrAck PROVE Calls'
  BY <1>14 DEF IntrAck
<1>15. ASSUME IntrEntry PROVE Calls'
  BY <1>15 DEF IntrEntry, WakesReader
<1>16. ASSUME IntrDone PROVE Calls'
  BY <1>16 DEF IntrDone
<1>17. ASSUME NEW d \in Desc, Device(d) PROVE Calls'
  BY <1>17 DEF Device
<1> QED
  BY <1>1, <1>2, <1>3, <1>4, <1>5, <1>6, <1>7, <1>8, <1>9, <1>10, <1>11, <1>12, <1>13,
     <1>14, <1>15, <1>16, <1>17 DEF Next, Driver, Release, Use, Handler

\* A chain and its head.
LEMMA HeadFacts ==
  ASSUME TypeOK, Chains, NEW p \in Proc, Waiting(p)
  PROVE  Head0(p) \in chain[p] /\ Head0(p) \in Desc /\ Head0(p) \notin free
<1>1. chain[p] # {} /\ chain[p] \in SUBSET Desc
  BY DEF Chains, TypeOK
<1>2. Min(chain[p]) \in chain[p] /\ Min(chain[p]) \in Desc
  BY <1>1, MinFacts
<1> QED
  BY <1>2 DEF Head0, Chains

\* The heads of two chains differ.
LEMMA HeadsDiffer ==
  ASSUME TypeOK, Chains, NEW p \in Proc, NEW q \in Proc, Waiting(p), Waiting(q), p # q
  PROVE  Head0(p) # Head0(q) /\ Head0(q) \notin chain[p]
<1>1. Head0(p) \in chain[p] /\ Head0(q) \in chain[q]
  BY HeadFacts
<1> QED
  BY <1>1 DEF Chains

\* What Submit does to the chains.
LEMMA SubmitFacts ==
  ASSUME TypeOK, Calls, Chains, NEW p \in Proc, Submit(p)
  PROVE  /\ buf[p] \in Buf /\ Lowest3 \subseteq free /\ Lowest3 # {}
         /\ pc' = [pc EXCEPT ![p] = "wait"] /\ pc[p] = "rw"
         /\ chain' = [chain EXCEPT ![p] = Lowest3] /\ chain[p] = {}
         /\ Waiting(p)' /\ Head0(p)' \in free /\ Head0(p)' = Min(Lowest3)
         /\ avail' = avail \union {Head0(p)'} /\ free' = free \ Lowest3
         /\ info' = [info EXCEPT ![Head0(p)'] =
                       [b |-> buf[p], sector |-> blockno[buf[p]], write |-> valid[buf[p]]]]
         /\ \A q \in Proc : q # p => /\ Waiting(q)' = Waiting(q) /\ Head0(q)' = Head0(q)
                                     /\ Waiting(q) => Head0(q) # Head0(p)' /\ buf[q] # buf[p]
<1>1. Lowest3 \subseteq free /\ Lowest3 # {} /\ Min(Lowest3) \in Lowest3
  BY Lowest3Facts DEF Submit, TypeOK
<1>2. /\ pc' = [pc EXCEPT ![p] = "wait"] /\ pc[p] = "rw"
      /\ chain' = [chain EXCEPT ![p] = Lowest3] /\ free' = free \ Lowest3
      /\ avail' = avail \union {Min(Lowest3)}
      /\ info' = [info EXCEPT ![Min(Lowest3)] =
                    [b |-> buf[p], sector |-> blockno[buf[p]], write |-> valid[buf[p]]]]
  BY DEF Submit, Go
<1>3. chain[p] = {} /\ buf[p] \in Buf
  BY <1>2, HeldBuffer DEF Chains, Waiting
<1>4. Waiting(p)' /\ Head0(p)' = Min(Lowest3)
  BY <1>2 DEF Waiting, Head0, TypeOK
<1>5. ASSUME NEW q \in Proc, q # p
      PROVE  /\ Waiting(q)' = Waiting(q) /\ Head0(q)' = Head0(q)
             /\ Waiting(q) => Head0(q) # Head0(p)' /\ buf[q] # buf[p]
  <2>1. Waiting(q)' = Waiting(q) /\ Head0(q)' = Head0(q)
    BY <1>2, <1>5 DEF Waiting, Head0, TypeOK
  <2>2. Waiting(q) => Head0(q) \notin free
    BY HeadFacts
  <2>3. Waiting(q) => buf[q] # buf[p]
    BY <1>2, <1>5, OneHolder DEF Waiting, Locking
  <2> QED
    BY <1>1, <1>4, <2>1, <2>2, <2>3
<1> QED
  BY <1>1, <1>2, <1>3, <1>4, <1>5

\* What Finish does to the chains when the disk has given the buffer back.
LEMMA FinishFacts ==
  ASSUME TypeOK, Calls, Chains, NEW p \in Proc, Finish(p), ~StillOwned(buf[p])
  PROVE  /\ buf[p] \in Buf /\ Waiting(p) /\ ~Waiting(p)'
         /\ pc' = [pc EXCEPT ![p] = "hold"]
         /\ chain' = [chain EXCEPT ![p] = {}] /\ free' = free \union chain[p]
         /\ info' = [info EXCEPT ![Head0(p)] = None]
         /\ valid' = [valid EXCEPT ![buf[p]] = TRUE]
         /\ asleep' = asleep \ AnySleepers("rw")
         /\ \A q \in Proc : q # p => /\ Waiting(q)' = Waiting(q) /\ Head0(q)' = Head0(q)
                                     /\ Waiting(q) => Head0(q) # Head0(p) /\ buf[q] # buf[p]
<1>1. /\ pc' = [pc EXCEPT ![p] = "hold"] /\ pc[p] = "wait"
      /\ chain' = [chain EXCEPT ![p] = {}] /\ free' = free \union chain[p]
      /\ info' = [info EXCEPT ![Head0(p)] = None]
      /\ valid' = [valid EXCEPT ![buf[p]] = TRUE]
      /\ asleep' = asleep \ AnySleepers("rw")
  BY DEF Finish, FreeChain, WakesForDesc, Go, Head0
<1>2. buf[p] \in Buf /\ Waiting(p) /\ ~Waiting(p)'
  BY <1>1, HeldBuffer DEF Waiting, TypeOK
<1>3. ASSUME NEW q \in Proc, q # p
      PROVE  /\ Waiting(q)' = Waiting(q) /\ Head0(q)' = Head0(q)
             /\ Waiting(q) => Head0(q) # Head0(p) /\ buf[q] # buf[p]
  <2>1. Waiting(q)' = Waiting(q) /\ Head0(q)' = Head0(q)
    BY <1>1, <1>3 DEF Waiting, Head0, TypeOK
  <2>2. Waiting(q) => buf[q] # buf[p]
    BY <1>2, <1>3, OneHolder DEF Waiting, Locking
  <2> QED
    BY <1>2, <1>3, <2>1, <2>2, HeadsDiffer
<1> QED
  BY <1>1, <1>2, <1>3

\* A step that moves nobody into or out of a request leaves the chains alone.
LEMMA ChainsKept ==
  ASSUME Chains, UNCHANGED <<free, info, chain>>,
         \A q \in Proc : /\ Waiting(q)' = Waiting(q)
                         /\ Waiting(q) => /\ buf'[q] = buf[q]
                                          /\ blockno'[buf[q]] = blockno[buf[q]]
                                          /\ valid'[buf[q]] = valid[buf[q]]
  PROVE  Chains' /\ \A q \in Proc : Head0(q)' = Head0(q)
<1>1. \A q \in Proc : Head0(q)' = Head0(q)
  BY DEF Head0
<1>2. \A q \in Proc : Waiting(q)' <=> chain'[q] # {}
  BY DEF Chains
<1>3. \A q \in Proc : Waiting(q)' =>
        info'[Head0(q)'] = [b |-> buf'[q], sector |-> blockno'[buf'[q]], write |-> valid'[buf'[q]]]
  BY <1>1 DEF Chains
<1> QED
  BY <1>1, <1>2, <1>3 DEF Chains


\* Every step keeps descriptors in the chains of the processes that wait.
LEMMA ChainsStep ==
  ASSUME TypeOK, References, Calls, Chains, [Next]_vars
  PROVE  Chains'
<1> USE DEF cacheVars, driverVars
<1>1. CASE UNCHANGED vars
  BY <1>1, ChainsKept DEF vars, Waiting
<1>2. ASSUME NEW p \in Proc, AcquireSleep(p) PROVE Chains'
  <2>1. \A q \in Proc : Waiting(q)' = Waiting(q)
    BY <1>2 DEF AcquireSleep, Go, Waiting, TypeOK
  <2> QED
    BY <1>2, <2>1, ChainsKept DEF AcquireSleep
<1>3. ASSUME NEW p \in Proc, Submit(p) PROVE Chains'
  <2>1. /\ \A q \in Proc : Waiting(q)' <=> chain'[q] # {}
        /\ \A q, r \in Proc : q # r => chain'[q] \intersect chain'[r] = {}
        /\ \A d \in Desc : d \in free' <=> \A q \in Proc : d \notin chain'[q]
    <3>1. /\ chain' = [chain EXCEPT ![p] = Lowest3] /\ Lowest3 \subseteq free /\ Lowest3 # {}
          /\ free' = free \ Lowest3 /\ chain[p] = {} /\ Waiting(p)'
          /\ \A q \in Proc : q # p => Waiting(q)' = Waiting(q)
      BY <1>3, SubmitFacts
    <3>2. chain'[p] = Lowest3 /\ \A q \in Proc : q # p => chain'[q] = chain[q]
      BY <3>1 DEF TypeOK
    <3>3. \A q \in Proc : chain[q] \intersect free = {} /\ chain[q] \subseteq Desc
      BY DEF Chains, TypeOK
    <3>4. \A q \in Proc : Waiting(q)' <=> chain'[q] # {}
      BY <3>1, <3>2 DEF Chains
    <3>5. \A q, r \in Proc : q # r => chain'[q] \intersect chain'[r] = {}
      BY <3>1, <3>2, <3>3 DEF Chains
    <3>6. ASSUME NEW d \in Desc PROVE d \in free' <=> \A q \in Proc : d \notin chain'[q]
      <4>1. d \in free <=> \A q \in Proc : d \notin chain[q]
        BY DEF Chains
      <4>2. d \in free' <=> \A q \in Proc : d \notin chain'[q]
        BY <3>1, <3>2, <4>1
      <4> QED
        BY <4>2
    <3> QED
      BY <3>4, <3>5, <3>6
  <2>2. ASSUME NEW q \in Proc, Waiting(q)'
        PROVE  info'[Head0(q)'] = [b |-> buf[q], sector |-> blockno[buf[q]],
                                   write |-> valid[buf[q]]]
    <3>1. CASE q = p
      BY <1>3, <3>1, SubmitFacts DEF TypeOK
    <3>2. CASE q # p
      <4>1. /\ Waiting(q) /\ Head0(q)' = Head0(q) /\ Head0(q) # Head0(p)'
            /\ info' = [info EXCEPT ![Head0(p)'] = [b |-> buf[p], sector |-> blockno[buf[p]],
                                                    write |-> valid[buf[p]]]]
        BY <1>3, <2>2, <3>2, SubmitFacts
      <4>2. info'[Head0(q)] = info[Head0(q)]
        BY <4>1, HeadFacts DEF TypeOK
      <4> QED
        BY <4>1, <4>2 DEF Chains
    <3> QED
      BY <3>1, <3>2
  <2>3. buf' = buf /\ blockno' = blockno /\ valid' = valid
    BY <1>3 DEF Submit
  <2> QED
    BY <2>1, <2>2, <2>3 DEF Chains
<1>4. ASSUME NEW p \in Proc, TooFew(p) PROVE Chains'
  <2>1. \A q \in Proc : Waiting(q)' = Waiting(q)
    BY <1>4 DEF TooFew, Go, Waiting, TypeOK
  <2> QED
    BY <1>4, <2>1, ChainsKept DEF TooFew
<1>5. ASSUME NEW p \in Proc, Finish(p) PROVE Chains'
  <2>1. CASE StillOwned(buf[p])
    <3>1. pc' = pc
      BY <1>5, <2>1 DEF Finish
    <3> QED
      BY <1>5, <2>1, <3>1, ChainsKept DEF Finish, Waiting
  <2>2. CASE ~StillOwned(buf[p])
    <3>1. /\ \A q \in Proc : Waiting(q)' <=> chain'[q] # {}
          /\ \A q, r \in Proc : q # r => chain'[q] \intersect chain'[r] = {}
          /\ \A d \in Desc : d \in free' <=> \A q \in Proc : d \notin chain'[q]
      <4>1. /\ chain' = [chain EXCEPT ![p] = {}] /\ ~Waiting(p)'
            /\ free' = free \union chain[p]
            /\ \A q \in Proc : q # p => Waiting(q)' = Waiting(q)
        BY <1>5, <2>2, FinishFacts
      <4>2. chain'[p] = {} /\ \A q \in Proc : q # p => chain'[q] = chain[q]
        BY <4>1 DEF TypeOK
      <4>3. \A q \in Proc : chain[q] \subseteq Desc
        BY DEF TypeOK
      <4>4. \A q \in Proc : Waiting(q)' <=> chain'[q] # {}
        BY <4>1, <4>2 DEF Chains
      <4>5. \A q, r \in Proc : q # r => chain'[q] \intersect chain'[r] = {}
        BY <4>2 DEF Chains
      <4>6. ASSUME NEW d \in Desc PROVE d \in free' <=> \A q \in Proc : d \notin chain'[q]
        <5>1. d \in free <=> \A q \in Proc : d \notin chain[q]
          BY DEF Chains
        <5>2. d \in chain[p] => \A q \in Proc : q # p => d \notin chain[q]
          BY DEF Chains
        <5>3. d \in free' <=> \A q \in Proc : d \notin chain'[q]
          BY <4>1, <4>2, <5>1, <5>2
        <5> QED
          BY <5>3
      <4> QED
        BY <4>4, <4>5, <4>6
    <3>2. ASSUME NEW q \in Proc, Waiting(q)'
          PROVE  info'[Head0(q)'] = [b |-> buf[q], sector |-> blockno[buf[q]],
                                     write |-> valid'[buf[q]]]
      <4>1. q # p /\ Waiting(q) /\ Head0(q)' = Head0(q) /\ Head0(q) # Head0(p) /\ buf[q] # buf[p]
        BY <1>5, <2>2, <3>2, FinishFacts
      <4>2. buf[q] \in Buf
        BY <4>1, HeldBuffer DEF Waiting
      <4>3. /\ info' = [info EXCEPT ![Head0(p)] = None]
            /\ valid' = [valid EXCEPT ![buf[p]] = TRUE]
        BY <1>5, <2>2, FinishFacts
      <4>4. info'[Head0(q)] = info[Head0(q)] /\ valid'[buf[q]] = valid[buf[q]]
        BY <4>1, <4>2, <4>3, HeadFacts DEF TypeOK
      <4> QED
        BY <4>1, <4>4 DEF Chains
    <3>3. buf' = buf /\ blockno' = blockno
      BY <1>5 DEF Finish
    <3> QED
      BY <3>1, <3>2, <3>3 DEF Chains
  <2> QED
    BY <2>1, <2>2
<1>6. ASSUME NEW p \in Proc, ReleaseSleep(p) PROVE Chains'
  <2>1. \A q \in Proc : Waiting(q)' = Waiting(q)
    BY <1>6 DEF ReleaseSleep, Go, Waiting, TypeOK
  <2> QED
    BY <1>6, <2>1, ChainsKept DEF ReleaseSleep
<1>7. ASSUME NEW p \in Proc, Brelse(p) PROVE Chains'
  <2>1. \A q \in Proc : Waiting(q)' = Waiting(q)
    BY <1>7 DEF Brelse, Go, Waiting, TypeOK
  <2>2. \A q \in Proc : Waiting(q) => buf'[q] = buf[q]
    BY <1>7 DEF Brelse, Waiting, TypeOK
  <2> QED
    BY <1>7, <2>1, <2>2, ChainsKept DEF Brelse
<1>8. ASSUME NEW p \in Proc, NEW k \in Block, Bget(p, k) PROVE Chains'
  <2>1. PICK i \in Buf :
          /\ buf' = [buf EXCEPT ![p] = i] /\ pc' = [pc EXCEPT ![p] = "lock"]
          /\ pc[p] = "idle" /\ blockno'[i] = k /\ k # NoBlock
          /\ \A q \in Proc : q # p /\ pc[q] # "idle" =>
               /\ buf[q] \in Buf
               /\ blockno'[buf[q]] = blockno[buf[q]] /\ valid'[buf[q]] = valid[buf[q]]
    BY <1>8, BgetFacts
  <2>2. \A q \in Proc : /\ Waiting(q)' = Waiting(q)
                        /\ Waiting(q) => q # p /\ pc[q] # "idle" /\ buf'[q] = buf[q]
    BY <2>1 DEF Waiting, TypeOK
  <2> QED
    BY <1>8, <2>1, <2>2, ChainsKept DEF Bget
<1>9. ASSUME NEW p \in Proc, NEW v \in Value, Modify(p, v) PROVE Chains'
  <2>1. \A q \in Proc : Waiting(q)' = Waiting(q)
    BY <1>9 DEF Modify, Go, Waiting, TypeOK
  <2> QED
    BY <1>9, <2>1, ChainsKept DEF Modify
<1>10. ASSUME NEW p \in Proc, Bwrite(p) PROVE Chains'
  <2>1. \A q \in Proc : Waiting(q)' = Waiting(q)
    BY <1>10 DEF Bwrite, Go, Waiting, TypeOK
  <2> QED
    BY <1>10, <2>1, ChainsKept DEF Bwrite
<1>11. ASSUME NEW p \in Proc, Bpin(p) PROVE Chains'
  <2>1. \A q \in Proc : Waiting(q)' = Waiting(q)
    BY <1>11 DEF Bpin, Go, Waiting, TypeOK
  <2> QED
    BY <1>11, <2>1, ChainsKept DEF Bpin
<1>12. ASSUME NEW p \in Proc, Bunpin(p) PROVE Chains'
  <2>1. \A q \in Proc : Waiting(q)' = Waiting(q)
    BY <1>12 DEF Bunpin, Go, Waiting, TypeOK
  <2> QED
    BY <1>12, <2>1, ChainsKept DEF Bunpin
<1>13. ASSUME NEW p \in Proc, KillWakes(p) PROVE Chains'
  <2>1. \A q \in Proc : Waiting(q)' = Waiting(q)
    BY <1>13 DEF KillWakes, Go, Waiting, TypeOK
  <2> QED
    BY <1>13, <2>1, ChainsKept DEF KillWakes
<1>14. ASSUME IntrAck PROVE Chains'
  <2>1. \A q \in Proc : Waiting(q)' = Waiting(q)
    BY <1>14 DEF IntrAck, Go, Waiting, TypeOK
  <2> QED
    BY <1>14, <2>1, ChainsKept DEF IntrAck
<1>15. ASSUME IntrEntry PROVE Chains'
  <2>1. \A q \in Proc : Waiting(q)' = Waiting(q)
    BY <1>15 DEF IntrEntry, Go, Waiting, TypeOK
  <2> QED
    BY <1>15, <2>1, ChainsKept DEF IntrEntry
<1>16. ASSUME IntrDone PROVE Chains'
  <2>1. \A q \in Proc : Waiting(q)' = Waiting(q)
    BY <1>16 DEF IntrDone, Go, Waiting, TypeOK
  <2> QED
    BY <1>16, <2>1, ChainsKept DEF IntrDone
<1>17. ASSUME NEW d \in Desc, Device(d) PROVE Chains'
  <2>1. \A q \in Proc : Waiting(q)' = Waiting(q)
    BY <1>17 DEF Device, Go, Waiting, TypeOK
  <2> QED
    BY <1>17, <2>1, ChainsKept DEF Device
<1> QED
  BY <1>1, <1>2, <1>3, <1>4, <1>5, <1>6, <1>7, <1>8, <1>9, <1>10, <1>11, <1>12, <1>13,
     <1>14, <1>15, <1>16, <1>17 DEF Next, Driver, Release, Use, Handler

-----------------------------------------------------------------------------
(* Requests *)

\* The interrupt handler takes the first of the finished requests.
LEMMA TailFacts ==
  ASSUME TypeOK, Requests, used # <<>>
  PROVE  /\ Head(used) \in Range(used) /\ Range(Tail(used)) = Range(used) \ {Head(used)}
         /\ \A m, n \in DOMAIN Tail(used) : Tail(used)[m] = Tail(used)[n] => m = n
<1>1. /\ Head(used) \in Range(used) /\ Len(used) \in Nat /\ Len(used) >= 1
      /\ DOMAIN Tail(used) = 1 .. Len(used) - 1
      /\ \A n \in DOMAIN Tail(used) : Tail(used)[n] = used[n + 1]
      /\ DOMAIN used = 1 .. Len(used) /\ Head(used) = used[1]
  BY UsedFacts DEF TypeOK
<1>2. \A m, n \in DOMAIN used : used[m] = used[n] => m = n
  BY DEF Requests
<1>3. \A n \in DOMAIN Tail(used) : n + 1 \in DOMAIN used /\ n + 1 # 1 /\ n \in Int
  BY <1>1
<1>4. \A m, n \in DOMAIN Tail(used) : Tail(used)[m] = Tail(used)[n] => m = n
  BY <1>1, <1>2, <1>3
<1>5. ASSUME NEW d \in Range(Tail(used)) PROVE d \in Range(used) \ {Head(used)}
  <2>1. PICK n \in DOMAIN Tail(used) : d = Tail(used)[n]
    BY DEF Range
  <2>2. d = used[n + 1] /\ n + 1 \in DOMAIN used /\ 1 \in DOMAIN used /\ n + 1 # 1
    BY <1>1, <1>3, <2>1
  <2> QED
    BY <1>1, <1>2, <2>2 DEF Range
<1>6. ASSUME NEW d \in Range(used) \ {Head(used)} PROVE d \in Range(Tail(used))
  <2>1. PICK n \in DOMAIN used : d = used[n]
    BY DEF Range
  <2>2. n # 1
    BY <1>1, <2>1
  <2>3. n - 1 \in DOMAIN Tail(used) /\ n = (n - 1) + 1
    BY <1>1, <2>1, <2>2
  <2>4. Tail(used)[n - 1] = d
    BY <1>1, <2>1, <2>3
  <2> QED
    BY <2>3, <2>4 DEF Range
<1> QED
  BY <1>1, <1>4, <1>5, <1>6

\* The device puts a request among the finished ones.
LEMMA AppendFacts ==
  ASSUME TypeOK, Requests, NEW d \in Desc, d \notin Range(used)
  PROVE  /\ Range(Append(used, d)) = Range(used) \union {d}
         /\ \A m, n \in DOMAIN Append(used, d) :
              Append(used, d)[m] = Append(used, d)[n] => m = n
<1>1. /\ DOMAIN used = 1 .. Len(used) /\ Len(used) \in Nat
      /\ DOMAIN Append(used, d) = 1 .. Len(used) + 1
      /\ \A n \in 1 .. Len(used) : Append(used, d)[n] = used[n]
      /\ Append(used, d)[Len(used) + 1] = d
  BY AppendProperties DEF TypeOK
<1>2. \A n \in DOMAIN used : used[n] # d
  BY DEF Range
<1>3. \A m, n \in DOMAIN used : used[m] = used[n] => m = n
  BY DEF Requests
<1>4. \A n \in DOMAIN Append(used, d) : n \in DOMAIN used \/ n = Len(used) + 1
  BY <1>1
<1>5. \A m, n \in DOMAIN Append(used, d) : Append(used, d)[m] = Append(used, d)[n] => m = n
  BY <1>1, <1>2, <1>3, <1>4
<1> QED
  BY <1>5, UsedFacts DEF TypeOK

\* A step that moves nobody into or out of a request leaves the requests alone.
LEMMA RequestsKept ==
  ASSUME Requests, UNCHANGED <<ondisk, avail, used, chain>>,
         \A q \in Proc : Waiting(q)' = Waiting(q) /\ (Waiting(q) => buf'[q] = buf[q])
  PROVE  Requests'
<1>1. \A q \in Proc : Head0(q)' = Head0(q)
  BY DEF Head0
<1>2. Rings' = Rings
  BY DEF Rings
<1>3. \A d \in Rings' : \E q \in Proc : Waiting(q)' /\ d = Head0(q)'
  BY <1>1, <1>2 DEF Requests
<1>4. \A q \in Proc : Waiting(q)' => (ondisk'[buf'[q]] <=> Head0(q)' \in Rings')
  BY <1>1, <1>2 DEF Requests
<1> QED
  BY <1>3, <1>4 DEF Requests

\* A step of the device or its handler moves a request along the rings.
LEMMA RingsMoved ==
  ASSUME TypeOK, Calls, Chains, Requests, UNCHANGED <<chain, pc, buf>>,
         \/ /\ UNCHANGED ondisk /\ \E d \in avail : avail' = avail \ {d} /\ used' = Append(used, d)
         \/ /\ UNCHANGED avail /\ used # <<>> /\ used' = Tail(used)
            /\ ondisk' = [ondisk EXCEPT ![info[Head(used)].b] = FALSE]
  PROVE  /\ Requests' /\ \A q \in Proc : Waiting(q)' = Waiting(q) /\ Head0(q)' = Head0(q)
         /\ \/ Rings' = Rings
            \/ used # <<>> /\ Rings' = Rings \ {Head(used)}
<1>1. \A q \in Proc : Waiting(q)' = Waiting(q) /\ Head0(q)' = Head0(q)
  BY DEF Head0, Waiting
<1>2. ASSUME UNCHANGED ondisk, NEW d \in avail, avail' = avail \ {d}, used' = Append(used, d)
      PROVE  Requests' /\ Rings' = Rings
  <2>1. d \in Desc /\ d \notin Range(used)
    BY DEF TypeOK, Requests
  <2>2. /\ Range(used') = Range(used) \union {d}
        /\ \A m, n \in DOMAIN used' : used'[m] = used'[n] => m = n
    BY <1>2, <2>1, AppendFacts
  <2>3. Rings' = Rings /\ avail' \intersect Range(used') = {}
    BY <1>2, <2>2 DEF Rings, Requests
  <2>4. \A e \in Rings' : \E q \in Proc : Waiting(q)' /\ e = Head0(q)'
    BY <1>1, <2>3 DEF Requests
  <2>5. \A q \in Proc : Waiting(q)' => (ondisk'[buf'[q]] <=> Head0(q)' \in Rings')
    BY <1>1, <1>2, <2>3 DEF Requests
  <2> QED
    BY <2>2, <2>3, <2>4, <2>5 DEF Requests
<1>3. ASSUME UNCHANGED avail, used # <<>>, used' = Tail(used),
             ondisk' = [ondisk EXCEPT ![info[Head(used)].b] = FALSE]
      PROVE  Requests' /\ Rings' = Rings \ {Head(used)}
  <2>1. /\ Head(used) \in Range(used) /\ Range(used') = Range(used) \ {Head(used)}
        /\ \A m, n \in DOMAIN used' : used'[m] = used'[n] => m = n
    BY <1>3, TailFacts
  <2>2. Rings' = Rings \ {Head(used)} /\ avail' \intersect Range(used') = {}
    BY <1>3, <2>1 DEF Rings, Requests
  <2>3. Head(used) \in Rings
    BY <2>1 DEF Rings
  <2>4. PICK p \in Proc :
          /\ Waiting(p) /\ Head(used) = Head0(p) /\ buf[p] \in Buf
          /\ info[Head(used)] = [b |-> buf[p], sector |-> blockno[buf[p]], write |-> valid[buf[p]]]
    BY <2>3, RequestOf
  <2>5. ondisk' = [ondisk EXCEPT ![buf[p]] = FALSE]
    <3>1. info[Head(used)].b = buf[p]
      BY <2>4
    <3> QED
      BY <1>3, <3>1
  <2>6. ASSUME NEW q \in Proc, Waiting(q), q # p
        PROVE  buf[q] # buf[p] /\ buf[q] \in Buf /\ Head0(q) # Head(used)
    <3>1. buf[q] # buf[p]
      BY <2>4, <2>6, OneHolder DEF Waiting, Locking
    <3>2. buf[q] \in Buf
      BY <2>6, HeldBuffer DEF Waiting
    <3> QED
      BY <2>4, <2>6, <3>1, <3>2, HeadsDiffer
  <2>7. ondisk'[buf[p]] = FALSE /\ \A i \in Buf : i # buf[p] => ondisk'[i] = ondisk[i]
    BY <2>4, <2>5 DEF TypeOK
  <2>8. \A e \in Rings' : \E q \in Proc : Waiting(q)' /\ e = Head0(q)'
    BY <1>1, <2>2 DEF Requests
  <2>9. ASSUME NEW q \in Proc, Waiting(q)'
        PROVE  ondisk'[buf'[q]] <=> Head0(q)' \in Rings'
    <3>1. CASE q = p
      BY <1>1, <2>2, <2>4, <2>7, <3>1
    <3>2. CASE q # p
      <4>1. Waiting(q) /\ Head0(q)' = Head0(q) /\ (ondisk[buf[q]] <=> Head0(q) \in Rings)
        BY <1>1, <2>9 DEF Requests
      <4>2. buf[q] # buf[p] /\ buf[q] \in Buf /\ Head0(q) # Head(used)
        BY <2>6, <3>2, <4>1
      <4> QED
        BY <2>2, <2>7, <4>1, <4>2
    <3> QED
      BY <3>1, <3>2
  <2> QED
    BY <2>1, <2>2, <2>8, <2>9 DEF Requests
<1>4. CASE UNCHANGED ondisk /\ \E d \in avail : avail' = avail \ {d} /\ used' = Append(used, d)
  <2>1. Requests' /\ Rings' = Rings
    BY <1>2, <1>4
  <2> QED
    BY <1>1, <2>1
<1>5. CASE /\ UNCHANGED avail /\ used # <<>> /\ used' = Tail(used)
           /\ ondisk' = [ondisk EXCEPT ![info[Head(used)].b] = FALSE]
  <2>1. Requests' /\ Rings' = Rings \ {Head(used)}
    BY <1>3, <1>5
  <2> QED
    BY <1>1, <1>5, <2>1
<1> QED
  BY <1>4, <1>5


\* Every step keeps one request in the rings for each buffer the disk owns.
LEMMA RequestsStep ==
  ASSUME TypeOK, References, Calls, Chains, Requests, [Next]_vars
  PROVE  Requests'
<1> USE DEF cacheVars, driverVars
<1>1. CASE UNCHANGED vars
  BY <1>1, RequestsKept DEF vars, Waiting
<1>2. ASSUME NEW p \in Proc, AcquireSleep(p) PROVE Requests'
  <2>1. \A q \in Proc : Waiting(q)' = Waiting(q)
    BY <1>2 DEF AcquireSleep, Go, Waiting, TypeOK
  <2> QED
    BY <1>2, <2>1, RequestsKept DEF AcquireSleep
<1>3. ASSUME NEW p \in Proc, Submit(p) PROVE Requests'
  <2> DEFINE h == Head0(p)'
  <2>1. /\ buf[p] \in Buf /\ pc' = [pc EXCEPT ![p] = "wait"] /\ pc[p] = "rw"
        /\ Waiting(p)' /\ h \in free /\ avail' = avail \union {h}
        /\ \A q \in Proc : q # p => /\ Waiting(q)' = Waiting(q) /\ Head0(q)' = Head0(q)
                                    /\ Waiting(q) => Head0(q) # h /\ buf[q] # buf[p]
    BY <1>3, SubmitFacts
  <2>2. ondisk' = [ondisk EXCEPT ![buf[p]] = TRUE] /\ used' = used /\ buf' = buf
    BY <1>3 DEF Submit
  <2>3. Rings' = Rings \union {h}
    BY <2>1, <2>2 DEF Rings
  <2> HIDE DEF h
  <2>4. h \notin Rings
    BY <2>1, HeadFacts DEF Requests
  <2>5. avail' \intersect Range(used') = {}
    BY <2>1, <2>2, <2>4 DEF Requests, Rings
  <2>6. Head0(p)' = h
    BY DEF h
  <2>7. ~Waiting(p)
    BY <2>1 DEF Waiting
  <2>8. \A d \in Rings' : \E q \in Proc : Waiting(q)' /\ d = Head0(q)'
    BY <2>1, <2>3, <2>6, <2>7 DEF Requests
  <2>9. ASSUME NEW q \in Proc, Waiting(q)'
        PROVE  ondisk'[buf'[q]] <=> Head0(q)' \in Rings'
    <3>1. CASE q = p
      BY <2>1, <2>2, <2>3, <2>6, <3>1 DEF TypeOK
    <3>2. CASE q # p
      <4>1. Waiting(q) /\ Head0(q)' = Head0(q) /\ buf[q] # buf[p] /\ Head0(q) # h
        BY <2>1, <2>9, <3>2
      <4>2. ondisk'[buf[q]] = ondisk[buf[q]]
        BY <2>2, <4>1 DEF TypeOK
      <4> QED
        BY <2>2, <2>3, <4>1, <4>2 DEF Requests
    <3> QED
      BY <3>1, <3>2
  <2> QED
    BY <2>2, <2>5, <2>8, <2>9 DEF Requests
<1>4. ASSUME NEW p \in Proc, TooFew(p) PROVE Requests'
  <2>1. \A q \in Proc : Waiting(q)' = Waiting(q)
    BY <1>4 DEF TooFew, Go, Waiting, TypeOK
  <2> QED
    BY <1>4, <2>1, RequestsKept DEF TooFew
<1>5. ASSUME NEW p \in Proc, Finish(p) PROVE Requests'
  <2>1. CASE StillOwned(buf[p])
    <3>1. pc' = pc /\ chain' = chain /\ buf' = buf /\ UNCHANGED <<ondisk, avail, used>>
      BY <1>5, <2>1 DEF Finish
    <3> QED
      BY <3>1, RequestsKept DEF Waiting
  <2>2. CASE ~StillOwned(buf[p])
    <3>1. /\ Waiting(p) /\ ~Waiting(p)'
          /\ \A q \in Proc : q # p => /\ Waiting(q)' = Waiting(q) /\ Head0(q)' = Head0(q)
                                      /\ Waiting(q) => Head0(q) # Head0(p)
      BY <1>5, <2>2, FinishFacts
    <3>2. buf' = buf /\ UNCHANGED <<ondisk, avail, used>>
      BY <1>5 DEF Finish
    <3>3. Rings' = Rings
      BY <3>2 DEF Rings
    <3>4. Head0(p) \notin Rings
      BY <2>2, <3>1 DEF Requests, StillOwned
    <3>5. \A d \in Rings' : \E q \in Proc : Waiting(q)' /\ d = Head0(q)'
      BY <3>1, <3>3, <3>4 DEF Requests
    <3>6. \A q \in Proc : Waiting(q)' => (ondisk'[buf'[q]] <=> Head0(q)' \in Rings')
      BY <3>1, <3>2, <3>3 DEF Requests
    <3> QED
      BY <3>2, <3>5, <3>6 DEF Requests
  <2> QED
    BY <2>1, <2>2
<1>6. ASSUME NEW p \in Proc, ReleaseSleep(p) PROVE Requests'
  <2>1. \A q \in Proc : Waiting(q)' = Waiting(q)
    BY <1>6 DEF ReleaseSleep, Go, Waiting, TypeOK
  <2> QED
    BY <1>6, <2>1, RequestsKept DEF ReleaseSleep
<1>7. ASSUME NEW p \in Proc, Brelse(p) PROVE Requests'
  <2>1. \A q \in Proc : Waiting(q)' = Waiting(q)
    BY <1>7 DEF Brelse, Go, Waiting, TypeOK
  <2>2. \A q \in Proc : Waiting(q) => buf'[q] = buf[q]
    BY <1>7 DEF Brelse, Waiting, TypeOK
  <2> QED
    BY <1>7, <2>1, <2>2, RequestsKept DEF Brelse
<1>8. ASSUME NEW p \in Proc, NEW k \in Block, Bget(p, k) PROVE Requests'
  <2>1. PICK i \in Buf :
          /\ buf' = [buf EXCEPT ![p] = i] /\ pc' = [pc EXCEPT ![p] = "lock"]
          /\ pc[p] = "idle" /\ blockno'[i] = k /\ k # NoBlock
          /\ \A q \in Proc : q # p /\ pc[q] # "idle" =>
               /\ buf[q] \in Buf
               /\ blockno'[buf[q]] = blockno[buf[q]] /\ valid'[buf[q]] = valid[buf[q]]
    BY <1>8, BgetFacts
  <2>2. \A q \in Proc : /\ Waiting(q)' = Waiting(q)
                        /\ Waiting(q) => q # p /\ pc[q] # "idle" /\ buf'[q] = buf[q]
    BY <2>1 DEF Waiting, TypeOK
  <2> QED
    BY <1>8, <2>1, <2>2, RequestsKept DEF Bget
<1>9. ASSUME NEW p \in Proc, NEW v \in Value, Modify(p, v) PROVE Requests'
  <2>1. \A q \in Proc : Waiting(q)' = Waiting(q)
    BY <1>9 DEF Modify, Go, Waiting, TypeOK
  <2> QED
    BY <1>9, <2>1, RequestsKept DEF Modify
<1>10. ASSUME NEW p \in Proc, Bwrite(p) PROVE Requests'
  <2>1. \A q \in Proc : Waiting(q)' = Waiting(q)
    BY <1>10 DEF Bwrite, Go, Waiting, TypeOK
  <2> QED
    BY <1>10, <2>1, RequestsKept DEF Bwrite
<1>11. ASSUME NEW p \in Proc, Bpin(p) PROVE Requests'
  <2>1. \A q \in Proc : Waiting(q)' = Waiting(q)
    BY <1>11 DEF Bpin, Go, Waiting, TypeOK
  <2> QED
    BY <1>11, <2>1, RequestsKept DEF Bpin
<1>12. ASSUME NEW p \in Proc, Bunpin(p) PROVE Requests'
  <2>1. \A q \in Proc : Waiting(q)' = Waiting(q)
    BY <1>12 DEF Bunpin, Go, Waiting, TypeOK
  <2> QED
    BY <1>12, <2>1, RequestsKept DEF Bunpin
<1>13. ASSUME NEW p \in Proc, KillWakes(p) PROVE Requests'
  <2>1. \A q \in Proc : Waiting(q)' = Waiting(q)
    BY <1>13 DEF KillWakes, Go, Waiting, TypeOK
  <2> QED
    BY <1>13, <2>1, RequestsKept DEF KillWakes
<1>14. ASSUME IntrAck PROVE Requests'
  <2>1. \A q \in Proc : Waiting(q)' = Waiting(q)
    BY <1>14 DEF IntrAck, Go, Waiting, TypeOK
  <2> QED
    BY <1>14, <2>1, RequestsKept DEF IntrAck
<1>15. ASSUME IntrEntry PROVE Requests'
  BY <1>15, RingsMoved DEF IntrEntry
<1>16. ASSUME IntrDone PROVE Requests'
  <2>1. \A q \in Proc : Waiting(q)' = Waiting(q)
    BY <1>16 DEF IntrDone, Go, Waiting, TypeOK
  <2> QED
    BY <1>16, <2>1, RequestsKept DEF IntrDone
<1>17. ASSUME NEW d \in Desc, Device(d) PROVE Requests'
  BY <1>17, RingsMoved DEF Device
<1> QED
  BY <1>1, <1>2, <1>3, <1>4, <1>5, <1>6, <1>7, <1>8, <1>9, <1>10, <1>11, <1>12, <1>13,
     <1>14, <1>15, <1>16, <1>17 DEF Next, Driver, Release, Use, Handler

-----------------------------------------------------------------------------
(* Contents, interrupts and sleepers *)

\* A step that leaves contents and requests alone leaves finished reads alone.
LEMMA ReadsKept ==
  ASSUME ReadsDone, UNCHANGED <<data, medium, avail, chain>>,
         \A q \in Proc : /\ Waiting(q)' = Waiting(q)
                         /\ Waiting(q) => /\ buf'[q] = buf[q]
                                          /\ blockno'[buf[q]] = blockno[buf[q]]
                                          /\ valid'[buf[q]] = valid[buf[q]]
  PROVE  ReadsDone'
<1>1. \A q \in Proc : Head0(q)' = Head0(q)
  BY DEF Head0
<1> QED
  BY <1>1 DEF ReadsDone


\* Every step keeps what a finished read found.
LEMMA ReadsDoneStep ==
  ASSUME TypeOK, References, Calls, Chains, Requests, ReadsDone, [Next]_vars
  PROVE  ReadsDone'
<1> USE DEF cacheVars, driverVars
<1>1. CASE UNCHANGED vars
  BY <1>1, ReadsKept DEF vars, Waiting
<1>2. ASSUME NEW p \in Proc, AcquireSleep(p) PROVE ReadsDone'
  <2>1. \A q \in Proc : Waiting(q)' = Waiting(q)
    BY <1>2 DEF AcquireSleep, Go, Waiting, TypeOK
  <2> QED
    BY <1>2, <2>1, ReadsKept DEF AcquireSleep
<1>3. ASSUME NEW p \in Proc, Submit(p) PROVE ReadsDone'
  <2>1. /\ avail' = avail \union {Head0(p)'}
        /\ \A q \in Proc : q # p => Waiting(q)' = Waiting(q) /\ Head0(q)' = Head0(q)
    BY <1>3, SubmitFacts
  <2>2. UNCHANGED <<blockno, valid, buf, data, medium>>
    BY <1>3 DEF Submit
  <2>3. ASSUME NEW q \in Proc, Waiting(q)', ~valid[buf[q]], Head0(q)' \notin avail'
        PROVE  data[buf[q]] = medium[blockno[buf[q]]]
    <3>1. q # p /\ Waiting(q) /\ Head0(q) \notin avail
      BY <2>1, <2>3
    <3> QED
      BY <2>3, <3>1 DEF ReadsDone
  <2> QED
    BY <2>2, <2>3 DEF ReadsDone
<1>4. ASSUME NEW p \in Proc, TooFew(p) PROVE ReadsDone'
  <2>1. \A q \in Proc : Waiting(q)' = Waiting(q)
    BY <1>4 DEF TooFew, Go, Waiting, TypeOK
  <2> QED
    BY <1>4, <2>1, ReadsKept DEF TooFew
<1>5. ASSUME NEW p \in Proc, Finish(p) PROVE ReadsDone'
  <2>1. CASE StillOwned(buf[p])
    <3>1. pc' = pc
      BY <1>5, <2>1 DEF Finish
    <3> QED
      BY <1>5, <2>1, <3>1, ReadsKept DEF Finish, Waiting
  <2>2. CASE ~StillOwned(buf[p])
    <3>1. /\ ~Waiting(p)' /\ valid' = [valid EXCEPT ![buf[p]] = TRUE]
          /\ \A q \in Proc : q # p => /\ Waiting(q)' = Waiting(q) /\ Head0(q)' = Head0(q)
                                      /\ Waiting(q) => buf[q] # buf[p]
      BY <1>5, <2>2, FinishFacts
    <3>2. UNCHANGED <<blockno, buf, data, medium, avail>>
      BY <1>5 DEF Finish
    <3>3. ASSUME NEW q \in Proc, Waiting(q)', ~valid'[buf[q]], Head0(q)' \notin avail
          PROVE  data[buf[q]] = medium[blockno[buf[q]]]
      <4>1. Waiting(q) /\ Head0(q) \notin avail /\ buf[q] # buf[p]
        BY <3>1, <3>3
      <4>2. buf[q] \in Buf
        BY <4>1, HeldBuffer DEF Waiting
      <4>3. ~valid[buf[q]]
        BY <3>1, <3>3, <4>1, <4>2 DEF TypeOK
      <4> QED
        BY <4>1, <4>3 DEF ReadsDone
    <3> QED
      BY <3>2, <3>3 DEF ReadsDone
  <2> QED
    BY <2>1, <2>2
<1>6. ASSUME NEW p \in Proc, ReleaseSleep(p) PROVE ReadsDone'
  <2>1. \A q \in Proc : Waiting(q)' = Waiting(q)
    BY <1>6 DEF ReleaseSleep, Go, Waiting, TypeOK
  <2> QED
    BY <1>6, <2>1, ReadsKept DEF ReleaseSleep
<1>7. ASSUME NEW p \in Proc, Brelse(p) PROVE ReadsDone'
  <2>1. \A q \in Proc : Waiting(q)' = Waiting(q)
    BY <1>7 DEF Brelse, Go, Waiting, TypeOK
  <2>2. \A q \in Proc : Waiting(q) => buf'[q] = buf[q]
    BY <1>7 DEF Brelse, Waiting, TypeOK
  <2> QED
    BY <1>7, <2>1, <2>2, ReadsKept DEF Brelse
<1>8. ASSUME NEW p \in Proc, NEW k \in Block, Bget(p, k) PROVE ReadsDone'
  <2>1. PICK i \in Buf :
          /\ buf' = [buf EXCEPT ![p] = i] /\ pc' = [pc EXCEPT ![p] = "lock"]
          /\ pc[p] = "idle" /\ blockno'[i] = k /\ k # NoBlock
          /\ \A q \in Proc : q # p /\ pc[q] # "idle" =>
               /\ buf[q] \in Buf
               /\ blockno'[buf[q]] = blockno[buf[q]] /\ valid'[buf[q]] = valid[buf[q]]
    BY <1>8, BgetFacts
  <2>2. \A q \in Proc : /\ Waiting(q)' = Waiting(q)
                        /\ Waiting(q) => q # p /\ pc[q] # "idle" /\ buf'[q] = buf[q]
    BY <2>1 DEF Waiting, TypeOK
  <2> QED
    BY <1>8, <2>1, <2>2, ReadsKept DEF Bget
<1>9. ASSUME NEW p \in Proc, NEW v \in Value, Modify(p, v) PROVE ReadsDone'
  <2>1. ASSUME NEW q \in Proc, Waiting(q) PROVE buf[q] \in Buf /\ data'[buf[q]] = data[buf[q]]
    <3>1. buf[q] # buf[p] /\ buf[q] \in Buf
      BY <1>9, <2>1, OneHolder, HeldBuffer DEF Modify, Waiting, Locking
    <3> QED
      BY <1>9, <3>1 DEF Modify, TypeOK
  <2>2. \A q \in Proc : Waiting(q)' = Waiting(q) /\ Head0(q)' = Head0(q)
    BY <1>9 DEF Modify, Waiting, Head0
  <2>3. UNCHANGED <<blockno, valid, buf, avail, medium>>
    BY <1>9 DEF Modify
  <2> QED
    BY <2>1, <2>2, <2>3 DEF ReadsDone
<1>10. ASSUME NEW p \in Proc, Bwrite(p) PROVE ReadsDone'
  <2>1. \A q \in Proc : Waiting(q)' = Waiting(q)
    BY <1>10 DEF Bwrite, Go, Waiting, TypeOK
  <2> QED
    BY <1>10, <2>1, ReadsKept DEF Bwrite
<1>11. ASSUME NEW p \in Proc, Bpin(p) PROVE ReadsDone'
  <2>1. \A q \in Proc : Waiting(q)' = Waiting(q)
    BY <1>11 DEF Bpin, Go, Waiting, TypeOK
  <2> QED
    BY <1>11, <2>1, ReadsKept DEF Bpin
<1>12. ASSUME NEW p \in Proc, Bunpin(p) PROVE ReadsDone'
  <2>1. \A q \in Proc : Waiting(q)' = Waiting(q)
    BY <1>12 DEF Bunpin, Go, Waiting, TypeOK
  <2> QED
    BY <1>12, <2>1, ReadsKept DEF Bunpin
<1>13. ASSUME NEW p \in Proc, KillWakes(p) PROVE ReadsDone'
  <2>1. \A q \in Proc : Waiting(q)' = Waiting(q)
    BY <1>13 DEF KillWakes, Go, Waiting, TypeOK
  <2> QED
    BY <1>13, <2>1, ReadsKept DEF KillWakes
<1>14. ASSUME IntrAck PROVE ReadsDone'
  <2>1. \A q \in Proc : Waiting(q)' = Waiting(q)
    BY <1>14 DEF IntrAck, Go, Waiting, TypeOK
  <2> QED
    BY <1>14, <2>1, ReadsKept DEF IntrAck
<1>15. ASSUME IntrEntry PROVE ReadsDone'
  <2>1. \A q \in Proc : Waiting(q)' = Waiting(q)
    BY <1>15 DEF IntrEntry, Go, Waiting, TypeOK
  <2> QED
    BY <1>15, <2>1, ReadsKept DEF IntrEntry
<1>16. ASSUME IntrDone PROVE ReadsDone'
  <2>1. \A q \in Proc : Waiting(q)' = Waiting(q)
    BY <1>16 DEF IntrDone, Go, Waiting, TypeOK
  <2> QED
    BY <1>16, <2>1, ReadsKept DEF IntrDone
<1>17. ASSUME NEW d \in Desc, Device(d) PROVE ReadsDone'
  <2>1. d \in avail /\ d \in Rings /\ avail' = avail \ {d}
    BY <1>17 DEF Device, Rings
  <2>2. PICK p \in Proc :
          /\ Waiting(p) /\ d = Head0(p) /\ buf[p] \in Buf /\ blockno[buf[p]] \in Block
          /\ info[d] = [b |-> buf[p], sector |-> blockno[buf[p]], write |-> valid[buf[p]]]
    BY <2>1, RequestOf
  <2>3. IF valid[buf[p]]
        THEN /\ medium' = [medium EXCEPT ![blockno[buf[p]]] = data[buf[p]]] /\ data' = data
        ELSE /\ data' = [data EXCEPT ![buf[p]] = medium[blockno[buf[p]]]] /\ medium' = medium
    <3>1. /\ info[d].b = buf[p] /\ info[d].sector = blockno[buf[p]]
          /\ info[d].write = valid[buf[p]]
      BY <2>2
    <3> QED
      BY <1>17, <3>1 DEF Device
  <2>4. /\ \A q \in Proc : Waiting(q)' = Waiting(q) /\ Head0(q)' = Head0(q)
        /\ UNCHANGED <<blockno, valid, buf>>
    BY <1>17 DEF Device, Waiting, Head0
  <2>5. ASSUME NEW q \in Proc, Waiting(q)', ~valid[buf[q]], Head0(q)' \notin avail'
        PROVE  data'[buf[q]] = medium'[blockno[buf[q]]]
    <3>1. Waiting(q) /\ Head0(q) = Head0(q)' /\ buf[q] \in Buf /\ blockno[buf[q]] \in Block
      BY <2>4, <2>5, HeldBuffer DEF Waiting
    <3>2. CASE q = p
      BY <2>2, <2>3, <2>5, <3>2 DEF TypeOK
    <3>3. CASE q # p
      <4>1. buf[q] # buf[p]
        BY <2>2, <3>1, <3>3, OneHolder DEF Waiting, Locking
      <4>2. blockno[buf[q]] # blockno[buf[p]]
        BY <2>2, <3>1, <4>1, BlockIoAssumption DEF References
      <4>3. Head0(q) \notin avail
        BY <2>1, <2>2, <2>5, <3>1, <3>3, HeadsDiffer
      <4>4. data[buf[q]] = medium[blockno[buf[q]]]
        BY <2>5, <3>1, <4>3 DEF ReadsDone
      <4>5. data'[buf[q]] = data[buf[q]] /\ medium'[blockno[buf[q]]] = medium[blockno[buf[q]]]
        BY <2>2, <2>3, <3>1, <4>1, <4>2 DEF TypeOK
      <4> QED
        BY <4>4, <4>5
    <3> QED
      BY <3>2, <3>3
  <2> QED
    BY <2>4, <2>5 DEF ReadsDone
<1> QED
  BY <1>1, <1>2, <1>3, <1>4, <1>5, <1>6, <1>7, <1>8, <1>9, <1>10, <1>11, <1>12, <1>13,
     <1>14, <1>15, <1>16, <1>17 DEF Next, Driver, Release, Use, Handler

\* Every step keeps an interrupt coming while the handler has requests to see.
LEMMA ReportedStep ==
  ASSUME TypeOK, Reported, [Next]_vars
  PROVE  Reported'
<1> USE DEF Reported, cacheVars, driverVars
<1>1. CASE UNCHANGED vars
  BY <1>1 DEF vars
<1>2. ASSUME NEW p \in Proc, AcquireSleep(p) PROVE Reported'
  BY <1>2 DEF AcquireSleep, Go
<1>3. ASSUME NEW p \in Proc, Submit(p) PROVE Reported'
  BY <1>3 DEF Submit, Go
<1>4. ASSUME NEW p \in Proc, TooFew(p) PROVE Reported'
  BY <1>4 DEF TooFew, WakesForDesc
<1>5. ASSUME NEW p \in Proc, Finish(p) PROVE Reported'
  BY <1>5 DEF Finish, Go, FreeChain, WakesForDesc, StillOwned
<1>6. ASSUME NEW p \in Proc, ReleaseSleep(p) PROVE Reported'
  BY <1>6 DEF ReleaseSleep, Go
<1>7. ASSUME NEW p \in Proc, Brelse(p) PROVE Reported'
  BY <1>7 DEF Brelse, Go, OneFewer
<1>8. ASSUME NEW p \in Proc, NEW k \in Block, Bget(p, k) PROVE Reported'
  BY <1>8 DEF Bget, BgetCached, BgetRecycle, Go
<1>9. ASSUME NEW p \in Proc, NEW v \in Value, Modify(p, v) PROVE Reported'
  BY <1>9 DEF Modify
<1>10. ASSUME NEW p \in Proc, Bwrite(p) PROVE Reported'
  BY <1>10 DEF Bwrite, Go
<1>11. ASSUME NEW p \in Proc, Bpin(p) PROVE Reported'
  BY <1>11 DEF Bpin
<1>12. ASSUME NEW p \in Proc, Bunpin(p) PROVE Reported'
  BY <1>12 DEF Bunpin
<1>13. ASSUME NEW p \in Proc, KillWakes(p) PROVE Reported'
  BY <1>13 DEF KillWakes
<1>14. ASSUME IntrAck PROVE Reported'
  BY <1>14 DEF IntrAck
<1>15. ASSUME IntrEntry PROVE Reported'
  BY <1>15 DEF IntrEntry, WakesReader
<1>16. ASSUME IntrDone PROVE Reported'
  BY <1>16 DEF IntrDone
<1>17. ASSUME NEW d \in Desc, Device(d) PROVE Reported'
  BY <1>17 DEF Device
<1> QED
  BY <1>1, <1>2, <1>3, <1>4, <1>5, <1>6, <1>7, <1>8, <1>9, <1>10, <1>11, <1>12, <1>13,
     <1>14, <1>15, <1>16, <1>17 DEF Next, Driver, Release, Use, Handler

\* A step that wakes some sleepers and leaves the rest as they were.
LEMMA WaitedKept ==
  ASSUME Waited, asleep' \subseteq asleep, UNCHANGED <<chain, free, avail, used>>,
         \A q \in asleep' : /\ pc'[q] = pc[q] /\ buf'[q] = buf[q]
                            /\ pc[q] = "lock" => locked'[buf[q]] = locked[buf[q]]
  PROVE  Waited'
<1>1. \A q \in Proc : Head0(q)' = Head0(q)
  BY DEF Head0
<1>2. Rings' = Rings
  BY DEF Rings
<1> USE DEF Waiting
<1>3. \A q \in asleep' : pc'[q] = "lock" => locked'[buf'[q]] # Nobody
  BY DEF Waited
<1>4. \A q \in asleep' : pc'[q] = "rw" => Cardinality(free') < 3
  BY DEF Waited
<1>5. \A q \in asleep' : pc'[q] = "wait" => Head0(q)' \in Rings'
  <2>1. \A q : Head0(q)' = Head0(q)
    BY DEF Head0
  <2> QED
    BY <1>2, <2>1 DEF Waited
<1> QED
  BY <1>3, <1>4, <1>5 DEF Waited


\* Every step leaves each sleeper with what will wake it.
LEMMA WaitedStep ==
  ASSUME TypeOK, References, Calls, Chains, Requests, Waited, [Next]_vars
  PROVE  Waited'
<1> USE DEF cacheVars, driverVars
<1>1. CASE UNCHANGED vars
  BY <1>1, WaitedKept DEF vars
<1>2. ASSUME NEW p \in Proc, AcquireSleep(p) PROVE Waited'
  <2>1. buf[p] \in Buf
    BY <1>2, HeldBuffer DEF AcquireSleep
  <2>2. CASE locked[buf[p]] # Nobody
    <3>1. /\ asleep' = asleep \union {p} /\ pc[p] = "lock"
          /\ UNCHANGED <<locked, pc, buf, free, avail, used, chain>>
      BY <1>2, <2>2 DEF AcquireSleep
    <3>2. \A q : Head0(q)' = Head0(q) /\ Waiting(q)' = Waiting(q)
      BY <3>1 DEF Head0, Waiting
    <3>3. Rings' = Rings /\ ~Waiting(p)
      BY <3>1 DEF Rings, Waiting
    <3> QED
      BY <2>2, <3>1, <3>2, <3>3 DEF Waited
  <2>3. CASE locked[buf[p]] = Nobody
    <3>1. /\ p \notin asleep /\ asleep' = asleep /\ locked' = [locked EXCEPT ![buf[p]] = p]
          /\ \A q \in asleep : pc'[q] = pc[q]
          /\ UNCHANGED <<buf, free, avail, used, chain>>
      BY <1>2, <2>3 DEF AcquireSleep, Go, TypeOK
    <3>2. \A q \in asleep : pc[q] = "lock" => buf[q] # buf[p]
      BY <2>3 DEF Waited
    <3>3. \A q \in asleep : pc[q] = "lock" => locked'[buf[q]] = locked[buf[q]]
      <4>1. \A q \in asleep : pc[q] = "lock" => buf[q] \in Buf
        BY HeldBuffer DEF TypeOK
      <4> QED
        BY <3>1, <3>2, <4>1 DEF TypeOK
    <3> QED
      BY <3>1, <3>3, WaitedKept
  <2> QED
    BY <2>2, <2>3
<1>3. ASSUME NEW p \in Proc, Submit(p) PROVE Waited'
  <2>1. /\ pc' = [pc EXCEPT ![p] = "wait"] /\ free' = free \ Lowest3
        /\ Waiting(p)' /\ avail' = avail \union {Head0(p)'}
        /\ \A q \in Proc : q # p => Waiting(q)' = Waiting(q) /\ Head0(q)' = Head0(q)
    BY <1>3, SubmitFacts
  <2>2. asleep' = asleep \union {p} /\ used' = used /\ buf' = buf /\ locked' = locked
    BY <1>3 DEF Submit
  <2>3. Rings' = Rings \union {Head0(p)'}
    BY <2>1, <2>2 DEF Rings
  <2>4. Cardinality(free) < 3 => Cardinality(free') < 3
    <3>1. IsFiniteSet(Desc)
      BY BlockIoAssumption, FS_Interval DEF Desc
    <3>2. free \subseteq Desc
      BY DEF TypeOK
    <3>3. Cardinality(free) \in Nat
      BY <3>1, <3>2, FS_Subset, FS_CardinalityType
    <3> QED
      BY <1>3, <3>3 DEF Submit
  <2>5. asleep \subseteq Proc /\ pc'[p] = "wait" /\ \A q \in Proc : q # p => pc'[q] = pc[q]
    BY <2>1 DEF TypeOK
  <2>6. \A q \in asleep' : pc'[q] = "lock" => locked'[buf'[q]] # Nobody
    BY <2>2, <2>5 DEF Waited
  <2>7. \A q \in asleep' : pc'[q] = "rw" => Cardinality(free') < 3
    BY <2>2, <2>4, <2>5 DEF Waited
  <2>8. \A q \in asleep' : Waiting(q)' => Head0(q)' \in Rings'
    BY <2>1, <2>2, <2>3, <2>5 DEF Waited
  <2> QED
    BY <2>6, <2>7, <2>8 DEF Waited
<1>4. ASSUME NEW p \in Proc, TooFew(p) PROVE Waited'
  <2>1. /\ pc[p] = "rw" /\ Cardinality(free) < 3 /\ asleep' \subseteq asleep \union {p}
        /\ UNCHANGED <<pc, buf, locked, free, avail, used, chain>>
    BY <1>4 DEF TooFew, WakesForDesc
  <2>2. \A q : Head0(q)' = Head0(q) /\ Waiting(q)' = Waiting(q)
    BY <2>1 DEF Head0, Waiting
  <2>3. Rings' = Rings /\ ~Waiting(p)
    BY <2>1 DEF Rings, Waiting
  <2> QED
    BY <2>1, <2>2, <2>3 DEF Waited
<1>5. ASSUME NEW p \in Proc, Finish(p) PROVE Waited'
  <2>1. CASE StillOwned(buf[p])
    <3>1. /\ asleep' = asleep \union {p} /\ pc[p] = "wait"
          /\ UNCHANGED <<locked, pc, buf, free, avail, used, chain>>
      BY <1>5, <2>1 DEF Finish
    <3>2. \A q : Head0(q)' = Head0(q) /\ Waiting(q)' = Waiting(q)
      BY <3>1 DEF Head0, Waiting
    <3>3. Rings' = Rings /\ Head0(p) \in Rings
      BY <2>1, <3>1 DEF Rings, Waiting, Requests, StillOwned
    <3> QED
      BY <3>1, <3>2, <3>3 DEF Waited
  <2>2. CASE ~StillOwned(buf[p])
    <3>1. /\ asleep' = asleep \ AnySleepers("rw") /\ pc' = [pc EXCEPT ![p] = "hold"]
          /\ \A q \in Proc : q # p => Waiting(q)' = Waiting(q) /\ Head0(q)' = Head0(q)
          /\ ~Waiting(p)'
      BY <1>5, <2>2, FinishFacts
    <3>2. UNCHANGED <<locked, buf, avail, used>> /\ p \notin asleep
      BY <1>5 DEF Finish
    <3>3. Rings' = Rings
      BY <3>2 DEF Rings
    <3>4. \A q \in asleep' : q \in asleep /\ pc'[q] = pc[q] /\ pc[q] # "rw" /\ q # p /\ q \in Proc
      BY <3>1, <3>2 DEF AnySleepers, TypeOK
    <3> QED
      BY <3>1, <3>2, <3>3, <3>4 DEF Waited
  <2> QED
    BY <2>1, <2>2
<1>6. ASSUME NEW p \in Proc, ReleaseSleep(p) PROVE Waited'
  <2>1. /\ asleep' = asleep \ Sleepers("lock", buf[p]) /\ pc[p] = "hold"
        /\ pc' = [pc EXCEPT ![p] = "unref"] /\ locked' = [locked EXCEPT ![buf[p]] = Nobody]
        /\ UNCHANGED <<buf, free, avail, used, chain>>
    BY <1>6 DEF ReleaseSleep, Go
  <2>2. p \notin asleep
    BY <2>1 DEF Calls
  <2>3. \A q \in asleep' : pc'[q] = pc[q] /\ (pc[q] = "lock" => buf[q] # buf[p])
    BY <2>1, <2>2 DEF Sleepers, TypeOK
  <2>4. \A q \in asleep : pc[q] = "lock" => buf[q] \in Buf
    BY HeldBuffer DEF TypeOK
  <2>5. \A q \in asleep' : pc[q] = "lock" => locked'[buf[q]] = locked[buf[q]]
    BY <2>1, <2>3, <2>4 DEF TypeOK
  <2> QED
    BY <2>1, <2>3, <2>5, WaitedKept
<1>7. ASSUME NEW p \in Proc, Brelse(p) PROVE Waited'
  <2>1. /\ pc[p] = "unref" /\ pc' = [pc EXCEPT ![p] = "idle"]
        /\ buf' = [buf EXCEPT ![p] = 0] /\ UNCHANGED <<asleep, locked, free, avail, used, chain>>
    BY <1>7 DEF Brelse, Go
  <2>2. p \notin asleep
    BY <2>1 DEF Calls
  <2>3. \A q \in asleep : pc'[q] = pc[q] /\ buf'[q] = buf[q]
    BY <2>1, <2>2 DEF TypeOK
  <2> QED
    BY <2>1, <2>3, WaitedKept
<1>8. ASSUME NEW p \in Proc, NEW k \in Block, Bget(p, k) PROVE Waited'
  <2>1. PICK i \in Buf : /\ buf' = [buf EXCEPT ![p] = i] /\ pc' = [pc EXCEPT ![p] = "lock"]
                         /\ pc[p] = "idle"
    BY <1>8, BgetFacts
  <2>2. UNCHANGED <<asleep, locked, free, avail, used, chain>>
    BY <1>8 DEF Bget
  <2>3. p \notin asleep
    BY <2>1 DEF Calls
  <2>4. \A q \in asleep : pc'[q] = pc[q] /\ buf'[q] = buf[q]
    BY <2>1, <2>3 DEF TypeOK
  <2> QED
    BY <2>2, <2>4, WaitedKept
<1>9. ASSUME NEW p \in Proc, NEW v \in Value, Modify(p, v) PROVE Waited'
  BY <1>9, WaitedKept DEF Modify
<1>10. ASSUME NEW p \in Proc, Bwrite(p) PROVE Waited'
  <2>1. /\ pc[p] = "hold" /\ pc' = [pc EXCEPT ![p] = "rw"]
        /\ UNCHANGED <<buf, asleep, locked, free, avail, used, chain>>
    BY <1>10 DEF Bwrite, Go
  <2>2. p \notin asleep
    BY <2>1 DEF Calls
  <2>3. \A q \in asleep : pc'[q] = pc[q]
    BY <2>1, <2>2 DEF TypeOK
  <2> QED
    BY <2>1, <2>3, WaitedKept
<1>11. ASSUME NEW p \in Proc, Bpin(p) PROVE Waited'
  BY <1>11, WaitedKept DEF Bpin
<1>12. ASSUME NEW p \in Proc, Bunpin(p) PROVE Waited'
  BY <1>12, WaitedKept DEF Bunpin
<1>13. ASSUME NEW p \in Proc, KillWakes(p) PROVE Waited'
  BY <1>13, WaitedKept DEF KillWakes
<1>14. ASSUME IntrAck PROVE Waited'
  BY <1>14, WaitedKept DEF IntrAck
<1>15. ASSUME IntrEntry PROVE Waited'
  <2>1. /\ used # <<>> /\ used' = Tail(used) /\ avail' = avail
        /\ asleep' = asleep \ Sleepers("wait", info[Head(used)].b)
        /\ UNCHANGED <<pc, buf, locked, free, chain>>
    BY <1>15 DEF IntrEntry, WakesReader
  <2>2. Range(Tail(used)) = Range(used) \ {Head(used)}
    BY <2>1, TailFacts
  <2>3. Rings \ {Head(used)} \subseteq Rings'
    BY <2>1, <2>2 DEF Rings
  <2>4. \A q : Head0(q)' = Head0(q) /\ Waiting(q)' = Waiting(q)
    BY <2>1 DEF Head0, Waiting
  <2>5. ASSUME NEW q \in asleep', Waiting(q) PROVE Head0(q) # Head(used)
    <3>1. info[Head0(q)] = [b |-> buf[q], sector |-> blockno[buf[q]], write |-> valid[buf[q]]]
      BY <2>1, <2>5 DEF Chains, TypeOK
    <3>2. info[Head0(q)].b = buf[q]
      BY <3>1
    <3> QED
      BY <2>1, <2>5, <3>2 DEF Sleepers, Waiting
  <2>6. \A q \in asleep' : Waiting(q)' => Head0(q)' \in Rings'
    BY <2>1, <2>3, <2>4, <2>5 DEF Waited
  <2> QED
    BY <2>1, <2>6 DEF Waited
<1>16. ASSUME IntrDone PROVE Waited'
  BY <1>16, WaitedKept DEF IntrDone
<1>17. ASSUME NEW d \in Desc, Device(d) PROVE Waited'
  <2>1. Rings' = Rings
    <3>1. d \in avail /\ d \in Desc /\ avail' = avail \ {d} /\ used' = Append(used, d)
      BY <1>17 DEF Device
    <3>2. Range(used') = Range(used) \union {d}
      BY <3>1, UsedFacts DEF TypeOK
    <3> QED
      BY <3>1, <3>2 DEF Rings
  <2>2. UNCHANGED <<pc, buf, asleep, locked, free, chain>>
    BY <1>17 DEF Device
  <2>3. \A q : Head0(q)' = Head0(q) /\ Waiting(q)' = Waiting(q)
    BY <2>2 DEF Head0, Waiting
  <2> QED
    BY <2>1, <2>2, <2>3 DEF Waited
<1> QED
  BY <1>1, <1>2, <1>3, <1>4, <1>5, <1>6, <1>7, <1>8, <1>9, <1>10, <1>11, <1>12, <1>13,
     <1>14, <1>15, <1>16, <1>17 DEF Next, Driver, Release, Use, Handler

-----------------------------------------------------------------------------
(* The invariant *)

\* At first no buffer is labelled or used and every descriptor is free.
LEMMA InitInv == Init => BlockIoInv
<1> SUFFICES ASSUME Init PROVE BlockIoInv
  OBVIOUS
<1> USE DEF Init
<1>1. Cardinality(Proc) \in Nat /\ NBUF \in Nat
  BY BlockIoAssumption, FS_CardinalityType
<1>2. InitialList \in [Buf -> Buf]
  BY <1>1 DEF InitialList, Buf
<1>3. TypeOK
  <2>1. 0 \in 0 .. Cardinality(Proc) + 1 /\ 0 \in 0 .. NBUF
    BY <1>1
  <2>2. refcnt \in [Buf -> 0 .. Cardinality(Proc) + 1] /\ buf \in [Proc -> 0 .. NBUF]
    BY <2>1
  <2>3. used \in Seq(Desc)
    OBVIOUS
  <2>4. data \in [Buf -> Value] /\ medium \in [Block -> Value] /\ lru \in [Buf -> Buf]
    BY <1>2, BlockIoAssumption
  <2>5. info \in [Desc -> {None} \union [b : Buf, sector : Block, write : BOOLEAN]]
    OBVIOUS
  <2> QED
    BY <2>2, <2>3, <2>4, <2>5 DEF TypeOK
<1>4. 0 \notin Buf
  BY DEF Buf
<1>5. References
  <2>1. \A i \in Buf : Uses(i) = {}
    BY <1>4 DEF Uses
  <2>2. \A i \in Buf : PinRef(i) = 0
    BY DEF PinRef
  <2>3. Cardinality({}) = 0 /\ IsFiniteSet({})
    BY FS_EmptySet
  <2>4. ASSUME NEW i \in Buf PROVE refcnt[i] = Cardinality(Uses(i)) + PinRef(i)
    <3>1. Cardinality(Uses(i)) = 0
      BY <2>1, <2>3
    <3>2. refcnt[i] = 0 /\ PinRef(i) = 0
      BY <2>2
    <3> QED
      BY <3>1, <3>2
  <2> QED
    BY <2>3, <2>4 DEF References
<1>6. Calls
  BY <1>4, BlockIoAssumption DEF Calls, Locking
<1>7. Chains
  BY DEF Chains, Waiting
<1>8. Rings = {} /\ Range(used) = {}
  BY DEF Rings, Range
<1>9. Requests /\ ReadsDone
  BY <1>8 DEF Requests, ReadsDone, Waiting
<1>10. Reported /\ Waited
  BY DEF Reported, Waited
<1> QED
  BY <1>3, <1>5, <1>6, <1>7, <1>9, <1>10 DEF BlockIoInv

\* Every step keeps the invariant.
LEMMA StepInv == BlockIoInv /\ [Next]_vars => BlockIoInv'
<1> SUFFICES ASSUME BlockIoInv, [Next]_vars PROVE BlockIoInv'
  OBVIOUS
<1>1. TypeOK /\ References /\ Calls /\ Chains /\ Requests /\ ReadsDone /\ Reported /\ Waited
  BY DEF BlockIoInv
<1>2. References' /\ Calls' /\ Chains'
  BY <1>1, ReferencesStep, CallsStep, ChainsStep
<1>3. Requests' /\ ReadsDone'
  BY <1>1, RequestsStep, ReadsDoneStep
<1>4. Reported' /\ Waited'
  BY <1>1, ReportedStep, WaitedStep
<1>5. TypeOK'
  BY <1>1, <1>2, TypesStep
<1> QED
  BY <1>2, <1>3, <1>4, <1>5 DEF BlockIoInv

\* In every reachable state references, calls, chains, requests and sleepers agree
\* (bio.c, sleeplock.c, virtio_disk.c).
THEOREM BlockIoInvariant == Spec => []BlockIoInv
<1>1. Init => BlockIoInv
  BY InitInv
<1>2. BlockIoInv /\ [Next]_vars => BlockIoInv'
  BY StepInv
<1> QED
  BY <1>1, <1>2, PTL DEF Spec

-----------------------------------------------------------------------------
(* What follows from it *)

\* Every variable keeps its type; in particular a reference count stays within the
\* processes and the log (bio.c: bget, brelse, bpin, bunpin).
THEOREM BlockIoTypes == Spec => []TypeOK
<1>1. BlockIoInv => TypeOK
  BY DEF BlockIoInv
<1> QED
  BY <1>1, BlockIoInvariant, PTL

\* The request in the rings names the buffer of the process that waits for it.
LEMMA Owned == BlockIoInv => DescriptorsOwned
<1> SUFFICES ASSUME BlockIoInv PROVE DescriptorsOwned
  OBVIOUS
<1>1. TypeOK /\ Calls /\ Chains /\ Requests
  BY DEF BlockIoInv
<1>2. ASSUME NEW d \in avail \union Range(used)
      PROVE  \E p \in Proc : pc[p] = "wait" /\ d = Min(chain[p]) /\ info[d].b = buf[p]
  <2>1. PICK p \in Proc :
          /\ Waiting(p) /\ d = Head0(p)
          /\ info[d] = [b |-> buf[p], sector |-> blockno[buf[p]], write |-> valid[buf[p]]]
    BY <1>1, RequestOf DEF Rings
  <2>2. info[d].b = buf[p]
    BY <2>1
  <2> QED
    BY <2>1, <2>2 DEF Waiting, Head0
<1>3. /\ \A d \in Desc : d \in free <=> \A p \in Proc : d \notin chain[p]
      /\ \A p, q \in Proc : p # q => chain[p] \intersect chain[q] = {}
  BY <1>1 DEF Chains
<1> QED
  BY <1>2, <1>3 DEF DescriptorsOwned

\* A descriptor is free or in one chain, and a chain in the rings is that of a process
\* that still waits: none is freed twice or under the device (virtio_disk.c:
\* alloc3_desc, free_chain, virtio_disk_intr).
THEOREM DescriptorsHaveOneOwner == Spec => []DescriptorsOwned
BY Owned, BlockIoInvariant, PTL

\* Each sleeper's case of the property.
LEMMA Woken == BlockIoInv => SleepersHaveAWaker
<1> SUFFICES ASSUME BlockIoInv, NEW p \in asleep
    PROVE CASE pc[p] = "lock" -> locked[buf[p]] # Nobody
            [] pc[p] = "rw"   -> Cardinality(free) < 3
            [] pc[p] = "wait" -> /\ Min(chain[p]) \in avail \union Range(used)
                                 /\ used # <<>> => irq \/ handler = "drain"
  BY DEF SleepersHaveAWaker
<1>1. Waited /\ Reported /\ pc[p] \in {"lock", "rw", "wait"}
  BY DEF BlockIoInv, Calls
<1>2. CASE pc[p] = "lock"
  BY <1>1, <1>2 DEF Waited
<1>3. CASE pc[p] = "rw"
  BY <1>1, <1>3 DEF Waited
<1>4. CASE pc[p] = "wait"
  <2>1. Min(chain[p]) \in avail \union Range(used)
    BY <1>1, <1>4 DEF Waited, Waiting, Head0, Rings
  <2>2. used # <<>> => irq \/ handler = "drain"
    BY <1>1 DEF Reported
  <2> QED
    BY <1>4, <2>1, <2>2
<1> QED
  BY <1>1, <1>2, <1>3, <1>4

\* Nobody sleeps for a lock that is free, descriptors that are free or a request whose
\* completion no interrupt will report (sleeplock.c: acquiresleep; virtio_disk.c:
\* free_desc, virtio_disk_intr).
THEOREM SleepersWakeUp == Spec => []SleepersHaveAWaker
BY Woken, BlockIoInvariant, PTL

\* A full cache is one whose every buffer is pinned or in use.
LEMMA Full == BlockIoInv => PanicsOnlyWhenFull
<1> SUFFICES ASSUME BlockIoInv, \A i \in Buf : refcnt[i] > 0
    PROVE Cardinality(pinned) + Cardinality({p \in Proc : buf[p] # 0}) >= NBUF
  BY DEF PanicsOnlyWhenFull
<1> DEFINE pins == {i \in Buf : blockno[i] \in pinned}
           rest == Buf \ pins
           users == {p \in Proc : buf[p] # 0}
<1>1. TypeOK /\ References
  BY DEF BlockIoInv
<1>2. IsFiniteSet(Buf) /\ Cardinality(Buf) = NBUF
  BY BlockIoAssumption, FS_Interval DEF Buf
<1>3. IsFiniteSet(pins) /\ IsFiniteSet(rest)
  BY <1>2, FS_Subset
<1>4. Cardinality(pins) + Cardinality(rest) = NBUF
  <2>1. pins \union rest = Buf /\ pins \intersect rest = {}
    OBVIOUS
  <2>2. Cardinality(pins \union rest)
          = Cardinality(pins) + Cardinality(rest) - Cardinality(pins \intersect rest)
    BY <1>3, FS_Union
  <2>3. Cardinality(pins) \in Nat /\ Cardinality(rest) \in Nat /\ Cardinality({}) = 0
    BY <1>3, FS_CardinalityType, FS_EmptySet
  <2> HIDE DEF pins, rest
  <2> QED
    <3>1. Cardinality(Buf) = Cardinality(pins) + Cardinality(rest) - Cardinality({})
      BY <2>1, <2>2
    <3> QED
      BY <1>2, <2>3, <3>1
<1>5. IsFiniteSet(pinned) /\ IsFiniteSet(users)
  BY <1>1, BlockIoAssumption, FS_Subset DEF References
<1>6. Cardinality(pins) <= Cardinality(pinned)
  <2> DEFINE f == [i \in pins |-> blockno[i]]
  <2>1. \A i, j \in pins : f[i] = f[j] => i = j
    BY <1>1, BlockIoAssumption DEF References, TypeOK
  <2>2. f \in [pins -> pinned]
    OBVIOUS
  <2>3. f \in Injection(pins, pinned)
    BY <2>1, <2>2 DEF Injection, IsInjective
  <2> QED
    BY <1>5, <2>3, FS_Injection
<1>7. Cardinality(rest) <= Cardinality(users)
  <2> DEFINE f == [i \in rest |-> CHOOSE p \in Proc : buf[p] = i]
  <2>1. ASSUME NEW i \in rest PROVE \E p \in Proc : buf[p] = i
    <3>1. refcnt[i] = Cardinality(Uses(i)) + PinRef(i) /\ refcnt[i] > 0 /\ PinRef(i) = 0
      BY <1>1 DEF References, PinRef
    <3>2. Uses(i) # {}
      BY <3>1, FS_EmptySet
    <3> QED
      BY <3>2 DEF Uses
  <2>2. \A i \in rest : f[i] \in Proc /\ buf[f[i]] = i
    BY <2>1
  <2>3. \A i \in rest : f[i] \in users
    BY <2>2 DEF Buf
  <2>4. \A i, j \in rest : f[i] = f[j] => i = j
    BY <2>2
  <2>5. f \in Injection(rest, users)
    BY <2>3, <2>4 DEF Injection, IsInjective
  <2> QED
    BY <1>5, <2>5, FS_Injection
<1>8. /\ Cardinality(pins) \in Nat /\ Cardinality(rest) \in Nat
      /\ Cardinality(pinned) \in Nat /\ Cardinality(users) \in Nat
  BY <1>3, <1>5, FS_CardinalityType
<1> HIDE DEF pins, rest, users
<1>9. Cardinality(pinned) + Cardinality(users) >= NBUF
  BY <1>4, <1>6, <1>7, <1>8, BlockIoAssumption
<1> QED
  BY <1>9 DEF users

\* bget() finds no buffer only when pins and processes have them all: no reference is
\* left behind (bio.c: bget, brelse, bpin, bunpin).
THEOREM NoReferenceLeaks == Spec => []PanicsOnlyWhenFull
BY Full, BlockIoInvariant, PTL

-----------------------------------------------------------------------------
(* One copy of each block, with one user *)

\* What a process sees of a block: its valid buffer, or else the disk.
CopiesAre ==
  /\ \A i \in Buf : blockno[i] \in Block /\ valid[i] => Copies[blockno[i]] = data[i]
  /\ \A k \in Block : (\A i \in Buf : blockno[i] = k => ~valid[i]) => Copies[k] = medium[k]
  /\ Copies = [k \in Block |-> Copies[k]]

\* Who has a block: the holder of its lock once its contents are there.
UsersAre ==
  /\ \A p \in Proc, k \in Block : Holds(p, k) => Users[k] = p
  /\ \A k \in Block : (\A p \in Proc : ~Holds(p, k)) => Users[k] = Nobody
  /\ Users = [k \in Block |-> Users[k]]

\* The holder of a block is at its buffer, with the lock.
LEMMA HolderFacts ==
  ASSUME TypeOK, Calls, NEW p \in Proc, NEW k \in Block, Holds(p, k)
  PROVE  /\ pc[p] \in Locking /\ buf[p] \in Buf /\ blockno[buf[p]] = k /\ valid[buf[p]]
         /\ locked[buf[p]] = p
<1>1. pc[p] \in Locking /\ blockno[buf[p]] = k
  BY DEF Holds, Locking
<1>2. buf[p] \in Buf
  BY <1>1, HeldBuffer DEF Locking
<1>3. valid[buf[p]]
  BY DEF Holds, Calls
<1> QED
  BY <1>1, <1>2, <1>3 DEF Calls

\* A block has one buffer and one user.
LEMMA StoreFacts == BlockIoInv => CopiesAre /\ UsersAre
<1> SUFFICES ASSUME BlockIoInv PROVE CopiesAre /\ UsersAre
  OBVIOUS
<1>1. TypeOK /\ References /\ Calls
  BY DEF BlockIoInv
<1>2. ASSUME NEW i \in Buf, blockno[i] \in Block, valid[i] PROVE Copies[blockno[i]] = data[i]
  <2> DEFINE k == blockno[i]
             j == CHOOSE j \in Buf : blockno[j] = k /\ valid[j]
  <2>1. j \in Buf /\ blockno[j] = k
    BY <1>2
  <2>2. j = i
    BY <1>1, <1>2, <2>1, BlockIoAssumption DEF References
  <2>3. Copies[k] = data[j]
    BY <1>2 DEF Copies
  <2> QED
    BY <2>2, <2>3
<1>3. \A k \in Block : (\A i \in Buf : blockno[i] = k => ~valid[i]) => Copies[k] = medium[k]
  BY DEF Copies
<1>4. ASSUME NEW p \in Proc, NEW k \in Block, Holds(p, k) PROVE Users[k] = p
  <2> DEFINE q == CHOOSE q \in Proc : Holds(q, k)
  <2>1. q \in Proc /\ Holds(q, k)
    BY <1>4
  <2>2. Users[k] = q
    BY <1>4 DEF Users
  <2> HIDE DEF q
  <2>3. /\ pc[p] \in Locking /\ buf[p] \in Buf /\ blockno[buf[p]] = k
        /\ pc[q] \in Locking /\ buf[q] \in Buf /\ blockno[buf[q]] = k
    BY <1>1, <1>4, <2>1, HolderFacts
  <2>4. buf[p] = buf[q]
    BY <1>1, <2>3, BlockIoAssumption DEF References
  <2> QED
    BY <1>1, <2>1, <2>2, <2>3, <2>4, OneHolder
<1>5. \A k \in Block : (\A p \in Proc : ~Holds(p, k)) => Users[k] = Nobody
  BY DEF Users
<1>6. Copies = [k \in Block |-> Copies[k]] /\ Users = [k \in Block |-> Users[k]]
  BY DEF Copies, Users
<1> QED
  BY <1>2, <1>3, <1>4, <1>5, <1>6 DEF CopiesAre, UsersAre

\* A block whose buffer and place on disk stay is seen as before.
LEMMA CopyKept ==
  ASSUME CopiesAre, CopiesAre', NEW k \in Block, medium'[k] = medium[k],
         \A i \in Buf : /\ blockno'[i] = k <=> blockno[i] = k
                        /\ blockno[i] = k => /\ valid'[i] <=> valid[i]
                                             /\ valid[i] => data'[i] = data[i]
  PROVE  Copies'[k] = Copies[k]
<1>1. CASE \E i \in Buf : blockno[i] = k /\ valid[i]
  <2>1. PICK i \in Buf : blockno[i] = k /\ valid[i]
    BY <1>1
  <2>2. Copies[k] = data[i]
    BY <2>1 DEF CopiesAre
  <2>3. blockno'[i] = k /\ valid'[i] /\ data'[i] = data[i]
    BY <2>1
  <2>4. Copies'[k] = data'[i]
    BY <2>3 DEF CopiesAre
  <2> QED
    BY <2>2, <2>3, <2>4
<1>2. CASE \A i \in Buf : blockno[i] = k => ~valid[i]
  <2>1. Copies[k] = medium[k]
    BY <1>2 DEF CopiesAre
  <2>2. \A i \in Buf : blockno'[i] = k => ~valid'[i]
    BY <1>2
  <2>3. Copies'[k] = medium'[k]
    BY <2>2 DEF CopiesAre
  <2> QED
    BY <2>1, <2>3
<1> QED
  BY <1>1, <1>2

\* A block whose holder stays has the user it had.
LEMMA UserKept ==
  ASSUME UsersAre, UsersAre', NEW k \in Block, \A q \in Proc : Holds(q, k)' <=> Holds(q, k)
  PROVE  Users'[k] = Users[k]
<1>1. CASE \E q \in Proc : Holds(q, k)
  <2>1. PICK q \in Proc : Holds(q, k)
    BY <1>1
  <2>2. Users[k] = q
    BY <2>1 DEF UsersAre
  <2>3. Holds(q, k)'
    BY <2>1
  <2>4. Users'[k] = q
    BY <2>3 DEF UsersAre
  <2> QED
    BY <2>2, <2>4
<1>2. CASE \A q \in Proc : ~Holds(q, k)
  <2>1. Users[k] = Nobody
    BY <1>2 DEF UsersAre
  <2>2. \A q \in Proc : ~Holds(q, k)'
    BY <1>2
  <2>3. Users'[k] = Nobody
    BY <2>2 DEF UsersAre
  <2> QED
    BY <2>1, <2>3
<1> QED
  BY <1>1, <1>2

\* Nothing about any buffer changed.
LEMMA CopiesKept ==
  ASSUME UNCHANGED <<blockno, valid, data, medium>>
  PROVE  Copies' = Copies
BY DEF Copies

\* No holder came or went.
LEMMA UsersKept ==
  ASSUME UsersAre, UsersAre', \A q \in Proc, k \in Block : Holds(q, k)' <=> Holds(q, k)
  PROVE  Users' = Users
<1>1. \A k \in Block : Users'[k] = Users[k]
  BY UserKept
<1> QED
  BY <1>1 DEF UsersAre

\* A process p comes to hold block k, and nobody else's hold changes.
LEMMA UserTakes ==
  ASSUME UsersAre, UsersAre', NEW p \in Proc, NEW k \in Block, Holds(p, k)',
         \A q \in Proc : ~Holds(q, k),
         \A q \in Proc, l \in Block : l # k => (Holds(q, l)' <=> Holds(q, l))
  PROVE  Users[k] = Nobody /\ Users' = [Users EXCEPT ![k] = p]
<1>1. Users[k] = Nobody /\ Users'[k] = p
  BY DEF UsersAre
<1>2. \A l \in Block : l # k => Users'[l] = Users[l]
  BY UserKept
<1> QED
  BY <1>1, <1>2 DEF UsersAre

\* A process p lets go of block k, and nobody else's hold changes.
LEMMA UserGives ==
  ASSUME UsersAre, UsersAre', NEW p \in Proc, NEW k \in Block, Holds(p, k),
         \A q \in Proc : ~Holds(q, k)',
         \A q \in Proc, l \in Block : l # k => (Holds(q, l)' <=> Holds(q, l))
  PROVE  Users[k] = p /\ Users' = [Users EXCEPT ![k] = Nobody]
<1>1. Users[k] = p /\ Users'[k] = Nobody
  BY DEF UsersAre
<1>2. \A l \in Block : l # k => Users'[l] = Users[l]
  BY UserKept
<1> QED
  BY <1>1, <1>2 DEF UsersAre

-----------------------------------------------------------------------------
(* Steps of the store *)

\* bget() may give another block's buffer away, which drops that block.
LEMMA BgetRefines ==
  ASSUME BlockIoInv, CopiesAre, CopiesAre', UsersAre, UsersAre',
         NEW p \in Proc, NEW k \in Block, Bget(p, k)
  PROVE  [Store!StoreNext]_Store!storeVars
<1> USE DEF Store!storeVars
<1>1. TypeOK /\ References /\ Calls
  BY DEF BlockIoInv
<1>2. UNCHANGED <<data, medium, pinned>> /\ pc[p] = "idle"
  BY DEF Bget
<1>3. PICK i \in Buf :
        /\ pc' = [pc EXCEPT ![p] = "lock"] /\ buf' = [buf EXCEPT ![p] = i]
        /\ \A q \in Proc : q # p /\ pc[q] # "idle" =>
             /\ buf[q] \in Buf
             /\ blockno'[buf[q]] = blockno[buf[q]] /\ valid'[buf[q]] = valid[buf[q]]
  BY <1>1, BgetFacts
<1>4. ASSUME NEW q \in Proc, NEW l \in Block PROVE Holds(q, l)' <=> Holds(q, l)
  <2>1. CASE q = p
    BY <1>1, <1>2, <1>3, <2>1 DEF Holds, TypeOK
  <2>2. CASE q # p
    <3>1. pc'[q] = pc[q] /\ buf'[q] = buf[q]
      BY <1>1, <1>3, <2>2 DEF TypeOK
    <3>2. CASE pc[q] = "idle"
      BY <3>1, <3>2 DEF Holds
    <3>3. CASE pc[q] # "idle"
      BY <1>3, <2>2, <3>1, <3>3 DEF Holds
    <3> QED
      BY <3>2, <3>3
  <2> QED
    BY <2>1, <2>2
<1>5. Users' = Users
  BY <1>4, UsersKept
<1>6. CASE BgetCached(p, k)
  <2>1. Copies' = Copies
    BY <1>2, <1>6, CopiesKept DEF BgetCached
  <2> QED
    BY <1>2, <1>5, <2>1
<1>7. CASE BgetRecycle(p, k)
  <2>1. PICK n \in Buf : /\ \A j \in Buf : blockno[j] # k
                         /\ refcnt[n] = 0
                         /\ blockno' = [blockno EXCEPT ![n] = k]
                         /\ valid' = [valid EXCEPT ![n] = FALSE]
    BY <1>7 DEF BgetRecycle, LeastRecent
  <2> DEFINE o == blockno[n]
  <2>2. Uses(n) = {} /\ o \notin pinned
    BY <1>1, <2>1, CountFacts
  <2>3. blockno'[n] = k /\ ~valid'[n] /\ o # k
    BY <1>1, <2>1 DEF TypeOK
  <2>4. \A j \in Buf : j # n => blockno'[j] = blockno[j] /\ valid'[j] = valid[j]
    BY <1>1, <2>1 DEF TypeOK
  <2>5. \A j \in Buf : j # n /\ o # NoBlock => blockno[j] # o
    BY <1>1 DEF References
  <2>6. Copies'[k] = Copies[k]
    <3>1. Copies[k] = medium[k]
      BY <2>1 DEF CopiesAre
    <3>2. \A j \in Buf : blockno'[j] = k => ~valid'[j]
      BY <2>1, <2>3, <2>4
    <3>3. Copies'[k] = medium'[k]
      BY <3>2 DEF CopiesAre
    <3> QED
      BY <1>2, <3>1, <3>3
  <2>7. ASSUME NEW l \in Block, l # k, l # o PROVE Copies'[l] = Copies[l]
    <3>1. \A j \in Buf : /\ blockno'[j] = l <=> blockno[j] = l
                         /\ blockno[j] = l => valid'[j] <=> valid[j]
      BY <2>3, <2>4, <2>7
    <3> QED
      BY <1>2, <3>1, CopyKept
  <2>8. CASE o \in Block
    <3>1. \A j \in Buf : blockno'[j] # o
      BY <2>3, <2>4, <2>5, <2>8, BlockIoAssumption
    <3>2. Copies'[o] = medium'[o]
      BY <2>8, <3>1 DEF CopiesAre
    <3>3. Copies' = [Copies EXCEPT ![o] = medium[o]]
      BY <1>2, <2>6, <2>7, <2>8, <3>2 DEF CopiesAre
    <3>4. Users[o] = Nobody
      <4>1. ASSUME NEW q \in Proc PROVE ~Holds(q, o)
        <5>1. SUFFICES ASSUME Holds(q, o) PROVE FALSE
          OBVIOUS
        <5>2. buf[q] \in Buf /\ blockno[buf[q]] = o
          BY <1>1, <2>8, <5>1, HolderFacts
        <5>3. buf[q] = n
          BY <2>5, <2>8, <5>2, BlockIoAssumption
        <5> QED
          BY <2>2, <5>3 DEF Uses
      <4> QED
        BY <2>8, <4>1 DEF UsersAre
    <3>5. Store!Drop(o)
      BY <1>2, <1>5, <2>2, <3>3, <3>4 DEF Store!Drop
    <3> QED
      BY <2>8, <3>5 DEF Store!StoreNext
  <2>9. CASE o \notin Block
    <3>1. \A l \in Block : Copies'[l] = Copies[l]
      BY <2>6, <2>7, <2>9
    <3>2. Copies' = Copies
      BY <3>1 DEF CopiesAre
    <3> QED
      BY <1>2, <1>5, <3>2
  <2> QED
    BY <2>8, <2>9
<1> QED
  BY <1>6, <1>7 DEF Bget

\* acquiresleep() takes a valid buffer's block.
LEMMA AcquireRefines ==
  ASSUME BlockIoInv, CopiesAre, CopiesAre', UsersAre, UsersAre', NEW p \in Proc, AcquireSleep(p)
  PROVE  [Store!StoreNext]_Store!storeVars
<1> USE DEF Store!storeVars
<1>1. TypeOK /\ References /\ Calls
  BY DEF BlockIoInv
<1> DEFINE i == buf[p]
<1>2. UNCHANGED <<blockno, valid, data, medium, pinned, buf>> /\ pc[p] = "lock"
  BY DEF AcquireSleep
<1>3. Copies' = Copies
  BY <1>2, CopiesKept
<1>4. i \in Buf
  BY <1>1, <1>2, HeldBuffer
<1>5. PICK k \in Block : k = blockno[i]
  BY <1>1, <1>2, HeldBuffer
<1>6. \A l \in Block : ~Holds(p, l)
  BY <1>2 DEF Holds
<1>7. CASE pc' = pc
  <2>1. \A q \in Proc, l \in Block : Holds(q, l)' <=> Holds(q, l)
    BY <1>2, <1>7 DEF Holds
  <2>2. Users' = Users
    BY <2>1, UsersKept
  <2> QED
    BY <1>2, <1>3, <2>2
<1>8. CASE locked[i] = Nobody
  <2>1. pc' = [pc EXCEPT ![p] = IF valid[i] THEN "hold" ELSE "rw"]
    BY <1>8 DEF AcquireSleep, Go
  <2>2. \A q \in Proc, l \in Block : q # p => (Holds(q, l)' <=> Holds(q, l))
    BY <1>1, <1>2, <2>1 DEF Holds, TypeOK
  <2>3. CASE ~valid[i]
    <3>1. \A l \in Block : ~Holds(p, l)'
      BY <1>1, <1>2, <2>1, <2>3 DEF Holds, TypeOK
    <3>2. \A q \in Proc, l \in Block : Holds(q, l)' <=> Holds(q, l)
      BY <1>6, <2>2, <3>1
    <3>3. Users' = Users
      BY <3>2, UsersKept
    <3> QED
      BY <1>2, <1>3, <3>3
  <2>4. CASE valid[i]
    <3>1. Holds(p, k)' /\ \A l \in Block : l # k => ~Holds(p, l)'
      BY <1>1, <1>2, <1>5, <2>1, <2>4 DEF Holds, TypeOK
    <3>2. ASSUME NEW q \in Proc PROVE ~Holds(q, k)
      <4>1. SUFFICES ASSUME Holds(q, k) PROVE FALSE
        OBVIOUS
      <4>2. buf[q] \in Buf /\ blockno[buf[q]] = k /\ locked[buf[q]] = q
        BY <1>1, <1>4, <4>1, HolderFacts
      <4>3. buf[q] = i
        BY <1>1, <1>4, <1>5, <4>2, BlockIoAssumption DEF References
      <4> QED
        BY <1>8, <4>2, <4>3, BlockIoAssumption
    <3>3. Users[k] = Nobody /\ Users' = [Users EXCEPT ![k] = p]
      <4>1. \A q \in Proc, l \in Block : l # k => (Holds(q, l)' <=> Holds(q, l))
        BY <1>6, <2>2, <3>1
      <4> QED
        BY <3>1, <3>2, <4>1, UserTakes
    <3>4. Store!Take(p, k)
      BY <1>2, <1>3, <3>3 DEF Store!Take
    <3> QED
      BY <3>4 DEF Store!StoreNext
  <2> QED
    BY <2>3, <2>4
<1> QED
  BY <1>7, <1>8 DEF AcquireSleep

\* A process that holds a buffer has its block.
LEMMA HoldFacts ==
  ASSUME BlockIoInv, CopiesAre, UsersAre, NEW p \in Proc, pc[p] = "hold"
  PROVE  /\ buf[p] \in Buf /\ blockno[buf[p]] \in Block /\ valid[buf[p]]
         /\ Holds(p, blockno[buf[p]]) /\ Users[blockno[buf[p]]] = p
         /\ Copies[blockno[buf[p]]] = data[buf[p]]
<1>1. TypeOK /\ References /\ Calls
  BY DEF BlockIoInv
<1>2. buf[p] \in Buf /\ blockno[buf[p]] \in Block
  BY <1>1, HeldBuffer
<1>3. valid[buf[p]] /\ Holds(p, blockno[buf[p]])
  BY <1>1 DEF Calls, Holds
<1> QED
  BY <1>2, <1>3 DEF CopiesAre, UsersAre

\* A change of a held buffer changes its block.
LEMMA ModifyRefines ==
  ASSUME BlockIoInv, CopiesAre, CopiesAre', UsersAre, UsersAre',
         NEW p \in Proc, NEW v \in Value, Modify(p, v)
  PROVE  [Store!StoreNext]_Store!storeVars
<1> DEFINE k == blockno[buf[p]]
<1>1. TypeOK /\ References
  BY DEF BlockIoInv
<1>2. /\ pc[p] = "hold" /\ data' = [data EXCEPT ![buf[p]] = v]
      /\ UNCHANGED <<blockno, valid, medium, pinned, pc, buf>>
  BY DEF Modify
<1>3. /\ buf[p] \in Buf /\ k \in Block /\ valid[buf[p]] /\ Users[k] = p
  BY <1>2, HoldFacts
<1>4. Users' = Users
  BY <1>2, UsersKept DEF Holds
<1>5. Copies'[k] = v
  <2>1. data'[buf[p]] = v /\ blockno'[buf[p]] = k /\ valid'[buf[p]]
    BY <1>1, <1>2, <1>3 DEF TypeOK
  <2>2. Copies'[blockno'[buf[p]]] = data'[buf[p]]
    BY <1>3, <2>1 DEF CopiesAre
  <2> QED
    BY <2>1, <2>2
<1>6. ASSUME NEW l \in Block, l # k PROVE Copies'[l] = Copies[l]
  <2>1. \A j \in Buf : blockno[j] = l => data'[j] = data[j]
    BY <1>1, <1>2, <1>6 DEF TypeOK
  <2> QED
    BY <1>2, <2>1, CopyKept
<1>7. Copies' = [Copies EXCEPT ![k] = v]
  BY <1>3, <1>5, <1>6 DEF CopiesAre
<1>8. Store!Change(p, k, v)
  BY <1>2, <1>3, <1>4, <1>7 DEF Store!Change
<1> QED
  BY <1>3, <1>8 DEF Store!StoreNext

\* bpin() and bunpin() are the store's.
LEMMA PinRefines ==
  ASSUME BlockIoInv, CopiesAre, CopiesAre', UsersAre, UsersAre', NEW p \in Proc,
         Bpin(p) \/ Bunpin(p)
  PROVE  [Store!StoreNext]_Store!storeVars
<1> DEFINE k == blockno[buf[p]]
<1>1. /\ pc[p] = "hold" /\ pinned' \in {pinned \union {k}, pinned \ {k}}
      /\ UNCHANGED <<blockno, valid, data, medium, pc, buf>>
  BY DEF Bpin, Bunpin
<1>2. k \in Block /\ Users[k] = p
  BY <1>1, HoldFacts
<1>3. Users' = Users
  BY <1>1, UsersKept DEF Holds
<1>4. Copies' = Copies
  BY <1>1, CopiesKept
<1>5. Store!Pin(p, k)
  BY <1>1, <1>2, <1>3, <1>4 DEF Store!Pin
<1> QED
  BY <1>2, <1>5 DEF Store!StoreNext

\* releasesleep() puts the block back.
LEMMA ReleaseRefines ==
  ASSUME BlockIoInv, CopiesAre, CopiesAre', UsersAre, UsersAre', NEW p \in Proc, ReleaseSleep(p)
  PROVE  [Store!StoreNext]_Store!storeVars
<1>1. TypeOK
  BY DEF BlockIoInv
<1>2. /\ pc[p] = "hold" /\ pc' = [pc EXCEPT ![p] = "unref"]
      /\ UNCHANGED <<blockno, valid, data, medium, pinned, buf>>
  BY DEF ReleaseSleep, Go
<1>3. PICK k \in Block : k = blockno[buf[p]]
  BY <1>2, HoldFacts
<1>4. Holds(p, k) /\ Users[k] = p
  BY <1>2, <1>3, HoldFacts
<1>5. \A l \in Block : ~Holds(p, l)'
  BY <1>1, <1>2 DEF Holds, TypeOK
<1>6. \A q \in Proc, l \in Block : q # p => (Holds(q, l)' <=> Holds(q, l))
  BY <1>1, <1>2 DEF Holds, TypeOK
<1>7. \A l \in Block : l # k => ~Holds(p, l)
  BY <1>2, <1>3 DEF Holds
<1>8. \A q \in Proc : q # p => ~Holds(q, k)
  BY <1>4 DEF UsersAre
<1>9. \A q \in Proc : ~Holds(q, k)'
  BY <1>4, <1>5, <1>6, <1>8
<1>10. \A q \in Proc, l \in Block : l # k => (Holds(q, l)' <=> Holds(q, l))
  BY <1>5, <1>6, <1>7
<1>11. Users[k] = p /\ Users' = [Users EXCEPT ![k] = Nobody]
  BY <1>4, <1>9, <1>10, UserGives
<1>12. Store!Put(p, k)
  <2>1. Copies' = Copies
    BY <1>2, CopiesKept
  <2> QED
    BY <1>2, <1>11, <2>1 DEF Store!Put
<1> QED
  BY <1>12 DEF Store!StoreNext

\* A read that is done takes the block, with what the disk holds.
LEMMA FinishRefines ==
  ASSUME BlockIoInv, CopiesAre, CopiesAre', UsersAre, UsersAre', NEW p \in Proc, Finish(p)
  PROVE  [Store!StoreNext]_Store!storeVars
<1> USE DEF Store!storeVars
<1> DEFINE i == buf[p]
<1>1. TypeOK /\ References /\ Calls /\ Chains /\ Requests /\ ReadsDone
  BY DEF BlockIoInv
<1>2. UNCHANGED <<blockno, data, medium, pinned, buf>> /\ pc[p] = "wait"
  BY DEF Finish
<1>3. i \in Buf
  BY <1>1, <1>2, HeldBuffer
<1>4. PICK k \in Block : k = blockno[i]
  BY <1>1, <1>2, HeldBuffer
<1>5. CASE StillOwned(i)
  <2>1. pc' = pc /\ valid' = valid
    BY <1>5 DEF Finish
  <2>2. Users' = Users
    BY <1>2, <2>1, UsersKept DEF Holds
  <2>3. Copies' = Copies
    BY <1>2, <2>1, CopiesKept
  <2> QED
    BY <1>2, <2>2, <2>3
<1>6. CASE ~StillOwned(i)
  <2>1. /\ Waiting(p) /\ pc' = [pc EXCEPT ![p] = "hold"]
        /\ valid' = [valid EXCEPT ![i] = TRUE]
    BY <1>1, <1>6, FinishFacts
  <2>2. /\ valid'[i] /\ \A j \in Buf : j # i => valid'[j] = valid[j]
        /\ pc'[p] = "hold" /\ \A q \in Proc : q # p => pc'[q] = pc[q]
    BY <1>1, <1>3, <2>1 DEF TypeOK
  <2>3. \A q \in Proc : q # p /\ pc[q] \in Locking => buf[q] # i /\ buf[q] \in Buf
    BY <1>1, <1>2, OneHolder, HeldBuffer DEF Locking
  <2>4. \A q \in Proc, l \in Block : q # p => (Holds(q, l)' <=> Holds(q, l))
    <3> SUFFICES ASSUME NEW q \in Proc, NEW l \in Block, q # p
                 PROVE  Holds(q, l)' <=> Holds(q, l)
      OBVIOUS
    <3>1. CASE pc[q] \in Locking
      BY <1>2, <2>2, <2>3, <3>1 DEF Holds
    <3>2. CASE pc[q] \notin Locking
      BY <2>2, <3>2 DEF Holds, Locking
    <3> QED
      BY <3>1, <3>2
  <2>5. Holds(p, k)' /\ \A l \in Block : l # k => ~Holds(p, l)' /\ ~Holds(p, l)
    BY <1>2, <1>4, <2>2 DEF Holds
  <2>6. CASE valid[i]
    <3>1. \A q \in Proc, l \in Block : Holds(q, l)' <=> Holds(q, l)
      BY <1>2, <1>4, <2>4, <2>5, <2>6 DEF Holds
    <3>2. Users' = Users
      BY <3>1, UsersKept
    <3>3. ASSUME NEW l \in Block PROVE Copies'[l] = Copies[l]
      <4>1. \A j \in Buf : valid'[j] <=> valid[j]
        BY <2>2, <2>6
      <4> QED
        BY <1>2, <4>1, CopyKept
    <3>4. Copies' = Copies
      BY <3>3 DEF CopiesAre
    <3> QED
      BY <1>2, <3>2, <3>4
  <2>7. CASE ~valid[i]
    <3>1. data[i] = medium[k]
      <4>1. Head0(p) \notin avail
        BY <1>1, <1>6, <2>1 DEF Requests, Rings, StillOwned
      <4> QED
        BY <1>1, <1>4, <2>1, <2>7, <4>1 DEF ReadsDone
    <3>2. \A j \in Buf : blockno[j] = k => j = i
      BY <1>1, <1>3, <1>4, BlockIoAssumption DEF References
    <3>3. Copies'[k] = Copies[k]
      <4>1. Copies[k] = medium[k]
        BY <1>3, <1>4, <2>7, <3>2 DEF CopiesAre
      <4>2. Copies'[blockno'[i]] = data'[i]
        BY <1>2, <1>3, <1>4, <2>2 DEF CopiesAre
      <4> QED
        BY <1>2, <1>4, <3>1, <4>1, <4>2
    <3>4. ASSUME NEW l \in Block, l # k PROVE Copies'[l] = Copies[l]
      <4>1. \A j \in Buf : blockno[j] = l => (valid'[j] <=> valid[j])
        BY <1>4, <2>2, <3>4
      <4> QED
        BY <1>2, <4>1, CopyKept
    <3>5. Copies' = Copies
      BY <3>3, <3>4 DEF CopiesAre
    <3>6. ASSUME NEW q \in Proc PROVE ~Holds(q, k)
      <4>1. SUFFICES ASSUME Holds(q, k) PROVE FALSE
        OBVIOUS
      <4>2. buf[q] \in Buf /\ blockno[buf[q]] = k /\ valid[buf[q]]
        BY <1>1, <1>3, <4>1, HolderFacts
      <4> QED
        BY <2>7, <3>2, <4>2
    <3>7. Users[k] = Nobody /\ Users' = [Users EXCEPT ![k] = p]
      <4>1. \A q \in Proc, l \in Block : l # k => (Holds(q, l)' <=> Holds(q, l))
        BY <2>4, <2>5
      <4> QED
        BY <2>5, <3>6, <4>1, UserTakes
    <3>8. Store!Take(p, k)
      BY <1>2, <3>5, <3>7 DEF Store!Take
    <3> QED
      BY <3>8 DEF Store!StoreNext
  <2> QED
    BY <2>6, <2>7
<1> QED
  BY <1>5, <1>6

\* The device writes what the block's user sees; a read goes to a buffer not yet valid.
LEMMA DeviceRefines ==
  ASSUME BlockIoInv, CopiesAre, CopiesAre', UsersAre, UsersAre', NEW d \in Desc, Device(d)
  PROVE  [Store!StoreNext]_Store!storeVars
<1> USE DEF Store!storeVars
<1>1. TypeOK /\ References /\ Calls /\ Chains /\ Requests
  BY DEF BlockIoInv
<1>2. UNCHANGED <<blockno, valid, pinned, pc, buf>> /\ d \in Rings
  BY DEF Device, Rings
<1>3. PICK p \in Proc :
        /\ Waiting(p) /\ d = Head0(p) /\ buf[p] \in Buf /\ blockno[buf[p]] \in Block
        /\ info[d] = [b |-> buf[p], sector |-> blockno[buf[p]], write |-> valid[buf[p]]]
  BY <1>1, <1>2, RequestOf
<1> DEFINE i == buf[p]
           k == blockno[i]
<1>4. IF valid[i]
      THEN medium' = [medium EXCEPT ![k] = data[i]] /\ data' = data
      ELSE data' = [data EXCEPT ![i] = medium[k]] /\ medium' = medium
  <2>1. info[d].b = i /\ info[d].sector = k /\ info[d].write = valid[i]
    BY <1>3
  <2> QED
    BY <2>1 DEF Device
<1>5. Users' = Users
  BY <1>2, UsersKept DEF Holds
<1>6. \A j \in Buf : blockno[j] = k => j = i
  BY <1>1, <1>3, BlockIoAssumption DEF References
<1>7. ASSUME NEW l \in Block, l # k PROVE Copies'[l] = Copies[l]
  <2>1. medium'[l] = medium[l] /\ \A j \in Buf : blockno[j] = l => data'[j] = data[j]
    BY <1>1, <1>3, <1>4, <1>7 DEF TypeOK
  <2> QED
    BY <1>2, <2>1, CopyKept
<1>8. CASE valid[i]
  <2>1. Copies[k] = data[i] /\ Copies'[k] = data'[i]
    <3>1. Copies'[blockno'[i]] = data'[i]
      BY <1>2, <1>3, <1>8 DEF CopiesAre
    <3> QED
      BY <1>2, <1>3, <1>8, <3>1 DEF CopiesAre
  <2>2. Copies' = Copies
    BY <1>4, <1>7, <1>8, <2>1 DEF CopiesAre
  <2>3. Users[k] = p
    BY <1>3, <1>8 DEF UsersAre, Holds, Waiting
  <2>4. Store!Flush(p, k)
    BY <1>2, <1>4, <1>5, <1>8, <2>1, <2>2, <2>3 DEF Store!Flush
  <2> QED
    BY <1>3, <2>4 DEF Store!StoreNext
<1>9. CASE ~valid[i]
  <2>1. Copies[k] = medium[k]
    BY <1>3, <1>6, <1>9 DEF CopiesAre
  <2>2. \A j \in Buf : blockno'[j] = k => ~valid'[j]
    BY <1>2, <1>6, <1>9
  <2>3. Copies'[k] = medium'[k]
    BY <1>3, <2>2 DEF CopiesAre
  <2>4. Copies' = Copies
    BY <1>4, <1>7, <1>9, <2>1, <2>3 DEF CopiesAre
  <2> QED
    BY <1>2, <1>4, <1>5, <1>9, <2>4
<1> QED
  BY <1>8, <1>9

\* Every step of the cache, its locks, the driver and the device is a step of the store,
\* or leaves it as it is.
LEMMA StepRefines ==
  ASSUME BlockIoInv, BlockIoInv', CopiesAre, CopiesAre', UsersAre, UsersAre', [Next]_vars
  PROVE  [Store!StoreNext]_Store!storeVars
<1> USE DEF Store!storeVars
<1>1. ASSUME UNCHANGED <<blockno, valid, data, medium, pinned>>,
             \A q \in Proc, l \in Block : Holds(q, l)' <=> Holds(q, l)
      PROVE  [Store!StoreNext]_Store!storeVars
  BY <1>1, CopiesKept, UsersKept
<1>2. CASE UNCHANGED vars
  BY <1>1, <1>2 DEF vars, cacheVars, Holds
<1>3. ASSUME NEW p \in Proc, TooFew(p) \/ KillWakes(p)
      PROVE  [Store!StoreNext]_Store!storeVars
  BY <1>1, <1>3 DEF TooFew, KillWakes, cacheVars, Holds
<1>4. CASE Handler
  BY <1>1, <1>4 DEF Handler, IntrAck, IntrEntry, IntrDone, cacheVars, Holds
<1>5. ASSUME NEW p \in Proc, Bwrite(p) \/ Submit(p) \/ Brelse(p)
      PROVE  [Store!StoreNext]_Store!storeVars
  <2>1. UNCHANGED <<blockno, valid, data, medium, pinned>>
    BY <1>5 DEF Bwrite, Submit, Brelse, cacheVars
  <2>2. \/ pc[p] = "hold" /\ pc' = [pc EXCEPT ![p] = "rw"] /\ buf' = buf
        \/ pc[p] = "rw" /\ pc' = [pc EXCEPT ![p] = "wait"] /\ buf' = buf
        \/ /\ pc[p] = "unref" /\ pc' = [pc EXCEPT ![p] = "idle"]
           /\ buf' = [buf EXCEPT ![p] = 0]
    BY <1>5 DEF Bwrite, Submit, Brelse, Go
  <2>3. pc[p] = "hold" => valid[buf[p]]
    BY DEF BlockIoInv, Calls
  <2>4. \A q \in Proc : q # p => pc'[q] = pc[q] /\ buf'[q] = buf[q]
    BY <2>2 DEF BlockIoInv, TypeOK
  <2>5. \/ pc[p] = "hold" /\ pc'[p] = "rw" /\ buf'[p] = buf[p]
        \/ pc[p] = "rw" /\ pc'[p] = "wait" /\ buf'[p] = buf[p]
        \/ pc[p] = "unref" /\ pc'[p] = "idle"
    BY <2>2 DEF BlockIoInv, TypeOK
  <2>6. \A l \in Block : Holds(p, l)' <=> Holds(p, l)
    BY <2>1, <2>3, <2>5 DEF Holds
  <2>7. \A q \in Proc, l \in Block : q # p => (Holds(q, l)' <=> Holds(q, l))
    BY <2>1, <2>4 DEF Holds
  <2> QED
    BY <1>1, <2>1, <2>6, <2>7
<1>6. ASSUME NEW p \in Proc, Bpin(p) \/ Bunpin(p) PROVE [Store!StoreNext]_Store!storeVars
  BY <1>6, PinRefines
<1>7. ASSUME NEW p \in Proc, AcquireSleep(p) \/ Finish(p) \/ ReleaseSleep(p)
      PROVE  [Store!StoreNext]_Store!storeVars
  BY <1>7, AcquireRefines, FinishRefines, ReleaseRefines
<1> QED
  BY <1>2, <1>3, <1>4, <1>5, <1>6, <1>7, BgetRefines, ModifyRefines, DeviceRefines
     DEF Next, Driver, Release, Use

\* An empty cache is a store that holds what the disk holds.
LEMMA InitRefines == Init => Store!StoreInit
<1> SUFFICES ASSUME Init PROVE Store!StoreInit
  OBVIOUS
<1>1. CopiesAre /\ UsersAre
  BY InitInv, StoreFacts
<1>2. medium = [k \in Block |-> Blank] /\ pinned = {}
  BY DEF Init
<1>3. \A k \in Block : Copies[k] = medium[k]
  BY <1>1, BlockIoAssumption DEF CopiesAre, Init
<1>4. \A k \in Block : Users[k] = Nobody
  BY <1>1 DEF UsersAre, Holds, Init
<1>5. Copies = medium /\ Users = [k \in Block |-> Nobody]
  BY <1>1, <1>2, <1>3, <1>4 DEF CopiesAre, UsersAre
<1> QED
  BY <1>2, <1>5 DEF Store!StoreInit

\* Cache, locks, driver and device together keep one copy of each block with one user,
\* read what was last written and lose nothing that is pinned (bio.c: bget, bread,
\* bwrite; virtio_disk.c: virtio_disk_rw, virtio_disk_intr).
THEOREM CacheIsAStore == Spec => ImplementsBlockStore
<1>1. BlockIoInv /\ BlockIoInv' /\ [Next]_vars => [Store!StoreNext]_Store!storeVars
  <2> SUFFICES ASSUME BlockIoInv, BlockIoInv', [Next]_vars
               PROVE  [Store!StoreNext]_Store!storeVars
    OBVIOUS
  <2>1. CopiesAre /\ UsersAre
    BY StoreFacts
  <2>2. BlockIoInv' => CopiesAre' /\ UsersAre'
    BY StoreFacts, PTL
  <2> QED
    BY <2>1, <2>2, StepRefines
<1> QED
  BY InitRefines, BlockIoInvariant, <1>1, PTL DEF Spec, ImplementsBlockStore, Store!StoreSpec
=============================================================================
