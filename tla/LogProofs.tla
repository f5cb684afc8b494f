----------------------------- MODULE LogProofs ------------------------------
(***************************************************************************)
(* The log never overflows, leaves no caller asleep for good, and gives    *)
(* the file system an atomic disk, for any number of calls and blocks.     *)
(***************************************************************************)
EXTENDS Log, FiniteSetTheorems, SequenceTheorems, TLAPS

Elements(s) == {s[i] : i \in DOMAIN s}
Distinct(s) == \A i, j \in DOMAIN s : s[i] = s[j] => i = j

\* What the stage says of the calls and of the two copies of the header.
Stages ==
  /\ stage # "run" => Active = {}
  /\ stage = "run" /\ Active = {} => lh = <<>>
  /\ stage \in {"write_log", "write_head", "install", "recover"} => tail <= Len(lh)
  /\ stage \in {"run", "write_log", "write_head", "done"} => header = <<>>
  /\ stage \in {"install", "clear", "recover", "recover_clear"} => header = lh
  /\ stage \in {"done", "read_head"} => lh = <<>>
  /\ stage \in RecoverStage => \A o \in Op : op[o] = "idle"
  /\ Distinct(lh) /\ Distinct(header)

\* The blocks the active calls have written.
WrittenBy(A) == UNION {written[o] : o \in A}
Unreserved   == Elements(lh) \ WrittenBy(Active)

\* Every call has MAXOPBLOCKS log blocks reserved beyond those no active call wrote.
Space ==
  /\ IsFiniteSet(Active)
  /\ \A o \in Active : /\ IsFiniteSet(written[o]) /\ Cardinality(written[o]) <= OpBlocks
                       /\ written[o] \subseteq Elements(lh)
  /\ \A o \in Op \ Active : written[o] = {}
  /\ Cardinality(Unreserved) + Cardinality(Active) * MAXOPBLOCKS <= LOGBLOCKS

\* Where the contents of a block are, at each stage.
Contents ==
  /\ \A b \in Block : b \notin pinned /\ cache[b] # NotCached => cache[b] = home[b]
  /\ \A b \in pinned : cache[b] # NotCached
  /\ stage \in {"run", "write_log", "write_head", "done"} => pinned = Elements(lh)
  /\ stage = "install" => pinned = {lh[i] : i \in tail .. Len(lh)}
  /\ stage \in RecoverStage \union {"clear"} => pinned = {}
  /\ stage = "write_log" => \A i \in 1 .. tail - 1 : logblock[i] = cache[lh[i]]
  /\ stage = "write_head" => \A i \in DOMAIN lh : logblock[i] = cache[lh[i]]
  /\ stage = "install" => \A i \in tail .. Len(lh) : logblock[i] = cache[lh[i]]
  /\ stage \in {"install", "recover"} => \A i \in 1 .. tail - 1 : logblock[i] = home[lh[i]]
  /\ stage \in {"clear", "recover_clear"} => \A i \in DOMAIN lh : logblock[i] = home[lh[i]]

LogInv == TypeOK /\ Stages /\ Space /\ NoStuckWaiter /\ Contents

\* An appended block is one more element, and a new one leaves the sequence distinct.
LEMMA AppendFacts ==
  ASSUME NEW s \in Seq(Block), NEW b \in Block
  PROVE  /\ Append(s, b) \in Seq(Block) /\ Len(Append(s, b)) = Len(s) + 1
         /\ \A i \in DOMAIN s : Append(s, b)[i] = s[i]
         /\ Append(s, b)[Len(s) + 1] = b
         /\ Elements(Append(s, b)) = Elements(s) \union {b}
         /\ Distinct(s) /\ b \notin Elements(s) => Distinct(Append(s, b))
<1>1. /\ Append(s, b) \in Seq(Block) /\ Len(Append(s, b)) = Len(s) + 1
      /\ \A i \in DOMAIN s : Append(s, b)[i] = s[i]
      /\ Append(s, b)[Len(s) + 1] = b
      /\ DOMAIN Append(s, b) = DOMAIN s \union {Len(s) + 1}
  BY AppendProperties
<1>2. Elements(Append(s, b)) = Elements(s) \union {b}
  BY <1>1 DEF Elements
<1>3. Distinct(s) /\ b \notin Elements(s) => Distinct(Append(s, b))
  BY <1>1 DEF Elements, Distinct
<1> QED
  BY <1>1, <1>2, <1>3

\* The empty sequence has no elements.
LEMMA EmptyFacts ==
  /\ <<>> \in Seq(Block) /\ Len(<<>>) = 0 /\ DOMAIN <<>> = {}
  /\ Elements(<<>>) = {} /\ Distinct(<<>>)
  BY DEF Elements, Distinct

\* A sequence of distinct elements has as many of them as its length.
LEMMA LengthCounts ==
  ASSUME NEW s \in Seq(Block)
  PROVE  /\ IsFiniteSet(Elements(s))
         /\ Distinct(s) => Cardinality(Elements(s)) = Len(s)
<1>1. DOMAIN s = 1 .. Len(s) /\ Len(s) \in Nat
  OBVIOUS
<1>2. IsFiniteSet(DOMAIN s) /\ Cardinality(DOMAIN s) = Len(s)
  BY <1>1, FS_Interval
<1>3. s \in Surjection(DOMAIN s, Elements(s))
  BY <1>1 DEF Surjection, Elements
<1>4. Distinct(s) => s \in Injection(DOMAIN s, Elements(s))
  BY <1>3, <1>1 DEF Injection, IsInjective, Surjection, Distinct
<1> QED
  BY <1>2, <1>3, <1>4, FS_Surjection


\* Every step keeps the types: the loops over lh stay inside it.
LEMMA TypesStep ==
  ASSUME TypeOK, Stages, [Next]_vars
  PROVE  TypeOK'
<1> USE LogAssumption DEF TypeOK, CommitStage, RecoverStage, diskPart, memPart, opPart
<1>1. CASE UNCHANGED vars
  BY <1>1 DEF vars
<1>2. ASSUME NEW o \in Op, BeginOp(o) PROVE TypeOK'
  BY <1>2 DEF BeginOp, committing, Admits
<1>3. ASSUME NEW o \in Op, EndOp(o) PROVE TypeOK'
  <2>1. op' \in [Op -> {"idle", "asleep", "awake", "active"}]
    BY <1>3 DEF EndOp, Woken
  <2>2. written' \in [Op -> SUBSET Block]
    BY <1>3 DEF EndOp
  <2>3. tail' \in 1 .. LOGBLOCKS /\ stage' \in {"run"} \union CommitStage \union RecoverStage
    BY <1>3 DEF EndOp, Stage
  <2> QED
    BY <1>3, <2>1, <2>2, <2>3 DEF EndOp
<1>4. ASSUME NEW o \in Op, NEW b \in Block, NEW v \in Value, LogWrite(o, b, v) PROVE TypeOK'
  <2>1. lh' \in Seq(Block) /\ Len(lh') <= LOGBLOCKS /\ pinned' \subseteq Block
    <3>1. /\ Append(lh, b) \in Seq(Block) /\ Len(Append(lh, b)) = Len(lh) + 1
          /\ Len(lh) \in Nat
      BY AppendFacts
    <3>2. Len(lh) < LOGBLOCKS /\ LOGBLOCKS \in Nat
      BY <1>4 DEF LogWrite
    <3>3. CASE Logged(b)
      BY <1>4, <3>3 DEF LogWrite
    <3>4. CASE ~Logged(b)
      <4>1. lh' = Append(lh, b) /\ pinned' = pinned \union {b}
        BY <1>4, <3>4 DEF LogWrite, Pins
      <4> QED
        BY <3>1, <3>2, <4>1
    <3> QED
      BY <3>3, <3>4
  <2>2. /\ cache' \in [Block -> Value \union {NotCached}] /\ written' \in [Op -> SUBSET Block]
    BY <1>4 DEF LogWrite
  <2> QED
    BY <1>4, <2>1, <2>2 DEF LogWrite
<1>5. ASSUME WriteLog PROVE TypeOK'
  <2>1. lh[tail] \in Block
    BY <1>5 DEF WriteLog, Stages
  <2>2. logblock' \in [1 .. LOGBLOCKS -> Value]
    BY <1>5, <2>1 DEF WriteLog
  <2>3. tail' \in 1 .. LOGBLOCKS /\ stage' \in {"run"} \union CommitStage \union RecoverStage
    BY <1>5 DEF WriteLog, LoopOver, Stage
  <2> QED
    BY <1>5, <2>2, <2>3 DEF WriteLog, diskPart, memPart, opPart
<1>6. ASSUME WriteHead PROVE TypeOK'
  BY <1>6 DEF WriteHead, Stage
<1>7. ASSUME InstallTrans PROVE TypeOK'
  <2>1. home' \in [Block -> Value] /\ cache' \in [Block -> Value \union {NotCached}]
    BY <1>7 DEF InstallTrans
  <2>2. tail' \in 1 .. LOGBLOCKS /\ stage' \in {"run"} \union CommitStage \union RecoverStage
    BY <1>7 DEF InstallTrans, LoopOver, Stage
  <2> QED
    BY <1>7, <2>1, <2>2 DEF InstallTrans, diskPart, memPart, opPart
<1>8. ASSUME Clear PROVE TypeOK'
  BY <1>8, EmptyFacts DEF Clear, Stage
<1>9. ASSUME CommitDone PROVE TypeOK'
  BY <1>9 DEF CommitDone, Stage, Woken
<1>10. ASSUME ReadHead PROVE TypeOK'
  BY <1>10 DEF ReadHead, Stage
<1>11. ASSUME Crash PROVE TypeOK'
  BY <1>11, EmptyFacts DEF Crash, Stage
<1>12. ASSUME NEW b \in Block, Recycle(b) PROVE TypeOK'
  BY <1>12 DEF Recycle
<1> QED
  BY <1>1, <1>2, <1>3, <1>4, <1>5, <1>6, <1>7, <1>8, <1>9, <1>10, <1>11, <1>12 DEF Next,
     Commit

\* Who is active after each step of the calls.
LEMMA ActiveAfter ==
  ASSUME TypeOK
  PROVE  /\ \A o \in Op : BeginOp(o) =>
              /\ o \notin Active
              /\ \/ Active' = Active
                 \/ stage = "run" /\ Admits /\ Active' = Active \union {o}
         /\ \A o \in Op : EndOp(o) => Active' = Active \ {o}
         /\ CommitDone => Active' = Active
         /\ Crash => Active' = {}
         /\ op' = op => Active' = Active
<1>1. ASSUME NEW o \in Op, BeginOp(o)
      PROVE  /\ o \notin Active
             /\ \/ Active' = Active
                \/ stage = "run" /\ Admits /\ Active' = Active \union {o}
  BY <1>1 DEF TypeOK, BeginOp, Active, committing, CommitStage, RecoverStage
<1>2. ASSUME NEW o \in Op, EndOp(o) PROVE Active' = Active \ {o}
  BY <1>2 DEF TypeOK, EndOp, Active, Woken
<1>3. CommitDone => Active' = Active
  BY DEF TypeOK, CommitDone, Active, Woken
<1>4. Crash => Active' = {}
  BY DEF Crash, Active
<1>5. op' = op => Active' = Active
  BY DEF Active
<1> QED
  BY <1>1, <1>2, <1>3, <1>4, <1>5

\* Only a system with no call inside commits, installs or recovers.
LEMMA StagesStep ==
  ASSUME TypeOK, Stages, [Next]_vars
  PROVE  Stages'
<1> USE LogAssumption DEF Stages, CommitStage, RecoverStage, diskPart, memPart, opPart
<1>0. /\ Len(lh) \in Nat /\ tail \in Nat \ {0} /\ Len(header) \in Nat
      /\ (lh = <<>> \/ Len(lh) >= 1) /\ (header = <<>> \/ Len(header) >= 1)
      /\ stage \in {"run"} \union CommitStage \union RecoverStage
  BY EmptySeq, LenProperties DEF TypeOK
<1>1. CASE UNCHANGED vars
  BY <1>1, <1>0, ActiveAfter, EmptyFacts DEF vars
<1>2. ASSUME NEW o \in Op, BeginOp(o) PROVE Stages'
  BY <1>2, <1>0, ActiveAfter, EmptyFacts DEF BeginOp, committing, Admits
<1>3. ASSUME NEW o \in Op, EndOp(o) PROVE Stages'
  <2>1. o \in Active /\ Active' = Active \ {o} /\ stage = "run" /\ lh' = lh /\ header' = header
    BY <1>3, ActiveAfter DEF EndOp
  <2>2. CASE Active = {o}
    <3>1. tail' = 1 /\ Active' = {} /\ stage' = IF lh = <<>> THEN "done" ELSE "write_log"
      BY <1>3, <2>1, <2>2 DEF EndOp, Stage
    <3> QED
      BY <1>0, <2>1, <3>1
  <2>3. CASE Active # {o}
    <3>1. stage' = "run" /\ Active' # {}
      BY <1>3, <2>1, <2>3 DEF EndOp
    <3> QED
      BY <2>1, <3>1
  <2> QED
    BY <2>2, <2>3
<1>4. ASSUME NEW o \in Op, NEW b \in Block, NEW v \in Value, LogWrite(o, b, v) PROVE Stages'
  <2>1. Active' = Active /\ Active # {} /\ stage = "run" /\ stage' = "run" /\ header' = header
    BY <1>4, ActiveAfter DEF LogWrite
  <2>2. Distinct(lh')
    <3>1. CASE Logged(b)
      BY <1>4, <3>1 DEF LogWrite
    <3>2. CASE ~Logged(b)
      <4>1. b \notin Elements(lh) /\ lh' = Append(lh, b) /\ lh \in Seq(Block)
        BY <1>4, <3>2 DEF LogWrite, Logged, Elements, TypeOK
      <4> QED
        BY <4>1, AppendFacts
    <3> QED
      BY <3>1, <3>2
  <2> QED
    BY <2>1, <2>2
<1>5. ASSUME WriteLog PROVE Stages'
  BY <1>5, <1>0, ActiveAfter, EmptyFacts DEF WriteLog, LoopOver, Stage
<1>6. ASSUME WriteHead PROVE Stages'
  BY <1>6, <1>0, ActiveAfter, EmptyFacts DEF WriteHead, Stage
<1>7. ASSUME InstallTrans PROVE Stages'
  BY <1>7, <1>0, ActiveAfter, EmptyFacts DEF InstallTrans, LoopOver, Stage
<1>8. ASSUME Clear PROVE Stages'
  BY <1>8, <1>0, ActiveAfter, EmptyFacts DEF Clear, Stage
<1>9. ASSUME CommitDone PROVE Stages'
  BY <1>9, <1>0, ActiveAfter, EmptyFacts DEF CommitDone, Stage, Woken
<1>10. ASSUME ReadHead PROVE Stages'
  BY <1>10, <1>0, ActiveAfter, EmptyFacts, lh \in Seq(Block) DEF ReadHead, Stage
<1>11. ASSUME Crash PROVE Stages'
  BY <1>11, <1>0, ActiveAfter, EmptyFacts DEF Crash, Stage
<1>12. ASSUME NEW b \in Block, Recycle(b) PROVE Stages'
  BY <1>12, <1>0, ActiveAfter, EmptyFacts DEF Recycle
<1> QED
  BY <1>1, <1>2, <1>3, <1>4, <1>5, <1>6, <1>7, <1>8, <1>9, <1>10, <1>11, <1>12 DEF Next,
     Commit

\* The counts behind Space are numbers, and no set counted exceeds the log.
LEMMA SpaceCounts ==
  ASSUME TypeOK, Stages, Space
  PROVE  /\ IsFiniteSet(Elements(lh)) /\ Cardinality(Elements(lh)) = Len(lh) /\ Len(lh) \in Nat
         /\ IsFiniteSet(Unreserved) /\ Cardinality(Unreserved) \in Nat
         /\ Cardinality(Unreserved) <= Len(lh)
         /\ Cardinality(Active) \in Nat
         /\ \A o \in Active : Cardinality(written[o]) \in Nat
<1>1. /\ IsFiniteSet(Elements(lh)) /\ Cardinality(Elements(lh)) = Len(lh) /\ Len(lh) \in Nat
  BY LengthCounts, LenProperties DEF TypeOK, Stages
<1>2. Unreserved \subseteq Elements(lh)
  BY DEF Unreserved
<1>3. /\ IsFiniteSet(Unreserved) /\ Cardinality(Unreserved) <= Cardinality(Elements(lh))
  BY <1>1, <1>2, FS_Subset
<1>4. Cardinality(Unreserved) \in Nat /\ Cardinality(Active) \in Nat
  BY <1>3, FS_CardinalityType DEF Space
<1>5. \A o \in Active : Cardinality(written[o]) \in Nat
  BY FS_CardinalityType DEF Space
<1> QED
  BY <1>1, <1>3, <1>4, <1>5

\* A step that changes neither lh nor the calls leaves the space alone.
LEMMA SpaceKept ==
  ASSUME Space, lh' = lh, written' = written, Active' = Active
  PROVE  Space'
<1>1. Unreserved' = Unreserved
  BY DEF Unreserved, WrittenBy
<1> QED
  BY <1>1 DEF Space

\* With no call active, an lh that fits the log leaves the space it needs.
LEMMA SpaceAlone ==
  ASSUME lh' \in Seq(Block), Len(lh') <= LOGBLOCKS, Distinct(lh'), Active' = {},
         \A o \in Op : written'[o] = {}
  PROVE  Space'
<1>1. IsFiniteSet(Active') /\ Cardinality(Active') = 0
  BY FS_EmptySet
<1>2. Unreserved' = Elements(lh')
  BY DEF Unreserved, WrittenBy
<1>3. Cardinality(Unreserved') = Len(lh') /\ Len(lh') \in Nat
  BY <1>2, LengthCounts, LenProperties
<1>4. Cardinality(Unreserved') + Cardinality(Active') * MAXOPBLOCKS <= LOGBLOCKS
  BY <1>1, <1>3, LogAssumption
<1> QED
  BY <1>1, <1>4 DEF Space

\* begin_op() admits a call only with MAXOPBLOCKS blocks to spare.
LEMMA SpaceAtBegin ==
  ASSUME TypeOK, Stages, Space, NEW o \in Op, BeginOp(o)
  PROVE  Space'
<1>1. lh' = lh /\ written' = written
  BY DEF BeginOp, memPart
<1>2. CASE Active' = Active
  BY <1>1, <1>2, SpaceKept
<1>3. CASE Active' # Active
  <2>1. o \notin Active /\ Admits /\ Active' = Active \union {o} /\ written[o] = {}
    BY <1>3, ActiveAfter DEF Space
  <2>2. IsFiniteSet(Active') /\ Cardinality(Active') = Cardinality(Active) + 1
    BY <2>1, FS_AddElement DEF Space
  <2>3. Unreserved' = Unreserved
    BY <1>1, <2>1 DEF Unreserved, WrittenBy
  <2>4. Cardinality(Unreserved') + Cardinality(Active') * MAXOPBLOCKS <= LOGBLOCKS
    <3>1. Len(lh) + Cardinality(Active') * MAXOPBLOCKS <= LOGBLOCKS
      BY <2>1, <2>2 DEF Admits
    <3>2. Cardinality(Active') \in Nat /\ MAXOPBLOCKS \in Nat
      BY <2>2, FS_CardinalityType, LogAssumption
    <3>3. Cardinality(Active') * MAXOPBLOCKS \in Nat
      BY <3>2
    <3> QED
      BY <2>3, <3>1, <3>3, SpaceCounts, LogAssumption
  <2>5. \A p \in Active' : /\ IsFiniteSet(written'[p]) /\ Cardinality(written'[p]) <= OpBlocks
                           /\ written'[p] \subseteq Elements(lh')
    <3>1. IsFiniteSet({}) /\ Cardinality({}) = 0
      BY FS_EmptySet
    <3>2. written'[o] = {} /\ 0 <= OpBlocks
      BY <1>1, <2>1, LogAssumption
    <3>3. \A p \in Active' : p \in Active \/ p = o
      BY <2>1
    <3> QED
      BY <1>1, <3>1, <3>2, <3>3 DEF Space
  <2>6. \A p \in Op \ Active' : written'[p] = {}
    BY <1>1, <2>1 DEF Space
  <2> QED
    BY <2>2, <2>4, <2>5, <2>6 DEF Space
<1> QED
  BY <1>2, <1>3

\* log_write() takes a log block only for a block its call had not written yet.
LEMMA SpaceAtWrite ==
  ASSUME TypeOK, Stages, Space, NEW o \in Op, NEW b \in Block, NEW v \in Value, LogWrite(o, b, v)
  PROVE  Space'
<1>1. /\ o \in Active /\ Active' = Active /\ Cardinality(written[o] \union {b}) <= OpBlocks
      /\ written' = [written EXCEPT ![o] = written[o] \union {b}]
  BY ActiveAfter DEF LogWrite
<1>2. Elements(lh') = Elements(lh) \union {b}
  <2>1. CASE Logged(b)
    BY <2>1 DEF LogWrite, Logged, Elements
  <2>2. CASE ~Logged(b)
    BY <2>2, AppendFacts DEF LogWrite, TypeOK
  <2> QED
    BY <2>1, <2>2
<1>3. \A p \in Active : /\ IsFiniteSet(written'[p]) /\ Cardinality(written'[p]) <= OpBlocks
                        /\ written'[p] \subseteq Elements(lh')
  <2> SUFFICES ASSUME NEW p \in Active
               PROVE  /\ IsFiniteSet(written'[p]) /\ Cardinality(written'[p]) <= OpBlocks
                      /\ written'[p] \subseteq Elements(lh')
    OBVIOUS
  <2>1. p \in Op /\ IsFiniteSet(written[p]) /\ written[p] \subseteq Elements(lh)
    BY DEF Space, Active
  <2>2. CASE p = o
    <3>1. written'[p] = written[o] \union {b}
      BY <1>1, <2>1, <2>2 DEF TypeOK
    <3>2. IsFiniteSet(written[o] \union {b})
      BY <2>1, <2>2, FS_AddElement
    <3> QED
      BY <1>1, <1>2, <2>1, <2>2, <3>1, <3>2
  <2>3. CASE p # o
    <3>1. written'[p] = written[p]
      BY <1>1, <2>1, <2>3 DEF TypeOK
    <3> QED
      BY <1>2, <2>1, <3>1 DEF Space
  <2> QED
    BY <2>2, <2>3
<1>4. Unreserved' \subseteq Unreserved
  <2>1. \A p \in Active : written[p] \subseteq written'[p]
    BY <1>1 DEF TypeOK, Active
  <2>2. b \in written'[o]
    BY <1>1 DEF TypeOK
  <2> QED
    BY <1>1, <1>2, <2>1, <2>2 DEF Unreserved, WrittenBy
<1>5. Cardinality(Unreserved') + Cardinality(Active') * MAXOPBLOCKS <= LOGBLOCKS
  <2>1. IsFiniteSet(Unreserved') /\ Cardinality(Unreserved') <= Cardinality(Unreserved)
    BY <1>4, FS_Subset, SpaceCounts
  <2>2. Cardinality(Unreserved') \in Nat /\ Cardinality(Unreserved) \in Nat
    BY <2>1, FS_CardinalityType, SpaceCounts
  <2>3. Cardinality(Active) * MAXOPBLOCKS \in Nat
    BY SpaceCounts, LogAssumption
  <2>4. Cardinality(Unreserved) + Cardinality(Active) * MAXOPBLOCKS <= LOGBLOCKS
    BY DEF Space
  <2> QED
    BY <1>1, <2>1, <2>2, <2>3, <2>4, LogAssumption
<1>6. \A p \in Op \ Active : written'[p] = {}
  BY <1>1 DEF Space, TypeOK
<1> QED
  BY <1>1, <1>3, <1>5, <1>6 DEF Space

\* end_op() hands the blocks its call wrote, at most its reservation, to the log.
LEMMA SpaceAtEnd ==
  ASSUME TypeOK, Stages, Space, NEW o \in Op, EndOp(o)
  PROVE  Space'
<1>1. /\ o \in Active /\ Active' = Active \ {o} /\ lh' = lh
      /\ written' = [written EXCEPT ![o] = {}]
  BY ActiveAfter DEF EndOp, memPart
<1>2. /\ IsFiniteSet(Active') /\ Cardinality(Active') = Cardinality(Active) - 1
      /\ Cardinality(Active') \in Nat
  BY <1>1, FS_RemoveElement, FS_CardinalityType DEF Space
<1>3. \A p \in Active' : p \in Active /\ written'[p] = written[p]
  BY <1>1 DEF TypeOK, Active
<1>4. \A p \in Op \ Active' : written'[p] = {}
  BY <1>1 DEF Space, TypeOK
<1>5. Unreserved' \subseteq Unreserved \union written[o]
  BY <1>1, <1>3 DEF Unreserved, WrittenBy
<1>6. Cardinality(Unreserved') <= Cardinality(Unreserved) + MAXOPBLOCKS
  <2>1. /\ IsFiniteSet(written[o]) /\ Cardinality(written[o]) <= OpBlocks
        /\ Cardinality(written[o]) \in Nat
    BY <1>1, SpaceCounts DEF Space
  <2>2. /\ IsFiniteSet(Unreserved \union written[o])
        /\ Cardinality(Unreserved \union written[o])
             <= Cardinality(Unreserved) + Cardinality(written[o])
    <3>1. /\ IsFiniteSet(Unreserved \cap written[o])
          /\ Cardinality(Unreserved \cap written[o]) \in Nat
      BY <2>1, FS_Subset, FS_CardinalityType
    <3>2. IsFiniteSet(Unreserved) /\ Cardinality(Unreserved) \in Nat
      BY SpaceCounts
    <3>3. /\ IsFiniteSet(Unreserved \union written[o])
          /\ Cardinality(Unreserved \union written[o])
               = Cardinality(Unreserved) + Cardinality(written[o])
                   - Cardinality(Unreserved \cap written[o])
      BY <2>1, <3>2, FS_Union
    <3> QED
      BY <2>1, <3>1, <3>2, <3>3
  <2>3. IsFiniteSet(Unreserved')
        /\ Cardinality(Unreserved') <= Cardinality(Unreserved \union written[o])
    BY <1>5, <2>2, FS_Subset
  <2>4. /\ Cardinality(Unreserved') \in Nat
        /\ Cardinality(Unreserved \union written[o]) \in Nat
    BY <2>2, <2>3, FS_CardinalityType
  <2> QED
    BY <2>1, <2>2, <2>3, <2>4, SpaceCounts, LogAssumption
<1>7. Cardinality(Unreserved') + Cardinality(Active') * MAXOPBLOCKS <= LOGBLOCKS
  <2>1. Cardinality(Unreserved') \in Nat
    <3>1. IsFiniteSet(Unreserved \union written[o])
      BY <1>1, SpaceCounts, FS_Union DEF Space
    <3> QED
      BY <1>5, <3>1, FS_Subset, FS_CardinalityType
  <2>2. Cardinality(Active) * MAXOPBLOCKS = Cardinality(Active') * MAXOPBLOCKS + MAXOPBLOCKS
    BY <1>2, SpaceCounts, LogAssumption
  <2>3. /\ Cardinality(Active') * MAXOPBLOCKS \in Nat
        /\ Cardinality(Unreserved) + Cardinality(Active) * MAXOPBLOCKS <= LOGBLOCKS
    BY <1>2, LogAssumption DEF Space
  <2> QED
    BY <1>6, <2>1, <2>2, <2>3, SpaceCounts, LogAssumption
<1> QED
  BY <1>1, <1>2, <1>3, <1>4, <1>7 DEF Space

\* Every step leaves the active calls their reservations.
LEMMA SpaceStep ==
  ASSUME TypeOK, Stages, Space, [Next]_vars
  PROVE  Space'
<1> USE LogAssumption DEF diskPart, memPart, opPart
<1>1. CASE UNCHANGED vars
  BY <1>1, SpaceKept, ActiveAfter DEF vars
<1>2. ASSUME NEW o \in Op, BeginOp(o) PROVE Space'
  BY <1>2, SpaceAtBegin
<1>3. ASSUME NEW o \in Op, EndOp(o) PROVE Space'
  BY <1>3, SpaceAtEnd
<1>4. ASSUME NEW o \in Op, NEW b \in Block, NEW v \in Value, LogWrite(o, b, v) PROVE Space'
  BY <1>4, SpaceAtWrite
<1>5. ASSUME WriteLog PROVE Space'
  BY <1>5, SpaceKept, ActiveAfter DEF WriteLog, LoopOver, Stage
<1>6. ASSUME WriteHead PROVE Space'
  BY <1>6, SpaceKept, ActiveAfter DEF WriteHead, Stage
<1>7. ASSUME InstallTrans PROVE Space'
  BY <1>7, SpaceKept, ActiveAfter DEF InstallTrans, LoopOver, Stage
<1>8. ASSUME Clear PROVE Space'
  <2>1. Active' = {} /\ written' = written /\ lh' = <<>>
    BY <1>8, ActiveAfter DEF Clear, Stages
  <2>2. \A o \in Op : written'[o] = {}
    BY <2>1, <1>8 DEF Clear, Stages, Space
  <2> QED
    BY <2>1, <2>2, EmptyFacts, SpaceAlone
<1>9. ASSUME CommitDone PROVE Space'
  BY <1>9, SpaceKept, ActiveAfter DEF CommitDone, Stage, Woken
<1>10. ASSUME ReadHead PROVE Space'
  <2>1. Active' = {} /\ written' = written /\ lh' = header
    BY <1>10, ActiveAfter DEF ReadHead, Stages
  <2>2. \A o \in Op : written'[o] = {}
    BY <2>1, <1>10 DEF ReadHead, Stages, Space
  <2> QED
    BY <2>1, <2>2, SpaceAlone DEF TypeOK, Stages
<1>11. ASSUME Crash PROVE Space'
  <2>1. Active' = {} /\ lh' = <<>> /\ \A o \in Op : written'[o] = {}
    BY <1>11, ActiveAfter DEF Crash
  <2> QED
    BY <2>1, EmptyFacts, SpaceAlone
<1>12. ASSUME NEW b \in Block, Recycle(b) PROVE Space'
  BY <1>12, SpaceKept, ActiveAfter DEF Recycle
<1> QED
  BY <1>1, <1>2, <1>3, <1>4, <1>5, <1>6, <1>7, <1>8, <1>9, <1>10, <1>11, <1>12 DEF Next,
     Commit

\* A union of finite sets has no more elements than the sets have between them.
LEMMA UnionCount ==
  ASSUME NEW A, IsFiniteSet(A), NEW n \in Nat, NEW w,
         \A o \in A : IsFiniteSet(w[o]) /\ Cardinality(w[o]) <= n
  PROVE  /\ IsFiniteSet(UNION {w[o] : o \in A})
         /\ Cardinality(UNION {w[o] : o \in A}) <= Cardinality(A) * n
<1> DEFINE U      == UNION {w[o] : o \in A}
           nth(o) == CHOOSE f : f \in Bijection(1 .. Cardinality(w[o]), w[o])
           P      == {q \in A \X (1 .. n) : q[2] <= Cardinality(w[q[1]])}
           F      == [q \in P |-> nth(q[1])[q[2]]]
<1>1. ASSUME NEW o \in A
      PROVE  Cardinality(w[o]) \in Nat /\ nth(o) \in Surjection(1 .. Cardinality(w[o]), w[o])
  <2>1. Cardinality(w[o]) \in Nat /\ ExistsBijection(1 .. Cardinality(w[o]), w[o])
    BY FS_CardinalityType
  <2>2. nth(o) \in Bijection(1 .. Cardinality(w[o]), w[o])
    BY <2>1 DEF ExistsBijection
  <2> QED
    BY <2>1, <2>2 DEF Bijection
<1> HIDE DEF nth
<1>2. F \in Surjection(P, U)
  <2>1. ASSUME NEW q \in P PROVE F[q] \in U
    <3>1. q[1] \in A /\ q[2] \in 1 .. Cardinality(w[q[1]])
      BY <1>1
    <3>2. nth(q[1])[q[2]] \in w[q[1]]
      BY <1>1, <3>1 DEF Surjection
    <3> QED
      BY <3>1, <3>2
  <2>2. ASSUME NEW x \in U PROVE \E q \in P : F[q] = x
    <3>1. PICK o \in A : x \in w[o]
      OBVIOUS
    <3>2. PICK i \in 1 .. Cardinality(w[o]) : nth(o)[i] = x
      BY <1>1, <3>1 DEF Surjection
    <3>3. <<o, i>> \in P
      BY <1>1
    <3> QED
      BY <3>2, <3>3
  <2> QED
    BY <2>1, <2>2 DEF Surjection
<1>3. IsFiniteSet(P) /\ Cardinality(P) <= Cardinality(A) * n
  <2>1. IsFiniteSet(1 .. n) /\ Cardinality(1 .. n) = n
    BY FS_Interval
  <2>2. /\ IsFiniteSet(A \X (1 .. n))
        /\ Cardinality(A \X (1 .. n)) = Cardinality(A) * n
    BY <2>1, FS_Product
  <2> QED
    BY <2>2, FS_Subset
<1>4. IsFiniteSet(U) /\ Cardinality(U) <= Cardinality(P)
  BY <1>2, <1>3, FS_Surjection
<1>5. Cardinality(U) \in Nat /\ Cardinality(P) \in Nat /\ Cardinality(A) * n \in Nat
  BY <1>3, <1>4, FS_CardinalityType
<1> QED
  BY <1>3, <1>4, <1>5

\* With calls that write fewer blocks than they reserve, an active one finds a log
\* block free.
LEMMA SpaceLeft ==
  ASSUME TypeOK, Stages, Space, OpBlocks < MAXOPBLOCKS
  PROVE  NoPanic
<1> SUFFICES ASSUME Active # {} PROVE Len(lh) < LOGBLOCKS
  BY DEF NoPanic
<1>1. /\ IsFiniteSet(WrittenBy(Active))
      /\ Cardinality(WrittenBy(Active)) <= Cardinality(Active) * OpBlocks
  <2>1. OpBlocks \in Nat
    BY LogAssumption
  <2> QED
    BY <2>1, UnionCount DEF Space, WrittenBy
<1>2. Elements(lh) \subseteq Unreserved \union WrittenBy(Active)
  BY DEF Unreserved
<1>3. Len(lh) <= Cardinality(Unreserved) + Cardinality(WrittenBy(Active))
  <2> DEFINE u == Unreserved
             x == WrittenBy(Active)
  <2>1. IsFiniteSet(u) /\ IsFiniteSet(x) /\ Cardinality(u) \in Nat /\ Cardinality(x) \in Nat
    BY <1>1, SpaceCounts, FS_CardinalityType
  <2> HIDE DEF u, x
  <2>2. IsFiniteSet(u \cap x) /\ Cardinality(u \cap x) \in Nat
    BY <2>1, FS_Subset, FS_CardinalityType
  <2>3. /\ IsFiniteSet(u \union x)
        /\ Cardinality(u \union x) = Cardinality(u) + Cardinality(x) - Cardinality(u \cap x)
    BY <2>1, FS_Union
  <2>4. Cardinality(Elements(lh)) <= Cardinality(u \union x)
    BY <1>2, <2>3, FS_Subset DEF u, x
  <2>5. Cardinality(u \union x) \in Nat /\ Cardinality(Elements(lh)) = Len(lh) /\ Len(lh) \in Nat
    BY <2>3, FS_CardinalityType, SpaceCounts
  <2>6. Len(lh) <= Cardinality(u) + Cardinality(x)
    BY <2>1, <2>2, <2>3, <2>4, <2>5
  <2> QED
    BY <2>6 DEF u, x
<1>4. Cardinality(Active) \in Nat /\ Cardinality(Active) # 0
  BY SpaceCounts, FS_EmptySet DEF Space
<1>5. Cardinality(Active) * OpBlocks < Cardinality(Active) * MAXOPBLOCKS
  BY <1>4, LogAssumption
<1>6. /\ Cardinality(Unreserved) + Cardinality(Active) * MAXOPBLOCKS <= LOGBLOCKS
      /\ Cardinality(WrittenBy(Active)) \in Nat
  BY <1>1, FS_CardinalityType DEF Space
<1>7. Cardinality(Active) * OpBlocks \in Nat /\ Cardinality(Active) * MAXOPBLOCKS \in Nat
  BY <1>4, LogAssumption
<1> QED
  BY <1>1, <1>3, <1>5, <1>6, <1>7, SpaceCounts, LogAssumption

\* Every step leaves a sleeping caller somebody to wake it.
LEMMA WaitersStep ==
  ASSUME TypeOK, Stages, NoStuckWaiter, [Next]_vars
  PROVE  NoStuckWaiter'
<1> USE LogAssumption DEF NoStuckWaiter, committing, CommitStage, RecoverStage,
           diskPart, memPart, opPart
<1>1. CASE UNCHANGED vars
  BY <1>1, ActiveAfter DEF vars
<1>2. ASSUME NEW o \in Op, BeginOp(o) PROVE NoStuckWaiter'
  <2>1. CASE committing \/ Active # {}
    BY <1>2, <2>1, ActiveAfter DEF BeginOp
  <2>2. CASE ~committing /\ Active = {}
    <3>1. stage = "run" /\ lh = <<>>
      BY <1>2, <2>2 DEF BeginOp, TypeOK, Stages
    <3>2. Cardinality(Active) = 0 /\ Len(lh) = 0
      BY <2>2, <3>1, FS_EmptySet, EmptyFacts
    <3>3. Admits
      BY <3>2, LogAssumption DEF Admits
    <3>4. op'[o] = "active"
      BY <1>2, <2>2, <3>3 DEF BeginOp, TypeOK
    <3> QED
      BY <3>4 DEF Active
  <2> QED
    BY <2>1, <2>2
<1>3. ASSUME NEW o \in Op, EndOp(o) PROVE NoStuckWaiter'
  <2>1. CASE Active = {o}
    BY <1>3, <2>1 DEF EndOp, Stage
  <2>2. CASE Active # {o}
    <3>1. Active' # {}
      BY <1>3, <2>2, ActiveAfter DEF EndOp
    <3> QED
      BY <3>1
  <2> QED
    BY <2>1, <2>2
<1>4. ASSUME NEW o \in Op, NEW b \in Block, NEW v \in Value, LogWrite(o, b, v)
      PROVE  NoStuckWaiter'
  BY <1>4, ActiveAfter DEF LogWrite, Logged, Pins
<1>5. ASSUME WriteLog PROVE NoStuckWaiter'
  BY <1>5, ActiveAfter DEF WriteLog, LoopOver, Stage
<1>6. ASSUME WriteHead PROVE NoStuckWaiter'
  BY <1>6, ActiveAfter DEF WriteHead, Stage
<1>7. ASSUME InstallTrans PROVE NoStuckWaiter'
  BY <1>7, ActiveAfter DEF InstallTrans, LoopOver, Stage
<1>8. ASSUME Clear PROVE NoStuckWaiter'
  BY <1>8, ActiveAfter DEF Clear, Stage, Stages
<1>9. ASSUME CommitDone PROVE NoStuckWaiter'
  <2>1. \A o \in Op : op'[o] # "asleep"
    BY <1>9 DEF CommitDone, Woken
  <2> QED
    BY <2>1
<1>10. ASSUME ReadHead PROVE NoStuckWaiter'
  BY <1>10, ActiveAfter DEF ReadHead, Stage
<1>11. ASSUME Crash PROVE NoStuckWaiter'
  BY <1>11, ActiveAfter DEF Crash, Stage
<1>12. ASSUME NEW b \in Block, Recycle(b) PROVE NoStuckWaiter'
  BY <1>12, ActiveAfter DEF Recycle
<1> QED
  BY <1>1, <1>2, <1>3, <1>4, <1>5, <1>6, <1>7, <1>8, <1>9, <1>10, <1>11, <1>12 DEF Next,
     Commit

\* The block a loop of the log is at.
LEMMA AtTail ==
  ASSUME TypeOK, Stages, stage \in {"write_log", "install", "recover"}
  PROVE  /\ tail \in DOMAIN lh /\ lh[tail] \in Block
         /\ DOMAIN lh = 1 .. Len(lh) /\ Len(lh) \in Nat /\ tail \in Nat \ {0}
         /\ Len(lh) <= LOGBLOCKS /\ LOGBLOCKS \in Nat
         /\ \A i \in DOMAIN lh : lh[i] \in Block /\ (lh[i] = lh[tail] => i = tail)
  BY LogAssumption DEF TypeOK, Stages, Distinct

\* Every step keeps the copies of a block where the stage says they are.
LEMMA ContentsStep ==
  ASSUME TypeOK, Stages, Contents, [Next]_vars
  PROVE  Contents'
<1> USE LogAssumption DEF Contents, CommitStage, RecoverStage, diskPart, memPart, opPart
<1>0. /\ stage \in {"run"} \union CommitStage \union RecoverStage /\ tail \in Nat \ {0}
      /\ \A i \in DOMAIN lh : lh[i] \in Block
      /\ DOMAIN lh = 1 .. Len(lh) /\ Len(lh) \in Nat
  BY DEF TypeOK
<1>1. CASE UNCHANGED vars
  BY <1>1, <1>0 DEF vars
<1>2. ASSUME NEW o \in Op, BeginOp(o) PROVE Contents'
  BY <1>2, <1>0 DEF BeginOp, committing, Admits
<1>3. ASSUME NEW o \in Op, EndOp(o) PROVE Contents'
  <2>1. stage = "run" /\ stage' \in {"run", "write_log", "done"} /\ tail' \in {1, tail}
    BY <1>3 DEF EndOp, Stage, Stages
  <2>2. stage' = "write_log" => tail' = 1
    BY <1>3, <2>1 DEF EndOp, Stage
  <2>3. UNCHANGED <<home, logblock, header, cache, pinned, lh>>
    BY <1>3 DEF EndOp
  <2>4. pinned' = Elements(lh')
    BY <2>1, <2>3
  <2>5. stage' = "write_log" => \A i \in 1 .. tail' - 1 : FALSE
    BY <2>2
  <2> QED
    BY <2>1, <2>3, <2>4, <2>5
<1>4. ASSUME NEW o \in Op, NEW b \in Block, NEW v \in Value, LogWrite(o, b, v) PROVE Contents'
  <2>1. stage = "run" /\ stage' = "run" /\ pinned = Elements(lh) /\ home' = home
    BY <1>4 DEF LogWrite, Stages
  <2>2. pinned' = pinned \union {b} /\ Elements(lh') = Elements(lh) \union {b}
    <3>1. CASE Logged(b)
      BY <1>4, <2>1, <3>1 DEF LogWrite, Logged, Elements
    <3>2. CASE ~Logged(b)
      <4>1. lh' = Append(lh, b) /\ pinned' = pinned \union {b} /\ lh \in Seq(Block)
        BY <1>4, <3>2 DEF LogWrite, TypeOK, Pins
      <4> QED
        BY <4>1, AppendFacts
    <3> QED
      BY <3>1, <3>2
  <2>3. v # NotCached /\ cache' = [cache EXCEPT ![b] = v]
    BY <1>4, LogAssumption DEF LogWrite
  <2> QED
    BY <2>1, <2>2, <2>3 DEF TypeOK
<1>5. ASSUME WriteLog PROVE Contents'
  <2>1. /\ pinned' = pinned /\ lh' = lh /\ cache' = cache /\ home' = home
        /\ stage = "write_log" /\ pinned = Elements(lh)
    BY <1>5 DEF WriteLog
  <2>2. cache[lh[tail]] # NotCached
    BY <2>1, AtTail DEF Elements
  <2>3. logblock' = [logblock EXCEPT ![tail] = cache[lh[tail]]]
    BY <1>5, <2>2 DEF WriteLog
  <2>4. \A i \in 1 .. tail : logblock'[i] = cache[lh[i]]
    BY <2>1, <2>3, AtTail DEF TypeOK
  <2>5. \/ stage' = "write_log" /\ tail' = tail + 1
        \/ stage' = "write_head" /\ tail = Len(lh)
    BY <1>5, AtTail DEF WriteLog, LoopOver, Stage
  <2> QED
    BY <2>1, <2>4, <2>5, AtTail
<1>6. ASSUME WriteHead PROVE Contents'
  BY <1>6, <1>0 DEF WriteHead, Stage, Elements
<1>7. ASSUME InstallTrans PROVE Contents'
  <2>1. /\ stage \in {"install", "recover"} /\ lh' = lh /\ logblock' = logblock
        /\ home' = [home EXCEPT ![lh[tail]] = logblock[tail]]
        /\ cache' = [cache EXCEPT ![lh[tail]] = logblock[tail]]
        /\ pinned' = IF stage = "install" THEN pinned \ {lh[tail]} ELSE pinned
    BY <1>7 DEF InstallTrans
  <2>2. logblock[tail] # NotCached
    BY <2>1, AtTail, LogAssumption DEF TypeOK
  <2>3. \A b \in Block : b \notin pinned' /\ cache'[b] # NotCached => cache'[b] = home'[b]
    BY <2>1, AtTail DEF TypeOK
  <2>4. \A b \in pinned' : cache'[b] # NotCached
    BY <2>1, <2>2, AtTail DEF TypeOK
  <2>5. \A i \in 1 .. tail : logblock'[i] = home'[lh[i]]
    BY <2>1, AtTail DEF TypeOK
  <2>6. \/ stage' = stage /\ tail' = tail + 1
        \/ /\ stage' = IF stage = "install" THEN "clear" ELSE "recover_clear"
           /\ tail = Len(lh)
    BY <1>7, AtTail DEF InstallTrans, LoopOver, Stage
  <2>7. stage = "install" => pinned' = {lh[i] : i \in tail + 1 .. Len(lh)}
    BY <2>1, AtTail
  <2>8. stage = "install" => \A i \in tail + 1 .. Len(lh) : logblock'[i] = cache'[lh[i]]
    BY <2>1, AtTail DEF TypeOK
  <2>9. stage' \in {"clear", "recover", "recover_clear"} => pinned' = {}
    BY <2>1, <2>6, <2>7, AtTail
  <2> QED
    BY <2>1, <2>3, <2>4, <2>5, <2>6, <2>7, <2>8, <2>9, AtTail
<1>8. ASSUME Clear PROVE Contents'
  BY <1>8, <1>0, EmptyFacts DEF Clear, Stage
<1>9. ASSUME CommitDone PROVE Contents'
  BY <1>9, <1>0 DEF CommitDone, Stage
<1>10. ASSUME ReadHead PROVE Contents'
  <2>1. header = <<>> => DOMAIN lh' = {}
    BY <1>10, EmptyFacts DEF ReadHead
  <2> QED
    BY <1>10, <1>0, <2>1 DEF ReadHead, Stage
<1>11. ASSUME Crash PROVE Contents'
  BY <1>11, <1>0 DEF Crash, Stage
<1>12. ASSUME NEW b \in Block, Recycle(b) PROVE Contents'
  <2>1. /\ b \notin pinned /\ cache' = [cache EXCEPT ![b] = NotCached]
        /\ UNCHANGED <<home, logblock, header, pinned, lh, stage, tail>>
    BY <1>12 DEF Recycle
  <2>2. \A c \in Block : c # b => cache'[c] = cache[c]
    BY <2>1 DEF TypeOK
  <2>3. \A c \in Block : c \notin pinned /\ cache'[c] # NotCached => cache'[c] = home[c]
    BY <2>1, <2>2 DEF TypeOK
  <2>4. stage \in {"write_log", "write_head"} =>
          \A i \in DOMAIN lh : lh[i] \in Block /\ lh[i] \in pinned
    BY <1>0 DEF Elements
  <2>5. stage = "install" => \A i \in tail .. Len(lh) : lh[i] \in Block /\ lh[i] \in pinned
    BY AtTail
  <2>6. \A c \in pinned : c \in Block /\ cache'[c] # NotCached
    BY <2>1, <2>2 DEF TypeOK
  <2>7. stage = "write_log" => \A i \in 1 .. tail - 1 : logblock[i] = cache'[lh[i]]
    BY <2>1, <2>2, <2>4, AtTail
  <2>8. stage = "write_head" => \A i \in DOMAIN lh : logblock[i] = cache'[lh[i]]
    BY <2>1, <2>2, <2>4
  <2>9. stage = "install" => \A i \in tail .. Len(lh) : logblock[i] = cache'[lh[i]]
    BY <2>1, <2>2, <2>5
  <2> QED
    BY <2>1, <2>3, <2>6, <2>7, <2>8, <2>9
<1> QED
  BY <1>1, <1>2, <1>3, <1>4, <1>5, <1>6, <1>7, <1>8, <1>9, <1>10, <1>11, <1>12 DEF Next,
     Commit

\* The log starts empty.
LEMMA InitInv == Init => LogInv
<1> SUFFICES ASSUME Init PROVE LogInv
  OBVIOUS
<1>1. TypeOK
  BY LogAssumption, EmptyFacts DEF Init, TypeOK, CommitStage, RecoverStage
<1>2. Active = {}
  BY DEF Init, Active
<1>3. Stages
  BY <1>2, EmptyFacts DEF Init, Stages, RecoverStage
<1>4. Space
  <2>1. IsFiniteSet({}) /\ Cardinality({}) = 0
    BY FS_EmptySet
  <2>2. Unreserved = {}
    BY EmptyFacts DEF Init, Unreserved
  <2> QED
    BY <1>2, <2>1, <2>2, LogAssumption DEF Space, Init
<1>5. NoStuckWaiter
  BY DEF Init, NoStuckWaiter
<1>6. Contents
  BY EmptyFacts DEF Init, Contents, RecoverStage
<1> QED
  BY <1>1, <1>3, <1>4, <1>5, <1>6 DEF LogInv

\* The invariant of the log, for any number of calls, blocks and crashes.
THEOREM Invariant == Spec => []LogInv
<1>1. LogInv /\ [Next]_vars => LogInv'
  BY TypesStep, StagesStep, SpaceStep, WaitersStep, ContentsStep DEF LogInv
<1> QED
  BY InitInv, <1>1, PTL DEF Spec

\* The loops of commit() and of recovery never leave the log or the device.
THEOREM TypesHold == Spec => []TypeOK
<1>1. LogInv => TypeOK
  BY DEF LogInv
<1> QED
  BY <1>1, Invariant, PTL

\* begin_op() leaves nobody asleep without a call or a commit that will wake it.
THEOREM NobodyStuck == Spec => []NoStuckWaiter
<1>1. LogInv => NoStuckWaiter
  BY DEF LogInv
<1> QED
  BY <1>1, Invariant, PTL

\* Calls that write fewer different blocks than begin_op() reserves never find the
\* log full in log_write().
THEOREM LogNeverFull ==
  ASSUME OpBlocks < MAXOPBLOCKS
  PROVE  Spec => []NoPanic
<1>1. LogInv => NoPanic
  BY SpaceLeft DEF LogInv
<1> QED
  BY <1>1, Invariant, PTL

-----------------------------------------------------------------------------
(* The atomic disk *)

\* What recovery makes of home locations h under the log blocks l of header hd.
Recovered(hd, l, h) ==
  [b \in Block |->
    IF \E i \in DOMAIN hd : hd[i] = b THEN l[CHOOSE i \in DOMAIN hd : hd[i] = b] ELSE h[b]]

\* A header of distinct blocks names one log block for each of them.
LEMMA RecoveredFacts ==
  ASSUME NEW hd \in Seq(Block), Distinct(hd), NEW l, NEW h
  PROVE  /\ \A i \in DOMAIN hd : Recovered(hd, l, h)[hd[i]] = l[i]
         /\ \A b \in Block : b \notin Elements(hd) => Recovered(hd, l, h)[b] = h[b]
<1>1. ASSUME NEW i \in DOMAIN hd PROVE Recovered(hd, l, h)[hd[i]] = l[i]
  <2>1. hd[i] \in Block
    OBVIOUS
  <2>2. (CHOOSE j \in DOMAIN hd : hd[j] = hd[i]) = i
    BY DEF Distinct
  <2> QED
    BY <2>1, <2>2 DEF Recovered
<1>2. ASSUME NEW b \in Block, b \notin Elements(hd) PROVE Recovered(hd, l, h)[b] = h[b]
  BY <1>2 DEF Recovered, Elements
<1> QED
  BY <1>1, <1>2

\* An empty header leaves the home locations as they are.
LEMMA RecoveredEmpty ==
  ASSUME NEW l, NEW h \in [Block -> Value]
  PROVE  Recovered(<<>>, l, h) = h
  BY EmptyFacts DEF Recovered

\* The disk as a function of the header, the log and the home locations.
LEMMA DurableIs ==
  /\ Durable = Recovered(header, logblock, home)
  /\ Durable' = Recovered(header', logblock', home')
  BY DEF Durable, Recovered

\* What the file system reads of one block, before and after a step.
LEMMA MemoryIs ==
  ASSUME NEW b \in Block
  PROVE  /\ Memory[b] = IF stage \in RecoverStage THEN Durable[b]
                        ELSE IF cache[b] = NotCached THEN home[b] ELSE cache[b]
         /\ Memory'[b] = IF stage' \in RecoverStage THEN Durable'[b]
                         ELSE IF cache'[b] = NotCached THEN home'[b] ELSE cache'[b]
  BY DEF Memory

\* Both are functions of the blocks.
LEMMA DiskDomains ==
  /\ Memory = [b \in Block |-> Memory[b]] /\ Memory' = [b \in Block |-> Memory'[b]]
  /\ Durable = [b \in Block |-> Durable[b]] /\ Durable' = [b \in Block |-> Durable'[b]]
  BY DEF Memory, Durable

\* A step that changes neither copy and stays on its side of the recovery changes
\* nothing the file system sees.
LEMMA DiskKept ==
  ASSUME UNCHANGED <<home, logblock, header, cache>>,
         stage \in RecoverStage <=> stage' \in RecoverStage
  PROVE  Memory' = Memory /\ Durable' = Durable
<1>1. Durable' = Durable
  BY DurableIs
<1> QED
  BY <1>1 DEF Memory

\* The header write is the moment the writes of the finished calls become durable.
LEMMA HeaderCommits ==
  ASSUME TypeOK, Stages, Contents, WriteHead
  PROVE  Active = {} /\ Active' = Active /\ Memory' = Memory /\ Durable' = Memory
<1>1. /\ stage = "write_head" /\ stage' = "install" /\ header' = lh /\ Active = {}
      /\ UNCHANGED <<home, logblock, cache, op>>
  BY DEF WriteHead, Stage, Stages, memPart, opPart
<1>2. Memory' = Memory
  BY <1>1 DEF Memory, RecoverStage
<1>3. ASSUME NEW b \in Block PROVE Durable'[b] = Memory[b]
  <2>1. Memory[b] = IF cache[b] = NotCached THEN home[b] ELSE cache[b]
    BY <1>1, MemoryIs DEF RecoverStage
  <2>2. lh \in Seq(Block) /\ Distinct(lh) /\ Durable' = Recovered(lh, logblock, home)
    BY <1>1, DurableIs DEF TypeOK, Stages
  <2>3. CASE b \in Elements(lh)
    <3>1. PICK i \in DOMAIN lh : lh[i] = b
      BY <2>3 DEF Elements
    <3>2. Durable'[b] = logblock[i]
      BY <2>2, <3>1, RecoveredFacts
    <3>3. logblock[i] = cache[b] /\ cache[b] # NotCached
      BY <1>1, <2>3, <3>1 DEF Contents
    <3> QED
      BY <2>1, <3>2, <3>3
  <2>4. CASE b \notin Elements(lh)
    <3>1. Durable'[b] = home[b]
      BY <2>2, <2>4, RecoveredFacts
    <3>2. cache[b] # NotCached => cache[b] = home[b]
      BY <1>1, <2>4 DEF Contents
    <3> QED
      BY <2>1, <3>1, <3>2
  <2> QED
    BY <2>3, <2>4
<1> QED
  BY <1>1, <1>2, <1>3, DiskDomains, ActiveAfter

\* Bringing a block home changes neither copy of the disk, in a commit or a recovery.
LEMMA InstallInvisible ==
  ASSUME TypeOK, Stages, Contents, InstallTrans
  PROVE  Memory' = Memory /\ Durable' = Durable
<1> DEFINE c == lh[tail]
<1>1. /\ stage \in {"install", "recover"} /\ header = lh /\ lh' = lh
      /\ header' = header /\ logblock' = logblock
      /\ home' = [home EXCEPT ![c] = logblock[tail]]
      /\ cache' = [cache EXCEPT ![c] = logblock[tail]]
  BY DEF InstallTrans, Stages, diskPart
<1>2. stage \in RecoverStage <=> stage' \in RecoverStage
  BY <1>1 DEF InstallTrans, LoopOver, Stage, RecoverStage
<1>3. /\ tail \in DOMAIN lh /\ c \in Block /\ c \in Elements(lh)
      /\ lh \in Seq(Block) /\ Distinct(lh) /\ logblock[tail] # NotCached
  BY <1>1, AtTail, LogAssumption DEF Elements, TypeOK, Stages
<1>4. ASSUME NEW b \in Block PROVE Durable'[b] = Durable[b]
  <2>1. /\ Durable = Recovered(lh, logblock, home)
        /\ Durable' = Recovered(lh, logblock, home')
    BY <1>1, DurableIs
  <2>2. CASE b \in Elements(lh)
    <3>1. PICK i \in DOMAIN lh : lh[i] = b
      BY <2>2 DEF Elements
    <3> QED
      BY <1>3, <2>1, <3>1, RecoveredFacts
  <2>3. CASE b \notin Elements(lh)
    <3>1. home'[b] = home[b]
      BY <1>1, <1>3, <2>3 DEF TypeOK
    <3> QED
      BY <1>3, <2>1, <2>3, <3>1, RecoveredFacts
  <2> QED
    BY <2>2, <2>3
<1>5. ASSUME NEW b \in Block PROVE Memory'[b] = Memory[b]
  <2>1. CASE stage \in RecoverStage
    BY <1>2, <1>4, <2>1, MemoryIs
  <2>2. CASE stage \notin RecoverStage
    <3>1. stage = "install" /\ cache[c] = logblock[tail]
      BY <1>1, <2>2, AtTail DEF RecoverStage, Contents
    <3>2. b # c => cache'[b] = cache[b] /\ home'[b] = home[b]
      BY <1>1 DEF TypeOK
    <3>3. cache'[c] = logblock[tail] /\ home'[c] = logblock[tail]
      BY <1>1, <1>3 DEF TypeOK
    <3> QED
      BY <1>2, <1>3, <2>2, <3>1, <3>2, <3>3, MemoryIs
  <2> QED
    BY <2>1, <2>2
<1> QED
  BY <1>4, <1>5, DiskDomains

\* Clearing the header of a log that is home changes nothing.
LEMMA ClearInvisible ==
  ASSUME TypeOK, Stages, Contents, Clear
  PROVE  Memory' = Memory /\ Durable' = Durable
<1>1. /\ stage \in {"clear", "recover_clear"} /\ header = lh /\ header' = <<>>
      /\ stage' \notin RecoverStage /\ UNCHANGED <<home, logblock, cache>>
  BY DEF Clear, Stage, Stages, RecoverStage
<1>2. ASSUME NEW b \in Block PROVE Durable[b] = home[b]
  <2>1. lh \in Seq(Block) /\ Distinct(lh) /\ Durable = Recovered(lh, logblock, home)
    BY <1>1, DurableIs DEF TypeOK, Stages
  <2>2. CASE b \in Elements(lh)
    <3>1. PICK i \in DOMAIN lh : lh[i] = b
      BY <2>2 DEF Elements
    <3>2. logblock[i] = home[b]
      BY <1>1, <3>1 DEF Contents
    <3> QED
      BY <2>1, <3>1, <3>2, RecoveredFacts
  <2>3. CASE b \notin Elements(lh)
    BY <2>1, <2>3, RecoveredFacts
  <2> QED
    BY <2>2, <2>3
<1>3. Durable' = home
  BY <1>1, DurableIs, RecoveredEmpty DEF TypeOK
<1>4. ASSUME NEW b \in Block PROVE Memory'[b] = Memory[b]
  <2>1. Memory'[b] = IF cache[b] = NotCached THEN home[b] ELSE cache[b]
    BY <1>1, MemoryIs
  <2>2. CASE stage = "clear"
    BY <2>1, <2>2, MemoryIs DEF RecoverStage
  <2>3. CASE stage = "recover_clear"
    <3>1. Memory[b] = home[b]
      BY <1>2, <2>3, MemoryIs DEF RecoverStage
    <3>2. cache[b] # NotCached => cache[b] = home[b]
      BY <2>3 DEF Contents, RecoverStage
    <3> QED
      BY <2>1, <3>1, <3>2
  <2> QED
    BY <1>1, <2>2, <2>3
<1> QED
  BY <1>2, <1>3, <1>4, DiskDomains

\* Every step of the log is a step of the atomic disk, or changes nothing it shows.
LEMMA StepRefines ==
  ASSUME TypeOK, Stages, Contents, [Next]_vars
  PROVE  [Atomic!DiskNext]_Atomic!diskVars
<1> USE DEF Atomic!diskVars, diskPart, memPart, opPart
<1>1. CASE UNCHANGED vars
  <2>1. Memory' = Memory /\ Durable' = Durable /\ Active' = Active
    BY <1>1, DiskKept, ActiveAfter DEF vars
  <2> QED
    BY <2>1
<1>2. ASSUME NEW o \in Op, BeginOp(o) PROVE [Atomic!DiskNext]_Atomic!diskVars
  <2>1. Memory' = Memory /\ Durable' = Durable
    BY <1>2, DiskKept DEF BeginOp
  <2>2. o \notin Active /\ (Active' = Active \/ Active' = Active \union {o})
    BY <1>2, ActiveAfter
  <2> QED
    BY <2>1, <2>2 DEF Atomic!DiskNext, Atomic!Begin
<1>3. ASSUME NEW o \in Op, EndOp(o) PROVE [Atomic!DiskNext]_Atomic!diskVars
  <2>1. o \in Active /\ Active' = Active \ {o}
    BY <1>3, ActiveAfter DEF EndOp
  <2>2. stage \notin RecoverStage /\ stage' \notin RecoverStage
    BY <1>3, <2>1 DEF EndOp, Stage, Stages, RecoverStage
  <2>3. Memory' = Memory /\ Durable' = Durable
    BY <1>3, <2>2, DiskKept DEF EndOp
  <2> QED
    BY <2>1, <2>3 DEF Atomic!DiskNext, Atomic!End
<1>4. ASSUME NEW o \in Op, NEW b \in Block, NEW v \in Value, LogWrite(o, b, v)
      PROVE  [Atomic!DiskNext]_Atomic!diskVars
  <2>1. /\ Active # {} /\ Active' = Active /\ stage' = stage
        /\ UNCHANGED <<home, logblock, header>> /\ cache' = [cache EXCEPT ![b] = v]
    BY <1>4, ActiveAfter DEF LogWrite
  <2>2. stage = "run" /\ v # NotCached /\ Durable' = Durable
    BY <2>1, DurableIs, LogAssumption DEF Stages
  <2>3. ASSUME NEW c \in Block PROVE Memory'[c] = IF c = b THEN v ELSE Memory[c]
    BY <2>1, <2>2, MemoryIs DEF TypeOK, RecoverStage
  <2>4. Memory' = [Memory EXCEPT ![b] = v]
    BY <2>3, DiskDomains
  <2> QED
    BY <2>1, <2>2, <2>4 DEF Atomic!DiskNext, Atomic!Write
<1>5. ASSUME WriteLog PROVE [Atomic!DiskNext]_Atomic!diskVars
  <2>1. /\ header = <<>> /\ header' = <<>> /\ UNCHANGED <<home, cache, op>>
        /\ stage \notin RecoverStage /\ stage' \notin RecoverStage
    BY <1>5 DEF WriteLog, LoopOver, Stage, Stages, RecoverStage
  <2>2. Durable' = Durable
    BY <2>1, DurableIs, RecoveredEmpty DEF TypeOK
  <2>3. Memory' = Memory
    BY <2>1 DEF Memory
  <2> QED
    BY <2>1, <2>2, <2>3, ActiveAfter
<1>6. ASSUME WriteHead PROVE [Atomic!DiskNext]_Atomic!diskVars
  BY <1>6, HeaderCommits DEF Atomic!DiskNext, Atomic!Commit
<1>7. ASSUME InstallTrans PROVE [Atomic!DiskNext]_Atomic!diskVars
  BY <1>7, InstallInvisible, ActiveAfter DEF InstallTrans
<1>8. ASSUME Clear PROVE [Atomic!DiskNext]_Atomic!diskVars
  BY <1>8, ClearInvisible, ActiveAfter DEF Clear
<1>9. ASSUME CommitDone PROVE [Atomic!DiskNext]_Atomic!diskVars
  BY <1>9, DiskKept, ActiveAfter DEF CommitDone, Stage, RecoverStage
<1>10. ASSUME ReadHead PROVE [Atomic!DiskNext]_Atomic!diskVars
  BY <1>10, DiskKept, ActiveAfter DEF ReadHead, Stage, RecoverStage
<1>11. ASSUME Crash PROVE [Atomic!DiskNext]_Atomic!diskVars
  <2>1. UNCHANGED <<home, logblock, header>> /\ stage' \in RecoverStage /\ Active' = {}
    BY <1>11, ActiveAfter DEF Crash, Stage, RecoverStage
  <2>2. Durable' = Durable
    BY <2>1, DurableIs
  <2>3. Memory' = Durable
    BY <2>1, <2>2, MemoryIs, DiskDomains
  <2> QED
    BY <2>1, <2>2, <2>3 DEF Atomic!DiskNext, Atomic!Crash
<1>12. ASSUME NEW b \in Block, Recycle(b) PROVE [Atomic!DiskNext]_Atomic!diskVars
  <2>1. /\ UNCHANGED <<home, logblock, header, stage, op>> /\ b \notin pinned
        /\ cache[b] # NotCached /\ cache' = [cache EXCEPT ![b] = NotCached]
    BY <1>12 DEF Recycle
  <2>2. Durable' = Durable
    BY <2>1, DurableIs
  <2>3. cache[b] = home[b]
    BY <2>1 DEF Contents
  <2>4. ASSUME NEW c \in Block PROVE Memory'[c] = Memory[c]
    BY <2>1, <2>2, <2>3, MemoryIs DEF TypeOK
  <2>5. Memory' = Memory
    BY <2>4, DiskDomains
  <2> QED
    BY <2>1, <2>2, <2>5, ActiveAfter
<1> QED
  BY <1>1, <1>2, <1>3, <1>4, <1>5, <1>6, <1>7, <1>8, <1>9, <1>10, <1>11, <1>12
     DEF Next, Commit

\* A new file system is an atomic disk with nothing written.
LEMMA InitRefines == Init => Atomic!DiskInit
<1> SUFFICES ASSUME Init PROVE Atomic!DiskInit
  OBVIOUS
<1>1. Durable = [b \in Block |-> Blank]
  BY DEF Init, Durable
<1>2. Memory = [b \in Block |-> Blank]
  BY DEF Init, Memory, RecoverStage
<1>3. Active = {}
  BY DEF Init, Active
<1> QED
  BY <1>1, <1>2, <1>3 DEF Atomic!DiskInit

\* The log is an atomic disk: whenever the machine crashes, the disk recovery leaves
\* holds what the file system read at the last header write, no more and no less.
THEOREM AtomicThroughCrashes == Spec => ImplementsAtomicDisk
<1>1. LogInv /\ [Next]_vars => [Atomic!DiskNext]_Atomic!diskVars
  BY StepRefines DEF LogInv
<1> QED
  BY InitRefines, Invariant, <1>1, PTL DEF Spec, ImplementsAtomicDisk, Atomic!DiskSpec
=============================================================================
