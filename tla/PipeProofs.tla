----------------------------- MODULE PipeProofs -----------------------------
(***************************************************************************)
(* A pipe is a bounded queue whose sleepers sleep for a reason, for any    *)
(* number of readers and writers, any size and any wrap of the counters.   *)
(***************************************************************************)
EXTENDS Pipe, SequenceTheorems, TLAPS

Holding(p) == pc[p] \in {"put", "wait", "get", "sleep"}

\* Who is where: the lock is held by the process under it, and only a process whose
\* end is open is inside a call.
Places ==
  \A p \in Process :
    /\ lock = p <=> Holding(p)
    /\ pc[p] = "put" => p \in Writer
    /\ pc[p] \in {"wait", "get"} => p \in Reader
    /\ pc[p] # "user" => p \in open

\* What a closed end and a freed page mean.
Ends ==
  /\ ~readopen => open \intersect Reader = {}
  /\ ~writeopen => open \intersect Writer = {}
  /\ freed => ~readopen /\ ~writeopen

\* A writer asleep has a full buffer, or a reader at work that will wake it.
WritersAsleep ==
  \A p \in Writer :
    /\ pc[p] = "sleep" => Full /\ readopen
    /\ pc[p] = "asleep" => readopen /\ (Full \/ \E r \in Reader : pc[r] = "get")

\* A reader asleep has an empty buffer, or a writer at work that will wake it, or a
\* writer was killed.
ReadersAsleep ==
  \A p \in Reader :
    /\ pc[p] = "sleep" => Empty /\ writeopen
    /\ pc[p] = "asleep" =>
         writeopen /\ (Empty \/ \E w \in Writer : pc[w] = "put" \/ killed[w])

\* The bytes in the buffer.
Used    == (nwrite - nread + WRAP) % WRAP
Bounded == Used <= PIPESIZE

PipeInv == PipeTypeOK /\ Places /\ Ends /\ WritersAsleep /\ ReadersAsleep /\ Bounded

-----------------------------------------------------------------------------
(* Counters that wrap *)

\* Remainders below the divisor and one divisor up.
LEMMA ModSmall ==
  ASSUME NEW n \in Nat \ {0}, NEW x \in 0 .. 2 * n - 1
  PROVE  /\ x < n => x % n = x
         /\ x >= n => x % n = x - n
<1>1. x < n => x % n = x
  OBVIOUS
<1>2. x >= n => x % n = x - n
  OBVIOUS
<1> QED
  BY <1>1, <1>2

\* Quotient and remainder.
LEMMA DivMod ==
  ASSUME NEW n \in Nat \ {0}, NEW x \in Nat
  PROVE  x = n * (x \div n) + (x % n) /\ x \div n \in Nat /\ x % n \in 0 .. n - 1
  OBVIOUS

\* The remainder of a sum of a multiple and something smaller.
LEMMA ModOf ==
  ASSUME NEW n \in Nat \ {0}, NEW q \in Nat, NEW r \in 0 .. n - 1
  PROVE  (n * q + r) % n = r
  OBVIOUS

\* Multiples of the divisor do not count.
LEMMA ModMultiple ==
  ASSUME NEW n \in Nat \ {0}, NEW q \in Nat, NEW x \in Nat
  PROVE  (n * q + x) % n = x % n
<1> DEFINE d == x \div n
           r == x % n
<1>1. x = n * d + r /\ d \in Nat /\ r \in 0 .. n - 1
  BY DivMod
<1> HIDE DEF d, r
<1>2. n * q + x = n * (q + d) + r /\ q + d \in Nat
  BY <1>1
<1>3. (n * (q + d) + r) % n = r
  BY <1>1, <1>2, ModOf
<1> QED
  BY <1>2, <1>3 DEF r

\* Two numbers less than the divisor apart have different remainders.
LEMMA ModApart ==
  ASSUME NEW n \in Nat \ {0}, NEW x \in Nat, NEW d \in 1 .. n - 1
  PROVE  (x + d) % n # x % n
<1> DEFINE q == x \div n
           r == x % n
<1>1. x = n * q + r /\ q \in Nat /\ r \in 0 .. n - 1
  BY DivMod
<1> HIDE DEF q, r
<1>2. CASE r + d < n
  <2>1. x + d = n * q + (r + d) /\ r + d \in 0 .. n - 1
    BY <1>1, <1>2
  <2> QED
    <3>1. (n * q + (r + d)) % n = r + d
      BY <1>1, <2>1, ModOf
    <3> QED
      BY <1>1, <2>1, <3>1 DEF r
<1>3. CASE r + d >= n
  <2>1. x + d = n * (q + 1) + (r + d - n) /\ q + 1 \in Nat /\ r + d - n \in 0 .. n - 1
    BY <1>1, <1>3
  <2>2. (x + d) % n = r + d - n
    BY <1>1, <2>1, ModOf
  <2> QED
    BY <1>1, <2>2 DEF r
<1> QED
  BY <1>1, <1>2, <1>3

\* The slot of a counter is the slot of its unwrapped value.
LEMMA SlotOfWrapped ==
  ASSUME NEW x \in Nat, NEW k \in Nat, x >= WRAP
  PROVE  (x - WRAP + k) % PIPESIZE = (x + k) % PIPESIZE
<1> DEFINE m == WRAP \div PIPESIZE
<1>1. WRAP = PIPESIZE * m /\ m \in Nat
  BY DivMod, PipeAssumption
<1> HIDE DEF m
<1>2. x - WRAP + k \in Nat /\ x + k = PIPESIZE * m + (x - WRAP + k)
  BY <1>1, PipeAssumption
<1> DEFINE y == x - WRAP + k
<1>3. y \in Nat /\ x + k = PIPESIZE * m + y
  BY <1>2
<1> HIDE DEF y
<1>4. (PIPESIZE * m + y) % PIPESIZE = y % PIPESIZE
  BY <1>1, <1>3, ModMultiple, PipeAssumption
<1> QED
  BY <1>3, <1>4 DEF y

\* One step of a counter.
LEMMA NextFacts ==
  ASSUME NEW n \in Counter
  PROVE  /\ Next1(n) \in Counter
         /\ \/ Next1(n) = n + 1 /\ n + 1 < WRAP
            \/ Next1(n) = 0 /\ n + 1 = WRAP
         /\ \A k \in Nat : (Next1(n) + k) % PIPESIZE = (n + 1 + k) % PIPESIZE
<1>1. n \in Nat /\ n + 1 \in 0 .. 2 * WRAP - 1 /\ n + 1 <= WRAP /\ WRAP \in Nat \ {0}
  BY PipeAssumption DEF Counter
<1>2. \/ Next1(n) = n + 1 /\ n + 1 < WRAP
      \/ Next1(n) = 0 /\ n + 1 = WRAP
  <2> DEFINE x == n + 1
  <2>1. x \in 0 .. 2 * WRAP - 1 /\ WRAP \in Nat \ {0}
    BY <1>1
  <2> HIDE DEF x
  <2>2. (x < WRAP => x % WRAP = x) /\ (x >= WRAP => x % WRAP = x - WRAP)
    BY <2>1, ModSmall
  <2> QED
    BY <2>1, <2>2, <1>1 DEF x, Next1
<1>3. ASSUME NEW k \in Nat PROVE (Next1(n) + k) % PIPESIZE = (n + 1 + k) % PIPESIZE
  <2>1. CASE Next1(n) = n + 1
    BY <2>1
  <2>2. CASE Next1(n) = 0 /\ n + 1 = WRAP
    <3>1. (n + 1 - WRAP + k) % PIPESIZE = (n + 1 + k) % PIPESIZE
      <4> DEFINE x == n + 1
      <4>1. x \in Nat /\ x >= WRAP
        BY <1>1, <2>2
      <4> HIDE DEF x
      <4>2. (x - WRAP + k) % PIPESIZE = (x + k) % PIPESIZE
        BY <4>1, SlotOfWrapped
      <4> QED
        BY <1>1, <4>2 DEF x
    <3>2. n + 1 - WRAP + k = Next1(n) + k
      BY <1>1, <2>2
    <3> QED
      BY <3>1, <3>2
  <2> QED
    BY <1>2, <2>1, <2>2
<1> QED
  BY <1>1, <1>2, <1>3 DEF Counter

\* How far apart the counters are, and when the buffer is empty or full.
LEMMA UsedFacts ==
  ASSUME nread \in Counter, nwrite \in Counter
  PROVE  /\ Used \in Nat /\ Used < WRAP
         /\ \/ Used = nwrite - nread /\ nread <= nwrite
            \/ Used = nwrite - nread + WRAP /\ nwrite < nread
         /\ Empty <=> Used = 0
         /\ Full <=> Used = PIPESIZE
<1>1. /\ nread \in Nat /\ nwrite \in Nat /\ nread < WRAP /\ nwrite < WRAP
      /\ WRAP \in Nat \ {0} /\ PIPESIZE \in Nat \ {0} /\ PIPESIZE < WRAP
  BY PipeAssumption DEF Counter
<1>2. nwrite - nread + WRAP \in 0 .. 2 * WRAP - 1 /\ nread + PIPESIZE \in 0 .. 2 * WRAP - 1
  BY <1>1
<1>3. \/ Used = nwrite - nread /\ nread <= nwrite
      \/ Used = nwrite - nread + WRAP /\ nwrite < nread
  <2> DEFINE x == nwrite - nread + WRAP
  <2>1. x \in 0 .. 2 * WRAP - 1 /\ WRAP \in Nat \ {0}
    BY <1>1, <1>2
  <2> HIDE DEF x
  <2>2. (x < WRAP => x % WRAP = x) /\ (x >= WRAP => x % WRAP = x - WRAP)
    BY <2>1, ModSmall
  <2> QED
    BY <2>1, <2>2, <1>1 DEF x, Used
<1>4. \/ (nread + PIPESIZE) % WRAP = nread + PIPESIZE /\ nread + PIPESIZE < WRAP
      \/ (nread + PIPESIZE) % WRAP = nread + PIPESIZE - WRAP /\ nread + PIPESIZE >= WRAP
  <2> DEFINE x == nread + PIPESIZE
  <2>1. x \in 0 .. 2 * WRAP - 1 /\ WRAP \in Nat \ {0}
    BY <1>1, <1>2
  <2> HIDE DEF x
  <2>2. (x < WRAP => x % WRAP = x) /\ (x >= WRAP => x % WRAP = x - WRAP)
    BY <2>1, ModSmall
  <2> QED
    BY <2>1, <2>2, <1>1 DEF x
<1> QED
  BY <1>1, <1>3, <1>4 DEF Empty, Full

\* The slot the next byte goes to lies Used slots after the next one to read.
LEMMA WriteSlot ==
  ASSUME nread \in Counter, nwrite \in Counter
  PROVE  nwrite % PIPESIZE = (nread + Used) % PIPESIZE
<1>1. nread \in Nat /\ nwrite \in Nat /\ WRAP \in Nat
  BY PipeAssumption DEF Counter
<1>2. CASE Used = nwrite - nread
  <2>1. nread + Used = nwrite
    BY <1>1, <1>2
  <2> QED
    BY <2>1
<1>3. CASE Used = nwrite - nread + WRAP
  <2>1. nread + Used = nwrite + WRAP
    BY <1>1, <1>3
  <2>2. (nwrite + WRAP - WRAP + 0) % PIPESIZE = (nwrite + WRAP + 0) % PIPESIZE
    <3> DEFINE x == nwrite + WRAP
    <3>1. x \in Nat /\ x >= WRAP
      BY <1>1
    <3> HIDE DEF x
    <3>2. (x - WRAP + 0) % PIPESIZE = (x + 0) % PIPESIZE
      BY <3>1, SlotOfWrapped
    <3> QED
      BY <1>1, <3>2 DEF x
  <2>3. nwrite + WRAP - WRAP + 0 = nwrite /\ nwrite + WRAP + 0 = nwrite + WRAP
    BY <1>1
  <2> QED
    BY <2>1, <2>2, <2>3
<1> QED
  BY <1>2, <1>3, UsedFacts

\* A byte more.
LEMMA UsedAfterPut ==
  ASSUME nread \in Counter, nwrite \in Counter, Bounded, ~Full,
         nwrite' = Next1(nwrite), nread' = nread
  PROVE  Used' = Used + 1 /\ Bounded' /\ nwrite' \in Counter
<1>1. /\ Used \in Nat /\ Used < PIPESIZE /\ PIPESIZE \in Nat /\ PIPESIZE < WRAP /\ WRAP \in Nat
  BY UsedFacts, PipeAssumption DEF Bounded
<1>2. nwrite' \in Counter
  BY NextFacts
<1>3. /\ nread \in Nat /\ nwrite \in Nat /\ nwrite' \in Nat
      /\ nread < WRAP /\ nwrite < WRAP /\ nwrite' < WRAP
  BY <1>1, <1>2 DEF Counter
<1>4. nwrite' = nwrite + 1 \/ (nwrite' = 0 /\ nwrite + 1 = WRAP)
  BY NextFacts
<1>5. Used' = (nwrite' - nread + WRAP) % WRAP
  BY DEF Used
<1>6. nwrite' - nread + WRAP \in 0 .. 2 * WRAP - 1
  BY <1>1, <1>3
<1>7. \/ Used' = nwrite' - nread /\ nread <= nwrite'
      \/ Used' = nwrite' - nread + WRAP /\ nwrite' < nread
  <2> DEFINE x == nwrite' - nread + WRAP
  <2>1. x \in 0 .. 2 * WRAP - 1 /\ WRAP \in Nat \ {0}
    BY <1>1, <1>3, <1>6
  <2> HIDE DEF x
  <2>2. (x < WRAP => x % WRAP = x) /\ (x >= WRAP => x % WRAP = x - WRAP)
    BY <2>1, ModSmall
  <2> QED
    BY <2>1, <2>2, <1>1, <1>3, <1>5 DEF x
<1>8. Used' = Used + 1
  BY <1>1, <1>3, <1>4, <1>7, UsedFacts
<1> QED
  BY <1>1, <1>2, <1>8 DEF Bounded

\* A byte less.
LEMMA UsedAfterGet ==
  ASSUME nread \in Counter, nwrite \in Counter, Bounded, ~Empty,
         nread' = Next1(nread), nwrite' = nwrite
  PROVE  Used' = Used - 1 /\ Bounded' /\ nread' \in Counter
<1>1. /\ Used \in Nat /\ Used > 0 /\ Used <= PIPESIZE
      /\ PIPESIZE \in Nat /\ PIPESIZE < WRAP /\ WRAP \in Nat
  BY UsedFacts, PipeAssumption DEF Bounded
<1>2. nread' \in Counter
  BY NextFacts
<1>3. /\ nread \in Nat /\ nwrite \in Nat /\ nread' \in Nat
      /\ nread < WRAP /\ nwrite < WRAP /\ nread' < WRAP
  BY <1>1, <1>2 DEF Counter
<1>4. nread' = nread + 1 \/ (nread' = 0 /\ nread + 1 = WRAP)
  BY NextFacts
<1>5. Used' = (nwrite - nread' + WRAP) % WRAP
  BY DEF Used
<1>6. nwrite - nread' + WRAP \in 0 .. 2 * WRAP - 1
  BY <1>1, <1>3
<1>7. \/ Used' = nwrite - nread' /\ nread' <= nwrite
      \/ Used' = nwrite - nread' + WRAP /\ nwrite < nread'
  <2> DEFINE x == nwrite - nread' + WRAP
  <2>1. x \in 0 .. 2 * WRAP - 1 /\ WRAP \in Nat \ {0}
    BY <1>1, <1>3, <1>6
  <2> HIDE DEF x
  <2>2. (x < WRAP => x % WRAP = x) /\ (x >= WRAP => x % WRAP = x - WRAP)
    BY <2>1, ModSmall
  <2> QED
    BY <2>1, <2>2, <1>1, <1>3, <1>5 DEF x
<1>8. Used' = Used - 1
  BY <1>1, <1>3, <1>4, <1>7, UsedFacts
<1> QED
  BY <1>1, <1>2, <1>8 DEF Bounded

-----------------------------------------------------------------------------
(* The steps *)

\* Every step keeps the types.
LEMMA TypesStep ==
  ASSUME PipeTypeOK, [PipeNext]_pipeVars
  PROVE  PipeTypeOK'
<1> USE PipeAssumption DEF PipeTypeOK, pipe, procs
<1>1. CASE UNCHANGED pipeVars
  BY <1>1 DEF pipeVars
<1>2. ASSUME NEW p \in Process, Call(p) PROVE PipeTypeOK'
  BY <1>2 DEF Call, Goto
<1>3. ASSUME NEW p \in Process, WriteFails(p) PROVE PipeTypeOK'
  BY <1>3 DEF WriteFails, Locked, Goto, Return, Unlock
<1>4. ASSUME NEW p \in Process, PutFull(p) PROVE PipeTypeOK'
  BY <1>4 DEF PutFull, Locked, WakeAndGoto
<1>5. ASSUME NEW p \in Process, NEW b \in Byte, PutByte(p, b) PROVE PipeTypeOK'
  <2>1. nwrite' \in Counter
    BY <1>5, NextFacts DEF PutByte
  <2>2. data' \in [0 .. PIPESIZE - 1 -> Byte]
    BY <1>5 DEF PutByte
  <2>3. left' \in [Process -> 0 .. MaxN]
    <3>1. left[p] - 1 \in 0 .. MaxN
      BY <1>5 DEF PutByte
    <3> QED
      BY <1>5, <3>1 DEF PutByte
  <2> QED
    BY <1>5, <2>1, <2>2, <2>3 DEF PutByte
<1>6. ASSUME NEW p \in Process, WriteEnds(p) PROVE PipeTypeOK'
  BY <1>6 DEF WriteEnds, Locked, WakeAndGoto, Return, Unlock
<1>7. ASSUME NEW p \in Process, ReadFails(p) PROVE PipeTypeOK'
  BY <1>7 DEF ReadFails, Locked, Goto, Return, Unlock
<1>8. ASSUME NEW p \in Process, ReadSleeps(p) PROVE PipeTypeOK'
  BY <1>8 DEF ReadSleeps, Locked, Goto
<1>9. ASSUME NEW p \in Process, ReadGoes(p) PROVE PipeTypeOK'
  BY <1>9 DEF ReadGoes, Locked, Goto
<1>10. ASSUME NEW p \in Process, GetByte(p) PROVE PipeTypeOK'
  BY <1>10, NextFacts DEF GetByte, Locked
<1>11. ASSUME NEW p \in Process, GetFails(p) PROVE PipeTypeOK'
  BY <1>11, NextFacts DEF GetFails, Locked, WakeAndGoto, Return, Unlock
<1>12. ASSUME NEW p \in Process, ReadEnds(p) PROVE PipeTypeOK'
  BY <1>12 DEF ReadEnds, Locked, WakeAndGoto, Return, Unlock
<1>13. ASSUME NEW p \in Process, Sleep(p) PROVE PipeTypeOK'
  BY <1>13 DEF Sleep, Locked, Unlock, Goto
<1>14. ASSUME NEW p \in Process, Relock(p) PROVE PipeTypeOK'
  BY <1>14 DEF Relock, Goto
<1>15. ASSUME NEW p \in Process, Kill(p) PROVE PipeTypeOK'
  BY <1>15 DEF Kill, Goto
<1>16. ASSUME NEW p \in Process, Close(p) PROVE PipeTypeOK'
  BY <1>16 DEF Close, WakeAndGoto, FreedWith
<1> QED
  BY <1>1, <1>2, <1>3, <1>4, <1>5, <1>6, <1>7, <1>8, <1>9, <1>10, <1>11, <1>12, <1>13,
     <1>14, <1>15, <1>16 DEF PipeNext, Write, Read

\* Every step keeps the lock with the process that runs under it.
LEMMA PlacesStep ==
  ASSUME PipeTypeOK, Places, [PipeNext]_pipeVars
  PROVE  Places'
<1> USE PipeAssumption DEF PipeTypeOK, Places, Holding, Process, pipe, procs
<1>1. CASE UNCHANGED pipeVars
  BY <1>1 DEF pipeVars
<1>2. ASSUME NEW p \in Process, Call(p) PROVE Places'
  BY <1>2 DEF Call, Goto
<1>3. ASSUME NEW p \in Process, WriteFails(p) PROVE Places'
  BY <1>3 DEF WriteFails, Locked, Goto, Return, Unlock
<1>4. ASSUME NEW p \in Process, PutFull(p) PROVE Places'
  BY <1>4 DEF PutFull, Locked, WakeAndGoto
<1>5. ASSUME NEW p \in Process, NEW b \in Byte, PutByte(p, b) PROVE Places'
  BY <1>5 DEF PutByte, Locked
<1>6. ASSUME NEW p \in Process, WriteEnds(p) PROVE Places'
  BY <1>6 DEF WriteEnds, Locked, WakeAndGoto, Return, Unlock
<1>7. ASSUME NEW p \in Process, ReadFails(p) PROVE Places'
  BY <1>7 DEF ReadFails, Locked, Goto, Return, Unlock
<1>8. ASSUME NEW p \in Process, ReadSleeps(p) PROVE Places'
  BY <1>8 DEF ReadSleeps, Locked, Goto
<1>9. ASSUME NEW p \in Process, ReadGoes(p) PROVE Places'
  BY <1>9 DEF ReadGoes, Locked, Goto
<1>10. ASSUME NEW p \in Process, GetByte(p) PROVE Places'
  BY <1>10 DEF GetByte, Locked
<1>11. ASSUME NEW p \in Process, GetFails(p) PROVE Places'
  BY <1>11 DEF GetFails, Locked, WakeAndGoto, Return, Unlock
<1>12. ASSUME NEW p \in Process, ReadEnds(p) PROVE Places'
  BY <1>12 DEF ReadEnds, Locked, WakeAndGoto, Return, Unlock
<1>13. ASSUME NEW p \in Process, Sleep(p) PROVE Places'
  BY <1>13 DEF Sleep, Locked, Unlock, Goto
<1>14. ASSUME NEW p \in Process, Relock(p) PROVE Places'
  BY <1>14 DEF Relock, Goto
<1>15. ASSUME NEW p \in Process, Kill(p) PROVE Places'
  BY <1>15 DEF Kill, Goto
<1>16. ASSUME NEW p \in Process, Close(p) PROVE Places'
  BY <1>16 DEF Close, WakeAndGoto, FreedWith
<1> QED
  BY <1>1, <1>2, <1>3, <1>4, <1>5, <1>6, <1>7, <1>8, <1>9, <1>10, <1>11, <1>12, <1>13,
     <1>14, <1>15, <1>16 DEF PipeNext, Write, Read

\* Every step keeps the flags true to the ends that are open.
LEMMA EndsStep ==
  ASSUME PipeTypeOK, Ends, [PipeNext]_pipeVars
  PROVE  Ends'
<1> USE PipeAssumption DEF PipeTypeOK, Ends, pipe, procs
<1>1. CASE UNCHANGED pipeVars
  BY <1>1 DEF pipeVars
<1>2. ASSUME NEW p \in Process, Call(p) PROVE Ends'
  BY <1>2 DEF Call, Goto
<1>3. ASSUME NEW p \in Process, WriteFails(p) PROVE Ends'
  BY <1>3 DEF WriteFails, Locked, Goto, Return, Unlock
<1>4. ASSUME NEW p \in Process, PutFull(p) PROVE Ends'
  BY <1>4 DEF PutFull, Locked, WakeAndGoto
<1>5. ASSUME NEW p \in Process, NEW b \in Byte, PutByte(p, b) PROVE Ends'
  BY <1>5 DEF PutByte, Locked
<1>6. ASSUME NEW p \in Process, WriteEnds(p) PROVE Ends'
  BY <1>6 DEF WriteEnds, Locked, WakeAndGoto, Return, Unlock
<1>7. ASSUME NEW p \in Process, ReadFails(p) PROVE Ends'
  BY <1>7 DEF ReadFails, Locked, Goto, Return, Unlock
<1>8. ASSUME NEW p \in Process, ReadSleeps(p) PROVE Ends'
  BY <1>8 DEF ReadSleeps, Locked, Goto
<1>9. ASSUME NEW p \in Process, ReadGoes(p) PROVE Ends'
  BY <1>9 DEF ReadGoes, Locked, Goto
<1>10. ASSUME NEW p \in Process, GetByte(p) PROVE Ends'
  BY <1>10 DEF GetByte, Locked
<1>11. ASSUME NEW p \in Process, GetFails(p) PROVE Ends'
  BY <1>11 DEF GetFails, Locked, WakeAndGoto, Return, Unlock
<1>12. ASSUME NEW p \in Process, ReadEnds(p) PROVE Ends'
  BY <1>12 DEF ReadEnds, Locked, WakeAndGoto, Return, Unlock
<1>13. ASSUME NEW p \in Process, Sleep(p) PROVE Ends'
  BY <1>13 DEF Sleep, Locked, Unlock, Goto
<1>14. ASSUME NEW p \in Process, Relock(p) PROVE Ends'
  BY <1>14 DEF Relock, Goto
<1>15. ASSUME NEW p \in Process, Kill(p) PROVE Ends'
  BY <1>15 DEF Kill, Goto
<1>16. ASSUME NEW p \in Process, Close(p) PROVE Ends'
  BY <1>16 DEF Close, WakeAndGoto, FreedWith
<1> QED
  BY <1>1, <1>2, <1>3, <1>4, <1>5, <1>6, <1>7, <1>8, <1>9, <1>10, <1>11, <1>12, <1>13,
     <1>14, <1>15, <1>16 DEF PipeNext, Write, Read

\* Every step leaves a sleeping writer its reason.
LEMMA WritersStep ==
  ASSUME PipeTypeOK, Places, Ends, WritersAsleep, [PipeNext]_pipeVars
  PROVE  WritersAsleep'
<1> USE PipeAssumption DEF PipeTypeOK, Places, Ends, WritersAsleep, Holding, Process, Full, Empty,
                           pipe, procs
<1>1. CASE UNCHANGED pipeVars
  BY <1>1 DEF pipeVars
<1>2. ASSUME NEW p \in Process, Call(p) PROVE WritersAsleep'
  BY <1>2 DEF Call, Goto
<1>3. ASSUME NEW p \in Process, WriteFails(p) PROVE WritersAsleep'
  BY <1>3 DEF WriteFails, Locked, Goto, Return, Unlock
<1>4. ASSUME NEW p \in Process, PutFull(p) PROVE WritersAsleep'
  BY <1>4 DEF PutFull, Locked, WakeAndGoto
<1>5. ASSUME NEW p \in Process, NEW b \in Byte, PutByte(p, b) PROVE WritersAsleep'
  BY <1>5 DEF PutByte, Locked
<1>6. ASSUME NEW p \in Process, WriteEnds(p) PROVE WritersAsleep'
  BY <1>6 DEF WriteEnds, Locked, WakeAndGoto, Return, Unlock
<1>7. ASSUME NEW p \in Process, ReadFails(p) PROVE WritersAsleep'
  BY <1>7 DEF ReadFails, Locked, Goto, Return, Unlock
<1>8. ASSUME NEW p \in Process, ReadSleeps(p) PROVE WritersAsleep'
  BY <1>8 DEF ReadSleeps, Locked, Goto
<1>9. ASSUME NEW p \in Process, ReadGoes(p) PROVE WritersAsleep'
  BY <1>9 DEF ReadGoes, Locked, Goto
<1>10. ASSUME NEW p \in Process, GetByte(p) PROVE WritersAsleep'
  BY <1>10 DEF GetByte, Locked
<1>11. ASSUME NEW p \in Process, GetFails(p) PROVE WritersAsleep'
  BY <1>11 DEF GetFails, Locked, WakeAndGoto, Return, Unlock
<1>12. ASSUME NEW p \in Process, ReadEnds(p) PROVE WritersAsleep'
  BY <1>12 DEF ReadEnds, Locked, WakeAndGoto, Return, Unlock
<1>13. ASSUME NEW p \in Process, Sleep(p) PROVE WritersAsleep'
  BY <1>13 DEF Sleep, Locked, Unlock, Goto
<1>14. ASSUME NEW p \in Process, Relock(p) PROVE WritersAsleep'
  BY <1>14 DEF Relock, Goto
<1>15. ASSUME NEW p \in Process, Kill(p) PROVE WritersAsleep'
  BY <1>15 DEF Kill, Goto
<1>16. ASSUME NEW p \in Process, Close(p) PROVE WritersAsleep'
  BY <1>16 DEF Close, WakeAndGoto, FreedWith
<1> QED
  BY <1>1, <1>2, <1>3, <1>4, <1>5, <1>6, <1>7, <1>8, <1>9, <1>10, <1>11, <1>12, <1>13,
     <1>14, <1>15, <1>16 DEF PipeNext, Write, Read

\* Every step leaves a sleeping reader its reason.
LEMMA ReadersStep ==
  ASSUME PipeTypeOK, Places, Ends, ReadersAsleep, [PipeNext]_pipeVars
  PROVE  ReadersAsleep'
<1> USE PipeAssumption DEF PipeTypeOK, Places, Ends, ReadersAsleep, Holding, Process, Empty,
                           pipe, procs
<1>1. CASE UNCHANGED pipeVars
  BY <1>1 DEF pipeVars
<1>2. ASSUME NEW p \in Process, Call(p) PROVE ReadersAsleep'
  BY <1>2 DEF Call, Goto
<1>3. ASSUME NEW p \in Process, WriteFails(p) PROVE ReadersAsleep'
  BY <1>3 DEF WriteFails, Locked, Goto, Return, Unlock
<1>4. ASSUME NEW p \in Process, PutFull(p) PROVE ReadersAsleep'
  BY <1>4 DEF PutFull, Locked, WakeAndGoto
<1>5. ASSUME NEW p \in Process, NEW b \in Byte, PutByte(p, b) PROVE ReadersAsleep'
  BY <1>5 DEF PutByte, Locked
<1>6. ASSUME NEW p \in Process, WriteEnds(p) PROVE ReadersAsleep'
  BY <1>6 DEF WriteEnds, Locked, WakeAndGoto, Return, Unlock
<1>7. ASSUME NEW p \in Process, ReadFails(p) PROVE ReadersAsleep'
  BY <1>7 DEF ReadFails, Locked, Goto, Return, Unlock
<1>8. ASSUME NEW p \in Process, ReadSleeps(p) PROVE ReadersAsleep'
  BY <1>8 DEF ReadSleeps, Locked, Goto
<1>9. ASSUME NEW p \in Process, ReadGoes(p) PROVE ReadersAsleep'
  BY <1>9 DEF ReadGoes, Locked, Goto
<1>10. ASSUME NEW p \in Process, GetByte(p) PROVE ReadersAsleep'
  BY <1>10 DEF GetByte, Locked
<1>11. ASSUME NEW p \in Process, GetFails(p) PROVE ReadersAsleep'
  BY <1>11 DEF GetFails, Locked, WakeAndGoto, Return, Unlock
<1>12. ASSUME NEW p \in Process, ReadEnds(p) PROVE ReadersAsleep'
  BY <1>12 DEF ReadEnds, Locked, WakeAndGoto, Return, Unlock
<1>13. ASSUME NEW p \in Process, Sleep(p) PROVE ReadersAsleep'
  BY <1>13 DEF Sleep, Locked, Unlock, Goto
<1>14. ASSUME NEW p \in Process, Relock(p) PROVE ReadersAsleep'
  BY <1>14 DEF Relock, Goto
<1>15. ASSUME NEW p \in Process, Kill(p) PROVE ReadersAsleep'
  BY <1>15 DEF Kill, Goto
<1>16. ASSUME NEW p \in Process, Close(p) PROVE ReadersAsleep'
  BY <1>16 DEF Close, WakeAndGoto, FreedWith
<1> QED
  BY <1>1, <1>2, <1>3, <1>4, <1>5, <1>6, <1>7, <1>8, <1>9, <1>10, <1>11, <1>12, <1>13,
     <1>14, <1>15, <1>16 DEF PipeNext, Write, Read

\* Every step keeps the bytes between the counters within the buffer.
LEMMA BoundedStep ==
  ASSUME PipeTypeOK, Bounded, [PipeNext]_pipeVars
  PROVE  Bounded'
<1> USE PipeAssumption DEF PipeTypeOK, pipe, procs
<1>0. nread' = nread /\ nwrite' = nwrite => Bounded'
  BY DEF Bounded, Used
<1>1. CASE UNCHANGED pipeVars
  BY <1>0, <1>1 DEF pipeVars
<1>2. ASSUME NEW p \in Process, Call(p) PROVE Bounded'
  BY <1>2, <1>0 DEF Call, Goto
<1>3. ASSUME NEW p \in Process, WriteFails(p) PROVE Bounded'
  BY <1>3, <1>0 DEF WriteFails, Locked, Goto, Return, Unlock
<1>4. ASSUME NEW p \in Process, PutFull(p) PROVE Bounded'
  BY <1>4, <1>0 DEF PutFull, Locked, WakeAndGoto
<1>5. ASSUME NEW p \in Process, NEW b \in Byte, PutByte(p, b) PROVE Bounded'
  BY <1>5, UsedAfterPut DEF PutByte
<1>6. ASSUME NEW p \in Process, WriteEnds(p) PROVE Bounded'
  BY <1>6, <1>0 DEF WriteEnds, Locked, WakeAndGoto, Return, Unlock
<1>7. ASSUME NEW p \in Process, ReadFails(p) PROVE Bounded'
  BY <1>7, <1>0 DEF ReadFails, Locked, Goto, Return, Unlock
<1>8. ASSUME NEW p \in Process, ReadSleeps(p) PROVE Bounded'
  BY <1>8, <1>0 DEF ReadSleeps, Locked, Goto
<1>9. ASSUME NEW p \in Process, ReadGoes(p) PROVE Bounded'
  BY <1>9, <1>0 DEF ReadGoes, Locked, Goto
<1>10. ASSUME NEW p \in Process, GetByte(p) PROVE Bounded'
  BY <1>10, UsedAfterGet DEF GetByte
<1>11. ASSUME NEW p \in Process, GetFails(p) PROVE Bounded'
  BY <1>11, UsedAfterGet DEF GetFails
<1>12. ASSUME NEW p \in Process, ReadEnds(p) PROVE Bounded'
  BY <1>12, <1>0 DEF ReadEnds, Locked, WakeAndGoto, Return, Unlock
<1>13. ASSUME NEW p \in Process, Sleep(p) PROVE Bounded'
  BY <1>13, <1>0 DEF Sleep, Locked, Unlock, Goto
<1>14. ASSUME NEW p \in Process, Relock(p) PROVE Bounded'
  BY <1>14, <1>0 DEF Relock, Goto
<1>15. ASSUME NEW p \in Process, Kill(p) PROVE Bounded'
  BY <1>15, <1>0 DEF Kill, Goto
<1>16. ASSUME NEW p \in Process, Close(p) PROVE Bounded'
  BY <1>16, <1>0 DEF Close, WakeAndGoto, FreedWith
<1> QED
  BY <1>1, <1>2, <1>3, <1>4, <1>5, <1>6, <1>7, <1>8, <1>9, <1>10, <1>11, <1>12, <1>13,
     <1>14, <1>15, <1>16 DEF PipeNext, Write, Read

\* A new pipe is empty, open and unlocked.
LEMMA InitInv == PipeInit => PipeInv
<1> SUFFICES ASSUME PipeInit PROVE PipeInv
  OBVIOUS
<1>1. PipeTypeOK
  <2>1. (CHOOSE b \in Byte : TRUE) \in Byte
    BY PipeAssumption
  <2>2. 0 \in Counter /\ 0 \in 0 .. MaxN
    BY PipeAssumption DEF Counter
  <2> QED
    BY <2>1, <2>2 DEF PipeInit, PipeTypeOK
<1>2. \A p \in Process : pc[p] = "user" /\ lock # p
  BY PipeAssumption DEF PipeInit
<1>3. Places
  BY <1>2 DEF Places, Holding
<1>4. Ends /\ WritersAsleep /\ ReadersAsleep
  BY <1>2 DEF PipeInit, Ends, WritersAsleep, ReadersAsleep, Process
<1>5. Bounded
  <2>1. nread \in Counter /\ nwrite \in Counter /\ Empty
    BY PipeAssumption DEF PipeInit, Counter, Empty
  <2> QED
    BY <2>1, UsedFacts, PipeAssumption DEF Bounded
<1> QED
  BY <1>1, <1>3, <1>4, <1>5 DEF PipeInv

\* The invariant of a pipe, for any number of readers and writers.
THEOREM PipeInvariant == PipeSpec => []PipeInv
<1>1. PipeInv /\ [PipeNext]_pipeVars => PipeInv'
  BY TypesStep, PlacesStep, EndsStep, WritersStep, ReadersStep, BoundedStep DEF PipeInv
<1> QED
  BY InitInv, <1>1, PTL DEF PipeSpec

\* The counters, slots and flags of a pipe keep their ranges.
THEOREM PipeTypes == PipeSpec => []PipeTypeOK
<1>1. PipeInv => PipeTypeOK
  BY DEF PipeInv
<1> QED
  BY <1>1, PipeInvariant, PTL

\* pipewrite() leaves no writer asleep beside free room or a closed read end.
THEOREM WritersWakeUp == PipeSpec => []WriterSleepsOnFull
<1>1. PipeInv => WriterSleepsOnFull
  BY PipeAssumption DEF PipeInv, WriterSleepsOnFull, Places, Holding, WritersAsleep, Process
<1> QED
  BY <1>1, PipeInvariant, PTL

\* piperead() leaves no reader asleep beside bytes or a closed write end, unless a
\* writer was killed.
THEOREM ReadersWakeUp == PipeSpec => []ReaderSleepsOnEmptyUnlessKilled
<1>1. PipeInv => ReaderSleepsOnEmptyUnlessKilled
  BY PipeAssumption
     DEF PipeInv, ReaderSleepsOnEmptyUnlessKilled, Places, Holding, ReadersAsleep, Process
<1> QED
  BY <1>1, PipeInvariant, PTL

\* pipeclose() frees the page with no process inside a call and no end left open.
THEOREM FreedWhenUnused == PipeSpec => []FreedUnused
<1>1. PipeInv => FreedUnused
  BY PipeAssumption DEF PipeInv, FreedUnused, Places, Holding, Ends, Process, PipeTypeOK
<1> QED
  BY <1>1, PipeInvariant, PTL

-----------------------------------------------------------------------------
(* The queue *)

Slot(i) == (nread + i - 1) % PIPESIZE

QueueInSlots ==
  /\ Contents \in Seq(Byte) /\ Len(Contents) = Used
  /\ \A i \in 1 .. Used : Contents[i] = data[Slot(i)] /\ Slot(i) \in 0 .. PIPESIZE - 1

\* The queue is the sequence of the bytes in the slots between the counters.
LEMMA QueueFacts == PipeTypeOK => QueueInSlots
<1> SUFFICES ASSUME PipeTypeOK PROVE QueueInSlots
  OBVIOUS
<1>1. Used \in Nat /\ nread \in Nat
  BY UsedFacts, PipeAssumption DEF PipeTypeOK, Counter
<1>2. \A i \in 1 .. Used : Slot(i) \in 0 .. PIPESIZE - 1
  <2> SUFFICES ASSUME NEW i \in 1 .. Used PROVE Slot(i) \in 0 .. PIPESIZE - 1
    OBVIOUS
  <2> DEFINE x == nread + i - 1
  <2>1. x \in Nat
    BY <1>1
  <2> HIDE DEF x
  <2>2. x % PIPESIZE \in 0 .. PIPESIZE - 1
    BY <2>1, DivMod, PipeAssumption
  <2> QED
    BY <2>2 DEF x, Slot
<1>3. Contents = [i \in 1 .. Used |-> data[Slot(i)]]
  BY DEF Contents, Used, Slot
<1>4. Contents \in [1 .. Used -> Byte]
  BY <1>2, <1>3 DEF PipeTypeOK
<1>5. Contents \in Seq(Byte) /\ Len(Contents) = Used
  BY <1>1, <1>4
<1> QED
  BY <1>2, <1>3, <1>5 DEF QueueInSlots

\* An unchanged buffer holds an unchanged queue.
LEMMA QueueKept ==
  ASSUME UNCHANGED <<data, nread, nwrite>>
  PROVE  Contents' = Contents
  BY DEF Contents

\* A byte written lands behind all others.
LEMMA PutAppends ==
  ASSUME PipeTypeOK, PipeTypeOK', Bounded, ~Full, NEW b \in Byte,
         data' = [data EXCEPT ![nwrite % PIPESIZE] = b],
         nwrite' = Next1(nwrite), nread' = nread
  PROVE  Len(Contents) < PIPESIZE /\ Contents' = Append(Contents, b)
<1>1. /\ Used \in Nat /\ Used < PIPESIZE /\ PIPESIZE \in Nat \ {0} /\ nread \in Nat
      /\ Used' = Used + 1
  BY UsedFacts, UsedAfterPut, PipeAssumption DEF PipeTypeOK, Counter, Bounded
<1>2. /\ Contents' \in Seq(Byte) /\ Len(Contents') = Used + 1
      /\ \A i \in 1 .. Used + 1 : Contents'[i] = data'[Slot(i)]
  <2>1. /\ Contents' \in Seq(Byte) /\ Len(Contents') = Used'
        /\ \A i \in 1 .. Used' : Contents'[i] = data'[Slot(i)']
    <3>1. PipeTypeOK' => QueueInSlots'
      BY QueueFacts, PTL
    <3> QED
      BY <3>1 DEF QueueInSlots
  <2> QED
    BY <1>1, <2>1 DEF Slot
<1>3. nwrite % PIPESIZE = Slot(Used + 1) /\ Slot(Used + 1) \in 0 .. PIPESIZE - 1
  BY <1>1, WriteSlot DEF PipeTypeOK, Slot
<1>4. \A i \in 1 .. Used : Slot(i) # Slot(Used + 1)
  <2> SUFFICES ASSUME NEW i \in 1 .. Used PROVE Slot(i) # Slot(Used + 1)
    OBVIOUS
  <2> DEFINE x == nread + i - 1
             d == Used + 1 - i
  <2>1. x \in Nat /\ d \in 1 .. PIPESIZE - 1 /\ x + d = nread + (Used + 1) - 1
    BY <1>1
  <2> HIDE DEF x, d
  <2>2. (x + d) % PIPESIZE # x % PIPESIZE
    BY <1>1, <2>1, ModApart
  <2> QED
    BY <2>1, <2>2 DEF x, Slot
<1>5. Contents'[Used + 1] = b
  BY <1>1, <1>2, <1>3 DEF PipeTypeOK
<1>6. \A i \in 1 .. Used : Contents'[i] = Contents[i]
  BY <1>1, <1>2, <1>3, <1>4, QueueFacts DEF PipeTypeOK, QueueInSlots
<1>7. /\ Append(Contents, b) \in Seq(Byte) /\ Len(Append(Contents, b)) = Used + 1
      /\ \A i \in 1 .. Used : Append(Contents, b)[i] = Contents[i]
      /\ Append(Contents, b)[Used + 1] = b
  BY QueueFacts, AppendProperties DEF QueueInSlots
<1>8. \A i \in 1 .. Used + 1 : Contents'[i] = Append(Contents, b)[i]
  BY <1>1, <1>5, <1>6, <1>7
<1> QED
  BY <1>1, <1>2, <1>7, <1>8, QueueFacts, SeqEqual DEF QueueInSlots

\* The byte read is the first.
LEMMA GetTakesFirst ==
  ASSUME PipeTypeOK, PipeTypeOK', Bounded, ~Empty, data' = data,
         nread' = Next1(nread), nwrite' = nwrite
  PROVE  Contents # <<>> /\ Contents' = Tail(Contents)
<1>1. Used \in Nat /\ Used > 0 /\ nread \in Nat /\ Used' = Used - 1
  BY UsedFacts, UsedAfterGet, PipeAssumption DEF PipeTypeOK, Counter
<1>2. /\ Contents' \in Seq(Byte) /\ Len(Contents') = Used - 1
      /\ \A i \in 1 .. Used - 1 : Contents'[i] = data[Slot(i)']
  <2>1. /\ Contents' \in Seq(Byte) /\ Len(Contents') = Used'
        /\ \A i \in 1 .. Used' : Contents'[i] = data'[Slot(i)']
    <3>1. PipeTypeOK' => QueueInSlots'
      BY QueueFacts, PTL
    <3> QED
      BY <3>1 DEF QueueInSlots
  <2> QED
    BY <1>1, <2>1
<1>3. ASSUME NEW i \in 1 .. Used - 1 PROVE Slot(i)' = Slot(i + 1)
  <2>1. \A k \in Nat : (nread' + k) % PIPESIZE = (nread + 1 + k) % PIPESIZE
    BY NextFacts DEF PipeTypeOK
  <2>2. (nread' + (i - 1)) % PIPESIZE = (nread + 1 + (i - 1)) % PIPESIZE
    BY <1>1, <2>1
  <2>3. nread' + (i - 1) = nread' + i - 1 /\ nread + 1 + (i - 1) = nread + (i + 1) - 1
    BY <1>1 DEF PipeTypeOK, Counter
  <2> QED
    BY <2>2, <2>3 DEF Slot
<1>4. /\ Contents # <<>> /\ Tail(Contents) \in Seq(Byte) /\ Len(Tail(Contents)) = Used - 1
      /\ \A i \in 1 .. Used - 1 : Tail(Contents)[i] = Contents[i + 1]
  BY <1>1, QueueFacts, HeadTailProperties DEF QueueInSlots
<1>5. ASSUME NEW i \in 1 .. Used - 1 PROVE Contents'[i] = Tail(Contents)[i]
  <2>1. Contents'[i] = data[Slot(i + 1)]
    BY <1>2, <1>3
  <2>2. i + 1 \in 1 .. Used
    BY <1>1
  <2>3. Contents[i + 1] = data[Slot(i + 1)]
    BY <2>2, QueueFacts DEF QueueInSlots
  <2> QED
    BY <1>4, <2>1, <2>3
<1> QED
  BY <1>2, <1>4, <1>5, SeqEqual

\* Every step of the processes is a step of the queue, or leaves it as it is.
LEMMA StepRefines ==
  ASSUME PipeInv, PipeInv', [PipeNext]_pipeVars
  PROVE  [Fifo!FifoNext]_Fifo!fifoVars
<1> USE DEF Fifo!fifoVars
<1>1. CASE UNCHANGED <<data, nread, nwrite, readopen, writeopen>>
  BY <1>1, QueueKept
<1>2. ASSUME NEW p \in Process, NEW b \in Byte, PutByte(p, b)
      PROVE  [Fifo!FifoNext]_Fifo!fifoVars
  <2>1. Len(Contents) < PIPESIZE /\ Contents' = Append(Contents, b)
    BY <1>2, PutAppends DEF PutByte, PipeInv
  <2>2. readopen /\ writeopen /\ readopen' = readopen /\ writeopen' = writeopen
    BY <1>2 DEF PutByte, Locked, PipeInv, Places, Ends
  <2> QED
    BY <2>1, <2>2 DEF Fifo!FifoNext, Fifo!Put
<1>3. ASSUME NEW p \in Process, GetByte(p) \/ GetFails(p)
      PROVE  [Fifo!FifoNext]_Fifo!fifoVars
  <2>1. /\ Locked(p, "get") /\ ~Empty /\ data' = data
        /\ nread' = Next1(nread) /\ nwrite' = nwrite
        /\ readopen' = readopen /\ writeopen' = writeopen
    BY <1>3 DEF GetByte, GetFails
  <2>2. Contents # <<>> /\ Contents' = Tail(Contents)
    BY <2>1, GetTakesFirst DEF PipeInv
  <2>3. readopen
    BY <2>1 DEF Locked, PipeInv, Places, Ends
  <2> QED
    BY <2>1, <2>2, <2>3 DEF Fifo!FifoNext, Fifo!Get
<1>4. ASSUME NEW p \in Process, Close(p) PROVE [Fifo!FifoNext]_Fifo!fifoVars
  <2>1. Contents' = Contents
    BY <1>4, QueueKept DEF Close
  <2>2. CASE p \in Writer
    <3>1. readopen' = readopen /\ (writeopen' = FALSE \/ writeopen' = writeopen)
      BY <1>4, <2>2, PipeAssumption DEF Close, Process, PipeInv, PipeTypeOK
    <3>2. writeopen
      BY <1>4, <2>2 DEF Close, PipeInv, Ends
    <3> QED
      BY <2>1, <3>1, <3>2 DEF Fifo!FifoNext, Fifo!CloseWrite
  <2>3. CASE p \in Reader /\ p \notin Writer
    <3>1. writeopen' = writeopen /\ (readopen' = FALSE \/ readopen' = readopen)
      BY <1>4, <2>3, PipeAssumption DEF Close, Process, PipeInv, PipeTypeOK
    <3>2. readopen
      BY <1>4, <2>3 DEF Close, PipeInv, Ends
    <3> QED
      BY <2>1, <3>1, <3>2 DEF Fifo!FifoNext, Fifo!CloseRead
  <2> QED
    BY <2>2, <2>3 DEF Process
<1>5. ASSUME NEW p \in Process,
             \/ Call(p) \/ WriteFails(p) \/ PutFull(p) \/ WriteEnds(p) \/ ReadFails(p)
             \/ ReadSleeps(p) \/ ReadGoes(p) \/ ReadEnds(p)
             \/ Sleep(p) \/ Relock(p) \/ Kill(p)
      PROVE  UNCHANGED <<data, nread, nwrite, readopen, writeopen>>
  BY <1>5 DEF Call, WriteFails, PutFull, WriteEnds, ReadFails, ReadSleeps, ReadGoes,
              ReadEnds, Sleep, Relock, Kill, pipe
<1>6. CASE UNCHANGED pipeVars
  BY <1>1, <1>6 DEF pipeVars, pipe
<1> QED
  BY <1>1, <1>2, <1>3, <1>4, <1>5, <1>6 DEF PipeNext, Write, Read

\* A new pipe is an empty queue.
LEMMA InitRefines == PipeInit => Fifo!FifoInit
<1> SUFFICES ASSUME PipeInit PROVE Fifo!FifoInit
  OBVIOUS
<1>1. readopen = TRUE /\ writeopen = TRUE
  BY DEF PipeInit
<1>2. Contents = <<>>
  <2>1. PipeTypeOK /\ Empty
    BY InitInv DEF PipeInv, PipeInit, Empty
  <2>2. Used = 0
    BY <2>1, UsedFacts DEF PipeTypeOK
  <2>3. Contents \in Seq(Byte) /\ Len(Contents) = 0
    BY <2>1, <2>2, QueueFacts DEF QueueInSlots
  <2> QED
    BY <2>3, EmptySeq
<1> QED
  BY <1>1, <1>2 DEF Fifo!FifoInit

\* The circular buffer is a bounded queue: no byte is lost, doubled or overtaken at
\* any wrap of the slots or of the counters, none goes in once an end is closed and
\* none comes out once the read end is.
THEOREM PipeIsAQueue == PipeSpec => ImplementsFifo
<1>1. PipeInv /\ PipeInv' /\ [PipeNext]_pipeVars => [Fifo!FifoNext]_Fifo!fifoVars
  BY StepRefines
<1> QED
  BY InitRefines, PipeInvariant, <1>1, PTL DEF PipeSpec, ImplementsFifo, Fifo!FifoSpec
=============================================================================
