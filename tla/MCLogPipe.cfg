SPECIFICATION MCSpec
CONSTANTS
  Op = {o1, o2, o3}
  Block = {b1, b2, b3, b4}
  Value = {v0, v1}
  Blank = v0
  NotCached = NotCached
  LOGBLOCKS = 4
  MAXOPBLOCKS = 2
  OpBlocks = 1
  Writer = {w1, w2}
  Reader = {r1}
  Nobody = Nobody
  Byte = {x, y}
  PIPESIZE = 2
  WRAP = 6
  MaxN = 3
  Killable = {w1, r1}
SYMMETRY Symmetry
INVARIANTS
  TypeOK
  NoPanic
  NoStuckWaiter
  PipeTypeOK
  ReaderSleepsOnEmptyUnlessKilled
  WriterSleepsOnFull
  FreedUnused
PROPERTIES
  ImplementsAtomicDisk
  ImplementsFifo
