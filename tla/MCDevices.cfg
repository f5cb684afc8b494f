SPECIFICATION MCSpec
CONSTANTS
  Hart = {h0, h1}
  hart0 = h0
  NoHart = NoHart
  NTHREAD = 2
  UINT = 4
  Pauses = {2}
  Reader = {r1}
  Writer = {w1, w2}
  NoReader = NoReader
  INPUT_BUF_SIZE = 2
  CUINT = 4
  ReadSizes = {2}
  WriteSizes = {1}
  FIFO = 3
INVARIANTS
  InterruptsMatchNesting
  PausersNotDue
  ConsoleSleepersHaveAWaker
  NoByteOverwritten
PROPERTY ImplementsLineQueue
