SPECIFICATION LoadSpec
CONSTANTS
  NPROC = 3
  CPU = {c1}
  NoCpu = NoCpu
  MLFQ_LEVELS = 3
  mlfq_quantum <- MCQuantum
  AGING_THRESHOLD = 4
PROPERTY EveryoneServed
