SPECIFICATION HSpec
CONSTANTS
  NPROC = 2
  CPU = {c1, c2}
  NoCpu = NoCpu
  MLFQ_LEVELS = 2
  mlfq_quantum <- MCQuantum
  AGING_THRESHOLD = 3
PROPERTY PromotedAfterTicks
