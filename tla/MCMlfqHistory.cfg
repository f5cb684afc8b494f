SPECIFICATION HSpec
CONSTANTS
  NPROC = 2
  CPU = {c1, c2}
  NoCpu = NoCpu
  MLFQ_LEVELS = 3
  mlfq_quantum <- MCQuantum
  AGING_THRESHOLD = 2
INVARIANTS
  TypeOK
  LockHandover
  OneHartPerProcess
  RunningIffOnHart
  WithinQuantum
  OneTickPerDispatch
PROPERTY PassesOverOnlyFresh
