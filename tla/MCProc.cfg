SPECIFICATION FairSpec
CONSTANTS
  NPROC = 3
  NoProc = NoProc
  MAXPID = 4
  KillPids = {0, 3}
INVARIANTS
  TypeOK
  NoLostWakeup
  FreedOffStack
PROPERTIES
  ImplementsTree
  InitReaps
