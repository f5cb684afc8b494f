SPECIFICATION Spec
CONSTANTS
  NPROC = 3
  NoProc = NoProc
  MAXPID = 3
  KillPids = {0, 2, 3}
PROPERTY NotBornKilled
