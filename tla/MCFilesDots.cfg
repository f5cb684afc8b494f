SPECIFICATION Spec
CONSTANTS
  Proc = {p1, p2}
  Nobody = Nobody
  n1 = n1
  n2 = n2
  Name = {n1, n2}
  Dot = Dot
  DotDot = DotDot
  Path <- MCDots
  NINODES = 3
  NBLOCKS = 3
  NFILE = 1
  Kind = {"mkdir", "unlink", "open"}
SYMMETRY Symmetry
INVARIANT CallsNeverPanic
