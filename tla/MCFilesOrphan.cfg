SPECIFICATION Spec
CONSTANTS
  Proc = {p1, p2}
  Nobody = Nobody
  n1 = n1
  n2 = n2
  Name = {n1, n2}
  Dot = Dot
  DotDot = DotDot
  Path <- MCPath
  NINODES = 3
  NBLOCKS = 2
  NFILE = 1
  Kind = {"create", "mkdir", "unlink", "link", "open", "mknod"}
SYMMETRY Symmetry
INVARIANT UnusedInodesFree
