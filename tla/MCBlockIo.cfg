SPECIFICATION Spec
CONSTANTS
  Proc = {p1, p2}
  Nobody = Nobody
  Block = {k1, k2, k3}
  NoBlock = NoBlock
  Value = {v0, v1}
  Blank = v0
  NBUF = 2
  NUM = 8
  MaxPins = 1
SYMMETRY Symmetry
INVARIANTS
  TypeOK
  PanicsOnlyWhenFull
  DescriptorsOwned
  SleepersHaveAWaker
PROPERTY ImplementsBlockStore
