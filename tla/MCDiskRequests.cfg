SPECIFICATION FairSpec
CONSTANTS
  Proc = {p1, p2, p3}
  Nobody = Nobody
  Block = {k1, k2}
  NoBlock = NoBlock
  Value = {v0}
  Blank = v0
  NBUF = 2
  NUM = 5
  MaxPins = 1
INVARIANT SleepersHaveAWaker
PROPERTY RequestsFinish
