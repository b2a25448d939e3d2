SPECIFICATION Spec
SYMMETRY Symmetry
CONSTANTS
  blkA = blkA
  blkB = blkB
  n1 = n1
  Client = {c1, c2}
  Uncached = {u1}
  Block = {blkA, blkB}
  Value = {v0, v1}
  L1Way = {w1}
  Line = {n1}
  Uses <- BothBlocks
  c1 = c1
  c2 = c2
  u1 = u1
  SetOf <- OneSet
  Tracker = {1}
  NoBlock = NoBlock
  NoClient = NoClient
  NoTracker = 0
  NoValue = NoValue
INVARIANTS TypeOK ExclusiveOwner L1Current GrantCurrent Inclusion ReleaseResident ProbeAnswerExpected
