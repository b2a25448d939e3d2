SPECIFICATION FairSpec
CONSTANTS
  blkA = blkA
  blkB = blkB
  n1 = n1
  Client = {c1, c2}
  Uncached = {u1}
  Block = {blkA, blkB}
  Value = {v0}
  L1Way = {w1}
  Line = {n1}
  Uses <- Rivals
  c1 = c1
  c2 = c2
  u1 = u1
  SetOf <- OneSet
  Tracker = {1}
  NoBlock = NoBlock
  NoClient = NoClient
  NoTracker = 0
  NoValue = NoValue
PROPERTY Progress
