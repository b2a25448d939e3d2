SPECIFICATION SpecWriters
CONSTANTS
  NMem = 2
  Banks = {0, 1}
  Blocks = {"b1", "b2", "b3", "b4"}
  TTLines = {"t1", "t2", "t3"}
  TM0Lines = {"m1", "m2", "m3"}
  TM1Lines = {"r1", "r2"}
  Up <- UpThree
  NRows = 2
  Row <- Rows
  Byte <- Bytes
  Bits = {1}
  BankOf <- Branches
  Dealt <- InTurn
  SetOf <- OwnSet
  NWays = 1
  NLevel = 3
  AEA = FALSE
  BLL = TRUE
  Orders = {1}
INVARIANTS SlotWaitEnds UnlockedAtRest
PROPERTY Progress
