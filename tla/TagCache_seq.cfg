SPECIFICATION SpecMasks
CONSTANTS
  NMem = 1
  Banks = {0}
  Blocks = {"b1", "b2", "b3", "b4"}
  TTLines = {"t1", "t2", "t4"}
  TM0Lines = {"m1", "m4"}
  TM1Lines = {"r1", "r4"}
  Up <- UpSpare
  NRows = 2
  Row <- Rows
  Byte <- Bytes
  Bits = {1, 2}
  BankOf <- OneBank
  Dealt <- InTurn
  SetOf <- PairSet
  NWays = 1
  NLevel = 3
  AEA = TRUE
  BLL = TRUE
  Orders = {0, 1, 2}
INVARIANTS OrdersAgree CreateMisses RowsCounted
PROPERTY ImplementsTaggedMemory
