SPECIFICATION Spec
CONSTANTS
  NMem = 2
  Banks = {0, 1}
  Blocks = {"b1", "b2"}
  TTLines = {"t1"}
  TM0Lines = {"m1"}
  TM1Lines = {"r1"}
  Up <- UpShared
  NRows = 2
  Row <- Rows
  Byte <- Bytes
  Bits = {1}
  BankOf <- TwoBanks
  Dealt <- InTurn
  SetOf <- BankSet
  NWays = 1
  NLevel = 3
  AEA = FALSE
  BLL = FALSE
  Orders = {0, 2}
INVARIANTS LockPermitted
PROPERTY ImplementsTaggedMemory
