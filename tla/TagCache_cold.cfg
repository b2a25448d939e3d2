SPECIFICATION SpecCold
CONSTANTS
  NMem = 1
  Banks = {0, 1}
  Blocks = {"b1", "b2", "b3", "b4"}
  TTLines = {"t1", "t2", "t3", "t4"}
  TM0Lines = {"m1", "m2", "m3", "m4"}
  TM1Lines = {"r1"}
  Up <- UpFour
  NRows = 2
  Row <- Rows
  Byte <- Bytes
  Bits = {1}
  BankOf <- Alternate
  Dealt <- InTurn
  SetOf <- OwnSet
  NWays = 1
  NLevel = 2
  AEA = TRUE
  BLL = TRUE
  Orders = {0}
INVARIANT ReadCorrect
