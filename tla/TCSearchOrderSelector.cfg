\* nOrderSelectPeriod = 3 needs log2Up(3) = 2 bits: counters modulo 4.
SPECIFICATION Spec
CONSTANTS
  Period = 3
  CntSize = 4
  NLevel = 3
INVARIANT TypeOK
PROPERTY PeriodNeverCutShort
