\* 2048 blocks of 8 bytes, the lower 1536 of them tagged, two to a row of the
\* table; map 0 has 8 lines, and the last of them holds map 1.
SPECIFICATION Spec
CONSTANTS
  MemBase = 131072
  MemSize = 16384
  TagRatio = 4
  MapRatio = 64
  BlockBytes = 8
  RowBytes = 4
INVARIANTS LevelsApart BitsMatchLines LocksNameBits
