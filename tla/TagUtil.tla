-------------------------------- MODULE TagUtil --------------------------------
(***************************************************************************)
(* Where the tags of a memory block are (uncore/src/main/scala/tag.scala,  *)
(* class TagUtil).  The tag table is the top of the tagged memory; the     *)
(* part of it that would hold the tags of the table itself is used for tag *)
(* map 0, and the part of map 0 that would describe map 0 for tag map 1.   *)
(*                                                                         *)
(* Sizes are powers of two in the code: a shift is a division here and a   *)
(* bit range x(hi, lo) is (x \div 2^lo) % 2^(hi - lo + 1).                 *)
(***************************************************************************)
EXTENDS Integers

CONSTANTS
  MemBase, MemSize,     \* the tagged memory, in bytes
  TagRatio,             \* tagRatio: bits of memory for a bit of tag
  MapRatio,             \* mapRatio: bits of the level below for a bit of map
  BlockBytes,           \* cacheBlockBytes
  RowBytes              \* 2^rowOffBits

tableSize == MemSize \div TagRatio
tableBase == MemBase + MemSize - tableSize
map0Size  == tableSize \div MapRatio
map0Base  == MemBase + MemSize - map0Size
map1Size  == map0Size \div MapRatio
map1Base  == MemBase + MemSize - map1Size
Top       == MemBase + MemSize

\* The requires of TagUtil, the value Configs.scala gives TagMapRatio, and a
\* memory that is aligned and large enough for the maps not to share a line.
ASSUME TagUtilAssumption ==
  /\ MemBase \in Nat /\ MemSize \in Nat \ {0}
  /\ TagRatio \in Nat \ {0, 1} /\ MapRatio \in Nat \ {0}
  /\ BlockBytes \in Nat \ {0} /\ RowBytes \in Nat \ {0}
  /\ BlockBytes % RowBytes = 0
  /\ BlockBytes % TagRatio = 0 /\ BlockBytes % 8 = 0
  /\ MapRatio = 8 * BlockBytes
  /\ MapRatio >= TagRatio
  /\ MemSize % (TagRatio * MapRatio * MapRatio) = 0
  /\ MemBase % (TagRatio * MapRatio * MapRatio * BlockBytes) = 0
  /\ TagRatio * BlockBytes <= map0Size

-----------------------------------------------------------------------------
\* Mutant: the byte index of the address itself.
pa2ttr_whole(a) == a % RowBytes

\* Tag table: byte address, byte index in the row.
pa2tta(a) == ((a - MemBase) \div TagRatio) + tableBase
pa2ttr(a) == (a \div TagRatio) % RowBytes

\* Mutant: map 0 based like map 1.
pa2tm0a_high(a) == ((a - MemBase) \div (TagRatio * MapRatio)) + map1Base

\* Tag map 0: byte address, bit index in the row, index of the lock.
pa2tm0a(a) == ((a - MemBase) \div (TagRatio * MapRatio)) + map0Base
pa2tm0b(a) == (a \div ((TagRatio * MapRatio) \div 8)) % (8 * RowBytes)
pa2tm0i(a) == (a \div ((TagRatio * MapRatio) \div 8)) % (8 * BlockBytes)

\* Tag map 1: the same.
pa2tm1a(a) == ((a - MemBase) \div (TagRatio * MapRatio * MapRatio)) + map1Base
pa2tm1b(a) == (a \div ((TagRatio * MapRatio * MapRatio) \div 8)) % (8 * RowBytes)
pa2tm1i(a) == (a \div ((TagRatio * MapRatio * MapRatio) \div 8)) % (8 * BlockBytes)

Line(x) == x \div BlockBytes
is_top(x) == Line(x) >= Line(map1Base)
is_map(x) == Line(x) >= Line(map0Base)

\* The row of a line an address is in (xact.addr(blockOffBits-1, rowOffBits)).
Row(x) == (x % BlockBytes) \div RowBytes

\* The bits of a line that a block or a map bit has.
TagBytes  == BlockBytes \div TagRatio
TTBits(a) == {<<Line(pa2tta(a)), Row(pa2tta(a)), 8 * pa2ttr(a) + i>> : i \in 0..(8 * TagBytes - 1)}
TM0Bit(a) == <<Line(pa2tm0a(a)), Row(pa2tm0a(a)), pa2tm0b(a)>>
TM1Bit(a) == <<Line(pa2tm1a(a)), Row(pa2tm1a(a)), pa2tm1b(a)>>

\* Mutant: addresses as narrow as those of map 1.
LockName_narrow(addr, lindex) == <<addr % map1Size, lindex % BlockBytes>>

\* TCTagLock: what the lock table compares; addr has log2Up(map0Size) bits and
\* lindex blockOffBits.
LockName(addr, lindex) == <<addr % map0Size, lindex % BlockBytes>>
TM0Lock(a) == LockName(pa2tm0a(a), pa2tm0i(a))
TM1Lock(a) == LockName(pa2tm1a(a), pa2tm1i(a))

-----------------------------------------------------------------------------
\* Two block addresses of the memory below the table.
VARIABLES pa, pb

vars == <<pa, pb>>

Init == pa = MemBase /\ pb = MemBase

Advance(a) == IF a + BlockBytes < tableBase THEN a + BlockBytes ELSE MemBase

Next ==
  \/ pa' = Advance(pa) /\ UNCHANGED pb
  \/ pb' = Advance(pb) /\ UNCHANGED pa

Spec == Init /\ [][Next]_vars

-----------------------------------------------------------------------------
\* The levels do not overlap: whatever the two blocks are, no address of one
\* level is taken for one of another (is_map, is_top), and the table is above
\* the memory it describes.
LevelsApart ==
  /\ tableBase <= pa2tta(pa) /\ ~ is_map(pa2tta(pa))
  /\ is_map(pa2tm0a(pa)) /\ ~ is_top(pa2tm0a(pa))
  /\ is_top(pa2tm1a(pa)) /\ pa2tm1a(pa) < Top

\* Two blocks share tag bits only if they are the same block, the bit of map 0
\* exactly if their tags are in one line, and the bit of map 1 exactly if their
\* bits of map 0 are in one line.
BitsMatchLines ==
  /\ TTBits(pa) \cap TTBits(pb) # {} => pa = pb
  /\ TM0Bit(pa) = TM0Bit(pb) <=> Line(pa2tta(pa)) = Line(pa2tta(pb))
  /\ TM1Bit(pa) = TM1Bit(pb) <=> Line(pa2tm0a(pa)) = Line(pa2tm0a(pb))

\* Truncated as it is, a lock names one bit of one map.
LocksNameBits ==
  /\ TM0Lock(pa) = TM0Lock(pb) <=> TM0Bit(pa) = TM0Bit(pb)
  /\ TM1Lock(pa) = TM1Lock(pb) <=> TM1Bit(pa) = TM1Bit(pb)
  /\ TM0Lock(pa) # TM1Lock(pb)
=============================================================================
