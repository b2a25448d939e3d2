----------------------------- MODULE TagUtilProofs -----------------------------
(***************************************************************************)
(* For every memory size, tag size and block size that meets the           *)
(* requirements of TagUtil: the levels of the tag hierarchy do not         *)
(* overlap, a map bit stands for one line, and a lock for one map bit.     *)
(***************************************************************************)
EXTENDS TagUtil, TLAPS

-----------------------------------------------------------------------------
(***************************************************************************)
(* Division by a shift.                                                    *)
(***************************************************************************)

\* The quotient of a division is the number of times the divisor fits.
LEMMA DivBounds ==
  ASSUME NEW x \in Nat, NEW n \in Nat \ {0}
  PROVE  x \div n \in Nat /\ n * (x \div n) <= x /\ x < n * (x \div n) + n
<1>1. x \div n \in Int
  OBVIOUS
<1>2. x = n * (x \div n) + (x % n)
  OBVIOUS
<1>3. x % n \in 0..(n - 1)
  OBVIOUS
<1>4. x \div n \in Nat
  BY <1>1, <1>2, <1>3
<1> QED BY <1>1, <1>2, <1>3, <1>4

\* The quotient of what is below a multiple of the divisor.
LEMMA DivLess ==
  ASSUME NEW x \in Nat, NEW n \in Nat \ {0}, NEW q \in Nat, x < n * q
  PROVE  x \div n < q
<1> DEFINE d == x \div n
<1>1. d \in Nat /\ n * d <= x
  BY DivBounds
<1> HIDE DEF d
<1>2. SUFFICES ASSUME d >= q PROVE FALSE
  BY <1>1 DEF d
<1>3. n * d >= n * q
  BY <1>1, <1>2
<1> QED BY <1>1, <1>3

\* Division keeps the order.
LEMMA DivMono ==
  ASSUME NEW x \in Nat, NEW y \in Nat, NEW n \in Nat \ {0}, x <= y
  PROVE  x \div n <= y \div n
<1> DEFINE d == x \div n
           e == y \div n
<1>1. d \in Nat /\ e \in Nat /\ n * d <= x /\ y < n * e + n
  BY DivBounds
<1> HIDE DEF d, e
<1>2. SUFFICES ASSUME d >= e + 1 PROVE FALSE
  BY <1>1 DEF d, e
<1>3. n * d >= n * (e + 1) /\ n * (e + 1) = n * e + n
  BY <1>1, <1>2
<1> QED BY <1>1, <1>3

\* A multiple of the divisor divides exactly.
LEMMA DivExact ==
  ASSUME NEW n \in Nat \ {0}, NEW q \in Nat
  PROVE  (n * q) \div n = q
<1> DEFINE d == (n * q) \div n
<1>1. n * q \in Nat
  OBVIOUS
<1>2. d \in Nat /\ n * d <= n * q /\ n * q < n * d + n
  BY <1>1, DivBounds
<1> HIDE DEF d
<1>3. d = q
  BY <1>2
<1> QED BY <1>3 DEF d

\* A number without remainder is a multiple.
LEMMA Multiple ==
  ASSUME NEW x \in Nat, NEW n \in Nat \ {0}, x % n = 0
  PROVE  \E q \in Nat : x = n * q
<1>1. x = n * (x \div n) + (x % n)
  OBVIOUS
<1>2. x \div n \in Nat
  BY DivBounds
<1> QED BY <1>1, <1>2

-----------------------------------------------------------------------------
\* The sizes of the levels in terms of the size S of map 1.
LEMMA Sizes ==
  \E S \in Nat \ {0} :
    /\ MemSize = TagRatio * (MapRatio * (MapRatio * S))
    /\ tableSize = MapRatio * (MapRatio * S)
    /\ map0Size = MapRatio * S
    /\ map1Size = S
<1> DEFINE R == TagRatio
           M == MapRatio
<1>1. R \in Nat \ {0, 1} /\ M \in Nat \ {0} /\ MemSize \in Nat \ {0}
  BY TagUtilAssumption
<1>2. R * M * M \in Nat \ {0}
  BY <1>1
<1>3. PICK S \in Nat : MemSize = (R * M * M) * S
  BY <1>1, <1>2, Multiple, TagUtilAssumption
<1>4. MemSize = R * (M * (M * S)) /\ S # 0 /\ M * S \in Nat /\ M * (M * S) \in Nat
  BY <1>1, <1>3
<1>5. tableSize = M * (M * S)
  BY <1>1, <1>4, DivExact DEF tableSize
<1>6. map0Size = M * S
  BY <1>1, <1>4, <1>5, DivExact DEF map0Size
<1>7. map1Size = S
  BY <1>1, <1>3, <1>6, DivExact DEF map1Size
<1> QED BY <1>3, <1>4, <1>5, <1>6, <1>7

\* Top and the base of map 0 are block addresses.
LEMMA Aligned ==
  \E u \in Nat : /\ Top = BlockBytes * u
                 /\ 8 * map1Size <= u
                 /\ map0Base = BlockBytes * (u - 8 * map1Size)
<1> DEFINE R == TagRatio
           B == BlockBytes
           M == MapRatio
<1>1. PICK S \in Nat \ {0} :
        /\ MemSize = R * (M * (M * S)) /\ map0Size = M * S /\ map1Size = S
  BY Sizes
<1>2. /\ R \in Nat \ {0, 1} /\ B \in Nat \ {0} /\ M \in Nat \ {0} /\ M = 8 * B
      /\ MemBase \in Nat
  BY TagUtilAssumption
<1>3. R * M * M * B \in Nat \ {0}
  BY <1>2
<1>4. PICK q \in Nat : MemBase = (R * M * M * B) * q
  BY <1>2, <1>3, Multiple, TagUtilAssumption
<1> DEFINE v == R * M * M * q
           w == R * (M * (8 * S))
<1>5. v \in Nat /\ w \in Nat /\ MemBase = B * v /\ MemSize = B * w
  BY <1>1, <1>2, <1>4
<1>6. w >= 8 * S
  <2>1. R * M >= 1 /\ R * M \in Nat
    BY <1>2
  <2>2. w = (R * M) * (8 * S)
    BY <1>1, <1>2
  <2> QED BY <1>1, <2>1, <2>2
<1> HIDE DEF v, w
<1>7. Top = B * (v + w) /\ v + w \in Nat
  BY <1>2, <1>5 DEF Top
<1>8. map0Size = B * (8 * S)
  BY <1>1, <1>2
<1>9. map0Base = B * (v + w - 8 * S)
  BY <1>1, <1>2, <1>5, <1>7, <1>8 DEF map0Base, Top
<1> QED BY <1>1, <1>5, <1>6, <1>7, <1>9

-----------------------------------------------------------------------------
(***************************************************************************)
(* The offset of an address below the table is below MemSize - tableSize;  *)
(* its image at a level is below the part of that level that would         *)
(* describe the level itself.                                              *)
(***************************************************************************)

\* The addresses of the table are between its base and the base of map 0
\* (pa2tta).
LEMMA TTRange ==
  ASSUME NEW a \in MemBase .. (tableBase - 1)
  PROVE  pa2tta(a) \in tableBase .. (map0Base - 1) /\ tableBase \in Nat
<1> DEFINE R == TagRatio
           M == MapRatio
           x == a - MemBase
<1>1. PICK S \in Nat \ {0} :
        /\ MemSize = R * (M * (M * S)) /\ tableSize = M * (M * S) /\ map0Size = M * S
  BY Sizes
<1>2. R \in Nat \ {0, 1} /\ M \in Nat \ {0} /\ M >= R /\ MemBase \in Nat
  BY TagUtilAssumption
<1> DEFINE m == M * S
           T == M * m
<1>3. m \in Nat \ {0} /\ T \in Nat
  BY <1>1, <1>2
<1>4. MemSize = R * T /\ tableSize = T /\ map0Size = m
  BY <1>1
<1>5. R * m <= T
  BY <1>2, <1>3
<1>6. m <= T
  BY <1>2, <1>3
<1>7. T <= R * T
  BY <1>2, <1>3
<1> HIDE DEF m, T
<1>8. tableBase \in Nat
  BY <1>2, <1>3, <1>4, <1>7 DEF tableBase
<1>9. x \in Nat /\ x < R * T - T
  BY <1>2, <1>3, <1>4, <1>8 DEF tableBase
<1>10. R * (T - m) = R * T - R * m
  BY <1>2, <1>3
<1>11. x < R * (T - m) /\ T - m \in Nat
  BY <1>2, <1>3, <1>5, <1>6, <1>9, <1>10
<1> HIDE DEF x
<1>12. x \div R < T - m /\ x \div R \in Nat
  BY <1>2, <1>9, <1>11, DivLess, DivBounds
<1>13. pa2tta(a) = (x \div R) + tableBase
  BY DEF pa2tta, x
<1> QED BY <1>2, <1>3, <1>4, <1>8, <1>12, <1>13 DEF tableBase, map0Base

\* The addresses of map 0 are above its base and stay away from the top by any
\* gap G that map 0 has room for TagRatio times (pa2tm0a).
LEMMA TM0Range ==
  ASSUME NEW a \in MemBase .. (tableBase - 1), NEW G \in Nat, TagRatio * G <= map0Size
  PROVE  pa2tm0a(a) \in map0Base .. (Top - G - 1) /\ map0Base \in Nat
<1> DEFINE R == TagRatio
           M == MapRatio
           x == a - MemBase
<1>1. PICK S \in Nat \ {0} :
        /\ MemSize = R * (M * (M * S)) /\ tableSize = M * (M * S) /\ map0Size = M * S
  BY Sizes
<1>2. R \in Nat \ {0, 1} /\ M \in Nat \ {0} /\ M >= R /\ MemBase \in Nat
  BY TagUtilAssumption
<1> DEFINE m == M * S
           T == M * m
<1>3. m \in Nat \ {0} /\ T \in Nat
  BY <1>1, <1>2
<1>4. MemSize = R * T /\ tableSize = T /\ map0Size = m
  BY <1>1
<1>5. m <= T /\ T <= R * T
  BY <1>2, <1>3
<1>6. G <= m
  <2>1. R * G >= G
    BY <1>2
  <2> QED BY <1>2, <1>3, <1>4, <2>1
<1>7. R * M \in Nat \ {0} /\ (R * M) * (m - G) = R * T - M * (R * G)
  BY <1>2, <1>3
<1>8. M * (R * G) <= T
  <2> DEFINE g == R * G
  <2>1. g \in Nat /\ g <= m
    BY <1>2, <1>4
  <2> HIDE DEF g
  <2>2. M * g <= M * m
    BY <1>2, <1>3, <2>1
  <2> QED BY <2>2 DEF g
<1> HIDE DEF m
<1>9. T \in Nat /\ R * T \in Nat /\ M * (R * G) \in Nat
  BY <1>2, <1>3
<1> HIDE DEF T
<1>10. tableBase \in Nat /\ map0Base \in Nat
  BY <1>2, <1>3, <1>4, <1>5, <1>9 DEF tableBase, map0Base
<1>11. x \in Nat /\ x < R * T - T
  BY <1>2, <1>3, <1>4, <1>9, <1>10 DEF tableBase
<1>12. x < (R * M) * (m - G) /\ m - G \in Nat
  BY <1>3, <1>6, <1>7, <1>8, <1>9, <1>11
<1> HIDE DEF x
<1>13. x \div (R * M) < m - G /\ x \div (R * M) \in Nat
  BY <1>7, <1>11, <1>12, DivLess, DivBounds
<1>14. pa2tm0a(a) = (x \div (R * M)) + map0Base
  BY DEF pa2tm0a, x
<1> QED BY <1>2, <1>3, <1>4, <1>9, <1>10, <1>13, <1>14 DEF map0Base, Top

\* The addresses of map 1 are between its base and the top (pa2tm1a).
LEMMA TM1Range ==
  ASSUME NEW a \in MemBase .. (tableBase - 1)
  PROVE  pa2tm1a(a) \in map1Base .. (Top - 1) /\ map1Base \in Nat
<1> DEFINE R == TagRatio
           M == MapRatio
           x == a - MemBase
           n == R * M * M
<1>1. PICK S \in Nat \ {0} :
        /\ MemSize = R * (M * (M * S)) /\ tableSize = M * (M * S) /\ map1Size = S
  BY Sizes
<1>2. R \in Nat \ {0, 1} /\ M \in Nat \ {0} /\ MemBase \in Nat
  BY TagUtilAssumption
<1>3. n \in Nat \ {0} /\ MemSize = n * S /\ tableSize \in Nat
  BY <1>1, <1>2
<1> HIDE DEF n
<1>4. S <= n * S /\ n * S \in Nat
  BY <1>1, <1>3
<1>5. x \in Nat /\ x < n * S
  <2>1. tableBase \in Int /\ tableBase <= MemBase + n * S
    BY <1>2, <1>3, <1>4 DEF tableBase
  <2> QED BY <1>2, <1>3, <1>4, <2>1
<1> HIDE DEF x
<1>6. x \div n < S /\ x \div n \in Nat
  BY <1>1, <1>3, <1>5, DivLess, DivBounds
<1>7. pa2tm1a(a) = (x \div n) + map1Base
  BY DEF pa2tm1a, x, n
<1> QED BY <1>1, <1>2, <1>3, <1>4, <1>6, <1>7 DEF map1Base, Top

\* No address of one level is in a line of another.
LEMMA Apart ==
  ASSUME NEW a \in MemBase .. (tableBase - 1)
  PROVE  /\ tableBase <= pa2tta(a) /\ ~ is_map(pa2tta(a))
         /\ is_map(pa2tm0a(a)) /\ ~ is_top(pa2tm0a(a))
         /\ is_top(pa2tm1a(a)) /\ pa2tm1a(a) < Top
<1> DEFINE B == BlockBytes
           S == map1Size
           R == TagRatio
<1>1. B \in Nat \ {0} /\ R \in Nat \ {0, 1} /\ B % R = 0 /\ R * B <= map0Size
      /\ MapRatio = 8 * B
  BY TagUtilAssumption
<1>2. S \in Nat \ {0} /\ map0Size = (8 * B) * S
  BY <1>1, Sizes
<1>3. PICK u \in Nat : Top = B * u /\ 8 * S <= u /\ map0Base = B * (u - 8 * S)
  BY Aligned
<1>4. tableBase <= pa2tta(a) /\ ~ is_map(pa2tta(a))
  <2>1. pa2tta(a) \in tableBase .. (map0Base - 1) /\ tableBase \in Nat
    BY TTRange
  <2> DEFINE y == pa2tta(a)
             q == u - 8 * S
  <2>2. q \in Nat
    BY <1>2, <1>3
  <2>3. y \in Nat /\ y < B * q /\ tableBase <= y
    BY <1>1, <1>3, <2>1, <2>2
  <2> HIDE DEF y, q
  <2>4. Line(y) < q /\ Line(y) \in Nat
    BY <1>1, <2>2, <2>3, DivLess, DivBounds DEF Line
  <2>5. Line(map0Base) = q
    BY <1>1, <1>3, <2>2, DivExact DEF Line, q
  <2> QED BY <2>2, <2>3, <2>4, <2>5 DEF is_map, y
<1>5. is_map(pa2tm0a(a))
  <2>1. R * 0 <= map0Size
    BY <1>1, <1>2
  <2>2. pa2tm0a(a) \in map0Base .. (Top - 0 - 1) /\ map0Base \in Nat
    BY <2>1, TM0Range
  <2>3. pa2tm0a(a) \in Nat /\ map0Base <= pa2tm0a(a)
    BY <2>2
  <2>4. Line(map0Base) <= Line(pa2tm0a(a)) /\ Line(map0Base) \in Nat /\ Line(pa2tm0a(a)) \in Nat
    BY <1>1, <2>2, <2>3, DivMono, DivBounds DEF Line
  <2> QED BY <2>4 DEF is_map
<1>6. is_top(pa2tm1a(a)) /\ pa2tm1a(a) < Top
  <2>1. pa2tm1a(a) \in map1Base .. (Top - 1) /\ map1Base \in Nat
    BY TM1Range
  <2>2. pa2tm1a(a) \in Nat /\ map1Base <= pa2tm1a(a) /\ pa2tm1a(a) < Top
    BY <1>1, <1>3, <2>1
  <2>3. Line(map1Base) <= Line(pa2tm1a(a)) /\ Line(map1Base) \in Nat /\ Line(pa2tm1a(a)) \in Nat
    BY <1>1, <2>1, <2>2, DivMono, DivBounds DEF Line
  <2> QED BY <2>2, <2>3 DEF is_top
<1>7. ~ is_top(pa2tm0a(a))
  <2> DEFINE y == pa2tm0a(a)
  <2>1. map1Base = Top - S /\ map1Base \in Nat
    <3>1. map1Base \in Nat
      BY TM1Range
    <3>2. map1Base = Top - S
      BY <1>2, TagUtilAssumption DEF map1Base, Top
    <3> QED BY <3>1, <3>2
  <2>2. R <= B
    <3>1. PICK q \in Nat : B = R * q
      BY <1>1, Multiple
    <3> QED BY <1>1, <3>1
  <2>3. R * (8 * S) <= map0Size
    <3> DEFINE z == 8 * S
    <3>1. z \in Nat /\ map0Size = B * z
      BY <1>1, <1>2
    <3> HIDE DEF z
    <3>2. R * z <= B * z
      BY <1>1, <2>2, <3>1
    <3> QED BY <3>1, <3>2 DEF z
  <2>4. /\ y \in map0Base .. (Top - B - 1)
        /\ y \in map0Base .. (Top - 8 * S - 1)
        /\ map0Base \in Nat
    BY <1>1, <1>2, <2>3, TM0Range
  <2> HIDE DEF y
  <2>5. y \in Nat /\ y < Top - B /\ y < Top - 8 * S /\ Top \in Nat
    BY <1>1, <1>2, <1>3, <2>4
  <2> DEFINE d == Line(y)
             e == Line(map1Base)
  <2>6. /\ d \in Nat /\ e \in Nat
        /\ B * d <= y /\ map1Base < B * e + B
    BY <1>1, <2>1, <2>5, DivBounds DEF Line
  <2>7. d < e
    <3> HIDE DEF d, e
    <3>1. SUFFICES ASSUME e <= d PROVE FALSE
      BY <2>6
    <3>2. B * e <= B * d
      BY <1>1, <2>6, <3>1
    <3>3. CASE S > B
      BY <1>1, <1>2, <2>1, <2>5, <2>6, <3>2, <3>3
    <3>4. CASE S <= B
      <4>1. B * (u - 1) <= map1Base /\ y < B * (u - 1)
        BY <1>1, <1>2, <1>3, <2>1, <2>5, <3>4
      <4>2. u - 1 \in Nat
        BY <1>2, <1>3
      <4>3. d < u - 1
        BY <1>1, <2>5, <4>1, <4>2, DivLess DEF d, Line
      <4>4. e < u - 1
        BY <2>6, <3>1, <4>2, <4>3
      <4>5. B * (e + 1) <= B * (u - 1)
        BY <1>1, <2>6, <4>2, <4>4
      <4>6. B * (e + 1) = B * e + B
        BY <1>1, <2>6
      <4> QED BY <1>1, <2>1, <2>6, <4>1, <4>5, <4>6
    <3> QED BY <1>1, <1>2, <3>3, <3>4
  <2> QED BY <2>6, <2>7 DEF is_top, y
<1> QED BY <1>4, <1>5, <1>6, <1>7

\* The levels do not overlap (is_map, is_top), wherever the tagged memory is and
\* however large it is.
THEOREM LevelsStayApart == Spec => []LevelsApart
<1> DEFINE Inv == pa \in MemBase .. (tableBase - 1)
<1>1. MemBase \in Nat /\ tableBase \in Nat /\ MemBase < tableBase
  <2>1. PICK S \in Nat \ {0} :
          /\ MemSize = TagRatio * (MapRatio * (MapRatio * S))
          /\ tableSize = MapRatio * (MapRatio * S)
    BY Sizes
  <2>2. TagRatio \in Nat \ {0, 1} /\ MapRatio \in Nat \ {0} /\ MemBase \in Nat
    BY TagUtilAssumption
  <2> DEFINE T == MapRatio * (MapRatio * S)
  <2>3. T \in Nat \ {0}
    BY <2>1, <2>2
  <2> HIDE DEF T
  <2>4. TagRatio * T > T /\ TagRatio * T \in Nat
    BY <2>2, <2>3
  <2>5. tableBase = MemBase + TagRatio * T - T
    BY <2>1 DEF tableBase, T
  <2> QED BY <2>2, <2>3, <2>4, <2>5
<1>2. Init => Inv
  BY <1>1 DEF Init
<1>3. Inv /\ [Next]_vars => Inv'
  BY <1>1, TagUtilAssumption DEF Next, vars, Advance
<1>4. Inv => LevelsApart
  BY Apart DEF LevelsApart
<1> QED
  BY <1>2, <1>3, <1>4, PTL DEF Spec

-----------------------------------------------------------------------------
(***************************************************************************)
(* Quotients and remainders.                                               *)
(***************************************************************************)

\* The quotient is the only number that fits.
LEMMA DivUnique ==
  ASSUME NEW x \in Nat, NEW q \in Nat, NEW n \in Nat \ {0}, n * q <= x, x < n * q + n
  PROVE  x \div n = q /\ x % n = x - n * q
<1> DEFINE d == x \div n
           r == x % n
<1>1. d \in Nat /\ n * d <= x /\ x < n * d + n
  BY DivBounds
<1>2. x = n * d + r
  OBVIOUS
<1> HIDE DEF d, r
<1>3. d = q
  <2>1. CASE d < q
    <3>1. n * (d + 1) <= n * q /\ n * (d + 1) = n * d + n
      BY <1>1, <2>1
    <3> QED BY <1>1, <3>1
  <2>2. CASE d > q
    <3>1. n * (q + 1) <= n * d /\ n * (q + 1) = n * q + n
      BY <1>1, <2>2
    <3> QED BY <1>1, <3>1
  <2> QED BY <1>1, <2>1, <2>2
<1>4. r = x - n * q
  <2>1. r \in Int
    BY DEF r
  <2> QED BY <1>2, <1>3, <2>1
<1> QED BY <1>3, <1>4 DEF d, r

\* A number is its quotient and its remainder.
LEMMA DivMod ==
  ASSUME NEW x \in Nat, NEW n \in Nat \ {0}
  PROVE  x \div n \in Nat /\ x % n \in 0..(n - 1) /\ x = n * (x \div n) + (x % n)
<1>1. x \div n \in Nat
  BY DivBounds
<1>2. x = n * (x \div n) + (x % n)
  OBVIOUS
<1>3. x % n \in 0..(n - 1)
  OBVIOUS
<1> QED BY <1>1, <1>2, <1>3

\* A multiple of the divisor moves the quotient only.
LEMMA DivShift ==
  ASSUME NEW x \in Nat, NEW q \in Nat, NEW n \in Nat \ {0}
  PROVE  (n * q + x) \div n = q + x \div n /\ (n * q + x) % n = x % n
<1> DEFINE d == x \div n
           r == x % n
           y == n * q + x
<1>1. d \in Nat /\ r \in 0..(n - 1) /\ x = n * d + r
  BY DivMod
<1>2. y \in Nat /\ n * (q + d) = n * q + n * d /\ n * d \in Nat /\ n * q \in Nat /\ q + d \in Nat
  BY <1>1
<1> HIDE DEF d, r
<1>3. n * (q + d) <= y /\ y < n * (q + d) + n /\ y - n * (q + d) = r
  BY <1>1, <1>2
<1> HIDE DEF y
<1>4. y \div n = q + d /\ y % n = r
  BY <1>1, <1>2, <1>3, DivUnique, ZenonT(30)
<1> QED BY <1>4 DEF d, r, y

\* Two shifts are one.
LEMMA DivDiv ==
  ASSUME NEW x \in Nat, NEW m \in Nat \ {0}, NEW n \in Nat \ {0}
  PROVE  (x \div m) \div n = x \div (m * n)
<1> DEFINE e == x \div m
           f == e \div n
<1>1. e \in Nat /\ m * e <= x /\ x < m * e + m
  BY DivBounds
<1> HIDE DEF e
<1>2. f \in Nat /\ n * f <= e /\ e < n * f + n
  BY <1>1, DivBounds
<1> HIDE DEF f
<1>3. m * (n * f) <= m * e /\ m * e + m <= m * (n * f) + m * n
  <2>1. n * f \in Nat /\ e + 1 <= n * f + n
    BY <1>1, <1>2
  <2>2. m * (e + 1) <= m * (n * f + n) /\ m * (n * f) <= m * e
    <3> DEFINE g == n * f
    <3>1. g \in Nat /\ g <= e /\ e + 1 <= g + n
      BY <1>1, <1>2, <2>1
    <3> HIDE DEF g
    <3>2. m * (e + 1) <= m * (g + n) /\ m * g <= m * e
      BY <1>1, <3>1
    <3> QED BY <3>2 DEF g
  <2> QED BY <1>1, <1>2, <2>1, <2>2
<1>4. m * n \in Nat \ {0} /\ (m * n) * f = m * (n * f) /\ m * (n * f) \in Nat /\ m * e \in Nat
  BY <1>1, <1>2
<1> DEFINE p == m * n
           h == p * f
<1>5. p \in Nat \ {0} /\ h \in Nat /\ h <= x /\ x < h + p
  BY <1>1, <1>3, <1>4
<1>6. x \div p = f
  <2> HIDE DEF p
  <2> QED BY <1>2, <1>5, DivUnique
<1> QED BY <1>6 DEF e, f, p

\* Numbers with the same quotient and the same remainder, or with the same remainder and
\* closer than the divisor, are the same.
LEMMA DivModInjective ==
  ASSUME NEW x \in Nat, NEW y \in Nat, NEW n \in Nat \ {0}, x % n = y % n
  PROVE  /\ x \div n = y \div n => x = y
         /\ x - y < n /\ y - x < n => x = y
<1> DEFINE d == x \div n
           e == y \div n
           r == x % n
<1>1. d \in Nat /\ e \in Nat /\ r \in 0..(n - 1) /\ x = n * d + r /\ y = n * e + r
  BY DivMod
<1> HIDE DEF d, e, r
<1>2. d = e => x = y
  BY <1>1
<1>3. ASSUME x - y < n, y - x < n PROVE d = e
  <2>1. CASE d < e
    <3>1. n * (d + 1) <= n * e /\ n * (d + 1) = n * d + n /\ n * e \in Nat /\ n * d \in Nat
      BY <1>1, <2>1
    <3> QED BY <1>1, <1>3, <3>1
  <2>2. CASE e < d
    <3>1. n * (e + 1) <= n * d /\ n * (e + 1) = n * e + n /\ n * e \in Nat /\ n * d \in Nat
      BY <1>1, <2>2
    <3> QED BY <1>1, <1>3, <3>1
  <2> QED BY <1>1, <2>1, <2>2
<1> QED BY <1>2, <1>3 DEF d, e

\* The remainder of a smaller divisor follows from that of a multiple of it.
LEMMA ModMod ==
  ASSUME NEW x \in Nat, NEW m \in Nat \ {0}, NEW n \in Nat \ {0}
  PROVE  (x % (m * n)) % m = x % m
<1> DEFINE d == x \div (m * n)
           r == x % (m * n)
<1>1. m * n \in Nat \ {0}
  OBVIOUS
<1> DEFINE p == m * n
<1>2. d \in Nat /\ r \in Nat /\ x = (m * n) * d + r
  <2>1. d = x \div p /\ r = x % p /\ p \in Nat \ {0}
    BY <1>1
  <2> HIDE DEF p, d, r
  <2>2. d \in Nat /\ r \in 0..(p - 1) /\ x = p * d + r
    BY <2>1, DivMod
  <2>3. r \in Nat
    BY <2>1, <2>2
  <2> QED BY <2>2, <2>3 DEF p
<1> HIDE DEF d, r
<1>3. x = m * (n * d) + r /\ n * d \in Nat
  BY <1>2
<1> DEFINE g == n * d
<1>4. g \in Nat /\ x = m * g + r
  BY <1>3
<1> HIDE DEF g
<1>5. (m * g + r) % m = r % m
  BY <1>2, <1>4, DivShift
<1> QED BY <1>4, <1>5 DEF r

-----------------------------------------------------------------------------
(***************************************************************************)
(* Where a block's bits are, in terms of the byte its tags start at in the *)
(* table, the line of the table that byte is in, and the line of map 0     *)
(* that line's bit is in.                                                  *)
(***************************************************************************)
tagByte(a) == (a - MemBase) \div TagRatio
tagLine(a) == tagByte(a) \div BlockBytes
mapLine(a) == tagLine(a) \div MapRatio

\* The base of the memory and that of the table are block addresses; the base of the memory
\* moves no index.
LEMMA Bases ==
  \E q, t \in Nat :
    /\ MemBase = TagRatio * (MapRatio * (MapRatio * (BlockBytes * q)))
    /\ tableBase = BlockBytes * t
<1> DEFINE R == TagRatio
           B == BlockBytes
           M == MapRatio
<1>1. PICK S \in Nat \ {0} :
        /\ MemSize = R * (M * (M * S)) /\ tableSize = M * (M * S)
  BY Sizes
<1>2. /\ R \in Nat \ {0, 1} /\ B \in Nat \ {0} /\ M \in Nat \ {0} /\ M = 8 * B
      /\ MemBase \in Nat
  BY TagUtilAssumption
<1>3. R * M * M * B \in Nat \ {0}
  BY <1>2
<1>4. PICK q \in Nat : MemBase = (R * M * M * B) * q
  BY <1>2, <1>3, Multiple, TagUtilAssumption
<1>5. MemBase = R * (M * (M * (B * q)))
  BY <1>2, <1>4
<1> DEFINE v == R * (M * (M * q))
           w == M * (8 * S)
<1>6. v \in Nat /\ w \in Nat /\ MemBase = B * v /\ tableSize = B * w
  BY <1>1, <1>2, <1>4
<1> HIDE DEF v, w
<1>7. MemSize = R * (B * w)
  BY <1>1, <1>6
<1>8. R * w - w \in Nat /\ R * w \in Nat
  BY <1>2, <1>6
<1>9. B * (v + (R * w - w)) = B * v + R * (B * w) - B * w
  BY <1>2, <1>6
<1>10. tableBase = B * (v + (R * w - w))
  BY <1>6, <1>7, <1>9 DEF tableBase
<1>11. v + (R * w - w) \in Nat
  BY <1>6, <1>8
<1> QED BY <1>5, <1>10, <1>11

\* The tags of a block in the table (pa2tta, pa2ttr).
LEMMA TTForm ==
  ASSUME NEW a \in MemBase .. (tableBase - 1)
  PROVE  /\ tagByte(a) \in Nat /\ tagLine(a) \in Nat /\ mapLine(a) \in Nat
         /\ pa2tta(a) = tableBase + tagByte(a)
         /\ pa2ttr(a) = tagByte(a) % RowBytes
<1> DEFINE R == TagRatio
           B == BlockBytes
           M == MapRatio
           x == a - MemBase
<1>1. /\ R \in Nat \ {0, 1} /\ B \in Nat \ {0} /\ M \in Nat \ {0} /\ MemBase \in Nat
      /\ RowBytes \in Nat \ {0} /\ B % RowBytes = 0
  BY TagUtilAssumption
<1>2. PICK q, t \in Nat : MemBase = R * (M * (M * (B * q))) /\ tableBase = B * t
  BY Bases
<1> R \in Nat \ {0}
  BY <1>1
<1>3. tableBase \in Nat
  BY <1>1, <1>2
<1>4. x \in Nat /\ a = MemBase + x
  BY <1>1, <1>3
<1>5. tagByte(a) = x \div R
  BY DEF tagByte, x
<1> HIDE DEF x
<1>6. tagByte(a) \in Nat
  BY <1>1, <1>4, <1>5, DivBounds
<1>7. tagLine(a) \in Nat
  BY <1>1, <1>6, DivBounds DEF tagLine
<1>8. mapLine(a) \in Nat
  BY <1>1, <1>7, DivBounds DEF mapLine
<1>9. pa2tta(a) = tableBase + tagByte(a)
  BY <1>3, <1>6 DEF pa2tta, tagByte
<1>10. PICK c \in Nat : B = RowBytes * c
  BY <1>1, Multiple
<1> DEFINE m == M * (M * (B * q))
           n == M * (M * (c * q))
<1>11. m \in Nat /\ n \in Nat /\ MemBase = R * m /\ m = RowBytes * n
  BY <1>1, <1>2, <1>10
<1> HIDE DEF m, n
<1>12. a \div R = m + tagByte(a)
  <2>1. (R * m + x) \div R = m + x \div R /\ (R * m + x) % R = x % R
    <3>1. m \in Nat /\ x \in Nat /\ R \in Nat \ {0}
      BY <1>1, <1>4, <1>11
    <3> HIDE DEF R
    <3> QED BY ONLY <3>1, DivShift
  <2> QED BY <1>4, <1>5, <1>11, <2>1
<1>13. (RowBytes * n + tagByte(a)) % RowBytes = tagByte(a) % RowBytes
  <2>1. n \in Nat /\ tagByte(a) \in Nat /\ RowBytes \in Nat \ {0}
    BY <1>1, <1>6, <1>11
  <2> QED BY ONLY <2>1, DivShift
<1>14. pa2ttr(a) = tagByte(a) % RowBytes
  BY <1>11, <1>12, <1>13 DEF pa2ttr
<1> QED BY <1>6, <1>7, <1>8, <1>9, <1>14

\* The bit of a line of the table in map 0, and its lock (pa2tm0a, pa2tm0b, pa2tm0i).
LEMMA TM0Form ==
  ASSUME NEW a \in MemBase .. (tableBase - 1)
  PROVE  /\ pa2tm0a(a) = map0Base + tagLine(a) \div 8
         /\ pa2tm0b(a) = tagLine(a) % (8 * RowBytes)
         /\ pa2tm0i(a) = tagLine(a) % (8 * BlockBytes)
<1> DEFINE R == TagRatio
           B == BlockBytes
           M == MapRatio
           x == a - MemBase
           L == tagLine(a)
           n == R * B
<1>1. /\ R \in Nat \ {0} /\ B \in Nat \ {0} /\ M = 8 * B /\ MemBase \in Nat
      /\ RowBytes \in Nat \ {0} /\ B % RowBytes = 0
  BY TagUtilAssumption
<1>2. PICK q, t \in Nat : MemBase = R * (M * (M * (B * q))) /\ tableBase = B * t
  BY Bases
<1>3. PICK c \in Nat : B = RowBytes * c
  BY <1>1, Multiple
<1>4. x \in Nat /\ a = MemBase + x
  <2>1. tableBase \in Nat
    BY <1>1, <1>2
  <2> QED BY <1>1, <2>1
<1>5. L = (x \div R) \div B
  BY DEF tagLine, tagByte
<1> HIDE DEF x, L
<1>6. L = x \div n
  BY <1>1, <1>4, <1>5, DivDiv
<1>7. n \in Nat \ {0} /\ R * M = n * 8
  BY <1>1
<1> HIDE DEF n
<1>8. L \in Nat
  BY <1>4, <1>6, <1>7, DivBounds
<1>9. x \div (R * M) = L \div 8
  <2>1. (x \div n) \div 8 = x \div (n * 8)
    <3>1. 8 \in Nat \ {0}
      OBVIOUS
    <3> QED BY ONLY <1>4, <1>7, <3>1, DivDiv, Zenon
  <2> QED BY <1>6, <1>7, <2>1
<1>10. (R * M) \div 8 = n
  <2>1. (8 * n) \div 8 = n
    BY <1>7, DivExact
  <2> QED BY <1>7, <2>1
<1> DEFINE m == M * (M * q)
<1>11. m \in Nat /\ MemBase = n * m
  BY <1>1, <1>2 DEF n
<1>12. a \div n = m + L
  <2> HIDE DEF m
  <2>1. (n * m + x) \div n = m + x \div n /\ (n * m + x) % n = x % n
    BY ONLY <1>4, <1>7, <1>11, DivShift
  <2> QED BY <1>4, <1>6, <1>11, <2>1
<1>13. ASSUME NEW k \in Nat \ {0}, NEW j \in Nat, m = k * j
       PROVE  (a \div n) % k = L % k
  <2>1. (k * j + L) \div k = j + L \div k /\ (k * j + L) % k = L % k
    BY ONLY <1>8, <1>13, DivShift
  <2> QED BY <1>12, <1>13, <2>1
<1>14. (a \div n) % (8 * RowBytes) = L % (8 * RowBytes)
  <2> DEFINE k == 8 * RowBytes
             j == c * (M * q)
  <2>1. k \in Nat \ {0} /\ j \in Nat /\ m = k * j
    BY <1>1, <1>3
  <2> HIDE DEF k, j, m
  <2>2. (a \div n) % k = L % k
    BY <1>13, <2>1
  <2> QED BY <2>2 DEF k
<1>15. (a \div n) % (8 * B) = L % (8 * B)
  <2> DEFINE k == 8 * B
             j == M * q
  <2>1. k \in Nat \ {0} /\ j \in Nat /\ m = k * j
    BY <1>1
  <2> HIDE DEF k, j, m
  <2>2. (a \div n) % k = L % k
    BY <1>13, <2>1
  <2> QED BY <2>2 DEF k
<1>16. map0Base \in Int /\ L \div 8 \in Nat
  <2>1. \E u \in Nat : map0Base = B * (u - 8 * map1Size)
    BY Aligned
  <2>2. map1Size \in Nat
    BY Sizes
  <2> QED BY <1>1, <1>8, <2>1, <2>2, DivBounds
<1>17. pa2tm0a(a) = map0Base + L \div 8
  BY <1>9, <1>16 DEF pa2tm0a, x
<1>18. pa2tm0b(a) = L % (8 * RowBytes)
  BY <1>10, <1>14 DEF pa2tm0b
<1>19. pa2tm0i(a) = L % (8 * B)
  BY <1>10, <1>15 DEF pa2tm0i
<1> QED BY <1>17, <1>18, <1>19 DEF L

\* The bit of a line of map 0 in map 1, and its lock (pa2tm1a, pa2tm1b, pa2tm1i).
LEMMA TM1Form ==
  ASSUME NEW a \in MemBase .. (tableBase - 1)
  PROVE  /\ pa2tm1a(a) = map1Base + mapLine(a) \div 8
         /\ pa2tm1b(a) = mapLine(a) % (8 * RowBytes)
         /\ pa2tm1i(a) = mapLine(a) % (8 * BlockBytes)
<1> DEFINE R == TagRatio
           B == BlockBytes
           M == MapRatio
           x == a - MemBase
           K == mapLine(a)
           n == R * B * M
<1>1. /\ R \in Nat \ {0} /\ B \in Nat \ {0} /\ M = 8 * B /\ MemBase \in Nat
      /\ RowBytes \in Nat \ {0} /\ B % RowBytes = 0 /\ M \in Nat \ {0}
  BY TagUtilAssumption
<1>2. PICK q, t \in Nat : MemBase = R * (M * (M * (B * q))) /\ tableBase = B * t
  BY Bases
<1>3. PICK c \in Nat : B = RowBytes * c
  BY <1>1, Multiple
<1>4. x \in Nat /\ a = MemBase + x
  <2>1. tableBase \in Nat
    BY <1>1, <1>2
  <2> QED BY <1>1, <2>1
<1>5. K = ((x \div R) \div B) \div M
  BY DEF mapLine, tagLine, tagByte
<1> HIDE DEF x, K
<1>6. K = x \div n
  <2> DEFINE h == R * B
  <2>1. h \in Nat \ {0}
    BY <1>1
  <2>2. (x \div R) \div B = x \div (R * B)
    <3>1. x \in Nat /\ R \in Nat \ {0} /\ B \in Nat \ {0}
      BY <1>1, <1>4
    <3> HIDE DEF R, B
    <3> QED BY ONLY <3>1, DivDiv
  <2> HIDE DEF h
  <2>3. (x \div h) \div M = x \div (h * M)
    <3>1. x \in Nat /\ h \in Nat \ {0} /\ M \in Nat \ {0}
      BY <1>1, <1>4, <2>1
    <3> HIDE DEF M
    <3> QED BY ONLY <3>1, DivDiv
  <2> QED BY <1>5, <2>2, <2>3 DEF h
<1>7. n \in Nat \ {0} /\ R * M * M = n * 8
  BY <1>1
<1> HIDE DEF n
<1>8. K \in Nat
  BY <1>4, <1>6, <1>7, DivBounds
<1>9. x \div (R * M * M) = K \div 8
  <2>1. (x \div n) \div 8 = x \div (n * 8)
    <3>1. 8 \in Nat \ {0}
      OBVIOUS
    <3> QED BY ONLY <1>4, <1>7, <3>1, DivDiv, Zenon
  <2> QED BY <1>6, <1>7, <2>1
<1>10. (R * M * M) \div 8 = n
  <2>1. (8 * n) \div 8 = n
    BY <1>7, DivExact
  <2> QED BY <1>7, <2>1
<1> DEFINE m == M * q
<1>11. m \in Nat /\ MemBase = n * m
  BY <1>1, <1>2 DEF n
<1>12. a \div n = m + K
  <2> HIDE DEF m
  <2>1. (n * m + x) \div n = m + x \div n /\ (n * m + x) % n = x % n
    BY ONLY <1>4, <1>7, <1>11, DivShift
  <2> QED BY <1>4, <1>6, <1>11, <2>1
<1>13. ASSUME NEW k \in Nat \ {0}, NEW j \in Nat, m = k * j
       PROVE  (a \div n) % k = K % k
  <2>1. (k * j + K) \div k = j + K \div k /\ (k * j + K) % k = K % k
    BY ONLY <1>8, <1>13, DivShift
  <2> QED BY <1>12, <1>13, <2>1
<1>14. (a \div n) % (8 * RowBytes) = K % (8 * RowBytes)
  <2> DEFINE k == 8 * RowBytes
             j == c * q
  <2>1. k \in Nat \ {0} /\ j \in Nat /\ m = k * j
    BY <1>1, <1>3
  <2> HIDE DEF k, j, m
  <2>2. (a \div n) % k = K % k
    BY <1>13, <2>1
  <2> QED BY <2>2 DEF k
<1>15. (a \div n) % (8 * B) = K % (8 * B)
  <2> DEFINE k == 8 * B
  <2>1. k \in Nat \ {0} /\ q \in Nat /\ m = k * q
    BY <1>1
  <2> HIDE DEF k, m
  <2>2. (a \div n) % k = K % k
    BY <1>13, <2>1
  <2> QED BY <2>2 DEF k
<1>16. map1Base \in Int /\ K \div 8 \in Nat
  BY <1>8, TM1Range, DivBounds
<1>17. pa2tm1a(a) = map1Base + K \div 8
  BY <1>9, <1>16 DEF pa2tm1a, x
<1>18. pa2tm1b(a) = K % (8 * RowBytes)
  BY <1>10, <1>14 DEF pa2tm1b
<1>19. pa2tm1i(a) = K % (8 * B)
  BY <1>10, <1>15 DEF pa2tm1i
<1> QED BY <1>17, <1>18, <1>19 DEF K

-----------------------------------------------------------------------------
(***************************************************************************)
(* What a line, a row and an index in the row tell about an address.       *)
(***************************************************************************)

\* The line and the row give the row in the memory (Row).
LEMMA LineRow ==
  ASSUME NEW x \in Nat, NEW y \in Nat, Line(x) = Line(y), Row(x) = Row(y)
  PROVE  x \div RowBytes = y \div RowBytes
<1>1. BlockBytes \in Nat \ {0} /\ RowBytes \in Nat \ {0} /\ BlockBytes % RowBytes = 0
  BY TagUtilAssumption
<1>2. PICK c \in Nat : BlockBytes = RowBytes * c
  BY <1>1, Multiple
<1>3. ASSUME NEW z \in Nat
      PROVE  z \div RowBytes = c * Line(z) + Row(z)
  <2> DEFINE d == z \div BlockBytes
             r == z % BlockBytes
             j == c * d
  <2>1. d \in Nat /\ r \in 0..(BlockBytes - 1) /\ z = BlockBytes * d + r
    BY <1>1, DivMod
  <2>2. Line(z) = d /\ Row(z) = r \div RowBytes
    BY DEF Line, Row
  <2> HIDE DEF d, r
  <2>3. j \in Nat /\ r \in Nat /\ z = RowBytes * j + r
    BY <1>1, <1>2, <2>1
  <2> HIDE DEF j
  <2>4. (RowBytes * j + r) \div RowBytes = j + r \div RowBytes
    BY ONLY <1>1, <2>3, DivShift, ZenonT(30)
  <2> QED BY <2>2, <2>3, <2>4 DEF j
<1>4. x \div RowBytes = c * Line(x) + Row(x)
  BY <1>3
<1>5. y \div RowBytes = c * Line(y) + Row(y)
  BY <1>3
<1> QED BY <1>4, <1>5

\* Numbers in the same row are less than a row apart.
LEMMA RowWidth ==
  ASSUME NEW x \in Nat, NEW y \in Nat, x \div RowBytes = y \div RowBytes
  PROVE  x - y < RowBytes /\ y - x < RowBytes
<1>1. RowBytes \in Nat \ {0}
  BY TagUtilAssumption
<1> DEFINE d == x \div RowBytes
           e == y \div RowBytes
           f == RowBytes * d
<1>2. d \in Nat /\ RowBytes * d <= x /\ x < RowBytes * d + RowBytes
  BY <1>1, DivBounds
<1>3. e \in Nat /\ RowBytes * e <= y /\ y < RowBytes * e + RowBytes
  BY <1>1, DivBounds
<1>4. d = e
  OBVIOUS
<1> HIDE DEF d, e
<1>5. f \in Nat /\ f <= x /\ x < f + RowBytes /\ f <= y /\ y < f + RowBytes
  BY <1>1, <1>2, <1>3, <1>4
<1> HIDE DEF f
<1> QED BY <1>1, <1>5

\* A bit of a map: the byte it is in and its index in the row give its number, whether the
\* map starts at a row or not.
LEMMA MapBit ==
  ASSUME NEW b \in Nat, NEW x \in Nat, NEW y \in Nat,
         Line(b + x \div 8) = Line(b + y \div 8), Row(b + x \div 8) = Row(b + y \div 8),
         x % (8 * RowBytes) = y % (8 * RowBytes)
  PROVE  x = y
<1>1. RowBytes \in Nat \ {0}
  BY TagUtilAssumption
<1> DEFINE d == x \div 8
           e == y \div 8
           r == 8 * RowBytes
<1>2. d \in Nat /\ 8 * d <= x /\ x < 8 * d + 8
  BY DivBounds
<1>3. e \in Nat /\ 8 * e <= y /\ y < 8 * e + 8
  BY DivBounds
<1>4. (b + d) \div RowBytes = (b + e) \div RowBytes
  BY <1>2, <1>3, LineRow
<1>5. x % r = y % r
  OBVIOUS
<1> HIDE DEF d, e
<1>6. (b + d) - (b + e) < RowBytes /\ (b + e) - (b + d) < RowBytes
  <2>1. b + d \in Nat /\ b + e \in Nat
    BY <1>2, <1>3
  <2> QED BY ONLY <1>4, <2>1, RowWidth
<1>7. x - y < r /\ y - x < r /\ r \in Nat \ {0}
  BY <1>1, <1>2, <1>3, <1>6
<1> HIDE DEF r
<1> QED BY <1>5, <1>7, DivModInjective

\* The lock of a bit of a map: the byte it is in and the truncated index give its number.
LEMMA MapIndex ==
  ASSUME NEW x \in Nat, NEW y \in Nat, x \div 8 = y \div 8,
         (x % (8 * BlockBytes)) % BlockBytes = (y % (8 * BlockBytes)) % BlockBytes
  PROVE  x = y
<1> DEFINE B == BlockBytes
<1>1. B \in Nat \ {0} /\ B % 8 = 0
  BY TagUtilAssumption
<1>2. PICK h \in Nat : B = 8 * h
  BY <1>1, Multiple
<1>3. h \in Nat \ {0} /\ 8 \in Nat \ {0} /\ 8 * B = B * 8
  BY <1>1, <1>2
<1> DEFINE k == B * 8
<1>4. (x % k) % B = (y % k) % B
  BY <1>3
<1>5. ASSUME NEW z \in Nat PROVE (z % (B * 8)) % B = z % B /\ (z % (8 * h)) % 8 = z % 8
  <2>1. (z % (B * 8)) % B = z % B
    <3> HIDE DEF B
    <3> QED BY ONLY <1>1, <1>3, <1>5, ModMod, Zenon
  <2>2. (z % (8 * h)) % 8 = z % 8
    BY ONLY <1>3, <1>5, ModMod, Zenon
  <2> QED BY <2>1, <2>2
<1>6. x % B = y % B
  BY <1>4, <1>5
<1>7. x % 8 = y % 8
  BY <1>2, <1>5, <1>6
<1> QED BY <1>3, <1>7, DivModInjective

-----------------------------------------------------------------------------
\* The block addresses of the memory below the table.
Blocks == {a \in MemBase .. (tableBase - 1) : \E k \in Nat : a = MemBase + BlockBytes * k}

\* The two blocks compared are such (Advance).
LEMMA BlocksInvariance == Spec => [](pa \in Blocks /\ pb \in Blocks)
<1> DEFINE Inv == pa \in Blocks /\ pb \in Blocks
<1>1. MemBase \in Nat /\ BlockBytes \in Nat \ {0}
  BY TagUtilAssumption
<1>2. MemBase \in Blocks /\ tableBase \in Int
  <2>1. PICK S \in Nat \ {0} :
          /\ MemSize = TagRatio * (MapRatio * (MapRatio * S))
          /\ tableSize = MapRatio * (MapRatio * S)
    BY Sizes
  <2>2. TagRatio \in Nat \ {0, 1} /\ MapRatio \in Nat \ {0}
    BY TagUtilAssumption
  <2> DEFINE T == MapRatio * (MapRatio * S)
  <2>3. T \in Nat \ {0}
    BY <2>1, <2>2
  <2> HIDE DEF T
  <2>4. TagRatio * T > T /\ TagRatio * T \in Nat
    BY <2>2, <2>3
  <2>5. tableBase = MemBase + TagRatio * T - T
    BY <2>1 DEF tableBase, T
  <2>6. MemBase \in MemBase .. (tableBase - 1) /\ MemBase = MemBase + BlockBytes * 0
    BY <1>1, <2>2, <2>3, <2>4, <2>5
  <2>7. MemBase \in Blocks
    <3>1. \E k \in Nat : MemBase = MemBase + BlockBytes * k
      BY <2>6
    <3> QED BY <2>6, <3>1 DEF Blocks
  <2> QED BY <1>1, <2>3, <2>4, <2>5, <2>7
<1>3. ASSUME NEW a \in Blocks PROVE Advance(a) \in Blocks
  <2>1. PICK k \in Nat : a = MemBase + BlockBytes * k
    BY <1>3 DEF Blocks
  <2>2. a + BlockBytes = MemBase + BlockBytes * (k + 1) /\ k + 1 \in Nat
    BY <1>1, <2>1
  <2>3. a \in MemBase .. (tableBase - 1)
    BY <1>3 DEF Blocks
  <2>4. CASE a + BlockBytes < tableBase
    <3>1. a + BlockBytes \in MemBase .. (tableBase - 1)
      BY <1>1, <1>2, <2>3, <2>4
    <3> QED BY <2>2, <2>4, <3>1 DEF Advance, Blocks
  <2>5. CASE ~ (a + BlockBytes < tableBase)
    BY <1>2, <2>5 DEF Advance
  <2> QED BY <2>4, <2>5
<1>4. Init => Inv
  BY <1>2 DEF Init
<1>5. Inv /\ [Next]_vars => Inv'
  <2>1. SUFFICES ASSUME pa \in Blocks, pb \in Blocks, [Next]_vars
                 PROVE  pa' \in Blocks /\ pb' \in Blocks
    BY DEF Blocks
  <2>2. \/ pa' = pa \/ pa' = Advance(pa)
    BY <2>1 DEF Next, vars
  <2>3. \/ pb' = pb \/ pb' = Advance(pb)
    BY <2>1 DEF Next, vars
  <2> QED BY <1>3, <2>1, <2>2, <2>3
<1> QED BY <1>4, <1>5, PTL DEF Spec

\* Two blocks have no tag bit in common.
LEMMA TagBitsApart ==
  ASSUME NEW a \in Blocks, NEW b \in Blocks, TTBits(a) \cap TTBits(b) # {}
  PROVE  a = b
<1> DEFINE R == TagRatio
           B == BlockBytes
           g == TagBytes
           p == tagByte(a)
           q == tagByte(b)
<1>1. /\ R \in Nat \ {0} /\ B \in Nat \ {0} /\ RowBytes \in Nat \ {0} /\ MemBase \in Nat
      /\ B % R = 0 /\ B % RowBytes = 0
  BY TagUtilAssumption
<1>2. g \in Nat /\ B = R * g
  <2>1. PICK h \in Nat : B = R * h
    BY <1>1, Multiple
  <2> QED BY <1>1, <2>1, DivExact DEF TagBytes
<1> HIDE DEF g
<1>3. ASSUME NEW c \in Blocks
      PROVE  \E k \in Nat : tagByte(c) = g * k /\ c = MemBase + R * (g * k)
  <2>1. PICK k \in Nat : c = MemBase + B * k
    BY <1>3 DEF Blocks
  <2> DEFINE j == g * k
  <2>2. j \in Nat /\ c = MemBase + R * j /\ c - MemBase = R * j
    BY <1>1, <1>2, <2>1
  <2> HIDE DEF j
  <2>3. (R * j) \div R = j
    BY ONLY <1>1, <2>2, DivExact
  <2> QED BY <2>2, <2>3 DEF tagByte, j
<1>4. PICK k \in Nat : p = g * k /\ a = MemBase + R * (g * k)
  BY <1>3
<1>5. PICK l \in Nat : q = g * l /\ b = MemBase + R * (g * l)
  BY <1>3
<1>6. a \in MemBase .. (tableBase - 1) /\ b \in MemBase .. (tableBase - 1)
  BY DEF Blocks
<1>7. /\ p \in Nat /\ pa2tta(a) = tableBase + p /\ pa2ttr(a) = p % RowBytes
      /\ q \in Nat /\ pa2tta(b) = tableBase + q /\ pa2ttr(b) = q % RowBytes
  BY <1>6, TTForm
<1> HIDE DEF p, q
<1>8. PICK i \in 0..(8 * g - 1), j \in 0..(8 * g - 1) :
        /\ Line(pa2tta(a)) = Line(pa2tta(b)) /\ Row(pa2tta(a)) = Row(pa2tta(b))
        /\ 8 * pa2ttr(a) + i = 8 * pa2ttr(b) + j
  BY DEF TTBits, g
<1>9. PICK t \in Nat : tableBase = B * t
  BY Bases
<1>10. PICK c \in Nat : B = RowBytes * c
  BY <1>1, Multiple
<1> DEFINE s == c * t
<1>11. s \in Nat /\ tableBase = RowBytes * s /\ tableBase \in Nat
  BY <1>1, <1>9, <1>10
<1> HIDE DEF s
<1>12. (tableBase + p) \div RowBytes = (tableBase + q) \div RowBytes
  <2>1. tableBase + p \in Nat /\ tableBase + q \in Nat
    BY <1>7, <1>11
  <2> QED BY <1>7, <1>8, <2>1, LineRow
<1>13. p \div RowBytes = q \div RowBytes
  <2>1. (RowBytes * s + p) \div RowBytes = s + p \div RowBytes
    <3>1. s \in Nat /\ p \in Nat /\ RowBytes \in Nat \ {0}
      BY <1>1, <1>7, <1>11
    <3> QED BY ONLY <3>1, DivShift
  <2>2. (RowBytes * s + q) \div RowBytes = s + q \div RowBytes
    <3>1. s \in Nat /\ q \in Nat /\ RowBytes \in Nat \ {0}
      BY <1>1, <1>7, <1>11
    <3> QED BY ONLY <3>1, DivShift
  <2>3. p \div RowBytes \in Nat /\ q \div RowBytes \in Nat
    BY <1>1, <1>7, DivBounds
  <2> QED BY <1>11, <1>12, <2>1, <2>2, <2>3
<1>14. p - q < g /\ q - p < g
  <2> DEFINE d == p \div RowBytes
             f == RowBytes * d
             v == p % RowBytes
             w == q % RowBytes
  <2>1. d \in Nat /\ v \in 0..(RowBytes - 1) /\ p = f + v
    BY <1>1, <1>7, DivMod
  <2>2. w \in 0..(RowBytes - 1) /\ q = f + w
    BY <1>1, <1>7, <1>13, DivMod
  <2>3. f \in Nat
    BY <1>1, <2>1
  <2>4. 8 * v + i = 8 * w + j
    BY <1>7, <1>8
  <2> HIDE DEF d, f, v, w
  <2> QED BY <1>1, <1>2, <2>1, <2>2, <2>3, <2>4
<1>15. k = l
  <2>1. CASE k < l
    <3>1. g * (k + 1) <= g * l /\ g * (k + 1) = g * k + g
      BY <1>2, <2>1
    <3> QED BY <1>2, <1>4, <1>5, <1>7, <1>14, <3>1
  <2>2. CASE l < k
    <3>1. g * (l + 1) <= g * k /\ g * (l + 1) = g * l + g
      BY <1>2, <2>2
    <3> QED BY <1>2, <1>4, <1>5, <1>7, <1>14, <3>1
  <2> QED BY <2>1, <2>2
<1> QED BY <1>4, <1>5, <1>15

\* Two blocks have their tags in one line of the table exactly if they have the same bit of
\* map 0.
LEMMA TM0BitLine ==
  ASSUME NEW a \in MemBase .. (tableBase - 1), NEW b \in MemBase .. (tableBase - 1)
  PROVE  /\ TM0Bit(a) = TM0Bit(b) <=> tagLine(a) = tagLine(b)
         /\ Line(pa2tta(a)) = Line(pa2tta(b)) <=> tagLine(a) = tagLine(b)
<1>1. BlockBytes \in Nat \ {0}
  BY TagUtilAssumption
<1>2. PICK t \in Nat : tableBase = BlockBytes * t
  BY Bases
<1>3. ASSUME NEW c \in MemBase .. (tableBase - 1)
      PROVE  Line(pa2tta(c)) = t + tagLine(c) /\ tagLine(c) \in Nat
  <2>1. tagByte(c) \in Nat /\ tagLine(c) \in Nat /\ pa2tta(c) = tableBase + tagByte(c)
    BY TTForm
  <2>2. (BlockBytes * t + tagByte(c)) \div BlockBytes = t + tagByte(c) \div BlockBytes
    BY ONLY <1>1, <2>1, t \in Nat, DivShift
  <2> QED BY <1>2, <2>1, <2>2 DEF Line, tagLine
<1>4. Line(pa2tta(a)) = Line(pa2tta(b)) <=> tagLine(a) = tagLine(b)
  <2>1. Line(pa2tta(a)) = t + tagLine(a) /\ tagLine(a) \in Nat
    BY <1>3
  <2>2. Line(pa2tta(b)) = t + tagLine(b) /\ tagLine(b) \in Nat
    BY <1>3
  <2> QED BY <2>1, <2>2
<1>5. tagLine(a) \in Nat /\ tagLine(b) \in Nat /\ map0Base \in Nat
  <2>1. TagRatio * 0 <= map0Size
    BY TagUtilAssumption, Sizes
  <2> QED BY <1>3, <2>1, TM0Range
<1>6. /\ pa2tm0a(a) = map0Base + tagLine(a) \div 8 /\ pa2tm0b(a) = tagLine(a) % (8 * RowBytes)
      /\ pa2tm0a(b) = map0Base + tagLine(b) \div 8 /\ pa2tm0b(b) = tagLine(b) % (8 * RowBytes)
  BY TM0Form
<1>7. ASSUME TM0Bit(a) = TM0Bit(b) PROVE tagLine(a) = tagLine(b)
  <2>1. /\ Line(pa2tm0a(a)) = Line(pa2tm0a(b)) /\ Row(pa2tm0a(a)) = Row(pa2tm0a(b))
        /\ pa2tm0b(a) = pa2tm0b(b)
    BY <1>7 DEF TM0Bit
  <2> QED BY <1>5, <1>6, <2>1, MapBit
<1>8. ASSUME tagLine(a) = tagLine(b) PROVE TM0Bit(a) = TM0Bit(b)
  <2>1. pa2tm0a(a) = pa2tm0a(b) /\ pa2tm0b(a) = pa2tm0b(b)
    BY <1>6, <1>8
  <2> QED BY <2>1 DEF TM0Bit
<1> QED BY <1>4, <1>7, <1>8

\* The same one level up.
LEMMA TM1BitLine ==
  ASSUME NEW a \in MemBase .. (tableBase - 1), NEW b \in MemBase .. (tableBase - 1)
  PROVE  /\ TM1Bit(a) = TM1Bit(b) <=> mapLine(a) = mapLine(b)
         /\ Line(pa2tm0a(a)) = Line(pa2tm0a(b)) <=> mapLine(a) = mapLine(b)
<1>1. BlockBytes \in Nat \ {0} /\ MapRatio = 8 * BlockBytes
  BY TagUtilAssumption
<1>2. PICK t \in Nat : map0Base = BlockBytes * t
  <2>1. map1Size \in Nat
    BY Sizes
  <2>2. PICK u \in Nat : 8 * map1Size <= u /\ map0Base = BlockBytes * (u - 8 * map1Size)
    BY Aligned
  <2>3. u - 8 * map1Size \in Nat
    BY <2>1, <2>2
  <2> QED BY <2>2, <2>3
<1>3. ASSUME NEW c \in MemBase .. (tableBase - 1)
      PROVE  Line(pa2tm0a(c)) = t + mapLine(c) /\ mapLine(c) \in Nat
  <2> DEFINE d == tagLine(c) \div 8
  <2>1. tagLine(c) \in Nat /\ mapLine(c) \in Nat /\ pa2tm0a(c) = map0Base + d
    BY TTForm, TM0Form
  <2>2. d \in Nat
    BY <2>1, DivBounds
  <2>3. d \div BlockBytes = mapLine(c)
    <3>1. 8 \in Nat \ {0}
      OBVIOUS
    <3>2. (tagLine(c) \div 8) \div BlockBytes = tagLine(c) \div (8 * BlockBytes)
      BY ONLY <1>1, <2>1, <3>1, DivDiv
    <3> QED BY <1>1, <3>2 DEF mapLine
  <2> HIDE DEF d
  <2>4. (BlockBytes * t + d) \div BlockBytes = t + d \div BlockBytes
    BY ONLY <1>1, <2>2, t \in Nat, DivShift
  <2> QED BY <1>2, <2>1, <2>3, <2>4 DEF Line
<1>4. Line(pa2tm0a(a)) = Line(pa2tm0a(b)) <=> mapLine(a) = mapLine(b)
  <2>1. Line(pa2tm0a(a)) = t + mapLine(a) /\ mapLine(a) \in Nat
    BY <1>3
  <2>2. Line(pa2tm0a(b)) = t + mapLine(b) /\ mapLine(b) \in Nat
    BY <1>3
  <2> QED BY <2>1, <2>2
<1>5. mapLine(a) \in Nat /\ mapLine(b) \in Nat /\ map1Base \in Nat
  BY <1>3, TM1Range
<1>6. /\ pa2tm1a(a) = map1Base + mapLine(a) \div 8 /\ pa2tm1b(a) = mapLine(a) % (8 * RowBytes)
      /\ pa2tm1a(b) = map1Base + mapLine(b) \div 8 /\ pa2tm1b(b) = mapLine(b) % (8 * RowBytes)
  BY TM1Form
<1>7. ASSUME TM1Bit(a) = TM1Bit(b) PROVE mapLine(a) = mapLine(b)
  <2>1. /\ Line(pa2tm1a(a)) = Line(pa2tm1a(b)) /\ Row(pa2tm1a(a)) = Row(pa2tm1a(b))
        /\ pa2tm1b(a) = pa2tm1b(b)
    BY <1>7 DEF TM1Bit
  <2> QED BY <1>5, <1>6, <2>1, MapBit
<1>8. ASSUME mapLine(a) = mapLine(b) PROVE TM1Bit(a) = TM1Bit(b)
  <2>1. pa2tm1a(a) = pa2tm1a(b) /\ pa2tm1b(a) = pa2tm1b(b)
    BY <1>6, <1>8
  <2> QED BY <2>1 DEF TM1Bit
<1> QED BY <1>4, <1>7, <1>8

\* Two blocks share tag bits only if they are the same block, the bit of map 0 exactly if
\* their tags are in one line of the table, and the bit of map 1 exactly if their bits of map
\* 0 are in one line, for every layout (pa2tta, pa2tm0a, pa2tm1a and their indices).
THEOREM BitsNameLines == Spec => []BitsMatchLines
<1>1. ASSUME pa \in Blocks, pb \in Blocks PROVE BitsMatchLines
  <2>1. pa \in MemBase .. (tableBase - 1) /\ pb \in MemBase .. (tableBase - 1)
    BY <1>1 DEF Blocks
  <2>2. TTBits(pa) \cap TTBits(pb) # {} => pa = pb
    BY <1>1, TagBitsApart
  <2>3. TM0Bit(pa) = TM0Bit(pb) <=> Line(pa2tta(pa)) = Line(pa2tta(pb))
    BY <2>1, TM0BitLine
  <2>4. TM1Bit(pa) = TM1Bit(pb) <=> Line(pa2tm0a(pa)) = Line(pa2tm0a(pb))
    BY <2>1, TM1BitLine
  <2> QED BY <2>2, <2>3, <2>4 DEF BitsMatchLines
<1> QED BY <1>1, BlocksInvariance, PTL

-----------------------------------------------------------------------------
\* The truncated address of a lock is an address of the maps.
LEMMA LockAddr ==
  ASSUME NEW x \in map0Base .. (Top - 1), NEW y \in map0Base .. (Top - 1),
         x % map0Size = y % map0Size
  PROVE  x = y
<1>1. map0Size \in Nat \ {0}
  BY Sizes, TagUtilAssumption
<1>2. \E u \in Nat : Top = BlockBytes * u /\ 8 * map1Size <= u
                     /\ map0Base = BlockBytes * (u - 8 * map1Size)
  BY Aligned
<1>3. map1Size \in Nat /\ BlockBytes \in Nat
  BY Sizes, TagUtilAssumption
<1>4. map0Base \in Nat /\ Top \in Nat
  <2>1. PICK u \in Nat : Top = BlockBytes * u /\ 8 * map1Size <= u
                         /\ map0Base = BlockBytes * (u - 8 * map1Size)
    BY <1>2
  <2>2. u - 8 * map1Size \in Nat
    BY <1>3, <2>1
  <2> QED BY <1>3, <2>1, <2>2
<1>5. map0Base = Top - map0Size
  BY <1>1, TagUtilAssumption DEF map0Base, Top
<1>6. x \in Nat /\ y \in Nat /\ x - y < map0Size /\ y - x < map0Size
  BY <1>1, <1>4, <1>5
<1> QED BY <1>1, <1>6, DivModInjective

\* The addresses of the maps are between the base of map 0 and the top.
LEMMA MapAddr ==
  ASSUME NEW a \in MemBase .. (tableBase - 1)
  PROVE  pa2tm0a(a) \in map0Base .. (Top - 1) /\ pa2tm1a(a) \in map0Base .. (Top - 1)
<1>1. PICK S \in Nat \ {0} : map0Size = MapRatio * S /\ map1Size = S
  BY Sizes
<1>2. TagRatio \in Nat \ {0} /\ MapRatio \in Nat \ {0} /\ MemBase \in Nat /\ MemSize \in Nat
  BY TagUtilAssumption
<1>3. map0Size \in Nat /\ S <= map0Size
  BY <1>1, <1>2
<1>4. pa2tm0a(a) \in map0Base .. (Top - 0 - 1) /\ map0Base \in Nat
  <2>1. TagRatio * 0 <= map0Size
    BY <1>2, <1>3
  <2> QED BY <2>1, TM0Range
<1>5. pa2tm1a(a) \in map1Base .. (Top - 1) /\ map1Base \in Nat
  BY TM1Range
<1>6. map0Base <= map1Base
  BY <1>1, <1>2, <1>3 DEF map0Base, map1Base
<1>7. Top \in Nat
  BY <1>2 DEF Top
<1> QED BY <1>4, <1>5, <1>6, <1>7

\* Truncated as it is, a lock names one bit of one map, for every layout (TCTagLock, LockName).
THEOREM LocksAreBits == Spec => []LocksNameBits
<1>1. ASSUME pa \in Blocks, pb \in Blocks PROVE LocksNameBits
  <2>1. pa \in MemBase .. (tableBase - 1) /\ pb \in MemBase .. (tableBase - 1)
    BY <1>1 DEF Blocks
  <2>2. /\ tagLine(pa) \in Nat /\ tagLine(pb) \in Nat
        /\ mapLine(pa) \in Nat /\ mapLine(pb) \in Nat
    BY <2>1, TTForm
  <2>3. TM0Lock(pa) = TM0Lock(pb) <=> tagLine(pa) = tagLine(pb)
    <3>1. /\ pa2tm0a(pa) = map0Base + tagLine(pa) \div 8
          /\ pa2tm0i(pa) = tagLine(pa) % (8 * BlockBytes)
          /\ pa2tm0a(pb) = map0Base + tagLine(pb) \div 8
          /\ pa2tm0i(pb) = tagLine(pb) % (8 * BlockBytes)
      BY <2>1, TM0Form
    <3>2. ASSUME tagLine(pa) = tagLine(pb) PROVE TM0Lock(pa) = TM0Lock(pb)
      BY <3>1, <3>2 DEF TM0Lock
    <3>3. ASSUME TM0Lock(pa) = TM0Lock(pb) PROVE tagLine(pa) = tagLine(pb)
      <4>1. /\ pa2tm0a(pa) % map0Size = pa2tm0a(pb) % map0Size
            /\ pa2tm0i(pa) % BlockBytes = pa2tm0i(pb) % BlockBytes
        BY <3>3 DEF TM0Lock, LockName
      <4>2. pa2tm0a(pa) = pa2tm0a(pb)
        BY <2>1, <4>1, MapAddr, LockAddr
      <4>3. map0Base \in Int /\ tagLine(pa) \div 8 \in Int /\ tagLine(pb) \div 8 \in Int
        BY <2>2, Sizes, TagUtilAssumption, DivBounds DEF map0Base
      <4> DEFINE d == tagLine(pa) \div 8
                 e == tagLine(pb) \div 8
      <4>4. d = e
        <5>1. map0Base + d = map0Base + e /\ d \in Int /\ e \in Int
          BY <3>1, <4>2, <4>3
        <5> HIDE DEF d, e
        <5> QED BY <4>3, <5>1
      <4> QED BY <2>2, <3>1, <4>1, <4>4, MapIndex
    <3> QED BY <3>2, <3>3
  <2>4. TM1Lock(pa) = TM1Lock(pb) <=> mapLine(pa) = mapLine(pb)
    <3>1. /\ pa2tm1a(pa) = map1Base + mapLine(pa) \div 8
          /\ pa2tm1i(pa) = mapLine(pa) % (8 * BlockBytes)
          /\ pa2tm1a(pb) = map1Base + mapLine(pb) \div 8
          /\ pa2tm1i(pb) = mapLine(pb) % (8 * BlockBytes)
      BY <2>1, TM1Form
    <3>2. ASSUME mapLine(pa) = mapLine(pb) PROVE TM1Lock(pa) = TM1Lock(pb)
      BY <3>1, <3>2 DEF TM1Lock
    <3>3. ASSUME TM1Lock(pa) = TM1Lock(pb) PROVE mapLine(pa) = mapLine(pb)
      <4>1. /\ pa2tm1a(pa) % map0Size = pa2tm1a(pb) % map0Size
            /\ pa2tm1i(pa) % BlockBytes = pa2tm1i(pb) % BlockBytes
        BY <3>3 DEF TM1Lock, LockName
      <4>2. pa2tm1a(pa) = pa2tm1a(pb)
        BY <2>1, <4>1, MapAddr, LockAddr
      <4>3. map1Base \in Int /\ mapLine(pa) \div 8 \in Int /\ mapLine(pb) \div 8 \in Int
        BY <2>1, <2>2, TM1Range, DivBounds
      <4> DEFINE d == mapLine(pa) \div 8
                 e == mapLine(pb) \div 8
      <4>4. d = e
        <5>1. map1Base + d = map1Base + e /\ d \in Int /\ e \in Int
          BY <3>1, <4>2, <4>3
        <5> HIDE DEF d, e
        <5> QED BY <4>3, <5>1
      <4> QED BY <2>2, <3>1, <4>1, <4>4, MapIndex
    <3> QED BY <3>2, <3>3
  <2>5. TM0Lock(pa) # TM1Lock(pb)
    <3>1. SUFFICES ASSUME TM0Lock(pa) = TM1Lock(pb) PROVE FALSE
      OBVIOUS
    <3>2. pa2tm0a(pa) % map0Size = pa2tm1a(pb) % map0Size
      BY <3>1 DEF TM0Lock, TM1Lock, LockName
    <3>3. pa2tm0a(pa) = pa2tm1a(pb)
      BY <2>1, <3>2, MapAddr, LockAddr
    <3>4. ~ is_top(pa2tm0a(pa)) /\ is_top(pa2tm1a(pb))
      BY <2>1, Apart
    <3> QED BY <3>3, <3>4
  <2>6. /\ TM0Bit(pa) = TM0Bit(pb) <=> tagLine(pa) = tagLine(pb)
        /\ TM1Bit(pa) = TM1Bit(pb) <=> mapLine(pa) = mapLine(pb)
    BY <2>1, TM0BitLine, TM1BitLine
  <2> QED BY <2>3, <2>4, <2>5, <2>6 DEF LocksNameBits
<1> QED BY <1>1, BlocksInvariance, PTL
=============================================================================
