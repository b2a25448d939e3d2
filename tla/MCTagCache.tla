------------------------------ MODULE MCTagCache ------------------------------
(***************************************************************************)
(* Small tag hierarchies for TLC.                                          *)
(***************************************************************************)
EXTENDS TagCache

\* Two TT lines under one TM0 line: blocks b1 and b2 in t1, b3 in t2; t1 and t2
\* hold bits of m1, which holds a bit of r1.  Every second hold is in row 1.
UpShared == [h \in Holds |-> CASE h \in {"b1", "b2"} -> "t1"
                               [] h = "b3"           -> "t2"
                               [] h \in {"t1", "t2"} -> "m1"
                               [] h = "m1"           -> "r1"]

\* The same with a second top line; its branch is there but not used.
UpSpare == [h \in Holds |-> CASE h \in {"b1", "b2"} -> "t1"
                              [] h = "b3"           -> "t2"
                              [] h = "b4"           -> "t4"
                              [] h \in {"t1", "t2"} -> "m1"
                              [] h = "t4"           -> "m4"
                              [] h = "m1"           -> "r1"
                              [] h = "m4"           -> "r4"]

\* Two branches that do not meet.
UpApart == [h \in Holds |-> CASE h = "b1" -> "t1" [] h = "b2" -> "t2"
                              [] h = "t1" -> "m1" [] h = "t2" -> "m2"
                              [] h = "m1" -> "r1" [] h = "m2" -> "r2"]

\* Four branches that do not meet (map 0 is the top).
UpFour == [h \in Holds |-> CASE h = "b1" -> "t1" [] h = "b2" -> "t2"
                             [] h = "b3" -> "t3" [] h = "b4" -> "t4"
                             [] h = "t1" -> "m1" [] h = "t2" -> "m2"
                             [] h = "t3" -> "m3" [] h = "t4" -> "m4"]

\* Three branches, two of them under r1; b3 and b4 share one.
UpThree == [h \in Holds |-> CASE h = "b1" -> "t1" [] h = "b2" -> "t2"
                              [] h \in {"b3", "b4"} -> "t3"
                              [] h = "t1" -> "m1" [] h = "t2" -> "m2" [] h = "t3" -> "m3"
                              [] h \in {"m1", "m3"} -> "r1" [] h = "m2" -> "r2"]

Rows == [h \in Holds |-> IF h \in {"b2", "t2", "m2"} THEN 1 ELSE 0]

\* All bits that a map line has here are in one byte.
Bytes == [h \in Holds |-> Up[h]]

TwoBanks == [l \in Lines |-> IF l \in {"t1", "r1", "m2"} THEN 0 ELSE 1]
\* The branch of b1 in one bank, the rest of the lines in the other.
Branches == [l \in Lines |-> IF l \in {"r1", "m1", "t1"} THEN 0 ELSE 1]
\* Consecutive lines of a level alternate between the banks.
Alternate == [l \in Lines |-> IF l \in {"t1", "t3", "m1", "m3"} THEN 0 ELSE 1]
OneBank  == [l \in Lines |-> 0]

\* The initiators create the lines of their own banks when the first line belongs
\* to bank 0; with two banks those of the other one when it does not.
InTurn == [l \in InitLines |-> BankOf[l]]
Shifted == [l \in InitLines |-> 1 - BankOf[l]]

\* Table, map and top lines evict one another.
PairSet == [l \in Lines |-> CASE l \in {"t1", "r1"} -> 0 [] l \in {"t2", "m1"} -> 1
                              [] OTHER -> 2]

\* A set for every line; a set for the lines of a bank.
OwnSet  == [l \in Lines |-> l]
BankSet == [l \in Lines |-> BankOf[l]]

-----------------------------------------------------------------------------
\* Traffic that loads the lock table: complete tag writes only, with every line
\* in the cache.  The tags of b4 are set and cleared, those of the others set.
InitFull == Init /\ \A l \in Lines : Cached(l) /\ mem[l] = {}

\* Tracker 1 gets the writes of b3, tracker 0 those of the other blocks.
Pinned(t, b) == t = 1 <=> b = "b3"

WritesOf(b) == IF b = "b4" THEN SUBSET Bits ELSE {Bits}

WorkWriters ==
  \/ \E t \in Mem, b \in Blocks, o \in Orders : \E data \in WritesOf(b) :
       Pinned(t, b) /\ Acquire(t, b, TRUE, Bits, data, o)
  \/ \E t \in Mem : Retire(t)
  \/ \E k \in Banks : Lookup(k) \/ Finish(k)

NextWriters == WorkWriters \/ \E k \in Banks : Grant(k)

SpecWriters == InitFull /\ [][NextWriters]_vars /\ Fairness
-----------------------------------------------------------------------------
\* Block b1 has two tag bits and is written under every mask; b2 and b3 use one
\* of them and are written as a whole; b4 is not used.  The system starts at reset.
InitMasks ==
  /\ InitCold
  /\ \A l \in Lines, p \in Pos :
       p \in mem[l] => p \notin {<<"b2", 2>>, <<"b3", 2>>} /\ p[1] \notin {"b4", "t4", "m4"}

NextMasks ==
  \/ \E t \in Mem, b \in Blocks \ {"b4"}, o \in Orders : AcquireGet(t, b, o)
  \/ \E t \in Mem, o \in Orders : AcquirePut(t, "b1", o)
  \/ \E t \in Mem, b \in {"b2", "b3"}, o \in Orders, data \in SUBSET {1} :
       Acquire(t, b, TRUE, Bits, data, o)
  \/ \E t \in Mem : Retire(t)
  \/ \E k \in Banks : Initiate(k) \/ Lookup(k) \/ Finish(k) \/ Grant(k)

SpecMasks == InitMasks /\ [][NextMasks]_vars
=============================================================================
