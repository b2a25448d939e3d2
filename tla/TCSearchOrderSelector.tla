------------------------ MODULE TCSearchOrderSelector ------------------------
(***************************************************************************)
(* The dynamic search-order selector of the tag cache                      *)
(* (uncore/src/main/scala/tagcache.scala, class TCSearchOrderSelector).    *)
(*                                                                         *)
(* Once per clock cycle the selector accumulates what the performance      *)
(* counters report (reads of and misses in the tag table and the two tag   *)
(* maps, accesses of the tag trackers).  When more than Period accesses    *)
(* were seen it chooses the order in which the next memory transactions    *)
(* search the tag hierarchy: 0 top-down, 1 bottom-up, 2 middle-up.         *)
(*                                                                         *)
(* All registers have a fixed width and wrap.  The serve* counters and     *)
(* tm1miss are write-only in the configuration that is built               *)
(* (consider_miss = true) and are left out.                                *)
(***************************************************************************)
EXTENDS Integers

CONSTANTS
  Period,     \* nOrderSelectPeriod
  CntSize,    \* 2^nOrderSelectWidth, the modulus of the read and miss counters
  NLevel      \* nLevel, the number of levels of the tag hierarchy

\* The access counter is one bit wider than the other counters.
ASSUME SelectorAssumption ==
  /\ Period \in Nat \ {0}
  /\ CntSize \in Nat \ {0}
  /\ Period + 1 < 2 * CntSize
  /\ NLevel \in 1..3

VARIABLES
  ttread, tm0read, tm1read,   \* reads of each level, modulo CntSize
  ttmiss, tm0miss,            \* misses among them, modulo CntSize
  access,                     \* tag tracker accesses, modulo 2 * CntSize
  order                       \* the chosen search order

cnts == <<ttread, tm0read, tm1read, ttmiss, tm0miss>>
vars == <<ttread, tm0read, tm1read, ttmiss, tm0miss, access, order>>

\* The counters add up what one cycle reports, at the width of the register.
Add(c, n) == (c + n) % CntSize
Sub(c, n) == (c - n) % CntSize

update == access > Period

-----------------------------------------------------------------------------
(***************************************************************************)
(* The hit estimates.  est_* is what lines 1231-1233 compute; tt, tm0 and  *)
(* tm1 are the wires, which the update block drives to 0 in the very cycle *)
(* in which it compares them (a wire has one value in a cycle: its last    *)
(* connection).                                                            *)
(***************************************************************************)
est_tt  == Sub(ttread, IF NLevel > 1 THEN ttmiss ELSE 0)

tt == IF update THEN 0 ELSE est_tt

est_tm0(t) == Sub(Sub(tm0read, IF NLevel > 2 THEN tm0miss ELSE 0),
                  IF order # 1 THEN t ELSE 0)

tm0 == IF update THEN 0 ELSE est_tm0(tt)

est_tm1(m) == Sub(tm1read, IF order = 0 THEN m ELSE 0)

tm1 == IF update THEN 0 ELSE est_tm1(tm0)

\* The three-way choice of lines 1241-1243.
Choice(t, m0, m1) ==
  IF t > Add(m0, m1) THEN 1 ELSE IF m1 > Add(t, m0) THEN 0 ELSE 2

\* The hits of each level in the cycle of the comparison, before the update block
\* clears the wires.
sampled_tt  == est_tt
sampled_tm0 == est_tm0(sampled_tt)
sampled_tm1 == est_tm1(sampled_tm0)
AllHits     == sampled_tt + sampled_tm0 + sampled_tm1

-----------------------------------------------------------------------------
Init ==
  /\ ttread = 0 /\ tm0read = 0 /\ tm1read = 0
  /\ ttmiss = 0 /\ tm0miss = 0
  /\ access = 0
  /\ order = 0

\* What a cycle reports.  The banks share one metadata array, which answers one
\* of them in a cycle: at most one level is read, a read may be a miss, and every
\* answer (of a read or not) is an access.
Levels == {"tt", "tm0", "tm1", "none"}
One(b) == IF b THEN 1 ELSE 0

Count(lvl, miss) ==
  /\ ttread'  = Add(ttread,  One(lvl = "tt"))
  /\ tm0read' = Add(tm0read, One(lvl = "tm0"))
  /\ tm1read' = Add(tm1read, One(lvl = "tm1"))
  /\ ttmiss'  = Add(ttmiss,  One(lvl = "tt" /\ miss))
  /\ tm0miss' = Add(tm0miss, One(lvl = "tm0" /\ miss))

\* Mutant: access is as narrow as the other counters.
Accumulate_narrow(acc) ==
  /\ ~ update
  /\ access' = (access + acc) % CntSize
  /\ UNCHANGED order

\* Mutant: the period does not end.
Accumulate_endless(acc) ==
  /\ access' = (access + acc) % (2 * CntSize)
  /\ UNCHANGED order

\* One register transfer of access and order.
Accumulate(acc) ==
  /\ ~ update
  /\ access' = (access + acc) % (2 * CntSize)
  /\ UNCHANGED order

Select ==
  /\ update
  /\ access' = 0
  /\ order' = Choice(tt, tm0, tm1)

\* One clock cycle.
Cycle(lvl, miss, acc) ==
  /\ lvl # "none" => acc = 1
  /\ Count(lvl, miss)
  /\ Accumulate(acc) \/ Select

Tick == \E lvl \in Levels, miss \in BOOLEAN, acc \in 0..1 : Cycle(lvl, miss, acc)

Next == Tick

\* Only reports in the order in which the searches of the current order produce
\* them: top-down a level is read after the level above it, middle-up the table
\* is read after map 0.
TickOfXact ==
  \E lvl \in Levels, miss \in BOOLEAN, acc \in 0..1 :
    /\ lvl = "tt" /\ order # 1 => ttread < tm0read
    /\ lvl = "tm0" /\ order = 0 => tm0read < tm1read
    /\ Cycle(lvl, miss, acc)

SpecOfXacts == Init /\ [][TickOfXact]_vars

Spec == Init /\ [][Next]_vars

-----------------------------------------------------------------------------
(***************************************************************************)
(* Properties.                                                             *)
(***************************************************************************)

\* Every register fits its width.
TypeOK ==
  /\ ttread \in 0..(CntSize - 1)
  /\ tm0read \in 0..(CntSize - 1)
  /\ tm1read \in 0..(CntSize - 1)
  /\ ttmiss \in 0..(CntSize - 1)
  /\ tm0miss \in 0..(CntSize - 1)
  /\ access \in 0..(Period + 1)
  /\ order \in 0..2

\* The access counter never wraps: it only goes down in the cycle that
\* re-evaluates the order, after more than Period accesses (line 1209).
PeriodNeverCutShort == [][access' < access => access > Period /\ access' = 0]_vars

\* What the comments of lines 1241-1243 say of an update: "choose bottom-up when
\* tt-hit > 50%", "choose top-down when tm1-hit > 50%", "otherwise, choose
\* middle-up", of the hits counted in each level (lines 1231-1233).
OrderFollowsHits ==
  [][update => /\ 2 * sampled_tt > AllHits => order' = 1
               /\ 2 * sampled_tm1 > AllHits => order' = 0
               /\ 2 * sampled_tt <= AllHits /\ 2 * sampled_tm1 <= AllHits => order' = 2]_vars
=============================================================================
