---------------------- MODULE TCSearchOrderSelectorProofs ----------------------
(***************************************************************************)
(* Proofs about the search-order selector, for every period and width.     *)
(***************************************************************************)
EXTENDS TCSearchOrderSelector, TLAPS

\* A counter stays within its width (Add).
LEMMA AddType ==
  ASSUME NEW c \in Nat, NEW n \in Nat
  PROVE  Add(c, n) \in 0..(CntSize - 1)
BY SelectorAssumption DEF Add

\* The comparison chooses one of the three orders (Choice).
LEMMA ChoiceType ==
  ASSUME NEW t, NEW m0, NEW m1
  PROVE  Choice(t, m0, m1) \in 0..2
BY DEF Choice

\* A cycle keeps every register within its width (Cycle).
LEMMA CycleTypeOK ==
  ASSUME TypeOK, NEW lvl \in Levels, NEW miss \in BOOLEAN, NEW acc \in 0..1,
         Cycle(lvl, miss, acc)
  PROVE  TypeOK'
<1>1. CntSize \in Nat \ {0} /\ Period \in Nat \ {0} /\ Period + 1 < 2 * CntSize
  BY SelectorAssumption
<1>2. /\ ttread \in Nat /\ tm0read \in Nat /\ tm1read \in Nat
      /\ ttmiss \in Nat /\ tm0miss \in Nat
  BY <1>1 DEF TypeOK
<1>3. /\ ttread' \in 0..(CntSize - 1) /\ tm0read' \in 0..(CntSize - 1)
      /\ tm1read' \in 0..(CntSize - 1)
      /\ ttmiss' \in 0..(CntSize - 1) /\ tm0miss' \in 0..(CntSize - 1)
  <2>1. /\ ttread' = Add(ttread, One(lvl = "tt")) /\ tm0read' = Add(tm0read, One(lvl = "tm0"))
        /\ tm1read' = Add(tm1read, One(lvl = "tm1"))
        /\ ttmiss' = Add(ttmiss, One(lvl = "tt" /\ miss))
        /\ tm0miss' = Add(tm0miss, One(lvl = "tm0" /\ miss))
    BY DEF Cycle, Count
  <2>2. \A b : One(b) \in Nat
    BY DEF One
  <2> QED BY <1>2, <2>1, <2>2, AddType
<1>4. access' \in 0..(Period + 1) /\ order' \in 0..2
  <2>1. CASE Accumulate(acc)
    <3>1. access + acc \in 0..(Period + 1) /\ access + acc < 2 * CntSize
      BY <1>1, <2>1 DEF TypeOK, Accumulate, update
    <3>2. (access + acc) % (2 * CntSize) = access + acc
      BY <1>1, <3>1
    <3> QED BY <2>1, <3>1, <3>2 DEF Accumulate, TypeOK
  <2>2. CASE Select
    BY <1>1, <2>2, ChoiceType DEF Select
  <2> QED BY <2>1, <2>2 DEF Cycle
<1> QED BY <1>3, <1>4 DEF TypeOK

\* No register of the selector leaves its range; the access counter stops at
\* Period + 1 although it could count further (lines 1199-1210, 1224).
THEOREM SelectorTypeCorrect == Spec => []TypeOK
<1>1. Init => TypeOK
  BY SelectorAssumption DEF Init, TypeOK
<1>2. TypeOK /\ [Next]_vars => TypeOK'
  <2>1. SUFFICES ASSUME TypeOK, [Next]_vars PROVE TypeOK'
    OBVIOUS
  <2>2. CASE Next
    BY <2>1, <2>2, CycleTypeOK DEF Next, Tick
  <2>3. CASE UNCHANGED vars
    BY <2>1, <2>3 DEF vars, TypeOK
  <2> QED BY <2>1, <2>2, <2>3
<1> QED
  BY <1>1, <1>2, PTL DEF Spec

\* The access counter does not wrap: a period ends by the update that
\* re-evaluates the order (line 1209 with lines 1240-1248).
THEOREM PeriodsComplete == Spec => PeriodNeverCutShort
<1> DEFINE Step == access' < access => access > Period /\ access' = 0
<1>1. ASSUME TypeOK, [Next]_vars
      PROVE  [Step]_vars
  <2>1. CASE Next
    <3>1. PICK lvl \in Levels, miss \in BOOLEAN, acc \in 0..1 : Cycle(lvl, miss, acc)
      BY <2>1 DEF Next, Tick
    <3>2. CntSize \in Nat \ {0} /\ Period \in Nat \ {0} /\ Period + 1 < 2 * CntSize
      BY SelectorAssumption
    <3>3. CASE Accumulate(acc)
      <4>1. access \in Nat /\ access <= Period
        BY <1>1, <3>2, <3>3 DEF TypeOK, Accumulate, update
      <4>2. (access + acc) % (2 * CntSize) = access + acc
        BY <3>2, <4>1
      <4> QED BY <3>3, <4>1, <4>2 DEF Accumulate
    <3>4. CASE Select
      BY <3>4 DEF Select, update
    <3> QED BY <3>1, <3>3, <3>4 DEF Cycle
  <2>2. CASE UNCHANGED vars
    BY <2>2
  <2> QED BY <1>1, <2>1, <2>2
<1> QED
  BY <1>1, SelectorTypeCorrect, PTL DEF Spec, PeriodNeverCutShort
=============================================================================
