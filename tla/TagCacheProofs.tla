---------------------------- MODULE TagCacheProofs ----------------------------
(***************************************************************************)
(* Proofs about the tag cache, for any number of trackers, banks, blocks   *)
(* and lines: the type invariant; that no two memory trackers hold         *)
(* clashing locks; that trackers and banks stay in step; that every lock   *)
(* is accounted for, so that none is left behind and the slots suffice;    *)
(* and that the row counts are exact.                                      *)
(***************************************************************************)
EXTENDS TagCache, TLAPS, FiniteSetTheorems

-----------------------------------------------------------------------------
(***************************************************************************)
(* The operators keep their types.                                         *)
(***************************************************************************)

\* The first component of a position is a hold, and the bits of a hold are
\* positions (BitsOf, Pos).
LEMMA PosFacts ==
  /\ \A p \in Pos : p[1] \in Holds
  /\ \A h \in Holds : BitsOf(h) \subseteq Pos
  /\ \A b \in Blocks, i \in Bits : <<b, i>> \in Pos
<1>1. \A h \in Holds : BitsOf(h) \subseteq Pos
  BY DEF Pos
<1>2. \A h \in Holds : \A p \in BitsOf(h) : p[1] = h
  BY DEF BitsOf
<1>3. \A p \in Pos : p[1] \in Holds
  BY <1>2 DEF Pos
<1>4. Blocks \subseteq Holds
  BY TagCacheAssumption DEF Holds
<1>5. \A b \in Blocks, i \in Bits : <<b, i>> \in BitsOf(b)
  BY DEF BitsOf
<1> QED
  BY <1>1, <1>3, <1>4, <1>5

\* The rows of a line are finitely many (RowCount).
LEMMA RowsFinite ==
  ASSUME NEW S \in SUBSET Pos
  PROVE  IsFiniteSet({Row[p[1]] : p \in S})
<1> DEFINE T == {Row[p[1]] : p \in S}
<1>1. Row \in [Holds -> 0..(NRows - 1)] /\ NRows - 1 \in Int
  BY TagCacheAssumption
<1>2. T \subseteq 0..(NRows - 1)
  BY <1>1, PosFacts
<1>3. IsFiniteSet(0..(NRows - 1))
  BY <1>1, FS_Interval
<1> QED BY <1>2, <1>3, FS_Subset

\* A line of positions has a number of non-empty rows (tcnt).
LEMMA RowCountType ==
  ASSUME NEW S \in SUBSET Pos
  PROVE  RowCount(S) \in Nat
BY RowsFinite, FS_CardinalityType DEF RowCount

\* The hold a request is about exists at the level of its state (HoldOf).
LEMMA HoldType ==
  ASSUME TrackersOK, NEW t \in Mem
  PROVE  HoldOf(t) \in Holds
<1>1. xact[t].blk \in Blocks /\ tc_state[t] \in TcStates
  BY DEF TrackersOK
<1> DEFINE b == xact[t].blk
<1>2. NLevel \in 1..3
  BY TagCacheAssumption
<1>3. b \in Holds /\ Up[b] \in TTLines
  BY <1>1, TagCacheAssumption DEF Holds
<1>4. NLevel > 1 => Up[b] \in Holds /\ Up[Up[b]] \in TM0Lines
  BY <1>2, <1>3, TagCacheAssumption DEF Holds
<1>5. NLevel > 2 => Up[Up[b]] \in Holds
  BY <1>2, <1>4 DEF Holds
<1>6. CASE tc_state[t] \in TM1_states
  BY <1>1, <1>2, <1>5, <1>6 DEF HoldOf, TcStates, TM1_states, TM0_states
<1>7. CASE tc_state[t] \in TM0_states
  BY <1>1, <1>2, <1>4, <1>7 DEF HoldOf, TcStates, TM1_states, TM0_states
<1>8. CASE tc_state[t] \notin TM0_states \cup TM1_states
  BY <1>1, <1>3, <1>8 DEF HoldOf
<1> QED
  BY <1>6, <1>7, <1>8

\* A request is well-formed (OpOf, DataOf, MaskOf).
LEMMA RequestType ==
  ASSUME TrackersOK, NEW t \in Mem
  PROVE  /\ OpOf(t) \in TCTagOp
         /\ DataOf(t) \in SUBSET Pos
         /\ MaskOf(t) \in SUBSET Pos
<1>1. OpOf(t) \in TCTagOp
  BY DEF OpOf, TCTagOp
<1> DEFINE h == HoldOf(t)
<1>2. h \in Holds /\ BitsOf(h) \subseteq Pos
  BY HoldType, PosFacts
<1>3. tc_state[t] = "TTW" => h \in Blocks
  BY DEF TrackersOK, HoldOf, TM1_states, TM0_states
<1>4. mem_data[t] \subseteq Bits /\ xact[t].mask \subseteq Bits
  BY DEF TrackersOK
<1>5. ASSUME tc_state[t] = "TTW"
      PROVE  /\ {<<h, i>> : i \in mem_data[t]} \subseteq Pos
             /\ {<<h, i>> : i \in xact[t].mask} \subseteq Pos
  BY <1>3, <1>4, <1>5, PosFacts
<1>6. DataOf(t) \in SUBSET Pos
  BY <1>2, <1>5 DEF DataOf
<1>7. MaskOf(t) \in SUBSET Pos
  BY <1>2, <1>5 DEF MaskOf
<1> QED
  BY <1>1, <1>6, <1>7

\* The successor of a state exists at the levels that exist (NextTcState).
LEMMA NextTcStateType ==
  ASSUME TrackersOK, NEW t \in Mem, NEW r
  PROVE  NextTcState(t, r) \in TcStates
<1> DEFINE s == tc_state[t]
<1>1. s \in TcStates /\ NLevel \in 1..3
  BY TagCacheAssumption DEF TrackersOK
<1>2. FirstLock \in TcStates
  <2>1. CASE NLevel = 3
    BY <2>1 DEF FirstLock, TcStates, TM1_states
  <2>2. CASE NLevel = 2
    <3>1. FirstLock = "TM0L"
      BY <2>2 DEF FirstLock
    <3> QED BY <2>2, <3>1 DEF TcStates
  <2>3. CASE NLevel = 1
    <3>1. FirstLock = "TTL"
      BY <2>3 DEF FirstLock
    <3> QED BY <3>1 DEF TcStates
  <2> QED BY <1>1, <2>1, <2>2, <2>3
<1>3. \A d : Found(t, d) \in TcStates
  BY <1>2 DEF Found, TcStates
<1>4. /\ {"IDLE", "TTF", "TTL", "TTW"} \subseteq TcStates
      /\ NLevel > 1 => {"TM0F", "TM0L", "TM0W"} \subseteq TcStates
      /\ NLevel > 2 => {"TM0R", "TM1F", "TM1W"} \subseteq TcStates
  BY <1>1 DEF TcStates, TM1_states
<1>5. /\ s \in {"TTR", "TM0F", "TM0L", "TM0W"} => NLevel > 1
      /\ s \in {"TM0R", "TM1F", "TM1L", "TM1W"} => NLevel > 1 /\ NLevel > 2
  BY <1>1 DEF TcStates, TM1_states
<1>6. CASE s \in {"TTR", "TM0R", "TM1F", "TM0F", "TTF"}
  <2>1. CASE s = "TTR"
    BY <1>3, <1>4, <1>5, <2>1 DEF NextTcState
  <2>2. CASE s = "TM0R"
    BY <1>3, <1>4, <1>5, <2>2 DEF NextTcState
  <2>3. CASE s = "TM1F"
    BY <1>3, <1>4, <1>5, <2>3 DEF NextTcState
  <2>4. CASE s = "TM0F"
    BY <1>3, <1>4, <1>5, <2>4 DEF NextTcState
  <2>5. CASE s = "TTF"
    BY <1>3, <2>5 DEF NextTcState
  <2> QED BY <1>6, <2>1, <2>2, <2>3, <2>4, <2>5
<1>7. CASE s \in {"TM1L", "TM0L", "TTL", "TTW", "TM0W"}
  <2>1. CASE s = "TM1L"
    BY <1>4, <1>5, <2>1 DEF NextTcState
  <2>2. CASE s \in {"TM0L", "TTL"}
    BY <1>4, <2>2 DEF NextTcState
  <2>3. CASE s = "TTW"
    BY <1>4, <2>3 DEF NextTcState
  <2>4. CASE s = "TM0W"
    BY <1>4, <2>4 DEF NextTcState
  <2> QED BY <1>7, <2>1, <2>2, <2>3, <2>4
<1>8. CASE s \in {"IDLE", "TM1W"}
  BY <1>4, <1>8 DEF NextTcState
<1> QED
  BY <1>1, <1>6, <1>7, <1>8 DEF TcStates, TM1_states

\* The start of a search exists at the levels that exist (StartState).
LEMMA StartStateType ==
  ASSUME NEW o \in Orders
  PROVE  StartState(o) \in TcStates
<1>1. NLevel \in 1..3 /\ o \in 0..2 /\ (NLevel = 1 => o # 2)
  BY TagCacheAssumption
<1>2. CASE o = 0
  <2>1. StartState(o) = CASE NLevel = 3 -> "TM1F" [] NLevel = 2 -> "TM0F" [] OTHER -> "TTF"
    BY <1>2 DEF StartState
  <2>2. CASE NLevel = 3
    <3>1. StartState(o) = "TM1F"
      BY <2>1, <2>2
    <3> QED BY <2>2, <3>1 DEF TcStates, TM1_states
  <2>3. CASE NLevel = 2
    <3>1. StartState(o) = "TM0F"
      BY <2>1, <2>3
    <3> QED BY <2>3, <3>1 DEF TcStates
  <2>4. CASE NLevel = 1
    <3>1. StartState(o) = "TTF"
      BY <2>1, <2>4
    <3> QED BY <3>1 DEF TcStates
  <2> QED BY <1>1, <2>2, <2>3, <2>4
<1>3. CASE o = 1
  <2>1. StartState(o) = IF NLevel > 1 THEN "TTR" ELSE "TTF"
    BY <1>3 DEF StartState
  <2> QED BY <2>1 DEF TcStates
<1>4. CASE o = 2
  <2>1. StartState(o) = IF NLevel > 2 THEN "TM0R" ELSE "TM0F"
    BY <1>4 DEF StartState
  <2> QED BY <1>1, <1>4, <2>1 DEF TcStates
<1> QED BY <1>1, <1>2, <1>3, <1>4

\* A response leaves tag bits in the tag buffer (NextMemData).
LEMMA NextMemDataType ==
  ASSUME TrackersOK, NEW t \in Mem, NEW r
  PROVE  NextMemData(t, r) \in SUBSET Bits
<1>1. mem_data[t] \in SUBSET Bits
  BY DEF TrackersOK
<1>2. \A d \in SUBSET Bits : Merge(t, d) \in SUBSET Bits
  BY <1>1 DEF Merge
<1>3. tt_rdata(t, r) \in SUBSET Bits /\ {} \in SUBSET Bits
  BY DEF tt_rdata
<1> QED
  BY <1>1, <1>2, <1>3 DEF NextMemData

\* A response leaves Boolean flags (NextFlag).
LEMMA NextFlagType ==
  ASSUME TrackersOK, NEW t \in Mem, NEW r
  PROVE  NextFlag(t, r) \in Flags
<1>1. flag[t] \in Flags
  BY DEF TrackersOK
<1>2. map_rdata(t, r) \in BOOLEAN
  BY DEF map_rdata
<1>3. \A own : Others(r, own) \in BOOLEAN
  BY DEF Others
<1>4. \A f \in Flags : \A x \in BOOLEAN : [f EXCEPT !.tm1_tag1 = x] \in Flags
  BY DEF Flags
<1>5. \A f \in Flags : \A x, y \in BOOLEAN :
        /\ [f EXCEPT !.tm0_tag1 = x, !.tm0_tagN = y] \in Flags
        /\ [f EXCEPT !.tt_tag1 = x, !.tt_tagN = y] \in Flags
  BY DEF Flags
<1>6. CASE tc_state[t] = "TM1L"
  <2>1. NextFlag(t, r) = [flag[t] EXCEPT !.tm1_tag1 = map_rdata(t, r)]
    BY <1>6 DEF NextFlag
  <2> QED BY <1>1, <1>2, <1>4, <2>1
<1>7. CASE tc_state[t] = "TM0L"
  <2> DEFINE x == flag[t].tm1_tag1 /\ map_rdata(t, r)
             y == flag[t].tm1_tag1 /\ Others(r, BitsOf(HoldOf(t)))
  <2>1. NextFlag(t, r) = [flag[t] EXCEPT !.tm0_tag1 = x, !.tm0_tagN = y]
    BY <1>7 DEF NextFlag
  <2>2. x \in BOOLEAN /\ y \in BOOLEAN
    OBVIOUS
  <2> HIDE DEF x, y
  <2> QED BY <1>1, <1>5, <2>1, <2>2
<1>8. CASE tc_state[t] = "TTL"
  <2> DEFINE x == mem_data[t] \cap xact[t].mask # {}
             y == flag[t].tm0_tag1 /\ Others(r, {<<xact[t].blk, i>> : i \in xact[t].mask})
  <2>1. NextFlag(t, r) = [flag[t] EXCEPT !.tt_tag1 = x, !.tt_tagN = y]
    BY <1>8 DEF NextFlag
  <2>2. x \in BOOLEAN /\ y \in BOOLEAN
    OBVIOUS
  <2> HIDE DEF x, y
  <2> QED BY <1>1, <1>5, <2>1, <2>2
<1>9. CASE tc_state[t] \notin {"TM1L", "TM0L", "TTL"}
  BY <1>1, <1>9 DEF NextFlag
<1> QED BY <1>6, <1>7, <1>8, <1>9

\* A tracker that is cleared has its types (Cleared).
LEMMA ClearedType ==
  ASSUME TrackersOK, NEW t \in Mem, Cleared(t)
  PROVE  /\ xact' \in [Mem -> [blk : Blocks, rw : BOOLEAN, mask : SUBSET Bits]]
         /\ mem_data' \in [Mem -> SUBSET Bits]
         /\ flag' \in [Mem -> Flags]
<1>1. NoBlock \in [blk : Blocks, rw : BOOLEAN, mask : SUBSET Bits]
  <2>1. (CHOOSE b \in Blocks : TRUE) \in Blocks
    BY TagCacheAssumption
  <2> QED BY <2>1 DEF NoBlock
<1>2. ResetFlags \in Flags
  BY DEF ResetFlags, Flags
<1> QED BY <1>1, <1>2 DEF Cleared, TrackersOK

\* Taking a response keeps the types of the trackers (Respond).
LEMMA RespondType ==
  ASSUME TrackersOK, NEW t \in Mem, NEW r, Respond(t, r)
  PROVE  TrackersOK'
<1>1. tc_state' \in [Mem -> TcStates] /\ tc_req_sent' \in [Mem -> BOOLEAN]
  BY NextTcStateType DEF Respond, TrackersOK
<1>2. mt_state' \in [Mem -> {"IDLE", "BUSY"}]
  BY DEF Respond, TrackersOK
<1>3. CASE Cleared(t)
  BY <1>1, <1>2, <1>3, ClearedType DEF TrackersOK
<1>4. CASE /\ mem_data' = [mem_data EXCEPT ![t] = NextMemData(t, r)]
           /\ flag'     = [flag EXCEPT ![t] = NextFlag(t, r)]
           /\ UNCHANGED xact
  <2>1. mem_data' \in [Mem -> SUBSET Bits]
    BY <1>4, NextMemDataType DEF TrackersOK
  <2>2. flag' \in [Mem -> Flags]
    BY <1>4, NextFlagType DEF TrackersOK
  <2> QED BY <1>1, <1>2, <1>4, <2>1, <2>2 DEF TrackersOK
<1> QED BY <1>3, <1>4 DEF Respond

-----------------------------------------------------------------------------
(***************************************************************************)
(* Every action keeps the types.                                           *)
(***************************************************************************)

\* A bank without a transaction, an empty response and an invalid line.
LEMMA DefaultTypes ==
  /\ NoResponse \in Responses
  /\ IdleXact \in TagXacts
  /\ Invalid \in CachedLines
  /\ NoLock \in [lock : BOOLEAN, id : Mem, hold : Holds]
<1>1. 0 \in Mem
  BY TagCacheAssumption DEF Mem
<1>2. (CHOOSE h \in Holds : TRUE) \in Holds
  BY TagCacheAssumption DEF Holds
<1>3. NoResponse \in Responses
  BY DEF NoResponse, Response, Responses
<1>4. IdleXact \in TagXacts
  BY <1>1, <1>2, <1>3 DEF IdleXact, TagXacts, TCTagOp
<1>5. Invalid \in CachedLines
  BY DEF Invalid, CachedLines
<1>6. NoLock \in [lock : BOOLEAN, id : Mem, hold : Holds]
  BY <1>1, <1>2 DEF NoLock
<1> QED BY <1>3, <1>4, <1>5, <1>6

\* An acquire keeps the types (Acquire).
LEMMA AcquireTypeOK ==
  ASSUME TypeOK, NEW t \in Mem, NEW b \in Blocks, NEW rw \in BOOLEAN,
         NEW mask \in SUBSET Bits, NEW data, NEW o \in Orders,
         Acquire(t, b, rw, mask, data, o)
  PROVE  TypeOK'
<1>1. TrackersOK'
  <2>1. tc_state' \in [Mem -> TcStates]
    BY StartStateType DEF TypeOK, TrackersOK, Acquire
  <2>2. xact' \in [Mem -> [blk : Blocks, rw : BOOLEAN, mask : SUBSET Bits]]
    BY DEF TypeOK, TrackersOK, Acquire
  <2>3. mem_data' \in [Mem -> SUBSET Bits]
    BY DEF TypeOK, TrackersOK, Acquire
  <2>4. mt_state' \in [Mem -> {"IDLE", "BUSY"}] /\ tc_req_sent' \in [Mem -> BOOLEAN]
    BY DEF TypeOK, TrackersOK, Acquire
  <2>5. flag' \in [Mem -> Flags]
    BY DEF TypeOK, TrackersOK, Acquire
  <2> QED BY <2>1, <2>2, <2>3, <2>4, <2>5 DEF TrackersOK
<1>2. tags' \in [Blocks -> SUBSET Bits]
  BY DEF TypeOK, Acquire
<1>3. BanksOK' /\ LocksOK' /\ LinesOK'
  BY DEF TypeOK, BanksOK, LocksOK, LinesOK, Acquire, banks, lines
<1> QED BY <1>1, <1>2, <1>3 DEF TypeOK

\* The end of the memory side keeps the types (Retire).
LEMMA RetireTypeOK ==
  ASSUME TypeOK, NEW t \in Mem, Retire(t)
  PROVE  TypeOK'
<1>1. TrackersOK
  BY DEF TypeOK
<1>2. /\ xact' \in [Mem -> [blk : Blocks, rw : BOOLEAN, mask : SUBSET Bits]]
      /\ mem_data' \in [Mem -> SUBSET Bits]
      /\ flag' \in [Mem -> Flags]
  <2>1. CASE Cleared(t)
    BY <1>1, <2>1, ClearedType
  <2>2. CASE UNCHANGED <<xact, mem_data, flag>>
    BY <1>1, <2>2 DEF TrackersOK
  <2> QED BY <2>1, <2>2 DEF Retire
<1>3. mt_state' \in [Mem -> {"IDLE", "BUSY"}]
  BY <1>1 DEF TrackersOK, Retire
<1>4. TrackersOK'
  BY <1>1, <1>2, <1>3 DEF TrackersOK, Retire
<1>5. BanksOK' /\ LocksOK' /\ LinesOK' /\ tags' \in [Blocks -> SUBSET Bits]
  BY DEF TypeOK, BanksOK, LocksOK, LinesOK, Retire, banks, lines
<1> QED BY <1>4, <1>5 DEF TypeOK

\* A grant keeps the types (Grant).
LEMMA GrantTypeOK ==
  ASSUME TypeOK, NEW k \in Banks, Grant(k)
  PROVE  TypeOK'
<1>1. PICK t \in Mem :
        /\ bank' = [bank EXCEPT ![k] =
                     [state |-> "MR", id |-> t, op |-> OpOf(t), hold |-> HoldOf(t),
                      data |-> DataOf(t), mask |-> MaskOf(t), resp |-> NoResponse]]
        /\ tc_req_sent' = [tc_req_sent EXCEPT ![t] = TRUE]
        /\ last_grant'  = [last_grant EXCEPT ![k] = t]
  BY DEF Grant
<1>2. TrackersOK
  BY DEF TypeOK
<1>3. HoldOf(t) \in Holds /\ OpOf(t) \in TCTagOp /\ DataOf(t) \in SUBSET Pos
        /\ MaskOf(t) \in SUBSET Pos /\ NoResponse \in Responses
  BY <1>2, HoldType, RequestType, DefaultTypes
<1>4. [state |-> "MR", id |-> t, op |-> OpOf(t), hold |-> HoldOf(t),
       data |-> DataOf(t), mask |-> MaskOf(t), resp |-> NoResponse] \in TagXacts
  BY <1>3 DEF TagXacts
<1>5. BanksOK'
  BY <1>1, <1>4 DEF TypeOK, BanksOK, Grant
<1>6. TrackersOK'
  BY <1>1, <1>2 DEF TrackersOK, Grant
<1>7. LocksOK' /\ LinesOK' /\ tags' \in [Blocks -> SUBSET Bits]
  BY DEF TypeOK, LocksOK, LinesOK, Grant, lines
<1> QED BY <1>5, <1>6, <1>7 DEF TypeOK

\* A create of the initiator keeps the types (Initiate).
LEMMA InitiateTypeOK ==
  ASSUME TypeOK, NEW k \in Banks, Initiate(k)
  PROVE  TypeOK'
<1>1. PICK h \in Holds, t \in Mem :
        /\ rst' = [rst EXCEPT ![k] = @ \ {Up[h]}]
        /\ bank' = [bank EXCEPT ![k] =
                     [state |-> "MR", id |-> t, op |-> "C", hold |-> h,
                      data |-> {}, mask |-> {}, resp |-> NoResponse]]
  BY DEF Initiate
<1>2. [state |-> "MR", id |-> t, op |-> "C", hold |-> h,
       data |-> {}, mask |-> {}, resp |-> NoResponse] \in TagXacts
  BY DefaultTypes DEF TagXacts, TCTagOp
<1>3. BanksOK'
  BY <1>1, <1>2 DEF TypeOK, BanksOK, Initiate
<1>4. TrackersOK' /\ LocksOK' /\ LinesOK' /\ tags' \in [Blocks -> SUBSET Bits]
  BY DEF TypeOK, TrackersOK, LocksOK, LinesOK, Initiate, trackers, lines
<1> QED BY <1>3, <1>4 DEF TypeOK

\* Going to L keeps the types of everything but the lines (ToL).
LEMMA ToLType ==
  ASSUME TypeOK, NEW k \in Banks, NEW r \in Responses, ToL(k, r)
  PROVE  TrackersOK' /\ BanksOK' /\ LocksOK' /\ tags' \in [Blocks -> SUBSET Bits]
<1>1. TrackersOK'
  <2>1. TrackersOK /\ bank[k].id \in Mem
    BY DEF TypeOK, BanksOK, TagXacts
  <2>2. CASE Respond(bank[k].id, r)
    BY <2>1, <2>2, RespondType
  <2>3. CASE UNCHANGED trackers
    BY <2>1, <2>3 DEF TrackersOK, trackers
  <2> QED BY <2>2, <2>3 DEF ToL
<1>2. BanksOK'
  <2> DEFINE a == IF isWrite(bank[k].op) THEN NoResponse ELSE r
  <2>1. a \in Responses
    BY DefaultTypes
  <2>2. bank[k] \in TagXacts
    BY DEF TypeOK, BanksOK
  <2>3. [bank[k] EXCEPT !.state = "L", !.resp = a] \in TagXacts
    BY <2>1, <2>2 DEF TagXacts
  <2>4. bank' = [bank EXCEPT ![k] = [bank[k] EXCEPT !.state = "L", !.resp = a]]
    BY DEF ToL, TypeOK, BanksOK
  <2>5. bank' \in [Banks -> TagXacts]
    BY <2>3, <2>4 DEF TypeOK, BanksOK
  <2> QED BY <2>5 DEF ToL, TypeOK, BanksOK
<1>3. LocksOK' /\ tags' \in [Blocks -> SUBSET Bits]
  BY DEF ToL, TypeOK, LocksOK
<1> QED BY <1>1, <1>2, <1>3

\* The line of a transaction is a line, and what is cached has its type.
LEMMA LineType ==
  ASSUME TypeOK, NEW k \in Banks
  PROVE  /\ LineOf(k) \in Lines
         /\ cache[LineOf(k)] \in CachedLines
         /\ mem[LineOf(k)] \in SUBSET Pos
         /\ bank[k].data \in SUBSET Pos
         /\ bank[k].mask \in SUBSET Pos
<1>1. bank[k] \in TagXacts
  BY DEF TypeOK, BanksOK
<1>2. LineOf(k) \in Lines
  BY <1>1, TagCacheAssumption DEF LineOf, TagXacts
<1> QED BY <1>1, <1>2 DEF TypeOK, LinesOK, TagXacts

\* Replacing a line keeps the types of the lines (Replace, Victims).
LEMMA ReplaceType ==
  ASSUME TypeOK, NEW l \in Lines, NEW v \in Victims(l), NEW c \in CachedLines,
         Replace(l, v, c)
  PROVE  LinesOK'
<1>1. v \in Lines
  BY DEF Victims
<1>2. cache[v].data \in SUBSET Pos
  BY <1>1 DEF TypeOK, LinesOK, CachedLines
<1>3. mem' \in [Lines -> SUBSET Pos]
  BY <1>1, <1>2 DEF Replace, TypeOK, LinesOK
<1>4. cache' \in [Lines -> CachedLines]
  BY DefaultTypes DEF Replace, TypeOK, LinesOK
<1> QED BY <1>3, <1>4 DEF LinesOK

\* Every lookup keeps the types (Lookup).
LEMMA LookupTypeOK ==
  ASSUME TypeOK, NEW k \in Banks, Lookup(k)
  PROVE  TypeOK'
<1> DEFINE c == cache[LineOf(k)]
           l == LineOf(k)
           x == bank[k]
<1>1. /\ l \in Lines /\ c \in CachedLines /\ mem[l] \in SUBSET Pos
      /\ x.data \in SUBSET Pos /\ x.mask \in SUBSET Pos
  BY LineType
<1>2. Written \in Responses /\ NoResponse \in Responses
  BY DEF Written, NoResponse, Response, Responses
<1>3. \A hit \in BOOLEAN, data \in SUBSET Pos, n \in Int : Response(hit, data, n) \in Responses
  BY DEF Response, Responses
<1>4. \A S \in SUBSET Pos : \A h : RowPart(S, h) \in SUBSET Pos
  BY DEF RowPart
<1>5. c.data \in SUBSET Pos /\ c.tcnt \in Int
  BY <1>1 DEF CachedLines
<1>6. ASSUME NEW r \in Responses, ToL(k, r), LinesOK'
      PROVE  TypeOK'
  BY <1>6, ToLType DEF TypeOK
<1>7. ASSUME UNCHANGED lines
      PROVE  LinesOK'
  BY <1>7 DEF TypeOK, LinesOK, lines
<1> HIDE DEF c, l, x
<1>8. CASE LookupLock(k)
  <2>1. PICK r \in Responses : ToL(k, r)
    BY <1>3, <1>5, <1>8 DEF LookupLock, c, l
  <2> QED BY <1>6, <1>7, <1>8, <2>1 DEF LookupLock
<1>9. CASE HitRead(k)
  <2> DEFINE d == IF c.tcnt = 0 THEN {} ELSE RowPart(c.data, bank[k].hold)
  <2>1. d \in SUBSET Pos
    BY <1>4, <1>5
  <2>2. ToL(k, Response(TRUE, d, c.tcnt)) /\ UNCHANGED lines
    BY <1>9 DEF HitRead, c
  <2>3. Response(TRUE, d, c.tcnt) \in Responses
    BY <1>3, <1>5, <2>1
  <2> QED BY <1>6, <1>7, <2>2, <2>3
<1>10. CASE HitWrite(k)
  <2> DEFINE d == (c.data \ x.mask) \cup (x.data \cap x.mask)
  <2>1. d \in SUBSET Pos
    BY <1>1, <1>5
  <2> DEFINE delta == RowDelta(RowPart(c.data, x.hold), x.data \cap x.mask, x.mask)
             n     == c.tcnt + delta
  <2>2. cache' = [cache EXCEPT ![l] = [st |-> "Dirty", data |-> d, tcnt |-> n]]
    BY <1>10 DEF HitWrite, c, l, x
  <2>3. n \in Int
    <3>1. delta \in Int
      BY DEF RowDelta
    <3> HIDE DEF delta
    <3> QED BY <1>5, <3>1
  <2> HIDE DEF d, n
  <2>4. [st |-> "Dirty", data |-> d, tcnt |-> n] \in CachedLines
    BY <2>1, <2>3 DEF CachedLines
  <2>5. LinesOK'
    BY <1>1, <1>10, <2>2, <2>4 DEF TypeOK, LinesOK, HitWrite
  <2> QED BY <1>2, <1>6, <1>10, <2>5 DEF HitWrite
<1>11. CASE HitInvalidate(k)
  <2>1. LinesOK'
    BY <1>1, <1>11, DefaultTypes DEF TypeOK, LinesOK, HitInvalidate, l
  <2> QED BY <1>2, <1>6, <1>11, <2>1 DEF HitInvalidate
<1>12. CASE MissPass(k)
  <2>1. Response(bank[k].op # "R", {}, 0) \in Responses
    <3> DEFINE hit == bank[k].op # "R"
    <3>1. hit \in BOOLEAN
      OBVIOUS
    <3> HIDE DEF hit
    <3>2. Response(hit, {}, 0) \in Responses
      BY <1>3, <3>1
    <3> QED BY <3>2 DEF hit
  <2> QED BY <1>6, <1>7, <1>12, <2>1 DEF MissPass
<1>13. CASE MissFetch(k)
  <2> DEFINE new == IF x.op = "W" THEN (mem[l] \ x.mask) \cup x.data ELSE mem[l]
             cl  == [st |-> IF new = mem[l] THEN "Clean" ELSE "Dirty",
                     data |-> new, tcnt |-> RowCount(new)]
  <2>1. new \in SUBSET Pos /\ RowCount(new) \in Nat
    BY <1>1, RowCountType
  <2>2. cl \in CachedLines
    BY <2>1 DEF CachedLines
  <2>3. PICK v \in Victims(l) : Replace(l, v, cl)
    BY <1>13 DEF MissFetch, l, x
  <2>4. LinesOK'
    <3> HIDE DEF cl
    <3> QED BY <1>1, <2>2, <2>3, ReplaceType
  <2>5. ToL(k, Response(TRUE, RowPart(new, x.hold), RowCount(new)))
    BY <1>13 DEF MissFetch, l, x
  <2>6. Response(TRUE, RowPart(new, x.hold), RowCount(new)) \in Responses
    <3>1. RowPart(new, x.hold) \in SUBSET Pos /\ RowCount(new) \in Int /\ TRUE \in BOOLEAN
      BY <1>4, <2>1
    <3> QED BY <1>3, <3>1
  <2> QED BY <1>6, <2>4, <2>5, <2>6
<1>14. CASE MissCreate(k)
  <2> DEFINE cl == [st |-> "Dirty", data |-> x.data \cap x.mask, tcnt |-> 1]
  <2>1. cl \in CachedLines
    BY <1>1 DEF CachedLines
  <2>2. PICK v \in Victims(l) : Replace(l, v, cl)
    BY <1>14 DEF MissCreate, l, x
  <2>3. LinesOK'
    <3> HIDE DEF cl
    <3> QED BY <1>1, <2>1, <2>2, ReplaceType
  <2>4. PICK d \in Leftovers(k) : ToL(k, Response(TRUE, d, 0))
    BY <1>14 DEF MissCreate
  <2>5. d \in SUBSET Pos
    BY <2>4 DEF Leftovers
  <2>6. Response(TRUE, d, 0) \in Responses
    <3>1. TRUE \in BOOLEAN /\ 0 \in Int
      OBVIOUS
    <3> QED BY <1>3, <2>5, <3>1
  <2> QED BY <1>6, <2>3, <2>4, <2>6
<1> QED
  BY <1>8, <1>9, <1>10, <1>11, <1>12, <1>13, <1>14 DEF Lookup

\* The lock or unlock of a transaction keeps the type of the table (LockUpdate).
LEMMA LockUpdateType ==
  ASSUME TypeOK, NEW k \in Banks, LockUpdate(k)
  PROVE  LocksOK'
<1> DEFINE Locks == [lock : BOOLEAN, id : Mem, hold : Holds]
           x == bank[k]
<1>1. lock_vec \in [Slots -> Locks] /\ NoLock \in Locks
  BY DefaultTypes DEF TypeOK, LocksOK
<1>2. [lock |-> TRUE, id |-> x.id, hold |-> x.hold] \in Locks
  BY DEF TypeOK, BanksOK, TagXacts
<1> HIDE DEF Locks
<1>3. CASE UNCHANGED lock_vec
  BY <1>1, <1>3 DEF LocksOK, Locks
<1>4. CASE \E s \in Slots : lock_vec' = [lock_vec EXCEPT ![s] = [lock |-> TRUE, id |-> x.id, hold |-> x.hold]]
  BY <1>1, <1>2, <1>4 DEF LocksOK, Locks
<1>5. CASE lock_vec' = [s \in Slots |->
                      IF lock_vec[s].id = x.id /\ lock_vec[s].hold = x.hold
                      THEN NoLock ELSE lock_vec[s]]
  BY <1>1, <1>5 DEF LocksOK, Locks
<1> QED BY <1>3, <1>4, <1>5 DEF LockUpdate

\* The end of a tag transaction keeps the types (Finish).
LEMMA FinishTypeOK ==
  ASSUME TypeOK, NEW k \in Banks, Finish(k)
  PROVE  TypeOK'
<1>1. LocksOK'
  BY LockUpdateType DEF Finish
<1>2. BanksOK'
  BY DefaultTypes DEF Finish, TypeOK, BanksOK
<1>3. TrackersOK'
  <2>1. TrackersOK /\ bank[k].id \in Mem
    BY DEF TypeOK, BanksOK, TagXacts
  <2>2. CASE Respond(bank[k].id, bank[k].resp)
    BY <2>1, <2>2, RespondType
  <2>3. CASE UNCHANGED trackers
    BY <2>1, <2>3 DEF TrackersOK, trackers
  <2> QED BY <2>2, <2>3 DEF Finish
<1>4. LinesOK' /\ tags' \in [Blocks -> SUBSET Bits]
  BY DEF Finish, TypeOK, LinesOK, lines
<1> QED BY <1>1, <1>2, <1>3, <1>4 DEF TypeOK

-----------------------------------------------------------------------------
(***************************************************************************)
(* The type invariant.                                                     *)
(***************************************************************************)

\* A step is a step of one action: the form in which the proofs below split it.
LEMMA NextSplit ==
  ASSUME Next
  PROVE  \/ \E t \in Mem, b \in Blocks, rw \in BOOLEAN, mask \in SUBSET Bits,
              data \in SUBSET Bits, o \in Orders : Acquire(t, b, rw, mask, data, o)
         \/ \E t \in Mem : Retire(t)
         \/ \E k \in Banks : Grant(k) \/ Initiate(k) \/ Lookup(k) \/ Finish(k)
<1>1. ASSUME NEW t \in Mem, NEW b \in Blocks, NEW o \in Orders,
             AcquireGet(t, b, o) \/ AcquirePut(t, b, o)
      PROVE  \E rw \in BOOLEAN, mask \in SUBSET Bits, data \in SUBSET Bits :
               Acquire(t, b, rw, mask, data, o)
  <2>1. CASE AcquireGet(t, b, o)
    BY <2>1 DEF AcquireGet
  <2>2. CASE AcquirePut(t, b, o)
    <3>1. PICK mask \in SUBSET Bits :
            \E data \in SUBSET mask : Acquire(t, b, TRUE, mask, data, o)
      BY <2>2 DEF AcquirePut
    <3>2. PICK data \in SUBSET mask : Acquire(t, b, TRUE, mask, data, o)
      BY <3>1
    <3> QED BY <3>2
  <2> QED BY <1>1, <2>1, <2>2
<1> QED
  BY <1>1 DEF Next, Work

\* Every step keeps the types.
LEMMA TypeStep ==
  ASSUME TypeOK, [Next]_vars
  PROVE  TypeOK'
<1>1. ASSUME NEW t \in Mem, NEW b \in Blocks, NEW rw \in BOOLEAN, NEW mask \in SUBSET Bits,
             NEW data \in SUBSET Bits, NEW o \in Orders, Acquire(t, b, rw, mask, data, o)
      PROVE  TypeOK'
  BY <1>1, AcquireTypeOK
<1>2. ASSUME NEW t \in Mem, Retire(t)
      PROVE  TypeOK'
  BY <1>2, RetireTypeOK
<1>3. ASSUME NEW k \in Banks, Grant(k) \/ Initiate(k) \/ Lookup(k) \/ Finish(k)
      PROVE  TypeOK'
  BY <1>3, GrantTypeOK, InitiateTypeOK, LookupTypeOK, FinishTypeOK
<1>4. CASE Next
  BY <1>1, <1>2, <1>3, <1>4, NextSplit
<1>5. CASE UNCHANGED vars
  BY <1>5 DEF vars, trackers, banks, lines, TypeOK, TrackersOK, BanksOK, LocksOK, LinesOK
<1> QED BY <1>4, <1>5

\* Both initial states have the types.
LEMMA TypeInit ==
  ASSUME Init \/ InitCold
  PROVE  TypeOK
<1>1. InitIdle
  BY DEF Init, InitCold
<1>2. NoBlock \in [blk : Blocks, rw : BOOLEAN, mask : SUBSET Bits] /\ ResetFlags \in Flags
  <2>1. (CHOOSE b \in Blocks : TRUE) \in Blocks
    BY TagCacheAssumption
  <2> QED BY <2>1 DEF NoBlock, ResetFlags, Flags
<1>3. TrackersOK
  BY <1>1, <1>2 DEF InitIdle, TrackersOK, TcStates
<1>4. LocksOK /\ tags \in [Blocks -> SUBSET Bits]
  BY <1>1, DefaultTypes DEF InitIdle, LocksOK
<1>5. bank \in [Banks -> TagXacts] /\ last_grant \in [Banks -> Mem]
  BY <1>1, DefaultTypes, TagCacheAssumption DEF InitIdle, Mem
<1>6. InitLines \subseteq Lines
  <2>1. NLevel \in 1..3
    BY TagCacheAssumption
  <2>2. TopLines \subseteq Lines
    <3>1. CASE NLevel = 3
      BY <3>1 DEF TopLines, Lines
    <3>2. CASE NLevel = 2
      <4>1. TopLines = TM0Lines
        BY <3>2 DEF TopLines
      <4> QED BY <3>2, <4>1 DEF Lines
    <3>3. CASE NLevel = 1
      <4>1. TopLines = TTLines
        BY <3>3 DEF TopLines
      <4> QED BY <4>1 DEF Lines
    <3> QED BY <2>1, <3>1, <3>2, <3>3
  <2> QED BY <2>2 DEF InitLines
<1>7. rst \in [Banks -> SUBSET Lines]
  BY <1>6 DEF Init, InitCold
<1>8. Created \in CachedLines /\ Invalid \in CachedLines
  BY DefaultTypes DEF Created, CachedLines
<1>9. LinesOK
  BY <1>8 DEF Init, InitCold, LinesOK
<1> QED BY <1>3, <1>4, <1>5, <1>7, <1>9 DEF TypeOK, BanksOK

\* The registers of trackers, banks, lock table and cache keep their types, from
\* the initialised and from the cold start: for every number of levels and every
\* search order no tracker enters a state of a level that does not exist.
THEOREM TypeCorrect == Spec \/ SpecCold => []TypeOK
<1>1. Init \/ InitCold => TypeOK
  BY TypeInit
<1>2. TypeOK /\ [Next]_vars => TypeOK'
  BY TypeStep
<1> QED
  BY <1>1, <1>2, PTL DEF Spec, SpecCold

-----------------------------------------------------------------------------
(***************************************************************************)
(* Lock exclusion.  A lock is permitted when a bank takes the request and  *)
(* entered in the table when the bank finishes.  In between another bank   *)
(* could enter a clashing lock, if it were not that clashing locks are     *)
(* about one line and a line has one bank.                                 *)
(***************************************************************************)

\* A bank locks bits of its own lines only; the lines its initiator creates may be
\* those of another bank.
LockHome ==
  \A k \in Banks : bank[k].state # "IDLE" /\ isLock(bank[k].op) => BankOf[LineOf(k)] = k

LockInv == LockHome /\ LockPermitted /\ LockExclusion

\* Clashing locks are about bits of one line, and clashing is symmetric (Clash).
LEMMA ClashFacts ==
  ASSUME NEW h \in Holds, NEW g \in Holds, Clash(h, g)
  PROVE  Up[h] = Up[g] /\ Clash(g, h)
BY TagCacheAssumption DEF Clash

\* LockInv speaks of bank and lock_vec only.
LEMMA LockInvFrame ==
  ASSUME LockInv, UNCHANGED <<bank, lock_vec>>
  PROVE  LockInv'
BY DEF LockInv, LockHome, LineOf, LockPermitted, LockExclusion

\* A bank that takes the request of a tracker that is not blocked (Grant).
LEMMA LockGrant ==
  ASSUME TypeOK, LockInv, NEW k \in Banks, Grant(k)
  PROVE  LockInv'
<1>1. PICK t \in Mem :
        /\ Chosen(k, t)
        /\ bank' = [bank EXCEPT ![k] =
                     [state |-> "MR", id |-> t, op |-> OpOf(t), hold |-> HoldOf(t),
                      data |-> DataOf(t), mask |-> MaskOf(t), resp |-> NoResponse]]
  BY DEF Grant
<1>2. BankOf[Up[HoldOf(t)]] = k /\ Unblocked(t)
  BY <1>1 DEF Chosen, Requests
<1>3. HoldOf(t) \in Holds
  BY HoldType DEF TypeOK
<1>4. UNCHANGED <<rst, lock_vec>>
  BY DEF Grant
<1>5. /\ bank'[k].id = t /\ bank'[k].hold = HoldOf(t)
      /\ \A j \in Banks : j # k => bank'[j] = bank[j]
  BY <1>1 DEF TypeOK, BanksOK
<1>6. LockHome'
  BY <1>2, <1>4, <1>5 DEF LockInv, LockHome, LineOf
<1>7. ASSUME is_map(HoldOf(t)), NEW s \in Slots, lock_vec[s].lock,
             Clash(lock_vec[s].hold, HoldOf(t))
      PROVE  lock_vec[s].id = t
  BY <1>2, <1>7 DEF Unblocked
<1>8. LockPermitted'
  BY <1>4, <1>5, <1>7 DEF LockInv, LockPermitted
<1>9. LockExclusion'
  BY <1>4 DEF LockInv, LockExclusion
<1> QED BY <1>6, <1>8, <1>9 DEF LockInv

\* A create of the initiator is no lock (Initiate).
LEMMA LockInitiate ==
  ASSUME TypeOK, LockInv, NEW k \in Banks, Initiate(k)
  PROVE  LockInv'
<1>1. PICK h \in Holds, t \in Mem :
        bank' = [bank EXCEPT ![k] =
                  [state |-> "MR", id |-> t, op |-> "C", hold |-> h,
                   data |-> {}, mask |-> {}, resp |-> NoResponse]]
  BY DEF Initiate
<1>2. /\ ~ isLock(bank'[k].op)
      /\ \A j \in Banks : j # k => bank'[j] = bank[j]
  BY <1>1 DEF TypeOK, BanksOK, isLock
<1>3. UNCHANGED lock_vec
  BY DEF Initiate
<1>4. LockHome'
  BY <1>2 DEF LockInv, LockHome, LineOf
<1>5. LockPermitted'
  BY <1>2, <1>3 DEF LockInv, LockPermitted
<1>6. LockExclusion'
  BY <1>3 DEF LockInv, LockExclusion
<1> QED BY <1>4, <1>5, <1>6 DEF LockInv

\* Every lookup ends in ToL.
LEMMA LookupToL ==
  ASSUME NEW k \in Banks, Lookup(k)
  PROVE  bank[k].state = "MR" /\ \E r : ToL(k, r)
BY DEF Lookup, LookupLock, HitRead, HitWrite, HitInvalidate, MissPass, MissFetch, MissCreate, InMR

\* What a lookup leaves of the transaction (ToL).
LEMMA LookupFrame ==
  ASSUME TypeOK, NEW k \in Banks, Lookup(k)
  PROVE  /\ bank'[k].state = "L"
         /\ bank'[k].id = bank[k].id
         /\ bank'[k].op = bank[k].op
         /\ bank'[k].hold = bank[k].hold
         /\ \A j \in Banks : j # k => bank'[j] = bank[j]
         /\ UNCHANGED <<rst, lock_vec>>
<1>1. PICK r : ToL(k, r)
  BY LookupToL
<1>2. bank[k] \in TagXacts /\ bank \in [Banks -> TagXacts]
  BY DEF TypeOK, BanksOK
<1> QED BY <1>1, <1>2 DEF ToL, TagXacts

\* A lookup leaves the locks alone (Lookup).
LEMMA LockLookup ==
  ASSUME TypeOK, LockInv, NEW k \in Banks, Lookup(k)
  PROVE  LockInv'
<1>1. /\ bank[k].state # "IDLE"
      /\ bank'[k].id = bank[k].id /\ bank'[k].op = bank[k].op /\ bank'[k].hold = bank[k].hold
      /\ \A j \in Banks : j # k => bank'[j] = bank[j]
      /\ UNCHANGED <<rst, lock_vec>>
  BY LookupToL, LookupFrame
<1>2. LockHome'
  BY <1>1 DEF LockInv, LockHome, LineOf
<1>3. LockPermitted'
  BY <1>1 DEF LockInv, LockPermitted
<1>4. LockExclusion'
  BY <1>1 DEF LockInv, LockExclusion
<1> QED BY <1>2, <1>3, <1>4 DEF LockInv

\* A transaction ends with its lock or unlock (Finish, LockUpdate).
LEMMA LockFinish ==
  ASSUME TypeOK, LockInv, NEW k \in Banks, Finish(k)
  PROVE  LockInv'
<1> DEFINE x == bank[k]
<1>1. /\ x.state = "L" /\ LockUpdate(k) /\ UNCHANGED rst
      /\ bank'[k].state = "IDLE"
      /\ \A j \in Banks : j # k => bank'[j] = bank[j]
  BY DEF Finish, TypeOK, BanksOK, IdleXact
<1>2. x.hold \in Holds /\ \A j \in Banks : bank[j].hold \in Holds
  BY DEF TypeOK, BanksOK, TagXacts
<1>3. \A s \in Slots : lock_vec[s].hold \in Holds
  BY DEF TypeOK, LocksOK
<1>4. LockHome'
  BY <1>1 DEF LockInv, LockHome, LineOf
<1>5. CASE \A s \in Slots : lock_vec'[s].lock => lock_vec'[s] = lock_vec[s]
  <2>1. LockPermitted'
    BY <1>1, <1>5 DEF LockInv, LockPermitted
  <2>2. LockExclusion'
    BY <1>5 DEF LockInv, LockExclusion
  <2> QED BY <1>4, <2>1, <2>2 DEF LockInv
<1>6. CASE is_map(x.hold) /\ isLock(x.op)
  <2>1. PICK s \in Slots :
          lock_vec' = [lock_vec EXCEPT ![s] = [lock |-> TRUE, id |-> x.id, hold |-> x.hold]]
    BY <1>1, <1>6 DEF LockUpdate
  <2>2. /\ lock_vec'[s].id = x.id /\ lock_vec'[s].hold = x.hold
        /\ \A r \in Slots : r # s => lock_vec'[r] = lock_vec[r]
    BY <2>1 DEF TypeOK, LocksOK
  <2>3. \A r \in Slots : lock_vec[r].lock /\ Clash(lock_vec[r].hold, x.hold)
          => lock_vec[r].id = x.id
    BY <1>1, <1>6 DEF LockInv, LockPermitted
  <2>4. \A r \in Slots : Clash(x.hold, lock_vec[r].hold) => Clash(lock_vec[r].hold, x.hold)
    BY <1>2, <1>3, ClashFacts
  <2>5. LockExclusion'
    BY <2>2, <2>3, <2>4 DEF LockInv, LockExclusion
  <2>6. ASSUME NEW j \in Banks, j # k, bank[j].state # "IDLE", isLock(bank[j].op)
        PROVE  ~ Clash(x.hold, bank[j].hold)
    <3>1. BankOf[Up[x.hold]] = k /\ BankOf[Up[bank[j].hold]] = j
      BY <1>1, <1>6, <2>6 DEF LockInv, LockHome, LineOf
    <3> QED BY <1>2, <2>6, <3>1, ClashFacts
  <2>7. LockPermitted'
    BY <1>1, <2>2, <2>6 DEF LockInv, LockPermitted
  <2> QED BY <1>4, <2>5, <2>7 DEF LockInv
<1>7. CASE ~ (is_map(x.hold) /\ isLock(x.op))
  <2>1. \A s \in Slots : lock_vec'[s].lock => lock_vec'[s] = lock_vec[s]
    <3>1. CASE UNCHANGED lock_vec
      BY <3>1
    <3>2. CASE lock_vec' = [s \in Slots |->
                      IF lock_vec[s].id = x.id /\ lock_vec[s].hold = x.hold
                      THEN NoLock ELSE lock_vec[s]]
      BY <3>2 DEF NoLock
    <3> QED BY <1>1, <1>7, <3>1, <3>2 DEF LockUpdate
  <2> QED BY <1>5, <2>1
<1> QED BY <1>6, <1>7

\* Every step keeps the lock invariant.
LEMMA LockStep ==
  ASSUME TypeOK, LockInv, [Next]_vars
  PROVE  LockInv'
<1>1. ASSUME NEW t \in Mem, NEW b \in Blocks, NEW rw \in BOOLEAN, NEW mask \in SUBSET Bits,
             NEW data \in SUBSET Bits, NEW o \in Orders, Acquire(t, b, rw, mask, data, o)
      PROVE  LockInv'
  BY <1>1, LockInvFrame DEF Acquire, banks
<1>2. ASSUME NEW t \in Mem, Retire(t)
      PROVE  LockInv'
  BY <1>2, LockInvFrame DEF Retire, banks
<1>3. ASSUME NEW k \in Banks, Grant(k) \/ Initiate(k) \/ Lookup(k) \/ Finish(k)
      PROVE  LockInv'
  BY <1>3, LockGrant, LockInitiate, LockLookup, LockFinish
<1>4. CASE Next
  BY <1>1, <1>2, <1>3, <1>4, NextSplit
<1>5. CASE UNCHANGED vars
  BY <1>5, LockInvFrame DEF vars, banks
<1> QED BY <1>4, <1>5

\* No lock is held and no bank works in the initial states.
LEMMA LockInit ==
  ASSUME Init \/ InitCold
  PROVE  LockInv
<1>1. bank = [k \in Banks |-> IdleXact] /\ lock_vec = [s \in Slots |-> NoLock]
  BY DEF Init, InitCold, InitIdle
<1> QED BY <1>1 DEF LockInv, LockHome, LockPermitted, LockExclusion, IdleXact, NoLock

\* The invariant of the locks holds from either initial state.
LEMMA LocksInvariance == Spec \/ SpecCold => []LockInv
<1>1. Init \/ InitCold => TypeOK /\ LockInv
  BY TypeInit, LockInit
<1>2. TypeOK /\ LockInv /\ [Next]_vars => TypeOK' /\ LockInv'
  BY TypeStep, LockStep
<1> QED
  BY <1>1, <1>2, PTL DEF Spec, SpecCold

\* No two memory trackers hold clashing locks (tc_req_unblock, lock_vec).
THEOREM LocksExclusive == Spec \/ SpecCold => []LockExclusion
<1>1. LockInv => LockExclusion
  BY DEF LockInv
<1> QED BY <1>1, LocksInvariance, PTL

\* The lock that a bank executes stays permitted from the check of the table, when the bank
\* takes the request, until it is entered in the table.
THEOREM LocksPermitted == Spec \/ SpecCold => []LockPermitted
<1>1. LockInv => LockPermitted
  BY DEF LockInv
<1> QED BY <1>1, LocksInvariance, PTL

-----------------------------------------------------------------------------
(***************************************************************************)
(* The handshake between trackers and banks, once the top lines exist.  No *)
(* two banks owe a tracker an answer: what both would execute is about the *)
(* hold the tracker asks for, whose line has one bank.                     *)
(***************************************************************************)
Initiated == \A k \in Banks : rst[k] = {}

\* A bank then works on its own lines only.
BankHome == \A k \in Banks : bank[k].state # "IDLE" => BankOf[LineOf(k)] = k

HandshakeInv == Initiated /\ BankHome /\ ResponseExpected

\* A tracker's request depends on its own registers only (OpOf, HoldOf).
LEMMA RequestFrame ==
  ASSUME NEW u \in Mem, tc_state'[u] = tc_state[u], xact'[u] = xact[u], flag'[u] = flag[u]
  PROVE  OpOf(u)' = OpOf(u) /\ HoldOf(u)' = HoldOf(u)
BY DEF OpOf, HoldOf

\* A response changes the registers of one tracker (Respond).
LEMMA RespondFrame ==
  ASSUME TrackersOK, NEW t \in Mem, NEW r, Respond(t, r)
  PROVE  /\ tc_req_sent'[t] = FALSE
         /\ \A u \in Mem : u # t =>
              /\ tc_state'[u] = tc_state[u]
              /\ tc_req_sent'[u] = tc_req_sent[u]
              /\ xact'[u] = xact[u]
              /\ flag'[u] = flag[u]
<1>1. CASE Cleared(t)
  BY <1>1 DEF Respond, TrackersOK, Cleared
<1>2. CASE flag' = [flag EXCEPT ![t] = NextFlag(t, r)] /\ UNCHANGED xact
  BY <1>2 DEF Respond, TrackersOK
<1> QED BY <1>1, <1>2 DEF Respond

\* Steps of a tracker that leave its outstanding request alone (Acquire, Retire).
LEMMA HandshakeOfTracker ==
  ASSUME TypeOK, HandshakeInv, NEW t \in Mem, UNCHANGED banks,
         \A u \in Mem : tc_req_sent'[u] => tc_req_sent[u],
         \A u \in Mem : u # t \/ tc_state[t] # "IDLE" =>
           /\ tc_state'[u] = tc_state[u]
           /\ tc_req_sent'[u] = tc_req_sent[u]
           /\ xact'[u] = xact[u]
           /\ flag'[u] = flag[u]
  PROVE  HandshakeInv'
<1>1. UNCHANGED <<bank, rst>>
  BY DEF banks
<1>2. Initiated' /\ BankHome'
  BY <1>1 DEF HandshakeInv, Initiated, BankHome, LineOf
<1>3. \A k \in Banks, u \in Mem : Owes(k, u)' <=> Owes(k, u)
  BY <1>1 DEF Owes
<1>4. ASSUME NEW k \in Banks, NEW u \in Mem, Owes(k, u)
      PROVE  /\ tc_state'[u] # "IDLE" /\ tc_req_sent'[u]
             /\ bank'[k].op = OpOf(u)' /\ bank'[k].hold = HoldOf(u)'
  <2>1. /\ tc_state[u] # "IDLE" /\ tc_req_sent[u]
        /\ bank[k].op = OpOf(u) /\ bank[k].hold = HoldOf(u)
    BY <1>4 DEF HandshakeInv, ResponseExpected
  <2>2. /\ tc_state'[u] = tc_state[u] /\ tc_req_sent'[u] = tc_req_sent[u]
        /\ xact'[u] = xact[u] /\ flag'[u] = flag[u]
    BY <2>1
  <2>3. OpOf(u)' = OpOf(u) /\ HoldOf(u)' = HoldOf(u)
    BY <2>2, RequestFrame
  <2> QED BY <1>1, <2>1, <2>2, <2>3
<1>5. ResponseExpected'
  BY <1>3, <1>4 DEF HandshakeInv, ResponseExpected
<1> QED BY <1>2, <1>5 DEF HandshakeInv

\* A bank takes a request (Grant).
LEMMA HandshakeGrant ==
  ASSUME TypeOK, HandshakeInv, NEW k \in Banks, Grant(k)
  PROVE  HandshakeInv'
<1>1. PICK t \in Mem :
        /\ Chosen(k, t)
        /\ bank' = [bank EXCEPT ![k] =
                     [state |-> "MR", id |-> t, op |-> OpOf(t), hold |-> HoldOf(t),
                      data |-> DataOf(t), mask |-> MaskOf(t), resp |-> NoResponse]]
        /\ tc_req_sent' = [tc_req_sent EXCEPT ![t] = TRUE]
  BY DEF Grant
<1>2. BankOf[Up[HoldOf(t)]] = k /\ tc_state[t] # "IDLE"
  BY <1>1 DEF Chosen, Requests
<1>3. UNCHANGED <<rst, tc_state, xact, flag>> /\ bank[k].state = "IDLE"
  BY DEF Grant
<1>4. /\ bank'[k].id = t /\ bank'[k].hold = HoldOf(t) /\ bank'[k].op = OpOf(t)
      /\ bank'[k].state = "MR"
      /\ \A j \in Banks : j # k => bank'[j] = bank[j]
      /\ \A u \in Mem : tc_req_sent'[u] = (tc_req_sent[u] \/ u = t)
  BY <1>1 DEF TypeOK, BanksOK, TrackersOK
<1>5. Initiated' /\ BankHome'
  BY <1>2, <1>3, <1>4 DEF HandshakeInv, Initiated, BankHome, LineOf
<1>6. \A u \in Mem : OpOf(u)' = OpOf(u) /\ HoldOf(u)' = HoldOf(u)
  BY <1>3, RequestFrame
<1>7. \A j \in Banks, u \in Mem : Owes(j, u)' <=> IF j = k THEN u = t ELSE Owes(j, u)
  BY <1>4 DEF Owes
<1>8. \A u \in Mem : ~ Owes(k, u)
  BY <1>3 DEF Owes
<1>9. ASSUME NEW j \in Banks, NEW u \in Mem, Owes(j, u)'
      PROVE  /\ tc_state'[u] # "IDLE" /\ tc_req_sent'[u]
             /\ bank'[j].op = OpOf(u)' /\ bank'[j].hold = HoldOf(u)'
  <2>1. CASE j = k
    BY <1>2, <1>3, <1>4, <1>6, <1>7, <1>9, <2>1
  <2>2. CASE j # k
    <3>1. Owes(j, u)
      BY <1>7, <1>9, <2>2
    <3>2. /\ tc_state[u] # "IDLE" /\ tc_req_sent[u]
          /\ bank[j].op = OpOf(u) /\ bank[j].hold = HoldOf(u)
      BY <3>1 DEF HandshakeInv, ResponseExpected
    <3> QED BY <1>3, <1>4, <1>6, <2>2, <3>2
  <2> QED BY <2>1, <2>2
<1>10. ASSUME NEW u \in Mem, tc_req_sent'[u]
       PROVE  \E j \in Banks : Owes(j, u)'
  <2>1. CASE u = t
    BY <1>7, <2>1
  <2>2. CASE u # t
    <3>1. PICK j \in Banks : Owes(j, u)
      BY <1>4, <1>10, <2>2 DEF HandshakeInv, ResponseExpected
    <3>2. Owes(j, u)'
      BY <1>7, <1>8, <3>1
    <3> QED BY <3>2
  <2> QED BY <2>1, <2>2
<1>11. ResponseExpected'
  BY <1>9, <1>10 DEF ResponseExpected
<1> QED BY <1>5, <1>11 DEF HandshakeInv

\* A bank answers and owes nothing any more (Respond from ToL or Finish).
LEMMA HandshakeAnswer ==
  ASSUME TypeOK, HandshakeInv, NEW k \in Banks, NEW r,
         Owes(k, bank[k].id), Respond(bank[k].id, r),
         \A u \in Mem : ~ Owes(k, u)',
         \A j \in Banks : j # k => bank'[j] = bank[j]
  PROVE  ResponseExpected'
<1> DEFINE t == bank[k].id
<1>1. t \in Mem /\ TrackersOK
  BY DEF TypeOK, BanksOK, TagXacts
<1>2. /\ tc_req_sent'[t] = FALSE
      /\ \A u \in Mem : u # t =>
           /\ tc_state'[u] = tc_state[u] /\ tc_req_sent'[u] = tc_req_sent[u]
           /\ xact'[u] = xact[u] /\ flag'[u] = flag[u]
  BY <1>1, RespondFrame
<1>3. bank[k].hold = HoldOf(t) /\ bank[k].state # "IDLE"
  BY <1>1 DEF HandshakeInv, ResponseExpected, Owes
<1>4. ASSUME NEW j \in Banks, j # k
      PROVE  ~ Owes(j, t)
  <2>1. SUFFICES ASSUME Owes(j, t) PROVE FALSE
    OBVIOUS
  <2>2. bank[j].hold = HoldOf(t) /\ bank[j].state # "IDLE"
    BY <1>1, <2>1 DEF HandshakeInv, ResponseExpected, Owes
  <2>3. BankOf[Up[HoldOf(t)]] = j /\ BankOf[Up[HoldOf(t)]] = k
    BY <1>3, <2>2 DEF HandshakeInv, BankHome, LineOf
  <2> QED BY <1>4, <2>3
<1>5. \A j \in Banks, u \in Mem : j # k => (Owes(j, u)' <=> Owes(j, u))
  BY DEF Owes
<1>6. ASSUME NEW j \in Banks, NEW u \in Mem, Owes(j, u)'
      PROVE  /\ tc_state'[u] # "IDLE" /\ tc_req_sent'[u]
             /\ bank'[j].op = OpOf(u)' /\ bank'[j].hold = HoldOf(u)'
  <2>1. j # k /\ Owes(j, u) /\ u # t
    BY <1>4, <1>5, <1>6
  <2>2. /\ tc_state[u] # "IDLE" /\ tc_req_sent[u]
        /\ bank[j].op = OpOf(u) /\ bank[j].hold = HoldOf(u)
    BY <2>1 DEF HandshakeInv, ResponseExpected
  <2>3. OpOf(u)' = OpOf(u) /\ HoldOf(u)' = HoldOf(u)
    BY <1>2, <2>1, RequestFrame
  <2> QED BY <1>2, <2>1, <2>2, <2>3
<1>7. ASSUME NEW u \in Mem, tc_req_sent'[u]
      PROVE  \E j \in Banks : Owes(j, u)'
  <2>1. u # t /\ tc_req_sent[u]
    BY <1>2, <1>7
  <2>2. PICK j \in Banks : Owes(j, u)
    BY <2>1 DEF HandshakeInv, ResponseExpected
  <2>3. j # k
    BY <2>1, <2>2 DEF Owes
  <2> QED BY <1>5, <2>2, <2>3
<1> QED BY <1>6, <1>7 DEF ResponseExpected

\* A lookup answers a write; nothing else changes for the trackers (Lookup).
LEMMA HandshakeLookup ==
  ASSUME TypeOK, HandshakeInv, NEW k \in Banks, Lookup(k)
  PROVE  HandshakeInv'
<1>1. bank[k].state = "MR"
  BY LookupToL
<1>2. PICK r : ToL(k, r)
  BY LookupToL
<1>3. /\ bank'[k].state = "L" /\ bank'[k].id = bank[k].id
      /\ bank'[k].op = bank[k].op /\ bank'[k].hold = bank[k].hold
      /\ \A j \in Banks : j # k => bank'[j] = bank[j]
      /\ UNCHANGED rst
  BY LookupFrame
<1>4. Initiated' /\ BankHome'
  BY <1>1, <1>3 DEF HandshakeInv, Initiated, BankHome, LineOf
<1>5. CASE isWrite(bank[k].op)
  <2>1. Respond(bank[k].id, r)
    BY <1>2, <1>5 DEF ToL, HandshakeInv, Initiated
  <2>2. \A u \in Mem : ~ Owes(k, u)'
    BY <1>3, <1>5 DEF Owes, isWrite
  <2>3. Owes(k, bank[k].id)
    BY <1>1 DEF Owes
  <2>4. ResponseExpected'
    BY <1>3, <2>1, <2>2, <2>3, HandshakeAnswer
  <2> QED BY <1>4, <2>4 DEF HandshakeInv
<1>6. CASE ~ isWrite(bank[k].op)
  <2>1. UNCHANGED trackers
    BY <1>2, <1>6 DEF ToL
  <2>2. UNCHANGED <<tc_state, tc_req_sent, xact, flag>>
    BY <2>1 DEF trackers
  <2>3. \A j \in Banks, u \in Mem : Owes(j, u)' <=> Owes(j, u)
    BY <1>1, <1>3, <1>6 DEF Owes, isWrite
  <2>4. \A u \in Mem : OpOf(u)' = OpOf(u) /\ HoldOf(u)' = HoldOf(u)
    BY <2>2, RequestFrame
  <2>5. \A j \in Banks : bank'[j].op = bank[j].op /\ bank'[j].hold = bank[j].hold
    BY <1>3
  <2>6. ResponseExpected'
    BY <2>2, <2>3, <2>4, <2>5 DEF HandshakeInv, ResponseExpected
  <2> QED BY <1>4, <2>6 DEF HandshakeInv
<1> QED BY <1>5, <1>6

\* The end of a transaction answers everything but a write (Finish).
LEMMA HandshakeFinish ==
  ASSUME TypeOK, HandshakeInv, NEW k \in Banks, Finish(k)
  PROVE  HandshakeInv'
<1>1. /\ bank[k].state = "L" /\ UNCHANGED rst
      /\ bank'[k].state = "IDLE"
      /\ \A j \in Banks : j # k => bank'[j] = bank[j]
  BY DEF Finish, TypeOK, BanksOK, IdleXact
<1>2. Initiated' /\ BankHome'
  BY <1>1 DEF HandshakeInv, Initiated, BankHome, LineOf
<1>3. \A u \in Mem : ~ Owes(k, u)'
  BY <1>1 DEF Owes
<1>4. CASE isWrite(bank[k].op)
  <2>1. UNCHANGED <<tc_state, tc_req_sent, xact, flag>>
    BY <1>4 DEF Finish, trackers
  <2>2. \A j \in Banks, u \in Mem : Owes(j, u)' <=> Owes(j, u)
    BY <1>1, <1>3, <1>4 DEF Owes, isWrite
  <2>3. \A u \in Mem : OpOf(u)' = OpOf(u) /\ HoldOf(u)' = HoldOf(u)
    BY <2>1, RequestFrame
  <2>4. \A j \in Banks, u \in Mem : Owes(j, u) => bank'[j] = bank[j]
    BY <1>1, <1>3, <2>2
  <2>5. ResponseExpected'
    BY <2>1, <2>2, <2>3, <2>4 DEF HandshakeInv, ResponseExpected
  <2> QED BY <1>2, <2>5 DEF HandshakeInv
<1>5. CASE ~ isWrite(bank[k].op)
  <2>1. Respond(bank[k].id, bank[k].resp)
    BY <1>5 DEF Finish
  <2>2. Owes(k, bank[k].id)
    BY <1>1, <1>5 DEF Owes
  <2>3. ResponseExpected'
    BY <1>1, <1>3, <2>1, <2>2, HandshakeAnswer
  <2> QED BY <1>2, <2>3 DEF HandshakeInv
<1> QED BY <1>4, <1>5

\* Every step keeps the handshake.
LEMMA HandshakeStep ==
  ASSUME TypeOK, HandshakeInv, [Next]_vars
  PROVE  HandshakeInv'
<1>1. ASSUME NEW t \in Mem, NEW b \in Blocks, NEW rw \in BOOLEAN, NEW mask \in SUBSET Bits,
             NEW data \in SUBSET Bits, NEW o \in Orders, Acquire(t, b, rw, mask, data, o)
      PROVE  HandshakeInv'
  <2>1. tc_state[t] = "IDLE" /\ UNCHANGED banks
    BY <1>1 DEF Acquire, Allocated, tl_block
  <2>2. \A u \in Mem : u # t =>
          /\ tc_state'[u] = tc_state[u] /\ tc_req_sent'[u] = tc_req_sent[u]
          /\ xact'[u] = xact[u] /\ flag'[u] = flag[u]
    BY <1>1 DEF Acquire, TypeOK, TrackersOK
  <2>3. ~ tc_req_sent'[t]
    BY <1>1 DEF Acquire, TypeOK, TrackersOK
  <2> QED BY <2>1, <2>2, <2>3, HandshakeOfTracker
<1>2. ASSUME NEW t \in Mem, Retire(t)
      PROVE  HandshakeInv'
  <2>1. UNCHANGED <<tc_state, tc_req_sent>> /\ UNCHANGED banks
    BY <1>2 DEF Retire
  <2>2. \A u \in Mem : u # t \/ tc_state[t] # "IDLE" => xact'[u] = xact[u] /\ flag'[u] = flag[u]
    BY <1>2 DEF Retire, Cleared, TypeOK, TrackersOK
  <2> QED BY <2>1, <2>2, HandshakeOfTracker
<1>3. ASSUME NEW k \in Banks, Initiate(k)
      PROVE  FALSE
  BY <1>3 DEF Initiate, HandshakeInv, Initiated
<1>4. ASSUME NEW k \in Banks, Grant(k) \/ Initiate(k) \/ Lookup(k) \/ Finish(k)
      PROVE  HandshakeInv'
  BY <1>3, <1>4, HandshakeGrant, HandshakeLookup, HandshakeFinish
<1>5. CASE Next
  BY <1>1, <1>2, <1>4, <1>5, NextSplit
<1>6. CASE UNCHANGED vars
  <2>1. \A u \in Mem : OpOf(u)' = OpOf(u) /\ HoldOf(u)' = HoldOf(u)
    BY <1>6, RequestFrame DEF vars, trackers
  <2> QED BY <1>6, <2>1 DEF vars, trackers, banks, HandshakeInv, Initiated, BankHome, LineOf,
                           ResponseExpected, Owes
<1> QED BY <1>5, <1>6

\* Nothing is asked and nothing owed after initialisation.
LEMMA HandshakeInit ==
  ASSUME Init
  PROVE  HandshakeInv
<1>1. /\ bank = [k \in Banks |-> IdleXact] /\ tc_req_sent = [t \in Mem |-> FALSE]
      /\ rst = [k \in Banks |-> {}]
  BY DEF Init, InitIdle
<1>2. \A k \in Banks : bank[k].state = "IDLE"
  BY <1>1 DEF IdleXact
<1> QED BY <1>1, <1>2 DEF HandshakeInv, Initiated, BankHome, ResponseExpected, Owes

\* Trackers and banks stay in step: the answer a bank owes is the one its
\* tracker waits for, and a tracker that waits is owed one (tc_req_sent,
\* io.tc.resp; the routing by id in doTcInputRouting).
THEOREM ResponsesExpected == Spec => []ResponseExpected
<1>1. Init => TypeOK /\ HandshakeInv
  BY TypeInit, HandshakeInit
<1>2. TypeOK /\ HandshakeInv /\ [Next]_vars => TypeOK' /\ HandshakeInv'
  BY TypeStep, HandshakeStep
<1>3. HandshakeInv => ResponseExpected
  BY DEF HandshakeInv
<1> QED
  BY <1>1, <1>2, <1>3, PTL DEF Spec

-----------------------------------------------------------------------------
(***************************************************************************)
(* Who holds a lock.  Either the tracker that took it is between the lock  *)
(* and the unlock of its update, or the unlock is posted: the write that   *)
(* ends it has been answered and a bank still executes it.  A tracker      *)
(* holds at most the bit of its table line and that of its map line, each  *)
(* in one slot.                                                            *)
(***************************************************************************)
HeldTM0(t, h) == h = Up[xact[t].blk] /\ tc_state[t] \in {"TTL", "TTW", "TM0W"}

HeldTM1(t, h) == /\ NLevel > 2
                 /\ h = Up[Up[xact[t].blk]]
                 /\ tc_state[t] \in {"TM0L", "TTL", "TTW", "TM0W", "TM1W"}

Held(t, h) == HeldTM0(t, h) \/ HeldTM1(t, h)

Posted(j, t, h) ==
  bank[j].state = "L" /\ isWrite(bank[j].op) /\ bank[j].id = t /\ bank[j].hold = h

LocksHeld ==
  \A s \in Slots :
    lock_vec[s].lock =>
      /\ is_map(lock_vec[s].hold)
      /\ \/ Held(lock_vec[s].id, lock_vec[s].hold)
         \/ \E j \in Banks : Posted(j, lock_vec[s].id, lock_vec[s].hold)

LocksOnce ==
  \A s, r \in Slots :
    /\ lock_vec[s].lock /\ lock_vec[r].lock
    /\ lock_vec[s].id = lock_vec[r].id /\ lock_vec[s].hold = lock_vec[r].hold
    => s = r

HeldInv == LocksHeld /\ LocksOnce

\* Where the states of an update lead (NextTcState).
LEMMA UpdateStates ==
  ASSUME NEW t \in Mem, NEW r
  PROVE  /\ tc_state[t] = "TM1L" => NextTcState(t, r) = "TM0L"
         /\ tc_state[t] = "TM0L" => NextTcState(t, r) = "TTL"
         /\ tc_state[t] = "TTL"  => NextTcState(t, r) = "TTW"
         /\ tc_state[t] = "TTW"  => NextTcState(t, r) = IF NLevel > 1 THEN "TM0W" ELSE "IDLE"
         /\ tc_state[t] = "TM0W" => NextTcState(t, r) = IF NLevel > 2 THEN "TM1W" ELSE "IDLE"
         /\ tc_state[t] = "TM1W" => NextTcState(t, r) = "IDLE"
BY DEF NextTcState

\* The holds of the levels are apart (Up).
LEMMA UpFacts ==
  ASSUME NEW b \in Blocks
  PROVE  /\ Up[b] \in TTLines /\ Up[b] \notin Blocks
         /\ NLevel > 1 => Up[b] \in Holds /\ Up[Up[b]] \in TM0Lines /\ Up[Up[b]] # Up[b]
         /\ NLevel > 2 => Up[Up[b]] \in Holds /\ Up[Up[b]] \notin Blocks
<1>1. NLevel \in 1..3
  BY TagCacheAssumption
<1>2. b \in Holds /\ Up[b] \in TTLines /\ Up[b] \in Lines
  BY TagCacheAssumption DEF Holds
<1>3. Up[b] \notin Blocks
  BY <1>2, TagCacheAssumption
<1>4. NLevel > 1 => Up[b] \in Holds
  BY <1>2 DEF Holds
<1>5. NLevel > 1 => Up[Up[b]] \in TM0Lines
  BY <1>2, <1>4, TagCacheAssumption
<1>6. NLevel > 1 => Up[Up[b]] # Up[b]
  BY <1>2, <1>5, TagCacheAssumption
<1>7. NLevel > 2 => Up[Up[b]] \in Holds /\ Up[Up[b]] \in Lines
  BY <1>1, <1>5 DEF Holds, Lines
<1> QED BY <1>1, <1>2, <1>3, <1>4, <1>5, <1>6, <1>7, TagCacheAssumption

\* A response leaves a lock held that is not the one the request unlocks (Respond).
LEMMA HeldRespond ==
  ASSUME TrackersOK, NEW t \in Mem, NEW r, Respond(t, r),
         NEW h \in Holds, is_map(h), Held(t, h),
         tc_state[t] \in {"TM0W", "TM1W"} => h # HoldOf(t)
  PROVE  Held(t, h)'
<1> DEFINE b == xact[t].blk
<1>1. b \in Blocks
  BY DEF TrackersOK
<1>2. NLevel > 1
  BY TagCacheAssumption DEF Holds, is_map
<1>3. tc_state'[t] = NextTcState(t, r)
  BY DEF Respond, TrackersOK
<1>4. tc_state'[t] # "IDLE" => xact'[t] = xact[t]
  BY <1>3 DEF Respond
<1>5. CASE tc_state[t] = "TM0L"
  <2>1. tc_state'[t] = "TTL"
    BY <1>3, <1>5, UpdateStates
  <2> QED BY <1>4, <1>5, <2>1 DEF Held, HeldTM0, HeldTM1
<1>6. CASE tc_state[t] = "TTL"
  <2>1. tc_state'[t] = "TTW"
    BY <1>3, <1>6, UpdateStates
  <2> QED BY <1>4, <1>6, <2>1 DEF Held, HeldTM0, HeldTM1
<1>7. CASE tc_state[t] = "TTW"
  <2>1. tc_state'[t] = "TM0W"
    BY <1>2, <1>3, <1>7, UpdateStates
  <2> QED BY <1>4, <1>7, <2>1 DEF Held, HeldTM0, HeldTM1
<1>8. CASE tc_state[t] = "TM0W"
  <2>1. HoldOf(t) = Up[b]
    BY <1>8 DEF HoldOf, TM0_states, TM1_states
  <2>2. HeldTM1(t, h)
    BY <1>8, <2>1 DEF Held, HeldTM0
  <2>3. tc_state'[t] = "TM1W"
    BY <1>3, <1>8, <2>2, UpdateStates DEF HeldTM1
  <2> QED BY <1>4, <2>2, <2>3 DEF Held, HeldTM1
<1>9. CASE tc_state[t] = "TM1W"
  <2>1. HoldOf(t) = Up[Up[b]]
    BY <1>9 DEF HoldOf, TM0_states, TM1_states
  <2> QED BY <1>9, <2>1 DEF Held, HeldTM0, HeldTM1
<1> QED BY <1>5, <1>6, <1>7, <1>8, <1>9 DEF Held, HeldTM0, HeldTM1

\* A held lock depends on the registers of its tracker only.
LEMMA HeldFrame ==
  ASSUME NEW u, NEW h, tc_state'[u] = tc_state[u],
         tc_state[u] # "IDLE" => xact'[u] = xact[u]
  PROVE  Held(u, h) => Held(u, h)'
BY DEF Held, HeldTM0, HeldTM1

\* Steps that leave the table and the executing banks alone (Acquire, Retire, Grant).
LEMMA HeldOthers ==
  ASSUME TypeOK, HeldInv, UNCHANGED lock_vec,
         \A u \in Mem : tc_state[u] # "IDLE" =>
           tc_state'[u] = tc_state[u] /\ xact'[u] = xact[u],
         \A j \in Banks : bank[j].state = "L" => bank'[j] = bank[j]
  PROVE  HeldInv'
<1>1. \A s \in Slots : lock_vec[s].id \in Mem
  BY DEF TypeOK, LocksOK
<1>2. ASSUME NEW u \in Mem, NEW h, Held(u, h)
      PROVE  Held(u, h)'
  <2>1. tc_state[u] # "IDLE"
    BY <1>2 DEF Held, HeldTM0, HeldTM1
  <2> QED BY <1>2, <2>1, HeldFrame
<1>3. \A j \in Banks : \A u, h : Posted(j, u, h) => Posted(j, u, h)'
  BY DEF Posted
<1>4. LocksHeld'
  BY <1>1, <1>2, <1>3 DEF HeldInv, LocksHeld
<1>5. LocksOnce'
  BY DEF HeldInv, LocksOnce
<1> QED BY <1>4, <1>5 DEF HeldInv

\* A write that unlocks is answered before it is executed (Lookup).
LEMMA HeldLookup ==
  ASSUME TypeOK, HandshakeInv, HeldInv, NEW k \in Banks, Lookup(k)
  PROVE  HeldInv'
<1> DEFINE t == bank[k].id
<1>1. bank[k].state = "MR"
  BY LookupToL
<1>2. /\ bank'[k].state = "L" /\ bank'[k].id = t
      /\ bank'[k].op = bank[k].op /\ bank'[k].hold = bank[k].hold
      /\ \A j \in Banks : j # k => bank'[j] = bank[j]
      /\ UNCHANGED lock_vec
  BY LookupFrame
<1>3. PICK r : ToL(k, r)
  BY LookupToL
<1>4. CASE ~ isWrite(bank[k].op)
  <2>1. UNCHANGED <<tc_state, xact>>
    BY <1>3, <1>4 DEF ToL, trackers
  <2>2. \A j \in Banks : bank[j].state = "L" => bank'[j] = bank[j]
    BY <1>1, <1>2
  <2> QED BY <1>2, <2>1, <2>2, HeldOthers
<1>5. CASE isWrite(bank[k].op)
  <2>1. Respond(t, r)
    BY <1>3, <1>5 DEF ToL, HandshakeInv, Initiated
  <2>2. t \in Mem /\ TrackersOK
    BY DEF TypeOK, BanksOK, TagXacts
  <2>3. bank[k].hold = HoldOf(t)
    BY <1>1, <2>2 DEF HandshakeInv, ResponseExpected, Owes
  <2>4. \A u \in Mem : u # t => tc_state'[u] = tc_state[u] /\ xact'[u] = xact[u]
    BY <2>1, <2>2, RespondFrame
  <2>5. ASSUME NEW s \in Slots, lock_vec[s].lock
        PROVE  \E u \in Mem, h \in Holds :
                 /\ lock_vec[s].id = u /\ lock_vec[s].hold = h /\ is_map(h)
                 /\ Held(u, h)' \/ \E j \in Banks : Posted(j, u, h)'
    <3>1. PICK u \in Mem, h \in Holds :
            /\ lock_vec[s].id = u /\ lock_vec[s].hold = h /\ is_map(h)
            /\ Held(u, h) \/ \E j \in Banks : Posted(j, u, h)
      BY <2>5 DEF TypeOK, LocksOK, HeldInv, LocksHeld
    <3>2. ASSUME NEW j \in Banks, Posted(j, u, h)
          PROVE  Posted(j, u, h)'
      BY <1>1, <1>2, <3>2 DEF Posted
    <3>3. ASSUME u = t, h = HoldOf(t)
          PROVE  Posted(k, u, h)'
      BY <1>2, <1>5, <2>3, <3>3 DEF Posted
    <3>4. ASSUME u = t, h # HoldOf(t), Held(u, h)
          PROVE  Held(u, h)'
      BY <2>1, <2>2, <3>1, <3>4, HeldRespond
    <3>5. ASSUME u # t, Held(u, h)
          PROVE  Held(u, h)'
      BY <2>4, <3>1, <3>5, HeldFrame
    <3> QED BY <3>1, <3>2, <3>3, <3>4, <3>5
  <2>6. LocksHeld'
    BY <1>2, <2>5 DEF HeldInv, LocksHeld
  <2>7. LocksOnce'
    BY <1>2 DEF HeldInv, LocksOnce
  <2> QED BY <2>6, <2>7 DEF HeldInv
<1> QED BY <1>4, <1>5

\* The request of an update that a bank executes, by its operation (OpOf).
LEMMA OpStates ==
  ASSUME TrackersOK, NEW t \in Mem, tc_state[t] # "IDLE"
  PROVE  /\ isLock(OpOf(t)) <=> tc_state[t] \in {"TM1L", "TM0L", "TTL"}
         /\ OpOf(t) = "U" => tc_state[t] \in {"TM0W", "TM1W"}
         /\ isWrite(OpOf(t)) => tc_state[t] \in {"TTW", "TM0W", "TM1W"}
<1>1. tc_state[t] \in {"TTF", "TTL", "TTW", "TTR", "TM0R"} \cup TM1_states \cup TM0_states
  BY DEF TrackersOK, TcStates, TM0_states
<1>2. CASE tc_state[t] \in {"TM1L", "TM0L", "TTL"}
  BY <1>2 DEF OpOf, isLock, isWrite
<1>3. CASE tc_state[t] \in {"TTR", "TM0R", "TM1F", "TM0F", "TTF"}
  BY <1>3 DEF OpOf, isLock, isWrite
<1>4. CASE tc_state[t] = "TTW"
  BY <1>4 DEF OpOf, isLock, isWrite
<1>5. CASE tc_state[t] = "TM0W"
  BY <1>5 DEF OpOf, isLock, isWrite
<1>6. CASE tc_state[t] = "TM1W"
  BY <1>6 DEF OpOf, isLock, isWrite
<1> QED BY <1>1, <1>2, <1>3, <1>4, <1>5, <1>6 DEF TM0_states, TM1_states

\* No lock is held of what its tracker is about to lock (LockUpdate).
LEMMA LockIsNew ==
  ASSUME TypeOK, HandshakeInv, HeldInv, NEW k \in Banks,
         bank[k].state = "L", isLock(bank[k].op), is_map(bank[k].hold)
  PROVE  /\ tc_state[bank[k].id] \in {"TM1L", "TM0L"}
         /\ tc_state[bank[k].id] = "TM1L" => NLevel > 2
         /\ bank[k].hold = HoldOf(bank[k].id)
         /\ \A s \in Slots : lock_vec[s].lock =>
              ~ (lock_vec[s].id = bank[k].id /\ lock_vec[s].hold = bank[k].hold)
<1> DEFINE t == bank[k].id
           b == xact[t].blk
<1>1. t \in Mem /\ TrackersOK /\ b \in Blocks
  BY DEF TypeOK, BanksOK, TagXacts, TrackersOK
<1>2. Owes(k, t)
  BY DEF Owes, isLock, isWrite
<1>3. tc_state[t] # "IDLE" /\ bank[k].op = OpOf(t) /\ bank[k].hold = HoldOf(t)
  BY <1>1, <1>2 DEF HandshakeInv, ResponseExpected
<1>4. tc_state[t] \in {"TM1L", "TM0L", "TTL"}
  BY <1>1, <1>3, OpStates
<1>5. tc_state[t] # "TTL"
  BY <1>1, <1>3 DEF HoldOf, is_map, TM0_states, TM1_states
<1>6. tc_state[t] = "TM1L" => NLevel > 2 /\ HoldOf(t) = Up[Up[b]]
  BY <1>1 DEF TrackersOK, TcStates, HoldOf, TM1_states, TM0_states
<1>7. tc_state[t] = "TM0L" => HoldOf(t) = Up[b] /\ NLevel > 1
  BY <1>1, TagCacheAssumption DEF TrackersOK, TcStates, HoldOf, TM0_states, TM1_states
<1>8. ~ Held(t, HoldOf(t))
  BY <1>1, <1>4, <1>5, <1>6, <1>7, UpFacts DEF Held, HeldTM0, HeldTM1
<1>9. ASSUME NEW j \in Banks, Posted(j, t, HoldOf(t)) PROVE FALSE
  <2>1. bank[j].state = "L" /\ bank[j].hold = bank[k].hold /\ isWrite(bank[j].op)
    BY <1>3, <1>9 DEF Posted
  <2>2. j = k
    BY <2>1 DEF HandshakeInv, BankHome, LineOf
  <2> QED BY <2>1, <2>2 DEF isLock, isWrite
<1>10. \A s \in Slots : lock_vec[s].lock => ~ (lock_vec[s].id = t /\ lock_vec[s].hold = HoldOf(t))
  BY <1>8, <1>9 DEF HeldInv, LocksHeld
<1> QED BY <1>3, <1>4, <1>5, <1>6, <1>10

\* The end of a transaction enters or removes its lock (Finish, LockUpdate).
LEMMA HeldFinish ==
  ASSUME TypeOK, HandshakeInv, HeldInv, NEW k \in Banks, Finish(k)
  PROVE  HeldInv'
<1>1. PICK x : x = bank[k]
  OBVIOUS
<1>2. PICK t \in Mem : t = x.id
  BY <1>1 DEF TypeOK, BanksOK, TagXacts
<1>3. /\ x.state = "L" /\ LockUpdate(k) /\ TrackersOK
      /\ \A j \in Banks : j # k => bank'[j] = bank[j]
  BY <1>1 DEF Finish, TypeOK, BanksOK
<1>4. \A u \in Mem : u # t => tc_state'[u] = tc_state[u] /\ xact'[u] = xact[u]
  <2>1. CASE Respond(t, x.resp)
    BY <1>3, <2>1, RespondFrame
  <2>2. CASE UNCHANGED trackers
    BY <2>2 DEF trackers
  <2> QED BY <1>1, <1>2, <2>1, <2>2 DEF Finish
<1>5. ~ isWrite(x.op) => /\ Respond(t, x.resp) /\ tc_state[t] # "IDLE"
                         /\ x.op = OpOf(t) /\ x.hold = HoldOf(t)
  BY <1>1, <1>2, <1>3 DEF Finish, HandshakeInv, ResponseExpected, Owes
<1>6. isWrite(x.op) => UNCHANGED <<tc_state, xact>>
  BY <1>1 DEF Finish, trackers
\* What survives of the locks of before.
<1>7. ASSUME NEW u \in Mem, NEW h \in Holds, is_map(h),
             Held(u, h) \/ \E j \in Banks : Posted(j, u, h),
             ~ (u = t /\ h = x.hold)
      PROVE  Held(u, h)' \/ \E j \in Banks : Posted(j, u, h)'
  <2>1. ASSUME NEW j \in Banks, Posted(j, u, h) PROVE Posted(j, u, h)'
    BY <1>1, <1>2, <1>3, <1>7, <2>1 DEF Posted
  <2>2. ASSUME Held(u, h) PROVE Held(u, h)'
    <3>1. CASE u # t \/ isWrite(x.op)
      <4>1. tc_state'[u] = tc_state[u] /\ xact'[u] = xact[u]
        BY <1>4, <1>6, <3>1
      <4> QED BY <2>2, <4>1, HeldFrame
    <3>2. CASE u = t /\ ~ isWrite(x.op)
      BY <1>3, <1>5, <1>7, <2>2, <3>2, HeldRespond
    <3> QED BY <3>1, <3>2
  <2> QED BY <1>7, <2>1, <2>2
<1>8. ASSUME NEW s \in Slots, lock_vec[s].lock
      PROVE  \E u \in Mem, h \in Holds :
               /\ lock_vec[s].id = u /\ lock_vec[s].hold = h /\ is_map(h)
               /\ Held(u, h) \/ \E j \in Banks : Posted(j, u, h)
  BY <1>8 DEF TypeOK, LocksOK, HeldInv, LocksHeld
<1>9. CASE is_map(x.hold) /\ isLock(x.op)
  <2>1. PICK s \in Slots :
          lock_vec' = [lock_vec EXCEPT ![s] = [lock |-> TRUE, id |-> x.id, hold |-> x.hold]]
    BY <1>1, <1>3, <1>9 DEF LockUpdate
  <2>2. /\ lock_vec'[s].id = t /\ lock_vec'[s].hold = x.hold
        /\ \A r \in Slots : r # s => lock_vec'[r] = lock_vec[r]
    BY <1>2, <2>1 DEF TypeOK, LocksOK
  <2>3. /\ tc_state[t] \in {"TM1L", "TM0L"} /\ x.hold = HoldOf(t)
        /\ tc_state[t] = "TM1L" => NLevel > 2
        /\ \A r \in Slots : lock_vec[r].lock =>
             ~ (lock_vec[r].id = t /\ lock_vec[r].hold = x.hold)
    BY <1>1, <1>2, <1>3, <1>9, LockIsNew
  <2>4. PICK g \in Holds : g = x.hold
    BY <1>1 DEF TypeOK, BanksOK, TagXacts
  <2>5. Held(t, g)'
    <3>1. Respond(t, x.resp)
      BY <1>5, <1>9 DEF isLock, isWrite
    <3>2. tc_state'[t] = NextTcState(t, x.resp)
      BY <1>3, <3>1 DEF Respond, TrackersOK
    <3>3. tc_state'[t] # "IDLE" => xact'[t] = xact[t]
      BY <3>1, <3>2 DEF Respond
    <3>4. CASE tc_state[t] = "TM1L"
      <4>1. g = Up[Up[xact[t].blk]]
        BY <2>3, <2>4, <3>4 DEF HoldOf, TM1_states, TM0_states
      <4>2. tc_state'[t] = "TM0L"
        BY <3>2, <3>4, UpdateStates
      <4> QED BY <2>3, <3>3, <3>4, <4>1, <4>2 DEF Held, HeldTM1
    <3>5. CASE tc_state[t] = "TM0L"
      <4>1. g = Up[xact[t].blk]
        BY <2>3, <2>4, <3>5 DEF HoldOf, TM1_states, TM0_states
      <4>2. tc_state'[t] = "TTL"
        BY <3>2, <3>5, UpdateStates
      <4> QED BY <3>3, <4>1, <4>2 DEF Held, HeldTM0
    <3> QED BY <2>3, <3>4, <3>5
  <2>6. ASSUME NEW r \in Slots, lock_vec'[r].lock
        PROVE  \E u \in Mem, h \in Holds :
                 /\ lock_vec'[r].id = u /\ lock_vec'[r].hold = h /\ is_map(h)
                 /\ Held(u, h)' \/ \E j \in Banks : Posted(j, u, h)'
    <3>1. CASE r = s
      BY <1>9, <2>2, <2>4, <2>5, <3>1
    <3>2. CASE r # s
      <4>1. lock_vec[r].lock /\ lock_vec'[r] = lock_vec[r]
        BY <2>2, <2>6, <3>2
      <4> QED BY <1>7, <1>8, <2>3, <4>1
    <3> QED BY <3>1, <3>2
  <2>7. LocksHeld'
    BY <2>6 DEF LocksHeld
  <2>8. LocksOnce'
    BY <2>2, <2>3 DEF HeldInv, LocksOnce
  <2> QED BY <2>7, <2>8 DEF HeldInv
<1>10. CASE ~ (is_map(x.hold) /\ isLock(x.op))
  <2>1. ASSUME NEW s \in Slots, lock_vec'[s].lock
        PROVE  /\ lock_vec'[s] = lock_vec[s] /\ lock_vec[s].lock
               /\ ~ (lock_vec[s].id = t /\ lock_vec[s].hold = x.hold)
    <3>1. CASE ~ is_map(x.hold)
      <4>1. UNCHANGED lock_vec
        BY <1>1, <1>3, <3>1 DEF LockUpdate
      <4>2. is_map(lock_vec[s].hold)
        BY <2>1, <4>1 DEF HeldInv, LocksHeld
      <4> QED BY <2>1, <3>1, <4>1, <4>2
    <3>2. CASE is_map(x.hold)
      <4>1. lock_vec' = [r \in Slots |->
                      IF lock_vec[r].id = x.id /\ lock_vec[r].hold = x.hold
                      THEN NoLock ELSE lock_vec[r]]
        BY <1>1, <1>3, <1>10, <3>2 DEF LockUpdate
      <4> QED BY <1>2, <2>1, <4>1 DEF NoLock
    <3> QED BY <3>1, <3>2
  <2>2. ASSUME NEW r \in Slots, lock_vec'[r].lock
        PROVE  \E u \in Mem, h \in Holds :
                 /\ lock_vec'[r].id = u /\ lock_vec'[r].hold = h /\ is_map(h)
                 /\ Held(u, h)' \/ \E j \in Banks : Posted(j, u, h)'
    <3>1. lock_vec[r].lock /\ lock_vec'[r] = lock_vec[r]
          /\ ~ (lock_vec[r].id = t /\ lock_vec[r].hold = x.hold)
      BY <2>1, <2>2
    <3> QED BY <1>7, <1>8, <3>1
  <2>3. LocksHeld'
    BY <2>2 DEF LocksHeld
  <2>4. LocksOnce'
    BY <2>1 DEF HeldInv, LocksOnce
  <2> QED BY <2>3, <2>4 DEF HeldInv
<1> QED BY <1>9, <1>10

\* Every step keeps the account of the locks.
LEMMA HeldStep ==
  ASSUME TypeOK, HandshakeInv, HeldInv, [Next]_vars
  PROVE  HeldInv'
<1>1. ASSUME NEW t \in Mem, NEW b \in Blocks, NEW rw \in BOOLEAN, NEW mask \in SUBSET Bits,
             NEW data \in SUBSET Bits, NEW o \in Orders, Acquire(t, b, rw, mask, data, o)
      PROVE  HeldInv'
  <2>1. tc_state[t] = "IDLE" /\ UNCHANGED <<bank, lock_vec>>
    BY <1>1 DEF Acquire, Allocated, tl_block, banks
  <2>2. \A u \in Mem : u # t => tc_state'[u] = tc_state[u] /\ xact'[u] = xact[u]
    BY <1>1 DEF Acquire, TypeOK, TrackersOK
  <2> QED BY <2>1, <2>2, HeldOthers
<1>2. ASSUME NEW t \in Mem, Retire(t)
      PROVE  HeldInv'
  <2>1. UNCHANGED <<tc_state, bank, lock_vec>>
    BY <1>2 DEF Retire, banks
  <2>2. \A u \in Mem : tc_state[u] # "IDLE" => xact'[u] = xact[u]
    BY <1>2 DEF Retire, Cleared, TypeOK, TrackersOK
  <2> QED BY <2>1, <2>2, HeldOthers
<1>3. ASSUME NEW k \in Banks, Initiate(k)
      PROVE  FALSE
  BY <1>3 DEF Initiate, HandshakeInv, Initiated
<1>4. ASSUME NEW k \in Banks, Grant(k)
      PROVE  HeldInv'
  <2>1. UNCHANGED <<tc_state, xact, lock_vec>> /\ bank[k].state = "IDLE"
    BY <1>4 DEF Grant
  <2>2. \A j \in Banks : bank[j].state = "L" => bank'[j] = bank[j]
    BY <1>4, <2>1 DEF Grant, TypeOK, BanksOK
  <2> QED BY <2>1, <2>2, HeldOthers
<1>5. CASE Next
  BY <1>1, <1>2, <1>3, <1>4, <1>5, NextSplit, HeldLookup, HeldFinish
<1>6. CASE UNCHANGED vars
  BY <1>6, HeldOthers DEF vars, trackers, banks
<1> QED BY <1>5, <1>6

\* Every lock is accounted for, once the top lines exist.
LEMMA HeldInvariance == Spec => [](TypeOK /\ HandshakeInv /\ HeldInv)
<1>1. Init => TypeOK /\ HandshakeInv /\ HeldInv
  <2>1. Init => lock_vec = [s \in Slots |-> NoLock]
    BY DEF Init, InitIdle
  <2> QED BY <2>1, TypeInit, HandshakeInit DEF HeldInv, LocksHeld, LocksOnce, NoLock
<1>2. TypeOK /\ HandshakeInv /\ HeldInv /\ [Next]_vars => (TypeOK /\ HandshakeInv /\ HeldInv)'
  BY TypeStep, HandshakeStep, HeldStep
<1> QED BY <1>1, <1>2, PTL DEF Spec

\* No lock outlives the transactions: at rest none is held (the commented-out assertion of
\* lines 1340-1341).
THEOREM LocksReleased == Spec => []UnlockedAtRest
<1>1. TypeOK /\ HeldInv => UnlockedAtRest
  <2>1. SUFFICES ASSUME TypeOK, HeldInv, AtRest, NEW s \in Slots, lock_vec[s].lock PROVE FALSE
    BY DEF UnlockedAtRest
  <2>2. lock_vec[s].id \in Mem
    BY <2>1 DEF TypeOK, LocksOK
  <2>3. ~ Held(lock_vec[s].id, lock_vec[s].hold)
    BY <2>1, <2>2 DEF AtRest, tl_block, Held, HeldTM0, HeldTM1
  <2>4. \A j \in Banks : ~ Posted(j, lock_vec[s].id, lock_vec[s].hold)
    BY <2>1 DEF AtRest, Posted
  <2> QED BY <2>1, <2>3, <2>4 DEF HeldInv, LocksHeld
<1> QED BY <1>1, HeldInvariance, PTL

\* The numbers up to n (Slots).
LEMMA IntervalSize ==
  ASSUME NEW n \in Nat
  PROVE  IsFiniteSet(0 .. n) /\ Cardinality(0 .. n) = n + 1
<1>1. 0 \in Int /\ n \in Int /\ ~ 0 > n /\ n - 0 + 1 = n + 1
  OBVIOUS
<1>2. /\ IsFiniteSet(0 .. n)
      /\ Cardinality(0 .. n) = IF 0 > n THEN 0 ELSE n - 0 + 1
  BY <1>1, FS_Interval
<1> QED BY <1>1, <1>2

\* A full table has a lock whose unlock is posted: of the locks that are held by trackers in
\* the middle of an update, a tracker has at most two, and the tracker that waits in L has
\* not got the one it waits for (2 slots for each tracker).
LEMMA FullTable ==
  ASSUME TypeOK, HandshakeInv, HeldInv, NEW k \in Banks,
         bank[k].state = "L", isLock(bank[k].op), is_map(bank[k].hold),
         \A s \in Slots : lock_vec[s].lock
  PROVE  \E j \in Banks, s \in Slots : Posted(j, lock_vec[s].id, lock_vec[s].hold)
<1>1. SUFFICES ASSUME \A j \in Banks, s \in Slots : ~ Posted(j, lock_vec[s].id, lock_vec[s].hold)
               PROVE  FALSE
  OBVIOUS
<1>2. \A s \in Slots : lock_vec[s].id \in Mem /\ lock_vec[s].hold \in Holds
  BY DEF TypeOK, LocksOK
<1>3. \A s \in Slots : Held(lock_vec[s].id, lock_vec[s].hold)
  BY <1>1 DEF HeldInv, LocksHeld
<1>4. PICK t \in Mem : t = bank[k].id
  BY DEF TypeOK, BanksOK, TagXacts
<1>5. tc_state[t] \in {"TM1L", "TM0L"}
  BY <1>4, LockIsNew
<1>6. NMem \in Nat \ {0} /\ Mem \subseteq Nat
  BY TagCacheAssumption DEF Mem
<1>7. \A u \in Mem : xact[u].blk \in Blocks
  BY DEF TypeOK, TrackersOK
\* A slot is numbered by its tracker and the level of its bit.
<1> DEFINE Low(s) == lock_vec[s].hold = Up[xact[lock_vec[s].id].blk]
           f == [s \in Slots |-> 2 * lock_vec[s].id + (IF Low(s) THEN 0 ELSE 1)]
           T == (0 .. (NLocks - 1)) \ {2 * t}
<1>8. \A s \in Slots : Low(s) => lock_vec[s].id # t
  <2>1. SUFFICES ASSUME NEW s \in Slots, Low(s), lock_vec[s].id = t PROVE FALSE
    OBVIOUS
  <2>2. HeldTM1(t, lock_vec[s].hold)
    BY <1>3, <1>5, <2>1 DEF Held, HeldTM0
  <2>3. NLevel > 1 /\ NLevel > 2
    BY <2>2, TagCacheAssumption DEF HeldTM1
  <2> QED BY <1>7, <2>1, <2>2, <2>3, UpFacts DEF HeldTM1
<1>9. \A s \in Slots : ~ Low(s) => lock_vec[s].hold = Up[Up[xact[lock_vec[s].id].blk]]
  BY <1>3 DEF Held, HeldTM0, HeldTM1
<1>10. f \in [Slots -> T]
  <2>1. ASSUME NEW s \in Slots PROVE f[s] \in T
    <3>1. PICK u \in Mem : u = lock_vec[s].id
      BY <1>2
    <3>2. f[s] = 2 * u + (IF Low(s) THEN 0 ELSE 1)
      BY <3>1
    <3>3. Low(s) => u # t
      BY <1>8, <3>1
    <3> HIDE DEF Low, f
    <3> QED BY <1>6, <3>2, <3>3 DEF Mem, NLocks
  <2> QED BY <2>1
<1>11. IsFiniteSet(Slots) /\ IsFiniteSet(T) /\ Cardinality(T) < Cardinality(Slots)
  <2>1. NLocks - 1 \in Int /\ 0 \in Int /\ NLocks - 1 >= 0 /\ NLocks \in Int
    BY <1>6 DEF NLocks
  <2>2. IsFiniteSet(Slots) /\ Cardinality(Slots) = NLocks
    <3>1. PICK n \in Nat : n = NLocks - 1 /\ n + 1 = NLocks
      BY <2>1
    <3>2. IsFiniteSet(0 .. n) /\ Cardinality(0 .. n) = n + 1
      BY IntervalSize
    <3>3. Slots = 0 .. n
      BY <3>1 DEF Slots
    <3> QED BY <3>1, <3>2, <3>3, Zenon
  <2>3. 2 * t \in Slots
    BY <1>6 DEF Slots, NLocks, Mem
  <2>4. IsFiniteSet(Slots \ {2 * t}) /\ Cardinality(Slots \ {2 * t}) = NLocks - 1
    BY <2>2, <2>3, FS_RemoveElement
  <2>5. T = Slots \ {2 * t}
    BY DEF Slots
  <2> HIDE DEF T
  <2> QED BY <2>1, <2>2, <2>4, <2>5
<1>12. PICK s, r \in Slots : s # r /\ f[s] = f[r]
  <2> HIDE DEF f, T
  <2> QED BY <1>10, <1>11, FS_PigeonHole
<1>13. lock_vec[s].id = lock_vec[r].id /\ (Low(s) <=> Low(r))
  <2>1. PICK u \in Mem, v \in Mem : u = lock_vec[s].id /\ v = lock_vec[r].id
    BY <1>2
  <2>2. 2 * u + (IF Low(s) THEN 0 ELSE 1) = 2 * v + (IF Low(r) THEN 0 ELSE 1)
    BY <1>12, <2>1
  <2>3. PICK i \in {0, 1} : i = IF Low(s) THEN 0 ELSE 1
    OBVIOUS
  <2>4. PICK j \in {0, 1} : j = IF Low(r) THEN 0 ELSE 1
    OBVIOUS
  <2>5. 2 * u + i = 2 * v + j
    BY <2>2, <2>3, <2>4
  <2>6. u = v /\ i = j
    BY <1>6, <2>5
  <2> QED BY <2>1, <2>3, <2>4, <2>6
<1>14. lock_vec[s].hold = lock_vec[r].hold
  BY <1>9, <1>13
<1> QED BY <1>12, <1>13, <1>14 DEF HeldInv, LocksOnce

\* A lock waits for a slot only while a bank executes the unlock of one: two slots for each
\* tracker are enough although the unlocks are posted (comment of line 1301).
THEOREM SlotsSuffice == Spec => []SlotWaitEnds
<1>1. TypeOK /\ HandshakeInv /\ HeldInv => SlotWaitEnds
  <2>1. SUFFICES ASSUME TypeOK, HandshakeInv, HeldInv, NEW k \in Banks,
                        bank[k].state = "L", isLock(bank[k].op), is_map(bank[k].hold),
                        \A s \in Slots : ~ Free(s)
                 PROVE  \E j \in Banks, s \in Slots :
                          /\ bank[j].state # "IDLE" /\ ~ isLock(bank[j].op)
                          /\ bank[j].id = lock_vec[s].id /\ bank[j].hold = lock_vec[s].hold
    BY DEF SlotWaitEnds
  <2>2. \A s \in Slots : lock_vec[s].lock
    BY <2>1 DEF Free
  <2>3. PICK j \in Banks, s \in Slots : Posted(j, lock_vec[s].id, lock_vec[s].hold)
    BY <2>1, <2>2, FullTable
  <2> QED BY <2>3 DEF Posted, isWrite, isLock
<1> QED BY <1>1, HeldInvariance, PTL

-----------------------------------------------------------------------------
(***************************************************************************)
(* The count of non-empty rows.  A write changes one row; a create counts  *)
(* one row because a tracker creates a line only to set a bit in it, and   *)
(* the initiator counts one too many.                                      *)
(***************************************************************************)

\* The flag that decides on a create tells whether the write sets a tag (tc_xact_tt_tag1).
FlagTags ==
  \A t \in Mem :
    tc_state[t] \in {"TTW", "TM0W", "TM1W"} =>
      (flag[t].tt_tag1 <=> mem_data[t] \cap xact[t].mask # {})

\* What a bank writes is in the hold of its transaction; a create sets a bit, unless it is one
\* of the initiator's.
WritesInHold ==
  \A k \in Banks :
    bank[k].state = "MR" =>
      /\ bank[k].mask \subseteq BitsOf(bank[k].hold)
      /\ bank[k].op = "C" => bank[k].data \cap bank[k].mask # {} \/ LineOf(k) \in InitLines

RowInv == FlagTags /\ WritesInHold /\ RowsCounted /\ (\A k \in Banks : rst[k] \subseteq InitLines)

\* The bits of a hold are in its row.
LEMMA HoldRow ==
  ASSUME NEW h \in Holds, NEW p \in BitsOf(h)
  PROVE  p[1] = h /\ p \in Pos
BY DEF BitsOf, Pos

\* How the write of some bits of a hold changes the count of rows (RowDelta).
LEMMA RowsChange ==
  ASSUME NEW S \in SUBSET Pos, NEW h \in Holds, NEW mask \in SUBSET BitsOf(h),
         NEW new \in SUBSET mask
  PROVE  RowCount((S \ mask) \cup new) = RowCount(S) + RowDelta(RowPart(S, h), new, mask)
<1> DEFINE N == (S \ mask) \cup new
           A == {Row[p[1]] : p \in S}
           D == {Row[p[1]] : p \in N}
           w == Row[h]
           old == RowPart(S, h)
<1>1. \A p \in mask : p[1] = h /\ p \in Pos
  BY HoldRow
<1>2. N \in SUBSET Pos
  BY <1>1
<1>3. IsFiniteSet(A) /\ IsFiniteSet(D)
  BY <1>2, RowsFinite
<1>4. RowCount(S) = Cardinality(A) /\ RowCount(N) = Cardinality(D)
  BY DEF RowCount
<1>5. Cardinality(A) \in Nat /\ Cardinality(D) \in Nat
  BY <1>3, FS_CardinalityType
<1>6. w \in A <=> old # {}
  BY DEF RowPart
<1>7. w \in D <=> new # {} \/ old \ mask # {}
  <2>1. ASSUME w \in D PROVE new # {} \/ old \ mask # {}
    <3>1. PICK p \in N : Row[p[1]] = w
      BY <2>1
    <3> QED BY <3>1 DEF RowPart
  <2>2. ASSUME NEW p \in new PROVE w \in D
    <3>1. p[1] = h /\ p \in N
      BY <1>1, <2>2
    <3> QED BY <3>1
  <2>3. ASSUME NEW p \in old \ mask PROVE w \in D
    BY <2>3 DEF RowPart
  <2> QED BY <2>1, <2>2, <2>3
<1>8. D \ {w} = A \ {w}
  <2>1. ASSUME NEW r \in D, r # w PROVE r \in A
    <3>1. PICK p \in N : Row[p[1]] = r
      BY <2>1
    <3>2. p \notin new
      BY <1>1, <2>1, <3>1
    <3> QED BY <3>1, <3>2
  <2>2. ASSUME NEW r \in A, r # w PROVE r \in D
    <3>1. PICK p \in S : Row[p[1]] = r
      BY <2>2
    <3>2. p \notin mask
      BY <1>1, <2>2, <3>1
    <3> QED BY <3>1, <3>2
  <2> QED BY <2>1, <2>2
<1>9. /\ Cardinality(A \ {w}) = IF w \in A THEN Cardinality(A) - 1 ELSE Cardinality(A)
      /\ Cardinality(D \ {w}) = IF w \in D THEN Cardinality(D) - 1 ELSE Cardinality(D)
  BY <1>3, FS_RemoveElement
<1> DEFINE delta == RowDelta(old, new, mask)
<1>10. delta = IF w \in D THEN (IF w \in A THEN 0 ELSE 1) ELSE (IF w \in A THEN -1 ELSE 0)
  <2>1. old \cap mask = {} /\ old # {} => old \ mask # {}
    OBVIOUS
  <2>2. old = {} => old \cap mask = {} /\ old \ mask = {}
    OBVIOUS
  <2>3. old \ mask = {} /\ old # {} => old \cap mask # {}
    OBVIOUS
  <2> HIDE DEF old, A, D, w
  <2> QED BY <1>6, <1>7, <2>1, <2>2, <2>3 DEF RowDelta
<1> HIDE DEF A, D, w, delta
<1>11. Cardinality(D) = Cardinality(A) + delta
  BY <1>5, <1>8, <1>9, <1>10
<1> QED BY <1>4, <1>11 DEF delta

\* The bits of one hold fill one row.
LEMMA OneRow ==
  ASSUME NEW h \in Holds, NEW S \in SUBSET BitsOf(h)
  PROVE  RowCount(S) = IF S = {} THEN 0 ELSE 1
<1> DEFINE A == {Row[p[1]] : p \in S}
<1>1. \A p \in S : p[1] = h
  BY HoldRow
<1>2. CASE S = {}
  <2>1. A = {}
    BY <1>2
  <2> QED BY <1>2, <2>1, FS_EmptySet DEF RowCount
<1>3. CASE S # {}
  <2>1. A = {Row[h]}
    BY <1>1, <1>3
  <2> QED BY <1>3, <2>1, FS_Singleton DEF RowCount
<1> QED BY <1>2, <1>3

\* Responses keep the flag in step with the tags to write (NextFlag, NextMemData).
LEMMA FlagRespond ==
  ASSUME TrackersOK, FlagTags, NEW t \in Mem, NEW r, Respond(t, r)
  PROVE  FlagTags'
<1> DEFINE W == {"TTW", "TM0W", "TM1W"}
<1>1. tc_state'[t] = NextTcState(t, r)
  BY DEF Respond, TrackersOK
<1>2. ASSUME NEW u \in Mem, u # t
      PROVE  /\ tc_state'[u] = tc_state[u] /\ xact'[u] = xact[u]
             /\ flag'[u] = flag[u] /\ mem_data'[u] = mem_data[u]
  BY <1>2 DEF Respond, Cleared, TrackersOK
<1>3. ASSUME tc_state'[t] \in W
      PROVE  flag'[t].tt_tag1 <=> mem_data'[t] \cap xact'[t].mask # {}
  <2>1. /\ xact'[t] = xact[t] /\ flag'[t] = NextFlag(t, r) /\ mem_data'[t] = NextMemData(t, r)
    BY <1>1, <1>3 DEF Respond, TrackersOK
  <2>2. tc_state[t] \in {"TTL", "TTW", "TM0W"}
    <3>1. \A d : Found(t, d) \notin W
      BY DEF Found, FirstLock
    <3>2. tc_state[t] \in TcStates
      BY DEF TrackersOK
    <3>3. CASE tc_state[t] \in {"TTR", "TM0R", "TM1F", "TM0F", "TTF"}
      BY <1>1, <1>3, <3>1, <3>3 DEF NextTcState
    <3>4. CASE tc_state[t] \in {"TM1L", "TM0L", "TM1W", "IDLE"}
      BY <1>1, <1>3, <3>4 DEF NextTcState
    <3> QED BY <3>2, <3>3, <3>4 DEF TcStates, TM1_states
  <2>3. mem_data'[t] = mem_data[t]
    BY <2>1, <2>2 DEF NextMemData
  <2>4. CASE tc_state[t] = "TTL"
    <3>1. flag[t] \in Flags
      BY DEF TrackersOK
    <3>2. NextFlag(t, r).tt_tag1 = (mem_data[t] \cap xact[t].mask # {})
      BY <2>4, <3>1 DEF NextFlag, Flags
    <3> QED BY <2>1, <2>3, <3>2
  <2>5. CASE tc_state[t] \in {"TTW", "TM0W"}
    <3>1. NextFlag(t, r) = flag[t]
      BY <2>5 DEF NextFlag
    <3> QED BY <2>1, <2>3, <2>5, <3>1 DEF FlagTags
  <2> QED BY <2>2, <2>4, <2>5
<1> QED BY <1>2, <1>3 DEF FlagTags

\* What a request writes is in its hold, and a create sets a bit (OpOf, DataOf, MaskOf).
LEMMA RequestWrites ==
  ASSUME TrackersOK, FlagTags, NEW t \in Mem
  PROVE  /\ MaskOf(t) \subseteq BitsOf(HoldOf(t))
         /\ OpOf(t) = "C" => DataOf(t) \cap MaskOf(t) # {}
<1> DEFINE h == HoldOf(t)
           b == xact[t].blk
<1>1. b \in Blocks /\ xact[t].mask \subseteq Bits /\ mem_data[t] \subseteq Bits
  BY DEF TrackersOK
<1>2. tc_state[t] = "TTW" => h = b
  BY DEF HoldOf, TM0_states, TM1_states
<1>3. MaskOf(t) \subseteq BitsOf(h)
  <2>1. CASE tc_state[t] = "TTW"
    BY <1>1, <1>2, <2>1 DEF MaskOf, BitsOf
  <2>2. CASE tc_state[t] # "TTW"
    BY <2>2 DEF MaskOf
  <2> QED BY <2>1, <2>2
<1>4. ASSUME OpOf(t) = "C" PROVE DataOf(t) \cap MaskOf(t) # {}
  <2>1. tc_state[t] \in {"TTW", "TM0W"} /\ flag[t].tt_tag1
    <3>1. CASE tc_state[t] = "TTW"
      BY <1>4, <3>1 DEF OpOf
    <3>2. CASE tc_state[t] = "TM0W"
      BY <1>4, <3>2 DEF OpOf
    <3>3. CASE tc_state[t] \notin {"TTW", "TM0W"}
      BY <1>4, <3>3 DEF OpOf
    <3> QED BY <3>1, <3>2, <3>3
  <2>2. CASE tc_state[t] = "TTW"
    <3>1. PICK i \in mem_data[t] \cap xact[t].mask : TRUE
      BY <2>1, <2>2 DEF FlagTags
    <3>2. <<h, i>> \in DataOf(t) /\ <<h, i>> \in MaskOf(t)
      BY <2>2, <3>1 DEF DataOf, MaskOf
    <3> QED BY <3>2
  <2>3. CASE tc_state[t] = "TM0W"
    <3>1. h = Up[b] /\ h \notin Blocks
      BY <1>1, <2>3, UpFacts DEF HoldOf, TM0_states, TM1_states
    <3>2. BitsOf(h) # {}
      BY <3>1 DEF BitsOf
    <3>3. DataOf(t) = BitsOf(h) /\ MaskOf(t) = BitsOf(h)
      BY <2>1, <2>3 DEF DataOf, MaskOf, tt_any
    <3> QED BY <3>2, <3>3
  <2> QED BY <2>1, <2>2, <2>3
<1> QED BY <1>3, <1>4

\* A cached line with its count right.
Counted(l, c) ==
  c.st # "Invalid" =>
    \/ c.tcnt = RowCount(c.data)
    \/ l \in InitLines /\ c.tcnt = RowCount(c.data) + 1

\* A replacement keeps the counts if the line that comes has its count (Replace).
LEMMA RowsReplace ==
  ASSUME RowsCounted, NEW l \in Lines, NEW v, NEW c, Counted(l, c), Replace(l, v, c)
  PROVE  RowsCounted'
<1>1. ASSUME NEW m \in Lines PROVE Counted(m, cache'[m])
  <2>1. Counted(m, cache[m])
    BY DEF RowsCounted, Counted, Cached
  <2>2. cache'[m] = IF m = l THEN c ELSE IF m = v THEN Invalid ELSE cache[m]
    BY DEF Replace
  <2>3. Invalid.st = "Invalid"
    BY DEF Invalid
  <2> QED BY <2>1, <2>2, <2>3 DEF Counted
<1> QED BY <1>1 DEF RowsCounted, Counted, Cached

\* Every lookup keeps the counts (Lookup).
LEMMA RowsLookup ==
  ASSUME TypeOK, RowInv, NEW k \in Banks, Lookup(k)
  PROVE  RowsCounted'
<1>1. PICK x : x = bank[k]
  OBVIOUS
<1>2. PICK l \in Lines : l = LineOf(k)
  BY LineType
<1>3. PICK c \in CachedLines : c = cache[l]
  BY <1>2, LineType
<1>4. /\ x.hold \in Holds /\ x.data \in SUBSET Pos /\ x.mask \in SUBSET Pos
      /\ c.data \in SUBSET Pos /\ c.tcnt \in Int /\ mem[l] \in SUBSET Pos
  BY <1>1, <1>2, <1>3, LineType DEF TypeOK, BanksOK, TagXacts, CachedLines
<1>5. x.state = "MR"
  BY <1>1, LookupToL
<1>6. /\ x.mask \subseteq BitsOf(x.hold)
      /\ x.op = "C" => x.data \cap x.mask # {} \/ l \in InitLines
  BY <1>1, <1>2, <1>5 DEF RowInv, WritesInHold
<1>7. RowsCounted
  BY DEF RowInv
<1>8. CASE UNCHANGED lines
  BY <1>7, <1>8 DEF RowsCounted, Cached, lines
<1>9. CASE HitWrite(k)
  <2> DEFINE new == x.data \cap x.mask
             N == (c.data \ x.mask) \cup new
             d == RowDelta(RowPart(c.data, x.hold), new, x.mask)
  <2>1. cache' = [cache EXCEPT ![l] = [st |-> "Dirty", data |-> N, tcnt |-> c.tcnt + d]]
        /\ Cached(l)
    BY <1>1, <1>2, <1>3, <1>9 DEF HitWrite, InMR
  <2>2. RowCount(N) = RowCount(c.data) + d
    <3>1. new \in SUBSET x.mask
      OBVIOUS
    <3> HIDE DEF new
    <3> QED BY <1>4, <1>6, <3>1, RowsChange
  <2>3. d \in Int /\ RowCount(c.data) \in Int
    BY <1>4, RowCountType DEF RowDelta
  <2>4. Counted(l, c)
    BY <1>3, <1>7, <2>1 DEF RowsCounted, Counted, Cached
  <2> HIDE DEF N, d
  <2>5. Counted(l, [st |-> "Dirty", data |-> N, tcnt |-> c.tcnt + d])
    <3>1. \/ c.tcnt = RowCount(c.data)
          \/ l \in InitLines /\ c.tcnt = RowCount(c.data) + 1
      BY <1>3, <2>1, <2>4 DEF Counted, Cached
    <3>2. \/ c.tcnt + d = RowCount(N)
          \/ l \in InitLines /\ c.tcnt + d = RowCount(N) + 1
      BY <1>4, <2>2, <2>3, <3>1
    <3> QED BY <3>2 DEF Counted
  <2>6. cache'[l] = [st |-> "Dirty", data |-> N, tcnt |-> c.tcnt + d]
        /\ \A m \in Lines : m # l => cache'[m] = cache[m]
    BY <2>1 DEF TypeOK, LinesOK
  <2> QED BY <1>7, <2>5, <2>6 DEF RowsCounted, Counted, Cached
<1>10. CASE HitInvalidate(k)
  <2>1. cache' = [cache EXCEPT ![l] = Invalid]
    BY <1>2, <1>10 DEF HitInvalidate
  <2>2. cache'[l].st = "Invalid" /\ \A m \in Lines : m # l => cache'[m] = cache[m]
    BY <2>1 DEF TypeOK, LinesOK, Invalid
  <2> QED BY <1>7, <2>2 DEF RowsCounted, Cached
<1>11. CASE MissFetch(k)
  <2>1. PICK v, st, new : Replace(l, v, [st |-> st, data |-> new, tcnt |-> RowCount(new)])
    BY <1>2, <1>11 DEF MissFetch
  <2>2. Counted(l, [st |-> st, data |-> new, tcnt |-> RowCount(new)])
    BY DEF Counted
  <2> QED BY <1>7, <2>1, <2>2, RowsReplace
<1>12. CASE MissCreate(k)
  <2> DEFINE new == x.data \cap x.mask
  <2>1. PICK v : Replace(l, v, [st |-> "Dirty", data |-> new, tcnt |-> 1])
    BY <1>1, <1>2, <1>12 DEF MissCreate
  <2>2. x.op = "C"
    BY <1>1, <1>12 DEF MissCreate, InMR
  <2>3. RowCount(new) = IF new = {} THEN 0 ELSE 1
    BY <1>4, <1>6, OneRow
  <2>4. new = {} => l \in InitLines
    BY <1>6, <2>2
  <2> HIDE DEF new
  <2>5. Counted(l, [st |-> "Dirty", data |-> new, tcnt |-> 1])
    BY <2>3, <2>4 DEF Counted
  <2> QED BY <1>7, <2>1, <2>5, RowsReplace
<1> QED
  BY <1>8, <1>9, <1>10, <1>11, <1>12 DEF Lookup, LookupLock, HitRead, MissPass

\* Every step keeps the counts and what they rest on.
LEMMA RowStep ==
  ASSUME TypeOK, RowInv, [Next]_vars
  PROVE  RowInv'
<1> DEFINE InRst == \A k \in Banks : rst[k] \subseteq InitLines
<1>1. TrackersOK /\ BanksOK
  BY DEF TypeOK
<1>2. ASSUME UNCHANGED banks PROVE WritesInHold' /\ InRst'
  BY <1>2 DEF RowInv, WritesInHold, LineOf, banks
<1>3. ASSUME UNCHANGED lines PROVE RowsCounted'
  BY <1>3 DEF RowInv, RowsCounted, Cached, lines
<1>4. ASSUME NEW t \in Mem, NEW b \in Blocks, NEW rw \in BOOLEAN, NEW mask \in SUBSET Bits,
             NEW data \in SUBSET Bits, NEW o \in Orders, Acquire(t, b, rw, mask, data, o)
      PROVE  RowInv'
  <2>1. /\ tc_state'[t] \notin {"TTW", "TM0W", "TM1W"}
        /\ \A u \in Mem : u # t => /\ tc_state'[u] = tc_state[u] /\ xact'[u] = xact[u]
                                   /\ flag'[u] = flag[u] /\ mem_data'[u] = mem_data[u]
    <3>1. o \in 0..2
      BY TagCacheAssumption
    <3>2. StartState(o) \notin {"TTW", "TM0W", "TM1W"}
      BY <3>1 DEF StartState
    <3> QED BY <1>1, <1>4, <3>2 DEF Acquire, TrackersOK
  <2>2. FlagTags'
    BY <2>1 DEF RowInv, FlagTags
  <2> QED BY <1>2, <1>3, <1>4, <2>2 DEF Acquire, RowInv
<1>5. ASSUME NEW t \in Mem, Retire(t)
      PROVE  RowInv'
  <2>1. UNCHANGED tc_state /\ \A u \in Mem : tc_state[u] # "IDLE" =>
          xact'[u] = xact[u] /\ flag'[u] = flag[u] /\ mem_data'[u] = mem_data[u]
    BY <1>1, <1>5 DEF Retire, Cleared, TrackersOK
  <2>2. FlagTags'
    BY <2>1 DEF RowInv, FlagTags
  <2> QED BY <1>2, <1>3, <1>5, <2>2 DEF Retire, RowInv
<1>6. ASSUME NEW k \in Banks, Grant(k)
      PROVE  RowInv'
  <2>1. PICK t \in Mem :
          bank' = [bank EXCEPT ![k] =
                     [state |-> "MR", id |-> t, op |-> OpOf(t), hold |-> HoldOf(t),
                      data |-> DataOf(t), mask |-> MaskOf(t), resp |-> NoResponse]]
    BY <1>6 DEF Grant
  <2>2. /\ bank'[k].op = OpOf(t) /\ bank'[k].hold = HoldOf(t) /\ bank'[k].data = DataOf(t)
        /\ bank'[k].mask = MaskOf(t) /\ \A j \in Banks : j # k => bank'[j] = bank[j]
    BY <1>1, <2>1 DEF BanksOK
  <2>3. /\ MaskOf(t) \subseteq BitsOf(HoldOf(t))
        /\ OpOf(t) = "C" => DataOf(t) \cap MaskOf(t) # {}
    BY <1>1, RequestWrites DEF RowInv
  <2>4. WritesInHold'
    BY <2>2, <2>3 DEF RowInv, WritesInHold, LineOf
  <2>5. FlagTags' /\ InRst'
    BY <1>6 DEF Grant, RowInv, FlagTags
  <2> QED BY <1>3, <1>6, <2>4, <2>5 DEF Grant, RowInv
<1>7. ASSUME NEW k \in Banks, Initiate(k)
      PROVE  RowInv'
  <2>1. PICK h \in Holds, t \in Mem :
          /\ Up[h] \in rst[k]
          /\ rst' = [rst EXCEPT ![k] = @ \ {Up[h]}]
          /\ bank' = [bank EXCEPT ![k] =
                       [state |-> "MR", id |-> t, op |-> "C", hold |-> h,
                        data |-> {}, mask |-> {}, resp |-> NoResponse]]
    BY <1>7 DEF Initiate
  <2>2. Up[h] \in InitLines
    BY <2>1 DEF RowInv
  <2>3. /\ bank'[k].hold = h /\ bank'[k].mask = {}
        /\ \A j \in Banks : j # k => bank'[j] = bank[j]
        /\ \A j \in Banks : rst'[j] \subseteq rst[j]
    BY <1>1, <2>1 DEF BanksOK
  <2>4. WritesInHold' /\ InRst'
    BY <2>2, <2>3 DEF RowInv, WritesInHold, LineOf
  <2>5. FlagTags'
    BY <1>7 DEF Initiate, trackers, RowInv, FlagTags
  <2> QED BY <1>3, <1>7, <2>4, <2>5 DEF Initiate, RowInv
<1>8. ASSUME NEW k \in Banks, Lookup(k)
      PROVE  RowInv'
  <2>1. PICK r : ToL(k, r)
    BY <1>8, LookupToL
  <2>2. bank[k].id \in Mem
    BY <1>1 DEF BanksOK, TagXacts
  <2>3. FlagTags'
    <3>1. CASE Respond(bank[k].id, r)
      BY <1>1, <2>2, <3>1, FlagRespond DEF RowInv
    <3>2. CASE UNCHANGED trackers
      BY <3>2 DEF trackers, RowInv, FlagTags
    <3> QED BY <2>1, <3>1, <3>2 DEF ToL
  <2>4. /\ bank'[k].state = "L" /\ UNCHANGED rst
        /\ \A j \in Banks : j # k => bank'[j] = bank[j]
    BY <1>8, LookupFrame
  <2>5. WritesInHold' /\ InRst'
    BY <2>4 DEF RowInv, WritesInHold, LineOf
  <2> QED BY <1>8, <2>3, <2>5, RowsLookup DEF RowInv
<1>9. ASSUME NEW k \in Banks, Finish(k)
      PROVE  RowInv'
  <2>1. bank[k].id \in Mem
    BY <1>1 DEF BanksOK, TagXacts
  <2>2. FlagTags'
    <3>1. CASE Respond(bank[k].id, bank[k].resp)
      BY <1>1, <2>1, <3>1, FlagRespond DEF RowInv
    <3>2. CASE UNCHANGED trackers
      BY <3>2 DEF trackers, RowInv, FlagTags
    <3> QED BY <1>9, <3>1, <3>2 DEF Finish
  <2>3. /\ bank'[k].state = "IDLE" /\ UNCHANGED rst
        /\ \A j \in Banks : j # k => bank'[j] = bank[j]
    BY <1>1, <1>9 DEF Finish, BanksOK, IdleXact
  <2>4. WritesInHold' /\ InRst'
    BY <2>3 DEF RowInv, WritesInHold, LineOf
  <2> QED BY <1>3, <1>9, <2>2, <2>4 DEF Finish, RowInv
<1>10. CASE Next
  BY <1>4, <1>5, <1>6, <1>7, <1>8, <1>9, <1>10, NextSplit
<1>11. CASE UNCHANGED vars
  <2>1. FlagTags'
    BY <1>11 DEF vars, trackers, RowInv, FlagTags
  <2> QED BY <1>2, <1>3, <1>11, <2>1 DEF vars, RowInv
<1> QED BY <1>10, <1>11

\* The initial states count right: the created lines are empty and counted one.
LEMMA RowInit ==
  ASSUME Init \/ InitCold
  PROVE  RowInv
<1>1. /\ bank = [k \in Banks |-> IdleXact] /\ tc_state = [t \in Mem |-> "IDLE"]
      /\ \A k \in Banks : rst[k] \subseteq InitLines
  BY DEF Init, InitCold, InitIdle
<1>2. RowCount({}) = 0
  <2>1. {Row[p[1]] : p \in {}} = {}
    OBVIOUS
  <2> QED BY <2>1, FS_EmptySet DEF RowCount
<1>3. ASSUME NEW l \in Lines, Cached(l) PROVE l \in InitLines /\ cache[l] = Created
  BY <1>3 DEF Init, InitCold, Cached, Invalid
<1>4. RowsCounted
  BY <1>2, <1>3 DEF RowsCounted, Created
<1>5. FlagTags /\ WritesInHold
  BY <1>1 DEF FlagTags, WritesInHold, IdleXact
<1> QED BY <1>1, <1>4, <1>5 DEF RowInv

\* tcnt counts the non-empty rows of every cached line, one more for a line the initiator
\* created; what the trackers conclude from it (Others) and the assertions of state DR rest on
\* it.
THEOREM RowsAreCounted == Spec \/ SpecCold => []RowsCounted
<1>1. Init \/ InitCold => TypeOK /\ RowInv
  BY TypeInit, RowInit
<1>2. TypeOK /\ RowInv /\ [Next]_vars => TypeOK' /\ RowInv'
  BY TypeStep, RowStep
<1>3. RowInv => RowsCounted
  BY DEF RowInv
<1> QED
  BY <1>1, <1>2, <1>3, PTL DEF Spec, SpecCold
=============================================================================
