-------------------------- MODULE TagCacheDataProofs --------------------------
(***************************************************************************)
(* What the tag cache holds: for any number of trackers, banks, blocks and *)
(* lines the tags a search returns are those last written, every search    *)
(* order finds them, and the tag cache implements the tagged memory,       *)
(* whenever the search race of three levels with AEA cannot happen.        *)
(***************************************************************************)
EXTENDS TagCacheProofs

-----------------------------------------------------------------------------
(***************************************************************************)
(* Control: what the trackers, the banks and the lock table guarantee each *)
(* other.                                                                  *)
(***************************************************************************)
Base == TypeOK /\ HandshakeInv /\ LockInv /\ RowInv

\* At most one open transaction works on a block (tl_acq_alloc).
OpenApart ==
  \A u, v \in Mem : u # v /\ tl_block(u) /\ tl_block(v) => xact[u].blk # xact[v].blk

HasLock(u, h) ==
  \E s \in Slots : lock_vec[s].lock /\ lock_vec[s].id = u /\ lock_vec[s].hold = h

\* Every lock an update relies on is in the table.
LockTaken == \A u \in Mem, h \in Holds : Held(u, h) => HasLock(u, h)

\* A posted unlock is of a lock its tracker no longer relies on.
Unlocking == \A j \in Banks, u \in Mem, h \in Holds : Posted(j, u, h) => ~ Held(u, h)

\* While a bank executes a request about a map bit nobody else holds its lock.
Permitted ==
  \A k \in Banks :
    bank[k].state # "IDLE" /\ is_map(bank[k].hold) =>
      \A s \in Slots :
        lock_vec[s].lock /\ Clash(lock_vec[s].hold, bank[k].hold)
          => lock_vec[s].id = bank[k].id

\* A bank writes what its tracker, which waits, asks for.
ReqData ==
  \A k \in Banks :
    bank[k].state = "MR" => /\ bank[k].data = DataOf(bank[k].id)
                            /\ bank[k].mask = MaskOf(bank[k].id)

ControlInv == OpenApart /\ LockTaken /\ Unlocking /\ Permitted /\ ReqData

\* The registers of tracker u do not change.
Same(u) ==
  /\ tc_state'[u] = tc_state[u] /\ tc_req_sent'[u] = tc_req_sent[u]
  /\ xact'[u] = xact[u] /\ mem_data'[u] = mem_data[u] /\ flag'[u] = flag[u]

\* What a response does to the trackers (Respond).
LEMMA RespondFacts ==
  ASSUME TrackersOK, NEW t \in Mem, NEW r, Respond(t, r)
  PROVE  /\ UNCHANGED mt_state
         /\ tc_state'[t] = NextTcState(t, r)
         /\ tc_req_sent'[t] = FALSE
         /\ \A u \in Mem : u # t => Same(u)
         /\ tc_state'[t] # "IDLE" \/ mt_state[t] # "IDLE" =>
              /\ xact'[t] = xact[t]
              /\ mem_data'[t] = NextMemData(t, r)
              /\ flag'[t] = NextFlag(t, r)
         /\ tc_state'[t] = "IDLE" /\ mt_state[t] = "IDLE" =>
              /\ xact'[t] = NoBlock /\ mem_data'[t] = {} /\ flag'[t] = ResetFlags
<1>1. tc_state'[t] = NextTcState(t, r) /\ tc_req_sent'[t] = FALSE /\ UNCHANGED mt_state
  BY DEF Respond, TrackersOK
<1>2. CASE NextTcState(t, r) = "IDLE" /\ mt_state[t] = "IDLE"
  <2>1. Cleared(t)
    BY <1>2 DEF Respond
  <2>2. \A u \in Mem : u # t => Same(u)
    BY <2>1 DEF Respond, Cleared, TrackersOK, Same
  <2>3. xact'[t] = NoBlock /\ mem_data'[t] = {} /\ flag'[t] = ResetFlags
    BY <2>1 DEF Cleared, TrackersOK
  <2> QED BY <1>1, <1>2, <2>2, <2>3
<1>3. CASE ~ (NextTcState(t, r) = "IDLE" /\ mt_state[t] = "IDLE")
  <2>1. /\ mem_data' = [mem_data EXCEPT ![t] = NextMemData(t, r)]
        /\ flag' = [flag EXCEPT ![t] = NextFlag(t, r)]
        /\ UNCHANGED xact
    BY <1>3 DEF Respond
  <2>2. \A u \in Mem : u # t => Same(u)
    BY <2>1 DEF Respond, TrackersOK, Same
  <2> QED BY <1>1, <1>3, <2>1, <2>2 DEF TrackersOK
<1> QED BY <1>2, <1>3

Searches == {"TTR", "TM0R", "TM1F", "TM0F", "TTF"}

\* Where a search leads (NextTcState).
LEMMA SearchStates ==
  ASSUME NEW t \in Mem, NEW r, tc_state[t] \in Searches
  PROVE  NextTcState(t, r) \in {"TM0R", "TM0F", "TM1F", "TTF", FirstLock, "IDLE"}
BY DEF Searches, NextTcState, Found

\* The states by kind (TcStates).
LEMMA StateKinds ==
  ASSUME TrackersOK, NEW t \in Mem
  PROVE  /\ tc_state[t] \in {"IDLE", "TM1L", "TM0L", "TTL", "TTW", "TM0W", "TM1W"} \cup Searches
         /\ tc_state[t] \in {"TTR", "TM0F", "TM0L", "TM0W"} => NLevel > 1
         /\ tc_state[t] \in {"TM0R", "TM1F", "TM1L", "TM1W"} => NLevel > 2
<1>1. tc_state[t] \in TcStates
  BY DEF TrackersOK
<1>2. NLevel \in 1..3
  BY TagCacheAssumption
<1> QED BY <1>1, <1>2 DEF TcStates, TM1_states, Searches

\* The first lock of an update is that of the top level (FirstLock).
LEMMA FirstLockIs ==
  /\ NLevel = 3 => FirstLock = "TM1L"
  /\ NLevel = 2 => FirstLock = "TM0L"
  /\ NLevel = 1 => FirstLock = "TTL"
  /\ NLevel \in {1, 2, 3}
<1>1. NLevel \in {1, 2, 3}
  BY TagCacheAssumption
<1> QED BY <1>1 DEF FirstLock

\* A response makes a tracker hold a lock only if it is the one it asked for, and releases the
\* one it writes (Respond).
LEMMA HeldAfter ==
  ASSUME TrackersOK, NEW t \in Mem, NEW r, Respond(t, r), NEW h \in Holds, Held(t, h)'
  PROVE  /\ \/ Held(t, h)
            \/ tc_state[t] \in {"TM1L", "TM0L"} /\ HoldOf(t) = h
         /\ tc_state[t] \in {"TM0W", "TM1W"} => h # HoldOf(t)
<1> DEFINE b == xact[t].blk
<1>1. b \in Blocks
  BY DEF TrackersOK
<1>2. /\ tc_state'[t] = NextTcState(t, r)
      /\ tc_state'[t] # "IDLE" => xact'[t] = xact[t]
  BY RespondFacts
<1>3. tc_state'[t] \in {"TM0L", "TTL", "TTW", "TM0W", "TM1W"} /\ xact'[t] = xact[t]
  BY <1>2 DEF Held, HeldTM0, HeldTM1
<1>4. NLevel # 1
  <2>1. NLevel = 1 => h \in Blocks
    BY DEF Holds
  <2>2. NLevel = 1 => h = Up[b]
    BY <1>3 DEF Held, HeldTM0, HeldTM1
  <2> QED BY <1>1, <2>1, <2>2, UpFacts
<1>5. CASE tc_state[t] \in Searches
  <2>1. NLevel = 2 /\ tc_state'[t] = "TM0L"
    BY <1>2, <1>3, <1>4, <1>5, SearchStates, FirstLockIs
  <2> QED BY <2>1 DEF Held, HeldTM0, HeldTM1
<1>6. CASE tc_state[t] = "TM1L"
  <2>1. tc_state'[t] = "TM0L" /\ HoldOf(t) = Up[Up[b]]
    BY <1>2, <1>6, UpdateStates DEF HoldOf, TM1_states, TM0_states
  <2> QED BY <1>3, <1>6, <2>1 DEF Held, HeldTM0, HeldTM1
<1>7. CASE tc_state[t] = "TM0L"
  <2>1. tc_state'[t] = "TTL" /\ HoldOf(t) = Up[b]
    BY <1>2, <1>7, UpdateStates DEF HoldOf, TM1_states, TM0_states
  <2> QED BY <1>3, <1>7, <2>1 DEF Held, HeldTM0, HeldTM1
<1>8. CASE tc_state[t] = "TTL"
  <2>1. tc_state'[t] = "TTW"
    BY <1>2, <1>8, UpdateStates
  <2> QED BY <1>3, <1>8, <2>1 DEF Held, HeldTM0, HeldTM1
<1>9. CASE tc_state[t] = "TTW"
  <2>1. tc_state'[t] = "TM0W"
    BY <1>2, <1>3, <1>9, UpdateStates
  <2> QED BY <1>3, <1>9, <2>1 DEF Held, HeldTM0, HeldTM1
<1>10. CASE tc_state[t] = "TM0W"
  <2>1. tc_state'[t] = "TM1W" /\ HoldOf(t) = Up[b]
    BY <1>2, <1>3, <1>10, UpdateStates DEF HoldOf, TM1_states, TM0_states
  <2>2. NLevel > 2 /\ h = Up[Up[b]]
    BY <1>3, <2>1 DEF Held, HeldTM0, HeldTM1
  <2> QED BY <1>1, <1>3, <1>10, <2>1, <2>2, UpFacts, TagCacheAssumption DEF Held, HeldTM1
<1>11. CASE tc_state[t] \in {"TM1W", "IDLE"}
  BY <1>2, <1>3, <1>11 DEF NextTcState
<1> QED BY <1>5, <1>6, <1>7, <1>8, <1>9, <1>10, <1>11, StateKinds

\* What a bank owes is the answer to its tracker's present request.
LEMMA AtBank ==
  ASSUME Base, NEW k \in Banks, Owes(k, bank[k].id)
  PROVE  /\ bank[k].id \in Mem /\ bank[k].hold \in Holds /\ bank[k].state # "IDLE"
         /\ tc_state[bank[k].id] # "IDLE" /\ tc_req_sent[bank[k].id]
         /\ bank[k].op = OpOf(bank[k].id) /\ bank[k].hold = HoldOf(bank[k].id)
         /\ BankOf[LineOf(k)] = k
<1>1. bank[k].id \in Mem /\ bank[k].hold \in Holds
  BY DEF Base, TypeOK, BanksOK, TagXacts
<1>2. bank[k].state # "IDLE"
  BY DEF Owes
<1> QED BY <1>1, <1>2 DEF Base, HandshakeInv, ResponseExpected, BankHome

\* A lookup answers a write (Lookup, ToL).
LEMMA LookupEffect ==
  ASSUME Base, NEW k \in Banks, Lookup(k)
  PROVE  /\ bank[k].state = "MR" /\ Owes(k, bank[k].id)
         /\ bank'[k].state = "L" /\ bank'[k].id = bank[k].id /\ bank'[k].op = bank[k].op
         /\ bank'[k].hold = bank[k].hold
         /\ \A j \in Banks : j # k => bank'[j] = bank[j]
         /\ UNCHANGED <<lock_vec, last_grant, tags, rst>>
         /\ isWrite(bank[k].op) => \E r : Respond(bank[k].id, r)
         /\ ~ isWrite(bank[k].op) => UNCHANGED trackers
<1>1. PICK r : ToL(k, r)
  BY LookupToL
<1>2. bank[k].state = "MR"
  BY LookupToL
<1>3. /\ bank'[k].state = "L" /\ bank'[k].id = bank[k].id /\ bank'[k].op = bank[k].op
      /\ bank'[k].hold = bank[k].hold
      /\ \A j \in Banks : j # k => bank'[j] = bank[j]
  BY LookupFrame DEF Base
<1>4. Owes(k, bank[k].id)
  BY <1>2 DEF Owes
<1>5. rst[k] = {}
  BY DEF Base, HandshakeInv, Initiated
<1> QED BY <1>1, <1>2, <1>3, <1>4, <1>5 DEF ToL

\* The end of a transaction answers everything but a write (Finish).
LEMMA FinishEffect ==
  ASSUME Base, NEW k \in Banks, Finish(k)
  PROVE  /\ bank[k].state = "L" /\ bank'[k].state = "IDLE"
         /\ \A j \in Banks : j # k => bank'[j] = bank[j]
         /\ UNCHANGED <<lines, last_grant, tags, rst>>
         /\ LockUpdate(k)
         /\ bank[k].id \in Mem /\ bank[k].hold \in Holds /\ BankOf[LineOf(k)] = k
         /\ ~ isWrite(bank[k].op) =>
              Owes(k, bank[k].id) /\ Respond(bank[k].id, bank[k].resp)
         /\ isWrite(bank[k].op) => UNCHANGED trackers
<1>1. bank[k].state = "L" /\ LockUpdate(k) /\ bank' = [bank EXCEPT ![k] = IdleXact]
      /\ UNCHANGED <<last_grant, rst, lines, tags>>
  BY DEF Finish
<1>2. bank'[k].state = "IDLE" /\ \A j \in Banks : j # k => bank'[j] = bank[j]
  BY <1>1 DEF Base, TypeOK, BanksOK, IdleXact
<1>3. bank[k].id \in Mem /\ bank[k].hold \in Holds /\ BankOf[LineOf(k)] = k
  BY <1>1 DEF Base, TypeOK, BanksOK, TagXacts, HandshakeInv, BankHome
<1>4. ~ isWrite(bank[k].op) => Owes(k, bank[k].id) /\ Respond(bank[k].id, bank[k].resp)
  BY <1>1 DEF Finish, Owes
<1>5. isWrite(bank[k].op) => UNCHANGED trackers
  BY DEF Finish
<1> QED BY <1>1, <1>2, <1>3, <1>4, <1>5

\* What a grant does (Grant).
LEMMA GrantEffect ==
  ASSUME Base, NEW k \in Banks, Grant(k)
  PROVE  \E t \in Mem :
           /\ Chosen(k, t) /\ bank[k].state = "IDLE"
           /\ bank'[k].state = "MR" /\ bank'[k].id = t /\ bank'[k].op = OpOf(t)
           /\ bank'[k].hold = HoldOf(t) /\ bank'[k].data = DataOf(t)
           /\ bank'[k].mask = MaskOf(t)
           /\ \A j \in Banks : j # k => bank'[j] = bank[j]
           /\ tc_req_sent' = [tc_req_sent EXCEPT ![t] = TRUE]
           /\ last_grant' = [last_grant EXCEPT ![k] = t]
           /\ UNCHANGED <<mt_state, tc_state, xact, mem_data, flag, lock_vec, lines, tags>>
<1>1. PICK t \in Mem :
        /\ Chosen(k, t)
        /\ bank' = [bank EXCEPT ![k] =
                     [state |-> "MR", id |-> t, op |-> OpOf(t), hold |-> HoldOf(t),
                      data |-> DataOf(t), mask |-> MaskOf(t), resp |-> NoResponse]]
        /\ tc_req_sent' = [tc_req_sent EXCEPT ![t] = TRUE]
        /\ last_grant' = [last_grant EXCEPT ![k] = t]
  BY DEF Grant
<1>2. bank \in [Banks -> TagXacts]
  BY DEF Base, TypeOK, BanksOK
<1>3. /\ bank'[k].state = "MR" /\ bank'[k].id = t /\ bank'[k].op = OpOf(t)
      /\ bank'[k].hold = HoldOf(t) /\ bank'[k].data = DataOf(t)
      /\ bank'[k].mask = MaskOf(t)
      /\ \A j \in Banks : j # k => bank'[j] = bank[j]
  BY <1>1, <1>2
<1>4. /\ bank[k].state = "IDLE"
      /\ UNCHANGED <<mt_state, tc_state, xact, mem_data, flag, lock_vec, lines, tags>>
  BY DEF Grant
<1> QED BY <1>1, <1>3, <1>4

\* What a tracker asks for depends on its registers only (DataOf, MaskOf).
LEMMA DataFrame ==
  ASSUME NEW u \in Mem, tc_state'[u] = tc_state[u], xact'[u] = xact[u],
         flag'[u] = flag[u], mem_data'[u] = mem_data[u]
  PROVE  DataOf(u)' = DataOf(u) /\ MaskOf(u)' = MaskOf(u)
<1>1. HoldOf(u)' = HoldOf(u)
  BY RequestFrame
<1> QED BY <1>1 DEF DataOf, MaskOf

\* Steps of a tracker that leave its searches and updates alone (Acquire, Retire).
LEMMA ControlOfTracker ==
  ASSUME Base, ControlInv, UNCHANGED <<bank, lock_vec>>, OpenApart',
         \A u \in Mem : tc_state[u] # "IDLE" => Same(u),
         \A u \in Mem : tc_state[u] = "IDLE" => tc_state'[u] \in {"IDLE"} \cup Searches
  PROVE  ControlInv'
<1>1. \A u \in Mem, h \in Holds : Held(u, h)' <=> Held(u, h)
  BY DEF Held, HeldTM0, HeldTM1, Same, Searches
<1>2. LockTaken' /\ Unlocking' /\ Permitted'
  BY <1>1 DEF ControlInv, LockTaken, Unlocking, Permitted, HasLock, Posted
<1>3. ReqData'
  <2>1. ASSUME NEW k \in Banks, bank[k].state = "MR"
        PROVE  bank[k].data = DataOf(bank[k].id)' /\ bank[k].mask = MaskOf(bank[k].id)'
    <3>1. bank[k].id \in Mem /\ tc_state[bank[k].id] # "IDLE"
      BY <2>1, AtBank DEF Owes
    <3>2. DataOf(bank[k].id)' = DataOf(bank[k].id) /\ MaskOf(bank[k].id)' = MaskOf(bank[k].id)
      BY <3>1, DataFrame DEF Same
    <3> QED BY <2>1, <3>2 DEF ControlInv, ReqData
  <2> QED BY <2>1 DEF ReqData
<1> QED BY <1>2, <1>3 DEF ControlInv

\* A bank takes a request (Grant).
LEMMA ControlGrant ==
  ASSUME Base, ControlInv, NEW k \in Banks, Grant(k)
  PROVE  ControlInv'
<1>1. PICK t \in Mem :
        /\ Chosen(k, t) /\ bank[k].state = "IDLE"
        /\ bank'[k].state = "MR" /\ bank'[k].id = t
        /\ bank'[k].hold = HoldOf(t) /\ bank'[k].data = DataOf(t)
        /\ bank'[k].mask = MaskOf(t)
        /\ \A j \in Banks : j # k => bank'[j] = bank[j]
        /\ UNCHANGED <<mt_state, tc_state, xact, mem_data, flag, lock_vec>>
  BY GrantEffect
<1>2. Unblocked(t)
  BY <1>1 DEF Chosen, Requests
<1>3. OpenApart'
  BY <1>1 DEF ControlInv, OpenApart, tl_block
<1>4. \A u \in Mem, h \in Holds : Held(u, h)' <=> Held(u, h)
  BY <1>1 DEF Held, HeldTM0, HeldTM1
<1>5. LockTaken' /\ Unlocking'
  BY <1>1, <1>4 DEF ControlInv, LockTaken, Unlocking, HasLock, Posted
<1>6. Permitted'
  <2>1. ASSUME NEW j \in Banks, bank'[j].state # "IDLE", is_map(bank'[j].hold), NEW s \in Slots,
               lock_vec[s].lock, Clash(lock_vec[s].hold, bank'[j].hold)
        PROVE  lock_vec[s].id = bank'[j].id
    <3>1. CASE j = k
      BY <1>1, <1>2, <2>1, <3>1 DEF Unblocked
    <3>2. CASE j # k
      BY <1>1, <2>1, <3>2 DEF ControlInv, Permitted
    <3> QED BY <3>1, <3>2
  <2> QED BY <1>1, <2>1 DEF Permitted
<1>7. ReqData'
  <2>1. \A u \in Mem : DataOf(u)' = DataOf(u) /\ MaskOf(u)' = MaskOf(u)
    BY <1>1, DataFrame
  <2>2. \A j \in Banks : bank[j].id \in Mem
    BY DEF Base, TypeOK, BanksOK, TagXacts
  <2> QED BY <1>1, <2>1, <2>2 DEF ControlInv, ReqData
<1> QED BY <1>3, <1>5, <1>6, <1>7 DEF ControlInv

\* A response ends transactions, it starts none (Respond).
LEMMA OpenAnswer ==
  ASSUME TrackersOK, OpenApart, NEW t \in Mem, NEW r, Respond(t, r), tc_state[t] # "IDLE"
  PROVE  OpenApart'
<1>1. ASSUME NEW u \in Mem, tl_block(u)'
      PROVE  tl_block(u) /\ xact'[u] = xact[u]
  <2>1. CASE u = t
    <3>1. tc_state'[t] # "IDLE" \/ mt_state[t] # "IDLE"
      BY <1>1, <2>1, RespondFacts DEF tl_block
    <3> QED BY <2>1, <3>1, RespondFacts DEF tl_block
  <2>2. CASE u # t
    BY <1>1, <2>2, RespondFacts DEF tl_block, Same
  <2> QED BY <2>1, <2>2
<1> QED BY <1>1 DEF OpenApart

\* A response leaves the requests of the other trackers alone (Respond).
LEMMA ReqDataAnswer ==
  ASSUME Base, ReqData, NEW k \in Banks, NEW r, Owes(k, bank[k].id), Respond(bank[k].id, r),
         bank'[k].state # "MR", \A j \in Banks : j # k => bank'[j] = bank[j]
  PROVE  ReqData'
<1> DEFINE t == bank[k].id
<1>1. t \in Mem /\ TrackersOK /\ bank[k].hold = HoldOf(t) /\ BankOf[LineOf(k)] = k
  BY AtBank DEF Base, TypeOK
<1>2. ASSUME NEW j \in Banks, NEW i \in Mem, bank'[j].state = "MR", bank'[j].id = i
      PROVE  bank'[j].data = DataOf(i)' /\ bank'[j].mask = MaskOf(i)'
  <2>1. j # k /\ bank'[j] = bank[j] /\ bank[j].state = "MR" /\ bank[j].id = i
    BY <1>2
  <2>2. Owes(j, bank[j].id)
    BY <2>1 DEF Owes
  <2>3. bank[j].hold = HoldOf(i) /\ BankOf[LineOf(j)] = j
    BY <2>1, <2>2, AtBank
  <2>4. i # t
    BY <1>1, <2>1, <2>3 DEF LineOf
  <2>5. Same(i)
    BY <1>1, <2>4, RespondFacts
  <2>6. DataOf(i)' = DataOf(i) /\ MaskOf(i)' = MaskOf(i)
    BY <2>5, DataFrame DEF Same
  <2> QED BY <2>1, <2>6 DEF ReqData
<1>3. \A j \in Banks : bank'[j].state = "MR" => bank'[j].id \in Mem
  BY DEF Base, TypeOK, BanksOK, TagXacts
<1> QED BY <1>2, <1>3 DEF ReqData

\* A lookup answers a write and posts its unlock (Lookup).
LEMMA ControlLookup ==
  ASSUME Base, ControlInv, NEW k \in Banks, Lookup(k)
  PROVE  ControlInv'
<1> DEFINE t == bank[k].id
<1>1. /\ bank[k].state = "MR" /\ Owes(k, t)
      /\ bank'[k].state = "L" /\ bank'[k].id = t /\ bank'[k].op = bank[k].op
      /\ bank'[k].hold = bank[k].hold
      /\ \A j \in Banks : j # k => bank'[j] = bank[j]
      /\ UNCHANGED lock_vec
  BY LookupEffect
<1>2. /\ t \in Mem /\ bank[k].hold = HoldOf(t) /\ bank[k].op = OpOf(t)
      /\ tc_state[t] # "IDLE" /\ TrackersOK
  BY <1>1, AtBank DEF Base, TypeOK
<1>3. Permitted'
  BY <1>1 DEF ControlInv, Permitted
<1>4. CASE ~ isWrite(bank[k].op)
  <2>1. UNCHANGED <<mt_state, tc_state, tc_req_sent, xact, mem_data, flag>>
    BY <1>4, LookupEffect DEF trackers
  <2>2. OpenApart'
    BY <2>1 DEF ControlInv, OpenApart, tl_block
  <2>3. \A u \in Mem, h \in Holds : Held(u, h)' <=> Held(u, h)
    BY <2>1 DEF Held, HeldTM0, HeldTM1
  <2>4. \A j \in Banks, u \in Mem, h \in Holds : Posted(j, u, h)' => Posted(j, u, h)
    BY <1>1, <1>4 DEF Posted
  <2>5. LockTaken' /\ Unlocking'
    BY <1>1, <2>3, <2>4 DEF ControlInv, LockTaken, Unlocking, HasLock
  <2>6. ReqData'
    <3>1. \A u \in Mem : DataOf(u)' = DataOf(u) /\ MaskOf(u)' = MaskOf(u)
      BY <2>1, DataFrame
    <3>2. \A j \in Banks : bank[j].id \in Mem
      BY DEF Base, TypeOK, BanksOK, TagXacts
    <3> QED BY <1>1, <3>1, <3>2 DEF ControlInv, ReqData
  <2> QED BY <1>3, <2>2, <2>5, <2>6 DEF ControlInv
<1>5. CASE isWrite(bank[k].op)
  <2>1. PICK r : Respond(t, r)
    BY <1>5, LookupEffect
  <2>2. tc_state[t] \in {"TTW", "TM0W", "TM1W"}
    BY <1>2, <1>5, OpStates
  <2>3. OpenApart'
    BY <1>2, <2>1, OpenAnswer DEF ControlInv
  <2>4. ReqData'
    BY <1>1, <2>1, ReqDataAnswer DEF ControlInv
  <2>5. ASSUME NEW u \in Mem, NEW h \in Holds, Held(u, h)'
        PROVE  Held(u, h)
    <3>1. CASE u = t
      BY <1>2, <2>1, <2>2, <2>5, <3>1, HeldAfter
    <3>2. CASE u # t
      <4>1. Same(u)
        BY <1>2, <2>1, <3>2, RespondFacts
      <4> QED BY <2>5, <4>1 DEF Same, Held, HeldTM0, HeldTM1
    <3> QED BY <3>1, <3>2
  <2>6. LockTaken'
    BY <1>1, <2>5 DEF ControlInv, LockTaken, HasLock
  <2>7. Unlocking'
    <3>1. ASSUME NEW j \in Banks, NEW u \in Mem, NEW h \in Holds, Posted(j, u, h)', Held(u, h)'
          PROVE  FALSE
      <4>1. CASE j # k
        BY <1>1, <2>5, <3>1, <4>1 DEF ControlInv, Unlocking, Posted
      <4>2. CASE j = k
        <5>1. u = t /\ h = HoldOf(t)
          BY <1>1, <1>2, <3>1, <4>2 DEF Posted
        <5>2. tc_state[t] = "TTW"
          BY <1>2, <2>1, <2>2, <3>1, <5>1, HeldAfter
        <5>3. h \in Blocks
          BY <1>2, <5>1, <5>2 DEF HoldOf, TM0_states, TM1_states, TrackersOK
        <5>4. Held(u, h) /\ xact[u].blk \in Blocks
          BY <1>2, <2>5, <3>1 DEF TrackersOK
        <5> QED BY <5>3, <5>4, UpFacts DEF Held, HeldTM0, HeldTM1
      <4> QED BY <4>1, <4>2
    <3> QED BY <3>1 DEF Unlocking
  <2> QED BY <1>3, <2>3, <2>4, <2>6, <2>7 DEF ControlInv
<1> QED BY <1>4, <1>5

\* What the end of a transaction does to the lock table (LockUpdate).
LEMMA LockEffect ==
  ASSUME Base, NEW k \in Banks, LockUpdate(k), bank[k].id \in Mem, bank[k].hold \in Holds
  PROVE  /\ \A s \in Slots : lock_vec'[s].lock => \/ lock_vec'[s] = lock_vec[s]
                                                  \/ /\ isLock(bank[k].op) /\ is_map(bank[k].hold)
                                                     /\ lock_vec'[s].id = bank[k].id
                                                     /\ lock_vec'[s].hold = bank[k].hold
         /\ isLock(bank[k].op) /\ is_map(bank[k].hold) =>
              /\ \A u, h : HasLock(u, h) => HasLock(u, h)'
              /\ \A u, h : u = bank[k].id /\ h = bank[k].hold => HasLock(u, h)'
         /\ ~ is_map(bank[k].hold) => UNCHANGED lock_vec
         /\ \A u, h : HasLock(u, h) /\ ~ (u = bank[k].id /\ h = bank[k].hold) => HasLock(u, h)'
<1> DEFINE x == bank[k]
<1>1. lock_vec \in [Slots -> [lock : BOOLEAN, id : Mem, hold : Holds]]
  BY DEF Base, TypeOK, LocksOK
<1>2. CASE ~ is_map(x.hold)
  BY <1>2 DEF LockUpdate, HasLock
<1>3. CASE is_map(x.hold) /\ isLock(x.op)
  <2>1. PICK s \in Slots :
          /\ Free(s)
          /\ lock_vec' = [lock_vec EXCEPT ![s] = [lock |-> TRUE, id |-> x.id, hold |-> x.hold]]
    BY <1>3 DEF LockUpdate
  <2>2. /\ lock_vec'[s].lock /\ lock_vec'[s].id = x.id /\ lock_vec'[s].hold = x.hold
        /\ \A r \in Slots : r # s => lock_vec'[r] = lock_vec[r]
        /\ ~ lock_vec[s].lock
    BY <1>1, <2>1 DEF Free
  <2>3. ASSUME NEW u, NEW h, HasLock(u, h) PROVE HasLock(u, h)'
    BY <2>2, <2>3 DEF HasLock
  <2>4. ASSUME NEW u, NEW h, u = x.id, h = x.hold PROVE HasLock(u, h)'
    BY <2>2, <2>4 DEF HasLock
  <2> QED BY <1>3, <2>2, <2>3, <2>4
<1>4. CASE is_map(x.hold) /\ ~ isLock(x.op)
  <2>1. lock_vec' = [s \in Slots |->
                      IF lock_vec[s].id = x.id /\ lock_vec[s].hold = x.hold
                      THEN NoLock ELSE lock_vec[s]]
    BY <1>4 DEF LockUpdate
  <2>2. \A s \in Slots : lock_vec'[s].lock => lock_vec'[s] = lock_vec[s]
    BY <2>1 DEF NoLock
  <2>3. ASSUME NEW u, NEW h, HasLock(u, h), ~ (u = x.id /\ h = x.hold)
        PROVE  HasLock(u, h)'
    BY <2>1, <2>3 DEF HasLock
  <2> QED BY <1>4, <2>2, <2>3
<1> QED BY <1>2, <1>3, <1>4

\* The end of a transaction enters or removes its lock (Finish).
LEMMA ControlFinish ==
  ASSUME Base, ControlInv, NEW k \in Banks, Finish(k)
  PROVE  ControlInv'
<1> DEFINE t == bank[k].id
           g == bank[k].hold
<1>1. /\ bank[k].state = "L" /\ bank'[k].state = "IDLE"
      /\ \A j \in Banks : j # k => bank'[j] = bank[j]
      /\ LockUpdate(k) /\ t \in Mem /\ g \in Holds /\ BankOf[Up[g]] = k
  BY FinishEffect DEF LineOf
<1>2. TrackersOK /\ \A j \in Banks : bank[j].hold \in Holds /\ bank[j].id \in Mem
  BY DEF Base, TypeOK, BanksOK, TagXacts
<1>3. \A j \in Banks : j # k /\ bank[j].state # "IDLE" => Up[bank[j].hold] # Up[g]
  BY <1>1 DEF Base, HandshakeInv, BankHome, LineOf
<1>4. Permitted'
  <2>1. ASSUME NEW j \in Banks, bank'[j].state # "IDLE", is_map(bank'[j].hold), NEW s \in Slots,
               lock_vec'[s].lock, Clash(lock_vec'[s].hold, bank'[j].hold)
        PROVE  lock_vec'[s].id = bank'[j].id
    <3>1. j # k /\ bank'[j] = bank[j]
      BY <1>1, <2>1
    <3>2. CASE lock_vec'[s] = lock_vec[s]
      BY <2>1, <3>1, <3>2 DEF ControlInv, Permitted
    <3>3. CASE lock_vec'[s].hold = g
      BY <1>1, <1>2, <1>3, <2>1, <3>1, <3>3, ClashFacts
    <3> QED BY <1>1, <2>1, <3>2, <3>3, LockEffect
  <2> QED BY <2>1 DEF Permitted
<1>5. CASE isWrite(bank[k].op)
  <2>1. UNCHANGED <<mt_state, tc_state, tc_req_sent, xact, mem_data, flag>>
    BY <1>5, FinishEffect DEF trackers
  <2>2. OpenApart'
    BY <2>1 DEF ControlInv, OpenApart, tl_block
  <2>3. \A u \in Mem, h \in Holds : Held(u, h)' <=> Held(u, h)
    BY <2>1 DEF Held, HeldTM0, HeldTM1
  <2>4. Posted(k, t, g)
    BY <1>1, <1>5 DEF Posted
  <2>5. ASSUME NEW u \in Mem, NEW h \in Holds, Held(u, h)
        PROVE  HasLock(u, h)'
    <3>1. HasLock(u, h) /\ ~ (u = t /\ h = g)
      BY <1>1, <2>4, <2>5 DEF ControlInv, LockTaken, Unlocking
    <3> QED BY <1>1, <3>1, LockEffect
  <2>6. LockTaken' /\ Unlocking'
    BY <1>1, <2>3, <2>5 DEF ControlInv, LockTaken, Unlocking, Posted
  <2>7. ReqData'
    <3>1. \A u \in Mem : DataOf(u)' = DataOf(u) /\ MaskOf(u)' = MaskOf(u)
      BY <2>1, DataFrame
    <3> QED BY <1>1, <1>2, <3>1 DEF ControlInv, ReqData
  <2> QED BY <1>4, <2>2, <2>6, <2>7 DEF ControlInv
<1>6. CASE ~ isWrite(bank[k].op)
  <2>1. Owes(k, t) /\ Respond(t, bank[k].resp)
    BY <1>6, FinishEffect
  <2>2. tc_state[t] # "IDLE" /\ bank[k].op = OpOf(t) /\ g = HoldOf(t)
    BY <2>1, AtBank
  <2>3. OpenApart'
    BY <1>1, <1>2, <2>1, <2>2, OpenAnswer DEF ControlInv
  <2>4. ReqData'
    BY <1>1, <2>1, ReqDataAnswer DEF ControlInv
  <2>5. ASSUME NEW u \in Mem, NEW h \in Holds, Held(u, h)'
        PROVE  \/ Held(u, h) /\ (u = t => tc_state[t] \notin {"TM0W", "TM1W"} \/ h # g)
               \/ u = t /\ h = g /\ tc_state[t] \in {"TM1L", "TM0L"}
    <3>1. CASE u = t
      BY <1>1, <1>2, <2>1, <2>2, <2>5, <3>1, HeldAfter
    <3>2. CASE u # t
      <4>1. Same(u)
        BY <1>1, <1>2, <2>1, <3>2, RespondFacts
      <4> QED BY <2>5, <3>2, <4>1 DEF Same, Held, HeldTM0, HeldTM1
    <3> QED BY <3>1, <3>2
  <2>6. ASSUME NEW u \in Mem, NEW h \in Holds, Held(u, h)'
        PROVE  HasLock(u, h)'
    <3>1. CASE u = t /\ h = g /\ tc_state[t] \in {"TM1L", "TM0L"}
      <4>1. isLock(bank[k].op)
        BY <1>1, <1>2, <2>2, <3>1, OpStates
      <4>2. is_map(g)
        <5>1. xact[t].blk \in Blocks
          BY <1>1, <1>2 DEF TrackersOK
        <5>2. tc_state[t] = "TM1L" => NLevel > 2
          BY <1>1, <1>2, StateKinds
        <5> QED BY <2>2, <3>1, <5>1, <5>2, UpFacts DEF is_map, HoldOf, TM0_states, TM1_states
      <4> QED BY <1>1, <3>1, <4>1, <4>2, LockEffect
    <3>2. CASE Held(u, h) /\ (u = t => tc_state[t] \notin {"TM0W", "TM1W"} \/ h # g)
      <4>1. HasLock(u, h)
        BY <3>2 DEF ControlInv, LockTaken
      <4>2. CASE ~ (u = t /\ h = g)
        BY <1>1, <4>1, <4>2, LockEffect
      <4>3. CASE u = t /\ h = g
        <5>1. tc_state[t] \in {"TM0L", "TTL", "TTW"}
          BY <3>2, <4>3 DEF Held, HeldTM0, HeldTM1
        <5>2. CASE isLock(bank[k].op)
          BY <1>1, <4>1, <5>2, LockEffect DEF HasLock
        <5>3. CASE ~ isLock(bank[k].op)
          <6>1. tc_state[t] = "TTW"
            BY <1>1, <1>2, <2>2, <5>1, <5>3, OpStates
          <6>2. isWrite(OpOf(t))
            BY <6>1 DEF OpOf, isWrite
          <6> QED BY <1>6, <2>2, <6>2
        <5> QED BY <5>2, <5>3
      <4> QED BY <4>2, <4>3
    <3> QED BY <2>5, <2>6, <3>1, <3>2
  <2>7. LockTaken'
    BY <2>6 DEF LockTaken
  <2>8. Unlocking'
    <3>1. ASSUME NEW j \in Banks, NEW u \in Mem, NEW h \in Holds, Posted(j, u, h)', Held(u, h)'
          PROVE  FALSE
      <4>1. j # k /\ Posted(j, u, h)
        BY <1>1, <3>1 DEF Posted
      <4>2. h # g
        BY <1>3, <4>1 DEF Posted
      <4>3. Held(u, h)
        BY <2>5, <3>1, <4>2
      <4> QED BY <4>1, <4>3 DEF ControlInv, Unlocking
    <3> QED BY <3>1 DEF Unlocking
  <2> QED BY <1>4, <2>3, <2>4, <2>7, <2>8 DEF ControlInv
<1> QED BY <1>5, <1>6

\* A search starts where the level allows (StartState).
LEMMA StartSearch ==
  ASSUME NEW o \in Orders
  PROVE  /\ StartState(o) \in Searches
         /\ StartState(o) = "TTF" => NLevel = 1
         /\ StartState(o) = "TM0F" => NLevel = 2
<1>1. o \in 0..2 /\ NLevel \in 1..3 /\ (NLevel = 1 => o # 2)
  BY TagCacheAssumption
<1> QED BY <1>1 DEF StartState, Searches

\* What the retirement of a transaction does (Retire).
LEMMA RetireEffect ==
  ASSUME TypeOK, NEW t \in Mem, Retire(t)
  PROVE  /\ mt_state[t] = "BUSY" /\ mt_state'[t] = "IDLE"
         /\ ~ xact[t].rw => tc_state[t] = "IDLE"
         /\ UNCHANGED <<tc_state, tc_req_sent, bank, last_grant, rst, lock_vec, cache, mem, tags>>
         /\ \A u \in Mem : u # t \/ tc_state[t] # "IDLE" => Same(u)
         /\ \A u \in Mem : u # t => mt_state'[u] = mt_state[u]
         /\ tc_state[t] = "IDLE" =>
              xact'[t] = NoBlock /\ mem_data'[t] = {} /\ flag'[t] = ResetFlags
<1>1. /\ mt_state[t] = "BUSY" /\ mt_state'[t] = "IDLE"
      /\ ~ xact[t].rw => tc_state[t] = "IDLE"
      /\ UNCHANGED <<tc_state, tc_req_sent, bank, last_grant, rst, lock_vec, cache, mem, tags>>
      /\ \A u \in Mem : u # t => mt_state'[u] = mt_state[u]
  BY DEF Retire, TypeOK, TrackersOK, banks, lines
<1>2. CASE tc_state[t] = "IDLE"
  <2>1. Cleared(t)
    BY <1>2 DEF Retire
  <2> QED BY <1>1, <1>2, <2>1 DEF Cleared, TypeOK, TrackersOK, Same
<1>3. CASE tc_state[t] # "IDLE"
  BY <1>1, <1>3 DEF Retire, TypeOK, TrackersOK, Same
<1> QED BY <1>2, <1>3

\* Every step keeps the control invariant.
LEMMA ControlStep ==
  ASSUME Base, ControlInv, [Next]_vars
  PROVE  ControlInv'
<1>1. ASSUME NEW t \in Mem, NEW b \in Blocks, NEW rw \in BOOLEAN, NEW mask \in SUBSET Bits,
             NEW data \in SUBSET Bits, NEW o \in Orders, Acquire(t, b, rw, mask, data, o)
      PROVE  ControlInv'
  <2>1. /\ ~ tl_block(t) /\ \A u \in Mem : tl_block(u) => xact[u].blk # b
        /\ tc_state'[t] \in Searches /\ xact'[t].blk = b
        /\ \A u \in Mem : u # t => Same(u) /\ mt_state'[u] = mt_state[u]
        /\ UNCHANGED <<bank, lock_vec>>
    <3>1. TypeOK
      BY DEF Base
    <3>2. StartState(o) \in Searches
      BY StartSearch
    <3>3. /\ ~ tl_block(t) /\ \A u \in Mem : tl_block(u) => xact[u].blk # b
          /\ tc_state'[t] = StartState(o) /\ xact'[t].blk = b
          /\ \A u \in Mem : u # t => Same(u) /\ mt_state'[u] = mt_state[u]
          /\ UNCHANGED <<bank, lock_vec>>
      BY <1>1, <3>1 DEF Acquire, Allocated, TypeOK, TrackersOK, Same, banks
    <3> QED BY <3>2, <3>3
  <2>2. OpenApart'
    BY <2>1 DEF ControlInv, OpenApart, tl_block, Same
  <2>3. \A u \in Mem : tc_state[u] # "IDLE" => Same(u)
    BY <2>1 DEF tl_block
  <2>4. \A u \in Mem : tc_state[u] = "IDLE" => tc_state'[u] \in {"IDLE"} \cup Searches
    BY <2>1 DEF Same
  <2> QED BY <2>1, <2>2, <2>3, <2>4, ControlOfTracker
<1>2. ASSUME NEW t \in Mem, Retire(t)
      PROVE  ControlInv'
  <2>1. /\ mt_state'[t] = "IDLE" /\ UNCHANGED <<tc_state, bank, lock_vec>>
        /\ \A u \in Mem : u # t \/ tc_state[t] # "IDLE" => Same(u)
        /\ \A u \in Mem : u # t => mt_state'[u] = mt_state[u]
    BY <1>2, RetireEffect DEF Base
  <2>2. \A u \in Mem : tl_block(u)' => tl_block(u) /\ xact'[u] = xact[u]
    BY <2>1 DEF tl_block, Same
  <2>3. OpenApart'
    BY <2>2 DEF ControlInv, OpenApart
  <2>4. \A u \in Mem : tc_state[u] # "IDLE" => Same(u)
    BY <2>1
  <2> QED BY <2>1, <2>3, <2>4, ControlOfTracker
<1>3. ASSUME NEW k \in Banks, Initiate(k)
      PROVE  FALSE
  BY <1>3 DEF Initiate, Base, HandshakeInv, Initiated
<1>4. CASE Next
  BY <1>1, <1>2, <1>3, <1>4, NextSplit, ControlGrant, ControlLookup, ControlFinish
<1>5. CASE UNCHANGED vars
  <2>1. UNCHANGED <<mt_state, tc_state, tc_req_sent, xact, mem_data, flag, bank, lock_vec>>
    BY <1>5 DEF vars, trackers, banks
  <2>2. OpenApart'
    BY <2>1 DEF ControlInv, OpenApart, tl_block
  <2>3. \A u \in Mem : Same(u)
    BY <2>1 DEF Same
  <2>4. \A u \in Mem : tc_state[u] = "IDLE" => tc_state'[u] \in {"IDLE"} \cup Searches
    BY <2>1
  <2> QED BY <2>1, <2>2, <2>3, <2>4, ControlOfTracker
<1> QED BY <1>4, <1>5

\* Nothing is open, held or executed at the start.
LEMMA ControlInit ==
  ASSUME Init
  PROVE  ControlInv
<1>1. /\ bank = [k \in Banks |-> IdleXact] /\ tc_state = [t \in Mem |-> "IDLE"]
      /\ mt_state = [t \in Mem |-> "IDLE"] /\ lock_vec = [s \in Slots |-> NoLock]
  BY DEF Init, InitIdle
<1>2. \A k \in Banks : bank[k].state = "IDLE"
  BY <1>1 DEF IdleXact
<1>3. OpenApart
  BY <1>1 DEF OpenApart, tl_block
<1>4. LockTaken
  BY <1>1 DEF LockTaken, Held, HeldTM0, HeldTM1
<1> QED BY <1>2, <1>3, <1>4 DEF ControlInv, Unlocking, Posted, Permitted, ReqData

-----------------------------------------------------------------------------
(***************************************************************************)
(* The lines.  Seen through cache and memory together, a line changes only *)
(* when a bank writes it; evictions and fetches change nothing.            *)
(***************************************************************************)

\* A clean line is what the memory holds.
CleanOK == \A l \in Lines : cache[l].st = "Clean" => mem[l] = cache[l].data

\* The answer a bank is about to give is about the line as it is.
RespOK ==
  \A k \in Banks :
    bank[k].state = "L" /\ bank[k].op \in {"R", "FR", "FL"} =>
      /\ (bank[k].resp.hit <=> Cached(LineOf(k)))
      /\ bank[k].op # "R" => Cached(LineOf(k))
      /\ Cached(LineOf(k)) =>
           /\ bank[k].resp.data = RowPart(cache[LineOf(k)].data, bank[k].hold)
           /\ bank[k].resp.tcnt = cache[LineOf(k)].tcnt

LineInv == CleanOK /\ RespOK

\* A line without rows is empty (RowCount).
LEMMA NoRows ==
  ASSUME NEW S \in SUBSET Pos, RowCount(S) = 0
  PROVE  S = {}
<1>1. {Row[p[1]] : p \in S} = {}
  BY RowsFinite, FS_EmptySet DEF RowCount
<1> QED BY <1>1

\* Two bits in different rows make two rows (RowCount).
LEMMA TwoRows ==
  ASSUME NEW S \in SUBSET Pos, NEW p \in S, NEW q \in S, Row[p[1]] # Row[q[1]]
  PROVE  RowCount(S) > 1
<1> DEFINE A == {Row[z[1]] : z \in S}
<1>1. IsFiniteSet(A) /\ Row[p[1]] \in A /\ Row[q[1]] \in A
  BY RowsFinite
<1>2. PICK a, c : a = Row[p[1]] /\ c = Row[q[1]]
  OBVIOUS
<1> HIDE DEF A
<1>3. IsFiniteSet(A \ {a}) /\ Cardinality(A \ {a}) = Cardinality(A) - 1
  BY <1>1, <1>2, FS_RemoveElement, ZenonT(30)
<1>4. c \in A \ {a}
  BY <1>1, <1>2
<1>5. Cardinality(A \ {a}) # 0
  BY <1>3, <1>4, FS_EmptySet
<1>6. Cardinality(A) \in Nat /\ Cardinality(A \ {a}) \in Nat
  BY <1>1, <1>3, FS_CardinalityType
<1>7. Cardinality(A) > 1
  BY <1>3, <1>5, <1>6
<1> QED BY <1>7 DEF RowCount, A

\* A replacement is not seen from outside, but for the line that comes (Replace, Victims).
LEMMA ReplaceView ==
  ASSUME TypeOK, CleanOK, NEW l \in Lines, ~ Cached(l), NEW v \in Victims(l), NEW c,
         c.st # "Invalid", c.st = "Clean" => c.data = mem[l], Replace(l, v, c)
  PROVE  /\ cache'[l] = c
         /\ \A m \in Lines : m # l => View(m)' = View(m) /\ (Cached(m)' => Cached(m))
         /\ \A m \in Lines : SetOf[m] # SetOf[l] => cache'[m] = cache[m]
         /\ CleanOK'
<1>1. v \in Lines /\ SetOf[v] = SetOf[l] /\ (v # l => Cached(v))
  BY DEF Victims
<1>2. cache'[l] = c /\ \A m \in Lines : m # l => cache'[m] = IF m = v THEN Invalid ELSE cache[m]
  BY DEF Replace
<1>3. \A m \in Lines : mem'[m] = IF m = v /\ cache[v].st = "Dirty" THEN cache[v].data ELSE mem[m]
  BY <1>1 DEF Replace, TypeOK, LinesOK
<1>4. cache[v].st \in {"Invalid", "Clean", "Dirty"} /\ Invalid.st = "Invalid"
  BY <1>1 DEF TypeOK, LinesOK, CachedLines, Invalid
<1>5. ASSUME NEW m \in Lines, m # l
      PROVE  View(m)' = View(m) /\ (Cached(m)' => Cached(m))
  <2>1. CASE m = v
    <3>1. Cached(m) /\ ~ Cached(m)'
      BY <1>1, <1>2, <1>4, <1>5, <2>1 DEF Cached
    <3>2. mem'[m] = cache[m].data
      BY <1>3, <1>4, <2>1, <3>1 DEF CleanOK, Cached
    <3> QED BY <3>1, <3>2 DEF View
  <2>2. CASE m # v
    <3>1. cache'[m] = cache[m] /\ mem'[m] = mem[m]
      BY <1>2, <1>3, <1>5, <2>2
    <3> QED BY <3>1 DEF View, Cached
  <2> QED BY <2>1, <2>2
<1>6. \A m \in Lines : SetOf[m] # SetOf[l] => cache'[m] = cache[m]
  BY <1>1, <1>2
<1>7. CleanOK'
  <2>1. ASSUME NEW m \in Lines, cache'[m].st = "Clean"
        PROVE  mem'[m] = cache'[m].data
    <3>1. CASE m = l
      <4>1. mem'[l] = mem[l]
        <5>1. v = l => cache[v].st # "Dirty"
          BY DEF Cached
        <5> QED BY <1>3, <5>1
      <4> QED BY <1>2, <2>1, <3>1, <4>1
    <3>2. CASE m # l
      <4>1. m # v /\ cache'[m] = cache[m]
        BY <1>2, <1>4, <2>1, <3>2
      <4> QED BY <1>3, <2>1, <4>1 DEF CleanOK
    <3> QED BY <3>1, <3>2
  <2> QED BY <2>1 DEF CleanOK
<1> QED BY <1>2, <1>5, <1>6, <1>7

\* What a lookup does to the lines (Lookup).
LEMMA LookupLines ==
  ASSUME Base, CleanOK, NEW k \in Banks, Lookup(k), NEW l \in Lines, l = LineOf(k),
         NEW x, x = bank[k]
  PROVE  /\ CleanOK'
         /\ \A m \in Lines : m # l => View(m)' = View(m) /\ (Cached(m)' => Cached(m))
         /\ \A m \in Lines : BankOf[m] # BankOf[l] => cache'[m] = cache[m]
         /\ x.op \in {"L", "U", "R"} => UNCHANGED lines
         /\ x.op \in {"FR", "FL"} => Cached(l)' /\ View(l)' = View(l)
         /\ x.op = "W" => /\ Cached(l)'
                          /\ x.data \ x.mask \subseteq View(l) =>
                               View(l)' = (View(l) \ x.mask) \cup (x.data \cap x.mask)
         /\ x.op = "C" /\ ~ Cached(l) => Cached(l)' /\ View(l)' = x.data \cap x.mask
         /\ x.op = "I" => ~ Cached(l)'
<1>1. TypeOK /\ cache[l] \in CachedLines /\ cache \in [Lines -> CachedLines]
  BY DEF Base, TypeOK, LinesOK
<1>2. x.op \in TCTagOp
  BY <1>1 DEF TypeOK, BanksOK, TagXacts
<1>3. \A m \in Lines : BankOf[m] # BankOf[l] => SetOf[m] # SetOf[l]
  BY TagCacheAssumption
<1>4. CASE UNCHANGED lines /\ x.op \in {"L", "U", "R", "FR", "FL", "I"}
           /\ (x.op \in {"FR", "FL"} => Cached(l)) /\ (x.op = "I" => ~ Cached(l))
  BY <1>4 DEF lines, CleanOK, View, Cached
<1>5. CASE LookupLock(k) \/ HitRead(k) \/ MissPass(k)
  BY <1>4, <1>5 DEF LookupLock, HitRead, MissPass, InMR
<1>6. CASE HitWrite(k)
  <2>1. /\ Cached(l) /\ x.op \in {"W", "C"} /\ mem' = mem
        /\ \E n : cache' = [cache EXCEPT ![l] =
              [st |-> "Dirty", data |-> (cache[l].data \ x.mask) \cup (x.data \cap x.mask),
               tcnt |-> n]]
    BY <1>6 DEF HitWrite, InMR
  <2>2. /\ cache'[l].st = "Dirty"
        /\ cache'[l].data = (cache[l].data \ x.mask) \cup (x.data \cap x.mask)
        /\ \A m \in Lines : m # l => cache'[m] = cache[m]
    BY <1>1, <2>1
  <2>3. Cached(l)' /\ View(l)' = (View(l) \ x.mask) \cup (x.data \cap x.mask)
    BY <2>1, <2>2 DEF Cached, View
  <2>4. CleanOK'
    BY <2>1, <2>2 DEF CleanOK
  <2>5. \A m \in Lines : m # l => View(m)' = View(m) /\ (Cached(m)' => Cached(m))
    BY <2>1, <2>2 DEF Cached, View
  <2> QED BY <2>1, <2>2, <2>3, <2>4, <2>5
<1>7. CASE HitInvalidate(k)
  <2>1. x.op = "I" /\ mem' = mem /\ cache' = [cache EXCEPT ![l] = Invalid]
    BY <1>7 DEF HitInvalidate, InMR
  <2>2. cache'[l].st = "Invalid" /\ \A m \in Lines : m # l => cache'[m] = cache[m]
    BY <1>1, <2>1 DEF Invalid
  <2>3. CleanOK'
    BY <2>1, <2>2 DEF CleanOK
  <2>4. \A m \in Lines : m # l => View(m)' = View(m) /\ (Cached(m)' => Cached(m))
    BY <2>1, <2>2 DEF Cached, View
  <2>5. ~ Cached(l)'
    BY <2>2 DEF Cached
  <2> QED BY <2>1, <2>2, <2>3, <2>4, <2>5
<1>8. CASE MissFetch(k)
  <2> DEFINE new == IF x.op = "W" THEN (mem[l] \ x.mask) \cup x.data ELSE mem[l]
             c == [st |-> IF new = mem[l] THEN "Clean" ELSE "Dirty",
                   data |-> new, tcnt |-> RowCount(new)]
  <2>1. ~ Cached(l) /\ x.op \in {"FR", "FL", "W"}
    BY <1>8 DEF MissFetch, InMR
  <2>2. PICK v \in Victims(l) : Replace(l, v, c)
    BY <1>8 DEF MissFetch
  <2>3. c.st # "Invalid" /\ (c.st = "Clean" => c.data = mem[l]) /\ c.data = new
    OBVIOUS
  <2>4. (x.op # "W" => new = View(l)) /\ (x.op = "W" => new = (View(l) \ x.mask) \cup x.data)
    BY <2>1 DEF View
  <2> HIDE DEF c, new
  <2>5. /\ cache'[l] = c
        /\ \A m \in Lines : m # l => View(m)' = View(m) /\ (Cached(m)' => Cached(m))
        /\ \A m \in Lines : SetOf[m] # SetOf[l] => cache'[m] = cache[m]
        /\ CleanOK'
    BY <1>1, <2>1, <2>2, <2>3, ReplaceView
  <2>6. Cached(l)' /\ View(l)' = new
    BY <2>3, <2>5 DEF Cached, View
  <2>7. x.op = "W" /\ x.data \ x.mask \subseteq View(l) =>
          new = (View(l) \ x.mask) \cup (x.data \cap x.mask)
    BY <2>4
  <2> QED BY <1>3, <2>1, <2>4, <2>5, <2>6, <2>7
<1>9. CASE MissCreate(k)
  <2> DEFINE c == [st |-> "Dirty", data |-> x.data \cap x.mask, tcnt |-> 1]
  <2>1. ~ Cached(l) /\ x.op = "C"
    BY <1>9 DEF MissCreate, InMR
  <2>2. PICK v \in Victims(l) : Replace(l, v, c)
    BY <1>9 DEF MissCreate
  <2>3. c.st = "Dirty" /\ c.data = x.data \cap x.mask
    OBVIOUS
  <2> HIDE DEF c
  <2>4. /\ cache'[l] = c
        /\ \A m \in Lines : m # l => View(m)' = View(m) /\ (Cached(m)' => Cached(m))
        /\ \A m \in Lines : SetOf[m] # SetOf[l] => cache'[m] = cache[m]
        /\ CleanOK'
    BY <1>1, <2>1, <2>2, <2>3, ReplaceView
  <2>5. Cached(l)' /\ View(l)' = x.data \cap x.mask
    BY <2>3, <2>4 DEF Cached, View
  <2> QED BY <1>3, <2>1, <2>4, <2>5
<1> QED BY <1>5, <1>6, <1>7, <1>8, <1>9 DEF Lookup

\* The answer a lookup prepares is about the line it leaves (HitRead, MissPass, MissFetch).
LEMMA LookupAnswer ==
  ASSUME Base, CleanOK, NEW k \in Banks, Lookup(k), NEW l \in Lines, l = LineOf(k),
         bank[k].op \in {"R", "FR", "FL"}
  PROVE  /\ (bank'[k].resp.hit <=> Cached(l)')
         /\ bank[k].op # "R" => Cached(l)'
         /\ Cached(l)' => /\ bank'[k].resp.data = RowPart(cache'[l].data, bank[k].hold)
                          /\ bank'[k].resp.tcnt = cache'[l].tcnt
<1> DEFINE x == bank[k]
<1>1. /\ TypeOK /\ cache[l] \in CachedLines /\ bank \in [Banks -> TagXacts]
      /\ x.hold \in Holds
  BY DEF Base, TypeOK, LinesOK, BanksOK, TagXacts
<1>2. ASSUME NEW r, ToL(k, r) PROVE bank'[k].resp = r
  BY <1>1, <1>2 DEF ToL, isWrite
<1>3. CASE HitRead(k)
  <2>1. /\ Cached(l) /\ UNCHANGED lines
        /\ ToL(k, Response(TRUE, IF cache[l].tcnt = 0 THEN {} ELSE RowPart(cache[l].data, x.hold),
                           cache[l].tcnt))
    BY <1>3 DEF HitRead, InMR
  <2>2. cache[l].tcnt = 0 => RowPart(cache[l].data, x.hold) = {}
    <3>1. SUFFICES ASSUME cache[l].tcnt = 0 PROVE cache[l].data = {}
      BY DEF RowPart
    <3>2. cache[l].data \in SUBSET Pos
      BY <1>1 DEF CachedLines
    <3>3. RowCount(cache[l].data) \in Nat
      BY <3>2, RowCountType
    <3>4. RowCount(cache[l].data) = 0
      BY <2>1, <3>1, <3>3 DEF Base, RowInv, RowsCounted
    <3> QED BY <3>2, <3>4, NoRows
  <2>3. bank'[k].resp = Response(TRUE, RowPart(cache[l].data, x.hold), cache[l].tcnt)
    BY <1>2, <2>1, <2>2
  <2>4. cache' = cache /\ (Cached(l)' <=> Cached(l))
    BY <2>1 DEF lines, Cached
  <2> QED BY <2>1, <2>3, <2>4 DEF Response
<1>4. CASE MissPass(k)
  <2>1. /\ ~ Cached(l) /\ x.op = "R" /\ UNCHANGED lines
        /\ ToL(k, Response(bank[k].op # "R", {}, 0))
    BY <1>4 DEF MissPass, InMR
  <2>2. bank'[k].resp = Response(FALSE, {}, 0)
    BY <1>2, <2>1
  <2>3. cache' = cache /\ (Cached(l)' <=> Cached(l))
    BY <2>1 DEF lines, Cached
  <2> QED BY <2>1, <2>2, <2>3 DEF Response
<1>5. CASE MissFetch(k)
  <2> DEFINE c == [st |-> IF mem[l] = mem[l] THEN "Clean" ELSE "Dirty",
                   data |-> mem[l], tcnt |-> RowCount(mem[l])]
  <2>1. ~ Cached(l) /\ x.op \in {"FR", "FL"}
    BY <1>5 DEF MissFetch, InMR
  <2>2. PICK v \in Victims(l) : Replace(l, v, c)
    BY <1>5, <2>1 DEF MissFetch
  <2>3. ToL(k, Response(TRUE, RowPart(mem[l], x.hold), RowCount(mem[l])))
    BY <1>5, <2>1 DEF MissFetch
  <2>4. cache'[l] = c
    BY <2>2 DEF Replace
  <2>5. bank'[k].resp = Response(TRUE, RowPart(mem[l], x.hold), RowCount(mem[l]))
    BY <1>2, <2>3
  <2>6. Cached(l)' /\ cache'[l].data = mem[l] /\ cache'[l].tcnt = RowCount(mem[l])
    BY <2>4 DEF Cached
  <2> QED BY <2>5, <2>6 DEF Response
<1>6. ~ (LookupLock(k) \/ HitWrite(k) \/ HitInvalidate(k) \/ MissCreate(k))
  BY DEF LookupLock, HitWrite, HitInvalidate, MissCreate, InMR
<1> QED BY <1>3, <1>4, <1>5, <1>6 DEF Lookup

\* Every step keeps the line invariant.
LEMMA LineStep ==
  ASSUME Base, LineInv, [Next]_vars
  PROVE  LineInv'
<1>1. ASSUME UNCHANGED <<cache, mem>>,
             \A k \in Banks : bank'[k].state = "L" => bank'[k] = bank[k]
      PROVE  LineInv'
  <2>1. CleanOK'
    BY <1>1 DEF LineInv, CleanOK
  <2>2. \A l : Cached(l)' <=> Cached(l)
    BY <1>1 DEF Cached
  <2>3. RespOK'
    BY <1>1, <2>2 DEF LineInv, RespOK, LineOf
  <2> QED BY <2>1, <2>3 DEF LineInv
<1>2. ASSUME NEW t \in Mem, NEW b \in Blocks, NEW rw \in BOOLEAN, NEW mask \in SUBSET Bits,
             NEW data \in SUBSET Bits, NEW o \in Orders, Acquire(t, b, rw, mask, data, o)
      PROVE  LineInv'
  BY <1>1, <1>2 DEF Acquire, lines, banks
<1>3. ASSUME NEW t \in Mem, Retire(t)
      PROVE  LineInv'
  BY <1>1, <1>3 DEF Retire, lines, banks
<1>4. ASSUME NEW k \in Banks, Initiate(k)
      PROVE  FALSE
  BY <1>4 DEF Initiate, Base, HandshakeInv, Initiated
<1>5. ASSUME NEW k \in Banks, Grant(k)
      PROVE  LineInv'
  <2>1. /\ bank'[k].state = "MR" /\ \A j \in Banks : j # k => bank'[j] = bank[j]
        /\ UNCHANGED lines
    BY <1>5, GrantEffect
  <2>2. \A j \in Banks : bank'[j].state = "L" => bank'[j] = bank[j]
    BY <2>1
  <2> QED BY <1>1, <2>1, <2>2 DEF lines
<1>6. ASSUME NEW k \in Banks, Finish(k)
      PROVE  LineInv'
  <2>1. /\ bank'[k].state = "IDLE" /\ \A j \in Banks : j # k => bank'[j] = bank[j]
        /\ UNCHANGED lines
    BY <1>6, FinishEffect
  <2>2. \A j \in Banks : bank'[j].state = "L" => bank'[j] = bank[j]
    BY <2>1
  <2> QED BY <1>1, <2>1, <2>2 DEF lines
<1>7. ASSUME NEW k \in Banks, Lookup(k)
      PROVE  LineInv'
  <2>1. PICK l \in Lines : l = LineOf(k)
    BY LineType DEF Base
  <2>2. PICK x : x = bank[k]
    OBVIOUS
  <2>3. CleanOK' /\ \A m \in Lines : BankOf[m] # BankOf[l] => cache'[m] = cache[m]
    BY <1>7, <2>1, <2>2, LookupLines DEF LineInv
  <2>4. /\ BankOf[l] = k /\ LineOf(k)' = l
        /\ bank'[k].op = x.op /\ bank'[k].hold = x.hold
        /\ \A j \in Banks : j # k => bank'[j] = bank[j]
    BY <1>7, <2>1, <2>2, LookupEffect, AtBank DEF LineOf
  <2>5. ASSUME NEW j \in Banks, bank'[j].state = "L", bank'[j].op \in {"R", "FR", "FL"},
               NEW m \in Lines, m = LineOf(j)'
        PROVE  /\ bank'[j].resp.hit <=> Cached(m)'
               /\ bank'[j].op # "R" => Cached(m)'
               /\ Cached(m)' =>
                    /\ bank'[j].resp.data = RowPart(cache'[m].data, bank'[j].hold)
                    /\ bank'[j].resp.tcnt = cache'[m].tcnt
    <3>1. CASE j = k
      <4>1. m = l /\ bank[k].op \in {"R", "FR", "FL"}
        BY <2>2, <2>4, <2>5, <3>1
      <4> QED BY <1>7, <2>1, <2>2, <2>4, <3>1, <4>1, LookupAnswer DEF LineInv
    <3>2. CASE j # k
      <4>1. bank'[j] = bank[j] /\ m = LineOf(j)
        BY <2>4, <2>5, <3>2 DEF LineOf
      <4>2. BankOf[m] = j
        BY <2>5, <4>1 DEF Base, HandshakeInv, BankHome
      <4>3. cache'[m] = cache[m]
        BY <2>3, <2>4, <3>2, <4>2
      <4>4. Cached(m)' <=> Cached(m)
        BY <4>3 DEF Cached
      <4> QED BY <2>5, <4>1, <4>3, <4>4 DEF LineInv, RespOK
    <3> QED BY <3>1, <3>2
  <2>6. \A j \in Banks : LineOf(j)' \in Lines
    <3>1. TypeOK'
      BY <1>7, LookupTypeOK DEF Base
    <3> QED BY <3>1, TagCacheAssumption DEF TypeOK, BanksOK, TagXacts, LineOf
  <2>7. RespOK'
    BY <2>5, <2>6 DEF RespOK
  <2> QED BY <2>3, <2>7 DEF LineInv
<1>8. CASE Next
  BY <1>2, <1>3, <1>4, <1>5, <1>6, <1>7, <1>8, NextSplit
<1>9. CASE UNCHANGED vars
  BY <1>1, <1>9 DEF vars, lines, banks
<1> QED BY <1>8, <1>9

\* No line is clean and no answer prepared at the start.
LEMMA LineInit ==
  ASSUME Init
  PROVE  LineInv
<1>1. bank = [k \in Banks |-> IdleXact]
  BY DEF Init, InitIdle
<1>2. RespOK
  BY <1>1 DEF RespOK, IdleXact
<1>3. CleanOK
  BY DEF Init, CleanOK, Created, Invalid
<1> QED BY <1>2, <1>3 DEF LineInv

-----------------------------------------------------------------------------
(***************************************************************************)
(* Turns.  A tracker about to read a table line that it found live must    *)
(* get it before an update drops the line.  What guarantees it is not the  *)
(* lock but the round-robin arbiter: the update was granted its lock of    *)
(* the line, so the reader, waiting since, goes first.                     *)
(***************************************************************************)
Line(u)  == Up[xact[u].blk]
MLine(u) == Up[Line(u)]

TurnsOK ==
  \A t, u \in Mem :
    NLevel > 1 /\ t # u /\ Line(t) = Line(u) /\ tc_state[t] = "TTF" =>
      /\ tc_state[u] = "TTW" \/ (tc_state[u] = "TTL" /\ tc_req_sent[u]) =>
           tc_req_sent[t] \/ Before(BankOf[Line(u)], t, u)
      /\ tc_state[u] = "TTW" => ~ tc_req_sent[u]

\* One bank has at most one request in work.
LEMMA SentApart ==
  ASSUME Base, NEW t \in Mem, NEW u \in Mem, tc_req_sent[t], tc_req_sent[u],
         BankOf[Up[HoldOf(t)]] = BankOf[Up[HoldOf(u)]]
  PROVE  t = u
<1>1. ASSUME NEW v \in Mem, tc_req_sent[v]
      PROVE  bank[BankOf[Up[HoldOf(v)]]].id = v
  <2>1. PICK j \in Banks : Owes(j, v)
    BY <1>1 DEF Base, HandshakeInv, ResponseExpected
  <2>2. bank[j].id = v /\ Owes(j, bank[j].id)
    BY <2>1 DEF Owes
  <2>3. bank[j].hold = HoldOf(v) /\ BankOf[LineOf(j)] = j
    BY <2>2, AtBank
  <2> QED BY <2>2, <2>3 DEF LineOf
<1> QED BY <1>1

\* A bank that takes a request was not working for another (Grant).
LEMMA SentBusy ==
  ASSUME Base, NEW k \in Banks, bank[k].state = "IDLE", NEW t \in Mem,
         BankOf[Up[HoldOf(t)]] = k
  PROVE  ~ tc_req_sent[t]
<1>1. SUFFICES ASSUME tc_req_sent[t] PROVE FALSE
  BY DEF Base, TypeOK, TrackersOK
<1>2. PICK j \in Banks : Owes(j, t)
  BY <1>1 DEF Base, HandshakeInv, ResponseExpected
<1>3. bank[j].id = t /\ Owes(j, bank[j].id)
  BY <1>2 DEF Owes
<1>4. bank[j].hold = HoldOf(t) /\ BankOf[LineOf(j)] = j /\ bank[j].state # "IDLE"
  BY <1>3, AtBank
<1> QED BY <1>4 DEF LineOf

\* The order of the arbiter (Before).
LEMMA BeforeFacts ==
  ASSUME NEW k, NEW t \in Int, NEW u \in Int, NEW w \in Int, last_grant[k] \in Int
  PROVE  /\ Before(k, t, u) /\ Before(k, u, t) => t = u
         /\ w = last_grant'[k] /\ Before(k, w, t) /\ Before(k, t, u) /\ w # t /\ w # u
              => Before(k, t, u)'
         /\ u = last_grant'[k] => Before(k, t, u)'
BY DEF Before

\* An update that works on a table line holds the lock of its map bit, and while a bank
\* executes a request about a map bit no other tracker holds it.
LEMMA Alone ==
  ASSUME Base, ControlInv, NEW k \in Banks, bank[k].state # "IDLE", is_map(bank[k].hold),
         NEW u \in Mem, Held(u, bank[k].hold)
  PROVE  u = bank[k].id
<1>1. bank[k].hold \in Holds
  BY DEF Base, TypeOK, BanksOK, TagXacts
<1>2. PICK s \in Slots : lock_vec[s].lock /\ lock_vec[s].id = u /\ lock_vec[s].hold = bank[k].hold
  BY <1>1 DEF ControlInv, LockTaken, HasLock
<1>3. Clash(lock_vec[s].hold, bank[k].hold)
  BY <1>2 DEF Clash
<1> QED BY <1>2, <1>3 DEF ControlInv, Permitted

\* The hold of a request by the level of its state (HoldOf).
LEMMA HoldIs ==
  ASSUME NEW t \in Mem
  PROVE  /\ tc_state[t] \in {"TTR", "TTF", "TTL", "TTW"} => HoldOf(t) = xact[t].blk
         /\ tc_state[t] \in {"TM0R", "TM0F", "TM0L", "TM0W"} => HoldOf(t) = Line(t)
         /\ tc_state[t] \in {"TM1F", "TM1L", "TM1W"} => HoldOf(t) = MLine(t)
BY DEF HoldOf, Line, MLine, TM0_states, TM1_states

\* The states an answer enters, by the state it is given in (NextTcState).
LEMMA Enters ==
  ASSUME TrackersOK, NEW t \in Mem, NEW r
  PROVE  /\ NextTcState(t, r) = "TTF"  => tc_state[t] \in {"TM0R", "TM0F"} /\ NLevel > 1
         /\ NextTcState(t, r) = "TM0F" => (tc_state[t] = "TTR" /\ NLevel = 2) \/ tc_state[t] = "TM1F"
         /\ NextTcState(t, r) = "TTW"  => tc_state[t] = "TTL"
         /\ NextTcState(t, r) = "TM0W" => tc_state[t] = "TTW" /\ NLevel > 1
         /\ NextTcState(t, r) = "TM1W" => tc_state[t] = "TM0W" /\ NLevel > 2
         /\ tc_state[t] \in {"TTW", "TM0W", "TM1W"} => NextTcState(t, r) \in {"TM0W", "TM1W", "IDLE"}
         /\ tc_state[t] # "IDLE" => NextTcState(t, r) \notin {"TTR"}
<1>1. /\ tc_state[t] \in {"IDLE", "TM1L", "TM0L", "TTL", "TTW", "TM0W", "TM1W"} \cup Searches
      /\ tc_state[t] \in {"TTR", "TM0F", "TM0L", "TM0W"} => NLevel > 1
      /\ tc_state[t] \in {"TM0R", "TM1F", "TM1L", "TM1W"} => NLevel > 2
  BY StateKinds
<1>2. NLevel \in {1, 2, 3}
  BY FirstLockIs
<1>3. \A d : Found(t, d) \in {"TM1L", "TM0L", "TTL", "IDLE"}
  BY DEF Found, FirstLock
<1>4. CASE tc_state[t] = "TTR"
  BY <1>1, <1>2, <1>3, <1>4 DEF NextTcState
<1>5. CASE tc_state[t] = "TM0R"
  BY <1>1, <1>2, <1>3, <1>5 DEF NextTcState
<1>6. CASE tc_state[t] \in {"TM1F", "TM0F", "TTF"}
  BY <1>1, <1>2, <1>3, <1>6 DEF NextTcState
<1>7. CASE tc_state[t] \in {"TM1L", "TM0L", "TTL"}
  BY <1>1, <1>2, <1>7 DEF NextTcState
<1>8. CASE tc_state[t] \in {"TTW", "TM0W", "TM1W", "IDLE"}
  BY <1>1, <1>2, <1>8 DEF NextTcState
<1> QED BY <1>1, <1>4, <1>5, <1>6, <1>7, <1>8 DEF Searches

\* Steps that leave the readers and updates of table lines as they are.
LEMMA TurnsFrame ==
  ASSUME TurnsOK, UNCHANGED last_grant,
         \A u \in Mem : NLevel > 1 /\ tc_state'[u] \in {"TTF", "TTL", "TTW"} => Same(u)
  PROVE  TurnsOK'
<1>1. ASSUME NEW t \in Mem, NEW u \in Mem, NLevel > 1, t # u, Line(t)' = Line(u)',
             tc_state'[t] = "TTF", tc_state'[u] \in {"TTL", "TTW"}
      PROVE  /\ tc_state'[u] = "TTW" \/ (tc_state'[u] = "TTL" /\ tc_req_sent'[u]) =>
                  tc_req_sent'[t] \/ Before(BankOf[Line(u)], t, u)'
             /\ tc_state'[u] = "TTW" => ~ tc_req_sent'[u]
  <2>1. Same(t) /\ Same(u)
    BY <1>1
  <2>2. Line(t)' = Line(t) /\ Line(u)' = Line(u)
    BY <2>1 DEF Line, Same
  <2>3. Before(BankOf[Line(u)], t, u)' <=> Before(BankOf[Line(u)], t, u)
    BY <2>2 DEF Before
  <2> QED BY <1>1, <2>1, <2>2, <2>3 DEF TurnsOK, Same
<1> QED BY <1>1 DEF TurnsOK

\* An arbiter grants in turn (Grant).
LEMMA TurnsGrant ==
  ASSUME Base, TurnsOK, NEW k \in Banks, Grant(k)
  PROVE  TurnsOK'
<1>1. PICK w \in Mem :
        /\ Chosen(k, w) /\ bank[k].state = "IDLE"
        /\ tc_req_sent' = [tc_req_sent EXCEPT ![w] = TRUE]
        /\ last_grant' = [last_grant EXCEPT ![k] = w]
        /\ UNCHANGED <<tc_state, xact>>
  BY GrantEffect
<1>2. /\ BankOf[Up[HoldOf(w)]] = k
      /\ \A u \in Requests(k) : Before(k, w, u)
  BY <1>1 DEF Chosen, Requests
<1>3. /\ tc_req_sent'[w] /\ last_grant'[k] = w
      /\ \A u \in Mem : u # w => tc_req_sent'[u] = tc_req_sent[u]
      /\ \A j \in Banks : j # k => last_grant'[j] = last_grant[j]
      /\ last_grant[k] \in Mem
  BY <1>1 DEF Base, TypeOK, TrackersOK, BanksOK
<1>4. \A u \in Mem : u \in Int
  BY TagCacheAssumption DEF Mem
<1>5. \A u \in Mem : Line(u)' = Line(u) /\ Line(u) \in Lines
  BY <1>1, TagCacheAssumption DEF Line, Base, TypeOK, TrackersOK, Holds
<1>6. ASSUME NEW t \in Mem, NEW u \in Mem, NLevel > 1, t # u, Line(t) = Line(u),
             tc_state[t] = "TTF", tc_state[u] \in {"TTL", "TTW"}
      PROVE  /\ tc_state[u] = "TTW" \/ (tc_state[u] = "TTL" /\ tc_req_sent'[u]) =>
                  tc_req_sent'[t] \/ Before(BankOf[Line(u)], t, u)'
             /\ tc_state[u] = "TTW" => ~ tc_req_sent'[u]
  <2>1. HoldOf(t) = xact[t].blk /\ HoldOf(u) = xact[u].blk /\ HoldOf(t) \in Blocks
    BY <1>6, HoldIs DEF Base, TypeOK, TrackersOK
  <2>2. PICK j \in Banks : j = BankOf[Line(u)]
    BY <1>5, TagCacheAssumption
  <2>3. BankOf[Up[HoldOf(t)]] = j /\ BankOf[Up[HoldOf(u)]] = j
    BY <1>6, <2>1, <2>2 DEF Line
  <2>4. Before(BankOf[Line(u)], t, u)' <=> Before(j, t, u)'
    BY <1>5, <2>2 DEF Before
  <2>5. CASE j # k
    <3>1. u # w /\ t # w
      BY <1>2, <2>3, <2>5
    <3>2. Before(j, t, u)' <=> Before(j, t, u)
      BY <1>3, <2>5 DEF Before
    <3> QED BY <1>3, <1>6, <2>2, <2>4, <3>1, <3>2 DEF TurnsOK
  <2>6. CASE j = k
    <3>1. ~ tc_req_sent[t] /\ ~ tc_req_sent[u]
      BY <1>1, <2>3, <2>6, SentBusy
    <3>2. t \in Requests(k)
      BY <1>6, <2>1, <2>3, <2>6, <3>1 DEF Requests, Unblocked, is_map
    <3>3. Before(k, w, t)
      BY <1>2, <3>2
    <3>4. CASE w = t
      BY <1>3, <1>6, <3>1, <3>4
    <3>5. CASE w = u
      <4>1. Before(k, t, u)'
        BY <1>3, <1>4, <3>5, BeforeFacts
      <4>2. tc_state[u] # "TTW"
        <5>1. SUFFICES ASSUME tc_state[u] = "TTW" PROVE FALSE
          OBVIOUS
        <5>2. Before(k, t, u)
          BY <1>6, <2>2, <2>6, <3>1, <5>1 DEF TurnsOK
        <5> QED BY <1>3, <1>4, <1>6, <3>3, <3>5, <5>2, BeforeFacts
      <4> QED BY <2>4, <2>6, <4>1, <4>2
    <3>6. CASE w # t /\ w # u
      <4>1. Before(k, t, u) => Before(k, t, u)'
        BY <1>3, <1>4, <3>3, <3>6, BeforeFacts
      <4>2. tc_state[u] = "TTW" => Before(k, t, u)
        BY <1>6, <2>2, <2>6, <3>1 DEF TurnsOK
      <4>3. ~ tc_req_sent'[u]
        BY <1>3, <3>1, <3>6
      <4> QED BY <2>4, <2>6, <4>1, <4>2, <4>3
    <3> QED BY <3>4, <3>5, <3>6
  <2> QED BY <2>5, <2>6
<1> QED BY <1>1, <1>5, <1>6 DEF TurnsOK

\* Every step keeps the turns.
LEMMA TurnsStep ==
  ASSUME Base, ControlInv, TurnsOK, [Next]_vars
  PROVE  TurnsOK'
<1>0. TrackersOK
  BY DEF Base, TypeOK
<1>1. ASSUME NEW t \in Mem, NEW b \in Blocks, NEW rw \in BOOLEAN, NEW mask \in SUBSET Bits,
             NEW data \in SUBSET Bits, NEW o \in Orders, Acquire(t, b, rw, mask, data, o)
      PROVE  TurnsOK'
  <2>1. /\ tc_state'[t] = StartState(o) /\ UNCHANGED last_grant
        /\ \A u \in Mem : u # t => Same(u)
    BY <1>0, <1>1 DEF Acquire, TrackersOK, Same, banks
  <2>2. StartState(o) \in Searches /\ (StartState(o) = "TTF" => NLevel = 1)
    BY StartSearch
  <2>3. \A u \in Mem : NLevel > 1 /\ tc_state'[u] \in {"TTF", "TTL", "TTW"} => Same(u)
    BY <2>1, <2>2 DEF Searches
  <2> QED BY <2>1, <2>3, TurnsFrame
<1>2. ASSUME NEW t \in Mem, Retire(t)
      PROVE  TurnsOK'
  <2>1. /\ UNCHANGED <<tc_state, last_grant>>
        /\ \A u \in Mem : u # t \/ tc_state[t] # "IDLE" => Same(u)
    BY <1>2, RetireEffect DEF Base
  <2>2. \A u \in Mem : NLevel > 1 /\ tc_state'[u] \in {"TTF", "TTL", "TTW"} => Same(u)
    BY <2>1
  <2> QED BY <2>1, <2>2, TurnsFrame
<1>3. ASSUME NEW k \in Banks, Initiate(k)
      PROVE  FALSE
  BY <1>3 DEF Initiate, Base, HandshakeInv, Initiated
<1>4. ASSUME NEW k \in Banks, Lookup(k)
      PROVE  TurnsOK'
  <2>1. UNCHANGED last_grant /\ Owes(k, bank[k].id)
    BY <1>4, LookupEffect
  <2>2. CASE ~ isWrite(bank[k].op)
    BY <1>4, <2>1, <2>2, LookupEffect, TurnsFrame DEF trackers, Same
  <2>3. CASE isWrite(bank[k].op)
    <3>1. PICK r : Respond(bank[k].id, r)
      BY <1>4, <2>3, LookupEffect
    <3>2. PICK w \in Mem : w = bank[k].id
      BY <2>1, AtBank
    <3>3. tc_state[w] \in {"TTW", "TM0W", "TM1W"}
      BY <1>0, <2>1, <2>3, <3>2, AtBank, OpStates
    <3>4. tc_state'[w] \in {"TM0W", "TM1W", "IDLE"} /\ \A u \in Mem : u # w => Same(u)
      BY <1>0, <3>1, <3>2, <3>3, RespondFacts, Enters
    <3>5. \A u \in Mem : NLevel > 1 /\ tc_state'[u] \in {"TTF", "TTL", "TTW"} => Same(u)
      BY <3>4
    <3> QED BY <2>1, <3>5, TurnsFrame
  <2> QED BY <2>2, <2>3
<1>5. ASSUME NEW k \in Banks, Finish(k)
      PROVE  TurnsOK'
  <2>1. UNCHANGED last_grant
    BY <1>5, FinishEffect
  <2>2. CASE isWrite(bank[k].op)
    BY <1>5, <2>1, <2>2, FinishEffect, TurnsFrame DEF trackers, Same
  <2>3. CASE ~ isWrite(bank[k].op)
    <3>1. PICK w \in Mem : w = bank[k].id
      BY <1>5, FinishEffect
    <3>2. PICK r : Respond(w, r)
      BY <1>5, <2>3, <3>1, FinishEffect
    <3>3. /\ tc_state[w] # "IDLE" /\ tc_req_sent[w] /\ bank[k].hold = HoldOf(w)
          /\ bank[k].state # "IDLE"
      BY <1>5, <2>3, <3>1, FinishEffect, AtBank
    <3>4. /\ tc_state'[w] = NextTcState(w, r) /\ tc_req_sent'[w] = FALSE
          /\ \A u \in Mem : u # w => Same(u)
          /\ tc_state'[w] # "IDLE" => xact'[w] = xact[w]
      BY <1>0, <3>2, RespondFacts
    <3>5. ASSUME NEW t \in Mem, NEW u \in Mem, NLevel > 1, t # u, Line(t)' = Line(u)',
                 tc_state'[t] = "TTF", tc_state'[u] \in {"TTL", "TTW"}
          PROVE  /\ tc_state'[u] = "TTW" \/ (tc_state'[u] = "TTL" /\ tc_req_sent'[u]) =>
                      tc_req_sent'[t] \/ Before(BankOf[Line(u)], t, u)'
                 /\ tc_state'[u] = "TTW" => ~ tc_req_sent'[u]
      <4>1. Line(t)' = Line(t) /\ Line(u)' = Line(u)
        BY <3>4, <3>5 DEF Line, Same
      <4>2. Before(BankOf[Line(u)], t, u)' <=> Before(BankOf[Line(u)], t, u)
        BY <2>1, <4>1 DEF Before
      <4>3. CASE t = w
        <5>1. tc_state[w] \in {"TM0R", "TM0F"}
          BY <1>0, <3>4, <3>5, <4>3, Enters
        <5>2. bank[k].hold = Line(w)
          BY <3>3, <5>1, HoldIs
        <5>3. Held(u, bank[k].hold)
          <6>1. Same(u)
            BY <3>4, <3>5, <4>3
          <6> QED BY <3>5, <4>1, <4>3, <5>2, <6>1 DEF Held, HeldTM0, Line, Same
        <5>4. is_map(bank[k].hold)
          <6>1. xact[w].blk \in Blocks
            BY <1>0 DEF TrackersOK
          <6> QED BY <5>2, <6>1, UpFacts DEF is_map, Line
        <5>5. u = w
          BY <3>1, <3>3, <5>3, <5>4, Alone
        <5> QED BY <3>5, <4>3, <5>5
      <4>4. CASE u = w
        <5>1. Same(t) /\ tc_req_sent'[u] = FALSE
          BY <3>4, <3>5, <4>4
        <5>2. tc_state'[u] = "TTW" => tc_state[u] = "TTL" /\ tc_req_sent[u]
          BY <1>0, <3>3, <3>4, <4>4, Enters
        <5> QED BY <3>5, <4>1, <4>2, <5>1, <5>2 DEF TurnsOK, Same
      <4>5. CASE t # w /\ u # w
        <5>1. Same(t) /\ Same(u)
          BY <3>4, <4>5
        <5> QED BY <3>5, <4>1, <4>2, <5>1 DEF TurnsOK, Same
      <4> QED BY <4>3, <4>4, <4>5
    <3> QED BY <3>5 DEF TurnsOK
  <2> QED BY <2>2, <2>3
<1>6. CASE Next
  BY <1>1, <1>2, <1>3, <1>4, <1>5, <1>6, NextSplit, TurnsGrant
<1>7. CASE UNCHANGED vars
  BY <1>7, TurnsFrame DEF vars, trackers, banks, Same
<1> QED BY <1>6, <1>7

-----------------------------------------------------------------------------
(***************************************************************************)
(* Data.  The bit a map holds for a line is what an update in progress is  *)
(* about to make it, if there is one.  With AEA a line whose bit is 0 is   *)
(* empty, whatever the memory holds.  With these two corrections (Bit0,    *)
(* Bit1 and Eff0, Eff1) the table holds the tags last written, but for the *)
(* writes whose update has not reached the table.                          *)
(***************************************************************************)
Settles0(u, l) == tc_state[u] = "TM0W" /\ Line(u) = l
Settles1(u, m) == tc_state[u] = "TM1W" /\ MLine(u) = m

Bit1(m) ==
  IF \E u \in Mem : Settles1(u, m)
  THEN \E u \in Mem : Settles1(u, m) /\ tm0_any(flag[u])
  ELSE <<m, MapBit>> \in View(Up[m])

Eff1(m) == IF NLevel > 2 /\ AEA /\ ~ Bit1(m) THEN {} ELSE View(m)

Bit0(l) ==
  IF \E u \in Mem : Settles0(u, l)
  THEN \E u \in Mem : Settles0(u, l) /\ tt_any(flag[u])
  ELSE <<l, MapBit>> \in Eff1(Up[l])

Eff0(l) == IF NLevel > 1 /\ AEA /\ ~ Bit0(l) THEN {} ELSE View(l)

EffTags(b) == {i \in Bits : <<b, i>> \in Eff0(Up[b])}

\* Not the configuration in which a search can race with an update.
NoRace == NLevel < 3 \/ ~ AEA \/ NMem = 1

\* Tracker u has a write of block b that has not reached the table.
PreWrite(u, b) ==
  xact[u].blk = b /\ xact[u].rw /\ tc_state[u] \notin {"IDLE", "TM0W", "TM1W"}

BlockOK(b) ==
  /\ (\A u \in Mem : ~ PreWrite(u, b)) => EffTags(b) = tags[b]
  /\ \A u \in Mem : PreWrite(u, b) =>
       /\ EffTags(b) \ xact[u].mask = tags[b] \ xact[u].mask
       /\ mem_data[u] \cap xact[u].mask = tags[b] \cap xact[u].mask

\* The table holds what was written.
TableOK == \A b \in Blocks : BlockOK(b)

Updates == {"TM1L", "TM0L", "TTL", "TTW"}

\* An update has something to change.
UpdateOK(u) ==
  \A b \in Blocks :
    xact[u].blk = b /\ tc_state[u] \in Updates =>
      xact[u].rw /\ mem_data[u] = tags[b] /\ EffTags(b) # tags[b]

UpdatesOK == \A u \in Mem : UpdateOK(u)

\* A map bit that is 0 stands for an empty line.
MapsOK ==
  /\ NLevel > 1 => \A l \in TTLines : ~ Bit0(l) => Eff0(l) = {}
  /\ NLevel > 2 => \A m \in TM0Lines : ~ Bit1(m) => Eff1(m) = {}

TagMask(u) == {<<xact[u].blk, i>> : i \in xact[u].mask}

\* What the flags of an update say of the maps and of the table line.
FixedFlags(u) ==
  /\ NLevel < 3 => flag[u].tm1_tag1
  /\ NLevel < 2 => flag[u].tm0_tag1

ReadTM1(u) ==
  \A m \in TM0Lines :
    MLine(u) = m /\ NLevel > 2 /\ tc_state[u] \in {"TM0L", "TTL", "TTW", "TM0W", "TM1W"} =>
      (flag[u].tm1_tag1 <=> <<m, MapBit>> \in View(Up[m]))

ReadTM0(u) ==
  \A l \in TTLines :
    Line(u) = l /\ NLevel > 1 /\ tc_state[u] \in {"TTL", "TTW", "TM0W"} =>
      (flag[u].tm0_tag1 <=> <<l, MapBit>> \in Eff1(Up[l]))

RestTT(u) ==
  \A l \in TTLines :
    Line(u) = l /\ NLevel > 1 /\ tc_state[u] = "TTW" /\ ~ tt_any(flag[u]) =>
      Eff0(l) \ TagMask(u) = {}

RestTM0(u) ==
  \A l \in TTLines :
    /\ Line(u) = l /\ NLevel > 2 /\ tc_state[u] \in {"TTL", "TTW", "TM0W"}
    /\ flag[u].tm0_tag1 /\ ~ flag[u].tm0_tagN
    => Eff1(Up[l]) \ BitsOf(l) = {}

Consistent(u) ==
  /\ tc_state[u] \in {"TM0W", "TM1W"} => xact[u].rw
  /\ tc_state[u] = "TTW" => (flag[u].tt_tag1 <=> mem_data[u] \cap xact[u].mask # {})
  /\ tc_state[u] \in {"TTW", "TM0W", "TM1W"} /\ ~ flag[u].tm0_tag1 => flag[u].tt_tag1
  /\ tc_state[u] \in {"TTW", "TM0W"} /\ flag[u].tt_tagN => flag[u].tm0_tag1

FlagOK(u) ==
  FixedFlags(u) /\ ReadTM1(u) /\ ReadTM0(u) /\ RestTT(u) /\ RestTM0(u) /\ Consistent(u)

FlagsOK == \A u \in Mem : FlagOK(u)

\* With AEA only lines whose bit is 1 are in the cache or about to be fetched.
CachedLive ==
  AEA => /\ NLevel > 1 => \A l \in TTLines : Cached(l) => Bit0(l)
         /\ NLevel > 2 => \A m \in TM0Lines : Cached(m) => Bit1(m)

FetchOK(t) ==
  AEA => \A l \in TTLines :
           Line(t) = l => /\ NLevel > 1 /\ tc_state[t] = "TTF"  => Bit0(l)
                          /\ NLevel > 2 /\ tc_state[t] = "TM0F" => Bit1(Up[l])

FetchLive == \A t \in Mem : FetchOK(t)

DataInv ==
  NoRace /\ TableOK /\ UpdatesOK /\ MapsOK /\ FlagsOK /\ CachedLive /\ FetchLive /\ ReadCorrect

AllInv == Base /\ ControlInv /\ LineInv /\ TurnsOK /\ DataInv

\* The lines of a tracker exist (Up).
LEMMA TrackerLines ==
  ASSUME TrackersOK, NEW u \in Mem
  PROVE  /\ xact[u].blk \in Blocks /\ Line(u) \in TTLines /\ Line(u) \in Lines
         /\ Line(u) \notin Blocks
         /\ NLevel > 1 => /\ Line(u) \in Holds /\ MLine(u) \in TM0Lines /\ MLine(u) \in Lines
                          /\ Up[Line(u)] = MLine(u)
         /\ NLevel > 2 => /\ MLine(u) \in Holds /\ MLine(u) \notin Blocks
                          /\ Up[MLine(u)] \in TM1Lines /\ Up[MLine(u)] \in Lines
<1>1. xact[u].blk \in Blocks
  BY DEF TrackersOK
<1>2. NLevel \in {1, 2, 3}
  BY FirstLockIs
<1>3. /\ Up[xact[u].blk] \in TTLines /\ Up[xact[u].blk] \notin Blocks
      /\ NLevel > 1 => Up[xact[u].blk] \in Holds /\ Up[Up[xact[u].blk]] \in TM0Lines
      /\ NLevel > 2 => Up[Up[xact[u].blk]] \in Holds /\ Up[Up[xact[u].blk]] \notin Blocks
  BY <1>1, UpFacts
<1>4. NLevel > 2 => Up[Up[Up[xact[u].blk]]] \in TM1Lines
  BY <1>3, TagCacheAssumption
<1> QED BY <1>1, <1>2, <1>3, <1>4 DEF Line, MLine, Lines

\* The lines of the levels exist (Up).
LEMMA LevelLines ==
  /\ TTLines \subseteq Lines
  /\ NLevel > 1 => TM0Lines \subseteq Lines /\ \A l \in TTLines : l \in Holds /\ Up[l] \in TM0Lines
  /\ NLevel > 2 => \A m \in TM0Lines : m \in Holds /\ Up[m] \in TM1Lines /\ Up[m] \in Lines
<1>1. NLevel \in {1, 2, 3}
  BY FirstLockIs
<1> QED BY <1>1, TagCacheAssumption DEF Lines, Holds

\* A lock has one holder.
LEMMA HeldOnce ==
  ASSUME Base, ControlInv, NEW u \in Mem, NEW v \in Mem, NEW h \in Holds, Held(u, h), Held(v, h)
  PROVE  u = v
<1>1. PICK s \in Slots : lock_vec[s].lock /\ lock_vec[s].id = u /\ lock_vec[s].hold = h
  BY DEF ControlInv, LockTaken, HasLock
<1>2. PICK r \in Slots : lock_vec[r].lock /\ lock_vec[r].id = v /\ lock_vec[r].hold = h
  BY DEF ControlInv, LockTaken, HasLock
<1>3. Clash(lock_vec[s].hold, lock_vec[r].hold)
  BY <1>1, <1>2 DEF Clash
<1> QED BY <1>1, <1>2, <1>3 DEF Base, LockInv, LockExclusion

\* Two updates that have locked work on different lines, with three levels under different
\* lines of map 0.
LEMMA Own ==
  ASSUME Base, ControlInv, NEW u \in Mem, NEW v \in Mem
  PROVE  /\ /\ NLevel > 1 /\ Line(u) = Line(v)
            /\ tc_state[u] \in {"TTL", "TTW", "TM0W"} /\ tc_state[v] \in {"TTL", "TTW", "TM0W"}
            => u = v
         /\ /\ NLevel > 2 /\ MLine(u) = MLine(v)
            /\ tc_state[u] \in {"TM0L", "TTL", "TTW", "TM0W", "TM1W"}
            /\ tc_state[v] \in {"TM0L", "TTL", "TTW", "TM0W", "TM1W"}
            => u = v
<1>1. TrackersOK
  BY DEF Base, TypeOK
<1>2. /\ NLevel > 1 => Line(u) \in Holds
      /\ NLevel > 2 => MLine(u) \in Holds
  BY <1>1, TrackerLines
<1>3. ASSUME NLevel > 1, Line(u) = Line(v), tc_state[u] \in {"TTL", "TTW", "TM0W"},
             tc_state[v] \in {"TTL", "TTW", "TM0W"}
      PROVE  u = v
  <2>1. Held(u, Line(u)) /\ Held(v, Line(u))
    BY <1>3 DEF Held, HeldTM0, Line
  <2> QED BY <1>2, <1>3, <2>1, HeldOnce
<1>4. ASSUME NLevel > 2, MLine(u) = MLine(v),
             tc_state[u] \in {"TM0L", "TTL", "TTW", "TM0W", "TM1W"},
             tc_state[v] \in {"TM0L", "TTL", "TTW", "TM0W", "TM1W"}
      PROVE  u = v
  <2>1. Held(u, MLine(u)) /\ Held(v, MLine(u))
    BY <1>4 DEF Held, HeldTM1, MLine, Line
  <2> QED BY <1>2, <1>4, <2>1, HeldOnce
<1> QED BY <1>3, <1>4

\* The bit of a line that is being settled, and of one that is not.
LEMMA BitValues ==
  ASSUME Base, ControlInv
  PROVE  /\ \A u \in Mem : \A l :
              NLevel > 1 /\ Settles0(u, l) => (Bit0(l) <=> tt_any(flag[u]))
         /\ \A u \in Mem : \A m :
              NLevel > 2 /\ Settles1(u, m) => (Bit1(m) <=> tm0_any(flag[u]))
         /\ \A l : (\A u \in Mem : ~ Settles0(u, l)) => (Bit0(l) <=> <<l, MapBit>> \in Eff1(Up[l]))
         /\ \A m : (\A u \in Mem : ~ Settles1(u, m)) => (Bit1(m) <=> <<m, MapBit>> \in View(Up[m]))
<1>1. ASSUME NEW u \in Mem, NEW l, NLevel > 1, Settles0(u, l)
      PROVE  Bit0(l) <=> tt_any(flag[u])
  <2>1. \A v \in Mem : Settles0(v, l) => v = u
    BY <1>1, Own DEF Settles0
  <2> QED BY <1>1, <2>1 DEF Bit0
<1>2. ASSUME NEW u \in Mem, NEW m, NLevel > 2, Settles1(u, m)
      PROVE  Bit1(m) <=> tm0_any(flag[u])
  <2>1. \A v \in Mem : Settles1(v, m) => v = u
    BY <1>2, Own DEF Settles1
  <2> QED BY <1>2, <2>1 DEF Bit1
<1>3. \A l : (\A u \in Mem : ~ Settles0(u, l)) => (Bit0(l) <=> <<l, MapBit>> \in Eff1(Up[l]))
  BY DEF Bit0
<1>4. \A m : (\A u \in Mem : ~ Settles1(u, m)) => (Bit1(m) <=> <<m, MapBit>> \in View(Up[m]))
  BY DEF Bit1
<1> QED BY <1>1, <1>2, <1>3, <1>4

-----------------------------------------------------------------------------
(***************************************************************************)
(* Steps that leave the table and the maps alone.                          *)
(***************************************************************************)

\* The registers of u that a search or an update reads stay.
Kept(u) ==
  /\ tc_state'[u] = tc_state[u] /\ xact'[u] = xact[u]
  /\ mem_data'[u] = mem_data[u] /\ flag'[u] = flag[u]

TableSame ==
  \A l \in TTLines : Eff0(l)' = Eff0(l) /\ (NLevel > 1 => (Bit0(l)' <=> Bit0(l)))

Map0Same ==
  NLevel > 1 =>
    \A m \in TM0Lines : Eff1(m)' = Eff1(m) /\ (NLevel > 2 => (Bit1(m)' <=> Bit1(m)))

Map1Same == NLevel > 2 => \A r \in TM1Lines : View(r)' = View(r)

\* Without a write nothing changes but by the end of an update of the maps.
LEMMA EffFrame ==
  ASSUME \A l \in Lines : View(l)' = View(l),
         \A u \in Mem : tc_state[u] \in {"TM0W", "TM1W"} \/ tc_state'[u] \in {"TM0W", "TM1W"}
                          => Kept(u)
  PROVE  TableSame /\ Map0Same /\ Map1Same
<1>1. \A u \in Mem : \A l :
        /\ Settles0(u, l)' <=> Settles0(u, l)
        /\ Settles0(u, l) => (tt_any(flag[u])' <=> tt_any(flag[u]))
        /\ Settles1(u, l)' <=> Settles1(u, l)
        /\ Settles1(u, l) => (tm0_any(flag[u])' <=> tm0_any(flag[u]))
  BY DEF Settles0, Settles1, Kept, Line, MLine
<1>2. ASSUME NLevel > 2, NEW m \in TM0Lines
      PROVE  Bit1(m)' <=> Bit1(m)
  <2>1. View(Up[m])' = View(Up[m])
    BY <1>2, LevelLines
  <2> QED BY <1>1, <2>1 DEF Bit1
<1>3. ASSUME NLevel > 1, NEW m \in TM0Lines
      PROVE  Eff1(m)' = Eff1(m)
  <2>1. View(m)' = View(m)
    BY <1>3, LevelLines
  <2> QED BY <1>2, <2>1 DEF Eff1
<1>4. ASSUME NLevel > 1, NEW l \in TTLines
      PROVE  Bit0(l)' <=> Bit0(l)
  <2>1. Eff1(Up[l])' = Eff1(Up[l])
    BY <1>3, <1>4, LevelLines
  <2> QED BY <1>1, <2>1 DEF Bit0
<1>5. ASSUME NEW l \in TTLines
      PROVE  Eff0(l)' = Eff0(l)
  <2>1. View(l)' = View(l)
    BY LevelLines
  <2> QED BY <1>4, <2>1 DEF Eff0
<1>6. Map1Same
  BY DEF Map1Same, Lines
<1> QED BY <1>2, <1>3, <1>4, <1>5, <1>6 DEF TableSame, Map0Same

\* The tags of a block are those of its line.
LEMMA TagsFrame ==
  ASSUME TableSame, NEW b \in Blocks
  PROVE  EffTags(b)' = EffTags(b)
<1>1. Up[b] \in TTLines
  BY UpFacts
<1> QED BY <1>1 DEF TableSame, EffTags

\* What is known of a tracker's search and update stays with the table and the maps.
LEMMA TrackerFrame ==
  ASSUME TrackersOK, TableSame, Map0Same, Map1Same, NEW u \in Mem, Kept(u),
         tc_state[u] \in Updates => tags'[xact[u].blk] = tags[xact[u].blk],
         UpdateOK(u), FlagOK(u), FetchOK(u)
  PROVE  UpdateOK(u)' /\ FlagOK(u)' /\ FetchOK(u)'
<1>1. Line(u)' = Line(u) /\ MLine(u)' = MLine(u) /\ TagMask(u)' = TagMask(u)
  BY DEF Line, MLine, TagMask, Kept
<1>2. UpdateOK(u)'
  <2>1. \A b \in Blocks : EffTags(b)' = EffTags(b)
    BY TagsFrame
  <2> QED BY <2>1 DEF UpdateOK, Kept
<1>3. FixedFlags(u)' /\ Consistent(u)'
  <2>1. FixedFlags(u) /\ Consistent(u)
    BY DEF FlagOK
  <2>2. FixedFlags(u)'
    BY <2>1 DEF FixedFlags, Kept
  <2>3. Consistent(u)'
    BY <2>1 DEF Consistent, Kept
  <2> QED BY <2>2, <2>3
<1>4. ReadTM1(u)'
  <2>1. ASSUME NLevel > 2, NEW m \in TM0Lines PROVE View(Up[m])' = View(Up[m])
    <3>1. Up[m] \in TM1Lines
      BY <2>1, LevelLines
    <3> QED BY <2>1, <3>1 DEF Map1Same
  <2> QED BY <1>1, <2>1 DEF FlagOK, ReadTM1, Kept
<1>5. NLevel > 1 => \A l \in TTLines : Eff1(Up[l])' = Eff1(Up[l])
  BY LevelLines DEF Map0Same
<1>6. ReadTM0(u)'
  BY <1>1, <1>5 DEF FlagOK, ReadTM0, Kept
<1>7. RestTT(u)'
  BY <1>1 DEF FlagOK, RestTT, TableSame, Kept, tt_any
<1>8. RestTM0(u)'
  BY <1>1, <1>5, FirstLockIs DEF FlagOK, RestTM0, Kept
<1>9. FetchOK(u)'
  <2>1. NLevel > 2 => \A l \in TTLines : Bit1(Up[l])' <=> Bit1(Up[l])
    BY LevelLines, FirstLockIs DEF Map0Same
  <2> QED BY <1>1, <2>1 DEF FetchOK, TableSame, Kept
<1> QED BY <1>2, <1>3, <1>4, <1>6, <1>7, <1>8, <1>9 DEF FlagOK

\* What is known of the writes to a block stays with the table.
LEMMA BlockFrame ==
  ASSUME NEW b \in Blocks, BlockOK(b), EffTags(b)' = EffTags(b), tags'[b] = tags[b],
         \A u \in Mem : PreWrite(u, b)' <=> PreWrite(u, b),
         \A u \in Mem : PreWrite(u, b) =>
           /\ xact'[u] = xact[u]
           /\ mem_data'[u] \cap xact[u].mask = mem_data[u] \cap xact[u].mask
  PROVE  BlockOK(b)'
<1>1. ASSUME \A u \in Mem : ~ PreWrite(u, b)'
      PROVE  EffTags(b)' = tags'[b]
  BY <1>1 DEF BlockOK
<1>2. ASSUME NEW u \in Mem, PreWrite(u, b)'
      PROVE  /\ EffTags(b)' \ xact'[u].mask = tags'[b] \ xact'[u].mask
             /\ mem_data'[u] \cap xact'[u].mask = tags'[b] \cap xact'[u].mask
  <2>1. PreWrite(u, b)
    BY <1>2
  <2> QED BY <2>1 DEF BlockOK
<1> QED BY <1>1, <1>2 DEF BlockOK

\* A step that changes neither the table nor the maps nor what a tracker searches for.
LEMMA DataFrameAll ==
  ASSUME TrackersOK, DataInv, TableSame, Map0Same, Map1Same, UNCHANGED <<tags, mt_state>>,
         \A u \in Mem : Kept(u), CachedLive'
  PROVE  DataInv'
<1>1. \A u \in Mem : UpdateOK(u)' /\ FlagOK(u)' /\ FetchOK(u)'
  BY TrackerFrame DEF DataInv, UpdatesOK, FlagsOK, FetchLive
<1>2. TableOK'
  <2>1. \A b \in Blocks : EffTags(b)' = EffTags(b)
    BY TagsFrame
  <2>2. \A u \in Mem, b \in Blocks : PreWrite(u, b)' <=> PreWrite(u, b)
    BY DEF PreWrite, Kept
  <2>3. ASSUME NEW b \in Blocks PROVE BlockOK(b)'
    BY <2>1, <2>2, BlockFrame DEF DataInv, TableOK, Kept
  <2> QED BY <2>3 DEF TableOK
<1>3. MapsOK'
  BY FirstLockIs DEF DataInv, MapsOK, TableSame, Map0Same
<1>4. ReadCorrect'
  BY DEF DataInv, ReadCorrect, Kept
<1> QED BY <1>1, <1>2, <1>3, <1>4 DEF DataInv, UpdatesOK, FlagsOK, FetchLive, NoRace

ReadOK(t) ==
  mt_state[t] = "BUSY" /\ tc_state[t] = "IDLE" /\ ~ xact[t].rw => mem_data[t] = tags[xact[t].blk]

\* A step of tracker t that changes neither the table nor the maps.
LEMMA DataOne ==
  ASSUME TrackersOK, DataInv, TableSame, Map0Same, Map1Same, NEW t \in Mem,
         \A u \in Mem : u # t => Kept(u) /\ mt_state'[u] = mt_state[u],
         \A u \in Mem : u # t /\ tl_block(u) => tags'[xact[u].blk] = tags[xact[u].blk],
         UpdateOK(t)', FlagOK(t)', FetchOK(t)', ReadOK(t)', TableOK', CachedLive'
  PROVE  DataInv'
<1>1. ASSUME NEW u \in Mem PROVE UpdateOK(u)' /\ FlagOK(u)' /\ FetchOK(u)' /\ ReadOK(u)'
  <2>1. CASE u = t
    BY <2>1
  <2>2. CASE u # t
    <3>1. Kept(u) /\ mt_state'[u] = mt_state[u]
      BY <2>2
    <3>2. tc_state[u] \in Updates => tags'[xact[u].blk] = tags[xact[u].blk]
      BY <2>2 DEF Updates, tl_block
    <3>3. UpdateOK(u) /\ FlagOK(u) /\ FetchOK(u) /\ ReadOK(u)
      BY DEF DataInv, UpdatesOK, FlagsOK, FetchLive, ReadCorrect, ReadOK
    <3>4. UpdateOK(u)' /\ FlagOK(u)' /\ FetchOK(u)'
      BY <3>1, <3>2, <3>3, TrackerFrame
    <3>5. ReadOK(u)'
      BY <2>2, <3>1, <3>3 DEF ReadOK, Kept, tl_block
    <3> QED BY <3>4, <3>5
  <2> QED BY <2>1, <2>2
<1>2. MapsOK'
  BY FirstLockIs DEF DataInv, MapsOK, TableSame, Map0Same
<1>3. ReadCorrect'
  BY <1>1 DEF ReadCorrect, ReadOK
<1> QED BY <1>1, <1>2, <1>3 DEF DataInv, UpdatesOK, FlagsOK, FetchLive, NoRace

\* Lines that stay are seen as they were.
LEMMA ViewFrame ==
  ASSUME UNCHANGED lines
  PROVE  /\ \A l \in Lines : View(l)' = View(l)
         /\ \A l : Cached(l)' <=> Cached(l)
BY DEF lines, View, Cached

\* What is cached stays live with the bits of the maps.
LEMMA LiveFrame ==
  ASSUME CachedLive, TableSame, Map0Same, \A l \in Lines : Cached(l)' => Cached(l)
  PROVE  CachedLive'
<1>1. NLevel \in {1, 2, 3}
  BY FirstLockIs
<1> QED BY <1>1, LevelLines DEF CachedLive, TableSame, Map0Same

\* A new transaction (Acquire).
LEMMA DataAcquire ==
  ASSUME Base, DataInv, NEW t \in Mem, NEW b \in Blocks, NEW rw \in BOOLEAN,
         NEW mask \in SUBSET Bits, NEW data \in SUBSET Bits, NEW o \in Orders,
         Acquire(t, b, rw, mask, data, o)
  PROVE  DataInv'
<1>0. TypeOK /\ TrackersOK /\ tags \in [Blocks -> SUBSET Bits]
  BY DEF Base, TypeOK
<1>1. /\ tc_state[t] = "IDLE" /\ \A u \in Mem : tl_block(u) => xact[u].blk # b
      /\ \A u \in Mem : u # t => Kept(u) /\ mt_state'[u] = mt_state[u]
      /\ tc_state'[t] = StartState(o) /\ xact'[t] = [blk |-> b, rw |-> rw, mask |-> mask]
      /\ mem_data'[t] = data \cap mask /\ flag'[t] = flag[t]
      /\ UNCHANGED lines
  BY <1>0 DEF Acquire, Allocated, TrackersOK, Kept, tl_block
<1>2. /\ \A c \in Blocks : c # b => tags'[c] = tags[c]
      /\ ~ rw => tags' = tags
      /\ rw => tags'[b] = (tags[b] \ mask) \cup (data \cap mask)
  BY <1>0 DEF Acquire
<1>3. StartState(o) \in Searches /\ (StartState(o) = "TTF" => NLevel = 1)
      /\ (StartState(o) = "TM0F" => NLevel = 2)
  BY StartSearch
<1>4. TableSame /\ Map0Same /\ Map1Same
  <2>1. \A u \in Mem : tc_state[u] \in {"TM0W", "TM1W"} \/ tc_state'[u] \in {"TM0W", "TM1W"}
          => Kept(u)
    BY <1>1, <1>3 DEF Searches
  <2> QED BY <1>1, <2>1, ViewFrame, EffFrame
<1>5. \A u \in Mem : u # t /\ tl_block(u) => tags'[xact[u].blk] = tags[xact[u].blk]
  BY <1>0, <1>1, <1>2 DEF TrackersOK
<1>6. UpdateOK(t)' /\ FetchOK(t)' /\ ReadOK(t)'
  BY <1>1, <1>3 DEF UpdateOK, FetchOK, ReadOK, Updates, Searches
<1>7. FlagOK(t)'
  <2>1. FixedFlags(t)'
    BY <1>1 DEF DataInv, FlagsOK, FlagOK, FixedFlags
  <2> QED BY <1>1, <1>3, <2>1
          DEF FlagOK, ReadTM1, ReadTM0, RestTT, RestTM0, Consistent, Searches
<1>8. CachedLive'
  BY <1>1, <1>4, ViewFrame, LiveFrame DEF DataInv
<1>9. TableOK'
  <2>1. \A u \in Mem : u # t => \A c \in Blocks : PreWrite(u, c)' <=> PreWrite(u, c)
    BY <1>1 DEF PreWrite, Kept
  <2>2. \A u \in Mem : ~ PreWrite(u, b)
    BY <1>1 DEF PreWrite, tl_block
  <2>3. \A c \in Blocks : ~ PreWrite(t, c) /\ (PreWrite(t, c)' => c = b /\ rw)
    BY <1>1 DEF PreWrite
  <2>4. \A c \in Blocks : EffTags(c)' = EffTags(c)
    BY <1>4, TagsFrame
  <2>5. \A c \in Blocks : BlockOK(c)
    BY DEF DataInv, TableOK
  <2>6. ASSUME NEW c \in Blocks, c # b PROVE BlockOK(c)'
    <3>1. \A u \in Mem : PreWrite(u, c)' <=> PreWrite(u, c)
      BY <2>1, <2>3, <2>6
    <3>2. \A u \in Mem : PreWrite(u, c) => Kept(u)
      BY <1>1, <2>3
    <3> QED BY <1>2, <2>4, <2>5, <2>6, <3>1, <3>2, BlockFrame DEF Kept
  <2>7. EffTags(b)' = tags[b]
    BY <2>2, <2>4, <2>5 DEF BlockOK
  <2>8. BlockOK(b)'
    <3>1. CASE ~ rw
      <4>1. \A u \in Mem : ~ PreWrite(u, b)'
        BY <2>1, <2>2, <2>3, <3>1
      <4> QED BY <1>2, <2>7, <3>1, <4>1 DEF BlockOK
    <3>2. CASE rw
      <4>1. \A u \in Mem : PreWrite(u, b)' => u = t
        BY <2>1, <2>2
      <4>2. PreWrite(t, b)'
        BY <1>1, <1>3, <3>2 DEF PreWrite, Searches
      <4>3. tags'[b] \ mask = tags[b] \ mask /\ tags'[b] \cap mask = data \cap mask
        BY <1>2, <3>2
      <4>4. /\ EffTags(b)' \ xact'[t].mask = tags'[b] \ xact'[t].mask
            /\ mem_data'[t] \cap xact'[t].mask = tags'[b] \cap xact'[t].mask
        BY <1>1, <2>7, <4>3
      <4> QED BY <4>1, <4>2, <4>4 DEF BlockOK
    <3> QED BY <3>1, <3>2
  <2> QED BY <2>6, <2>8 DEF TableOK
<1> QED BY <1>0, <1>1, <1>4, <1>5, <1>6, <1>7, <1>8, <1>9, DataOne

\* The end of the memory side of a transaction (Retire).
LEMMA DataRetire ==
  ASSUME Base, DataInv, NEW t \in Mem, Retire(t)
  PROVE  DataInv'
<1>0. TypeOK /\ TrackersOK
  BY DEF Base, TypeOK
<1>1. /\ mt_state'[t] = "IDLE" /\ UNCHANGED <<tc_state, cache, mem, tags>>
      /\ \A u \in Mem : u # t \/ tc_state[t] # "IDLE" => Same(u)
      /\ \A u \in Mem : u # t => mt_state'[u] = mt_state[u]
      /\ tc_state[t] = "IDLE" => flag'[t] = ResetFlags
  BY <1>0, RetireEffect
<1>2. \A u \in Mem : u # t \/ tc_state[t] # "IDLE" => Kept(u)
  BY <1>1 DEF Same, Kept
<1>3. TableSame /\ Map0Same /\ Map1Same
  <2>1. \A u \in Mem : tc_state[u] \in {"TM0W", "TM1W"} \/ tc_state'[u] \in {"TM0W", "TM1W"}
          => Kept(u)
    BY <1>1, <1>2
  <2> QED BY <1>1, <2>1, ViewFrame, EffFrame DEF lines
<1>4. UpdateOK(t)' /\ FlagOK(t)' /\ FetchOK(t)'
  <2>1. CASE tc_state[t] # "IDLE"
    BY <1>0, <1>1, <1>2, <1>3, <2>1, TrackerFrame DEF DataInv, UpdatesOK, FlagsOK, FetchLive
  <2>2. CASE tc_state[t] = "IDLE"
    <3>1. tc_state'[t] = "IDLE" /\ FixedFlags(t)'
      BY <1>1, <2>2 DEF FixedFlags, ResetFlags
    <3> QED BY <3>1 DEF UpdateOK, Updates, FetchOK, FlagOK, ReadTM1, ReadTM0, RestTT, RestTM0,
                        Consistent
  <2> QED BY <2>1, <2>2
<1>5. ReadOK(t)'
  BY <1>1 DEF ReadOK
<1>6. CachedLive'
  BY <1>1, <1>3, ViewFrame, LiveFrame DEF DataInv, lines
<1>7. TableOK'
  <2>1. \A u \in Mem, c \in Blocks : PreWrite(u, c)' <=> PreWrite(u, c)
    BY <1>1, <1>2 DEF PreWrite, Kept
  <2>2. \A u \in Mem, c \in Blocks : PreWrite(u, c) => Kept(u)
    BY <1>1, <1>2 DEF PreWrite
  <2>3. ASSUME NEW c \in Blocks PROVE BlockOK(c)'
    <3>1. EffTags(c)' = EffTags(c) /\ BlockOK(c)
      BY <1>3, TagsFrame DEF DataInv, TableOK
    <3> QED BY <1>1, <2>1, <2>2, <3>1, BlockFrame DEF Kept
  <2> QED BY <2>3 DEF TableOK
<1> QED BY <1>0, <1>1, <1>2, <1>3, <1>4, <1>5, <1>6, <1>7, DataOne

\* Steps of the banks that answer no tracker and change no line (Grant, Finish of a write).
LEMMA DataQuiet ==
  ASSUME Base, DataInv, UNCHANGED <<mt_state, tc_state, xact, mem_data, flag, cache, mem, tags>>
  PROVE  DataInv'
<1>1. \A u \in Mem : Kept(u)
  BY DEF Kept
<1>2. TableSame /\ Map0Same /\ Map1Same
  BY <1>1, ViewFrame, EffFrame DEF lines
<1>3. CachedLive'
  BY <1>2, ViewFrame, LiveFrame DEF DataInv, lines
<1> QED BY <1>1, <1>2, <1>3, DataFrameAll DEF Base, TypeOK

\* The op of a request by its state (OpOf).
LEMMA OpIs ==
  ASSUME NEW t \in Mem
  PROVE  /\ OpOf(t) \in {"FR", "FL"} => tc_state[t] \in {"TM1F", "TM0F", "TTF", "TM1L", "TM0L", "TTL"}
         /\ OpOf(t) \in {"FR", "FL"} /\ tc_state[t] = "TM0L" => flag[t].tm1_tag1 \/ NLevel <= 2
         /\ OpOf(t) \in {"FR", "FL"} /\ tc_state[t] = "TTL" => flag[t].tm0_tag1
BY DEF OpOf

\* What an update that holds the lock of its map bits has read of them.
LEMMA OwnBits ==
  ASSUME Base, ControlInv, FlagsOK, NEW u \in Mem
  PROVE  /\ /\ NLevel > 2 /\ tc_state[u] \in {"TM0L", "TTL", "TTW", "TM0W"}
            => (Bit1(MLine(u)) <=> flag[u].tm1_tag1)
         /\ /\ NLevel > 1 /\ tc_state[u] \in {"TTL", "TTW"}
            => (Bit0(Line(u)) <=> flag[u].tm0_tag1)
<1>1. TrackersOK
  BY DEF Base, TypeOK
<1>2. FlagOK(u)
  BY DEF FlagsOK
<1>3. ASSUME NLevel > 2, tc_state[u] \in {"TM0L", "TTL", "TTW", "TM0W"}
      PROVE  Bit1(MLine(u)) <=> flag[u].tm1_tag1
  <2>1. PICK m \in TM0Lines : m = MLine(u)
    BY <1>1, <1>3, TrackerLines, FirstLockIs
  <2>2. \A v \in Mem : ~ Settles1(v, m)
    BY <1>3, <2>1, Own DEF Settles1
  <2>3. Bit1(m) <=> <<m, MapBit>> \in View(Up[m])
    BY <2>2, BitValues
  <2> QED BY <1>2, <1>3, <2>1, <2>3 DEF FlagOK, ReadTM1
<1>4. ASSUME NLevel > 1, tc_state[u] \in {"TTL", "TTW"}
      PROVE  Bit0(Line(u)) <=> flag[u].tm0_tag1
  <2>1. PICK l \in TTLines : l = Line(u)
    BY <1>1, TrackerLines
  <2>2. \A v \in Mem : ~ Settles0(v, l)
    BY <1>4, <2>1, Own DEF Settles0
  <2>3. Bit0(l) <=> <<l, MapBit>> \in Eff1(Up[l])
    BY <2>2, BitValues
  <2> QED BY <1>2, <1>4, <2>1, <2>3 DEF FlagOK, ReadTM0
<1> QED BY <1>3, <1>4

\* A lookup for a search or a lock fetches lines, but only those whose bit is 1 (Lookup).
LEMMA DataSearchLookup ==
  ASSUME Base, ControlInv, LineInv, DataInv, NEW k \in Banks, Lookup(k), ~ isWrite(bank[k].op)
  PROVE  DataInv'
<1> DEFINE t == bank[k].id
<1>0. TrackersOK
  BY DEF Base, TypeOK
<1>1. PICK l \in Lines : l = LineOf(k)
  BY LineType DEF Base
<1>2. PICK x : x = bank[k]
  OBVIOUS
<1>3. /\ \A m \in Lines : m # l => View(m)' = View(m) /\ (Cached(m)' => Cached(m))
      /\ x.op \in {"L", "U", "R"} => UNCHANGED lines
      /\ x.op \in {"FR", "FL"} => View(l)' = View(l)
  BY <1>1, <1>2, LookupLines DEF LineInv
<1>4. UNCHANGED trackers /\ UNCHANGED tags /\ Owes(k, t)
  BY LookupEffect
<1>5. t \in Mem /\ x.op = OpOf(t) /\ l = Up[HoldOf(t)]
  BY <1>1, <1>2, <1>4, AtBank DEF LineOf
<1>6. x.op \in {"L", "U", "R", "FR", "FL"}
  <2>1. x.op \in TCTagOp
    BY <1>2 DEF Base, TypeOK, BanksOK, TagXacts
  <2> QED BY <1>2, <2>1 DEF TCTagOp, isWrite
<1>7. \A m \in Lines : View(m)' = View(m)
  BY <1>3, <1>6, ViewFrame
<1>8. \A u \in Mem : Kept(u)
  BY <1>4 DEF trackers, Kept
<1>9. TableSame /\ Map0Same /\ Map1Same
  BY <1>7, <1>8, EffFrame
<1>10. CachedLive'
  <2>1. CASE x.op \in {"L", "U", "R"}
    BY <1>3, <1>9, <2>1, ViewFrame, LiveFrame DEF DataInv
  <2>2. CASE x.op \in {"FR", "FL"} /\ AEA
    <3>1. /\ tc_state[t] \in {"TM1F", "TM0F", "TTF", "TM1L", "TM0L", "TTL"}
          /\ tc_state[t] = "TM0L" => flag[t].tm1_tag1 \/ NLevel <= 2
          /\ tc_state[t] = "TTL" => flag[t].tm0_tag1
      BY <1>5, <2>2, OpIs
    <3>2. /\ Line(t) \in TTLines
          /\ NLevel > 1 => MLine(t) \in TM0Lines /\ Up[Line(t)] = MLine(t)
          /\ NLevel > 2 => Up[MLine(t)] \in TM1Lines
      BY <1>0, <1>5, TrackerLines
    <3>3. /\ tc_state[t] \in {"TTF", "TTL"} => l = Line(t)
          /\ tc_state[t] \in {"TM0F", "TM0L"} => l = MLine(t)
          /\ tc_state[t] \in {"TM1F", "TM1L"} => l = Up[MLine(t)]
      BY <1>5, HoldIs DEF Line, MLine
    <3>4. /\ tc_state[t] \in {"TM0F", "TM0L"} => NLevel > 1
          /\ tc_state[t] \in {"TM1F", "TM1L"} => NLevel > 2
      BY <1>0, <1>5, StateKinds
    <3>5. NLevel > 1 /\ l \in TTLines => Bit0(l)
      <4>1. SUFFICES ASSUME NLevel > 1, l \in TTLines PROVE Bit0(l)
        OBVIOUS
      <4>2. tc_state[t] \in {"TTF", "TTL"}
        BY <3>1, <3>2, <3>3, <3>4, <4>1, TagCacheAssumption
      <4>3. CASE tc_state[t] = "TTF"
        BY <1>5, <2>2, <3>3, <4>1, <4>3 DEF DataInv, FetchLive, FetchOK
      <4>4. CASE tc_state[t] = "TTL"
        BY <1>5, <3>1, <3>3, <4>1, <4>4, OwnBits DEF DataInv
      <4> QED BY <4>2, <4>3, <4>4
    <3>6. NLevel > 2 /\ l \in TM0Lines => Bit1(l)
      <4>1. SUFFICES ASSUME NLevel > 2, l \in TM0Lines PROVE Bit1(l)
        OBVIOUS
      <4>2. NLevel \in {1, 2, 3}
        BY FirstLockIs
      <4>3. tc_state[t] \in {"TM0F", "TM0L"}
        BY <3>1, <3>2, <3>3, <3>4, <4>1, <4>2, TagCacheAssumption
      <4>4. CASE tc_state[t] = "TM0F"
        <5>1. l = Up[Line(t)]
          BY <3>2, <3>3, <4>1, <4>2, <4>4
        <5> QED BY <1>5, <2>2, <3>2, <4>1, <4>4, <5>1 DEF DataInv, FetchLive, FetchOK
      <4>5. CASE tc_state[t] = "TM0L"
        BY <1>5, <3>1, <3>3, <4>1, <4>2, <4>5, OwnBits DEF DataInv
      <4> QED BY <4>3, <4>4, <4>5
    <3>7. NLevel > 1 => \A j \in TTLines : Cached(j)' => Bit0(j)'
      <4>1. ASSUME NLevel > 1, NEW j \in TTLines, Cached(j)' PROVE Bit0(j)'
        <5>1. j \in Lines /\ (j # l => Cached(j))
          BY <1>3, <4>1, LevelLines
        <5>2. Bit0(j)
          BY <2>2, <3>5, <4>1, <5>1 DEF DataInv, CachedLive
        <5> QED BY <1>9, <4>1, <5>2 DEF TableSame
      <4> QED BY <4>1
    <3>8. NLevel > 2 => \A j \in TM0Lines : Cached(j)' => Bit1(j)'
      <4>1. ASSUME NLevel > 2, NEW j \in TM0Lines, Cached(j)' PROVE Bit1(j)'
        <5>1. j \in Lines /\ (j # l => Cached(j))
          BY <1>3, <4>1, LevelLines, FirstLockIs
        <5>2. Bit1(j)
          BY <2>2, <3>6, <4>1, <5>1 DEF DataInv, CachedLive
        <5> QED BY <1>9, <4>1, <5>2, FirstLockIs DEF Map0Same
      <4> QED BY <4>1
    <3> QED BY <3>7, <3>8 DEF CachedLive
  <2>3. CASE ~ AEA
    BY <2>3 DEF CachedLive
  <2> QED BY <1>6, <2>1, <2>2, <2>3
<1> QED BY <1>0, <1>4, <1>8, <1>9, <1>10, DataFrameAll DEF trackers

-----------------------------------------------------------------------------
(***************************************************************************)
(* Searches.  What a search finds are the tags of the table.               *)
(***************************************************************************)

\* A cached line counts.
LEMMA CachedEff ==
  ASSUME CachedLive
  PROVE  /\ \A l \in TTLines : Cached(l) => Eff0(l) = View(l)
         /\ \A m \in TM0Lines : Cached(m) => Eff1(m) = View(m)
BY DEF CachedLive, Eff0, Eff1

\* The answer to a read or a lock that has read the line.
LEMMA AnswerBits ==
  ASSUME LineInv, NEW k \in Banks, bank[k].state = "L", bank[k].op \in {"R", "FR", "FL"},
         NEW r, r = bank[k].resp, bank[k].op # "R" \/ r.hit, NEW l, l = LineOf(k),
         NEW h, h = bank[k].hold
  PROVE  /\ Cached(l) /\ r.data = RowPart(View(l), h) /\ r.tcnt = cache[l].tcnt
         /\ \A i : <<h, i>> \in r.data <=> <<h, i>> \in View(l)
<1>1. Cached(l) /\ r.data = RowPart(cache[l].data, h) /\ r.tcnt = cache[l].tcnt
  BY DEF LineInv, RespOK
<1>2. View(l) = cache[l].data
  BY <1>1 DEF View
<1> QED BY <1>1, <1>2 DEF RowPart

\* While a bank executes a request of t about a map bit, no other update is about to write it
\* or anything below it.
LEMMA NoSettlers ==
  ASSUME Base, ControlInv, NEW k \in Banks, bank[k].state # "IDLE", NEW t \in Mem,
         t = bank[k].id, bank[k].hold = HoldOf(t), tc_state[t] \in Searches, NLevel > 1
  PROVE  /\ HoldOf(t) = Line(t) => \A u \in Mem : ~ Settles0(u, Line(t))
         /\ NLevel > 2 /\ HoldOf(t) = MLine(t) =>
              \A u \in Mem : ~ Settles0(u, Line(t)) /\ ~ Settles1(u, MLine(t))
<1>0. TrackersOK
  BY DEF Base, TypeOK
<1>1. Line(t) \notin Blocks /\ (NLevel > 2 => MLine(t) \notin Blocks)
  BY <1>0, TrackerLines
<1>2. ASSUME HoldOf(t) = Line(t), NEW u \in Mem, Settles0(u, Line(t)) PROVE FALSE
  <2>1. Held(u, bank[k].hold) /\ is_map(bank[k].hold)
    BY <1>1, <1>2 DEF Settles0, Held, HeldTM0, Line, is_map
  <2>2. u = t
    BY <2>1, Alone
  <2> QED BY <1>2, <2>2 DEF Settles0, Searches
<1>3. ASSUME NLevel > 2, HoldOf(t) = MLine(t), NEW u \in Mem,
             Settles0(u, Line(t)) \/ Settles1(u, MLine(t))
      PROVE  FALSE
  <2>1. MLine(u) = MLine(t) /\ tc_state[u] \in {"TM0W", "TM1W"}
    BY <1>3 DEF Settles0, Settles1, MLine
  <2>2. Held(u, bank[k].hold) /\ is_map(bank[k].hold)
    BY <1>1, <1>3, <2>1 DEF Held, HeldTM1, MLine, Line, is_map
  <2>3. u = t
    BY <2>2, Alone
  <2> QED BY <2>1, <2>3 DEF Searches
<1> QED BY <1>2, <1>3

\* What the answer to a search says (NextTcState, NextMemData).
LEMMA SearchAnswer ==
  ASSUME Base, ControlInv, LineInv, DataInv, NEW k \in Banks, bank[k].state = "L",
         NEW t \in Mem, t = bank[k].id, Owes(k, t), tc_state[t] \in Searches,
         NEW r, r = bank[k].resp, NEW b \in Blocks, b = xact[t].blk
  PROVE  /\ tc_state[t] = "TTF" \/ (tc_state[t] = "TTR" /\ r.hit) => tt_rdata(t, r) = EffTags(b)
         /\ /\ tc_state[t] \in {"TM1F", "TM0F"} \/ (tc_state[t] = "TM0R" /\ r.hit)
            /\ ~ map_rdata(t, r)
            => EffTags(b) = {}
         /\ /\ tc_state[t] = "TM0F" \/ (tc_state[t] = "TM0R" /\ r.hit)
            /\ map_rdata(t, r)
            => Bit0(Up[b])
         /\ tc_state[t] = "TM1F" /\ map_rdata(t, r) => Bit1(Up[Up[b]])
<1>0. TrackersOK
  BY DEF Base, TypeOK
<1>1. bank[k].op = OpOf(t) /\ bank[k].hold = HoldOf(t) /\ bank[k].state # "IDLE"
  BY AtBank
<1>2. bank[k].op \in {"R", "FR"} /\ (tc_state[t] \in {"TM1F", "TM0F", "TTF"} => bank[k].op = "FR")
  BY <1>1 DEF OpOf, Searches
<1>3. PICK l : l = LineOf(k)
  OBVIOUS
<1>4. bank[k].op = "FR" \/ r.hit =>
        /\ Cached(l)
        /\ \A i : <<HoldOf(t), i>> \in r.data <=> <<HoldOf(t), i>> \in View(l)
  BY <1>1, <1>2, <1>3, AnswerBits
<1>5. /\ Line(t) = Up[b] /\ MLine(t) = Up[Up[b]] /\ Up[b] \in TTLines
      /\ NLevel > 1 => Up[Up[b]] \in TM0Lines
  BY UpFacts DEF Line, MLine
<1>6. NLevel \in {1, 2, 3}
  BY FirstLockIs
<1>7. /\ tc_state[t] \in {"TM0R", "TM0F", "TM1F"} => NLevel > 1
      /\ tc_state[t] \in {"TM0R", "TM1F"} => NLevel > 2
  BY <1>0, <1>6, StateKinds
<1>8. ASSUME tc_state[t] = "TTF" \/ (tc_state[t] = "TTR" /\ r.hit)
      PROVE  tt_rdata(t, r) = EffTags(b)
  <2>1. HoldOf(t) = b /\ l = Up[b]
    BY <1>1, <1>3, <1>8, HoldIs DEF LineOf
  <2>2. Eff0(Up[b]) = View(l)
    BY <1>2, <1>4, <1>5, <1>8, <2>1, CachedEff DEF DataInv
  <2> QED BY <1>2, <1>4, <1>8, <2>1, <2>2 DEF tt_rdata, EffTags
<1>9. ASSUME tc_state[t] = "TM0F" \/ (tc_state[t] = "TM0R" /\ r.hit)
      PROVE  map_rdata(t, r) <=> Bit0(Up[b])
  <2>1. HoldOf(t) = Up[b] /\ l = Up[Up[b]]
    BY <1>1, <1>3, <1>5, <1>9, HoldIs DEF LineOf
  <2>2. map_rdata(t, r) <=> <<Up[b], MapBit>> \in View(l)
    BY <1>2, <1>4, <1>9, <2>1 DEF map_rdata
  <2>3. Eff1(Up[Up[b]]) = View(l)
    BY <1>2, <1>4, <1>5, <1>7, <1>9, <2>1, CachedEff DEF DataInv
  <2>4. \A u \in Mem : ~ Settles0(u, Up[b])
    BY <1>1, <1>5, <1>7, <1>9, <2>1, NoSettlers
  <2>5. Bit0(Up[b]) <=> <<Up[b], MapBit>> \in Eff1(Up[Up[b]])
    BY <2>4, BitValues
  <2> QED BY <2>2, <2>3, <2>5
<1>10. ASSUME tc_state[t] = "TM1F"
       PROVE  /\ map_rdata(t, r) <=> Bit1(Up[Up[b]])
              /\ ~ Bit1(Up[Up[b]]) => ~ Bit0(Up[b])
  <2>1. HoldOf(t) = Up[Up[b]] /\ l = Up[Up[Up[b]]]
    BY <1>1, <1>3, <1>5, <1>10, HoldIs DEF LineOf
  <2>2. map_rdata(t, r) <=> <<Up[Up[b]], MapBit>> \in View(l)
    BY <1>2, <1>4, <1>10, <2>1 DEF map_rdata
  <2>3. \A u \in Mem : ~ Settles0(u, Up[b]) /\ ~ Settles1(u, Up[Up[b]])
    BY <1>1, <1>5, <1>7, <1>10, <2>1, NoSettlers
  <2>4. /\ Bit1(Up[Up[b]]) <=> <<Up[Up[b]], MapBit>> \in View(l)
        /\ Bit0(Up[b]) <=> <<Up[b], MapBit>> \in Eff1(Up[Up[b]])
    BY <2>1, <2>3, BitValues
  <2>5. ~ Bit1(Up[Up[b]]) => Eff1(Up[Up[b]]) = {}
    BY <1>5, <1>6, <1>7, <1>10 DEF DataInv, MapsOK
  <2> QED BY <2>2, <2>4, <2>5
<1>11. NLevel > 1 /\ ~ Bit0(Up[b]) => EffTags(b) = {}
  BY <1>5 DEF DataInv, MapsOK, EffTags
<1> QED BY <1>7, <1>8, <1>9, <1>10, <1>11

\* A search goes on or ends with the tags of the table (NextTcState, NextMemData).
LEMMA SearchGoes ==
  ASSUME Base, ControlInv, LineInv, DataInv, NEW k \in Banks, bank[k].state = "L",
         NEW t \in Mem, t = bank[k].id, Owes(k, t), tc_state[t] \in Searches,
         NEW r, r = bank[k].resp, NEW b \in Blocks, b = xact[t].blk
  PROVE  \/ /\ NextTcState(t, r) = Found(t, EffTags(b))
            /\ NextMemData(t, r) = Merge(t, EffTags(b))
         \/ /\ NextTcState(t, r) \in {"TM0R", "TM0F", "TM1F", "TTF"}
            /\ NextMemData(t, r) = mem_data[t]
            /\ NextTcState(t, r) = "TTF" /\ NLevel > 1 => Bit0(Up[b])
            /\ NextTcState(t, r) = "TM0F" /\ NLevel > 2 => Bit1(Up[Up[b]])
<1>0. TrackersOK
  BY DEF Base, TypeOK
<1>1. /\ tc_state[t] = "TTF" \/ (tc_state[t] = "TTR" /\ r.hit) => tt_rdata(t, r) = EffTags(b)
      /\ /\ tc_state[t] \in {"TM1F", "TM0F"} \/ (tc_state[t] = "TM0R" /\ r.hit)
         /\ ~ map_rdata(t, r)
         => EffTags(b) = {}
      /\ /\ tc_state[t] = "TM0F" \/ (tc_state[t] = "TM0R" /\ r.hit)
         /\ map_rdata(t, r)
         => Bit0(Up[b])
      /\ tc_state[t] = "TM1F" /\ map_rdata(t, r) => Bit1(Up[Up[b]])
  BY SearchAnswer
<1>2. CASE tc_state[t] = "TTF"
  BY <1>1, <1>2 DEF NextTcState, NextMemData
<1>3. CASE tc_state[t] = "TTR"
  <2>1. NextTcState(t, r) = "TM0F" => NLevel = 2 \/ r.hit
    BY <1>0, <1>3, Enters
  <2>2. CASE r.hit
    BY <1>1, <1>3, <2>2 DEF NextTcState, NextMemData
  <2>3. CASE ~ r.hit
    BY <1>3, <2>1, <2>3 DEF NextTcState, NextMemData
  <2> QED BY <2>2, <2>3
<1>4. CASE tc_state[t] = "TM0R"
  <2>1. CASE r.hit
    BY <1>1, <1>4, <2>1 DEF NextTcState, NextMemData
  <2>2. CASE ~ r.hit
    BY <1>4, <2>2 DEF NextTcState, NextMemData
  <2> QED BY <2>1, <2>2
<1>5. CASE tc_state[t] = "TM0F"
  BY <1>1, <1>5 DEF NextTcState, NextMemData
<1>6. CASE tc_state[t] = "TM1F"
  BY <1>1, <1>6 DEF NextTcState, NextMemData
<1> QED BY <1>2, <1>3, <1>4, <1>5, <1>6 DEF Searches

\* The answer to a search (Finish).
LEMMA DataSearch ==
  ASSUME Base, ControlInv, LineInv, DataInv, NEW k \in Banks, Finish(k),
         NEW t \in Mem, t = bank[k].id, ~ isWrite(bank[k].op), tc_state[t] \in Searches
  PROVE  DataInv'
<1>0. TrackersOK /\ tags \in [Blocks -> SUBSET Bits]
  BY DEF Base, TypeOK
<1>1. PICK r : r = bank[k].resp
  OBVIOUS
<1>2. PICK b \in Blocks : b = xact[t].blk
  BY <1>0 DEF TrackersOK
<1>3. bank[k].state = "L" /\ Owes(k, t) /\ Respond(t, r) /\ UNCHANGED lines /\ UNCHANGED tags
  BY <1>1, FinishEffect
<1>4. /\ UNCHANGED mt_state
      /\ tc_state'[t] = NextTcState(t, r)
      /\ \A u \in Mem : u # t => Same(u)
      /\ tc_state'[t] # "IDLE" \/ mt_state[t] # "IDLE" =>
           /\ xact'[t] = xact[t]
           /\ mem_data'[t] = NextMemData(t, r)
           /\ flag'[t] = NextFlag(t, r)
      /\ tc_state'[t] = "IDLE" /\ mt_state[t] = "IDLE" => flag'[t] = ResetFlags
  BY <1>0, <1>3, RespondFacts
<1>5. NextFlag(t, r) = flag[t]
  BY DEF NextFlag, Searches
<1>6. tc_state'[t] \in {"TM0R", "TM0F", "TM1F", "TTF", FirstLock, "IDLE"}
  BY <1>4, SearchStates
<1>7. \A u \in Mem : u # t => Kept(u) /\ mt_state'[u] = mt_state[u]
  BY <1>4 DEF Same, Kept
<1>8. NLevel \in {1, 2, 3} /\ (NLevel = 3 => FirstLock = "TM1L")
      /\ (NLevel = 2 => FirstLock = "TM0L") /\ (NLevel = 1 => FirstLock = "TTL")
  BY FirstLockIs
<1>9. TableSame /\ Map0Same /\ Map1Same
  <2>1. \A u \in Mem : tc_state[u] \in {"TM0W", "TM1W"} \/ tc_state'[u] \in {"TM0W", "TM1W"}
          => Kept(u)
    BY <1>6, <1>7, <1>8 DEF Searches
  <2> QED BY <1>3, <2>1, ViewFrame, EffFrame
<1>10. CachedLive'
  BY <1>3, <1>9, ViewFrame, LiveFrame DEF DataInv
<1>11. FlagOK(t)'
  <2>1. FixedFlags(t)
    BY DEF DataInv, FlagsOK, FlagOK
  <2>2. FixedFlags(t)'
    BY <1>4, <1>5, <2>1 DEF FixedFlags, ResetFlags
  <2>3. /\ tc_state'[t] \notin {"TTW", "TM0W", "TM1W"}
        /\ tc_state'[t] \in {"TM0L", "TTL"} => ~ (NLevel > 2)
        /\ tc_state'[t] = "TTL" => ~ (NLevel > 1)
    BY <1>6, <1>8
  <2> QED BY <2>2, <2>3 DEF FlagOK, ReadTM1, ReadTM0, RestTT, RestTM0, Consistent
<1>12. /\ \A u \in Mem, c \in Blocks : u # t => (PreWrite(u, c)' <=> PreWrite(u, c))
       /\ \A c \in Blocks : PreWrite(t, c) <=> (c = b /\ xact[t].rw)
       /\ \A c \in Blocks : PreWrite(t, c)' <=> (c = b /\ xact[t].rw /\ tc_state'[t] # "IDLE")
  <2>1. \A u \in Mem, c \in Blocks : u # t => (PreWrite(u, c)' <=> PreWrite(u, c))
    BY <1>7 DEF PreWrite, Kept
  <2>2. \A c \in Blocks : PreWrite(t, c) <=> (c = b /\ xact[t].rw)
    BY <1>2 DEF PreWrite, Searches
  <2>3. \A c \in Blocks : PreWrite(t, c)' <=> (c = b /\ xact[t].rw /\ tc_state'[t] # "IDLE")
    BY <1>2, <1>4, <1>6, <1>8 DEF PreWrite
  <2> QED BY <2>1, <2>2, <2>3
<1>13. \A c \in Blocks : EffTags(c)' = EffTags(c) /\ BlockOK(c)
  BY <1>9, TagsFrame DEF DataInv, TableOK
<1>14. ASSUME NEW c \in Blocks, c # b
       PROVE  BlockOK(c)'
  <2>1. \A u \in Mem : PreWrite(u, c)' <=> PreWrite(u, c)
    BY <1>12, <1>14
  <2>2. \A u \in Mem : PreWrite(u, c) => Kept(u)
    BY <1>7, <1>12, <1>14
  <2> QED BY <1>3, <1>13, <2>1, <2>2, BlockFrame DEF Kept
<1>15. \A u \in Mem : u # t => ~ PreWrite(u, b)
  BY <1>2 DEF ControlInv, OpenApart, PreWrite, tl_block, Searches
<1>16. CASE /\ NextTcState(t, r) \in {"TM0R", "TM0F", "TM1F", "TTF"}
            /\ NextMemData(t, r) = mem_data[t]
            /\ NextTcState(t, r) = "TTF" /\ NLevel > 1 => Bit0(Up[b])
            /\ NextTcState(t, r) = "TM0F" /\ NLevel > 2 => Bit1(Up[Up[b]])
  <2>1. xact'[t] = xact[t] /\ mem_data'[t] = mem_data[t] /\ tc_state'[t] # "IDLE"
    BY <1>4, <1>16
  <2>2. BlockOK(b)'
    <3>1. \A u \in Mem : PreWrite(u, b)' <=> PreWrite(u, b)
      BY <1>12, <2>1
    <3>2. \A u \in Mem : PreWrite(u, b) => xact'[u] = xact[u] /\ mem_data'[u] = mem_data[u]
      BY <1>15, <2>1
    <3> QED BY <1>3, <1>13, <3>1, <3>2, BlockFrame
  <2>3. TableOK'
    BY <1>14, <2>2 DEF TableOK
  <2>4. UpdateOK(t)' /\ ReadOK(t)'
    BY <1>4, <1>16 DEF UpdateOK, ReadOK, Updates
  <2>5. FetchOK(t)'
    <3>1. Line(t)' = Up[b] /\ Up[b] \in TTLines /\ (NLevel > 1 => Up[Up[b]] \in TM0Lines)
      BY <1>2, <2>1, UpFacts DEF Line
    <3>2. tc_state'[t] = "TTF" /\ NLevel > 1 => Bit0(Up[b])'
      BY <1>4, <1>9, <1>16, <3>1 DEF TableSame
    <3>3. tc_state'[t] = "TM0F" /\ NLevel > 2 => Bit1(Up[Up[b]])'
      BY <1>4, <1>8, <1>9, <1>16, <3>1 DEF Map0Same
    <3> QED BY <3>1, <3>2, <3>3 DEF FetchOK
  <2> QED BY <1>0, <1>3, <1>7, <1>9, <1>10, <1>11, <2>3, <2>4, <2>5, DataOne
<1>17. CASE NextTcState(t, r) = Found(t, EffTags(b)) /\ NextMemData(t, r) = Merge(t, EffTags(b))
  <2>1. /\ tc_state'[t] = Found(t, EffTags(b)) /\ tc_state'[t] \in {FirstLock, "IDLE"}
        /\ tc_state'[t] = FirstLock <=> Differs(t, EffTags(b))
    BY <1>4, <1>8, <1>17 DEF Found
  <2>2. xact[t].rw =>
          /\ EffTags(b) \ xact[t].mask = tags[b] \ xact[t].mask
          /\ mem_data[t] \cap xact[t].mask = tags[b] \cap xact[t].mask
    BY <1>12, <1>13 DEF BlockOK
  <2>3. ~ xact[t].rw => EffTags(b) = tags[b]
    BY <1>12, <1>13, <1>15 DEF BlockOK
  <2>4. Merge(t, EffTags(b)) = tags[b]
    BY <2>2, <2>3 DEF Merge
  <2>5. Differs(t, EffTags(b)) => xact[t].rw /\ EffTags(b) # tags[b]
    BY <2>2 DEF Differs
  <2>6. ~ Differs(t, EffTags(b)) => EffTags(b) = tags[b]
    BY <2>2, <2>3 DEF Differs
  <2>7. UpdateOK(t)'
    <3>1. tc_state'[t] # "IDLE" =>
            /\ xact'[t] = xact[t] /\ xact[t].rw /\ mem_data'[t] = tags[b]
            /\ EffTags(b) # tags[b]
      BY <1>4, <1>17, <2>1, <2>4, <2>5
    <3> QED BY <1>2, <1>3, <1>13, <3>1 DEF UpdateOK, Updates
  <2>8. ReadOK(t)'
    BY <1>2, <1>3, <1>4, <1>17, <2>4 DEF ReadOK
  <2>9. FetchOK(t)'
    BY <1>8, <2>1 DEF FetchOK
  <2>10. BlockOK(b)'
    <3>1. CASE tc_state'[t] # "IDLE"
      <4>1. \A u \in Mem : PreWrite(u, b)' <=> PreWrite(u, b)
        BY <1>12, <3>1
      <4>2. xact'[t] = xact[t] /\ mem_data'[t] = tags[b] /\ xact[t].rw
        BY <1>4, <1>17, <2>1, <2>4, <2>5, <3>1
      <4>3. mem_data'[t] \cap xact[t].mask = mem_data[t] \cap xact[t].mask
        BY <2>2, <4>2
      <4>4. \A u \in Mem : PreWrite(u, b) =>
              /\ xact'[u] = xact[u]
              /\ mem_data'[u] \cap xact[u].mask = mem_data[u] \cap xact[u].mask
        BY <1>15, <4>2, <4>3
      <4> QED BY <1>3, <1>13, <4>1, <4>4, BlockFrame
    <3>2. CASE tc_state'[t] = "IDLE"
      <4>1. EffTags(b) = tags[b]
        BY <1>8, <2>1, <2>6, <3>2
      <4>2. \A u \in Mem : ~ PreWrite(u, b)'
        BY <1>12, <1>15, <3>2
      <4> QED BY <1>3, <1>13, <4>1, <4>2 DEF BlockOK
    <3> QED BY <3>1, <3>2
  <2>11. TableOK'
    BY <1>14, <2>10 DEF TableOK
  <2> QED BY <1>0, <1>3, <1>7, <1>9, <1>10, <1>11, <2>7, <2>8, <2>9, <2>11, DataOne
<1> QED BY <1>1, <1>2, <1>3, <1>16, <1>17, SearchGoes

-----------------------------------------------------------------------------
(***************************************************************************)
(* Locks.  An update reads, under the locks, whether anything else is set  *)
(* in the lines it is about to change.                                     *)
(***************************************************************************)

\* With own bits set in the row of h, nothing else is set in the line unless the answer says so
\* (Others).
LEMMA RestOfLine ==
  ASSUME Base, NEW l \in Lines, Cached(l), NEW h, NEW r, r.data = RowPart(View(l), h),
         r.tcnt = cache[l].tcnt, NEW own, ~ Others(r, own),
         NEW p \in View(l), Row[p[1]] = Row[h]
  PROVE  View(l) \ own = {}
<1>1. View(l) = cache[l].data /\ cache[l].data \in SUBSET Pos /\ cache[l].tcnt \in Int
  BY DEF View, Base, TypeOK, LinesOK, CachedLines
<1>2. SUFFICES ASSUME NEW q \in View(l), q \notin own PROVE FALSE
  OBVIOUS
<1>3. CASE Row[q[1]] = Row[h]
  BY <1>2, <1>3 DEF RowPart, Others
<1>4. CASE Row[q[1]] # Row[h]
  <2>1. RowCount(cache[l].data) > 1
    BY <1>1, <1>4, TwoRows
  <2>2. RowCount(cache[l].data) \in Nat
    BY <1>1, RowCountType
  <2>3. cache[l].tcnt = RowCount(cache[l].data) \/ cache[l].tcnt = RowCount(cache[l].data) + 1
    BY DEF Base, RowInv, RowsCounted
  <2>4. r.tcnt > 1
    BY <1>1, <2>1, <2>2, <2>3
  <2> QED BY <2>4 DEF Others
<1> QED BY <1>3, <1>4

\* The flags an update sets under its locks (NextFlag).
LEMMA LockFlags ==
  ASSUME TrackersOK, NEW t \in Mem, NEW r
  PROVE  /\ tc_state[t] = "TM1L" =>
              NextFlag(t, r) = [flag[t] EXCEPT !.tm1_tag1 = map_rdata(t, r)]
         /\ tc_state[t] = "TM0L" =>
              /\ NextFlag(t, r).tm1_tag1 = flag[t].tm1_tag1
              /\ NextFlag(t, r).tm0_tag1 <=> flag[t].tm1_tag1 /\ map_rdata(t, r)
              /\ NextFlag(t, r).tm0_tagN <=> flag[t].tm1_tag1 /\ Others(r, BitsOf(HoldOf(t)))
         /\ tc_state[t] = "TTL" =>
              /\ NextFlag(t, r).tm1_tag1 = flag[t].tm1_tag1
              /\ NextFlag(t, r).tm0_tag1 = flag[t].tm0_tag1
              /\ NextFlag(t, r).tm0_tagN = flag[t].tm0_tagN
              /\ NextFlag(t, r).tt_tag1 <=> mem_data[t] \cap xact[t].mask # {}
              /\ NextFlag(t, r).tt_tagN <=> flag[t].tm0_tag1 /\ Others(r, TagMask(t))
<1>1. flag[t] \in Flags
  BY DEF TrackersOK
<1>2. CASE tc_state[t] = "TM1L"
  BY <1>2 DEF NextFlag
<1>3. CASE tc_state[t] = "TM0L"
  <2>1. NextFlag(t, r) = [flag[t] EXCEPT
            !.tm0_tag1 = flag[t].tm1_tag1 /\ map_rdata(t, r),
            !.tm0_tagN = flag[t].tm1_tag1 /\ Others(r, BitsOf(HoldOf(t)))]
    BY <1>3 DEF NextFlag
  <2> QED BY <1>1, <1>3, <2>1 DEF Flags
<1>4. CASE tc_state[t] = "TTL"
  <2>1. NextFlag(t, r) = [flag[t] EXCEPT
            !.tt_tag1 = mem_data[t] \cap xact[t].mask # {},
            !.tt_tagN = flag[t].tm0_tag1 /\ Others(r, TagMask(t))]
    BY <1>4 DEF NextFlag, TagMask
  <2> QED BY <1>1, <1>4, <2>1 DEF Flags
<1> QED BY <1>2, <1>3, <1>4

\* What the answer to a lock says (NextFlag).
LEMMA LockAnswer ==
  ASSUME Base, ControlInv, LineInv, DataInv, NEW k \in Banks, bank[k].state = "L",
         NEW t \in Mem, t = bank[k].id, Owes(k, t), NEW r, r = bank[k].resp,
         NEW b \in Blocks, b = xact[t].blk
  PROVE  /\ tc_state[t] = "TM1L" =>
              (map_rdata(t, r) <=> <<Up[Up[b]], MapBit>> \in View(Up[Up[Up[b]]]))
         /\ tc_state[t] = "TM0L" =>
              /\ flag[t].tm1_tag1 /\ map_rdata(t, r) <=> <<Up[b], MapBit>> \in Eff1(Up[Up[b]])
              /\ /\ flag[t].tm1_tag1 /\ map_rdata(t, r)
                 /\ ~ (flag[t].tm1_tag1 /\ Others(r, BitsOf(Up[b])))
                 => Eff1(Up[Up[b]]) \ BitsOf(Up[b]) = {}
         /\ tc_state[t] = "TTL" =>
              /\ ~ flag[t].tm0_tag1 => mem_data[t] \cap xact[t].mask # {}
              /\ /\ NLevel > 1 /\ mem_data[t] \cap xact[t].mask = {}
                 /\ ~ (flag[t].tm0_tag1 /\ Others(r, TagMask(t)))
                 => Eff0(Up[b]) \ TagMask(t) = {}
<1>0. TrackersOK /\ FlagOK(t) /\ UpdateOK(t) /\ BlockOK(b) /\ MapsOK /\ CachedLive /\ FlagsOK
  BY DEF Base, TypeOK, DataInv, FlagsOK, UpdatesOK, TableOK
<1>1. bank[k].op = OpOf(t) /\ bank[k].hold = HoldOf(t)
  BY AtBank
<1>2. PICK l : l = LineOf(k)
  OBVIOUS
<1>3. l \in Lines
  BY <1>2, LineType DEF Base
<1>4. bank[k].op = "FL" =>
        /\ Cached(l) /\ r.data = RowPart(View(l), HoldOf(t)) /\ r.tcnt = cache[l].tcnt
        /\ \A i : <<HoldOf(t), i>> \in r.data <=> <<HoldOf(t), i>> \in View(l)
  BY <1>1, <1>2, AnswerBits
<1>5. /\ Line(t) = Up[b] /\ MLine(t) = Up[Up[b]] /\ Up[b] \in TTLines
      /\ NLevel > 1 => Up[Up[b]] \in TM0Lines
  BY UpFacts DEF Line, MLine
<1>6. NLevel \in {1, 2, 3}
  BY FirstLockIs
<1>7. /\ tc_state[t] = "TM0L" => NLevel > 1
      /\ tc_state[t] = "TM1L" => NLevel > 2
  BY <1>0, StateKinds
<1>8. ASSUME tc_state[t] = "TM1L"
      PROVE  map_rdata(t, r) <=> <<Up[Up[b]], MapBit>> \in View(Up[Up[Up[b]]])
  <2>1. HoldOf(t) = Up[Up[b]] /\ bank[k].op = "FL" /\ l = Up[Up[Up[b]]]
    BY <1>1, <1>2, <1>5, <1>8, HoldIs DEF OpOf, LineOf
  <2> QED BY <1>4, <2>1 DEF map_rdata
<1>9. ASSUME tc_state[t] = "TM0L"
      PROVE  /\ flag[t].tm1_tag1 /\ map_rdata(t, r) <=> <<Up[b], MapBit>> \in Eff1(Up[Up[b]])
             /\ /\ flag[t].tm1_tag1 /\ map_rdata(t, r)
                /\ ~ (flag[t].tm1_tag1 /\ Others(r, BitsOf(Up[b])))
                => Eff1(Up[Up[b]]) \ BitsOf(Up[b]) = {}
  <2>1. HoldOf(t) = Up[b] /\ l = Up[Up[b]]
    BY <1>1, <1>2, <1>5, <1>9, HoldIs DEF LineOf
  <2>2. CASE flag[t].tm1_tag1
    <3>1. bank[k].op = "FL"
      BY <1>1, <1>9, <2>2 DEF OpOf
    <3>2. Eff1(Up[Up[b]]) = View(l)
      BY <1>0, <1>4, <1>5, <1>7, <1>9, <2>1, <3>1, CachedEff
    <3>3. map_rdata(t, r) <=> <<Up[b], MapBit>> \in View(l)
      BY <1>4, <2>1, <3>1 DEF map_rdata
    <3>4. map_rdata(t, r) /\ ~ Others(r, BitsOf(Up[b])) => View(l) \ BitsOf(Up[b]) = {}
      <4>1. SUFFICES ASSUME map_rdata(t, r), ~ Others(r, BitsOf(Up[b]))
                     PROVE  View(l) \ BitsOf(Up[b]) = {}
        OBVIOUS
      <4>2. PICK p \in View(l) : p = <<Up[b], MapBit>>
        BY <3>3, <4>1
      <4>3. Row[p[1]] = Row[Up[b]]
        BY <4>2
      <4>4. PICK own : own = BitsOf(Up[b])
        OBVIOUS
      <4>5. PICK h : h = Up[b]
        OBVIOUS
      <4>6. Cached(l) /\ r.data = RowPart(View(l), h) /\ r.tcnt = cache[l].tcnt
        BY <1>4, <2>1, <3>1, <4>5
      <4>7. ~ Others(r, own) /\ Row[p[1]] = Row[h]
        BY <4>1, <4>3, <4>4, <4>5
      <4>8. View(l) \ own = {}
        BY ONLY Base, <1>3, <4>2, <4>6, <4>7, RestOfLine
      <4> QED BY <4>4, <4>8
    <3> QED BY <2>2, <3>2, <3>3, <3>4
  <2>3. CASE ~ flag[t].tm1_tag1
    <3>1. NLevel > 2
      BY <1>0, <1>6, <2>3 DEF FlagOK, FixedFlags
    <3>2. ~ Bit1(Up[Up[b]])
      BY <1>0, <1>5, <1>9, <2>3, <3>1, OwnBits
    <3>3. Eff1(Up[Up[b]]) = {}
      BY <1>0, <1>5, <1>6, <3>1, <3>2, SMTT(30) DEF MapsOK
    <3> QED BY <2>3, <3>3
  <2> QED BY <2>2, <2>3
<1>10. ASSUME tc_state[t] = "TTL"
       PROVE  /\ ~ flag[t].tm0_tag1 => mem_data[t] \cap xact[t].mask # {}
              /\ /\ NLevel > 1 /\ mem_data[t] \cap xact[t].mask = {}
                 /\ ~ (flag[t].tm0_tag1 /\ Others(r, TagMask(t)))
                 => Eff0(Up[b]) \ TagMask(t) = {}
  <2>1. HoldOf(t) = b /\ l = Up[b]
    BY <1>1, <1>2, <1>5, <1>10, HoldIs DEF LineOf
  <2>2. xact[t].rw /\ mem_data[t] = tags[b] /\ EffTags(b) # tags[b]
    BY <1>0, <1>10 DEF UpdateOK, Updates
  <2>3. EffTags(b) \ xact[t].mask = tags[b] \ xact[t].mask
    <3>1. PreWrite(t, b)
      BY <1>10, <2>2 DEF PreWrite
    <3> QED BY <1>0, <3>1 DEF BlockOK
  <2>4. CASE ~ flag[t].tm0_tag1
    <3>1. NLevel > 1
      BY <1>0, <1>6, <2>4 DEF FlagOK, FixedFlags
    <3>2. ~ Bit0(Up[b])
      BY <1>0, <1>5, <1>10, <2>4, <3>1, OwnBits
    <3>3. Eff0(Up[b]) = {}
      BY <1>0, <1>5, <3>1, <3>2 DEF MapsOK
    <3>4. EffTags(b) = {}
      BY <3>3 DEF EffTags
    <3>5. mem_data[t] \cap xact[t].mask # {}
      BY <2>2, <2>3, <3>4
    <3> QED BY <3>3, <3>5
  <2>5. CASE flag[t].tm0_tag1
    <3>1. bank[k].op = "FL"
      BY <1>1, <1>10, <2>5 DEF OpOf
    <3>2. Eff0(Up[b]) = View(l)
      BY <1>0, <1>4, <1>5, <2>1, <3>1, CachedEff
    <3>3. ASSUME mem_data[t] \cap xact[t].mask = {}, ~ Others(r, TagMask(t))
          PROVE  View(l) \ TagMask(t) = {}
      <4>1. PICK i : i \in EffTags(b)
        BY <2>2, <2>3, <3>3
      <4>2. PICK p \in View(l) : p = <<b, i>>
        BY <3>2, <4>1 DEF EffTags
      <4>3. Row[p[1]] = Row[b]
        BY <4>2
      <4>4. PICK own : own = TagMask(t)
        OBVIOUS
      <4>5. Cached(l) /\ r.data = RowPart(View(l), b) /\ r.tcnt = cache[l].tcnt
        BY <1>4, <2>1, <3>1
      <4>6. ~ Others(r, own)
        BY <3>3, <4>4
      <4>7. View(l) \ own = {}
        BY ONLY Base, <1>3, <4>2, <4>3, <4>5, <4>6, RestOfLine
      <4> QED BY <4>4, <4>7
    <3> QED BY <2>5, <3>2, <3>3
  <2> QED BY <2>4, <2>5
<1> QED BY <1>8, <1>9, <1>10

\* The answer to a lock (Finish).
LEMMA DataLock ==
  ASSUME Base, ControlInv, LineInv, DataInv, NEW k \in Banks, Finish(k),
         NEW t \in Mem, t = bank[k].id, ~ isWrite(bank[k].op),
         tc_state[t] \in {"TM1L", "TM0L", "TTL"}
  PROVE  DataInv'
<1>0. TrackersOK /\ FlagOK(t) /\ UpdateOK(t)
  BY DEF Base, TypeOK, DataInv, FlagsOK, UpdatesOK
<1>1. PICK r : r = bank[k].resp
  OBVIOUS
<1>2. PICK b \in Blocks : b = xact[t].blk
  BY <1>0 DEF TrackersOK
<1>3. bank[k].state = "L" /\ Owes(k, t) /\ Respond(t, r) /\ UNCHANGED lines /\ UNCHANGED tags
  BY <1>1, FinishEffect
<1>4. /\ tc_state[t] = "TM1L" => tc_state'[t] = "TM0L"
      /\ tc_state[t] = "TM0L" => tc_state'[t] = "TTL"
      /\ tc_state[t] = "TTL" => tc_state'[t] = "TTW"
  BY <1>0, <1>3, RespondFacts, UpdateStates
<1>5. /\ UNCHANGED mt_state /\ xact'[t] = xact[t] /\ mem_data'[t] = mem_data[t]
      /\ flag'[t] = NextFlag(t, r)
      /\ \A u \in Mem : u # t => Kept(u) /\ mt_state'[u] = mt_state[u]
  <2>1. /\ UNCHANGED mt_state
        /\ \A u \in Mem : u # t => Same(u)
        /\ tc_state'[t] # "IDLE" =>
             xact'[t] = xact[t] /\ mem_data'[t] = NextMemData(t, r) /\ flag'[t] = NextFlag(t, r)
    BY <1>0, <1>3, RespondFacts
  <2>2. NextMemData(t, r) = mem_data[t]
    BY DEF NextMemData
  <2> QED BY <1>4, <2>1, <2>2 DEF Same, Kept
<1>6. TableSame /\ Map0Same /\ Map1Same
  <2>1. \A u \in Mem : tc_state[u] \in {"TM0W", "TM1W"} \/ tc_state'[u] \in {"TM0W", "TM1W"}
          => Kept(u)
    BY <1>4, <1>5
  <2> QED BY <1>3, <2>1, ViewFrame, EffFrame
<1>7. CachedLive'
  BY <1>3, <1>6, ViewFrame, LiveFrame DEF DataInv
<1>8. \A c \in Blocks : EffTags(c)' = EffTags(c) /\ BlockOK(c)
  BY <1>6, TagsFrame DEF DataInv, TableOK
<1>9. TableOK'
  <2>1. \A u \in Mem, c \in Blocks : PreWrite(u, c)' <=> PreWrite(u, c)
    BY <1>4, <1>5 DEF PreWrite, Kept
  <2>2. \A u \in Mem : xact'[u] = xact[u] /\ mem_data'[u] = mem_data[u]
    BY <1>5 DEF Kept
  <2>3. ASSUME NEW c \in Blocks PROVE BlockOK(c)'
    BY <1>3, <1>8, <2>1, <2>2, BlockFrame
  <2> QED BY <2>3 DEF TableOK
<1>10. UpdateOK(t)' /\ FetchOK(t)' /\ ReadOK(t)'
  <2>1. UpdateOK(t)'
    BY <1>0, <1>3, <1>5, <1>8 DEF UpdateOK, Updates
  <2> QED BY <1>4, <2>1 DEF FetchOK, ReadOK
<1>11. Line(t)' = Up[b] /\ MLine(t)' = Up[Up[b]] /\ TagMask(t)' = TagMask(t)
       /\ Line(t) = Up[b] /\ MLine(t) = Up[Up[b]]
  BY <1>2, <1>5 DEF Line, MLine, TagMask
<1>12. /\ Up[b] \in TTLines
       /\ NLevel > 1 => Up[Up[b]] \in TM0Lines
       /\ NLevel > 2 => Up[Up[Up[b]]] \in TM1Lines
  BY <1>0, <1>2, TrackerLines DEF Line, MLine
<1>13. NLevel \in {1, 2, 3}
  BY FirstLockIs
<1>14. /\ Eff0(Up[b])' = Eff0(Up[b])
       /\ NLevel > 1 => Eff1(Up[Up[b]])' = Eff1(Up[Up[b]])
       /\ NLevel > 2 => View(Up[Up[Up[b]]])' = View(Up[Up[Up[b]]])
  BY <1>6, <1>12 DEF TableSame, Map0Same, Map1Same
<1>15. FlagOK(t)'
  <2>1. CASE tc_state[t] = "TM1L"
    <3>1. NLevel > 2
      BY <1>0, <2>1, StateKinds
    <3>2. map_rdata(t, r) <=> <<Up[Up[b]], MapBit>> \in View(Up[Up[Up[b]]])
      BY <1>1, <1>2, <1>3, <2>1, LockAnswer
    <3>3. flag'[t].tm1_tag1 <=> map_rdata(t, r)
      BY <1>0, <1>5, <2>1, LockFlags DEF TrackersOK, Flags
    <3>4. ReadTM1(t)'
      BY <1>11, <1>14, <3>1, <3>2, <3>3 DEF ReadTM1
    <3> QED BY <1>4, <1>13, <2>1, <3>1, <3>4
            DEF FlagOK, FixedFlags, ReadTM0, RestTT, RestTM0, Consistent
  <2>2. CASE tc_state[t] = "TM0L"
    <3>1. NLevel > 1
      BY <1>0, <2>2, StateKinds
    <3>2. /\ flag[t].tm1_tag1 /\ map_rdata(t, r) <=> <<Up[b], MapBit>> \in Eff1(Up[Up[b]])
          /\ /\ flag[t].tm1_tag1 /\ map_rdata(t, r)
             /\ ~ (flag[t].tm1_tag1 /\ Others(r, BitsOf(Up[b])))
             => Eff1(Up[Up[b]]) \ BitsOf(Up[b]) = {}
      BY <1>1, <1>2, <1>3, <2>2, LockAnswer
    <3>3. HoldOf(t) = Up[b]
      BY <1>11, <2>2, HoldIs
    <3>4. /\ flag'[t].tm1_tag1 = flag[t].tm1_tag1
          /\ flag'[t].tm0_tag1 <=> flag[t].tm1_tag1 /\ map_rdata(t, r)
          /\ flag'[t].tm0_tagN <=> flag[t].tm1_tag1 /\ Others(r, BitsOf(Up[b]))
      BY <1>0, <1>5, <2>2, <3>3, LockFlags
    <3>5. FixedFlags(t)'
      BY <1>0, <1>13, <3>1, <3>4 DEF FlagOK, FixedFlags
    <3>6. ReadTM1(t)'
      BY <1>0, <1>11, <1>12, <1>14, <2>2, <3>4 DEF FlagOK, ReadTM1
    <3>7. ReadTM0(t)'
      BY <1>11, <1>14, <3>1, <3>2, <3>4 DEF ReadTM0
    <3>8. RestTM0(t)'
      BY <1>11, <1>14, <3>1, <3>2, <3>4 DEF RestTM0
    <3> QED BY <1>4, <2>2, <3>5, <3>6, <3>7, <3>8 DEF FlagOK, RestTT, Consistent
  <2>3. CASE tc_state[t] = "TTL"
    <3>1. /\ ~ flag[t].tm0_tag1 => mem_data[t] \cap xact[t].mask # {}
          /\ /\ NLevel > 1 /\ mem_data[t] \cap xact[t].mask = {}
             /\ ~ (flag[t].tm0_tag1 /\ Others(r, TagMask(t)))
             => Eff0(Up[b]) \ TagMask(t) = {}
      BY <1>1, <1>2, <1>3, <2>3, LockAnswer
    <3>2. /\ flag'[t].tm1_tag1 = flag[t].tm1_tag1
          /\ flag'[t].tm0_tag1 = flag[t].tm0_tag1
          /\ flag'[t].tm0_tagN = flag[t].tm0_tagN
          /\ flag'[t].tt_tag1 <=> mem_data[t] \cap xact[t].mask # {}
          /\ flag'[t].tt_tagN <=> flag[t].tm0_tag1 /\ Others(r, TagMask(t))
      BY <1>0, <1>5, <2>3, LockFlags
    <3>3. FixedFlags(t)'
      BY <1>0, <3>2 DEF FlagOK, FixedFlags
    <3>4. ReadTM1(t)'
      BY <1>0, <1>11, <1>12, <1>14, <2>3, <3>2 DEF FlagOK, ReadTM1
    <3>5. ReadTM0(t)'
      BY <1>0, <1>11, <1>12, <1>14, <2>3, <3>2 DEF FlagOK, ReadTM0
    <3>6. RestTM0(t)'
      BY <1>0, <1>11, <1>12, <1>13, <1>14, <2>3, <3>2 DEF FlagOK, RestTM0
    <3>7. RestTT(t)'
      BY <1>11, <1>14, <3>1, <3>2 DEF RestTT, tt_any
    <3>8. Consistent(t)'
      BY <1>4, <1>5, <2>3, <3>1, <3>2 DEF Consistent
    <3> QED BY <3>3, <3>4, <3>5, <3>6, <3>7, <3>8 DEF FlagOK
  <2> QED BY <2>1, <2>2, <2>3
<1> QED BY <1>0, <1>3, <1>5, <1>6, <1>7, <1>9, <1>10, <1>15, DataOne

-----------------------------------------------------------------------------
(***************************************************************************)
(* Updates.  The write to the table, to map 0 and to map 1 are three       *)
(* steps; seen with the bits that are being settled, only the first one    *)
(* changes the tags.                                                       *)
(***************************************************************************)

\* Line l after the end of operation op with data d and mask n.
Wrote(l, op, d, n) ==
  /\ \A m \in Lines : m # l => View(m)' = View(m) /\ (Cached(m)' => Cached(m))
  /\ op = "U" => View(l)' = View(l) /\ (Cached(l)' => Cached(l))
  /\ op = "W" /\ d \ n \subseteq View(l) => View(l)' = (View(l) \ n) \cup (d \cap n)
  /\ op = "C" /\ ~ Cached(l) => View(l)' = d \cap n
  /\ op = "I" => ~ Cached(l)'

\* A write is answered when it is looked up, an unlock at its end (Lookup, Finish).
LEMMA WriteAnswer ==
  ASSUME Base, ControlInv, LineInv, NEW k \in Banks, NEW t \in Mem, t = bank[k].id,
         NEW l, l = Up[HoldOf(t)],
         \/ Lookup(k) /\ isWrite(bank[k].op)
         \/ Finish(k) /\ bank[k].op = "U"
  PROVE  /\ l \in Lines /\ tc_req_sent[t] /\ (\E r : Respond(t, r)) /\ UNCHANGED tags
         /\ OpOf(t) \in {"U", "W", "C", "I"}
         /\ \A op, d, n : op = OpOf(t) /\ d = DataOf(t) /\ n = MaskOf(t) => Wrote(l, op, d, n)
<1>0. OpOf(t) \in TCTagOp /\ HoldOf(t) \in Holds
  BY RequestType, HoldType DEF Base, TypeOK
<1>1. CASE Lookup(k) /\ isWrite(bank[k].op)
  <2>1. PICK x : x = bank[k]
    OBVIOUS
  <2>2. /\ x.state = "MR" /\ Owes(k, t) /\ UNCHANGED tags
        /\ \E r : Respond(t, r)
    BY <1>1, <2>1, LookupEffect
  <2>3. x.op = OpOf(t) /\ x.hold = HoldOf(t) /\ tc_req_sent[t]
    BY <2>1, <2>2, AtBank
  <2>4. l = LineOf(k) /\ l \in Lines
    <3>1. l = LineOf(k)
      BY <2>1, <2>3 DEF LineOf
    <3> QED BY <3>1, LineType DEF Base
  <2>5. x.data = DataOf(t) /\ x.mask = MaskOf(t)
    BY <2>1, <2>2 DEF ControlInv, ReqData
  <2>6. /\ \A m \in Lines : m # l => View(m)' = View(m) /\ (Cached(m)' => Cached(m))
        /\ x.op \in {"L", "U", "R"} => UNCHANGED lines
        /\ x.op = "W" => /\ x.data \ x.mask \subseteq View(l) =>
                               View(l)' = (View(l) \ x.mask) \cup (x.data \cap x.mask)
        /\ x.op = "C" /\ ~ Cached(l) => View(l)' = x.data \cap x.mask
        /\ x.op = "I" => ~ Cached(l)'
    BY <1>1, <2>1, <2>4, LookupLines DEF LineInv
  <2>7. x.op \in {"I", "C", "W"}
    BY <1>1, <2>1 DEF isWrite
  <2>8. ASSUME NEW op, NEW d, NEW n, op = OpOf(t), d = DataOf(t), n = MaskOf(t)
        PROVE  Wrote(l, op, d, n)
    <3>1. op = x.op /\ d = x.data /\ n = x.mask
      BY <2>3, <2>5, <2>8
    <3> QED BY <2>6, <2>7, <3>1 DEF Wrote
  <2> QED BY <2>2, <2>3, <2>4, <2>7, <2>8
<1>2. CASE Finish(k) /\ bank[k].op = "U"
  <2>1. /\ UNCHANGED lines /\ UNCHANGED tags
        /\ Owes(k, t) /\ Respond(t, bank[k].resp)
    BY <1>2, FinishEffect DEF isWrite
  <2>2. bank[k].op = OpOf(t) /\ bank[k].hold = HoldOf(t) /\ tc_req_sent[t]
    BY <2>1, AtBank
  <2>3. l \in Lines
    BY <1>0, TagCacheAssumption
  <2>4. /\ \A m \in Lines : View(m)' = View(m)
        /\ \A m : Cached(m)' <=> Cached(m)
    BY <2>1, ViewFrame
  <2>5. ASSUME NEW op, NEW d, NEW n, op = OpOf(t)
        PROVE  Wrote(l, op, d, n)
    BY <1>2, <2>2, <2>3, <2>4, <2>5 DEF Wrote
  <2> QED BY <1>2, <2>1, <2>2, <2>3, <2>5
<1> QED BY <1>1, <1>2

\* A bit that nobody settles, or the same update as before, is as it was.
LEMMA Bit1Frame ==
  ASSUME NEW m, View(Up[m])' = View(Up[m]),
         \A u \in Mem : Settles1(u, m)' <=> Settles1(u, m),
         \A u \in Mem : Settles1(u, m) => flag'[u] = flag[u]
  PROVE  Bit1(m)' <=> Bit1(m)
<1>1. \A u \in Mem : Settles1(u, m) => (tm0_any(flag[u])' <=> tm0_any(flag[u]))
  OBVIOUS
<1> QED BY <1>1 DEF Bit1

LEMMA Bit0Frame ==
  ASSUME NEW l, (<<l, MapBit>> \in Eff1(Up[l]))' <=> <<l, MapBit>> \in Eff1(Up[l]),
         \A u \in Mem : Settles0(u, l)' <=> Settles0(u, l),
         \A u \in Mem : Settles0(u, l) => flag'[u] = flag[u]
  PROVE  Bit0(l)' <=> Bit0(l)
<1>1. \A u \in Mem : Settles0(u, l) => (tt_any(flag[u])' <=> tt_any(flag[u]))
  OBVIOUS
<1> QED BY <1>1 DEF Bit0

\* What the end of a step of an update does to the trackers (Respond).
LEMMA UpdateAnswer ==
  ASSUME TrackersOK, NEW t \in Mem, NEW r, Respond(t, r), tc_state[t] \in {"TTW", "TM0W", "TM1W"}
  PROVE  /\ UNCHANGED mt_state
         /\ \A u \in Mem : u # t => Kept(u) /\ Same(u)
         /\ tc_state[t] = "TTW" => tc_state'[t] = IF NLevel > 1 THEN "TM0W" ELSE "IDLE"
         /\ tc_state[t] = "TM0W" => tc_state'[t] = IF NLevel > 2 THEN "TM1W" ELSE "IDLE"
         /\ tc_state[t] = "TM1W" => tc_state'[t] = "IDLE"
         /\ tc_state'[t] # "IDLE" \/ mt_state[t] # "IDLE" =>
              xact'[t] = xact[t] /\ mem_data'[t] = mem_data[t] /\ flag'[t] = flag[t]
         /\ tc_state'[t] = "IDLE" /\ mt_state[t] = "IDLE" =>
              xact'[t] = NoBlock /\ flag'[t] = ResetFlags
<1>1. NextMemData(t, r) = mem_data[t] /\ NextFlag(t, r) = flag[t]
  BY DEF NextMemData, NextFlag
<1>2. /\ UNCHANGED mt_state
      /\ tc_state'[t] = NextTcState(t, r)
      /\ \A u \in Mem : u # t => Same(u)
      /\ tc_state'[t] # "IDLE" \/ mt_state[t] # "IDLE" =>
           /\ xact'[t] = xact[t]
           /\ mem_data'[t] = NextMemData(t, r)
           /\ flag'[t] = NextFlag(t, r)
      /\ tc_state'[t] = "IDLE" /\ mt_state[t] = "IDLE" =>
           /\ xact'[t] = NoBlock /\ flag'[t] = ResetFlags
  BY RespondFacts
<1>3. \A u \in Mem : u # t => Kept(u)
  BY <1>2 DEF Same, Kept
<1> QED BY <1>1, <1>2, <1>3, UpdateStates

\* The op of a write by the flags (OpOf).
LEMMA OpOfWrite ==
  ASSUME NEW t \in Mem
  PROVE  /\ tc_state[t] = "TTW" =>
              /\ OpOf(t) \in {"I", "C", "W"}
              /\ OpOf(t) = "I" => ~ tt_any(flag[t]) /\ AEA /\ NLevel > 1
              /\ OpOf(t) = "C" => ~ flag[t].tm0_tag1 /\ flag[t].tt_tag1 /\ AEA /\ NLevel > 1
              /\ OpOf(t) = "W" /\ AEA /\ NLevel > 1 =>
                   tt_any(flag[t]) /\ (flag[t].tm0_tag1 \/ ~ flag[t].tt_tag1)
         /\ tc_state[t] = "TM0W" =>
              /\ OpOf(t) \in {"U", "I", "C", "W"}
              /\ OpOf(t) = "U" => tt_any(flag[t]) = flag[t].tm0_tag1
              /\ OpOf(t) # "U" => tt_any(flag[t]) # flag[t].tm0_tag1
              /\ OpOf(t) = "I" => ~ tm0_any(flag[t]) /\ AEA /\ NLevel > 2
              /\ OpOf(t) = "C" => ~ flag[t].tm1_tag1 /\ flag[t].tt_tag1 /\ AEA /\ NLevel > 2
              /\ OpOf(t) = "W" /\ AEA /\ NLevel > 2 =>
                   tm0_any(flag[t]) /\ (flag[t].tm1_tag1 \/ ~ flag[t].tt_tag1)
         /\ tc_state[t] = "TM1W" =>
              /\ OpOf(t) \in {"U", "W"}
              /\ OpOf(t) = "U" => tm0_any(flag[t]) = flag[t].tm1_tag1
BY DEF OpOf

\* What a write to the table changes.
LEMMA TableEffect ==
  ASSUME Base, ControlInv, DataInv, NEW t \in Mem, tc_state[t] = "TTW",
         NEW b \in Blocks, b = xact[t].blk, NEW l \in TTLines, l = Up[b],
         NEW op, NEW d, NEW n, op = OpOf(t), d = DataOf(t), n = MaskOf(t), Wrote(l, op, d, n),
         NEW r, Respond(t, r)
  PROVE  /\ \A c \in TTLines : c # l =>
              Eff0(c)' = Eff0(c) /\ (NLevel > 1 => (Bit0(c)' <=> Bit0(c)))
         /\ NLevel > 1 => (Bit0(l)' <=> tt_any(flag[t]))
         /\ Eff0(l)' = (Eff0(l) \ n) \cup (d \cap n)
         /\ Map0Same /\ Map1Same
<1>0. TrackersOK /\ FlagOK(t) /\ UpdateOK(t) /\ BlockOK(b) /\ MapsOK /\ CachedLive /\ FlagsOK
  BY DEF Base, TypeOK, DataInv, FlagsOK, UpdatesOK, TableOK
<1>1. /\ \A u \in Mem : u # t => Kept(u)
      /\ tc_state'[t] = IF NLevel > 1 THEN "TM0W" ELSE "IDLE"
      /\ NLevel > 1 => xact'[t] = xact[t] /\ flag'[t] = flag[t]
  BY <1>0, UpdateAnswer
<1>2. NLevel \in {1, 2, 3}
  BY FirstLockIs
<1>3. Line(t) = l /\ (NLevel > 1 => Line(t)' = l)
  BY <1>1 DEF Line
<1>4. \A u \in Mem : \A m :
        /\ Settles1(u, m)' <=> Settles1(u, m)
        /\ Settles1(u, m) => flag'[u] = flag[u]
        /\ m # l => (Settles0(u, m)' <=> Settles0(u, m))
        /\ m # l => (Settles0(u, m) => flag'[u] = flag[u])
  BY <1>1, <1>2, <1>3 DEF Settles0, Settles1, Kept, Line, MLine
<1>5. \A m \in Lines : m # l => View(m)' = View(m)
  BY DEF Wrote
<1>6. Map1Same
  BY <1>5, TagCacheAssumption DEF Map1Same, Lines
<1>7. Map0Same
  <2>1. ASSUME NLevel > 2, NEW m \in TM0Lines PROVE Bit1(m)' <=> Bit1(m)
    <3>1. Up[m] \in TM1Lines
      BY <2>1, LevelLines
    <3>2. View(Up[m])' = View(Up[m])
      BY <1>6, <2>1, <3>1 DEF Map1Same
    <3> QED BY <1>4, <3>2, Bit1Frame
  <2>2. ASSUME NLevel > 1, NEW m \in TM0Lines PROVE Eff1(m)' = Eff1(m)
    <3>1. View(m)' = View(m)
      BY <1>5, <2>2, LevelLines, TagCacheAssumption
    <3> QED BY <2>1, <3>1 DEF Eff1
  <2> QED BY <2>1, <2>2 DEF Map0Same
<1>8. ASSUME NEW c \in TTLines, c # l
      PROVE  Eff0(c)' = Eff0(c) /\ (NLevel > 1 => (Bit0(c)' <=> Bit0(c)))
  <2>1. ASSUME NLevel > 1 PROVE Bit0(c)' <=> Bit0(c)
    <3>1. Up[c] \in TM0Lines
      BY <2>1, LevelLines
    <3>2. Eff1(Up[c])' = Eff1(Up[c])
      BY <1>7, <2>1, <3>1 DEF Map0Same
    <3> QED BY <1>4, <1>8, <3>2, Bit0Frame
  <2>2. View(c)' = View(c)
    BY <1>5, <1>8, LevelLines
  <2> QED BY <2>1, <2>2 DEF Eff0
<1>9. ASSUME NLevel > 1 PROVE Bit0(l)' <=> tt_any(flag[t])
  <2>1. ASSUME NEW v \in Mem, Settles0(v, l)' PROVE v = t
    <3>1. v # t => Settles0(v, l)
      BY <1>1, <2>1 DEF Settles0, Kept, Line
    <3> QED BY <1>3, <1>9, <3>1, Own DEF Settles0
  <2>2. Settles0(t, l)' /\ (tt_any(flag[t])' <=> tt_any(flag[t]))
    BY <1>1, <1>3, <1>9 DEF Settles0
  <2> QED BY <2>1, <2>2 DEF Bit0
<1>10. d = {<<b, i>> : i \in mem_data[t]} /\ n = {<<b, i>> : i \in xact[t].mask}
  BY HoldIs DEF DataOf, MaskOf
<1>11. Eff0(l)' = (Eff0(l) \ n) \cup (d \cap n)
  <2>1. CASE op = "I"
    <3>1. ~ tt_any(flag[t]) /\ AEA /\ NLevel > 1
      BY <2>1, OpOfWrite
    <3>2. Eff0(l)' = {}
      BY <1>9, <3>1 DEF Eff0
    <3>3. Eff0(l) \ n = {}
      BY <1>0, <1>3, <1>10, <3>1 DEF FlagOK, RestTT, TagMask
    <3>4. mem_data[t] \cap xact[t].mask = {}
      BY <1>0, <3>1 DEF FlagOK, Consistent, tt_any
    <3>5. d \cap n = {}
      BY <1>10, <3>4
    <3> QED BY <3>2, <3>3, <3>5
  <2>2. CASE op = "C"
    <3>1. ~ flag[t].tm0_tag1 /\ tt_any(flag[t]) /\ AEA /\ NLevel > 1
      BY <2>2, OpOfWrite DEF tt_any
    <3>2. ~ Bit0(l)
      BY <1>0, <1>3, <3>1, OwnBits
    <3>3. ~ Cached(l) /\ Eff0(l) = {}
      BY <1>0, <3>1, <3>2 DEF CachedLive, MapsOK
    <3>4. Eff0(l)' = View(l)'
      BY <1>9, <3>1 DEF Eff0
    <3> QED BY <2>2, <3>3, <3>4 DEF Wrote
  <2>3. CASE op = "W"
    <3>1. Eff0(l) = View(l) /\ Eff0(l)' = View(l)'
      <4>1. CASE AEA /\ NLevel > 1
        <5>1. tt_any(flag[t]) /\ (flag[t].tm0_tag1 \/ ~ flag[t].tt_tag1)
          BY <2>3, <4>1, OpOfWrite
        <5>2. flag[t].tm0_tag1
          BY <1>0, <5>1 DEF FlagOK, Consistent
        <5>3. Bit0(l)
          BY <1>0, <1>3, <4>1, <5>2, OwnBits
        <5> QED BY <1>9, <4>1, <5>1, <5>3 DEF Eff0
      <4>2. CASE ~ (AEA /\ NLevel > 1)
        BY <4>2 DEF Eff0
      <4> QED BY <4>1, <4>2
    <3>2. d \ n \subseteq View(l)
      <4>1. xact[t].rw /\ mem_data[t] = tags[b]
        BY <1>0 DEF UpdateOK, Updates
      <4>2. EffTags(b) \ xact[t].mask = tags[b] \ xact[t].mask
        <5>1. PreWrite(t, b)
          BY <4>1 DEF PreWrite
        <5> QED BY <1>0, <5>1 DEF BlockOK
      <4>3. \A i \in mem_data[t] \ xact[t].mask : <<b, i>> \in Eff0(l)
        BY <4>1, <4>2 DEF EffTags
      <4> QED BY <1>10, <3>1, <4>3
    <3> QED BY <2>3, <3>1, <3>2 DEF Wrote
  <2> QED BY <2>1, <2>2, <2>3, OpOfWrite
<1> QED BY <1>6, <1>7, <1>8, <1>9, <1>11

\* The tags after a write to the table.
LEMMA TableTagsAfter ==
  ASSUME NEW t \in Mem, tc_state[t] = "TTW", UpdateOK(t),
         NEW b \in Blocks, b = xact[t].blk, BlockOK(b), tags[b] \in SUBSET Bits,
         NEW l, l = Up[b], NEW d, NEW n, d = DataOf(t), n = MaskOf(t),
         Eff0(l)' = (Eff0(l) \ n) \cup (d \cap n)
  PROVE  /\ EffTags(b)' = tags[b]
         /\ \A c \in Blocks : c # b /\ Up[c] = l => EffTags(c)' = EffTags(c)
<1>1. d = {<<b, i>> : i \in mem_data[t]} /\ n = {<<b, i>> : i \in xact[t].mask}
  BY HoldIs DEF DataOf, MaskOf
<1>2. xact[t].rw /\ mem_data[t] = tags[b]
  BY DEF UpdateOK, Updates
<1>3. EffTags(b) \ xact[t].mask = tags[b] \ xact[t].mask
  <2>1. PreWrite(t, b)
    BY <1>2 DEF PreWrite
  <2> QED BY <2>1 DEF BlockOK
<1>4. ASSUME NEW c \in Blocks, c # b, Up[c] = l
      PROVE  EffTags(c)' = EffTags(c)
  <2>1. \A i \in Bits : <<c, i>> \notin n /\ <<c, i>> \notin d
    BY <1>1, <1>4
  <2>2. \A i \in Bits : <<c, i>> \in Eff0(l)' <=> <<c, i>> \in Eff0(l)
    BY <2>1
  <2> QED BY <1>4, <2>2 DEF EffTags
<1>5. \A i \in Bits : <<b, i>> \in Eff0(l)' <=> i \in tags[b]
  <2>1. ASSUME NEW i \in Bits PROVE <<b, i>> \in Eff0(l)' <=> i \in tags[b]
    <3>1. /\ <<b, i>> \in n <=> i \in xact[t].mask
          /\ <<b, i>> \in d <=> i \in tags[b]
      BY <1>1, <1>2
    <3>2. i \notin xact[t].mask => (<<b, i>> \in Eff0(l) <=> i \in tags[b])
      BY <1>3 DEF EffTags
    <3> QED BY <3>1, <3>2
  <2> QED BY <2>1
<1>6. EffTags(b)' = tags[b]
  BY <1>5 DEF EffTags
<1> QED BY <1>4, <1>6

\* The write to the table (state TTW).
LEMMA DataTable ==
  ASSUME Base, ControlInv, TurnsOK, DataInv, NEW t \in Mem, tc_state[t] = "TTW", tc_req_sent[t],
         NEW b \in Blocks, b = xact[t].blk, NEW l \in TTLines, l = Up[b],
         NEW op, NEW d, NEW n, op = OpOf(t), d = DataOf(t), n = MaskOf(t), Wrote(l, op, d, n),
         NEW r, Respond(t, r), UNCHANGED tags
  PROVE  DataInv'
<1>0. /\ TrackersOK /\ FlagOK(t) /\ UpdateOK(t) /\ BlockOK(b) /\ MapsOK /\ CachedLive /\ FlagsOK
      /\ tags \in [Blocks -> SUBSET Bits]
  BY DEF Base, TypeOK, DataInv, FlagsOK, UpdatesOK, TableOK
<1>1. /\ UNCHANGED mt_state
      /\ \A u \in Mem : u # t => Kept(u)
      /\ tc_state'[t] = IF NLevel > 1 THEN "TM0W" ELSE "IDLE"
      /\ tc_state'[t] # "IDLE" \/ mt_state[t] # "IDLE" =>
           xact'[t] = xact[t] /\ mem_data'[t] = mem_data[t] /\ flag'[t] = flag[t]
      /\ tc_state'[t] = "IDLE" /\ mt_state[t] = "IDLE" =>
           xact'[t] = NoBlock /\ flag'[t] = ResetFlags
  BY <1>0, UpdateAnswer
<1>2. NLevel \in {1, 2, 3}
  BY FirstLockIs
<1>3. /\ \A c \in TTLines : c # l =>
           Eff0(c)' = Eff0(c) /\ (NLevel > 1 => (Bit0(c)' <=> Bit0(c)))
      /\ NLevel > 1 => (Bit0(l)' <=> tt_any(flag[t]))
      /\ Eff0(l)' = (Eff0(l) \ n) \cup (d \cap n)
      /\ Map0Same /\ Map1Same
  BY TableEffect
<1>4. Line(t) = l
  BY DEF Line
<1>5. n = TagMask(t) /\ d = {<<b, i>> : i \in mem_data[t]}
  BY HoldIs DEF DataOf, MaskOf, TagMask
<1>6. EffTags(b)' = tags[b] /\ \A c \in Blocks : c # b => EffTags(c)' = EffTags(c)
  <2>1. /\ EffTags(b)' = tags[b]
        /\ \A c \in Blocks : c # b /\ Up[c] = l => EffTags(c)' = EffTags(c)
    BY <1>0, <1>3, TableTagsAfter
  <2>2. ASSUME NEW c \in Blocks, Up[c] # l PROVE EffTags(c)' = EffTags(c)
    <3>1. Up[c] \in TTLines
      BY UpFacts
    <3> QED BY <1>3, <2>2, <3>1 DEF EffTags
  <2> QED BY <2>1, <2>2
<1>7. \A u \in Mem : u # t /\ tc_state[u] # "IDLE" => xact[u].blk # b
  BY DEF ControlInv, OpenApart, tl_block
<1>8. TableOK'
  <2>1. \A u \in Mem, c \in Blocks : u # t => (PreWrite(u, c)' <=> PreWrite(u, c))
    BY <1>1 DEF PreWrite, Kept
  <2>2. \A c \in Blocks : ~ PreWrite(t, c)' /\ (PreWrite(t, c) => c = b)
    BY <1>1 DEF PreWrite
  <2>3. ASSUME NEW c \in Blocks, c # b PROVE BlockOK(c)'
    <3>1. \A u \in Mem : PreWrite(u, c)' <=> PreWrite(u, c)
      BY <2>1, <2>2, <2>3
    <3>2. \A u \in Mem : PreWrite(u, c) => Kept(u)
      BY <1>1, <2>2, <2>3
    <3>3. BlockOK(c)
      BY DEF DataInv, TableOK
    <3> QED BY <1>6, <2>3, <3>1, <3>2, <3>3, BlockFrame DEF Kept
  <2>4. \A u \in Mem : ~ PreWrite(u, b)'
    BY <1>7, <2>1, <2>2 DEF PreWrite
  <2>5. BlockOK(b)'
    BY <1>6, <2>4 DEF BlockOK
  <2> QED BY <2>3, <2>5 DEF TableOK
<1>9. MapsOK'
  <2>1. ASSUME NLevel > 1, ~ Bit0(l)' PROVE Eff0(l)' = {}
    <3>1. ~ tt_any(flag[t])
      BY <1>3, <2>1
    <3>2. Eff0(l) \ n = {}
      BY <1>0, <1>4, <1>5, <2>1, <3>1 DEF FlagOK, RestTT
    <3>3. mem_data[t] \cap xact[t].mask = {}
      BY <1>0, <3>1 DEF FlagOK, Consistent, tt_any
    <3>4. d \cap n = {}
      BY <1>5, <3>3 DEF TagMask
    <3> QED BY <1>3, <3>2, <3>4
  <2>2. NLevel > 1 => \A c \in TTLines : ~ Bit0(c)' => Eff0(c)' = {}
    BY <1>0, <1>3, <2>1 DEF MapsOK
  <2>3. NLevel > 2 => \A m \in TM0Lines : ~ Bit1(m)' => Eff1(m)' = {}
    BY <1>0, <1>2, <1>3 DEF MapsOK, Map0Same
  <2> QED BY <2>2, <2>3 DEF MapsOK
<1>10. CachedLive'
  <2>1. ASSUME AEA, NLevel > 1, NEW c \in TTLines, Cached(c)' PROVE Bit0(c)'
    <3>1. CASE c = l
      <4>1. op \in {"C", "W"}
        BY <2>1, <3>1, OpOfWrite DEF Wrote
      <4>2. tt_any(flag[t])
        BY <2>1, <4>1, OpOfWrite DEF tt_any
      <4> QED BY <1>3, <2>1, <3>1, <4>2
    <3>2. CASE c # l
      <4>1. Cached(c)
        BY <2>1, <3>2, LevelLines DEF Wrote
      <4> QED BY <1>0, <1>3, <2>1, <3>2, <4>1 DEF CachedLive
    <3> QED BY <3>1, <3>2
  <2>2. ASSUME AEA, NLevel > 2, NEW m \in TM0Lines, Cached(m)' PROVE Bit1(m)'
    <3>1. m # l /\ m \in Lines
      BY <1>2, <2>2, LevelLines, TagCacheAssumption
    <3>2. Cached(m)
      BY <2>2, <3>1 DEF Wrote
    <3> QED BY <1>0, <1>2, <1>3, <2>2, <3>2 DEF CachedLive, Map0Same
  <2> QED BY <2>1, <2>2 DEF CachedLive
<1>11. NLevel > 1 => \A c \in TTLines : Eff1(Up[c])' = Eff1(Up[c])
  BY <1>3, LevelLines DEF Map0Same
<1>12. NLevel > 2 => \A c \in TTLines : Bit1(Up[c])' <=> Bit1(Up[c])
  BY <1>2, <1>3, LevelLines DEF Map0Same
<1>13. ASSUME NLevel > 2, NEW m \in TM0Lines PROVE View(Up[m])' = View(Up[m])
  <2>1. Up[m] \in TM1Lines
    BY <1>13, LevelLines
  <2> QED BY <1>3, <1>13, <2>1 DEF Map1Same
<1>14. ASSUME NEW u \in Mem, u # t PROVE UpdateOK(u)' /\ FlagOK(u)' /\ FetchOK(u)'
  <2>1. Kept(u) /\ UpdateOK(u) /\ FlagOK(u) /\ FetchOK(u)
    BY <1>1, <1>14 DEF DataInv, UpdatesOK, FlagsOK, FetchLive
  <2>2. Line(u)' = Line(u) /\ MLine(u)' = MLine(u) /\ TagMask(u)' = TagMask(u)
    BY <2>1 DEF Line, MLine, TagMask, Kept
  <2>3. UpdateOK(u)'
    BY <1>6, <1>7, <1>14, <2>1 DEF UpdateOK, Updates, Kept
  <2>4. FixedFlags(u)'
    BY <2>1 DEF FlagOK, FixedFlags, Kept
  <2>5. Consistent(u)'
    BY <2>1 DEF FlagOK, Consistent, Kept
  <2>6. ReadTM1(u)'
    BY <1>13, <2>1, <2>2 DEF FlagOK, ReadTM1, Kept
  <2>7. ReadTM0(u)'
    BY <1>11, <2>1, <2>2 DEF FlagOK, ReadTM0, Kept
  <2>8. RestTM0(u)'
    BY <1>2, <1>11, <2>1, <2>2 DEF FlagOK, RestTM0, Kept
  <2>9. RestTT(u)'
    <3>1. NLevel > 1 /\ tc_state[u] = "TTW" => Line(u) # l
      BY <1>4, <1>14, Own
    <3> QED BY <1>3, <2>1, <2>2, <3>1 DEF FlagOK, RestTT, Kept
  <2>10. FetchOK(u)'
    <3>1. NLevel > 1 /\ tc_state[u] = "TTF" => Line(u) # l
      BY <1>4, <1>14 DEF TurnsOK
    <3> QED BY <1>3, <1>12, <2>1, <2>2, <3>1 DEF FetchOK, Kept
  <2> QED BY <2>3, <2>4, <2>5, <2>6, <2>7, <2>8, <2>9, <2>10 DEF FlagOK
<1>15. UpdateOK(t)' /\ FetchOK(t)'
  BY <1>1 DEF UpdateOK, Updates, FetchOK
<1>16. FlagOK(t)'
  <2>1. CASE NLevel > 1
    <3>1. tc_state'[t] = "TM0W" /\ xact'[t] = xact[t] /\ flag'[t] = flag[t]
      BY <1>1, <2>1
    <3>2. Line(t)' = Line(t) /\ MLine(t)' = MLine(t)
      BY <3>1 DEF Line, MLine
    <3>3. FixedFlags(t)'
      BY <1>0, <3>1 DEF FlagOK, FixedFlags
    <3>4. ReadTM1(t)'
      BY <1>0, <1>13, <3>1, <3>2 DEF FlagOK, ReadTM1
    <3>5. ReadTM0(t)'
      BY <1>0, <1>11, <3>1, <3>2 DEF FlagOK, ReadTM0
    <3>6. RestTM0(t)'
      BY <1>0, <1>2, <1>11, <3>1, <3>2 DEF FlagOK, RestTM0
    <3>7. xact[t].rw
      BY <1>0 DEF UpdateOK, Updates
    <3>8. Consistent(t)'
      BY <1>0, <3>1, <3>7 DEF FlagOK, Consistent
    <3> QED BY <3>1, <3>3, <3>4, <3>5, <3>6, <3>8 DEF FlagOK, RestTT
  <2>2. CASE ~ (NLevel > 1)
    <3>1. tc_state'[t] = "IDLE" /\ (flag'[t] = flag[t] \/ flag'[t] = ResetFlags)
      BY <1>0, <1>1, <2>2 DEF TrackersOK
    <3>2. FixedFlags(t)'
      BY <1>0, <3>1 DEF FlagOK, FixedFlags, ResetFlags
    <3> QED BY <3>1, <3>2 DEF FlagOK, ReadTM1, ReadTM0, RestTT, RestTM0, Consistent
  <2> QED BY <2>1, <2>2
<1>17. ReadCorrect'
  <2>1. ASSUME NEW u \in Mem PROVE ReadOK(u)'
    <3>1. CASE u = t
      <4>1. xact[t].rw
        BY <1>0 DEF UpdateOK, Updates
      <4> QED BY <1>0, <1>1, <3>1, <4>1 DEF ReadOK, TrackersOK
    <3>2. CASE u # t
      BY <1>1, <3>2 DEF DataInv, ReadCorrect, ReadOK, Kept
    <3> QED BY <3>1, <3>2
  <2> QED BY <2>1 DEF ReadCorrect, ReadOK
<1>18. \A u \in Mem : UpdateOK(u)' /\ FlagOK(u)' /\ FetchOK(u)'
  BY <1>14, <1>15, <1>16
<1> QED BY <1>8, <1>9, <1>10, <1>17, <1>18 DEF DataInv, UpdatesOK, FlagsOK, FetchLive, NoRace

\* The flags are Boolean.
LEMMA BoolFlags ==
  ASSUME TrackersOK, NEW t \in Mem
  PROVE  /\ tt_any(flag[t]) = flag[t].tm0_tag1 <=> (tt_any(flag[t]) <=> flag[t].tm0_tag1)
         /\ tm0_any(flag[t]) = flag[t].tm1_tag1 <=> (tm0_any(flag[t]) <=> flag[t].tm1_tag1)
<1>1. /\ flag[t].tm1_tag1 \in BOOLEAN /\ flag[t].tm0_tag1 \in BOOLEAN
      /\ flag[t].tm0_tagN \in BOOLEAN /\ flag[t].tt_tag1 \in BOOLEAN /\ flag[t].tt_tagN \in BOOLEAN
  BY DEF TrackersOK, Flags
<1>2. tt_any(flag[t]) \in BOOLEAN
  BY <1>1 DEF tt_any
<1>3. tm0_any(flag[t]) \in BOOLEAN
  BY <1>1, <1>2 DEF tm0_any
<1> QED BY <1>1, <1>2, <1>3

\* What a write to map 0, or the unlock in its place, changes.
LEMMA Map0Effect ==
  ASSUME Base, ControlInv, DataInv, NEW t \in Mem, tc_state[t] = "TM0W", NLevel > 1,
         NEW b \in Blocks, b = xact[t].blk, NEW l \in TTLines, l = Up[b],
         NEW m \in TM0Lines, m = Up[l],
         NEW op, NEW d, NEW n, op = OpOf(t), d = DataOf(t), n = MaskOf(t), Wrote(m, op, d, n),
         NEW r, Respond(t, r)
  PROVE  /\ \A c \in TM0Lines : c # m =>
              Eff1(c)' = Eff1(c) /\ (NLevel > 2 => (Bit1(c)' <=> Bit1(c)))
         /\ NLevel > 2 => (Bit1(m)' <=> tm0_any(flag[t]))
         /\ <<l, MapBit>> \in Eff1(m)' <=> tt_any(flag[t])
         /\ Eff1(m)' \ BitsOf(l) = Eff1(m) \ BitsOf(l)
         /\ Map1Same /\ \A c \in TTLines : View(c)' = View(c)
<1>0. TrackersOK /\ FlagOK(t) /\ MapsOK /\ CachedLive /\ FlagsOK
  BY DEF Base, TypeOK, DataInv, FlagsOK
<1>1. /\ \A u \in Mem : u # t => Kept(u)
      /\ tc_state'[t] = IF NLevel > 2 THEN "TM1W" ELSE "IDLE"
      /\ NLevel > 2 => xact'[t] = xact[t] /\ flag'[t] = flag[t]
  BY <1>0, UpdateAnswer
<1>2. NLevel \in {1, 2, 3}
  BY FirstLockIs
<1>3. Line(t) = l /\ MLine(t) = m /\ (NLevel > 2 => MLine(t)' = m)
  BY <1>1 DEF Line, MLine
<1>4. \A u \in Mem : \A c : c # m =>
        /\ Settles1(u, c)' <=> Settles1(u, c)
        /\ Settles1(u, c) => flag'[u] = flag[u]
  BY <1>1, <1>2, <1>3 DEF Settles1, Kept, Line, MLine
<1>5. \A c \in Lines : c # m => View(c)' = View(c)
  BY DEF Wrote
<1>6. Map1Same /\ \A c \in TTLines : View(c)' = View(c)
  BY <1>5, LevelLines, TagCacheAssumption DEF Map1Same, Lines
<1>7. ASSUME NEW c \in TM0Lines, c # m
      PROVE  Eff1(c)' = Eff1(c) /\ (NLevel > 2 => (Bit1(c)' <=> Bit1(c)))
  <2>1. ASSUME NLevel > 2 PROVE Bit1(c)' <=> Bit1(c)
    <3>1. Up[c] \in TM1Lines
      BY <2>1, LevelLines
    <3>2. View(Up[c])' = View(Up[c])
      BY <1>6, <2>1, <3>1 DEF Map1Same
    <3> QED BY <1>4, <1>7, <3>2, Bit1Frame
  <2>2. View(c)' = View(c)
    BY <1>5, <1>7, LevelLines
  <2> QED BY <2>1, <2>2 DEF Eff1
<1>8. ASSUME NLevel > 2 PROVE Bit1(m)' <=> tm0_any(flag[t])
  <2>1. ASSUME NEW v \in Mem, Settles1(v, m)' PROVE v = t
    <3>1. v # t => Settles1(v, m)
      BY <1>1, <2>1 DEF Settles1, Kept, Line, MLine
    <3> QED BY <1>3, <1>8, <3>1, Own DEF Settles1
  <2>2. Settles1(t, m)' /\ (tm0_any(flag[t])' <=> tm0_any(flag[t]))
    BY <1>1, <1>3, <1>8 DEF Settles1
  <2> QED BY <2>1, <2>2 DEF Bit1
<1>9. BitsOf(l) = {<<l, MapBit>>}
  BY UpFacts DEF BitsOf
<1>10. d = (IF tt_any(flag[t]) THEN BitsOf(l) ELSE {}) /\ n = BitsOf(l)
  <2>1. HoldOf(t) = l
    BY <1>3, HoldIs
  <2> QED BY <2>1 DEF DataOf, MaskOf
<1>11. flag[t].tm0_tag1 <=> <<l, MapBit>> \in Eff1(m)
  BY <1>0, <1>3 DEF FlagOK, ReadTM0
<1>12. NLevel > 2 => (Bit1(m) <=> flag[t].tm1_tag1)
  BY <1>0, <1>3, OwnBits
<1>13. ~ flag[t].tm0_tag1 => flag[t].tt_tag1
  BY <1>0 DEF FlagOK, Consistent
<1>14. CASE op = "U"
  <2>1. flag[t].tm0_tag1 /\ tt_any(flag[t])
    BY <1>0, <1>13, <1>14, OpOfWrite, BoolFlags DEF tt_any
  <2>2. View(m)' = View(m)
    BY <1>14 DEF Wrote
  <2>3. Eff1(m) = View(m)
    BY <1>11, <2>1 DEF Eff1
  <2>4. Eff1(m)' = View(m)'
    BY <1>8, <2>1 DEF Eff1, tm0_any
  <2> QED BY <1>6, <1>7, <1>8, <1>11, <2>1, <2>2, <2>3, <2>4
<1>15. CASE op = "I"
  <2>1. ~ tm0_any(flag[t]) /\ AEA /\ NLevel > 2
    BY <1>15, OpOfWrite
  <2>2. ~ tt_any(flag[t]) /\ ~ flag[t].tm0_tagN
    BY <2>1 DEF tm0_any
  <2>3. flag[t].tm0_tag1
    BY <1>13, <2>2 DEF tt_any
  <2>4. Eff1(m) \ BitsOf(l) = {}
    BY <1>0, <1>3, <2>1, <2>2, <2>3 DEF FlagOK, RestTM0
  <2>5. Eff1(m)' = {}
    BY <1>8, <2>1 DEF Eff1
  <2> QED BY <1>6, <1>7, <1>8, <2>2, <2>4, <2>5
<1>16. CASE op = "C"
  <2>1. ~ flag[t].tm1_tag1 /\ tt_any(flag[t]) /\ AEA /\ NLevel > 2
    BY <1>16, OpOfWrite DEF tt_any
  <2>2. ~ Cached(m) /\ Eff1(m) = {}
    BY <1>0, <1>12, <2>1 DEF CachedLive, MapsOK
  <2>3. Eff1(m)' = View(m)'
    BY <1>8, <2>1 DEF Eff1, tm0_any
  <2>4. View(m)' = BitsOf(l)
    BY <1>10, <1>16, <2>1, <2>2 DEF Wrote
  <2> QED BY <1>6, <1>7, <1>8, <1>9, <2>1, <2>2, <2>3, <2>4
<1>17. CASE op = "W"
  <2>1. Eff1(m) = View(m) /\ Eff1(m)' = View(m)'
    <3>1. CASE AEA /\ NLevel > 2
      <4>1. tm0_any(flag[t]) /\ (flag[t].tm1_tag1 \/ ~ flag[t].tt_tag1)
        BY <1>17, <3>1, OpOfWrite
      <4>2. flag[t].tm1_tag1
        <5>1. SUFFICES ASSUME ~ flag[t].tm1_tag1 PROVE FALSE
          OBVIOUS
        <5>2. Eff1(m) = {}
          BY <1>12, <3>1, <5>1 DEF Eff1
        <5> QED BY <1>11, <1>13, <4>1, <5>1, <5>2
      <4> QED BY <1>8, <1>12, <3>1, <4>1, <4>2 DEF Eff1
    <3>2. CASE ~ (AEA /\ NLevel > 2)
      BY <3>2 DEF Eff1
    <3> QED BY <3>1, <3>2
  <2>2. View(m)' = (View(m) \ n) \cup (d \cap n)
    BY <1>10, <1>17 DEF Wrote
  <2>3. Eff1(m)' \ BitsOf(l) = Eff1(m) \ BitsOf(l)
    BY <1>10, <2>1, <2>2
  <2>4. <<l, MapBit>> \in Eff1(m)' <=> tt_any(flag[t])
    BY <1>9, <1>10, <2>1, <2>2
  <2> QED BY <1>6, <1>7, <1>8, <2>3, <2>4
<1> QED BY <1>14, <1>15, <1>16, <1>17, OpOfWrite

\* Seen with the bits being settled, a write to map 0 leaves the table alone.
LEMMA Map0Table ==
  ASSUME Base, ControlInv, NEW t \in Mem, tc_state[t] = "TM0W", NLevel > 1,
         NEW l \in TTLines, l = Line(t), NEW m \in TM0Lines, m = Up[l],
         NEW r, Respond(t, r), \A c \in TM0Lines : c # m => Eff1(c)' = Eff1(c),
         <<l, MapBit>> \in Eff1(m)' <=> tt_any(flag[t]),
         Eff1(m)' \ BitsOf(l) = Eff1(m) \ BitsOf(l), \A c \in TTLines : View(c)' = View(c)
  PROVE  TableSame
<1>0. TrackersOK
  BY DEF Base, TypeOK
<1>1. /\ \A u \in Mem : u # t => Kept(u)
      /\ tc_state'[t] \in {"TM1W", "IDLE"}
  BY <1>0, UpdateAnswer
<1>2. Bit0(l) <=> tt_any(flag[t])
  BY BitValues DEF Settles0
<1>3. \A u \in Mem : ~ Settles0(u, l)'
  <2>1. ASSUME NEW u \in Mem, Settles0(u, l)' PROVE FALSE
    <3>1. u # t
      BY <1>1, <2>1 DEF Settles0
    <3>2. Settles0(u, l)
      BY <1>1, <2>1, <3>1 DEF Settles0, Kept, Line
    <3> QED BY <3>1, <3>2, Own DEF Settles0
  <2> QED BY <2>1
<1>4. Bit0(l)' <=> <<l, MapBit>> \in Eff1(m)'
  BY <1>3 DEF Bit0
<1>5. ASSUME NEW c \in TTLines, c # l PROVE Bit0(c)' <=> Bit0(c)
  <2>1. Up[c] \in TM0Lines
    BY LevelLines
  <2>2. <<c, MapBit>> \notin BitsOf(l)
    <3>1. l \notin Blocks
      BY LevelLines, TagCacheAssumption
    <3> QED BY <1>5, <3>1 DEF BitsOf
  <2>3. <<c, MapBit>> \in Eff1(m)' <=> <<c, MapBit>> \in Eff1(m)
    BY <2>2
  <2>4. (<<c, MapBit>> \in Eff1(Up[c]))' <=> <<c, MapBit>> \in Eff1(Up[c])
    <3>1. CASE Up[c] = m
      BY <2>3, <3>1
    <3>2. CASE Up[c] # m
      BY <2>1, <3>2
    <3> QED BY <3>1, <3>2
  <2>5. \A u \in Mem : /\ Settles0(u, c)' <=> Settles0(u, c)
                       /\ Settles0(u, c) => flag'[u] = flag[u]
    BY <1>1, <1>5 DEF Settles0, Kept, Line
  <2> QED BY <2>4, <2>5, Bit0Frame
<1>6. \A c \in TTLines : Bit0(c)' <=> Bit0(c)
  BY <1>2, <1>4, <1>5
<1> QED BY <1>6 DEF TableSame, Eff0

\* With three levels and AEA, without a race, there is one tracker.
LEMMA OneTracker ==
  ASSUME NoRace, NLevel > 2, AEA, NEW u \in Mem, NEW t \in Mem
  PROVE  u = t
<1>1. NMem = 1
  BY FirstLockIs DEF NoRace
<1> QED BY <1>1 DEF Mem

\* The end of the update of a map: no tags are written.
LEMMA TableKept ==
  ASSUME TrackersOK, TableOK, TableSame, UNCHANGED tags, NEW t \in Mem, NEW r, Respond(t, r),
         tc_state[t] \in {"TM0W", "TM1W"}
  PROVE  TableOK'
<1>1. /\ \A u \in Mem : u # t => Kept(u)
      /\ tc_state'[t] \in {"TM1W", "IDLE"}
  BY UpdateAnswer
<1>2. \A u \in Mem, c \in Blocks : PreWrite(u, c)' <=> PreWrite(u, c)
  BY <1>1 DEF PreWrite, Kept
<1>3. \A u \in Mem, c \in Blocks : PreWrite(u, c) => Kept(u)
  BY <1>1 DEF PreWrite
<1>4. ASSUME NEW c \in Blocks PROVE BlockOK(c)'
  <2>1. EffTags(c)' = EffTags(c) /\ BlockOK(c)
    BY TagsFrame DEF TableOK
  <2> QED BY <1>2, <1>3, <2>1, BlockFrame DEF Kept
<1> QED BY <1>4 DEF TableOK

\* The end of the update of a map: nothing is returned.
LEMMA ReadKept ==
  ASSUME TrackersOK, ReadCorrect, FlagsOK, UNCHANGED tags, NEW t \in Mem, NEW r, Respond(t, r),
         tc_state[t] \in {"TM0W", "TM1W"}
  PROVE  ReadCorrect'
<1>1. /\ UNCHANGED mt_state
      /\ \A u \in Mem : u # t => Kept(u)
      /\ mt_state[t] # "IDLE" => xact'[t] = xact[t]
  BY UpdateAnswer
<1>2. xact[t].rw
  BY DEF FlagsOK, FlagOK, Consistent
<1>3. ASSUME NEW u \in Mem PROVE ReadOK(u)'
  <2>1. CASE u = t
    BY <1>1, <1>2, <2>1 DEF ReadOK
  <2>2. CASE u # t
    BY <1>1, <2>2 DEF ReadCorrect, ReadOK, Kept
  <2> QED BY <2>1, <2>2
<1> QED BY <1>3 DEF ReadCorrect, ReadOK

\* The write to map 0 or the unlock in its place (state TM0W).
LEMMA DataMap0 ==
  ASSUME Base, ControlInv, DataInv, NEW t \in Mem, tc_state[t] = "TM0W", NLevel > 1,
         NEW b \in Blocks, b = xact[t].blk, NEW l \in TTLines, l = Up[b],
         NEW m \in TM0Lines, m = Up[l],
         NEW op, NEW d, NEW n, op = OpOf(t), d = DataOf(t), n = MaskOf(t), Wrote(m, op, d, n),
         NEW r, Respond(t, r), UNCHANGED tags
  PROVE  DataInv'
<1>0. TrackersOK /\ FlagOK(t) /\ MapsOK /\ CachedLive /\ FlagsOK /\ TableOK /\ ReadCorrect /\ NoRace
  BY DEF Base, TypeOK, DataInv, FlagsOK
<1>1. /\ \A u \in Mem : u # t => Kept(u)
      /\ tc_state'[t] = IF NLevel > 2 THEN "TM1W" ELSE "IDLE"
      /\ tc_state'[t] # "IDLE" \/ mt_state[t] # "IDLE" =>
           xact'[t] = xact[t] /\ mem_data'[t] = mem_data[t] /\ flag'[t] = flag[t]
      /\ tc_state'[t] = "IDLE" /\ mt_state[t] = "IDLE" => flag'[t] = ResetFlags
  BY <1>0, UpdateAnswer
<1>2. NLevel \in {1, 2, 3}
  BY FirstLockIs
<1>3. /\ \A c \in TM0Lines : c # m =>
           Eff1(c)' = Eff1(c) /\ (NLevel > 2 => (Bit1(c)' <=> Bit1(c)))
      /\ NLevel > 2 => (Bit1(m)' <=> tm0_any(flag[t]))
      /\ <<l, MapBit>> \in Eff1(m)' <=> tt_any(flag[t])
      /\ Eff1(m)' \ BitsOf(l) = Eff1(m) \ BitsOf(l)
      /\ Map1Same /\ \A c \in TTLines : View(c)' = View(c)
  BY Map0Effect
<1>4. Line(t) = l /\ MLine(t) = m
  BY DEF Line, MLine
<1>5. TableSame
  BY <1>3, <1>4, Map0Table
<1>6. TableOK' /\ ReadCorrect'
  BY <1>0, <1>5, TableKept, ReadKept
<1>7. BitsOf(l) = {<<l, MapBit>>}
  BY UpFacts DEF BitsOf
<1>8. MapsOK'
  <2>1. ASSUME NLevel > 2, ~ Bit1(m)' PROVE Eff1(m)' = {}
    <3>1. ~ tt_any(flag[t]) /\ ~ flag[t].tm0_tagN
      BY <1>3, <2>1 DEF tm0_any
    <3>2. flag[t].tm0_tag1
      BY <1>0, <3>1 DEF FlagOK, Consistent, tt_any
    <3>3. Eff1(m) \ BitsOf(l) = {}
      BY <1>0, <1>4, <2>1, <3>1, <3>2 DEF FlagOK, RestTM0
    <3> QED BY <1>3, <1>7, <3>1, <3>3
  <2>2. NLevel > 2 => \A c \in TM0Lines : ~ Bit1(c)' => Eff1(c)' = {}
    BY <1>0, <1>3, <2>1 DEF MapsOK
  <2>3. NLevel > 1 => \A c \in TTLines : ~ Bit0(c)' => Eff0(c)' = {}
    BY <1>0, <1>5 DEF MapsOK, TableSame
  <2> QED BY <2>2, <2>3 DEF MapsOK
<1>9. CachedLive'
  <2>1. ASSUME AEA, NEW c \in TTLines, Cached(c)' PROVE Bit0(c)'
    <3>1. c # m /\ c \in Lines
      BY LevelLines, TagCacheAssumption
    <3>2. Cached(c)
      BY <2>1, <3>1 DEF Wrote
    <3> QED BY <1>0, <1>5, <2>1, <3>2 DEF CachedLive, TableSame
  <2>2. ASSUME AEA, NLevel > 2, NEW c \in TM0Lines, Cached(c)' PROVE Bit1(c)'
    <3>1. c \in Lines
      BY LevelLines
    <3>2. CASE c # m
      <4>1. Cached(c)
        BY <2>2, <3>1, <3>2 DEF Wrote
      <4> QED BY <1>0, <1>3, <2>2, <3>2, <4>1 DEF CachedLive
    <3>3. CASE c = m
      <4>1. op \in {"U", "C", "W"}
        BY <2>2, <3>3, OpOfWrite DEF Wrote
      <4>2. CASE op \in {"C", "W"}
        <5>1. tm0_any(flag[t])
          BY <2>2, <4>2, OpOfWrite DEF tm0_any, tt_any
        <5> QED BY <1>3, <2>2, <3>3, <5>1
      <4>3. CASE op = "U"
        <5>1. tt_any(flag[t]) <=> flag[t].tm0_tag1
          BY <1>0, <4>3, OpOfWrite, BoolFlags
        <5>2. tt_any(flag[t])
          BY <1>0, <5>1 DEF FlagOK, Consistent, tt_any
        <5> QED BY <1>3, <2>2, <3>3, <5>2 DEF tm0_any
      <4> QED BY <4>1, <4>2, <4>3
    <3> QED BY <3>2, <3>3
  <2> QED BY <2>1, <2>2 DEF CachedLive
<1>10. ASSUME NLevel > 2, NEW c \in TM0Lines PROVE View(Up[c])' = View(Up[c])
  <2>1. Up[c] \in TM1Lines
    BY <1>10, LevelLines
  <2> QED BY <1>3, <1>10, <2>1 DEF Map1Same
<1>11. \A c \in Blocks : EffTags(c)' = EffTags(c)
  BY <1>5, TagsFrame
<1>12. ASSUME NEW u \in Mem, u # t PROVE UpdateOK(u)' /\ FlagOK(u)' /\ FetchOK(u)'
  <2>1. Kept(u) /\ UpdateOK(u) /\ FlagOK(u) /\ FetchOK(u)
    BY <1>1, <1>12 DEF DataInv, UpdatesOK, FlagsOK, FetchLive
  <2>2. Line(u)' = Line(u) /\ MLine(u)' = MLine(u) /\ TagMask(u)' = TagMask(u)
    BY <2>1 DEF Line, MLine, TagMask, Kept
  <2>3. UpdateOK(u)'
    BY <1>11, <2>1 DEF UpdateOK, Kept
  <2>4. FixedFlags(u)'
    BY <2>1 DEF FlagOK, FixedFlags, Kept
  <2>5. Consistent(u)'
    BY <2>1 DEF FlagOK, Consistent, Kept
  <2>6. ReadTM1(u)'
    BY <1>10, <2>1, <2>2 DEF FlagOK, ReadTM1, Kept
  <2>7. ReadTM0(u)'
    <3>1. ASSUME NEW c \in TTLines, Line(u) = c, tc_state[u] \in {"TTL", "TTW", "TM0W"}
          PROVE  <<c, MapBit>> \in Eff1(Up[c])' <=> <<c, MapBit>> \in Eff1(Up[c])
      <4>1. c # l
        BY <1>4, <1>12, <3>1, Own
      <4>2. Up[c] \in TM0Lines
        BY LevelLines
      <4>3. CASE Up[c] = m
        BY <1>3, <1>7, <4>1, <4>3
      <4>4. CASE Up[c] # m
        BY <1>3, <4>2, <4>4
      <4> QED BY <4>3, <4>4
    <3> QED BY <2>1, <2>2, <3>1 DEF FlagOK, ReadTM0, Kept
  <2>8. RestTM0(u)'
    <3>1. ASSUME NLevel > 2, NEW c \in TTLines, Line(u) = c, tc_state[u] \in {"TTL", "TTW", "TM0W"}
          PROVE  Eff1(Up[c])' = Eff1(Up[c])
      <4>1. Up[c] = MLine(u)
        BY <3>1 DEF MLine
      <4>2. Up[c] # m
        BY <1>4, <1>12, <3>1, <4>1, Own
      <4>3. Up[c] \in TM0Lines
        BY LevelLines
      <4> QED BY <1>3, <4>2, <4>3
    <3> QED BY <2>1, <2>2, <3>1 DEF FlagOK, RestTM0, Kept
  <2>9. RestTT(u)'
    BY <1>5, <2>1, <2>2 DEF FlagOK, RestTT, Kept, TableSame
  <2>10. FetchOK(u)'
    <3>1. ~ (AEA /\ NLevel > 2)
      BY <1>0, <1>12, OneTracker
    <3> QED BY <1>5, <2>1, <2>2, <3>1 DEF FetchOK, Kept, TableSame
  <2> QED BY <2>3, <2>4, <2>5, <2>6, <2>7, <2>8, <2>9, <2>10 DEF FlagOK
<1>13. UpdateOK(t)' /\ FetchOK(t)'
  BY <1>1 DEF UpdateOK, Updates, FetchOK
<1>14. FlagOK(t)'
  <2>1. CASE NLevel > 2
    <3>1. tc_state'[t] = "TM1W" /\ xact'[t] = xact[t] /\ flag'[t] = flag[t]
      BY <1>1, <2>1
    <3>2. Line(t)' = Line(t) /\ MLine(t)' = MLine(t)
      BY <3>1 DEF Line, MLine
    <3>3. FixedFlags(t)'
      BY <1>0, <3>1 DEF FlagOK, FixedFlags
    <3>4. ReadTM1(t)'
      BY <1>0, <1>10, <3>1, <3>2 DEF FlagOK, ReadTM1
    <3>5. Consistent(t)'
      BY <1>0, <3>1 DEF FlagOK, Consistent
    <3> QED BY <3>1, <3>3, <3>4, <3>5 DEF FlagOK, ReadTM0, RestTT, RestTM0
  <2>2. CASE ~ (NLevel > 2)
    <3>1. tc_state'[t] = "IDLE" /\ (flag'[t] = flag[t] \/ flag'[t] = ResetFlags)
      BY <1>0, <1>1, <2>2 DEF TrackersOK
    <3>2. FixedFlags(t)'
      BY <1>0, <3>1 DEF FlagOK, FixedFlags, ResetFlags
    <3> QED BY <3>1, <3>2 DEF FlagOK, ReadTM1, ReadTM0, RestTT, RestTM0, Consistent
  <2> QED BY <2>1, <2>2
<1>15. \A u \in Mem : UpdateOK(u)' /\ FlagOK(u)' /\ FetchOK(u)'
  BY <1>12, <1>13, <1>14
<1> QED BY <1>6, <1>8, <1>9, <1>15 DEF DataInv, UpdatesOK, FlagsOK, FetchLive, NoRace

\* The write to map 1 or the unlock in its place (state TM1W).
LEMMA DataMap1 ==
  ASSUME Base, ControlInv, DataInv, NEW t \in Mem, tc_state[t] = "TM1W", NLevel > 2,
         NEW b \in Blocks, b = xact[t].blk, NEW l \in TTLines, l = Up[b],
         NEW m \in TM0Lines, m = Up[l], NEW p \in TM1Lines, p = Up[m],
         NEW op, NEW d, NEW n, op = OpOf(t), d = DataOf(t), n = MaskOf(t), Wrote(p, op, d, n),
         NEW r, Respond(t, r), UNCHANGED tags
  PROVE  DataInv'
<1>0. TrackersOK /\ FlagOK(t) /\ MapsOK /\ CachedLive /\ FlagsOK /\ TableOK /\ ReadCorrect
  BY DEF Base, TypeOK, DataInv, FlagsOK
<1>1. /\ \A u \in Mem : u # t => Kept(u)
      /\ tc_state'[t] = "IDLE"
      /\ mt_state[t] # "IDLE" => flag'[t] = flag[t]
      /\ mt_state[t] = "IDLE" => flag'[t] = ResetFlags
  BY <1>0, UpdateAnswer
<1>2. NLevel = 3
  BY FirstLockIs
<1>3. Line(t) = l /\ MLine(t) = m
  BY DEF Line, MLine
<1>4. \A c \in Lines : c # p => View(c)' = View(c) /\ (Cached(c)' => Cached(c))
  BY DEF Wrote
<1>5. /\ TTLines \subseteq Lines /\ TM0Lines \subseteq Lines /\ TM1Lines \subseteq Lines
      /\ p \notin TTLines /\ p \notin TM0Lines /\ m \notin Blocks
  BY <1>2, TagCacheAssumption DEF Lines
<1>6. BitsOf(m) = {<<m, MapBit>>}
  BY <1>5 DEF BitsOf
<1>7. d = (IF tm0_any(flag[t]) THEN BitsOf(m) ELSE {}) /\ n = BitsOf(m)
  <2>1. HoldOf(t) = m
    BY <1>3, HoldIs
  <2> QED BY <2>1 DEF DataOf, MaskOf
<1>8. flag[t].tm1_tag1 <=> <<m, MapBit>> \in View(p)
  BY <1>0, <1>3 DEF FlagOK, ReadTM1
<1>9. (<<m, MapBit>> \in View(p)' <=> tm0_any(flag[t])) /\ View(p)' \ BitsOf(m) = View(p) \ BitsOf(m)
  <2>1. CASE op = "U"
    <3>1. tm0_any(flag[t]) <=> flag[t].tm1_tag1
      BY <1>0, <2>1, OpOfWrite, BoolFlags
    <3> QED BY <1>8, <2>1, <3>1 DEF Wrote
  <2>2. CASE op = "W"
    <3>1. View(p)' = (View(p) \ n) \cup (d \cap n)
      BY <1>7, <2>2 DEF Wrote
    <3>2. View(p)' \ BitsOf(m) = View(p) \ BitsOf(m)
      BY <1>7, <3>1
    <3>3. <<m, MapBit>> \in View(p)' <=> tm0_any(flag[t])
      BY <1>6, <1>7, <3>1
    <3> QED BY <3>2, <3>3
  <2> QED BY <2>1, <2>2, OpOfWrite
<1>10. ASSUME NEW c \in TM0Lines PROVE Bit1(c)' <=> Bit1(c)
  <2>1. CASE c = m
    <3>1. Bit1(m) <=> tm0_any(flag[t])
      BY <1>3, BitValues DEF Settles1
    <3>2. ASSUME NEW u \in Mem, Settles1(u, m)' PROVE FALSE
      <4>1. u # t
        BY <1>1, <3>2 DEF Settles1
      <4>2. Settles1(u, m)
        BY <1>1, <3>2, <4>1 DEF Settles1, Kept, Line, MLine
      <4> QED BY <1>3, <4>1, <4>2, Own DEF Settles1
    <3>3. Bit1(m)' <=> <<m, MapBit>> \in View(p)'
      BY <3>2 DEF Bit1
    <3> QED BY <1>9, <2>1, <3>1, <3>3
  <2>2. CASE c # m
    <3>1. Up[c] \in TM1Lines
      BY LevelLines
    <3>2. <<c, MapBit>> \in View(Up[c])' <=> <<c, MapBit>> \in View(Up[c])
      <4>1. CASE Up[c] = p
        BY <1>6, <1>9, <2>2, <4>1
      <4>2. CASE Up[c] # p
        BY <1>4, <1>5, <3>1, <4>2
      <4> QED BY <4>1, <4>2
    <3>3. \A u \in Mem : Settles1(u, c)' <=> Settles1(u, c)
      BY <1>1, <1>3, <2>2 DEF Settles1, Kept, Line, MLine
    <3>4. \A u \in Mem : Settles1(u, c) => (tm0_any(flag[u])' <=> tm0_any(flag[u]))
      BY <1>1, <1>3, <2>2 DEF Settles1, Kept
    <3> QED BY <3>2, <3>3, <3>4 DEF Bit1
  <2> QED BY <2>1, <2>2
<1>11. Map0Same
  BY <1>4, <1>5, <1>10 DEF Map0Same, Eff1
<1>12. TableSame
  <2>1. ASSUME NEW c \in TTLines PROVE Bit0(c)' <=> Bit0(c)
    <3>1. Up[c] \in TM0Lines
      BY <1>2, LevelLines
    <3>2. Eff1(Up[c])' = Eff1(Up[c])
      BY <1>2, <1>11, <3>1 DEF Map0Same
    <3>3. \A u \in Mem : /\ Settles0(u, c)' <=> Settles0(u, c)
                         /\ Settles0(u, c) => flag'[u] = flag[u]
      BY <1>1 DEF Settles0, Kept, Line
    <3> QED BY <3>2, <3>3, Bit0Frame
  <2> QED BY <1>4, <1>5, <2>1 DEF TableSame, Eff0
<1>13. TableOK' /\ ReadCorrect'
  BY <1>0, <1>12, TableKept, ReadKept
<1>14. MapsOK'
  BY <1>0, <1>2, <1>11, <1>12 DEF MapsOK, TableSame, Map0Same
<1>15. CachedLive'
  <2>1. ASSUME AEA, NEW c \in TTLines, Cached(c)' PROVE Bit0(c)'
    BY <1>0, <1>2, <1>4, <1>5, <1>12, <2>1 DEF CachedLive, TableSame
  <2>2. ASSUME AEA, NEW c \in TM0Lines, Cached(c)' PROVE Bit1(c)'
    BY <1>0, <1>2, <1>4, <1>5, <1>10, <2>2 DEF CachedLive
  <2> QED BY <2>1, <2>2 DEF CachedLive
<1>16. \A c \in Blocks : EffTags(c)' = EffTags(c)
  BY <1>12, TagsFrame
<1>17. \A c \in TTLines : Eff1(Up[c])' = Eff1(Up[c]) /\ (Bit1(Up[c])' <=> Bit1(Up[c]))
  BY <1>2, <1>11, LevelLines DEF Map0Same
<1>18. ASSUME NEW u \in Mem, u # t PROVE UpdateOK(u)' /\ FlagOK(u)' /\ FetchOK(u)'
  <2>1. Kept(u) /\ UpdateOK(u) /\ FlagOK(u) /\ FetchOK(u)
    BY <1>1, <1>18 DEF DataInv, UpdatesOK, FlagsOK, FetchLive
  <2>2. Line(u)' = Line(u) /\ MLine(u)' = MLine(u) /\ TagMask(u)' = TagMask(u)
    BY <2>1 DEF Line, MLine, TagMask, Kept
  <2>3. UpdateOK(u)'
    BY <1>16, <2>1 DEF UpdateOK, Kept
  <2>4. FixedFlags(u)'
    BY <2>1 DEF FlagOK, FixedFlags, Kept
  <2>5. Consistent(u)'
    BY <2>1 DEF FlagOK, Consistent, Kept
  <2>6. ReadTM1(u)'
    <3>1. ASSUME NEW c \in TM0Lines, MLine(u) = c,
                 tc_state[u] \in {"TM0L", "TTL", "TTW", "TM0W", "TM1W"}
          PROVE  <<c, MapBit>> \in View(Up[c])' <=> <<c, MapBit>> \in View(Up[c])
      <4>1. c # m
        BY <1>3, <1>18, <3>1, Own
      <4>2. Up[c] \in TM1Lines
        BY LevelLines
      <4>3. CASE Up[c] = p
        BY <1>6, <1>9, <4>1, <4>3
      <4>4. CASE Up[c] # p
        BY <1>4, <1>5, <4>2, <4>4
      <4> QED BY <4>3, <4>4
    <3> QED BY <2>1, <2>2, <3>1 DEF FlagOK, ReadTM1, Kept
  <2>7. ReadTM0(u)'
    BY <1>17, <2>1, <2>2 DEF FlagOK, ReadTM0, Kept
  <2>8. RestTM0(u)'
    BY <1>17, <2>1, <2>2 DEF FlagOK, RestTM0, Kept
  <2>9. RestTT(u)'
    BY <1>12, <2>1, <2>2 DEF FlagOK, RestTT, Kept, TableSame
  <2>10. FetchOK(u)'
    BY <1>12, <1>17, <2>1, <2>2 DEF FetchOK, Kept, TableSame
  <2> QED BY <2>3, <2>4, <2>5, <2>6, <2>7, <2>8, <2>9, <2>10 DEF FlagOK
<1>19. UpdateOK(t)' /\ FlagOK(t)' /\ FetchOK(t)'
  BY <1>1, <1>2 DEF UpdateOK, Updates, FetchOK, FlagOK, FixedFlags, ReadTM1, ReadTM0, RestTT,
                    RestTM0, Consistent
<1>20. \A u \in Mem : UpdateOK(u)' /\ FlagOK(u)' /\ FetchOK(u)'
  BY <1>18, <1>19
<1> QED BY <1>13, <1>14, <1>15, <1>20 DEF DataInv, UpdatesOK, FlagsOK, FetchLive, NoRace

\* A bank's write or unlock, at whichever level it is.
LEMMA DataWrite ==
  ASSUME Base, ControlInv, LineInv, TurnsOK, DataInv, NEW k \in Banks, NEW t \in Mem,
         t = bank[k].id, tc_state[t] \in {"TTW", "TM0W", "TM1W"},
         \/ Lookup(k) /\ isWrite(bank[k].op)
         \/ Finish(k) /\ bank[k].op = "U"
  PROVE  DataInv'
<1>1. PICK b \in Blocks : b = xact[t].blk
  BY DEF Base, TypeOK, TrackersOK
<1>2. PICK l \in TTLines : l = Up[b] /\ l = Line(t)
  BY <1>1, TrackerLines DEF Base, TypeOK, Line
<1>3. PICK op : op = OpOf(t)
  OBVIOUS
<1>4. PICK d : d = DataOf(t)
  OBVIOUS
<1>5. PICK n : n = MaskOf(t)
  OBVIOUS
<1>6. TrackersOK
  BY DEF Base, TypeOK
<1>7. CASE tc_state[t] = "TTW"
  <2>1. l = Up[HoldOf(t)]
    BY <1>1, <1>2, <1>7, HoldIs
  <2>2. tc_req_sent[t] /\ (\E r : Respond(t, r)) /\ UNCHANGED tags /\ Wrote(l, op, d, n)
    BY <2>1, <1>3, <1>4, <1>5, WriteAnswer
  <2>3. PICK r : Respond(t, r)
    BY <2>2
  <2> QED BY <1>1, <1>2, <1>3, <1>4, <1>5, <1>7, <2>2, <2>3, DataTable
<1>8. CASE tc_state[t] = "TM0W"
  <2>1. NLevel > 1
    BY <1>6, <1>8, StateKinds
  <2>2. PICK m \in TM0Lines : m = Up[l]
    BY <2>1, <1>2, LevelLines
  <2>3. m = Up[HoldOf(t)]
    BY <1>2, <2>2, <1>8, HoldIs
  <2>4. (\E r : Respond(t, r)) /\ UNCHANGED tags /\ Wrote(m, op, d, n)
    BY <2>3, <1>3, <1>4, <1>5, WriteAnswer
  <2>5. PICK r : Respond(t, r)
    BY <2>4
  <2> QED BY <1>1, <1>2, <1>3, <1>4, <1>5, <1>8, <2>1, <2>2, <2>4, <2>5, DataMap0
<1>9. CASE tc_state[t] = "TM1W"
  <2>1. NLevel > 2 /\ NLevel > 1
    BY <1>6, <1>9, StateKinds, FirstLockIs
  <2>2. PICK m \in TM0Lines : m = Up[l]
    BY <2>1, <1>2, LevelLines
  <2>3. PICK p \in TM1Lines : p = Up[m]
    BY <2>1, <2>2, LevelLines
  <2>4. p = Up[HoldOf(t)]
    BY <1>2, <2>2, <2>3, <1>9, HoldIs DEF MLine
  <2>5. (\E r : Respond(t, r)) /\ UNCHANGED tags /\ Wrote(p, op, d, n)
    BY <2>4, <1>3, <1>4, <1>5, WriteAnswer
  <2>6. PICK r : Respond(t, r)
    BY <2>5
  <2> QED BY <1>1, <1>2, <1>3, <1>4, <1>5, <1>9, <2>1, <2>2, <2>3, <2>5, <2>6, DataMap1
<1> QED BY <1>7, <1>8, <1>9

\* Every step keeps the data right.
LEMMA DataStep ==
  ASSUME AllInv, [Next]_vars
  PROVE  DataInv'
<1>0. Base /\ ControlInv /\ LineInv /\ TurnsOK /\ DataInv /\ TrackersOK
  BY DEF AllInv, Base, TypeOK
<1>1. ASSUME NEW k \in Banks, Initiate(k)
      PROVE  FALSE
  BY <1>0, <1>1 DEF Initiate, Base, HandshakeInv, Initiated
<1>2. ASSUME NEW k \in Banks, Grant(k)
      PROVE  DataInv'
  BY <1>0, <1>2, GrantEffect, DataQuiet DEF lines
<1>3. ASSUME NEW k \in Banks, Lookup(k)
      PROVE  DataInv'
  <2>1. CASE ~ isWrite(bank[k].op)
    BY <1>0, <1>3, <2>1, DataSearchLookup
  <2>2. CASE isWrite(bank[k].op)
    <3>1. PICK t \in Mem : t = bank[k].id
      BY <1>0, <1>3, LookupEffect, AtBank
    <3>2. tc_state[t] \in {"TTW", "TM0W", "TM1W"}
      BY <1>0, <1>3, <2>2, <3>1, LookupEffect, AtBank, OpStates
    <3> QED BY <1>0, <1>3, <2>2, <3>1, <3>2, DataWrite
  <2> QED BY <2>1, <2>2
<1>4. ASSUME NEW k \in Banks, Finish(k)
      PROVE  DataInv'
  <2>1. CASE isWrite(bank[k].op)
    BY <1>0, <1>4, <2>1, FinishEffect, DataQuiet DEF lines, trackers
  <2>2. CASE ~ isWrite(bank[k].op)
    <3>1. PICK t \in Mem : t = bank[k].id
      BY <1>0, <1>4, FinishEffect
    <3>2. tc_state[t] # "IDLE" /\ bank[k].op = OpOf(t)
      BY <1>0, <1>4, <2>2, <3>1, FinishEffect, AtBank
    <3>3. CASE tc_state[t] \in Searches
      BY <1>0, <1>4, <2>2, <3>1, <3>3, DataSearch
    <3>4. CASE tc_state[t] \in {"TM1L", "TM0L", "TTL"}
      BY <1>0, <1>4, <2>2, <3>1, <3>4, DataLock
    <3>5. CASE tc_state[t] \in {"TTW", "TM0W", "TM1W"}
      <4>1. bank[k].op = "U"
        BY <2>2, <3>2, <3>5, OpOfWrite DEF isWrite
      <4> QED BY <1>0, <1>4, <3>1, <3>5, <4>1, DataWrite
    <3> QED BY <1>0, <3>2, <3>3, <3>4, <3>5, StateKinds
  <2> QED BY <2>1, <2>2
<1>5. CASE Next
  BY <1>0, <1>1, <1>2, <1>3, <1>4, <1>5, NextSplit, DataAcquire, DataRetire
<1>6. CASE UNCHANGED vars
  BY <1>0, <1>6, DataQuiet DEF vars, trackers, lines
<1> QED BY <1>5, <1>6

-----------------------------------------------------------------------------
\* After the initialisation the lines the initiators created are empty, and only they are cached.
LEMMA InitViews ==
  ASSUME Init
  PROVE  /\ \A l \in Lines : l \in InitLines => View(l) = {}
         /\ \A l \in Lines : Cached(l) => l \in InitLines
<1>1. PICK S \in SUBSET InitLines, junk \in SUBSET Pos :
        /\ cache = [l \in Lines |-> IF l \in S THEN Created ELSE Invalid]
        /\ mem = [l \in Lines |-> IF l \in InitLines \ S THEN {} ELSE junk \cap PosOf(l)]
  BY DEF Init
<1>2. \A l \in Lines : Cached(l) <=> l \in S
  BY <1>1 DEF Cached, Created, Invalid
<1>3. \A l \in Lines : l \in S => cache[l].data = {}
  BY <1>1 DEF Created
<1>4. \A l \in Lines : l \in InitLines \ S => mem[l] = {}
  BY <1>1
<1> QED BY <1>2, <1>3, <1>4 DEF View

\* Every map bit is 0 and the table empty, whatever the memory holds.
LEMMA InitBits ==
  ASSUME Init
  PROVE  /\ NLevel > 2 => \A m \in TM0Lines : ~ Bit1(m)
         /\ NLevel > 1 => \A m \in TM0Lines : Eff1(m) = {}
         /\ NLevel > 1 => \A l \in TTLines : ~ Bit0(l)
         /\ \A l \in TTLines : Eff0(l) = {}
<1>0. NLevel \in {1, 2, 3} /\ AEA \in BOOLEAN
  BY TagCacheAssumption
<1>1. \A u \in Mem : tc_state[u] = "IDLE"
  BY DEF Init, InitIdle
<1>2. /\ \A u \in Mem, l \in TTLines : ~ Settles0(u, l)
      /\ \A u \in Mem, m \in TM0Lines : ~ Settles1(u, m)
  BY <1>1 DEF Settles0, Settles1
<1>3. TTLines \subseteq Lines /\ (NLevel > 1 => TM0Lines \subseteq Lines)
      /\ (NLevel > 2 => TM1Lines \subseteq Lines)
  BY <1>0 DEF Lines
<1>4. /\ NLevel > 1 => \A l \in TTLines : Up[l] \in TM0Lines
      /\ NLevel > 2 => \A m \in TM0Lines : Up[m] \in TM1Lines
  BY LevelLines
<1>5. /\ NLevel = 3 => TopLines = TM1Lines
      /\ NLevel = 2 => TopLines = TM0Lines
      /\ NLevel = 1 => TopLines = TTLines
  BY DEF TopLines
<1>6. /\ AEA => InitLines = TopLines
      /\ ~ AEA => InitLines = Lines
  BY DEF InitLines
<1>7. /\ NLevel = 3 => \A p \in TM1Lines : View(p) = {}
      /\ (NLevel = 2 \/ (NLevel = 3 /\ ~ AEA)) => \A m \in TM0Lines : View(m) = {}
      /\ NLevel = 1 \/ ~ AEA => \A l \in TTLines : View(l) = {}
  BY <1>0, <1>3, <1>5, <1>6, InitViews
<1>8. NLevel > 2 => \A m \in TM0Lines : ~ Bit1(m)
  BY <1>0, <1>2, <1>4, <1>7 DEF Bit1
<1>9. NLevel > 1 => \A m \in TM0Lines : Eff1(m) = {}
  BY <1>0, <1>7, <1>8 DEF Eff1
<1>10. NLevel > 1 => \A l \in TTLines : ~ Bit0(l)
  BY <1>2, <1>4, <1>9 DEF Bit0
<1>11. \A l \in TTLines : Eff0(l) = {}
  BY <1>0, <1>7, <1>10 DEF Eff0
<1> QED BY <1>8, <1>9, <1>10, <1>11

\* The data are right at the start.
LEMMA DataInit ==
  ASSUME Init, NoRace
  PROVE  TurnsOK /\ DataInv
<1>1. \A u \in Mem : tc_state[u] = "IDLE" /\ mt_state[u] = "IDLE" /\ flag[u] = ResetFlags
  BY DEF Init, InitIdle
<1>2. TurnsOK
  BY <1>1 DEF TurnsOK
<1>3. \A b \in Blocks : Up[b] \in TTLines
  BY TagCacheAssumption DEF Holds
<1>4. TableOK
  <2>1. \A b \in Blocks : EffTags(b) = {}
    BY <1>3, InitBits DEF EffTags
  <2>2. \A b \in Blocks : tags[b] = {}
    BY DEF Init, InitIdle
  <2>3. \A u \in Mem, b \in Blocks : ~ PreWrite(u, b)
    BY <1>1 DEF PreWrite
  <2> QED BY <2>1, <2>2, <2>3 DEF TableOK, BlockOK
<1>5. UpdatesOK
  BY <1>1 DEF UpdatesOK, UpdateOK, Updates
<1>6. MapsOK
  <2>1. NLevel > 2 => NLevel > 1
    BY FirstLockIs
  <2> QED BY <2>1, InitBits DEF MapsOK
<1>7. FlagsOK
  <2>1. \A u \in Mem : FixedFlags(u)
    BY <1>1 DEF FixedFlags, ResetFlags
  <2>2. \A u \in Mem : ReadTM1(u) /\ ReadTM0(u) /\ RestTT(u) /\ RestTM0(u) /\ Consistent(u)
    BY <1>1 DEF ReadTM1, ReadTM0, RestTT, RestTM0, Consistent
  <2> QED BY <2>1, <2>2 DEF FlagsOK, FlagOK
<1>8. CachedLive
  <2>1. NLevel \in {1, 2, 3} /\ TTLines \cap TM0Lines = {} /\ TTLines \cap TM1Lines = {}
        /\ TM0Lines \cap TM1Lines = {}
    BY TagCacheAssumption
  <2>2. AEA => InitLines = TopLines
    BY DEF InitLines
  <2>3. NLevel > 1 => TTLines \cap TopLines = {}
    BY <2>1 DEF TopLines
  <2>4. NLevel > 2 => TM0Lines \cap TopLines = {}
    BY <2>1 DEF TopLines
  <2>5. TTLines \subseteq Lines /\ (NLevel > 2 => TM0Lines \subseteq Lines)
    BY LevelLines, FirstLockIs
  <2> QED BY <2>2, <2>3, <2>4, <2>5, InitViews DEF CachedLive
<1>9. FetchLive
  BY <1>1 DEF FetchLive, FetchOK
<1>10. ReadCorrect
  BY <1>1 DEF ReadCorrect
<1> QED BY <1>2, <1>4, <1>5, <1>6, <1>7, <1>8, <1>9, <1>10 DEF DataInv

\* The invariant holds at the start.
LEMMA AllInit ==
  ASSUME Init, NoRace
  PROVE  AllInv
<1>1. Base
  BY TypeInit, HandshakeInit, LockInit, RowInit DEF Base
<1> QED BY <1>1, ControlInit, LineInit, DataInit DEF AllInv

\* And every step keeps it.
LEMMA AllStep ==
  ASSUME AllInv, [Next]_vars
  PROVE  AllInv'
<1>1. Base /\ ControlInv /\ LineInv /\ TurnsOK
  BY DEF AllInv
<1>2. TypeOK /\ HandshakeInv /\ LockInv /\ RowInv
  BY <1>1 DEF Base
<1>3. TypeOK' /\ HandshakeInv' /\ LockInv' /\ RowInv'
  BY <1>2, TypeStep, HandshakeStep, LockStep, RowStep
<1>4. Base'
  BY <1>3 DEF Base
<1>5. ControlInv' /\ LineInv' /\ TurnsOK'
  BY <1>1, ControlStep, LineStep, TurnsStep
<1>6. DataInv'
  BY DataStep
<1> QED BY <1>4, <1>5, <1>6 DEF AllInv

LEMMA AllInvariance == NoRace /\ Spec => []AllInv
<1>1. NoRace /\ Init => AllInv
  BY AllInit
<1>2. AllInv /\ [Next]_vars => AllInv'
  BY AllStep
<1> QED BY <1>1, <1>2, PTL DEF Spec

-----------------------------------------------------------------------------
\* When the tags of a read have been searched, they are those last written to the block, in
\* every configuration without the race of finding search_race (NoRace): whatever order the
\* tracker searches in (tc_state_next), and whatever the other trackers search, lock, update,
\* create, drop and evict meanwhile.
THEOREM ReadsCorrect == NoRace /\ Spec => []ReadCorrect
<1>1. AllInv => ReadCorrect
  BY DEF AllInv, DataInv
<1> QED BY <1>1, AllInvariance, PTL

\* A create never finds its line in the cache (the commented-out assertion of lines 602-603):
\* the map bit the update has locked is 0, and no line whose bit is 0 is cached.
THEOREM CreatesMiss == NoRace /\ Spec => []CreateMisses
<1>1. ASSUME AllInv
      PROVE  CreateMisses
  <2>1. Base /\ ControlInv /\ FlagsOK /\ CachedLive /\ TrackersOK
    BY <1>1 DEF AllInv, DataInv, Base, TypeOK
  <2>2. SUFFICES ASSUME NEW k \in Banks, bank[k].state = "MR", bank[k].op = "C"
                 PROVE  ~ Cached(LineOf(k))
    BY DEF CreateMisses
  <2>3. Owes(k, bank[k].id)
    BY <2>2 DEF Owes
  <2>4. PICK t \in Mem : t = bank[k].id
    BY <2>1, <2>3, AtBank
  <2>5. /\ tc_state[t] # "IDLE" /\ OpOf(t) = "C" /\ bank[k].hold = HoldOf(t)
    BY <2>1, <2>2, <2>3, <2>4, AtBank
  <2>6. tc_state[t] \in {"TTW", "TM0W"}
    BY <2>1, <2>5, OpStates, OpOfWrite DEF isWrite
  <2>7. CASE tc_state[t] = "TTW"
    <3>1. AEA /\ NLevel > 1 /\ ~ flag[t].tm0_tag1
      BY <2>5, <2>7, OpOfWrite
    <3>2. ~ Bit0(Line(t))
      BY <2>1, <2>7, <3>1, OwnBits
    <3>3. LineOf(k) = Line(t) /\ Line(t) \in TTLines
      BY <2>1, <2>5, <2>7, HoldIs, TrackerLines DEF LineOf, Line
    <3> QED BY <2>1, <3>1, <3>2, <3>3 DEF CachedLive
  <2>8. CASE tc_state[t] = "TM0W"
    <3>1. AEA /\ NLevel > 2 /\ NLevel > 1 /\ ~ flag[t].tm1_tag1
      BY <2>5, <2>8, OpOfWrite, FirstLockIs
    <3>2. ~ Bit1(MLine(t))
      BY <2>1, <2>8, <3>1, OwnBits
    <3>3. LineOf(k) = MLine(t) /\ MLine(t) \in TM0Lines
      BY <2>1, <2>5, <2>8, <3>1, HoldIs, TrackerLines DEF LineOf, MLine
    <3> QED BY <2>1, <3>1, <3>2, <3>3 DEF CachedLive
  <2> QED BY <2>6, <2>7, <2>8
<1> QED BY <1>1, AllInvariance, PTL

\* At rest every search order finds the tags last written: the maps agree with the table and
\* with the writes, also where lines were created, dropped or evicted.
THEOREM OrdersFindTheSame == NoRace /\ Spec => []OrdersAgree
<1>1. ASSUME AllInv
      PROVE  OrdersAgree
  <2>1. TableOK /\ CachedLive /\ MapsOK
    BY <1>1 DEF AllInv, DataInv
  <2>2. SUFFICES ASSUME AtRest, NEW b \in Blocks
                 PROVE  /\ SearchTop(b) = tags[b]
                        /\ Cached(Up[b]) => SearchTable(b) = tags[b]
                        /\ NLevel = 3 /\ Cached(Up[Up[b]]) => SearchTM0(b) = tags[b]
    BY DEF OrdersAgree
  <2>3. \A u \in Mem : tc_state[u] = "IDLE"
    BY <2>2 DEF AtRest, tl_block
  <2>4. EffTags(b) = tags[b]
    BY <2>1, <2>3 DEF TableOK, BlockOK, PreWrite
  <2>5. PICK l \in TTLines : l = Up[b]
    BY TagCacheAssumption DEF Holds
  <2>6. NLevel \in {1, 2, 3} /\ AEA \in BOOLEAN
    BY TagCacheAssumption
  <2>7. tags[b] = {i \in Bits : <<b, i>> \in Eff0(l)}
    BY <2>4, <2>5 DEF EffTags
  <2>8. SearchTable(b) = {i \in Bits : <<b, i>> \in View(l)}
    BY <2>5 DEF SearchTable, TableTags
  <2>9. Cached(l) => Eff0(l) = View(l)
    BY <2>1, CachedEff
  <2>10. CASE NLevel = 1
    <3>1. Eff0(l) = View(l)
      BY <2>10 DEF Eff0
    <3>2. SearchTop(b) = SearchTable(b)
      BY <2>10 DEF SearchTop
    <3> QED BY <2>7, <2>8, <2>10, <3>1, <3>2
  <2>11. CASE NLevel > 1
    <3>1. PICK m \in TM0Lines : m = Up[l]
      BY <2>11, LevelLines
    <3>2. Bit0(l) <=> <<l, MapBit>> \in Eff1(m)
      BY <2>3, <3>1 DEF Bit0, Settles0
    <3>3. (Bit0(l) => Eff0(l) = View(l)) /\ (~ Bit0(l) => Eff0(l) = {})
      BY <2>1, <2>11 DEF MapsOK, Eff0
    <3>4. SearchTM0(b) = IF <<l, MapBit>> \in View(m) THEN SearchTable(b) ELSE {}
      BY <2>5, <3>1 DEF SearchTM0, MapSet
    <3>5. Eff1(m) = View(m) => SearchTM0(b) = tags[b]
      BY <2>7, <2>8, <3>2, <3>3, <3>4
    <3>6. CASE NLevel = 2
      <4>1. Eff1(m) = View(m)
        BY <3>6 DEF Eff1
      <4>2. SearchTop(b) = SearchTM0(b)
        BY <3>6 DEF SearchTop
      <4> QED BY <2>5, <2>7, <2>8, <2>9, <3>5, <3>6, <4>1, <4>2
    <3>7. CASE NLevel = 3
      <4>1. Bit1(m) <=> <<m, MapBit>> \in View(Up[m])
        BY <2>3 DEF Bit1, Settles1
      <4>2. (Bit1(m) => Eff1(m) = View(m)) /\ (~ Bit1(m) => Eff1(m) = {})
        BY <2>1, <3>7 DEF MapsOK, Eff1
      <4>3. SearchTop(b) = IF Bit1(m) THEN SearchTM0(b) ELSE {}
        BY <2>5, <3>1, <3>7, <4>1 DEF SearchTop, SearchTM1, MapSet
      <4>4. SearchTop(b) = tags[b]
        <5>1. CASE Bit1(m)
          BY <3>5, <4>2, <4>3, <5>1
        <5>2. CASE ~ Bit1(m)
          <6>1. Eff0(l) = {}
            BY <3>2, <3>3, <4>2, <5>2
          <6> QED BY <2>7, <4>3, <5>2, <6>1
        <5> QED BY <5>1, <5>2
      <4>5. Cached(m) => SearchTM0(b) = tags[b]
        BY <2>1, <3>5, CachedEff
      <4> QED BY <2>5, <2>7, <2>8, <2>9, <3>1, <4>4, <4>5
    <3> QED BY <2>6, <2>11, <3>6, <3>7
  <2> QED BY <2>6, <2>10, <2>11
<1> QED BY <1>1, AllInvariance, PTL
-----------------------------------------------------------------------------
(***************************************************************************)
(* The refinement.  Seen from above an acquire begins a transaction, a     *)
(* retirement acknowledges it, the answer after which a tracker is idle    *)
(* settles its tags, and everything else is invisible.                     *)
(***************************************************************************)
Open == [t \in Mem |-> Abstract(t)]

\* A step that changes the transaction of one tracker only.
LEMMA OpenChange ==
  ASSUME NEW t \in Mem, \A u \in Mem : u # t => Abstract(u)' = Abstract(u)
  PROVE  /\ Open' = [Open EXCEPT ![t] = Abstract(t)']
         /\ Abstract(t)' = Abstract(t) => Open' = Open
<1>1. Open' = [u \in Mem |-> Abstract(u)']
  BY DEF Open
<1>2. [Open EXCEPT ![t] = Abstract(t)'] = [u \in Mem |-> IF u = t THEN Abstract(t)' ELSE Abstract(u)]
  BY DEF Open
<1> QED BY <1>1, <1>2 DEF Open

\* What is not touched looks the same.
LEMMA AbstractSame ==
  ASSUME NEW u \in Mem, Same(u), mt_state'[u] = mt_state[u]
  PROVE  Abstract(u)' = Abstract(u)
BY DEF Abstract, Same

\* The transaction with one of its two sides over.
LEMMA AbstractOver ==
  ASSUME NEW t \in Mem, NEW y
  PROVE  /\ [Abstract(t) EXCEPT !.ack = FALSE]
              = [ack |-> FALSE, busy |-> tc_state[t] # "IDLE", blk |-> xact[t].blk,
                 rw |-> xact[t].rw,
                 val |-> IF xact[t].rw \/ tc_state[t] # "IDLE" THEN {} ELSE mem_data[t]]
         /\ [Abstract(t) EXCEPT !.busy = FALSE, !.val = y]
              = [ack |-> mt_state[t] = "BUSY", busy |-> FALSE, blk |-> xact[t].blk,
                 rw |-> xact[t].rw, val |-> y]
<1>1. PICK a, c, v : /\ a = (mt_state[t] = "BUSY") /\ c = (tc_state[t] # "IDLE")
                     /\ v = IF xact[t].rw \/ tc_state[t] # "IDLE" THEN {} ELSE mem_data[t]
  BY Zenon
<1>2. PICK r : r = Abstract(t)
  OBVIOUS
<1>3. PICK x : x = FALSE
  BY Zenon
<1>4. r = [ack |-> a, busy |-> c, blk |-> xact[t].blk, rw |-> xact[t].rw, val |-> v]
  BY <1>1, <1>2, Zenon DEF Abstract
<1>5. [Abstract(t) EXCEPT !.ack = FALSE]
        = [ack |-> FALSE, busy |-> tc_state[t] # "IDLE", blk |-> xact[t].blk, rw |-> xact[t].rw,
           val |-> IF xact[t].rw \/ tc_state[t] # "IDLE" THEN {} ELSE mem_data[t]]
  <2>1. [r EXCEPT !.ack = x]
          = [ack |-> x, busy |-> c, blk |-> xact[t].blk, rw |-> xact[t].rw, val |-> v]
    BY <1>4, SMT
  <2> QED BY <1>1, <1>2, <1>3, <2>1, Zenon
<1>6. [Abstract(t) EXCEPT !.busy = FALSE, !.val = y]
        = [ack |-> mt_state[t] = "BUSY", busy |-> FALSE, blk |-> xact[t].blk, rw |-> xact[t].rw,
           val |-> y]
  <2>1. PICK q : q = [r EXCEPT !.busy = x]
    OBVIOUS
  <2>2. q = [ack |-> a, busy |-> x, blk |-> xact[t].blk, rw |-> xact[t].rw, val |-> v]
    BY <1>4, <2>1, SMT
  <2>3. [q EXCEPT !.val = y]
          = [ack |-> a, busy |-> x, blk |-> xact[t].blk, rw |-> xact[t].rw, val |-> y]
    BY <2>2, SMT
  <2>4. [r EXCEPT !.busy = x, !.val = y] = [[r EXCEPT !.busy = x] EXCEPT !.val = y]
    BY Zenon
  <2>5. [Abstract(t) EXCEPT !.busy = FALSE, !.val = y] = [r EXCEPT !.busy = x, !.val = y]
    BY <1>2, <1>3, Zenon
  <2> QED BY <1>1, <1>3, <2>1, <2>3, <2>4, <2>5, Zenon
<1> QED BY <1>5, <1>6

\* An acquire begins a read or a write.
LEMMA RefineAcquire ==
  ASSUME TypeOK, NEW t \in Mem, NEW b \in Blocks, NEW rw \in BOOLEAN, NEW mask \in SUBSET Bits,
         NEW data \in SUBSET Bits, NEW o \in Orders, Acquire(t, b, rw, mask, data, o)
  PROVE  Tagged!Next
<1>1. /\ ~ tl_block(t) /\ \A u \in Mem : tl_block(u) => xact[u].blk # b
      /\ tc_state'[t] = StartState(o) /\ mt_state'[t] = "BUSY"
      /\ xact'[t] = [blk |-> b, rw |-> rw, mask |-> mask]
      /\ \A u \in Mem : u # t => Same(u) /\ mt_state'[u] = mt_state[u]
  BY DEF Acquire, Allocated, TypeOK, TrackersOK, Same, banks
<1>2. StartState(o) # "IDLE"
  BY StartSearch DEF Searches
<1>3. Abstract(t)' = [ack |-> TRUE, busy |-> TRUE, blk |-> b, rw |-> rw, val |-> {}]
  <2>1. (mt_state'[t] = "BUSY") = TRUE /\ (tc_state'[t] # "IDLE") = TRUE
    BY <1>1, <1>2
  <2>2. xact'[t].blk = b /\ xact'[t].rw = rw
    BY <1>1
  <2>3. (IF xact'[t].rw \/ tc_state'[t] # "IDLE" THEN {} ELSE mem_data'[t]) = {}
    BY <1>1, <1>2
  <2> QED BY <2>1, <2>2, <2>3, Zenon DEF Abstract
<1>4. Open' = [Open EXCEPT ![t] = [ack |-> TRUE, busy |-> TRUE, blk |-> b, rw |-> rw, val |-> {}]]
  BY <1>1, <1>3, AbstractSame, OpenChange
<1>5. \A u \in Mem : /\ (Open[u].ack \/ Open[u].busy) <=> tl_block(u)
                     /\ Open[u].blk = xact[u].blk
  BY DEF Open, Abstract, tl_block, TypeOK, TrackersOK
<1>6. Tagged!Begin(t, b, rw)
  BY <1>1, <1>4, <1>5 DEF Tagged!Begin, Tagged!IsOpen, Open
<1>7. CASE rw
  <2>1. data \cap mask \in SUBSET mask /\ tags' = [tags EXCEPT ![b] = (@ \ mask) \cup (data \cap mask)]
    BY <1>7 DEF Acquire
  <2>2. Tagged!Write(t, b)
    BY <1>6, <1>7, <2>1 DEF Tagged!Write
  <2> QED BY <2>2 DEF Tagged!Next
<1>8. CASE ~ rw
  <2>1. Tagged!Read(t, b)
    BY <1>6, <1>8 DEF Tagged!Read, Acquire
  <2> QED BY <2>1 DEF Tagged!Next
<1> QED BY <1>7, <1>8

\* A retirement acknowledges.
LEMMA RefineRetire ==
  ASSUME TypeOK, NEW t \in Mem, Retire(t)
  PROVE  Tagged!Next
<1>1. /\ mt_state[t] = "BUSY" /\ mt_state'[t] = "IDLE" /\ UNCHANGED <<tc_state, tags>>
      /\ ~ xact[t].rw => tc_state[t] = "IDLE"
      /\ \A u \in Mem : u # t \/ tc_state[t] # "IDLE" => Same(u)
      /\ \A u \in Mem : u # t => mt_state'[u] = mt_state[u]
      /\ tc_state[t] = "IDLE" => xact'[t] = NoBlock /\ mem_data'[t] = {}
  BY RetireEffect
<1>2. \A u \in Mem : u # t => Abstract(u)' = Abstract(u)
  BY <1>1, AbstractSame
<1>3. Open[t] = Abstract(t) /\ Abstract(t).ack /\ (~ Abstract(t).rw => ~ Abstract(t).busy)
  BY <1>1 DEF Open, Abstract
<1>4. Abstract(t)' = Tagged!Closed([Abstract(t) EXCEPT !.ack = FALSE])
  <2>1. CASE tc_state[t] = "IDLE"
    <3>1. Abstract(t)' = Tagged!None
      <4>1. (mt_state'[t] = "BUSY") = FALSE /\ (tc_state'[t] # "IDLE") = FALSE
        BY <1>1, <2>1
      <4>2. /\ xact'[t].blk = (CHOOSE x \in Blocks : TRUE) /\ xact'[t].rw = FALSE
            /\ (IF xact'[t].rw \/ tc_state'[t] # "IDLE" THEN {} ELSE mem_data'[t]) = {}
        BY <1>1, <2>1 DEF NoBlock
      <4> QED BY <4>1, <4>2, Zenon DEF Abstract, Tagged!None
    <3>2. Tagged!Closed([Abstract(t) EXCEPT !.ack = FALSE]) = Tagged!None
      BY <2>1 DEF Abstract, Tagged!Closed
    <3> QED BY <3>1, <3>2
  <2>2. CASE tc_state[t] # "IDLE"
    <3>1. Abstract(t)' = [Abstract(t) EXCEPT !.ack = FALSE]
      <4>1. (mt_state'[t] = "BUSY") = FALSE /\ (tc_state'[t] # "IDLE") = (tc_state[t] # "IDLE")
        BY <1>1
      <4>2. /\ xact'[t] = xact[t]
            /\ (IF xact'[t].rw \/ tc_state'[t] # "IDLE" THEN {} ELSE mem_data'[t])
                 = (IF xact[t].rw \/ tc_state[t] # "IDLE" THEN {} ELSE mem_data[t])
        BY <1>1, <2>2 DEF Same
      <4>3. [Abstract(t) EXCEPT !.ack = FALSE]
              = [ack |-> FALSE, busy |-> tc_state[t] # "IDLE", blk |-> xact[t].blk,
                 rw |-> xact[t].rw,
                 val |-> IF xact[t].rw \/ tc_state[t] # "IDLE" THEN {} ELSE mem_data[t]]
        BY AbstractOver, Zenon
      <4> QED BY <4>1, <4>2, <4>3, Zenon DEF Abstract
    <3>2. [Abstract(t) EXCEPT !.ack = FALSE].busy
      BY <2>2 DEF Abstract
    <3> QED BY <3>1, <3>2 DEF Tagged!Closed
  <2> QED BY <2>1, <2>2
<1>5. Tagged!Acknowledge(t)
  BY <1>1, <1>2, <1>3, <1>4, OpenChange DEF Tagged!Acknowledge, Open
<1> QED BY <1>5 DEF Tagged!Next

\* An answer settles the tags or changes nothing that is visible.
LEMMA RefineAnswer ==
  ASSUME TypeOK, ReadCorrect', NEW t \in Mem, tc_state[t] # "IDLE", NEW r, Respond(t, r),
         UNCHANGED tags
  PROVE  Tagged!Next \/ UNCHANGED Tagged!vars
<1>1. /\ UNCHANGED mt_state
      /\ \A u \in Mem : u # t => Same(u)
      /\ tc_state'[t] # "IDLE" \/ mt_state[t] # "IDLE" => xact'[t] = xact[t]
      /\ tc_state'[t] = "IDLE" /\ mt_state[t] = "IDLE" => xact'[t] = NoBlock /\ mem_data'[t] = {}
  BY RespondFacts DEF TypeOK
<1>2. mt_state[t] \in {"IDLE", "BUSY"}
  BY DEF TypeOK, TrackersOK
<1>3. \A u \in Mem : u # t => Abstract(u)' = Abstract(u)
  BY <1>1, AbstractSame
<1>4. CASE tc_state'[t] # "IDLE"
  <2>1. Abstract(t)' = Abstract(t)
    BY <1>1, <1>4 DEF Abstract
  <2> QED BY <1>3, <2>1, OpenChange DEF Tagged!vars, Open
<1>5. CASE tc_state'[t] = "IDLE"
  <2>1. Open[t] = Abstract(t) /\ Abstract(t).busy
    BY DEF Open, Abstract
  <2> DEFINE done == [Abstract(t) EXCEPT !.busy = FALSE,
                        !.val = IF Abstract(t).rw THEN {} ELSE tags[Abstract(t).blk]]
  <2>2. Abstract(t)' = Tagged!Closed(done)
    <3>1. CASE mt_state[t] = "BUSY"
      <4>1. ~ xact[t].rw => mem_data'[t] = tags[xact[t].blk]
        BY <1>1, <1>5, <3>1 DEF ReadCorrect
      <4>2. Abstract(t)' = done
        <5>1. /\ (mt_state'[t] = "BUSY") = (mt_state[t] = "BUSY")
              /\ (tc_state'[t] # "IDLE") = FALSE
          BY <1>1, <1>5
        <5>2. /\ xact'[t] = xact[t]
              /\ (IF xact'[t].rw \/ tc_state'[t] # "IDLE" THEN {} ELSE mem_data'[t])
                   = (IF xact[t].rw THEN {} ELSE tags[xact[t].blk])
          BY <1>1, <1>5, <3>1, <4>1
        <5>3. done = [ack |-> mt_state[t] = "BUSY", busy |-> FALSE, blk |-> xact[t].blk,
                      rw |-> xact[t].rw, val |-> IF xact[t].rw THEN {} ELSE tags[xact[t].blk]]
          <6>1. PICK y : y = IF Abstract(t).rw THEN {} ELSE tags[Abstract(t).blk]
            OBVIOUS
          <6>2. y = IF xact[t].rw THEN {} ELSE tags[xact[t].blk]
            BY <6>1 DEF Abstract
          <6>3. [Abstract(t) EXCEPT !.busy = FALSE, !.val = y]
                  = [ack |-> mt_state[t] = "BUSY", busy |-> FALSE, blk |-> xact[t].blk,
                     rw |-> xact[t].rw, val |-> y]
            BY AbstractOver, Zenon
          <6> QED BY <6>1, <6>2, <6>3, Zenon
        <5> QED BY <5>1, <5>2, <5>3, Zenon DEF Abstract
      <4>3. done.ack
        BY <3>1 DEF Abstract
      <4> QED BY <4>2, <4>3 DEF Tagged!Closed
    <3>2. CASE mt_state[t] = "IDLE"
      <4>1. Abstract(t)' = Tagged!None
        <5>1. (mt_state'[t] = "BUSY") = FALSE /\ (tc_state'[t] # "IDLE") = FALSE
          BY <1>1, <1>5, <3>2
        <5>2. /\ xact'[t].blk = (CHOOSE x \in Blocks : TRUE) /\ xact'[t].rw = FALSE
              /\ (IF xact'[t].rw \/ tc_state'[t] # "IDLE" THEN {} ELSE mem_data'[t]) = {}
          BY <1>1, <1>5, <3>2 DEF NoBlock
        <5> QED BY <5>1, <5>2, Zenon DEF Abstract, Tagged!None
      <4>2. ~ done.ack /\ ~ done.busy
        BY <3>2 DEF Abstract
      <4> QED BY <4>1, <4>2 DEF Tagged!Closed
    <3> QED BY <1>2, <3>1, <3>2
  <2>3. Tagged!Settle(t)
    BY <1>3, <2>1, <2>2, OpenChange DEF Tagged!Settle, Open
  <2> QED BY <2>3 DEF Tagged!Next
<1> QED BY <1>4, <1>5

\* Whatever leaves the transactions alone is invisible.
LEMMA RefineQuiet ==
  ASSUME UNCHANGED <<mt_state, tc_state, xact, mem_data, tags>>
  PROVE  UNCHANGED Tagged!vars
BY DEF Tagged!vars, Abstract

\* Every step of the tag cache is a step of the tagged memory or invisible to it.
LEMMA RefineStep ==
  ASSUME AllInv, ReadCorrect', [Next]_vars
  PROVE  [Tagged!Next]_(Tagged!vars)
<1>0. Base /\ TypeOK
  BY DEF AllInv, Base
<1>1. ASSUME NEW k \in Banks, Initiate(k)
      PROVE  FALSE
  BY <1>0, <1>1 DEF Initiate, Base, HandshakeInv, Initiated
<1>2. ASSUME NEW k \in Banks, Grant(k)
      PROVE  UNCHANGED Tagged!vars
  BY <1>0, <1>2, GrantEffect, RefineQuiet
<1>3. ASSUME NEW k \in Banks, Lookup(k)
      PROVE  Tagged!Next \/ UNCHANGED Tagged!vars
  <2>1. UNCHANGED tags
    BY <1>0, <1>3, LookupEffect
  <2>2. CASE ~ isWrite(bank[k].op)
    BY <1>0, <1>3, <2>2, LookupEffect, RefineQuiet DEF trackers
  <2>3. CASE isWrite(bank[k].op)
    <3>1. PICK t \in Mem : t = bank[k].id
      BY <1>0, <1>3, LookupEffect, AtBank
    <3>2. tc_state[t] # "IDLE"
      BY <1>0, <1>3, <3>1, LookupEffect, AtBank
    <3>3. PICK r : Respond(t, r)
      BY <1>0, <1>3, <2>3, <3>1, LookupEffect
    <3> QED BY <1>0, <2>1, <3>2, <3>3, RefineAnswer
  <2> QED BY <2>2, <2>3
<1>4. ASSUME NEW k \in Banks, Finish(k)
      PROVE  Tagged!Next \/ UNCHANGED Tagged!vars
  <2>1. UNCHANGED tags
    BY <1>0, <1>4, FinishEffect
  <2>2. CASE isWrite(bank[k].op)
    BY <1>0, <1>4, <2>2, FinishEffect, RefineQuiet DEF trackers
  <2>3. CASE ~ isWrite(bank[k].op)
    <3>1. PICK t \in Mem : t = bank[k].id
      BY <1>0, <1>4, FinishEffect
    <3>2. tc_state[t] # "IDLE"
      BY <1>0, <1>4, <2>3, <3>1, FinishEffect, AtBank
    <3>3. PICK r : Respond(t, r)
      BY <1>0, <1>4, <2>3, <3>1, FinishEffect
    <3> QED BY <1>0, <2>1, <3>2, <3>3, RefineAnswer
  <2> QED BY <2>2, <2>3
<1>5. CASE Next
  BY <1>0, <1>1, <1>2, <1>3, <1>4, <1>5, NextSplit, RefineAcquire, RefineRetire
<1>6. CASE UNCHANGED vars
  BY <1>6, RefineQuiet DEF vars, trackers
<1> QED BY <1>5, <1>6

\* The initial states are the same seen from above.
LEMMA RefineInit ==
  ASSUME Init
  PROVE  Tagged!Init
<1>1. tags = [b \in Blocks |-> {}]
  BY DEF Init, InitIdle
<1>2. \A t \in Mem : /\ mt_state[t] = "IDLE" /\ tc_state[t] = "IDLE"
                     /\ xact[t] = NoBlock /\ mem_data[t] = {}
  BY DEF Init, InitIdle
<1>3. ASSUME NEW t \in Mem PROVE Abstract(t) = Tagged!None
  <2>1. (mt_state[t] = "BUSY") = FALSE /\ (tc_state[t] # "IDLE") = FALSE
    BY <1>2
  <2>2. /\ xact[t].blk = (CHOOSE x \in Blocks : TRUE) /\ xact[t].rw = FALSE
        /\ (IF xact[t].rw \/ tc_state[t] # "IDLE" THEN {} ELSE mem_data[t]) = {}
    <3>1. xact[t] = NoBlock /\ tc_state[t] = "IDLE" /\ mem_data[t] = {}
      BY <1>2
    <3> QED BY <3>1 DEF NoBlock
  <2> QED BY <2>1, <2>2, Zenon DEF Abstract, Tagged!None
<1> QED BY <1>1, <1>3 DEF Tagged!Init

\* The tag cache implements the tagged memory (TaggedMemory.tla), in every configuration
\* without the race of finding search_race: a reader above it cannot tell its trackers, locks,
\* maps and evictions from one memory that keeps the tags of every block.
THEOREM Refinement == NoRace /\ Spec => ImplementsTaggedMemory
<1>1. Init => Tagged!Init
  BY RefineInit
<1>2. AllInv /\ AllInv' /\ [Next]_vars => [Tagged!Next]_(Tagged!vars)
  <2>1. AllInv' => ReadCorrect'
    BY DEF AllInv, DataInv
  <2> QED BY <2>1, RefineStep
<1> QED
  BY <1>1, <1>2, AllInvariance, PTL DEF Spec, ImplementsTaggedMemory, Tagged!Spec
=============================================================================
