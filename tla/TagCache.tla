------------------------------- MODULE TagCache -------------------------------
(***************************************************************************)
(* The tag cache (uncore/src/main/scala/tagcache.scala): the memory        *)
(* transaction trackers that search and update the tag hierarchy, the      *)
(* banked tag transaction trackers that execute their requests on the      *)
(* cached lines, the lock table between them and the initiator.            *)
(*                                                                         *)
(* Tags live in the tag table (TT).  One bit of tag map 0 (TM0) says       *)
(* whether a TT line holds a tag, one bit of tag map 1 (TM1) whether a     *)
(* TM0 line does.  A line is a set of positions: the line's content is the *)
(* set of its bits that are 1, so (a & ~m) | (d & m) is                    *)
(* (a \ m) \cup (d \cap m).                                                *)
(*                                                                         *)
(* Everything that is addressed is a "hold": a memory block holds tag bits *)
(* in its TT line, a TT line holds one bit in its TM0 line, a TM0 line     *)
(* holds one bit in its TM1 line.  Up maps a hold to the line it is in.    *)
(***************************************************************************)
EXTENDS Integers, FiniteSets

CONSTANTS
  NMem,                          \* nMemTransactors
  Banks,                         \* the tag transaction trackers
  Blocks,                        \* memory blocks (cache line sized)
  TTLines, TM0Lines, TM1Lines,   \* lines of the table and of the two maps
  Up,                            \* hold -> the line it is in
  NRows,                         \* outerDataBeats, the rows (beats) of a line
  Row, Byte,                     \* hold -> its row, its byte, in that line
  Bits,                          \* the tag bits of a block
  BankOf,                        \* line -> its tag transaction tracker
  Dealt,                         \* line -> the bank whose initiator creates it
  SetOf,                         \* line -> its cache set
  NWays,                         \* ways of a set
  NLevel,                        \* nLevel: 1 TT only, 2 with TM0, 3 with TM1
  AEA,                           \* bAEA: avoid accesses of empty lines
  BLL,                           \* bBLL: bit-level locks
  Orders                         \* the search orders the selector may ask for

\* The lines and holds of the levels that exist.
Lines == TTLines \cup (IF NLevel > 1 THEN TM0Lines ELSE {})
                 \cup (IF NLevel > 2 THEN TM1Lines ELSE {})
Holds == Blocks  \cup (IF NLevel > 1 THEN TTLines ELSE {})
                 \cup (IF NLevel > 2 THEN TM0Lines ELSE {})
Mem   == 0 .. (NMem - 1)

TopLines == CASE NLevel = 3 -> TM1Lines [] NLevel = 2 -> TM0Lines [] OTHER -> TTLines

\* The lines the initiators create.
InitLines == IF AEA THEN TopLines ELSE Lines

\* Distinct regions; a set belongs to one bank (nSets is a multiple of
\* nTagTransactors and both index with the low bits of the line number).  The
\* initiators deal consecutive lines round, too, but starting from the first one
\* and not from a line of bank 0.
ASSUME TagCacheAssumption ==
  /\ NMem \in Nat \ {0}
  /\ NLevel \in 1..3
  /\ AEA \in BOOLEAN /\ BLL \in BOOLEAN
  /\ Orders \subseteq 0..2 /\ (NLevel = 1 => 2 \notin Orders)
  /\ NWays \in Nat \ {0}
  /\ Blocks # {} /\ Blocks \cap Lines = {}
  /\ TTLines \cap TM0Lines = {} /\ TTLines \cap TM1Lines = {}
  /\ TM0Lines \cap TM1Lines = {}
  /\ Up \in [Holds -> Lines]
  /\ \A h \in Holds : /\ h \in Blocks   => Up[h] \in TTLines
                      /\ h \in TTLines  => Up[h] \in TM0Lines
                      /\ h \in TM0Lines => Up[h] \in TM1Lines
  /\ \A l \in Lines : \E h \in Holds : Up[h] = l
  /\ NRows \in Nat \ {0} /\ Row \in [Holds -> 0..(NRows - 1)]
  /\ BankOf \in [Lines -> Banks]
  /\ \A l, m \in Lines : SetOf[l] = SetOf[m] => BankOf[l] = BankOf[m]
  /\ \A h, g \in Holds : Byte[h] = Byte[g] => Up[h] = Up[g]
  /\ Dealt \in [InitLines -> Banks]
  /\ \A l, m \in InitLines : Dealt[l] = Dealt[m] <=> BankOf[l] = BankOf[m]

\* The bits of a hold and of a line.
MapBit   == 0
BitsOf(h) == IF h \in Blocks THEN {<<h, i>> : i \in Bits} ELSE {<<h, MapBit>>}
PosOf(l)  == UNION {BitsOf(h) : h \in {g \in Holds : Up[g] = l}}
Pos       == UNION {BitsOf(h) : h \in Holds}

\* is_map(xact.addr) of the line a hold is in.
is_map(h) == h \notin Blocks

VARIABLES
  mt_state,      \* memory tracker: "IDLE", or "BUSY" from the acquire to its last grant
  tc_state,      \* memory tracker: where the search or update of the tags stands
  tc_req_sent,   \* memory tracker: the request of tc_state was taken by a bank
  xact,          \* memory tracker: block, write or read, tag mask
  mem_data,      \* memory tracker: tc_xact_mem_data, the tags of the block
  flag,          \* memory tracker: tc_xact_{tm1,tm0,tt}_{tag1,tagN}
  bank,          \* tag tracker: its state and the transaction it executes
  last_grant,    \* tag tracker: the round-robin pointer of its arbiter
  rst,           \* tag tracker: the top lines its initiator has not yet created
  lock_vec,      \* the lock table
  cache,         \* line -> metadata and data in the cache
  mem,           \* line -> its content in memory
  tags           \* history: the tags each block must have

trackers == <<mt_state, tc_state, tc_req_sent, xact, mem_data, flag>>
banks    == <<bank, last_grant, rst>>
lines    == <<cache, mem>>
vars     == <<trackers, banks, lock_vec, lines, tags>>

-----------------------------------------------------------------------------
(***************************************************************************)
(* TCTagOp: read if hit, forced read, lock, forced read and lock, unlock,  *)
(* invalidate, create, write.                                              *)
(***************************************************************************)
TCTagOp == {"R", "FR", "L", "FL", "U", "I", "C", "W"}
isWrite(op)  == op \in {"I", "C", "W"}
isLock(op)   == op \in {"L", "FL"}

TM0_states == {"TM0R", "TM0F", "TM0L", "TM0W"}
TM1_states == {"TM1F", "TM1L", "TM1W"}

\* The states that the levels allow.
TcStates == {"IDLE", "TTF", "TTL", "TTW"}
              \cup (IF NLevel > 1 THEN {"TTR", "TM0F", "TM0L", "TM0W"} ELSE {})
              \cup (IF NLevel > 2 THEN {"TM0R"} \cup TM1_states ELSE {})

Flags == [tm1_tag1 : BOOLEAN, tm0_tag1 : BOOLEAN, tm0_tagN : BOOLEAN,
          tt_tag1 : BOOLEAN, tt_tagN : BOOLEAN]

\* The flags are written before they are read in every update; those of a
\* level that does not exist keep their reset value.
ResetFlags == [tm1_tag1 |-> TRUE, tm0_tag1 |-> TRUE, tm0_tagN |-> TRUE,
               tt_tag1 |-> FALSE, tt_tagN |-> FALSE]

NoBlock == [blk |-> CHOOSE b \in Blocks : TRUE, rw |-> FALSE, mask |-> {}]

\* The hold the request of tracker t is about.
HoldOf(t) ==
  LET b == xact[t].blk IN
  CASE tc_state[t] \in TM1_states -> Up[Up[b]]
    [] tc_state[t] \in TM0_states -> Up[b]
    [] OTHER                      -> b

\* Whether anything is left set at the level of the table, and in the TM0 line.
tt_any(f)  == f.tt_tag1 \/ f.tt_tagN
tm0_any(f) == tt_any(f) \/ f.tm0_tagN

\* io.tc.req.bits.op.
OpOf(t) ==
  LET f == flag[t] IN
  CASE tc_state[t] \in {"TTR", "TM0R"}         -> "R"
    [] tc_state[t] \in {"TM1F", "TM0F", "TTF"} -> "FR"
    [] tc_state[t] = "TM1L" -> "FL"
    [] tc_state[t] = "TM0L" -> IF f.tm1_tag1 \/ NLevel <= 2 THEN "FL" ELSE "L"
    [] tc_state[t] = "TTL"  -> IF f.tm0_tag1 THEN "FL" ELSE "L"
    [] tc_state[t] = "TTW"  ->
         IF ~ tt_any(f) /\ AEA /\ NLevel > 1 THEN "I"
         ELSE IF ~ f.tm0_tag1 /\ f.tt_tag1 /\ AEA /\ NLevel > 1 THEN "C" ELSE "W"
    [] tc_state[t] = "TM0W" ->
         IF tt_any(f) = f.tm0_tag1 THEN "U"
         ELSE IF ~ tm0_any(f) /\ AEA /\ NLevel > 2 THEN "I"
         ELSE IF ~ f.tm1_tag1 /\ f.tt_tag1 /\ AEA /\ NLevel > 2 THEN "C" ELSE "W"
    [] tc_state[t] = "TM1W" -> IF tm0_any(f) = f.tm1_tag1 THEN "U" ELSE "W"
    [] OTHER -> "R"

\* io.tc.req.bits.data and mask.
DataOf(t) ==
  LET h == HoldOf(t) IN
  CASE tc_state[t] = "TTW"  -> {<<h, i>> : i \in mem_data[t]}
    [] tc_state[t] = "TM0W" -> IF tt_any(flag[t])  THEN BitsOf(h) ELSE {}
    [] tc_state[t] = "TM1W" -> IF tm0_any(flag[t]) THEN BitsOf(h) ELSE {}
    [] OTHER -> {}

MaskOf(t) ==
  LET h == HoldOf(t) IN
  CASE tc_state[t] = "TTW" -> {<<h, i>> : i \in xact[t].mask}
    [] tc_state[t] \in {"TM0W", "TM1W"} -> BitsOf(h)
    [] OTHER -> {}

-----------------------------------------------------------------------------
(***************************************************************************)
(* The response side of the memory tracker.  A response r carries whether  *)
(* the line was in the cache, the row of the line the hold is in, and the  *)
(* line's count of non-empty rows.                                         *)
(***************************************************************************)
tt_rdata(t, r)  == {i \in Bits : <<xact[t].blk, i>> \in r.data}
map_rdata(t, r) == <<HoldOf(t), MapBit>> \in r.data

\* write_tc_xact_data: a write keeps the tags under its mask.
Merge(t, d) ==
  IF xact[t].rw THEN (mem_data[t] \cap xact[t].mask) \cup (d \ xact[t].mask) ELSE d

\* Mutant: only tags that are set are seen to differ.
Differs_set(t, d) == xact[t].rw /\ (mem_data[t] \cap xact[t].mask) \ d # {}

\* The tags to be written differ from d, which the table holds.
Differs(t, d) ==
  xact[t].rw /\ mem_data[t] \cap xact[t].mask # d \cap xact[t].mask

FirstLock == CASE NLevel = 3 -> "TM1L" [] NLevel = 2 -> "TM0L" [] OTHER -> "TTL"

\* A search that ends: nothing to do, or the first lock of an update.
Found(t, d) == IF Differs(t, d) THEN FirstLock ELSE "IDLE"

\* Mutant: a top-down search starts at map 1 although it is not there.
StartState_high(o) == IF o = 0 THEN "TM1F" ELSE "TTR"

StartState(o) ==
  CASE o = 0 -> (CASE NLevel = 3 -> "TM1F" [] NLevel = 2 -> "TM0F" [] OTHER -> "TTF")
    [] o = 1 -> IF NLevel > 1 THEN "TTR" ELSE "TTF"
    [] o = 2 -> IF NLevel > 2 THEN "TM0R" ELSE "TM0F"

NextTcState(t, r) ==
  CASE tc_state[t] = "TTR"  -> IF ~ r.hit THEN (IF NLevel > 2 THEN "TM0R" ELSE "TM0F")
                               ELSE Found(t, tt_rdata(t, r))
    [] tc_state[t] = "TM0R" -> IF ~ r.hit THEN "TM1F"
                               ELSE IF map_rdata(t, r) THEN "TTF" ELSE Found(t, {})
    [] tc_state[t] = "TM1F" -> IF map_rdata(t, r) THEN "TM0F" ELSE Found(t, {})
    [] tc_state[t] = "TM0F" -> IF map_rdata(t, r) THEN "TTF" ELSE Found(t, {})
    [] tc_state[t] = "TTF"  -> Found(t, tt_rdata(t, r))
    [] tc_state[t] = "TM1L" -> "TM0L"
    [] tc_state[t] = "TM0L" -> "TTL"
    [] tc_state[t] = "TTL"  -> "TTW"
    [] tc_state[t] = "TTW"  -> IF NLevel > 1 THEN "TM0W" ELSE "IDLE"
    [] tc_state[t] = "TM0W" -> IF NLevel > 2 THEN "TM1W" ELSE "IDLE"
    [] OTHER                -> "IDLE"

\* The tags a response contributes: those of the table, or none when a map
\* says that the table line is empty.
NextMemData(t, r) ==
  CASE \/ tc_state[t] = "TTF"
       \/ tc_state[t] = "TTR" /\ r.hit     -> Merge(t, tt_rdata(t, r))
    [] /\ \/ tc_state[t] \in {"TM1F", "TM0F"}
          \/ tc_state[t] = "TM0R" /\ r.hit
       /\ ~ map_rdata(t, r)               -> Merge(t, {})
    [] OTHER                              -> mem_data[t]

\* Mutant: the other rows of the line are forgotten.
Others_row(r, own) == r.data \ own # {}

\* Another row of the line, or another bit of this row, is set.
Others(r, own) == r.tcnt > 1 \/ r.data \ own # {}

NextFlag(t, r) ==
  CASE tc_state[t] = "TM1L" -> [flag[t] EXCEPT !.tm1_tag1 = map_rdata(t, r)]
    [] tc_state[t] = "TM0L" ->
         [flag[t] EXCEPT
            !.tm0_tag1 = flag[t].tm1_tag1 /\ map_rdata(t, r),
            !.tm0_tagN = flag[t].tm1_tag1 /\ Others(r, BitsOf(HoldOf(t)))]
    [] tc_state[t] = "TTL" ->
         [flag[t] EXCEPT
            !.tt_tag1 = mem_data[t] \cap xact[t].mask # {},
            !.tt_tagN = /\ flag[t].tm0_tag1
                        /\ Others(r, {<<xact[t].blk, i>> : i \in xact[t].mask})]
    [] OTHER -> flag[t]

\* A tracker that has nothing left to do clears its buffers; what it keeps of
\* the old transaction is overwritten by the next acquire.
Cleared(t) ==
  /\ xact'     = [xact EXCEPT ![t] = NoBlock]
  /\ mem_data' = [mem_data EXCEPT ![t] = {}]
  /\ flag'     = [flag EXCEPT ![t] = ResetFlags]

\* Tracker t takes response r (io.tc.resp.valid).
Respond(t, r) ==
  /\ tc_state'    = [tc_state EXCEPT ![t] = NextTcState(t, r)]
  /\ tc_req_sent' = [tc_req_sent EXCEPT ![t] = FALSE]
  /\ IF NextTcState(t, r) = "IDLE" /\ mt_state[t] = "IDLE"
     THEN Cleared(t)
     ELSE /\ mem_data' = [mem_data EXCEPT ![t] = NextMemData(t, r)]
          /\ flag'     = [flag EXCEPT ![t] = NextFlag(t, r)]
          /\ UNCHANGED xact
  /\ UNCHANGED mt_state

-----------------------------------------------------------------------------
(***************************************************************************)
(* The memory side of the memory tracker.                                  *)
(***************************************************************************)

\* io.tl_block: the transaction is not finished on one of its two sides.
tl_block(t) == mt_state[t] # "IDLE" \/ tc_state[t] # "IDLE"

\* tl_acq_alloc: the free tracker with the lowest number, and none while an
\* unfinished transaction works on the same block.
Allocated(t, b) ==
  /\ ~ tl_block(t)
  /\ \A u \in Mem : u < t => tl_block(u)
  /\ \A u \in Mem : tl_block(u) => xact[u].blk # b

\* The last beat of an acquire of block b.
Acquire(t, b, rw, mask, data, o) ==
  /\ Allocated(t, b)
  /\ mt_state'    = [mt_state EXCEPT ![t] = "BUSY"]
  /\ tc_state'    = [tc_state EXCEPT ![t] = StartState(o)]
  /\ tc_req_sent' = [tc_req_sent EXCEPT ![t] = FALSE]
  /\ xact'        = [xact EXCEPT ![t] = [blk |-> b, rw |-> rw, mask |-> mask]]
  /\ mem_data'    = [mem_data EXCEPT ![t] = data \cap mask]
  /\ tags'        = IF rw THEN [tags EXCEPT ![b] = (@ \ mask) \cup (data \cap mask)]
                          ELSE tags
  /\ UNCHANGED <<flag, banks, lock_vec, lines>>

AcquireGet(t, b, o) == Acquire(t, b, FALSE, {}, {}, o)

AcquirePut(t, b, o) ==
  \E mask \in SUBSET Bits : \E data \in SUBSET mask : Acquire(t, b, TRUE, mask, data, o)

\* Mutant: a grant with data does not wait for the tags.
Retire_early(t) ==
  /\ mt_state[t] = "BUSY"
  /\ mt_state' = [mt_state EXCEPT ![t] = "IDLE"]
  /\ IF tc_state[t] = "IDLE" THEN Cleared(t) ELSE UNCHANGED <<xact, mem_data, flag>>
  /\ UNCHANGED <<tc_state, tc_req_sent, banks, lock_vec, lines, tags>>

\* The outer transaction is over and the last inner grant is sent.  A grant
\* with data waits for the tags, that of a write does not.
Retire(t) ==
  /\ mt_state[t] = "BUSY"
  /\ ~ xact[t].rw => tc_state[t] = "IDLE"
  /\ mt_state' = [mt_state EXCEPT ![t] = "IDLE"]
  /\ IF tc_state[t] = "IDLE" THEN Cleared(t) ELSE UNCHANGED <<xact, mem_data, flag>>
  /\ UNCHANGED <<tc_state, tc_req_sent, banks, lock_vec, lines, tags>>

-----------------------------------------------------------------------------
(***************************************************************************)
(* The lock table and the arbiter in front of each bank.                   *)
(***************************************************************************)

\* Mutant: one slot for each tracker.
NLocks_few == NMem

NLocks == 2 * NMem
Slots  == 0 .. (NLocks - 1)
NoLock == [lock |-> FALSE, id |-> 0, hold |-> CHOOSE h \in Holds : TRUE]

\* Two locks clash when they are about the same bit, or with BLL off the same
\* byte of a map.
Clash(h, g) == IF BLL THEN h = g ELSE Byte[h] = Byte[g]

\* Mutant: a lock already taken does not hold a request back.
Unblocked_always(t) == TRUE

\* tc_req_unblock: requests to a map wait while another tracker holds the bit.
Unblocked(t) ==
  is_map(HoldOf(t)) =>
    ~ \E s \in Slots : /\ lock_vec[s].lock
                       /\ lock_vec[s].id # t
                       /\ Clash(lock_vec[s].hold, HoldOf(t))

\* The trackers whose request is valid at the arbiter of bank k.
Requests(k) ==
  {t \in Mem : /\ tc_state[t] # "IDLE"
               /\ ~ tc_req_sent[t]
               /\ BankOf[Up[HoldOf(t)]] = k
               /\ Unblocked(t)}

\* Mutant: a fixed priority.
Before_fixed(k, t, u) == t <= u

\* RRArbiter: of two requesters the one after last_grant goes first, then the
\* one with the lower number.
Before(k, t, u) ==
  IF t > last_grant[k] THEN u > last_grant[k] => t <= u
                       ELSE u <= last_grant[k] /\ t <= u

Chosen(k, t) == t \in Requests(k) /\ \A u \in Requests(k) : Before(k, t, u)

Response(hit, data, tcnt) == [hit |-> hit, data |-> data, tcnt |-> tcnt]
NoResponse == Response(FALSE, {}, 0)

\* What a write is answered with: the data and tcnt are left from before.
Written == Response(TRUE, {}, 0)

IdleXact == [state |-> "IDLE", id |-> 0, op |-> "R",
             hold |-> CHOOSE h \in Holds : TRUE, data |-> {}, mask |-> {},
             resp |-> NoResponse]

\* The bank takes the chosen request (io.xact.req.fire).
Grant(k) ==
  /\ bank[k].state = "IDLE"
  /\ rst[k] = {}
  /\ \E t \in Mem :
       /\ Chosen(k, t)
       /\ bank' = [bank EXCEPT ![k] =
                    [state |-> "MR", id |-> t, op |-> OpOf(t), hold |-> HoldOf(t),
                     data |-> DataOf(t), mask |-> MaskOf(t), resp |-> NoResponse]]
       /\ tc_req_sent' = [tc_req_sent EXCEPT ![t] = TRUE]
       /\ last_grant'  = [last_grant EXCEPT ![k] = t]
  /\ UNCHANGED <<mt_state, tc_state, xact, mem_data, flag, rst, lock_vec, lines, tags>>

\* TCInitiator: until its top lines exist the bank gets creates and nothing
\* else.  Only address, data, mask and op are the initiator's: id and the bit a
\* lock would be about are those of the request the arbiter would choose; the id
\* is that of the last tracker when there is none.
Initiate(k) ==
  /\ bank[k].state = "IDLE"
  /\ \E h \in Holds, t \in Mem :
       /\ Up[h] \in rst[k]
       /\ IF Requests(k) = {} THEN t = NMem - 1 ELSE Chosen(k, t)
       /\ rst' = [rst EXCEPT ![k] = @ \ {Up[h]}]
       /\ bank' = [bank EXCEPT ![k] =
                    [state |-> "MR", id |-> t, op |-> "C", hold |-> h,
                     data |-> {}, mask |-> {}, resp |-> NoResponse]]
  /\ UNCHANGED <<trackers, last_grant, lock_vec, lines, tags>>

-----------------------------------------------------------------------------
(***************************************************************************)
(* The tag transaction tracker, from the metadata lookup in MR up to L.    *)
(* Only this bank works on the lines of its sets (but for the lines that   *)
(* another bank's initiator creates), so the states between are one step.  *)
(* The response of a write is sent in MR, that of the other operations in  *)
(* L.                                                                      *)
(***************************************************************************)
LineOf(k) == Up[bank[k].hold]
Cached(l) == cache[l].st # "Invalid"

InMR(k, ops, hit) ==
  /\ bank[k].state = "MR"
  /\ bank[k].op \in ops
  /\ Cached(LineOf(k)) = hit

RowPart(S, h) == {p \in S : Row[p[1]] = Row[h]}
RowCount(S)   == Cardinality({Row[p[1]] : p \in S})

Invalid == [st |-> "Invalid", data |-> {}, tcnt |-> 0]

\* The bank goes to L with response r; a write is answered now.  Answers pass
\* the initiator once its last create has been taken.
ToL(k, r) ==
  /\ bank' = [bank EXCEPT ![k].state = "L",
                          ![k].resp  = IF isWrite(bank[k].op) THEN NoResponse ELSE r]
  /\ IF isWrite(bank[k].op) /\ rst[k] = {}
     THEN Respond(bank[k].id, r)
     ELSE UNCHANGED trackers
  /\ UNCHANGED <<last_grant, rst, lock_vec, tags>>

\* L and U do not look at the data, nor at whether the line is there.
LookupLock(k) ==
  /\ bank[k].state = "MR" /\ bank[k].op \in {"L", "U"}
  /\ ToL(k, Response(TRUE, {}, cache[LineOf(k)].tcnt))
  /\ UNCHANGED lines

\* DR is skipped for a line without tags.
HitRead(k) ==
  LET c == cache[LineOf(k)] IN
  /\ InMR(k, {"R", "FR", "FL"}, TRUE)
  /\ ToL(k, Response(TRUE, IF c.tcnt = 0 THEN {} ELSE RowPart(c.data, bank[k].hold), c.tcnt))
  /\ UNCHANGED lines

\* Mutant: only the bits under the mask make the row empty.
RowDelta_masked(old, new, mask) ==
  IF new # {} /\ old \cap mask = {} THEN 1
  ELSE IF new = {} /\ old \cap mask # {} /\ old \ mask = {} THEN -1 ELSE 0

\* How a write changes the number of non-empty rows (state DR).
RowDelta(old, new, mask) ==
  IF new # {} /\ old = {} THEN 1
  ELSE IF new = {} /\ old \cap mask # {} /\ old \ mask = {} THEN -1 ELSE 0

\* DR, DWR, MW.
HitWrite(k) ==
  LET c   == cache[LineOf(k)]
      x   == bank[k]
      new == x.data \cap x.mask
  IN
  /\ InMR(k, {"W", "C"}, TRUE)
  /\ cache' = [cache EXCEPT ![LineOf(k)] =
                [st |-> "Dirty", data |-> (c.data \ x.mask) \cup new,
                 tcnt |-> c.tcnt + RowDelta(RowPart(c.data, x.hold), new, x.mask)]]
  /\ ToL(k, Written)
  /\ UNCHANGED mem

\* Mutant: the line is emptied but stays.
HitInvalidate_kept(k) ==
  /\ InMR(k, {"I"}, TRUE)
  /\ cache' = [cache EXCEPT ![LineOf(k)] = [st |-> "Clean", data |-> {}, tcnt |-> 0]]
  /\ ToL(k, Written)
  /\ UNCHANGED mem

\* MW: a dirty line is dropped, not written back.
HitInvalidate(k) ==
  /\ InMR(k, {"I"}, TRUE)
  /\ cache' = [cache EXCEPT ![LineOf(k)] = Invalid]
  /\ ToL(k, Written)
  /\ UNCHANGED mem

MissPass(k) ==
  /\ InMR(k, {"I", "R"}, FALSE)
  /\ ToL(k, Response(bank[k].op # "R", {}, 0))
  /\ UNCHANGED lines

\* The ways the replacer may point at: a valid line of the set, or (the line l
\* itself standing for it) a way that is not in use.
Victims(l) ==
  LET used == {m \in Lines : SetOf[m] = SetOf[l] /\ Cached(m)} IN
  IF Cardinality(used) < NWays THEN used \cup {l} ELSE used

\* WB, DWB, MW: line l with metadata and data c replaces line v.
Replace(l, v, c) ==
  /\ cache' = [m \in Lines |-> IF m = l THEN c ELSE IF m = v THEN Invalid ELSE cache[m]]
  /\ mem'   = IF cache[v].st = "Dirty" THEN [mem EXCEPT ![v] = cache[v].data] ELSE mem

\* WB, F, DWB, MW.
MissFetch(k) ==
  LET l   == LineOf(k)
      x   == bank[k]
      new == IF x.op = "W" THEN (mem[l] \ x.mask) \cup x.data ELSE mem[l]
  IN
  /\ InMR(k, {"FR", "FL", "W"}, FALSE)
  /\ \E v \in Victims(l) :
       Replace(l, v, [st |-> IF new = mem[l] THEN "Clean" ELSE "Dirty",
                      data |-> new, tcnt |-> RowCount(new)])
  /\ ToL(k, Response(TRUE, RowPart(new, x.hold), RowCount(new)))

\* Mutant: the created line keeps what the memory holds.
MissCreate_kept(k) ==
  LET l == LineOf(k)
      x == bank[k]
  IN
  /\ InMR(k, {"C"}, FALSE)
  /\ \E v \in Victims(l) :
       Replace(l, v, [st |-> "Dirty", data |-> (mem[l] \ x.mask) \cup x.data, tcnt |-> 1])
  /\ ToL(k, Written)

\* Mutant: the created line counts no row.
MissCreate_uncounted(k) ==
  LET l == LineOf(k)
      x == bank[k]
  IN
  /\ InMR(k, {"C"}, FALSE)
  /\ \E v \in Victims(l) :
       Replace(l, v, [st |-> "Dirty", data |-> x.data \cap x.mask, tcnt |-> 0])
  /\ ToL(k, Written)

\* The data a create is answered with is what the operation before left in
\* data_buf.  It matters only when the answer of the initiator's last create
\* goes astray: the create before it left zeros; without one data_buf has never
\* been written.
Leftovers(k) ==
  IF {l \in InitLines : Dealt[l] = k} = {LineOf(k)} THEN SUBSET Pos ELSE {{}}

\* A create fetches nothing.
MissCreate(k) ==
  LET l == LineOf(k)
      x == bank[k]
  IN
  /\ InMR(k, {"C"}, FALSE)
  /\ \E v \in Victims(l) :
       Replace(l, v, [st |-> "Dirty", data |-> x.data \cap x.mask, tcnt |-> 1])
  /\ \E d \in Leftovers(k) : ToL(k, Response(TRUE, d, 0))

-----------------------------------------------------------------------------
(***************************************************************************)
(* L: the lock or the unlock of a map bit, and the end of the transaction. *)
(* A lock waits for a free slot.                                           *)
(***************************************************************************)
Free(s) == ~ lock_vec[s].lock

\* Mutant: a write at the end of an update does not unlock.
LockUpdate_leak(k) ==
  LET x == bank[k] IN
  IF ~ is_map(x.hold) \/ isWrite(x.op) THEN UNCHANGED lock_vec
  ELSE IF isLock(x.op)
  THEN \E s \in Slots :
         /\ Free(s) /\ \A r \in Slots : r < s => ~ Free(r)
         /\ lock_vec' = [lock_vec EXCEPT ![s] = [lock |-> TRUE, id |-> x.id, hold |-> x.hold]]
  ELSE lock_vec' = [s \in Slots |->
                      IF lock_vec[s].id = x.id /\ lock_vec[s].hold = x.hold
                      THEN NoLock ELSE lock_vec[s]]

LockUpdate(k) ==
  LET x == bank[k] IN
  IF ~ is_map(x.hold) THEN UNCHANGED lock_vec
  ELSE IF isLock(x.op)
  THEN \E s \in Slots :
         /\ Free(s) /\ \A r \in Slots : r < s => ~ Free(r)
         /\ lock_vec' = [lock_vec EXCEPT ![s] = [lock |-> TRUE, id |-> x.id, hold |-> x.hold]]
  ELSE lock_vec' = [s \in Slots |->
                      IF lock_vec[s].id = x.id /\ lock_vec[s].hold = x.hold
                      THEN NoLock ELSE lock_vec[s]]

\* Mutant: a write is answered in L, too.
Finish_twice(k) ==
  /\ bank[k].state = "L"
  /\ LockUpdate(k)
  /\ bank' = [bank EXCEPT ![k] = IdleXact]
  /\ Respond(bank[k].id, bank[k].resp)
  /\ UNCHANGED <<last_grant, rst, lines, tags>>

Finish(k) ==
  /\ bank[k].state = "L"
  /\ LockUpdate(k)
  /\ bank' = [bank EXCEPT ![k] = IdleXact]
  /\ IF isWrite(bank[k].op) THEN UNCHANGED trackers ELSE Respond(bank[k].id, bank[k].resp)
  /\ UNCHANGED <<last_grant, rst, lines, tags>>

-----------------------------------------------------------------------------
Lookup(k) ==
  \/ LookupLock(k) \/ HitRead(k) \/ HitWrite(k) \/ HitInvalidate(k)
  \/ MissPass(k) \/ MissFetch(k) \/ MissCreate(k)

\* What goes on while the arbiters grant nothing.
Work ==
  \/ \E t \in Mem, b \in Blocks, o \in Orders : AcquireGet(t, b, o) \/ AcquirePut(t, b, o)
  \/ \E t \in Mem : Retire(t)
  \/ \E k \in Banks : Initiate(k) \/ Lookup(k) \/ Finish(k)

Next == Work \/ \E k \in Banks : Grant(k)

\* The state after reset and initialisation: the trackers and banks are idle,
\* the top lines are zero, in the cache or already written back.  With AEA no
\* other line has ever been written: its content in memory is arbitrary.
InitIdle ==
  /\ mt_state    = [t \in Mem |-> "IDLE"]
  /\ tc_state    = [t \in Mem |-> "IDLE"]
  /\ tc_req_sent = [t \in Mem |-> FALSE]
  /\ xact        = [t \in Mem |-> NoBlock]
  /\ mem_data    = [t \in Mem |-> {}]
  /\ flag        = [t \in Mem |-> ResetFlags]
  /\ bank        = [k \in Banks |-> IdleXact]
  /\ last_grant  = [k \in Banks |-> 0]
  /\ lock_vec    = [s \in Slots |-> NoLock]
  /\ tags        = [b \in Blocks |-> {}]

Created == [st |-> "Dirty", data |-> {}, tcnt |-> 1]

Init ==
  /\ InitIdle
  /\ rst = [k \in Banks |-> {}]
  /\ \E S \in SUBSET InitLines, junk \in SUBSET Pos :
       /\ \A l \in S : Cardinality({m \in S : SetOf[m] = SetOf[l]}) <= NWays
       /\ cache = [l \in Lines |-> IF l \in S THEN Created ELSE Invalid]
       /\ mem = [l \in Lines |-> IF l \in InitLines \ S THEN {} ELSE junk \cap PosOf(l)]

\* The state after reset: nothing is created yet.
InitCold ==
  /\ InitIdle
  /\ rst = [k \in Banks |-> {l \in InitLines : Dealt[l] = k}]
  /\ cache = [l \in Lines |-> Invalid]
  /\ \E junk \in SUBSET Pos : mem = [l \in Lines |-> junk \cap PosOf(l)]

Spec     == Init /\ [][Next]_vars
SpecCold == InitCold /\ [][Next]_vars

\* The schedules in which an idle bank takes a request as soon as there is one,
\* as the combinational arbiter does, before anything else happens.
CanGrant(k) == bank[k].state = "IDLE" /\ rst[k] = {} /\ Requests(k) # {}
NextEager ==
  \/ \E k \in Banks : Grant(k)
  \/ (\A k \in Banks : ~ CanGrant(k)) /\ Work

SpecEager == Init /\ [][NextEager]_vars

-----------------------------------------------------------------------------
(***************************************************************************)
(* Properties.                                                             *)
(***************************************************************************)
Responses == [hit : BOOLEAN, data : SUBSET Pos, tcnt : Int]

TrackersOK ==
  /\ mt_state \in [Mem -> {"IDLE", "BUSY"}]
  /\ tc_state \in [Mem -> TcStates]
  /\ tc_req_sent \in [Mem -> BOOLEAN]
  /\ xact \in [Mem -> [blk : Blocks, rw : BOOLEAN, mask : SUBSET Bits]]
  /\ mem_data \in [Mem -> SUBSET Bits]
  /\ flag \in [Mem -> Flags]

TagXacts == [state : {"IDLE", "MR", "L"}, id : Mem, op : TCTagOp, hold : Holds,
             data : SUBSET Pos, mask : SUBSET Pos, resp : Responses]

BanksOK ==
  /\ bank \in [Banks -> TagXacts]
  /\ last_grant \in [Banks -> Mem]
  /\ rst \in [Banks -> SUBSET Lines]

LocksOK == lock_vec \in [Slots -> [lock : BOOLEAN, id : Mem, hold : Holds]]

CachedLines == [st : {"Invalid", "Clean", "Dirty"}, data : SUBSET Pos, tcnt : Int]

LinesOK ==
  /\ cache \in [Lines -> CachedLines]
  /\ mem \in [Lines -> SUBSET Pos]

\* The registers of the trackers, banks, lock table and cache have their types;
\* in particular no tracker is ever in a state of a level that does not exist.
TypeOK ==
  /\ TrackersOK
  /\ BanksOK
  /\ LocksOK
  /\ LinesOK
  /\ tags \in [Blocks -> SUBSET Bits]

\* No two memory trackers hold locks that clash (tc_req_unblock with the
\* locking in state L, lines 1300-1334).
LockExclusion ==
  \A s, r \in Slots :
    /\ lock_vec[s].lock /\ lock_vec[r].lock
    /\ Clash(lock_vec[s].hold, lock_vec[r].hold)
    => lock_vec[s].id = lock_vec[r].id

\* A bank that executes a lock of a map bit is the only one who may: whoever
\* holds a clashing lock by then is the same tracker, although the table was
\* consulted when the bank took the request and is written in state L.
LockPermitted ==
  \A k \in Banks :
    bank[k].state # "IDLE" /\ isLock(bank[k].op) /\ is_map(bank[k].hold) =>
      \A s \in Slots :
        lock_vec[s].lock /\ Clash(lock_vec[s].hold, bank[k].hold)
          => lock_vec[s].id = bank[k].id

\* Bank k has not yet answered the request it took from tracker t.
Owes(k, t) ==
  /\ bank[k].id = t
  /\ bank[k].state = "MR" \/ (bank[k].state = "L" /\ ~ isWrite(bank[k].op))

\* The answer a bank owes is the one its tracker waits for, and a tracker that
\* waits is owed one: trackers and banks never get out of step although writes
\* are answered early and the searches, updates and evictions interleave.
ResponseExpected ==
  /\ \A k \in Banks, t \in Mem :
       Owes(k, t) => /\ tc_state[t] # "IDLE"
                     /\ tc_req_sent[t]
                     /\ bank[k].op = OpOf(t)
                     /\ bank[k].hold = HoldOf(t)
  /\ \A t \in Mem : tc_req_sent[t] => \E k \in Banks : Owes(k, t)

\* When the tags of a read have been searched, they are those that were last
\* written to the block (tagcache_tb.sv: "Read response mismatch with memory
\* map!").
ReadCorrect ==
  \A t \in Mem :
    mt_state[t] = "BUSY" /\ tc_state[t] = "IDLE" /\ ~ xact[t].rw
      => mem_data[t] = tags[xact[t].blk]

\* What the cache or, failing that, the memory holds of a line.
View(l) == IF Cached(l) THEN cache[l].data ELSE mem[l]
MapSet(h) == <<h, MapBit>> \in View(Up[h])
TableTags(b) == {i \in Bits : <<b, i>> \in View(Up[b])}

\* The tags of b as a search in order o finds them in a cache at rest.
SearchTable(b) == TableTags(b)
SearchTM0(b) == IF MapSet(Up[b]) THEN SearchTable(b) ELSE {}
SearchTM1(b) == IF MapSet(Up[Up[b]]) THEN SearchTM0(b) ELSE {}
SearchTop(b) ==
  CASE NLevel = 3 -> SearchTM1(b) [] NLevel = 2 -> SearchTM0(b) [] OTHER -> SearchTable(b)

AtRest ==
  /\ \A t \in Mem : ~ tl_block(t)
  /\ \A k \in Banks : bank[k].state = "IDLE" /\ rst[k] = {}

\* At rest, top-down, middle-up and bottom-up searches all find the tags last
\* written: the maps agree with the table, also where a line was created,
\* dropped or evicted.
OrdersAgree ==
  AtRest =>
    \A b \in Blocks :
      /\ SearchTop(b) = tags[b]
      /\ Cached(Up[b]) => SearchTable(b) = tags[b]
      /\ NLevel = 3 /\ Cached(Up[Up[b]]) => SearchTM0(b) = tags[b]

\* At rest no bit is locked (the commented-out assertion of lines 1340-1341,
\* taken at a point where the banks are idle as well).
UnlockedAtRest == AtRest => \A s \in Slots : ~ lock_vec[s].lock

\* A create of a memory tracker never hits (the commented-out assertion of
\* lines 602-603): nothing brings a line into the cache whose map bit is 0.
CreateMisses ==
  \A k \in Banks :
    bank[k].state = "MR" /\ bank[k].op = "C" => ~ Cached(LineOf(k))

\* tcnt counts the non-empty rows of a cached line, one more for the lines the
\* initiator creates empty; the assertions of state DR rest on it.
RowsCounted ==
  \A l \in Lines :
    Cached(l) =>
      \/ cache[l].tcnt = RowCount(cache[l].data)
      \/ l \in InitLines /\ cache[l].tcnt = RowCount(cache[l].data) + 1

\* A lock waits for a slot of the lock table only while the unlock of a slot is
\* already being executed by another bank: 2 slots for each tracker suffice
\* although unlocks are posted (comment of line 1301).
SlotWaitEnds ==
  \A k \in Banks :
    /\ bank[k].state = "L" /\ isLock(bank[k].op) /\ is_map(bank[k].hold)
    /\ \A s \in Slots : ~ Free(s)
    => \E j \in Banks, s \in Slots :
         /\ bank[j].state # "IDLE" /\ ~ isLock(bank[j].op)
         /\ bank[j].id = lock_vec[s].id /\ bank[j].hold = lock_vec[s].hold

-----------------------------------------------------------------------------
\* A bank that can go on does; the memory behind the cache answers.  Nothing is
\* assumed of the acquires.
BankStep(k) == Initiate(k) \/ Grant(k) \/ Lookup(k) \/ Finish(k)

Fairness ==
  /\ \A k \in Banks : WF_vars(BankStep(k))
  /\ \A t \in Mem : WF_vars(Retire(t))

SpecFair == Spec /\ Fairness

\* Every transaction ends, on its memory and on its tag side: no tracker waits
\* for ever for a lock, a slot of the lock table or its turn at a bank.
Progress == \A t \in Mem : tl_block(t) ~> ~ tl_block(t)

-----------------------------------------------------------------------------
(***************************************************************************)
(* The refinement: seen from above, the search and the update of the       *)
(* hierarchy are one step, the one that ends them.                         *)
(***************************************************************************)
Abstract(t) ==
  [ack  |-> mt_state[t] = "BUSY",
   busy |-> tc_state[t] # "IDLE",
   blk  |-> xact[t].blk,
   rw   |-> xact[t].rw,
   val  |-> IF xact[t].rw \/ tc_state[t] # "IDLE" THEN {} ELSE mem_data[t]]

Tagged == INSTANCE TaggedMemory
            WITH Clients <- Mem, open <- [t \in Mem |-> Abstract(t)]

\* The tag cache implements the tagged memory, whatever order it searches in
\* and whatever is cached, created, dropped or evicted meanwhile.
ImplementsTaggedMemory == Tagged!Spec
=============================================================================
