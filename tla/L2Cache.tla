------------------------------ MODULE L2Cache ------------------------------
(***************************************************************************)
(* The L2 cache bank (uncore cache.scala) with the L1 data caches above it  *)
(* (rocket nbdcache.scala), the MESI policy between them (coherence.scala)  *)
(* and the memory below it, one action per step of a state machine or       *)
(* message of a TileLink channel.                                           *)
(*                                                                          *)
(* A block is moved as a whole (the beats of a message are one step) and is *)
(* one value.  The L1 caches are seen through one of their sets: misses to  *)
(* one set use one MSHR at a time (idx_match), so a client has one here.    *)
(* A fetch from memory, and a write-back to it, is one step: the tracker or *)
(* write-back unit waits for the answer and holds the block meanwhile.      *)
(***************************************************************************)
EXTENDS Integers, Sequences, FiniteSets

CONSTANTS Client,       \* caching clients: the L1 data caches
          Uncached,     \* clients without a cache (instruction fetch, debug)
          Block, Value,
          Uses,         \* the blocks each client accesses
          L1Way,        \* ways of the L1 set
          Line,         \* lines of the L2 data array
          SetOf,        \* the L2 set of a block or of a line
          Tracker,      \* L2AcquireTrackers
          NoBlock, NoClient, NoTracker, NoValue

ASSUME L2CacheAssumption ==
  /\ Client \cap Uncached = {} /\ NoClient \notin Client \cup Uncached
  /\ NoBlock \notin Block /\ Tracker \subseteq Nat /\ NoTracker \notin Tracker /\ NoValue \notin Value
  /\ DOMAIN SetOf = Block \cup Line /\ Block \cap Line = {}
  /\ Uses \in [Client \cup Uncached -> SUBSET Block]
  /\ Value # {} /\ \A b \in Block : \E n \in Line : SetOf[n] = SetOf[b]
  /\ IsFiniteSet(Client) /\ L1Way # {} /\ Line # {}

VARIABLES
  l1,      \* L1 metadata and data arrays
  mshr,    \* the MSHR of each client
  fq,      \* its finish queue: the tracker to acknowledge
  unc,     \* uncached clients that wait for an answer
  acq,     \* acquire channel
  rel,     \* release channel
  prb,     \* probe channel, per client
  gnt,     \* grant channel, per client
  meta,    \* L2 metadata array
  data,    \* L2 data array
  trk,     \* L2AcquireTrackers
  rt,      \* L2VoluntaryReleaseTracker
  wb,      \* L2WritebackUnit
  mem,     \* outer memory
  latest   \* the value last written to each block (history)

l1vars == <<l1, mshr, fq>>
l2vars == <<meta, data, trk, rt, wb>>
vars == <<l1, mshr, fq, unc, acq, rel, prb, gnt, meta, data, trk, rt, wb, mem, latest>>

----------------------------------------------------------------------------
(* MESICoherence *)

\* Client states: clientInvalid, clientShared, clientExclusiveClean, clientExclusiveDirty.
ClientState == {"I", "S", "E", "M"}

\* isHit: a state that permits the operation.
isHit(cmd, st) == IF cmd = "store" THEN st \in {"E", "M"} ELSE st # "I"

getAcquireType(cmd) == IF cmd = "store" THEN "acquireExclusive" ELSE "acquireShared"

isWrite(kind) == kind \in {"acquireExclusive", "put"}
isBuiltInType(kind) == kind \in {"get", "put"}

\* Mutant: a single sharer is not probed, although it may be exclusive.
requiresProbes_shared(kind, sharers) == Cardinality(sharers) > 1 /\ isWrite(kind)

\* requiresProbes(a, meta): a single sharer may be exclusive.
requiresProbes(kind, sharers) ==
  \/ Cardinality(sharers) = 1
  \/ Cardinality(sharers) > 1 /\ isWrite(kind)

getProbeType(kind) ==
  CASE kind = "get" -> "probeCopy"
    [] kind = "acquireShared" -> "probeDowngrade"
    [] OTHER -> "probeInvalidate"

clientMetadataOnProbe(ptype, st) ==
  CASE ptype = "probeInvalidate" -> "I"
    [] ptype = "probeDowngrade" -> "S"
    [] OTHER -> st

\* getGrantType for the custom acquires.
getGrantType(kind, sharers) ==
  IF kind = "acquireShared" /\ sharers # {} THEN "grantShared" ELSE "grantExclusive"

clientMetadataOnGrant(gtype, cmd) ==
  IF gtype = "grantShared" THEN "S" ELSE IF cmd = "store" THEN "M" ELSE "E"

\* HierarchicalMetadata: directory of sharers, outer permission, dirty bit.
Coh == [sharers : SUBSET Client, valid : BOOLEAN, dirty : BOOLEAN]
cohOnReset == [sharers |-> {}, valid |-> FALSE, dirty |-> FALSE]

\* Mutant: released data does not make the line dirty.
onRelease_clean(coh, r) ==
  [coh EXCEPT !.sharers = IF r.ptype = "probeInvalidate" THEN @ \ {r.client} ELSE @]

\* managerMetadataOnRelease and the dirty bit: only releases that invalidate drop the sharer.
onRelease(coh, r) ==
  [coh EXCEPT !.sharers = IF r.ptype = "probeInvalidate" THEN @ \ {r.client} ELSE @,
              !.dirty = @ \/ r.data # NoValue]

\* Mutant: only exclusive owners are entered in the directory.
onGrant_exclusive(coh, kind, c) ==
  IF kind # "acquireExclusive" THEN coh ELSE [coh EXCEPT !.sharers = @ \cup {c}]

\* managerMetadataOnGrant: built-in acquires come from clients without a cache.
onGrant(coh, kind, c) ==
  IF isBuiltInType(kind) THEN coh ELSE [coh EXCEPT !.sharers = @ \cup {c}]

----------------------------------------------------------------------------
(* Idle values of the state machines *)

NoMshr == [state |-> "s_invalid", blk |-> NoBlock, way |-> CHOOSE w \in L1Way : TRUE,
           cmd |-> "load", newst |-> "I"]
NoTrk == [state |-> "s_idle", client |-> NoClient, blk |-> NoBlock, kind |-> "get",
          line |-> CHOOSE n \in Line : TRUE, victim |-> NoBlock,
          old |-> cohOnReset, coh |-> cohOnReset, meta_write |-> FALSE,
          iprbs |-> {}, irels |-> 0, vol |-> NoClient, gnt |-> "pending"]
NoRt == [state |-> "s_idle", rel |-> [client |-> NoClient, blk |-> NoBlock],
         line |-> CHOOSE n \in Line : TRUE, old |-> cohOnReset]
NoWb == [state |-> "s_idle", trk |-> NoTracker, blk |-> NoBlock,
         line |-> CHOOSE n \in Line : TRUE, coh |-> cohOnReset, buf |-> NoValue,
         iprbs |-> {}, irels |-> 0, vol |-> NoClient]

Init ==
  /\ l1 = [c \in Client |-> [w \in L1Way |-> [tag |-> NoBlock, st |-> "I", data |-> NoValue]]]
  /\ mshr = [c \in Client |-> NoMshr]
  /\ fq = [c \in Client |-> NoTracker]
  /\ unc = {}
  /\ acq = <<>> /\ rel = <<>>
  /\ prb = [c \in Client |-> <<>>] /\ gnt = [c \in Client |-> <<>>]
  /\ meta = [n \in Line |-> [tag |-> NoBlock, coh |-> cohOnReset]]
  /\ data = [n \in Line |-> NoValue]
  /\ trk = [t \in Tracker |-> NoTrk] /\ rt = NoRt /\ wb = NoWb
  /\ mem \in [Block -> Value]
  /\ latest = mem

----------------------------------------------------------------------------
(* L1 data cache *)

\* The ways that hold a block (s2_tag_match_way).
tag_match_way(c, b) == {w \in L1Way : l1[c][w].tag = b /\ l1[c][w].st # "I"}

\* A store that hits a dirty block; requests to the set are nacked while the MSHR is busy.
StoreHit(c, w, v) ==
  /\ mshr[c].state = "s_invalid"
  /\ l1[c][w].st = "M"
  /\ l1' = [l1 EXCEPT ![c][w].data = v]
  /\ latest' = [latest EXCEPT ![l1[c][w].tag] = v]
  /\ UNCHANGED <<mshr, fq, unc, acq, rel, prb, gnt, l2vars, mem>>

\* Primary miss: set the dirty bit, upgrade, or replace any way of the set.
Miss(c, b, cmd) ==
  /\ mshr[c].state = "s_invalid"
  /\ LET match == tag_match_way(c, b) IN
     \E w \in IF match = {} THEN L1Way ELSE match :
       LET st == l1[c][w].st
           go(s, n) == mshr' = [mshr EXCEPT ![c] =
                        [state |-> s, blk |-> b, way |-> w, cmd |-> cmd, newst |-> n]]
       IN IF match = {}
          THEN go(IF st = "M" THEN "s_wb_req" ELSE "s_meta_clear", "I")
          ELSE /\ ~ (cmd = "load" \/ st = "M")
               /\ IF isHit(cmd, st) THEN go("s_meta_write_req", "M") ELSE go("s_refill_req", "I")
  /\ UNCHANGED <<l1, fq, unc, acq, rel, prb, gnt, l2vars, mem, latest>>

\* Secondary miss: a store joins a load before its acquire is sent and raises the command.
SecondaryMiss(c) ==
  /\ mshr[c].state \in {"s_wb_req", "s_wb_resp", "s_meta_clear"} /\ mshr[c].cmd = "load"
  /\ mshr' = [mshr EXCEPT ![c].cmd = "store"]
  /\ UNCHANGED <<l1, fq, unc, acq, rel, prb, gnt, l2vars, mem, latest>>

\* Write the victim back: a voluntary release with data.
SendWriteback(c) ==
  LET old == l1[c][mshr[c].way] IN
  /\ mshr[c].state = "s_wb_req"
  /\ rel' = Append(rel, [client |-> c, blk |-> old.tag, voluntary |-> TRUE,
                         ptype |-> "probeInvalidate", data |-> old.data])
  /\ mshr' = [mshr EXCEPT ![c].state = "s_wb_resp"]
  /\ UNCHANGED <<l1, fq, unc, acq, prb, gnt, l2vars, mem, latest>>

MetaClear(c) ==
  /\ mshr[c].state = "s_meta_clear"
  /\ l1' = [l1 EXCEPT ![c][mshr[c].way] = [tag |-> NoBlock, st |-> "I", data |-> NoValue]]
  /\ mshr' = [mshr EXCEPT ![c].state = "s_refill_req"]
  /\ UNCHANGED <<fq, unc, acq, rel, prb, gnt, l2vars, mem, latest>>

\* mem_req waits for room in the finish queue.
SendAcquire(c) ==
  /\ mshr[c].state = "s_refill_req" /\ fq[c] = NoTracker
  /\ acq' = Append(acq, [client |-> c, blk |-> mshr[c].blk,
                         kind |-> getAcquireType(mshr[c].cmd)])
  /\ mshr' = [mshr EXCEPT ![c].state = "s_refill_resp"]
  /\ UNCHANGED <<l1, fq, unc, rel, prb, gnt, l2vars, mem, latest>>

\* The answer to a write-back, or the refill: data first, metadata later.
ReceiveGrant(c) ==
  /\ gnt[c] # <<>>
  /\ gnt' = [gnt EXCEPT ![c] = Tail(@)]
  /\ LET g == Head(gnt[c]) IN
     \/ /\ mshr[c].state = "s_wb_resp"
        /\ mshr' = [mshr EXCEPT ![c].state = "s_meta_clear"]
        /\ UNCHANGED <<l1, fq>>
     \/ /\ mshr[c].state = "s_refill_resp"
        /\ mshr' = [mshr EXCEPT ![c].state = "s_meta_write_req",
                                ![c].newst = clientMetadataOnGrant(g.gtype, mshr[c].cmd)]
        /\ l1' = [l1 EXCEPT ![c][mshr[c].way].data = g.data]
        /\ fq' = [fq EXCEPT ![c] = g.trk]
  /\ UNCHANGED <<unc, acq, rel, prb, l2vars, mem, latest>>

\* New metadata, then the replay of what waits in the replay queue: probes cannot come
\* in between (meta_hazard and the priority of the MSHR's metadata reads).  v is the data of
\* the last store in the queue.
Replay(c, v) ==
  LET m == mshr[c] IN
  /\ m.state = "s_meta_write_req"
  /\ l1' = [l1 EXCEPT ![c][m.way] =
             [tag |-> m.blk, st |-> m.newst,
              data |-> IF m.cmd = "store" THEN v ELSE @.data]]
  /\ latest' = IF m.cmd = "store" THEN [latest EXCEPT ![m.blk] = v] ELSE latest
  /\ mshr' = [mshr EXCEPT ![c] = NoMshr]
  /\ UNCHANGED <<fq, unc, acq, rel, prb, gnt, l2vars, mem>>

\* mem_finish: held back while a miss is under way, except in s_refill_req.
SendFinish(c) ==
  /\ fq[c] # NoTracker /\ mshr[c].state \in {"s_invalid", "s_refill_req"}
  /\ fq' = [fq EXCEPT ![c] = NoTracker]
  /\ trk' = [trk EXCEPT ![fq[c]].gnt = "finished"]
  /\ UNCHANGED <<l1, mshr, unc, acq, rel, prb, gnt, meta, data, rt, wb, mem, latest>>

probe_rdy(c) ==
  mshr[c].state \notin {"s_wb_req", "s_wb_resp", "s_meta_clear", "s_meta_write_req"}

\* ProbeUnit: release with the data if dirty, then the new metadata.
ReceiveProbe(c) ==
  /\ prb[c] # <<>> /\ probe_rdy(c)
  /\ prb' = [prb EXCEPT ![c] = Tail(@)]
  /\ LET p == Head(prb[c])
         match == tag_match_way(c, p.blk)
         reply(d) == rel' = Append(rel, [client |-> c, blk |-> p.blk, voluntary |-> FALSE,
                                         ptype |-> p.ptype, data |-> d])
     IN \/ /\ match = {} /\ reply(NoValue) /\ l1' = l1
        \/ \E w \in match :
             /\ reply(IF l1[c][w].st = "M" THEN l1[c][w].data ELSE NoValue)
             /\ l1' = [l1 EXCEPT ![c][w].st = clientMetadataOnProbe(p.ptype, @)]
  /\ UNCHANGED <<mshr, fq, unc, acq, gnt, l2vars, mem, latest>>

----------------------------------------------------------------------------
(* Clients without a cache: one request at a time, allocating in the L2 *)

\* Mutant: the arbiter lets uncached requests overtake the others.
UncachedAcquire_first(u, b, kind) ==
  /\ u \notin unc
  /\ unc' = unc \cup {u}
  /\ acq' = <<[client |-> u, blk |-> b, kind |-> kind]>> \o acq
  /\ UNCHANGED <<l1vars, rel, prb, gnt, l2vars, mem, latest>>

UncachedAcquire(u, b, kind) ==
  /\ u \notin unc
  /\ unc' = unc \cup {u}
  /\ acq' = Append(acq, [client |-> u, blk |-> b, kind |-> kind])
  /\ UNCHANGED <<l1vars, rel, prb, gnt, l2vars, mem, latest>>

----------------------------------------------------------------------------
(* L2: routing *)

Busy(t) == trk[t].state # "s_idle"
before_wb_req(t) == trk[t].state = "s_meta_read"

\* matches.iacq of any tracker: a set has one acquire, or the release tracker, at a time.
iacq_matches(b) ==
  \/ \E t \in Tracker : Busy(t) /\ SetOf[trk[t].blk] = SetOf[b]
  \/ rt.state # "s_idle" /\ SetOf[rt.rel.blk] = SetOf[b]

\* matches.irel of an acquire tracker: the whole set until its victim is known.
irel_matches(t, b) ==
  /\ Busy(t)
  /\ IF before_wb_req(t) THEN SetOf[trk[t].blk] = SetOf[b]
     ELSE trk[t].state # "s_wb_req" /\ trk[t].blk = b

irel_matches_wb(b) == wb.state # "s_idle" /\ wb.blk = b

all_pending_done(t) == trk[t].gnt = "finished" /\ trk[t].vol = NoClient

\* A voluntary release joins the transaction on its block.
irel_can_merge(t, r) ==
  /\ trk[t].blk = r.blk /\ r.voluntary
  /\ trk[t].state \notin {"s_idle", "s_meta_read", "s_meta_write"}
  /\ ~ all_pending_done(t)
  /\ trk[t].vol = NoClient

irel_same_xact(t, r) == trk[t].blk = r.blk /\ ~ r.voluntary /\ trk[t].state = "s_inner_probe"

\* updatePendingCohWhen
UpdatePendingCoh(k, coh) == [k EXCEPT !.coh = coh, !.meta_write = @ \/ k.coh # coh]

----------------------------------------------------------------------------
(* L2AcquireTracker *)

\* Allocation of the first tracker that is idle.
AcceptAcquire(t) ==
  /\ acq # <<>> /\ ~ iacq_matches(Head(acq).blk)
  /\ ~ Busy(t) /\ \A u \in Tracker : u < t => Busy(u)
  /\ LET a == Head(acq) IN
     trk' = [trk EXCEPT ![t] = [NoTrk EXCEPT !.state = "s_meta_read", !.client = a.client,
                                  !.blk = a.blk, !.kind = a.kind]]
  /\ acq' = Tail(acq)
  /\ UNCHANGED <<l1vars, unc, rel, prb, gnt, meta, data, rt, wb, mem, latest>>

\* The lines that match a block, and those a replacement may choose from.
L2Match(b) == {n \in Line : meta[n].tag = b /\ meta[n].coh.valid}
L2Ways(b) == {n \in Line : SetOf[n] = SetOf[b]}

\* s_meta_resp: hit or miss, victim, probes needed, next state.
MetaResp(t) ==
  LET k == trk[t] IN
  /\ k.state = "s_meta_read"
  /\ LET match == L2Match(k.blk) IN
     \E n \in IF match = {} THEN L2Ways(k.blk) ELSE match :
       LET coh == meta[n].coh
           hit == match # {}
           needs_writeback == ~ hit /\ (coh.valid \/ coh.sharers # {})
           needs_inner_probes == hit /\ requiresProbes(k.kind, coh.sharers)
           on_hit == [coh EXCEPT !.dirty = @ \/ isWrite(k.kind)]
       IN trk' = [trk EXCEPT ![t] =
            [k EXCEPT !.line = n,
                      !.victim = IF needs_writeback THEN meta[n].tag ELSE NoBlock,
                      !.old = IF needs_writeback THEN coh ELSE cohOnReset,
                      !.coh = IF hit THEN on_hit ELSE cohOnReset,
                      !.meta_write = ~ hit \/ on_hit # coh,
                      !.iprbs = IF needs_inner_probes THEN coh.sharers \ {k.client} ELSE {},
                      !.state = IF needs_writeback THEN "s_wb_req"
                                ELSE IF needs_inner_probes THEN "s_inner_probe"
                                ELSE IF hit THEN "s_busy" ELSE "s_outer_acquire"]]
  /\ UNCHANGED <<l1vars, unc, acq, rel, prb, gnt, meta, data, rt, wb, mem, latest>>

\* Mutant: the release tracker may be at work on the line that is evicted.
wb_req_enable_always == TRUE

\* The write-back unit takes a request only while the release tracker is idle.
wb_req_enable == rt.state = "s_idle"

WbReq(t) ==
  LET k == trk[t] IN
  /\ k.state = "s_wb_req" /\ wb.state = "s_idle" /\ wb_req_enable
  /\ wb' = [NoWb EXCEPT !.trk = t, !.blk = k.victim, !.line = k.line, !.coh = k.old,
                        !.iprbs = k.old.sharers,
                        !.state = IF k.old.sharers # {} THEN "s_inner_probe"
                                  ELSE IF k.old.dirty THEN "s_busy" ELSE "s_wb_resp"]
  /\ trk' = [trk EXCEPT ![t].state = "s_wb_resp", ![t].victim = NoBlock, ![t].old = cohOnReset]
  /\ UNCHANGED <<l1vars, unc, acq, rel, prb, gnt, meta, data, rt, mem, latest>>

\* Mutant: a probe that was sent stays pending.
SendProbe_again(t, c) ==
  LET k == trk[t] IN
  /\ k.state = "s_inner_probe" /\ c \in k.iprbs /\ k.irels < 3
  /\ prb' = [prb EXCEPT ![c] = Append(@, [blk |-> k.blk, ptype |-> getProbeType(k.kind)])]
  /\ trk' = [trk EXCEPT ![t].irels = @ + 1]
  /\ UNCHANGED <<l1vars, unc, acq, rel, gnt, meta, data, rt, wb, mem, latest>>

SendProbe(t, c) ==
  LET k == trk[t] IN
  /\ k.state = "s_inner_probe" /\ c \in k.iprbs
  /\ prb' = [prb EXCEPT ![c] = Append(@, [blk |-> k.blk, ptype |-> getProbeType(k.kind)])]
  /\ trk' = [trk EXCEPT ![t].iprbs = @ \ {c}, ![t].irels = @ + 1]
  /\ UNCHANGED <<l1vars, unc, acq, rel, gnt, meta, data, rt, wb, mem, latest>>

\* A release for the tracker's block: an answer to a probe, or a voluntary one.  Its data
\* goes to the data array before anyone reads the line.
MergeRelease(t) ==
  /\ rel # <<>>
  /\ LET r == Head(rel)
         k == trk[t] IN
     /\ irel_matches(t, r.blk) /\ (irel_can_merge(t, r) \/ irel_same_xact(t, r))
     /\ trk' = [trk EXCEPT ![t] =
                 [UpdatePendingCoh(k, onRelease(k.coh, r)) EXCEPT
                    !.irels = IF r.voluntary THEN @ ELSE @ - 1,
                    !.vol = IF r.voluntary THEN r.client ELSE @]]
     /\ data' = IF r.data = NoValue THEN data ELSE [data EXCEPT ![k.line] = r.data]
  /\ rel' = Tail(rel)
  /\ UNCHANGED <<l1vars, unc, acq, prb, gnt, meta, rt, wb, mem, latest>>

\* Mutant: the tracker goes on when the probes are sent.
ProbesDone_sent(t) ==
  /\ trk[t].state = "s_inner_probe" /\ trk[t].iprbs = {}
  /\ trk' = [trk EXCEPT ![t].state = "s_busy"]
  /\ UNCHANGED <<l1vars, unc, acq, rel, prb, gnt, meta, data, rt, wb, mem, latest>>

ProbesDone(t) ==
  /\ trk[t].state = "s_inner_probe" /\ trk[t].iprbs = {} /\ trk[t].irels = 0
  /\ trk' = [trk EXCEPT ![t].state = "s_busy"]
  /\ UNCHANGED <<l1vars, unc, acq, rel, prb, gnt, meta, data, rt, wb, mem, latest>>

\* Outer acquire and grant: the block replaces the victim in the data array.
Refill(t) ==
  LET k == trk[t] IN
  /\ k.state = "s_outer_acquire"
  /\ data' = [data EXCEPT ![k.line] = mem[k.blk]]
  /\ trk' = [trk EXCEPT ![t] = [UpdatePendingCoh(k, [sharers |-> {}, valid |-> TRUE,
                                                     dirty |-> isWrite(k.kind)])
                                EXCEPT !.state = "s_busy"]]
  /\ UNCHANGED <<l1vars, unc, acq, rel, prb, gnt, meta, rt, wb, mem, latest>>

\* Acknowledge a voluntary release that was merged; it goes before any other grant.
SendVoluntaryGrant(t) ==
  /\ trk[t].vol # NoClient
  /\ gnt' = [gnt EXCEPT ![trk[t].vol] = Append(@, [gtype |-> "voluntaryAck"])]
  /\ trk' = [trk EXCEPT ![t].vol = NoClient]
  /\ UNCHANGED <<l1vars, unc, acq, rel, prb, meta, data, rt, wb, mem, latest>>

\* Answer the acquire; v is the data of a put, which is written before it is acknowledged.
\* The network acknowledges for clients without a cache.
SendGrant(t, v) ==
  LET k == trk[t] IN
  /\ k.state = "s_busy" /\ k.gnt = "pending" /\ k.vol = NoClient
  /\ trk' = [trk EXCEPT ![t] = [UpdatePendingCoh(k, onGrant(k.coh, k.kind, k.client)) EXCEPT
               !.gnt = IF k.client \in Uncached THEN "finished" ELSE "sent"]]
  /\ \/ /\ k.kind = "put"
        /\ data' = [data EXCEPT ![k.line] = v]
        /\ latest' = [latest EXCEPT ![k.blk] = v]
     \/ k.kind # "put" /\ UNCHANGED <<data, latest>>
  /\ \/ /\ k.client \in Uncached
        /\ unc' = unc \ {k.client} /\ UNCHANGED gnt
     \/ /\ k.client \in Client
        /\ gnt' = [gnt EXCEPT ![k.client] = Append(@,
                     [gtype |-> getGrantType(k.kind, k.coh.sharers), trk |-> t,
                      data |-> data[k.line]])]
        /\ UNCHANGED unc
  /\ UNCHANGED <<l1vars, acq, rel, prb, meta, rt, wb, mem>>

Done(t) ==
  /\ trk[t].state = "s_busy" /\ all_pending_done(t)
  /\ trk' = [trk EXCEPT ![t] = IF @.meta_write THEN [@ EXCEPT !.state = "s_meta_write"] ELSE NoTrk]
  /\ UNCHANGED <<l1vars, unc, acq, rel, prb, gnt, meta, data, rt, wb, mem, latest>>

MetaWrite(t) ==
  /\ trk[t].state = "s_meta_write"
  /\ meta' = [meta EXCEPT ![trk[t].line] = [tag |-> trk[t].blk, coh |-> trk[t].coh]]
  /\ trk' = [trk EXCEPT ![t] = NoTrk]
  /\ UNCHANGED <<l1vars, unc, acq, rel, prb, gnt, data, rt, wb, mem, latest>>

----------------------------------------------------------------------------
(* L2VoluntaryReleaseTracker *)

\* Allocated for a release nobody matches.
RtAccept ==
  /\ rel # <<>> /\ rt.state = "s_idle" /\ Head(rel).voluntary
  /\ ~ \E t \in Tracker : irel_matches(t, Head(rel).blk)
  /\ ~ irel_matches_wb(Head(rel).blk)
  /\ rt' = [rt EXCEPT !.state = "s_meta_read", !.rel = Head(rel)]
  /\ rel' = Tail(rel)
  /\ UNCHANGED <<l1vars, unc, acq, prb, gnt, meta, data, trk, wb, mem, latest>>

RtMetaResp ==
  /\ rt.state = "s_meta_read"
  /\ \E n \in L2Match(rt.rel.blk) :
       rt' = [rt EXCEPT !.state = "s_busy", !.line = n, !.old = meta[n].coh]
  /\ UNCHANGED <<l1vars, unc, acq, rel, prb, gnt, meta, data, trk, wb, mem, latest>>

RtAck ==
  /\ rt.state = "s_busy"
  /\ data' = [data EXCEPT ![rt.line] = rt.rel.data]
  /\ gnt' = [gnt EXCEPT ![rt.rel.client] = Append(@, [gtype |-> "voluntaryAck"])]
  /\ rt' = [rt EXCEPT !.state = "s_meta_write"]
  /\ UNCHANGED <<l1vars, unc, acq, rel, prb, meta, trk, wb, mem, latest>>

RtMetaWrite ==
  /\ rt.state = "s_meta_write"
  /\ meta' = [meta EXCEPT ![rt.line] = [tag |-> rt.rel.blk, coh |-> onRelease(rt.old, rt.rel)]]
  /\ rt' = NoRt
  /\ UNCHANGED <<l1vars, unc, acq, rel, prb, gnt, data, trk, wb, mem, latest>>

----------------------------------------------------------------------------
(* L2WritebackUnit *)

WbSendProbe(c) ==
  /\ wb.state = "s_inner_probe" /\ c \in wb.iprbs
  /\ prb' = [prb EXCEPT ![c] = Append(@, [blk |-> wb.blk, ptype |-> "probeInvalidate"])]
  /\ wb' = [wb EXCEPT !.iprbs = @ \ {c}, !.irels = @ + 1]
  /\ UNCHANGED <<l1vars, unc, acq, rel, gnt, meta, data, trk, rt, mem, latest>>

WbRelease ==
  /\ rel # <<>>
  /\ LET r == Head(rel) IN
     /\ irel_matches_wb(r.blk) /\ wb.state = "s_inner_probe"
     /\ r.voluntary => wb.vol = NoClient
     /\ wb' = [wb EXCEPT !.coh = onRelease(@, r),
                         !.buf = IF r.data = NoValue THEN @ ELSE r.data,
                         !.irels = IF r.voluntary THEN @ ELSE @ - 1,
                         !.vol = IF r.voluntary THEN r.client ELSE @]
  /\ rel' = Tail(rel)
  /\ UNCHANGED <<l1vars, unc, acq, prb, gnt, meta, data, trk, rt, mem, latest>>

WbVoluntaryGrant ==
  /\ wb.vol # NoClient
  /\ gnt' = [gnt EXCEPT ![wb.vol] = Append(@, [gtype |-> "voluntaryAck"])]
  /\ wb' = [wb EXCEPT !.vol = NoClient]
  /\ UNCHANGED <<l1vars, unc, acq, rel, prb, meta, data, trk, rt, mem, latest>>

\* Mutant: the dirty bit of the request is trusted.
WbProbesDone_trust ==
  /\ wb.state = "s_inner_probe" /\ wb.iprbs = {} /\ wb.irels = 0 /\ wb.vol = NoClient
  /\ wb' = [wb EXCEPT !.state = IF wb.coh.dirty THEN "s_busy" ELSE "s_wb_resp"]
  /\ UNCHANGED <<l1vars, unc, acq, rel, prb, gnt, meta, data, trk, rt, mem, latest>>

\* The request's dirty bit may be old: s_meta_read looks again.
WbProbesDone ==
  /\ wb.state = "s_inner_probe" /\ wb.iprbs = {} /\ wb.irels = 0 /\ wb.vol = NoClient
  /\ wb' = [wb EXCEPT !.state = IF wb.coh.dirty THEN "s_busy" ELSE "s_meta_read"]
  /\ UNCHANGED <<l1vars, unc, acq, rel, prb, gnt, meta, data, trk, rt, mem, latest>>

WbMetaResp ==
  /\ wb.state = "s_meta_read"
  /\ wb' = [wb EXCEPT !.state = IF meta[wb.line].coh.dirty THEN "s_busy" ELSE "s_wb_resp"]
  /\ UNCHANGED <<l1vars, unc, acq, rel, prb, gnt, meta, data, trk, rt, mem, latest>>

\* Outer release: the data that came with a release, or that of the array.
WbOuterRelease ==
  /\ wb.state = "s_busy"
  /\ mem' = [mem EXCEPT ![wb.blk] = IF wb.buf = NoValue THEN data[wb.line] ELSE wb.buf]
  /\ wb' = [wb EXCEPT !.state = "s_wb_resp"]
  /\ UNCHANGED <<l1vars, unc, acq, rel, prb, gnt, meta, data, trk, rt, latest>>

WbResp ==
  /\ wb.state = "s_wb_resp"
  /\ trk' = [trk EXCEPT ![wb.trk].state = "s_outer_acquire"]
  /\ wb' = NoWb
  /\ UNCHANGED <<l1vars, unc, acq, rel, prb, gnt, meta, data, rt, mem, latest>>

----------------------------------------------------------------------------
\* What programs and devices ask for.
Request ==
  \/ \E c \in Client, w \in L1Way, v \in Value : StoreHit(c, w, v)
  \/ \E c \in Client : \E b \in Uses[c], cmd \in {"load", "store"} : Miss(c, b, cmd)
  \/ \E c \in Client : SecondaryMiss(c)
  \/ \E u \in Uncached : \E b \in Uses[u], kind \in {"get", "put"} : UncachedAcquire(u, b, kind)

MshrStep(c) ==
  \/ SendWriteback(c) \/ MetaClear(c) \/ SendAcquire(c) \/ ReceiveGrant(c)
  \/ \E v \in Value : Replay(c, v)

TrackerStep(t) ==
  \/ MetaResp(t) \/ WbReq(t) \/ (\E c \in Client : SendProbe(t, c)) \/ ProbesDone(t)
  \/ Refill(t) \/ SendVoluntaryGrant(t) \/ (\E v \in Value : SendGrant(t, v)) \/ Done(t) \/ MetaWrite(t)

RtStep == RtMetaResp \/ RtAck \/ RtMetaWrite

WbStep ==
  \/ (\E c \in Client : WbSendProbe(c)) \/ WbVoluntaryGrant \/ WbProbesDone
  \/ WbMetaResp \/ WbOuterRelease \/ WbResp

TakeAcquire == \E t \in Tracker : AcceptAcquire(t)
TakeRelease == (\E t \in Tracker : MergeRelease(t)) \/ WbRelease \/ RtAccept

Step ==
  \/ \E c \in Client : MshrStep(c) \/ SendFinish(c) \/ ReceiveProbe(c)
  \/ \E t \in Tracker : TrackerStep(t)
  \/ RtStep \/ WbStep \/ TakeAcquire \/ TakeRelease

Next == Request \/ Step

Spec == Init /\ [][Next]_vars

\* An acquire is held back in every cycle in which a release to its set waits at the port.
irel_vs_iacq_conflict ==
  acq # <<>> /\ rel # <<>> /\ SetOf[Head(acq).blk] = SetOf[Head(rel).blk]

\* Every state machine that can move does, and the ports take what they can take; nothing
\* is asked of the programs.
Fairness ==
  /\ \A c \in Client :
       WF_vars(MshrStep(c)) /\ WF_vars(SendFinish(c)) /\ WF_vars(ReceiveProbe(c))
  /\ \A t \in Tracker : WF_vars(TrackerStep(t))
  /\ WF_vars(RtStep) /\ WF_vars(WbStep) /\ WF_vars(TakeRelease)
  /\ WF_vars(TakeAcquire /\ ~ irel_vs_iacq_conflict)

FairSpec == Spec /\ Fairness

----------------------------------------------------------------------------
(* Properties *)

\* The messages of the channels.
Kind == {"get", "put", "acquireShared", "acquireExclusive"}
ProbeType == {"probeInvalidate", "probeDowngrade", "probeCopy"}
AcquireMsg == [client : Client \cup Uncached, blk : Block, kind : Kind]
ReleaseMsg == [client : Client, blk : Block, voluntary : BOOLEAN, ptype : ProbeType,
               data : Value \cup {NoValue}]
ProbeMsg == [blk : Block, ptype : ProbeType]
GrantMsg == [gtype : {"voluntaryAck"}]
            \cup [gtype : {"grantShared", "grantExclusive"}, trk : Tracker,
                  data : Value \cup {NoValue}]

\* The states of the units; Count are the answers to probes they can be waiting for.
L1Rec == [tag : Block \cup {NoBlock}, st : ClientState, data : Value \cup {NoValue}]
MshrRec ==
  [state : {"s_invalid", "s_wb_req", "s_wb_resp", "s_meta_clear", "s_refill_req",
            "s_refill_resp", "s_meta_write_req"},
   blk : Block \cup {NoBlock}, way : L1Way, cmd : {"load", "store"}, newst : ClientState]
TrackerRec(Count) ==
  [state : {"s_idle", "s_meta_read", "s_wb_req", "s_wb_resp", "s_inner_probe",
            "s_outer_acquire", "s_busy", "s_meta_write"},
   client : Client \cup Uncached \cup {NoClient}, blk : Block \cup {NoBlock}, kind : Kind,
   line : Line, victim : Block \cup {NoBlock}, old : Coh, coh : Coh, meta_write : BOOLEAN,
   iprbs : SUBSET Client, irels : Count, vol : Client \cup {NoClient},
   gnt : {"pending", "sent", "finished"}]
RtRec ==
  [state : {"s_idle", "s_meta_read", "s_busy", "s_meta_write"},
   rel : ReleaseMsg \cup {NoRt.rel}, line : Line, old : Coh]
WbRec(Count) ==
  [state : {"s_idle", "s_inner_probe", "s_meta_read", "s_busy", "s_wb_resp"},
   trk : Tracker \cup {NoTracker}, blk : Block \cup {NoBlock}, line : Line, coh : Coh,
   buf : Value \cup {NoValue}, iprbs : SUBSET Client, irels : Count,
   vol : Client \cup {NoClient}]

Types(Count) ==
  /\ l1 \in [Client -> [L1Way -> L1Rec]]
  /\ mshr \in [Client -> MshrRec]
  /\ fq \in [Client -> Tracker \cup {NoTracker}]
  /\ unc \subseteq Uncached
  /\ acq \in Seq(AcquireMsg) /\ rel \in Seq(ReleaseMsg)
  /\ prb \in [Client -> Seq(ProbeMsg)] /\ gnt \in [Client -> Seq(GrantMsg)]
  /\ meta \in [Line -> [tag : Block \cup {NoBlock}, coh : Coh]]
  /\ data \in [Line -> Value \cup {NoValue}]
  /\ trk \in [Tracker -> TrackerRec(Count)] /\ rt \in RtRec /\ wb \in WbRec(Count)
  /\ mem \in [Block -> Value \cup {NoValue}] /\ latest \in [Block -> Value]

\* Type invariant: channels hold messages, state machines their states, no unit waits for
\* more answers to its probes than there are L1 caches, and memory never loses a block to a
\* line without data.
TypeOK == Types(0..Cardinality(Client)) /\ mem \in [Block -> Value]

\* A copy the client can use or write: not one that has been released and is only waiting to
\* be cleared (the set is closed to the core then).
Live(c, w) ==
  /\ l1[c][w].st # "I"
  /\ ~ (mshr[c].way = w /\ mshr[c].state \in {"s_wb_resp", "s_meta_clear"})

\* A line a client may write is in no other L1 cache, whatever probes, voluntary releases
\* and grants are under way.
ExclusiveOwner ==
  \A c, d \in Client : \A w, x \in L1Way :
    Live(c, w) /\ Live(d, x) /\ l1[c][w].tag = l1[d][x].tag /\ l1[c][w].st # "S"
      => <<c, w>> = <<d, x>>

\* A load that hits returns the value last written by anyone.
L1Current ==
  \A c \in Client, w \in L1Way : Live(c, w) => l1[c][w].data = latest[l1[c][w].tag]

\* What a tracker is about to grant is the value last written: the data of a probed owner,
\* of a release that was merged, or of memory after an eviction has reached it.  (The owner
\* keeps its rights when a get only copies the block, and may have written again.)
GrantCurrent ==
  \A t \in Tracker :
    trk[t].state = "s_busy" /\ trk[t].gnt = "pending" =>
      \/ data[trk[t].line] = latest[trk[t].blk]
      \/ /\ trk[t].kind = "get"
         /\ \E c \in Client : \E w \in tag_match_way(c, trk[t].blk) : l1[c][w].st = "M"

\* The L2 knows every copy: a client that holds a block is a sharer in the metadata array
\* or in the transaction that is about to write it.
Inclusion ==
  \A c \in Client, w \in L1Way : Live(c, w) =>
    LET b == l1[c][w].tag IN
    \/ \E n \in L2Match(b) : c \in meta[n].coh.sharers
    \/ \E t \in Tracker : /\ trk[t].blk = b /\ trk[t].state \in {"s_busy", "s_meta_write"}
                           /\ c \in trk[t].coh.sharers

\* The assertion of the release tracker: "VoluntaryReleaseTracker accepted Release for a
\* block not resident in this cache!"
ReleaseResident ==
  rt.state \in {"s_meta_read", "s_busy", "s_meta_write"} => L2Match(rt.rel.blk) # {}

\* The answer to a probe always finds the tracker or write-back unit that waits for it.
ProbeAnswerExpected ==
  \A i \in DOMAIN rel : ~ rel[i].voluntary =>
    \/ \E t \in Tracker : irel_same_xact(t, rel[i]) /\ trk[t].irels > 0
    \/ wb.state = "s_inner_probe" /\ wb.blk = rel[i].blk /\ wb.irels > 0

\* Every miss and every uncached request ends, although acquires, releases and probes wait
\* for one another across the two levels.
Progress ==
  /\ \A c \in Client : mshr[c].state # "s_invalid" ~> mshr[c].state = "s_invalid"
  /\ \A u \in Uncached : u \in unc ~> u \notin unc
=============================================================================
