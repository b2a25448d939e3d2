--------------------------- MODULE L2CacheProofs ---------------------------
(***************************************************************************)
(* Coherence of the two cache levels, for every number of clients, blocks, *)
(* lines, ways and trackers.                                               *)
(***************************************************************************)
EXTENDS L2Cache, FiniteSetTheorems, SequenceTheorems, TLAPS

-----------------------------------------------------------------------------
(***************************************************************************)
(* The inductive invariant.                                                *)
(***************************************************************************)

\* A line of an L1 cache is in one way only, and the MSHR works on the way it says.
L1Shape ==
  \A c \in Client :
    LET m == mshr[c] IN
    /\ \A w \in L1Way : l1[c][w].st # "I" => l1[c][w].tag \in Block
    /\ \A w, x \in L1Way :
         l1[c][w].tag = l1[c][x].tag /\ l1[c][w].st # "I" /\ l1[c][x].st # "I" => w = x
    /\ m.state # "s_invalid" =>
         /\ m.blk \in Block
         /\ \A w \in L1Way : l1[c][w].tag = m.blk /\ l1[c][w].st # "I" => w = m.way
    /\ m.state \in {"s_wb_req", "s_wb_resp"} => l1[c][m.way].st = "M"
    /\ m.state \in {"s_refill_req", "s_refill_resp"} /\ l1[c][m.way].st # "I" =>
         l1[c][m.way].tag = m.blk /\ l1[c][m.way].st = "S" /\ m.cmd = "store"
    /\ m.state = "s_meta_write_req" /\ l1[c][m.way].st # "I" => l1[c][m.way].tag = m.blk

\* The L2 metadata: a valid line has a block of its set, which no other line has.
MetaShape ==
  /\ \A n \in Line :
       /\ meta[n].coh.valid <=> meta[n].tag # NoBlock
       /\ ~ meta[n].coh.valid => meta[n].coh.sharers = {}
       /\ meta[n].tag # NoBlock => SetOf[meta[n].tag] = SetOf[n]
  /\ \A n, o \in Line : meta[n].tag = meta[o].tag /\ meta[n].tag # NoBlock => n = o

\* Trackers at work are in different sets.
SetsApart ==
  \A t, u \in Tracker :
    Busy(t) /\ Busy(u) /\ SetOf[trk[t].blk] = SetOf[trk[u].blk] => t = u

Resident(b) == \E n \in Line : meta[n].tag = b

\* What a tracker knows in each of its states.
TrackerShape(t) ==
  LET k == trk[t] IN
  /\ k.state = "s_idle" => k = NoTrk
  /\ Busy(t) => /\ k.blk \in Block /\ k.client \in Client \cup Uncached
                /\ k.client \in Uncached <=> isBuiltInType(k.kind)
  /\ k.state \notin {"s_idle", "s_meta_read"} => SetOf[k.line] = SetOf[k.blk]
  /\ k.state \in {"s_meta_read", "s_wb_req", "s_wb_resp", "s_outer_acquire"} =>
       k.vol = NoClient /\ k.gnt = "pending"
  /\ k.state # "s_inner_probe" => k.iprbs = {} /\ k.irels = 0
  /\ k.state = "s_wb_req" =>
       /\ k.victim \in Block /\ meta[k.line].tag = k.victim
       /\ meta[k.line].coh.sharers \subseteq k.old.sharers
  /\ k.state \in {"s_wb_req", "s_wb_resp", "s_outer_acquire"} =>
       ~ Resident(k.blk) /\ k.meta_write
  /\ k.state = "s_wb_resp" => wb.state # "s_idle" /\ wb.trk = t
  /\ k.state \in {"s_inner_probe", "s_busy", "s_meta_write"} =>
       /\ k.coh.valid
       /\ Resident(k.blk) => meta[k.line].tag = k.blk
       /\ k.meta_write \/ (Resident(k.blk) /\ meta[k.line].coh = k.coh)
  /\ k.state = "s_inner_probe" =>
       /\ Resident(k.blk) /\ k.gnt = "pending"
       /\ k.coh.sharers \subseteq meta[k.line].coh.sharers
  /\ k.state = "s_meta_write" => k.gnt = "finished" /\ k.vol = NoClient

\* The release tracker works on a resident block that no acquire tracker works on and that
\* nobody is evicting.
RtShape ==
  rt.state # "s_idle" =>
    /\ rt.rel \in ReleaseMsg /\ rt.rel.voluntary /\ rt.rel.ptype = "probeInvalidate"
    /\ Resident(rt.rel.blk)
    /\ rt.state # "s_meta_read" => /\ meta[rt.line].tag = rt.rel.blk
                                   /\ meta[rt.line].coh = rt.old
    /\ \A t \in Tracker : Busy(t) /\ SetOf[trk[t].blk] = SetOf[rt.rel.blk] =>
         /\ trk[t].state # "s_meta_read" /\ trk[t].blk # rt.rel.blk
         /\ meta[trk[t].line].tag = rt.rel.blk => trk[t].state = "s_wb_req"

\* The write-back unit evicts the line its tracker is going to fill.
WbShape ==
  wb.state # "s_idle" =>
    /\ wb.trk \in Tracker /\ trk[wb.trk].state = "s_wb_resp"
    /\ wb.line = trk[wb.trk].line /\ wb.blk \in Block /\ meta[wb.line].tag = wb.blk
    /\ wb.state # "s_inner_probe" => wb.iprbs = {} /\ wb.irels = 0 /\ wb.vol = NoClient

\* Where the acknowledgement of a client's write-back is on its way.
VolMsg(c, i) == rel[i].voluntary /\ rel[i].client = c
AtRt(c) == rt.state \in {"s_meta_read", "s_busy"} /\ rt.rel.client = c

WritebackTokens ==
  \A c \in Client :
    /\ \A i \in DOMAIN rel : VolMsg(c, i) =>
         /\ mshr[c].state = "s_wb_resp" /\ gnt[c] = <<>>
         /\ rel[i].blk = l1[c][mshr[c].way].tag /\ rel[i].ptype = "probeInvalidate"
         /\ \A j \in DOMAIN rel : VolMsg(c, j) => i = j
         /\ \A t \in Tracker : trk[t].vol # c
         /\ wb.vol # c /\ ~ AtRt(c)
    /\ \A t \in Tracker : trk[t].vol = c =>
         /\ mshr[c].state = "s_wb_resp" /\ gnt[c] = <<>>
         /\ \A u \in Tracker : trk[u].vol = c => t = u
         /\ wb.vol # c /\ ~ AtRt(c)
    /\ wb.vol = c => mshr[c].state = "s_wb_resp" /\ gnt[c] = <<>> /\ ~ AtRt(c)
    /\ AtRt(c) => mshr[c].state = "s_wb_resp" /\ gnt[c] = <<>>
    /\ gnt[c] # <<>> =>
         /\ Len(gnt[c]) = 1
         /\ Head(gnt[c]).gtype = "voluntaryAck" => mshr[c].state = "s_wb_resp"

\* Where the answer to a client's acquire is on its way.
Asks(c, a) == mshr[c].state = "s_refill_resp" /\ a.blk = mshr[c].blk
              /\ a.kind = getAcquireType(mshr[c].cmd)
AtTracker(c, t) == Busy(t) /\ trk[t].client = c /\ trk[t].gnt = "pending"
Granted(c, t) == trk[t].state = "s_busy" /\ trk[t].client = c /\ trk[t].gnt = "sent"

AcquireTokens ==
  /\ \A i \in DOMAIN acq : acq[i].client \in Uncached <=> isBuiltInType(acq[i].kind)
  /\ \A c \in Client :
    /\ \A i \in DOMAIN acq : acq[i].client = c =>
         /\ Asks(c, acq[i]) /\ gnt[c] = <<>>
         /\ \A j \in DOMAIN acq : acq[j].client = c => i = j
         /\ \A t \in Tracker : ~ AtTracker(c, t)
    /\ \A t \in Tracker : AtTracker(c, t) =>
         /\ Asks(c, trk[t]) /\ gnt[c] = <<>>
         /\ \A u \in Tracker : AtTracker(c, u) => t = u
    /\ gnt[c] # <<>> /\ Head(gnt[c]).gtype # "voluntaryAck" =>
         /\ mshr[c].state = "s_refill_resp"
         /\ Granted(c, Head(gnt[c]).trk) /\ trk[Head(gnt[c]).trk].blk = mshr[c].blk
    /\ fq[c] # NoTracker => Granted(c, fq[c])
    /\ mshr[c].state = "s_refill_resp" => fq[c] = NoTracker

\* Probes and their answers, and the unit that waits for them.
Probed(c, b) == \E i \in DOMAIN prb[c] : prb[c][i].blk = b
AnsMsg(c, b, i) == ~ rel[i].voluntary /\ rel[i].client = c /\ rel[i].blk = b
Answered(c, b) == \E i \in DOMAIN rel : AnsMsg(c, b, i)
Out(b) == {c \in Client : Probed(c, b) \/ Answered(c, b)}

Prober(c, b, ptype) ==
  \/ \E t \in Tracker : /\ trk[t].state = "s_inner_probe" /\ trk[t].blk = b
                        /\ c \notin trk[t].iprbs /\ ptype = getProbeType(trk[t].kind)
  \/ /\ wb.state = "s_inner_probe" /\ wb.blk = b
     /\ c \notin wb.iprbs /\ ptype = "probeInvalidate"

\* Every probe and every answer has a unit that waits for it, and there is one per client.
ProbesMatched ==
  /\ \A c \in Client : \A i \in DOMAIN prb[c] :
       /\ Prober(c, prb[c][i].blk, prb[c][i].ptype)
       /\ ~ Answered(c, prb[c][i].blk)
       /\ \A j \in DOMAIN prb[c] : prb[c][i].blk = prb[c][j].blk => i = j
  /\ \A i \in DOMAIN rel : ~ rel[i].voluntary =>
       /\ Prober(rel[i].client, rel[i].blk, rel[i].ptype)
       /\ \A j \in DOMAIN rel : AnsMsg(rel[i].client, rel[i].blk, j) => i = j

\* A unit counts them.
ProbesCounted ==
  /\ \A t \in Tracker : trk[t].state = "s_inner_probe" =>
       trk[t].irels = Cardinality(Out(trk[t].blk))
  /\ wb.state = "s_inner_probe" => wb.irels = Cardinality(Out(wb.blk))

\* A client with a copy, or with one that it has released and the L2 has not yet taken.
Holds(c, b) == \E w \in L1Way : Live(c, w) /\ l1[c][w].tag = b
Entitled(c, b) == Holds(c, b) \/ \E i \in DOMAIN rel : VolMsg(c, i) /\ rel[i].blk = b

Serving(t, b) ==
  trk[t].blk = b /\ trk[t].state \in {"s_inner_probe", "s_busy", "s_meta_write"}

\* The directory has every such client, wherever its current entry is; a line that has been
\* evicted, or is about to be overwritten, has none.
Lists(c, b) ==
  /\ \A t \in Tracker : Serving(t, b) => c \in trk[t].coh.sharers
  /\ (\A t \in Tracker : ~ Serving(t, b)) =>
       \E n \in Line : meta[n].tag = b /\ c \in meta[n].coh.sharers
  /\ wb.state # "s_idle" /\ wb.blk = b => wb.state = "s_inner_probe" /\ c \in wb.coh.sharers
  /\ \A t \in Tracker :
       /\ trk[t].state \in {"s_outer_acquire", "s_busy", "s_meta_write"}
       /\ meta[trk[t].line].tag = b
       => trk[t].blk = b
  /\ rt.state # "s_idle" /\ rt.rel.blk = b => c # rt.rel.client

Listed == \A c \in Client, b \in Block : Entitled(c, b) => Lists(c, b)

\* Sharers that have still to be invalidated are being probed.
SharersProbed ==
  /\ \A t \in Tracker : trk[t].state = "s_inner_probe" /\ isWrite(trk[t].kind) =>
       trk[t].coh.sharers \subseteq trk[t].iprbs \cup Out(trk[t].blk) \cup {trk[t].client}
  /\ wb.state = "s_inner_probe" => wb.coh.sharers \subseteq wb.iprbs \cup Out(wb.blk)

\* A client that has answered an invalidating probe has lost its copy.
AnswerersOut ==
  \A i \in DOMAIN rel : ~ rel[i].voluntary /\ rel[i].ptype = "probeInvalidate" =>
    ~ Entitled(rel[i].client, rel[i].blk)

\* A client with more than a shared copy, or with one on its way back.
Owns(c, b) ==
  \/ \E w \in L1Way : Live(c, w) /\ l1[c][w].tag = b /\ l1[c][w].st # "S"
  \/ \E i \in DOMAIN rel : VolMsg(c, i) /\ rel[i].blk = b

\* Copies of a block are all shared, and none is being written back.
AllShared(b) == \A c \in Client : ~ Owns(c, b)

Two(S) == \E c, d \in S : c # d

\* Two sharers in the directory mean shared copies, unless a tracker has the current entry.
SharedInDirectory ==
  \A n \in Line :
    /\ meta[n].tag # NoBlock /\ Two(meta[n].coh.sharers)
    /\ \A t \in Tracker : ~ (Serving(t, meta[n].tag) /\ trk[t].state # "s_inner_probe")
    => AllShared(meta[n].tag)

\* The same in a tracker past its probes; what it is about to grant is safe to grant.
SharedInTracker ==
  \A t \in Tracker : trk[t].state \in {"s_busy", "s_meta_write"} =>
    /\ Two(trk[t].coh.sharers) => AllShared(trk[t].blk)
    /\ trk[t].gnt = "pending" /\ trk[t].kind = "acquireShared" => AllShared(trk[t].blk)
    /\ trk[t].gnt = "pending" /\ isWrite(trk[t].kind) =>
         trk[t].coh.sharers \subseteq {trk[t].client}

\* Before a shared grant, whoever has more than a shared copy is still to be probed.
DowngradesPending ==
  \A t \in Tracker : trk[t].state = "s_inner_probe" /\ trk[t].kind = "acquireShared" =>
    \A c \in Client : Owns(c, trk[t].blk) => c \in trk[t].iprbs \/ Probed(c, trk[t].blk)

\* Who is granted more than a shared copy is alone, until its tracker is done.
GrantsAlone ==
  \A c \in Client :
    /\ gnt[c] # <<>> /\ Head(gnt[c]).gtype # "voluntaryAck" =>
         LET k == trk[Head(gnt[c]).trk] IN
         /\ c \in k.coh.sharers
         /\ Head(gnt[c]).gtype = "grantExclusive" => k.coh.sharers \subseteq {c}
    /\ mshr[c].state = "s_meta_write_req" =>
         \/ l1[c][mshr[c].way].st = "E" /\ mshr[c].newst = "M"
         \/ /\ fq[c] # NoTracker /\ trk[fq[c]].blk = mshr[c].blk
            /\ c \in trk[fq[c]].coh.sharers
            /\ mshr[c].newst \in {"S", "E", "M"}
            /\ mshr[c].newst # "S" => trk[fq[c]].coh.sharers \subseteq {c}

IInv ==
  /\ Types(Int)
  /\ L1Shape /\ MetaShape /\ SetsApart /\ (\A t \in Tracker : TrackerShape(t))
  /\ RtShape /\ WbShape /\ WritebackTokens /\ AcquireTokens
  /\ ProbesMatched /\ ProbesCounted /\ Listed /\ SharersProbed /\ AnswerersOut
  /\ SharedInDirectory /\ SharedInTracker /\ DowngradesPending /\ GrantsAlone

-----------------------------------------------------------------------------
(***************************************************************************)
(* Sequences.                                                              *)
(***************************************************************************)

\* Taking the first message of a channel.
LEMMA TailFacts ==
  ASSUME NEW S, NEW s \in Seq(S), s # <<>>
  PROVE  /\ Tail(s) \in Seq(S) /\ Head(s) \in S /\ Head(s) = s[1]
         /\ Len(s) \in Nat /\ Len(s) > 0 /\ 1 \in DOMAIN s
         /\ \A i \in DOMAIN Tail(s) : i \in Nat /\ i + 1 \in DOMAIN s /\ Tail(s)[i] = s[i + 1]
         /\ \A i \in DOMAIN s : i # 1 => i - 1 \in DOMAIN Tail(s) /\ Tail(s)[i - 1] = s[i]
  OBVIOUS

\* Taking the only one.
LEMMA TailOfOne ==
  ASSUME NEW S, NEW s \in Seq(S), Len(s) = 1
  PROVE  Tail(s) = <<>> /\ Head(s) \in S
<1>1. s # <<>>
  OBVIOUS
<1>2. Tail(s) \in Seq(S) /\ Len(Tail(s)) = 0 /\ Head(s) \in S
  BY <1>1
<1> QED BY <1>2, EmptySeq

\* Sending one.
LEMMA AppendFacts ==
  ASSUME NEW S, NEW s \in Seq(S), NEW x \in S
  PROVE  LET q == Append(s, x) IN
         /\ q \in Seq(S) /\ q # <<>> /\ Len(s) + 1 \in DOMAIN q /\ q[Len(s) + 1] = x
         /\ \A i \in DOMAIN s : i \in DOMAIN q /\ i # Len(s) + 1 /\ q[i] = s[i]
         /\ \A i \in DOMAIN q : i # Len(s) + 1 => i \in DOMAIN s
  OBVIOUS

-----------------------------------------------------------------------------
(***************************************************************************)
(* Types.                                                                  *)
(***************************************************************************)

\* The idle values of the state machines have their types.
LEMMA IdleTypes ==
  /\ cohOnReset \in Coh
  /\ NoMshr \in MshrRec
  /\ NoTrk \in TrackerRec(Int)
  /\ NoRt \in RtRec
  /\ NoWb \in WbRec(Int)
<1>1. (CHOOSE w \in L1Way : TRUE) \in L1Way /\ (CHOOSE n \in Line : TRUE) \in Line
  BY L2CacheAssumption
<1>2. cohOnReset \in Coh
  BY DEF cohOnReset, Coh
<1>3. NoMshr \in MshrRec
  BY <1>1 DEF NoMshr, MshrRec, ClientState
<1>4. NoTrk \in TrackerRec(Int)
  BY <1>1, <1>2 DEF NoTrk, TrackerRec, Kind
<1>5. NoRt \in RtRec
  BY <1>1, <1>2 DEF NoRt, RtRec
<1>6. NoWb \in WbRec(Int)
  BY <1>1, <1>2 DEF NoWb, WbRec
<1> QED BY <1>2, <1>3, <1>4, <1>5, <1>6

\* The policy yields messages and metadata.
LEMMA PolicyTypes ==
  /\ \A cmd \in {"load", "store"} : getAcquireType(cmd) \in Kind
  /\ \A k \in Kind : getProbeType(k) \in ProbeType
  /\ \A p \in ProbeType, s \in ClientState : clientMetadataOnProbe(p, s) \in ClientState
  /\ \A k, S : getGrantType(k, S) \in {"grantShared", "grantExclusive"}
  /\ \A g, cmd : clientMetadataOnGrant(g, cmd) \in ClientState
  /\ \A coh \in Coh, r \in ReleaseMsg : onRelease(coh, r) \in Coh
  /\ \A k : \A coh \in Coh, c \in Client : onGrant(coh, k, c) \in Coh
  /\ \A coh \in Coh : \A k, c : isBuiltInType(k) => onGrant(coh, k, c) \in Coh
<1>1. \A coh \in Coh, r \in ReleaseMsg : onRelease(coh, r) \in Coh
  <2> TAKE coh \in Coh, r \in ReleaseMsg
  <2>1. (IF r.ptype = "probeInvalidate" THEN coh.sharers \ {r.client} ELSE coh.sharers)
          \in SUBSET Client
    BY DEF Coh
  <2>2. (coh.dirty \/ r.data # NoValue) \in BOOLEAN
    OBVIOUS
  <2> QED BY <2>1, <2>2 DEF onRelease, Coh
<1>2. \A k : \A coh \in Coh, c \in Client : onGrant(coh, k, c) \in Coh
  BY DEF onGrant, Coh
<1> QED BY <1>1, <1>2 DEF getAcquireType, Kind, getProbeType, ProbeType, clientMetadataOnProbe,
          ClientState, getGrantType, clientMetadataOnGrant, onGrant

\* What the typing says of single messages and records.
LEMMA TypeFacts ==
  ASSUME Types(Int)
  PROVE  /\ \A i \in DOMAIN rel : rel[i] \in ReleaseMsg /\ rel[i].client \in Client
                                    /\ rel[i].blk \in Block
         /\ \A i \in DOMAIN acq : acq[i] \in AcquireMsg /\ acq[i].blk \in Block
         /\ \A c \in Client :
              /\ mshr[c].way \in L1Way
              /\ \A w \in L1Way : l1[c][w].tag \in Block \cup {NoBlock} /\ l1[c][w].st \in ClientState
              /\ \A i \in DOMAIN prb[c] : prb[c][i] \in ProbeMsg /\ prb[c][i].blk \in Block
              /\ gnt[c] \in Seq(GrantMsg)
         /\ \A t \in Tracker : trk[t] \in TrackerRec(Int) /\ trk[t].line \in Line
                               /\ trk[t].coh.sharers \subseteq Client
                               /\ trk[t].iprbs \subseteq Client
         /\ \A n \in Line : meta[n].coh \in Coh /\ meta[n].coh.sharers \subseteq Client
                            /\ meta[n].tag \in Block \cup {NoBlock}
         /\ wb.coh.sharers \subseteq Client /\ wb.iprbs \subseteq Client
<1>1. \A i \in DOMAIN rel : rel[i] \in ReleaseMsg
  BY DEF Types
<1>2. \A i \in DOMAIN acq : acq[i] \in AcquireMsg
  BY DEF Types
<1>3. \A c \in Client : gnt[c] \in Seq(GrantMsg) /\ \A i \in DOMAIN prb[c] : prb[c][i] \in ProbeMsg
  BY DEF Types
<1>4. \A c \in Client : mshr[c].way \in L1Way
  BY DEF Types, MshrRec
<1>5. \A c \in Client, w \in L1Way :
        l1[c][w].tag \in Block \cup {NoBlock} /\ l1[c][w].st \in ClientState
  BY DEF Types, L1Rec
<1>6. \A t \in Tracker : trk[t] \in TrackerRec(Int)
  BY DEF Types
<1>7. \A n \in Line : meta[n].coh \in Coh /\ meta[n].tag \in Block \cup {NoBlock}
  BY DEF Types
<1>8. wb.coh \in Coh /\ wb.iprbs \subseteq Client
  BY DEF Types, WbRec
<1> QED BY <1>1, <1>2, <1>3, <1>4, <1>5, <1>6, <1>7, <1>8
        DEF ReleaseMsg, AcquireMsg, ProbeMsg, TrackerRec, Coh

\* Writing one way of one cache.
LEMMA L1Update ==
  ASSUME NEW f \in [Client -> [L1Way -> L1Rec]], NEW c \in Client, NEW w \in L1Way, NEW e \in L1Rec
  PROVE  LET g == [f EXCEPT ![c][w] = e] IN
         /\ g \in [Client -> [L1Way -> L1Rec]]
         /\ g[c][w] = e
         /\ \A x \in L1Way : x # w => g[c][x] = f[c][x]
         /\ \A d \in Client : d # c => g[d] = f[d]
<1> DEFINE g == [f EXCEPT ![c][w] = e]
<1>1. f[c] \in [L1Way -> L1Rec]
  OBVIOUS
<1>2. g = [f EXCEPT ![c] = [f[c] EXCEPT ![w] = e]]
  OBVIOUS
<1>3. [f[c] EXCEPT ![w] = e] \in [L1Way -> L1Rec]
  BY <1>1
<1> HIDE DEF g
<1>4. /\ g \in [Client -> [L1Way -> L1Rec]]
      /\ g[c] = [f[c] EXCEPT ![w] = e]
      /\ \A d \in Client : d # c => g[d] = f[d]
  BY <1>2, <1>3
<1> QED BY <1>1, <1>4 DEF g

-----------------------------------------------------------------------------
(***************************************************************************)
(* What each part of the invariant depends on.                             *)
(***************************************************************************)

\* A step that leaves the variables of a part alone preserves it.
LEMMA Frames ==
  /\ L1Shape /\ UNCHANGED <<l1, mshr>> => L1Shape'
  /\ MetaShape /\ UNCHANGED meta => MetaShape'
  /\ SetsApart /\ UNCHANGED trk => SetsApart'
  /\ (\A t \in Tracker : TrackerShape(t)) /\ UNCHANGED <<trk, meta, wb>>
       => (\A t \in Tracker : TrackerShape(t))'
  /\ RtShape /\ UNCHANGED <<trk, meta, rt>> => RtShape'
  /\ WbShape /\ UNCHANGED <<trk, meta, wb>> => WbShape'
  /\ WritebackTokens /\ UNCHANGED <<l1, mshr, gnt, rel, trk, wb, rt>> => WritebackTokens'
  /\ AcquireTokens /\ UNCHANGED <<mshr, fq, gnt, acq, trk>> => AcquireTokens'
  /\ ProbesMatched /\ UNCHANGED <<prb, rel, trk, wb>> => ProbesMatched'
  /\ ProbesCounted /\ UNCHANGED <<prb, rel, trk, wb>> => ProbesCounted'
  /\ SharersProbed /\ UNCHANGED <<rel, prb, trk, wb>> => SharersProbed'
  /\ GrantsAlone /\ UNCHANGED <<l1, mshr, fq, gnt, trk>> => GrantsAlone'
<1>1. L1Shape /\ UNCHANGED <<l1, mshr>> => L1Shape'
  BY DEF L1Shape
<1>2. MetaShape /\ UNCHANGED meta => MetaShape'
  BY DEF MetaShape
<1>3. SetsApart /\ UNCHANGED trk => SetsApart'
  BY DEF SetsApart, Busy
<1>4. (\A t \in Tracker : TrackerShape(t)) /\ UNCHANGED <<trk, meta, wb>>
       => (\A t \in Tracker : TrackerShape(t))'
  BY DEF TrackerShape, Busy, Resident
<1>5. RtShape /\ UNCHANGED <<trk, meta, rt>> => RtShape'
  BY DEF RtShape, Busy, Resident
<1>6. WbShape /\ UNCHANGED <<trk, meta, wb>> => WbShape'
  BY DEF WbShape
<1>7. WritebackTokens /\ UNCHANGED <<l1, mshr, gnt, rel, trk, wb, rt>> => WritebackTokens'
  BY DEF WritebackTokens, VolMsg, AtRt
<1>8. AcquireTokens /\ UNCHANGED <<mshr, fq, gnt, acq, trk>> => AcquireTokens'
  BY DEF AcquireTokens, Asks, AtTracker, Granted, Busy
<1>9. ProbesMatched /\ UNCHANGED <<prb, rel, trk, wb>> => ProbesMatched'
  BY DEF ProbesMatched, Prober, Answered, AnsMsg
<1>10. ProbesCounted /\ UNCHANGED <<prb, rel, trk, wb>> => ProbesCounted'
  <2>1. UNCHANGED <<prb, rel>> => \A b : Out(b)' = Out(b)
    BY DEF Out, Probed, Answered, AnsMsg
  <2> QED BY <2>1 DEF ProbesCounted
<1>11. SharersProbed /\ UNCHANGED <<rel, prb, trk, wb>> => SharersProbed'
  BY DEF SharersProbed, Out, Probed, Answered, AnsMsg
<1>12. GrantsAlone /\ UNCHANGED <<l1, mshr, fq, gnt, trk>> => GrantsAlone'
  BY DEF GrantsAlone
<1> QED BY <1>1, <1>2, <1>3, <1>4, <1>5, <1>6, <1>7, <1>8, <1>9, <1>10, <1>11, <1>12

\* No client gains a copy, and none more than a shared one.
NoNewCopy ==
  /\ \A c \in Client, b \in Block : Entitled(c, b)' => Entitled(c, b)
  /\ \A c \in Client, b \in Block : Owns(c, b)' => Owns(c, b)

\* A step of the L1 caches in which no client gains a copy preserves what is said of copies.
LEMMA CopyFrames ==
  ASSUME Types(Int), NoNewCopy, UNCHANGED <<meta, trk, wb, rt>>
  PROVE  /\ Listed => Listed'
         /\ SharedInDirectory => SharedInDirectory'
         /\ SharedInTracker /\ (\A t \in Tracker : TrackerShape(t)) => SharedInTracker'
         /\ AnswerersOut /\ UNCHANGED rel => AnswerersOut'
<1>1. Listed => Listed'
  BY DEF Listed, Lists, NoNewCopy, Serving
<1>2. SharedInDirectory => SharedInDirectory'
  BY TypeFacts DEF SharedInDirectory, NoNewCopy, AllShared, Serving, Two
<1>3. SharedInTracker /\ (\A t \in Tracker : TrackerShape(t)) => SharedInTracker'
  <2> SUFFICES ASSUME SharedInTracker, \A t \in Tracker : TrackerShape(t)
               PROVE  SharedInTracker'
    OBVIOUS
  <2>1. \A t \in Tracker : trk[t].state \in {"s_busy", "s_meta_write"} => trk[t].blk \in Block
    BY DEF TrackerShape, Busy
  <2> QED BY <2>1 DEF SharedInTracker, NoNewCopy, AllShared, Two
<1>4. AnswerersOut /\ UNCHANGED rel => AnswerersOut'
  BY TypeFacts DEF AnswerersOut, NoNewCopy
<1> QED BY <1>1, <1>2, <1>3, <1>4

\* Copies that stay or go, without a release.
LEMMA LiveFrames ==
  ASSUME \A d \in Client, x \in L1Way : Live(d, x)' =>
           Live(d, x) /\ l1'[d][x].tag = l1[d][x].tag /\ l1'[d][x].st = l1[d][x].st,
         rel' = rel
  PROVE  /\ NoNewCopy
         /\ DowngradesPending /\ UNCHANGED <<trk, prb>> => DowngradesPending'
<1>1. NoNewCopy
  BY DEF NoNewCopy, Entitled, Holds, VolMsg, Owns
<1>2. DowngradesPending /\ UNCHANGED <<trk, prb>> => DowngradesPending'
  BY DEF DowngradesPending, Probed, Owns, VolMsg
<1> QED BY <1>1, <1>2

\* An MSHR that is not about to write metadata may change.
LEMMA GrantsFrame ==
  ASSUME GrantsAlone, UNCHANGED <<fq, gnt, trk>>,
         \A d \in Client : mshr'[d].state = "s_meta_write_req" =>
           mshr'[d] = mshr[d] /\ l1'[d][mshr[d].way].st = l1[d][mshr[d].way].st
  PROVE  GrantsAlone'
<1> SUFFICES ASSUME NEW d \in Client PROVE GrantsAlone!(d)'
  BY DEF GrantsAlone
<1>1. GrantsAlone!(d)!1'
  BY DEF GrantsAlone
<1>2. GrantsAlone!(d)!2'
  BY DEF GrantsAlone
<1> QED BY <1>1, <1>2

\* A block, and a line, has one unit at a time.
LEMMA OneUnit ==
  ASSUME MetaShape, SetsApart, \A t \in Tracker : TrackerShape(t), WbShape, Types(Int)
  PROVE  /\ \A t, u \in Tracker : Busy(t) /\ Busy(u) /\ trk[t].blk = trk[u].blk => t = u
         /\ \A t, u \in Tracker :
              /\ Busy(t) /\ trk[u].state \notin {"s_idle", "s_meta_read"}
              /\ meta[trk[u].line].tag = trk[t].blk
              => t = u
         /\ \A t, u \in Tracker :
              /\ trk[t].state \notin {"s_idle", "s_meta_read"}
              /\ trk[u].state \notin {"s_idle", "s_meta_read"}
              /\ trk[t].line = trk[u].line
              => t = u
         /\ \A t \in Tracker : Busy(t) /\ wb.state # "s_idle" /\ wb.blk = trk[t].blk => t = wb.trk
<1>1. \A t \in Tracker : /\ trk[t].state \notin {"s_idle", "s_meta_read"} =>
                              Busy(t) /\ SetOf[trk[t].line] = SetOf[trk[t].blk]
                         /\ Busy(t) => trk[t].blk \in Block /\ trk[t].blk # NoBlock
                         /\ trk[t].line \in Line
  BY TypeFacts, L2CacheAssumption DEF TrackerShape, Busy
<1>2. \A n \in Line : meta[n].tag # NoBlock => SetOf[meta[n].tag] = SetOf[n]
  BY DEF MetaShape
<1>3. \A t, u \in Tracker : Busy(t) /\ Busy(u) /\ trk[t].blk = trk[u].blk => t = u
  BY DEF SetsApart
<1>4. \A t, u \in Tracker :
        /\ Busy(t) /\ trk[u].state \notin {"s_idle", "s_meta_read"}
        /\ meta[trk[u].line].tag = trk[t].blk
        => t = u
  BY <1>1, <1>2 DEF SetsApart
<1>5. \A t, u \in Tracker :
        /\ trk[t].state \notin {"s_idle", "s_meta_read"}
        /\ trk[u].state \notin {"s_idle", "s_meta_read"}
        /\ trk[t].line = trk[u].line
        => t = u
  BY <1>1 DEF SetsApart
<1>6. \A t \in Tracker : Busy(t) /\ wb.state # "s_idle" /\ wb.blk = trk[t].blk => t = wb.trk
  BY <1>1, <1>4 DEF WbShape
<1> QED BY <1>3, <1>4, <1>5, <1>6

\* A tracker that does not move.
LEMMA TrackerFrame ==
  ASSUME NEW u \in Tracker, TrackerShape(u), UNCHANGED <<meta, trk[u]>>,
         wb' = wb \/ (trk[u].state = "s_wb_resp" => wb'.state # "s_idle" /\ wb'.trk = u)
  PROVE  TrackerShape(u)'
<1>1. \A b : Resident(b)' <=> Resident(b)
  BY DEF Resident
<1>2. trk[u].state = "s_wb_resp" => wb'.state # "s_idle" /\ wb'.trk = u
  BY DEF TrackerShape
<1> QED BY <1>1, <1>2 DEF TrackerShape, Busy

-----------------------------------------------------------------------------
(***************************************************************************)
(* Steps of the L1 caches.                                                 *)
(***************************************************************************)

\* A store that hits changes data only.
LEMMA StoreHitInv ==
  ASSUME IInv, NEW c \in Client, NEW w \in L1Way, NEW v \in Value, StoreHit(c, w, v)
  PROVE  IInv'
<1> USE DEF IInv
<1>1. UNCHANGED <<mshr, fq, unc, acq, rel, prb, gnt, meta, data, trk, rt, wb, mem>>
  BY DEF StoreHit, l2vars
<1>2. /\ l1' = [l1 EXCEPT ![c][w].data = v]
      /\ latest' = [latest EXCEPT ![l1[c][w].tag] = v]
      /\ l1[c][w].tag \in Block
  BY DEF StoreHit, L1Shape
<1>3. \A d \in Client, x \in L1Way : l1'[d][x].tag = l1[d][x].tag /\ l1'[d][x].st = l1[d][x].st
  BY <1>2 DEF Types
<1>4. Types(Int)'
  <2>1. l1' \in [Client -> [L1Way -> L1Rec]]
    <3>1. l1[c][w] \in L1Rec
      BY DEF Types
    <3>2. [l1[c][w] EXCEPT !.data = v] \in L1Rec
      BY <3>1 DEF L1Rec
    <3> QED BY <1>2, <3>2 DEF Types
  <2>2. latest' \in [Block -> Value]
    BY <1>2 DEF Types
  <2> QED BY <1>1, <2>1, <2>2 DEF Types
<1>5. \A d \in Client : mshr[d].way \in L1Way
  BY TypeFacts
<1>6. L1Shape'
  BY <1>1, <1>3, <1>5 DEF L1Shape
<1>7. WritebackTokens'
  BY <1>1, <1>3, <1>5 DEF WritebackTokens, VolMsg, AtRt
<1>8. \A d \in Client, x \in L1Way : Live(d, x)' <=> Live(d, x)
  BY <1>1, <1>3 DEF Live
<1>9. NoNewCopy /\ DowngradesPending'
  BY <1>1, <1>3, <1>8, LiveFrames
<1>11. GrantsAlone'
  BY <1>1, <1>3, <1>5 DEF GrantsAlone
<1> QED BY <1>1, <1>4, <1>6, <1>7, <1>9, <1>11, Frames, CopyFrames

\* A miss gives up no copy but the one it is about to clear.
LEMMA MissInv ==
  ASSUME IInv, NEW c \in Client, NEW b \in Uses[c], NEW cmd \in {"load", "store"}, Miss(c, b, cmd)
  PROVE  IInv'
<1> USE DEF IInv
<1>1. /\ UNCHANGED <<l1, fq, unc, acq, rel, prb, gnt, meta, data, trk, rt, wb, mem, latest>>
      /\ mshr[c].state = "s_invalid"
  BY DEF Miss, l2vars
<1>2. b \in Block
  BY L2CacheAssumption
<1>3. PICK w \in L1Way, s \in {"s_wb_req", "s_meta_clear", "s_meta_write_req", "s_refill_req"},
           n \in {"I", "M"} :
        /\ mshr' = [mshr EXCEPT ![c] = [state |-> s, blk |-> b, way |-> w, cmd |-> cmd, newst |-> n]]
        /\ \/ /\ tag_match_way(c, b) = {} /\ n = "I"
              /\ s = IF l1[c][w].st = "M" THEN "s_wb_req" ELSE "s_meta_clear"
           \/ /\ w \in tag_match_way(c, b) /\ cmd = "store"
              /\ \/ s = "s_meta_write_req" /\ n = "M" /\ l1[c][w].st = "E"
                 \/ s = "s_refill_req" /\ n = "I" /\ l1[c][w].st = "S"
  <2>1. PICK w \in (IF tag_match_way(c, b) = {} THEN L1Way ELSE tag_match_way(c, b)) :
          IF tag_match_way(c, b) = {}
          THEN mshr' = [mshr EXCEPT ![c] =
                 [state |-> IF l1[c][w].st = "M" THEN "s_wb_req" ELSE "s_meta_clear",
                  blk |-> b, way |-> w, cmd |-> cmd, newst |-> "I"]]
          ELSE /\ ~ (cmd = "load" \/ l1[c][w].st = "M")
               /\ IF isHit(cmd, l1[c][w].st)
                  THEN mshr' = [mshr EXCEPT ![c] = [state |-> "s_meta_write_req", blk |-> b,
                                                    way |-> w, cmd |-> cmd, newst |-> "M"]]
                  ELSE mshr' = [mshr EXCEPT ![c] = [state |-> "s_refill_req", blk |-> b,
                                                    way |-> w, cmd |-> cmd, newst |-> "I"]]
    BY DEF Miss
  <2>2. w \in L1Way /\ l1[c][w].st \in ClientState
    BY <2>1, TypeFacts DEF tag_match_way
  <2>3. CASE tag_match_way(c, b) = {}
    BY <2>1, <2>2, <2>3
  <2>4. CASE tag_match_way(c, b) # {}
    BY <2>1, <2>2, <2>4 DEF isHit, ClientState, tag_match_way
  <2> QED BY <2>3, <2>4
<1>4. /\ mshr'[c] = [state |-> s, blk |-> b, way |-> w, cmd |-> cmd, newst |-> n]
      /\ \A d \in Client : d # c => mshr'[d] = mshr[d]
      /\ s \in {"s_wb_req", "s_meta_clear", "s_meta_write_req", "s_refill_req"}
  BY <1>3 DEF Types
<1>5. Types(Int)'
  <2>1. mshr'[c] \in MshrRec
    BY <1>2, <1>3, <1>4 DEF MshrRec, ClientState
  <2>2. mshr' \in [Client -> MshrRec]
    BY <1>3, <1>4, <2>1 DEF Types
  <2> QED BY <1>1, <2>2 DEF Types
<1>6. L1Shape'
  BY <1>1, <1>2, <1>3, <1>4 DEF L1Shape, tag_match_way
<1>7. WritebackTokens'
  BY <1>1, <1>4 DEF WritebackTokens, VolMsg, AtRt
<1>8. AcquireTokens'
  BY <1>1, <1>4 DEF AcquireTokens, Asks, AtTracker, Granted, Busy
<1>9. NoNewCopy /\ DowngradesPending'
  <2>1. \A d \in Client, x \in L1Way : Live(d, x)' => Live(d, x)
    BY <1>1, <1>4 DEF Live
  <2> QED BY <1>1, <2>1, LiveFrames
<1>10. GrantsAlone'
  BY <1>1, <1>3, <1>4 DEF GrantsAlone
<1> QED BY <1>1, <1>5, <1>6, <1>7, <1>8, <1>9, <1>10, Frames, CopyFrames

\* A secondary miss may only raise the command of an MSHR that has not asked yet.
LEMMA SecondaryMissInv ==
  ASSUME IInv, NEW c \in Client, SecondaryMiss(c)
  PROVE  IInv'
<1> USE DEF IInv
<1>1. /\ UNCHANGED <<l1, fq, unc, acq, rel, prb, gnt, meta, data, trk, rt, wb, mem, latest>>
      /\ mshr' = [mshr EXCEPT ![c].cmd = "store"]
      /\ mshr[c].state \in {"s_wb_req", "s_wb_resp", "s_meta_clear"}
  BY DEF SecondaryMiss, l2vars
<1>2. mshr \in [Client -> MshrRec]
  BY DEF Types
<1>3. /\ mshr' \in [Client -> MshrRec]
      /\ \A d \in Client : /\ mshr'[d].state = mshr[d].state /\ mshr'[d].blk = mshr[d].blk
                           /\ mshr'[d].way = mshr[d].way /\ mshr'[d].newst = mshr[d].newst
                           /\ d # c => mshr'[d] = mshr[d]
  BY <1>1, <1>2 DEF MshrRec
<1>4. Types(Int)'
  BY <1>1, <1>3 DEF Types
<1>5. L1Shape'
  BY <1>1, <1>3 DEF L1Shape
<1>6. WritebackTokens'
  BY <1>1, <1>3 DEF WritebackTokens, VolMsg, AtRt
<1>7. AcquireTokens'
  BY <1>1, <1>3 DEF AcquireTokens, Asks, AtTracker, Granted, Busy
<1>8. NoNewCopy /\ DowngradesPending'
  <2>1. \A d \in Client, x \in L1Way : Live(d, x)' => Live(d, x)
    BY <1>1, <1>3 DEF Live
  <2> QED BY <1>1, <2>1, LiveFrames
<1>9. GrantsAlone'
  <2>1. \A d \in Client : mshr'[d].state = "s_meta_write_req" => mshr'[d] = mshr[d]
    BY <1>1, <1>3
  <2> QED BY <1>1, <2>1, GrantsFrame
<1> QED BY <1>1, <1>4, <1>5, <1>6, <1>7, <1>8, <1>9, Frames, CopyFrames

\* A release at the end of the channel leaves the answers to probes as they were.
LEMMA VoluntaryAppended ==
  ASSUME Types(Int), NEW r \in ReleaseMsg, r.voluntary, rel' = Append(rel, r), prb' = prb
  PROVE  /\ \A d, b : Answered(d, b)' <=> Answered(d, b)
         /\ \A b : Out(b)' = Out(b)
         /\ ProbesMatched /\ UNCHANGED <<trk, wb>> => ProbesMatched'
         /\ ProbesCounted /\ UNCHANGED <<trk, wb>> => ProbesCounted'
         /\ SharersProbed /\ UNCHANGED <<trk, wb>> => SharersProbed'
<1>1. rel \in Seq(ReleaseMsg)
  BY DEF Types
<1>2. /\ Len(rel) + 1 \in DOMAIN rel' /\ rel'[Len(rel) + 1] = r
      /\ \A i \in DOMAIN rel : i \in DOMAIN rel' /\ i # Len(rel) + 1 /\ rel'[i] = rel[i]
      /\ \A i \in DOMAIN rel' : i # Len(rel) + 1 => i \in DOMAIN rel
  BY <1>1, AppendFacts
<1>3. \A d, b : Answered(d, b)' <=> Answered(d, b)
  BY <1>2 DEF Answered, AnsMsg
<1>4. \A b : Out(b)' = Out(b)
  BY <1>3 DEF Out, Probed
<1>5. ProbesMatched /\ UNCHANGED <<trk, wb>> => ProbesMatched'
  <2> SUFFICES ASSUME ProbesMatched, UNCHANGED <<trk, wb>> PROVE ProbesMatched'
    OBVIOUS
  <2>1. \A d, b, p : Prober(d, b, p)' <=> Prober(d, b, p)
    BY DEF Prober
  <2>2. \A d, b : \A i \in DOMAIN rel' : AnsMsg(d, b, i)' => i \in DOMAIN rel /\ AnsMsg(d, b, i)
    BY <1>2 DEF AnsMsg
  <2> QED BY <1>2, <1>3, <2>1, <2>2 DEF ProbesMatched
<1>6. ProbesCounted /\ UNCHANGED <<trk, wb>> => ProbesCounted'
  BY <1>4 DEF ProbesCounted
<1>7. SharersProbed /\ UNCHANGED <<trk, wb>> => SharersProbed'
  BY <1>4 DEF SharersProbed
<1> QED BY <1>3, <1>4, <1>5, <1>6, <1>7

\* The victim's release takes over the place of its copy.
LEMMA SendWritebackInv ==
  ASSUME IInv, NEW c \in Client, SendWriteback(c)
  PROVE  IInv'
<1> USE DEF IInv
<1> DEFINE old == l1[c][mshr[c].way]
           r == [client |-> c, blk |-> old.tag, voluntary |-> TRUE,
                 ptype |-> "probeInvalidate", data |-> old.data]
<1>1. /\ UNCHANGED <<l1, fq, unc, acq, prb, gnt, meta, data, trk, rt, wb, mem, latest>>
      /\ mshr' = [mshr EXCEPT ![c].state = "s_wb_resp"]
      /\ rel' = Append(rel, r) /\ mshr[c].state = "s_wb_req"
  BY DEF SendWriteback, l2vars
<1>2. mshr \in [Client -> MshrRec] /\ rel \in Seq(ReleaseMsg) /\ old \in L1Rec
  BY TypeFacts DEF Types
<1>3. /\ mshr' \in [Client -> MshrRec]
      /\ mshr'[c].state = "s_wb_resp"
      /\ \A d \in Client : /\ mshr'[d].blk = mshr[d].blk
                           /\ mshr'[d].way = mshr[d].way /\ mshr'[d].newst = mshr[d].newst
                           /\ mshr'[d].cmd = mshr[d].cmd
                           /\ d # c => mshr'[d] = mshr[d]
  BY <1>1, <1>2 DEF MshrRec
<1>4. old.tag \in Block /\ old.st = "M"
  BY <1>1, TypeFacts DEF L1Shape
<1>5. r \in ReleaseMsg /\ r.voluntary
  BY <1>2, <1>4 DEF ReleaseMsg, L1Rec, ProbeType
<1> HIDE DEF old
<1>6. /\ r.client = c /\ r.blk = old.tag /\ r.ptype = "probeInvalidate"
  OBVIOUS
<1> HIDE DEF r
<1>7. /\ rel' \in Seq(ReleaseMsg)
      /\ Len(rel) + 1 \in DOMAIN rel' /\ rel'[Len(rel) + 1] = r
      /\ \A i \in DOMAIN rel : i \in DOMAIN rel' /\ i # Len(rel) + 1 /\ rel'[i] = rel[i]
      /\ \A i \in DOMAIN rel' : i # Len(rel) + 1 => i \in DOMAIN rel
  BY <1>1, <1>2, <1>5, AppendFacts
<1>8. Types(Int)'
  BY <1>1, <1>3, <1>7 DEF Types
<1>9. L1Shape'
  BY <1>1, <1>3, <1>4 DEF L1Shape, old
<1>10. gnt[c] = <<>>
  BY <1>1 DEF WritebackTokens, AcquireTokens
<1>11. WritebackTokens'
  <2>1. \A d \in Client : \A i \in DOMAIN rel' : VolMsg(d, i)' =>
          \/ i \in DOMAIN rel /\ VolMsg(d, i) /\ d # c
          \/ i = Len(rel) + 1 /\ d = c
    BY <1>1, <1>6, <1>7 DEF WritebackTokens, VolMsg
  <2>2. \A d \in Client : d # c => mshr'[d] = mshr[d]
    BY <1>3
  <2>3. /\ \A t \in Tracker : trk[t].vol # c
        /\ wb.vol # c /\ ~ AtRt(c)
    BY <1>1 DEF WritebackTokens
  <2>4. \A d \in Client : AtRt(d)' <=> AtRt(d)
    BY <1>1 DEF AtRt
  <2> QED BY <1>1, <1>3, <1>6, <1>7, <1>10, <2>1, <2>2, <2>3, <2>4 DEF WritebackTokens, old
<1>12. AcquireTokens'
  BY <1>1, <1>3 DEF AcquireTokens, Asks, AtTracker, Granted, Busy
<1>13. \A d \in Client, x \in L1Way : Live(d, x)' => Live(d, x)
  BY <1>1, <1>3 DEF Live
<1>14. Live(c, mshr[c].way) /\ mshr[c].way \in L1Way
  BY <1>1, <1>4, TypeFacts DEF Live, old
<1>15. NoNewCopy
  <2>1. \A d \in Client, b \in Block : Entitled(d, b)' => Entitled(d, b)
    BY <1>1, <1>6, <1>7, <1>13, <1>14 DEF Entitled, Holds, VolMsg, old
  <2>2. \A d \in Client, b \in Block : Owns(d, b)' => Owns(d, b)
    <3>1. Owns(c, old.tag)
      BY <1>4, <1>14 DEF Owns, old
    <3> QED BY <1>1, <1>6, <1>7, <1>13, <3>1 DEF Owns, VolMsg
  <2> QED BY <2>1, <2>2 DEF NoNewCopy
<1>16. AnswerersOut'
  BY <1>5, <1>7, <1>15, TypeFacts DEF AnswerersOut, NoNewCopy
<1>17. DowngradesPending'
  <2>1. \A t \in Tracker : trk[t].state = "s_inner_probe" => trk[t].blk \in Block
    BY DEF TrackerShape, Busy
  <2> QED BY <1>1, <1>15, <2>1 DEF DowngradesPending, Probed, NoNewCopy
<1>18. GrantsAlone'
  <2>1. \A d \in Client : mshr'[d].state = "s_meta_write_req" => mshr'[d] = mshr[d]
    BY <1>1, <1>3
  <2> QED BY <1>1, <2>1, GrantsFrame
<1>19. ProbesMatched' /\ ProbesCounted' /\ SharersProbed'
  BY <1>1, <1>5, VoluntaryAppended
<1> QED BY <1>1, <1>8, <1>9, <1>11, <1>12, <1>15, <1>16, <1>17, <1>18, <1>19, Frames, CopyFrames

\* Metadata of a copy that was released already, or is clean.
LEMMA MetaClearInv ==
  ASSUME IInv, NEW c \in Client, MetaClear(c)
  PROVE  IInv'
<1> USE DEF IInv
<1> DEFINE none == [tag |-> NoBlock, st |-> "I", data |-> NoValue]
<1>1. /\ UNCHANGED <<fq, unc, acq, rel, prb, gnt, meta, data, trk, rt, wb, mem, latest>>
      /\ mshr' = [mshr EXCEPT ![c].state = "s_refill_req"]
      /\ l1' = [l1 EXCEPT ![c][mshr[c].way] = none]
      /\ mshr[c].state = "s_meta_clear"
  BY DEF MetaClear, l2vars
<1>2. mshr \in [Client -> MshrRec] /\ l1 \in [Client -> [L1Way -> L1Rec]] /\ mshr[c].way \in L1Way
  BY TypeFacts DEF Types
<1>3. /\ mshr' \in [Client -> MshrRec]
      /\ mshr'[c].state = "s_refill_req"
      /\ \A d \in Client : /\ mshr'[d].blk = mshr[d].blk
                           /\ mshr'[d].way = mshr[d].way /\ mshr'[d].newst = mshr[d].newst
                           /\ mshr'[d].cmd = mshr[d].cmd
                           /\ d # c => mshr'[d] = mshr[d]
  BY <1>1, <1>2 DEF MshrRec
<1>4. none \in L1Rec /\ none.st = "I"
  BY DEF L1Rec, ClientState
<1> HIDE DEF none
<1>5. /\ l1' \in [Client -> [L1Way -> L1Rec]]
      /\ l1'[c][mshr[c].way] = none
      /\ \A x \in L1Way : x # mshr[c].way => l1'[c][x] = l1[c][x]
      /\ \A d \in Client : d # c => l1'[d] = l1[d]
  BY <1>1, <1>2, <1>4, L1Update
<1>6. Types(Int)'
  BY <1>1, <1>3, <1>5 DEF Types
<1>7. L1Shape'
  BY <1>1, <1>2, <1>3, <1>4, <1>5 DEF L1Shape
<1>8. WritebackTokens'
  BY <1>1, <1>3, <1>5 DEF WritebackTokens, VolMsg, AtRt
<1>9. AcquireTokens'
  BY <1>1, <1>3 DEF AcquireTokens, Asks, AtTracker, Granted, Busy
<1>10. NoNewCopy /\ DowngradesPending'
  <2>1. \A d \in Client, x \in L1Way : Live(d, x)' => Live(d, x) /\ l1'[d][x] = l1[d][x]
    BY <1>1, <1>3, <1>4, <1>5 DEF Live
  <2> QED BY <1>1, <2>1, LiveFrames
<1>11. GrantsAlone'
  <2>1. \A d \in Client : mshr'[d].state = "s_meta_write_req" => mshr'[d] = mshr[d] /\ l1'[d] = l1[d]
    BY <1>1, <1>3, <1>5
  <2> QED BY <1>1, <2>1, GrantsFrame
<1> QED BY <1>1, <1>6, <1>7, <1>8, <1>9, <1>10, <1>11, Frames, CopyFrames

\* The acquire is the only one of its client on its way.
LEMMA SendAcquireInv ==
  ASSUME IInv, NEW c \in Client, SendAcquire(c)
  PROVE  IInv'
<1> USE DEF IInv
<1> DEFINE a == [client |-> c, blk |-> mshr[c].blk, kind |-> getAcquireType(mshr[c].cmd)]
<1>1. /\ UNCHANGED <<l1, fq, unc, rel, prb, gnt, meta, data, trk, rt, wb, mem, latest>>
      /\ mshr' = [mshr EXCEPT ![c].state = "s_refill_resp"]
      /\ acq' = Append(acq, a) /\ mshr[c].state = "s_refill_req" /\ fq[c] = NoTracker
  BY DEF SendAcquire, l2vars
<1>2. mshr \in [Client -> MshrRec] /\ acq \in Seq(AcquireMsg)
  BY DEF Types
<1>3. /\ mshr' \in [Client -> MshrRec]
      /\ mshr'[c].state = "s_refill_resp"
      /\ \A d \in Client : /\ mshr'[d].blk = mshr[d].blk
                           /\ mshr'[d].way = mshr[d].way /\ mshr'[d].newst = mshr[d].newst
                           /\ mshr'[d].cmd = mshr[d].cmd
                           /\ d # c => mshr'[d] = mshr[d]
  BY <1>1, <1>2 DEF MshrRec
<1>4. mshr[c].blk \in Block /\ mshr[c].cmd \in {"load", "store"}
  BY <1>1, <1>2 DEF L1Shape, MshrRec
<1>5. a \in AcquireMsg
  BY <1>4, PolicyTypes DEF AcquireMsg
<1>6. /\ a.client = c /\ a.blk = mshr[c].blk /\ a.kind = getAcquireType(mshr[c].cmd)
      /\ ~ isBuiltInType(a.kind) /\ a.client \notin Uncached
  BY L2CacheAssumption DEF isBuiltInType, getAcquireType
<1> HIDE DEF a
<1>7. /\ acq' \in Seq(AcquireMsg)
      /\ Len(acq) + 1 \in DOMAIN acq' /\ acq'[Len(acq) + 1] = a
      /\ \A i \in DOMAIN acq : i \in DOMAIN acq' /\ i # Len(acq) + 1 /\ acq'[i] = acq[i]
      /\ \A i \in DOMAIN acq' : i # Len(acq) + 1 => i \in DOMAIN acq
  BY <1>1, <1>2, <1>5, AppendFacts
<1>8. Types(Int)'
  BY <1>1, <1>3, <1>7 DEF Types
<1>9. L1Shape'
  BY <1>1, <1>3 DEF L1Shape
<1>10. WritebackTokens'
  BY <1>1, <1>3 DEF WritebackTokens, VolMsg, AtRt
<1>11. AcquireTokens'
  <2>1. gnt[c] = <<>>
    BY <1>1 DEF WritebackTokens, AcquireTokens
  <2>2. \A i \in DOMAIN acq : acq[i].client # c
    BY <1>1 DEF AcquireTokens, Asks
  <2>3. \A t \in Tracker : ~ AtTracker(c, t)
    BY <1>1 DEF AcquireTokens, Asks
  <2>4. \A d \in Client, t \in Tracker : (AtTracker(d, t)' <=> AtTracker(d, t)) /\ (Granted(d, t)' <=> Granted(d, t))
    BY <1>1 DEF AtTracker, Granted, Busy
  <2>5. AcquireTokens!1'
    BY <1>6, <1>7 DEF AcquireTokens
  <2>6. ASSUME NEW d \in Client, d # c PROVE AcquireTokens!2!(d)'
    BY <1>1, <1>3, <1>6, <1>7, <2>4, <2>6 DEF AcquireTokens, Asks, Granted
  <2>7. AcquireTokens!2!(c)'
    BY <1>1, <1>3, <1>6, <1>7, <2>1, <2>2, <2>3, <2>4 DEF AcquireTokens, Asks, Granted
  <2> QED BY <2>5, <2>6, <2>7 DEF AcquireTokens
<1>12. NoNewCopy /\ DowngradesPending'
  <2>1. \A d \in Client, x \in L1Way : Live(d, x)' => Live(d, x)
    BY <1>1, <1>3 DEF Live
  <2> QED BY <1>1, <2>1, LiveFrames
<1>13. GrantsAlone'
  <2>1. \A d \in Client : mshr'[d].state = "s_meta_write_req" => mshr'[d] = mshr[d]
    BY <1>1, <1>3
  <2> QED BY <1>1, <2>1, GrantsFrame
<1> QED BY <1>1, <1>8, <1>9, <1>10, <1>11, <1>12, <1>13, Frames, CopyFrames

\* A grant reaches the MSHR that waits for it.
LEMMA ReceiveGrantInv ==
  ASSUME IInv, NEW c \in Client, ReceiveGrant(c)
  PROVE  IInv'
<1> USE DEF IInv
<1> DEFINE g == Head(gnt[c])
<1>1. /\ UNCHANGED <<unc, acq, rel, prb, meta, data, trk, rt, wb, mem, latest>>
      /\ gnt[c] # <<>> /\ gnt' = [gnt EXCEPT ![c] = Tail(@)]
  BY DEF ReceiveGrant, l2vars
<1>2. /\ mshr \in [Client -> MshrRec] /\ gnt \in [Client -> Seq(GrantMsg)]
      /\ l1 \in [Client -> [L1Way -> L1Rec]] /\ fq \in [Client -> Tracker \cup {NoTracker}]
      /\ mshr[c].way \in L1Way
  BY TypeFacts DEF Types
<1>3. Len(gnt[c]) = 1
  BY <1>1 DEF WritebackTokens
<1>4. /\ gnt' \in [Client -> Seq(GrantMsg)] /\ gnt'[c] = <<>> /\ g \in GrantMsg
      /\ \A d \in Client : d # c => gnt'[d] = gnt[d]
  <2>1. gnt[c] \in Seq(GrantMsg)
    BY <1>2
  <2>2. Tail(gnt[c]) = <<>> /\ Tail(gnt[c]) \in Seq(GrantMsg) /\ g \in GrantMsg
    BY <1>1, <1>3, <2>1, TailOfOne
  <2> QED BY <1>1, <1>2, <2>2
<1>5. /\ \A i \in DOMAIN rel : ~ VolMsg(c, i)
      /\ \A t \in Tracker : trk[t].vol # c
      /\ wb.vol # c /\ ~ AtRt(c)
  BY <1>1 DEF WritebackTokens
<1>6. /\ \A i \in DOMAIN acq : acq[i].client # c
      /\ \A t \in Tracker : ~ AtTracker(c, t)
  BY <1>1 DEF AcquireTokens
<1>7. /\ \A d \in Client, t \in Tracker : (AtTracker(d, t)' <=> AtTracker(d, t)) /\ (Granted(d, t)' <=> Granted(d, t))
      /\ \A d \in Client : AtRt(d)' <=> AtRt(d)
      /\ \A d \in Client : \A i \in DOMAIN rel : VolMsg(d, i)' <=> VolMsg(d, i)
  BY <1>1 DEF AtTracker, Granted, Busy, AtRt, VolMsg
<1>8. CASE /\ mshr[c].state = "s_wb_resp"
           /\ mshr' = [mshr EXCEPT ![c].state = "s_meta_clear"]
           /\ UNCHANGED <<l1, fq>>
  <2>1. /\ mshr' \in [Client -> MshrRec]
        /\ mshr'[c].state = "s_meta_clear"
        /\ \A d \in Client : /\ mshr'[d].blk = mshr[d].blk
                             /\ mshr'[d].way = mshr[d].way /\ mshr'[d].newst = mshr[d].newst
                             /\ mshr'[d].cmd = mshr[d].cmd
                             /\ d # c => mshr'[d] = mshr[d]
    BY <1>8, <1>2 DEF MshrRec
  <2>2. Types(Int)'
    BY <1>1, <1>4, <1>8, <2>1 DEF Types
  <2>3. L1Shape'
    BY <1>8, <2>1 DEF L1Shape
  <2>4. WritebackTokens'
    BY <1>1, <1>4, <1>5, <1>7, <1>8, <2>1 DEF WritebackTokens
  <2>5. AcquireTokens'
    <3> ASSUME NEW d \in Client PROVE AcquireTokens!2!(d)'
      <4>1. CASE d = c
        BY <4>1, <1>1, <1>4, <1>6, <1>7, <1>8, <2>1 DEF AcquireTokens, Granted
      <4>2. CASE d # c
        BY <4>2, <1>1, <1>4, <1>7, <1>8, <2>1 DEF AcquireTokens, Asks, Granted
      <4> QED BY <4>1, <4>2
    <3> QED BY <1>1 DEF AcquireTokens
  <2>6. NoNewCopy /\ DowngradesPending'
    <3>1. \A d \in Client, x \in L1Way : Live(d, x)' => Live(d, x)
      BY <1>8, <2>1 DEF Live
    <3> QED BY <1>1, <1>8, <3>1, LiveFrames
  <2>7. GrantsAlone'
    <3>1. GrantsAlone!(c)'
      BY <1>4, <2>1 DEF GrantsAlone
    <3>2. ASSUME NEW d \in Client, d # c PROVE GrantsAlone!(d)'
      <4>1. gnt'[d] = gnt[d] /\ trk' = trk /\ mshr'[d] = mshr[d] /\ fq' = fq /\ l1' = l1
        BY <1>1, <1>4, <1>8, <2>1, <3>2
      <4> QED BY <4>1 DEF GrantsAlone
    <3> QED BY <3>1, <3>2 DEF GrantsAlone
  <2> QED BY <1>1, <2>2, <2>3, <2>4, <2>5, <2>6, <2>7, Frames, CopyFrames
<1>9. CASE /\ mshr[c].state = "s_refill_resp"
           /\ mshr' = [mshr EXCEPT ![c].state = "s_meta_write_req",
                                   ![c].newst = clientMetadataOnGrant(g.gtype, mshr[c].cmd)]
           /\ l1' = [l1 EXCEPT ![c][mshr[c].way].data = g.data]
           /\ fq' = [fq EXCEPT ![c] = g.trk]
  <2>1. g.gtype # "voluntaryAck"
    BY <1>1, <1>9 DEF WritebackTokens
  <2>2. /\ g.trk \in Tracker /\ g.data \in Value \cup {NoValue}
        /\ g.gtype \in {"grantShared", "grantExclusive"}
    BY <1>4, <2>1 DEF GrantMsg
  <2>3. Granted(c, g.trk) /\ trk[g.trk].blk = mshr[c].blk
    BY <1>1, <2>1 DEF AcquireTokens
  <2>4. /\ c \in trk[g.trk].coh.sharers
        /\ g.gtype = "grantExclusive" => trk[g.trk].coh.sharers \subseteq {c}
    BY <1>1, <2>1 DEF GrantsAlone
  <2>5. clientMetadataOnGrant(g.gtype, mshr[c].cmd) \in {"S", "E", "M"}
    BY DEF clientMetadataOnGrant
  <2> HIDE DEF g
  <2>6. /\ mshr' \in [Client -> MshrRec]
        /\ mshr'[c].state = "s_meta_write_req"
        /\ mshr'[c].newst = clientMetadataOnGrant(g.gtype, mshr[c].cmd)
        /\ \A d \in Client : /\ mshr'[d].blk = mshr[d].blk
                             /\ mshr'[d].way = mshr[d].way /\ mshr'[d].cmd = mshr[d].cmd
                             /\ d # c => mshr'[d] = mshr[d]
    BY <1>9, <1>2, <2>5 DEF MshrRec, ClientState
  <2>7. /\ fq' \in [Client -> Tracker \cup {NoTracker}] /\ fq'[c] = g.trk
        /\ \A d \in Client : d # c => fq'[d] = fq[d]
    BY <1>2, <1>9, <2>2
  <2>8. /\ l1' \in [Client -> [L1Way -> L1Rec]]
        /\ \A d \in Client, x \in L1Way :
             l1'[d][x].tag = l1[d][x].tag /\ l1'[d][x].st = l1[d][x].st
    <3> DEFINE e == [l1[c][mshr[c].way] EXCEPT !.data = g.data]
    <3>1. l1[c][mshr[c].way] \in L1Rec
      BY <1>2
    <3>2. e \in L1Rec /\ e.tag = l1[c][mshr[c].way].tag /\ e.st = l1[c][mshr[c].way].st
      BY <3>1, <2>2 DEF L1Rec
    <3>3. l1' = [l1 EXCEPT ![c][mshr[c].way] = e]
      BY <1>9, <1>2
    <3> HIDE DEF e
    <3>4. /\ l1' \in [Client -> [L1Way -> L1Rec]]
          /\ l1'[c][mshr[c].way] = e
          /\ \A x \in L1Way : x # mshr[c].way => l1'[c][x] = l1[c][x]
          /\ \A d \in Client : d # c => l1'[d] = l1[d]
      BY <1>2, <3>2, <3>3, L1Update
    <3> QED BY <3>2, <3>4
  <2>9. Types(Int)'
    BY <1>1, <1>4, <2>6, <2>7, <2>8 DEF Types
  <2>10. \A d \in Client : mshr[d].way \in L1Way
    BY TypeFacts
  <2>11. L1Shape'
    BY <1>9, <2>6, <2>8, <2>10, SMTT(30) DEF L1Shape
  <2>12. WritebackTokens'
    BY <1>1, <1>4, <1>5, <1>7, <1>9, <2>6, <2>8, <2>10 DEF WritebackTokens
  <2>13. AcquireTokens'
    <3> ASSUME NEW d \in Client PROVE AcquireTokens!2!(d)'
      <4>1. CASE d = c
        BY <4>1, <1>1, <1>4, <1>6, <1>7, <1>9, <2>2, <2>3, <2>6, <2>7, L2CacheAssumption DEF AcquireTokens
      <4>2. CASE d # c
        BY <4>2, <1>1, <1>4, <1>7, <2>6, <2>7 DEF AcquireTokens, Asks, Granted
      <4> QED BY <4>1, <4>2
    <3> QED BY <1>1 DEF AcquireTokens
  <2>14. NoNewCopy /\ DowngradesPending'
    <3>1. \A d \in Client, x \in L1Way : Live(d, x)' => Live(d, x)
      BY <1>9, <2>6, <2>8 DEF Live
    <3> QED BY <1>1, <2>8, <3>1, LiveFrames
  <2>15. GrantsAlone'
    <3>1. GrantsAlone!(c)'
      <4>1. fq'[c] # NoTracker
        BY <2>2, <2>7, L2CacheAssumption
      <4>2. mshr'[c].newst # "S" => g.gtype = "grantExclusive"
        BY <2>2, <2>6 DEF clientMetadataOnGrant
      <4> QED BY <1>1, <1>4, <2>3, <2>4, <2>5, <2>6, <2>7, <4>1, <4>2 DEF GrantsAlone
    <3>2. ASSUME NEW d \in Client, d # c PROVE GrantsAlone!(d)'
      <4>1. gnt'[d] = gnt[d] /\ trk' = trk /\ mshr'[d] = mshr[d] /\ fq'[d] = fq[d]
        BY <1>1, <1>4, <2>6, <2>7, <3>2
      <4>2. l1'[d][mshr[d].way].st = l1[d][mshr[d].way].st
        BY <2>8, <2>10
      <4> QED BY <4>1, <4>2 DEF GrantsAlone
    <3> QED BY <3>1, <3>2 DEF GrantsAlone
  <2> QED BY <1>1, <2>9, <2>11, <2>12, <2>13, <2>14, <2>15, Frames, CopyFrames
<1> QED BY <1>8, <1>9 DEF ReceiveGrant

\* The copy that a replay installs is in the directory entry of the tracker that granted it.
LEMMA ReplayInv ==
  ASSUME IInv, NEW c \in Client, NEW v \in Value, Replay(c, v)
  PROVE  IInv'
<1> USE DEF IInv
<1> DEFINE m == mshr[c]
           e == [tag |-> m.blk, st |-> m.newst,
                 data |-> IF m.cmd = "store" THEN v ELSE l1[c][m.way].data]
<1>1. /\ UNCHANGED <<fq, unc, acq, rel, prb, gnt, meta, data, trk, rt, wb, mem>>
      /\ mshr' = [mshr EXCEPT ![c] = NoMshr] /\ m.state = "s_meta_write_req"
      /\ latest' = IF m.cmd = "store" THEN [latest EXCEPT ![m.blk] = v] ELSE latest
  BY DEF Replay, l2vars
<1>2. /\ mshr \in [Client -> MshrRec] /\ l1 \in [Client -> [L1Way -> L1Rec]]
      /\ m.way \in L1Way /\ m.blk \in Block /\ latest \in [Block -> Value]
      /\ m.newst \in ClientState /\ l1[c][m.way] \in L1Rec
  BY <1>1, TypeFacts DEF Types, L1Shape, MshrRec
<1>3. e \in L1Rec /\ e.tag = m.blk /\ e.st = m.newst
  BY <1>2 DEF L1Rec
<1>b. PICK blk \in Block : blk = m.blk
  BY <1>2
<1>4. l1' = [l1 EXCEPT ![c][m.way] = e]
  BY <1>2 DEF Replay
<1> HIDE DEF e
<1>5. /\ l1' \in [Client -> [L1Way -> L1Rec]]
      /\ l1'[c][m.way] = e
      /\ \A x \in L1Way : x # m.way => l1'[c][x] = l1[c][x]
      /\ \A d \in Client : d # c => l1'[d] = l1[d]
  BY <1>2, <1>3, <1>4, L1Update
<1>6. /\ mshr' \in [Client -> MshrRec] /\ mshr'[c].state = "s_invalid"
      /\ \A d \in Client : d # c => mshr'[d] = mshr[d]
  BY <1>1, <1>2, IdleTypes DEF NoMshr
<1>7. latest' \in [Block -> Value]
  BY <1>1, <1>2
<1>8. Types(Int)'
  BY <1>1, <1>5, <1>6, <1>7 DEF Types
<1>9. L1Shape'
  <2>1. ASSUME NEW d \in Client, d # c PROVE L1Shape!(d)'
    BY <1>5, <1>6, <2>1 DEF L1Shape
  <2>2. L1Shape!(c)'
    <3>1. \A w, x \in L1Way : /\ l1'[c][w].tag = l1'[c][x].tag
                              /\ l1'[c][w].st # "I" /\ l1'[c][x].st # "I"
                              => w = x
      BY <1>1, <1>2, <1>3, <1>5 DEF L1Shape
    <3> QED BY <1>1, <1>2, <1>3, <1>5, <1>6, <3>1 DEF L1Shape
  <2> QED BY <2>1, <2>2 DEF L1Shape
<1>10. WritebackTokens'
  BY <1>1, <1>5, <1>6 DEF WritebackTokens, VolMsg, AtRt
<1>11. AcquireTokens'
  BY <1>1, <1>6 DEF AcquireTokens, Asks, AtTracker, Granted, Busy
<1>12. GrantsAlone'
  BY <1>1, <1>5, <1>6, GrantsFrame
<1>13. /\ \A x \in L1Way : Live(c, x) <=> l1[c][x].st # "I"
       /\ \A x \in L1Way : x # m.way => (Live(c, x)' <=> Live(c, x))
       /\ \A d \in Client, x \in L1Way : d # c => (Live(d, x)' <=> Live(d, x))
       /\ \A d \in Client : \A i \in DOMAIN rel : VolMsg(d, i)' <=> VolMsg(d, i)
  BY <1>1, <1>5, <1>6 DEF Live, VolMsg
<1>14. \A d \in Client, b \in Block : Entitled(d, b)' => Entitled(d, b) \/ (d = c /\ b = blk)
  <2> SUFFICES ASSUME NEW d \in Client, NEW b \in Block, Entitled(d, b)', ~ (d = c /\ b = blk)
               PROVE  Entitled(d, b)
    OBVIOUS
  <2>1. CASE Holds(d, b)'
    <3>1. PICK x \in L1Way : Live(d, x)' /\ l1'[d][x].tag = b
      BY <2>1 DEF Holds
    <3>2. d # c \/ x # m.way
      BY <1>3, <1>5, <1>b, <3>1
    <3> QED BY <1>5, <1>13, <3>1, <3>2 DEF Entitled, Holds
  <2>2. CASE ~ Holds(d, b)'
    BY <1>1, <1>13, <2>2 DEF Entitled
  <2> QED BY <2>1, <2>2
<1>15. /\ \A d \in Client, b \in Block : Owns(d, b)' => Owns(d, b) \/ (d = c /\ b = blk)
       /\ m.newst = "S" => \A d \in Client, b \in Block : Owns(d, b)' => Owns(d, b)
  <2> SUFFICES ASSUME NEW d \in Client, NEW b \in Block, Owns(d, b)',
                      m.newst # "S" => ~ (d = c /\ b = blk)
               PROVE  Owns(d, b)
    OBVIOUS
  <2>1. ASSUME NEW x \in L1Way, Live(d, x)', l1'[d][x].tag = b, l1'[d][x].st # "S" PROVE Owns(d, b)
    <3>1. d # c \/ x # m.way
      BY <1>3, <1>5, <1>b, <2>1
    <3> QED BY <1>5, <1>13, <2>1, <3>1 DEF Owns
  <2>2. ASSUME NEW i \in DOMAIN rel, VolMsg(d, i), rel[i].blk = b PROVE Owns(d, b)
    BY <2>2 DEF Owns
  <2> QED BY <1>1, <1>13, <2>1, <2>2 DEF Owns
<1>16. CASE l1[c][m.way].st = "E" /\ m.newst = "M"
  <2>1. l1[c][m.way].tag = blk /\ Live(c, m.way)
    BY <1>1, <1>2, <1>13, <1>16, <1>b DEF L1Shape
  <2>2. Entitled(c, blk) /\ Owns(c, blk)
    BY <1>2, <1>16, <2>1 DEF Entitled, Holds, Owns
  <2>3. NoNewCopy
    BY <1>14, <1>15, <2>2 DEF NoNewCopy
  <2>4. DowngradesPending'
    <3>1. \A u \in Tracker : trk[u].state = "s_inner_probe" => trk[u].blk \in Block
      BY DEF TrackerShape, Busy
    <3> QED BY <1>1, <2>3, <3>1 DEF DowngradesPending, Probed, NoNewCopy
  <2> QED BY <1>1, <1>8, <1>9, <1>10, <1>11, <1>12, <2>3, <2>4, Frames, CopyFrames
<1>17. CASE ~ (l1[c][m.way].st = "E" /\ m.newst = "M")
  <2>t. PICK t \in Tracker : t = fq[c]
    <3>1. fq[c] # NoTracker
      BY <1>1, <1>17 DEF GrantsAlone
    <3> QED BY <3>1 DEF Types
  <2>1. /\ t # NoTracker /\ trk[t].blk = blk /\ c \in trk[t].coh.sharers
        /\ m.newst # "S" => trk[t].coh.sharers \subseteq {c}
    BY <1>1, <1>17, <1>b, <2>t DEF GrantsAlone
  <2>2. trk[t].state = "s_busy" /\ trk[t].gnt = "sent" /\ Busy(t)
    BY <2>1, <2>t DEF AcquireTokens, Granted, Busy
  <2>3. \A u \in Tracker : Busy(u) /\ trk[u].blk = blk => u = t
    BY <2>1, <2>2, OneUnit
  <2>4. ~ (wb.state # "s_idle" /\ wb.blk = blk)
    BY <2>1, <2>2, OneUnit DEF WbShape
  <2>5. \A u \in Tracker : trk[u].state \notin {"s_idle", "s_meta_read"} /\ meta[trk[u].line].tag = blk
          => u = t
    BY <2>1, <2>2, OneUnit
  <2>6. ~ (rt.state # "s_idle" /\ rt.rel.blk = blk)
    BY <2>1, <2>2 DEF RtShape
  <2>7. Listed'
    <3>1. \A d \in Client, b \in Block : Entitled(d, b)' /\ Entitled(d, b) => Lists(d, b)'
      BY <1>1 DEF Listed, Lists, Serving
    <3>2. Lists(c, blk)'
      BY <1>1, <2>1, <2>2, <2>3, <2>4, <2>5, <2>6 DEF Serving, Busy, Lists
    <3> QED BY <1>14, <3>1, <3>2 DEF Listed
  <2>8. SharedInDirectory'
    <3>1. \A b : Serving(t, b)' <=> b = blk
      BY <1>1, <2>1, <2>2 DEF Serving
    <3> QED BY <1>1, <1>15, <2>2, <3>1, TypeFacts, ZenonT(30) DEF SharedInDirectory, AllShared, Serving, Two
  <2>9. SharedInTracker'
    <3> SUFFICES ASSUME NEW u \in Tracker, trk[u].state \in {"s_busy", "s_meta_write"}
                 PROVE  SharedInTracker!(u)!2'
      BY <1>1 DEF SharedInTracker
    <3>1. Busy(u) /\ trk[u].blk \in Block
      BY DEF TrackerShape, Busy
    <3>2. CASE u # t
      BY <1>1, <1>15, <2>3, <3>1, <3>2 DEF SharedInTracker, AllShared, Two
    <3>3. CASE u = t
      <4>1. m.newst = "S" /\ AllShared(blk) => AllShared(blk)'
        BY <1>3, <1>15, <1>b DEF AllShared
      <4>2. Two(trk[t].coh.sharers) => m.newst = "S"
        BY <2>1 DEF Two
      <4>3. Two(trk[t].coh.sharers) => AllShared(blk)'
        BY <2>1, <2>2, <4>1, <4>2 DEF SharedInTracker
      <4> QED BY <1>1, <2>1, <2>2, <3>3, <4>3 DEF Two
    <3> QED BY <3>2, <3>3
  <2>10. DowngradesPending'
    <3>1. \A u \in Tracker : trk[u].state = "s_inner_probe" => trk[u].blk # blk /\ trk[u].blk \in Block
      BY <2>2, <2>3 DEF TrackerShape, Busy
    <3> QED BY <1>1, <1>15, <3>1 DEF DowngradesPending, Probed
  <2>11. AnswerersOut'
    <3>1. \A i \in DOMAIN rel : ~ rel[i].voluntary => rel[i].blk # blk
      BY <2>2, <2>3, <2>4 DEF ProbesMatched, Prober, Busy
    <3> QED BY <1>1, <1>14, <3>1, TypeFacts DEF AnswerersOut
  <2> QED BY <1>1, <1>8, <1>9, <1>10, <1>11, <1>12, <2>7, <2>8, <2>9, <2>10, <2>11, Frames
<1> QED BY <1>16, <1>17

\* A finish goes to the tracker that sent the grant.
LEMMA SendFinishInv ==
  ASSUME IInv, NEW c \in Client, SendFinish(c)
  PROVE  IInv'
<1> USE DEF IInv
<1>1. /\ UNCHANGED <<l1, mshr, unc, acq, rel, prb, gnt, meta, data, rt, wb, mem, latest>>
      /\ fq' = [fq EXCEPT ![c] = NoTracker] /\ trk' = [trk EXCEPT ![fq[c]].gnt = "finished"]
      /\ mshr[c].state \in {"s_invalid", "s_refill_req"} /\ fq[c] # NoTracker
  BY DEF SendFinish
<1>2. PICK t \in Tracker : t = fq[c]
  BY <1>1 DEF Types
<1>3. trk[t].state = "s_busy" /\ trk[t].client = c /\ trk[t].gnt = "sent"
  BY <1>1, <1>2 DEF AcquireTokens, Granted
<1>4. /\ fq' \in [Client -> Tracker \cup {NoTracker}] /\ fq'[c] = NoTracker
      /\ \A d \in Client : d # c => fq'[d] = fq[d]
  BY <1>1 DEF Types
<1>5. trk \in [Tracker -> TrackerRec(Int)]
  BY DEF Types
<1>6. /\ trk' \in [Tracker -> TrackerRec(Int)]
      /\ trk'[t].gnt = "finished"
      /\ \A u \in Tracker : u # t => trk'[u] = trk[u]
      /\ \A u \in Tracker : /\ trk'[u].state = trk[u].state /\ trk'[u].client = trk[u].client
                            /\ trk'[u].blk = trk[u].blk /\ trk'[u].kind = trk[u].kind
                            /\ trk'[u].line = trk[u].line /\ trk'[u].victim = trk[u].victim
                            /\ trk'[u].old = trk[u].old /\ trk'[u].coh = trk[u].coh
                            /\ trk'[u].meta_write = trk[u].meta_write
                            /\ trk'[u].iprbs = trk[u].iprbs /\ trk'[u].irels = trk[u].irels
                            /\ trk'[u].vol = trk[u].vol
  BY <1>1, <1>2, <1>5 DEF TrackerRec
<1>7. Types(Int)'
  BY <1>1, <1>4, <1>6 DEF Types
<1>8. \A u \in Tracker : Busy(u)' <=> Busy(u)
  BY <1>6 DEF Busy
<1>9. SetsApart'
  BY <1>6, <1>8 DEF SetsApart
<1>10. ASSUME NEW u \in Tracker PROVE TrackerShape(u)'
  <2>1. CASE u # t
    BY <1>1, <1>6, <2>1, TrackerFrame
  <2>2. CASE u = t
    BY <1>1, <1>3, <1>6, <2>2, SMTT(30) DEF TrackerShape, Busy, Resident
  <2> QED BY <2>1, <2>2
<1>11. RtShape'
  BY <1>1, <1>6, <1>8 DEF RtShape, Resident
<1>12. WbShape'
  BY <1>1, <1>6 DEF WbShape
<1>13. WritebackTokens'
  BY <1>1, <1>6 DEF WritebackTokens, VolMsg, AtRt
<1>14. AcquireTokens'
  <2>1. \A d \in Client, u \in Tracker : AtTracker(d, u)' => AtTracker(d, u)
    BY <1>3, <1>6, <1>8 DEF AtTracker
  <2>2. \A d \in Client, u \in Tracker : d # c /\ Granted(d, u) => Granted(d, u)'
    BY <1>3, <1>6 DEF Granted
  <2>3. ASSUME NEW d \in Client PROVE AcquireTokens!2!(d)'
    <3>1. \A i \in DOMAIN acq : acq[i].client = d => AcquireTokens!2!(d)!1!(i)!2'
      BY <1>1, <2>1 DEF AcquireTokens, Asks
    <3>2. \A u \in Tracker : AtTracker(d, u)' => AcquireTokens!2!(d)!2!(u)!2'
      BY <1>1, <1>6, <2>1 DEF AcquireTokens, Asks
    <3>3. gnt[d] # <<>> /\ Head(gnt[d]).gtype # "voluntaryAck" =>
            /\ d # c /\ Head(gnt[d]).trk \in Tracker
            /\ mshr[d].state = "s_refill_resp"
            /\ Granted(d, Head(gnt[d]).trk) /\ trk[Head(gnt[d]).trk].blk = mshr[d].blk
      <4>1. gnt[d] # <<>> => Head(gnt[d]) \in GrantMsg
        BY TypeFacts, TailFacts
      <4> QED BY <1>1, <4>1 DEF AcquireTokens, GrantMsg
    <3>4. gnt[d] # <<>> /\ Head(gnt[d]).gtype # "voluntaryAck" => AcquireTokens!2!(d)!3!2'
      BY <1>1, <1>6, <2>2, <3>3
    <3>5. fq'[d] # NoTracker => d # c /\ fq[d] \in Tracker /\ Granted(d, fq[d])
      BY <1>4 DEF AcquireTokens, Types
    <3>6. fq'[d] # NoTracker => Granted(d, fq[d])'
      BY <1>4, <2>2, <3>5
    <3> QED BY <1>1, <1>4, <3>1, <3>2, <3>4, <3>6 DEF AcquireTokens
  <2> QED BY <1>1, <2>3 DEF AcquireTokens
<1>15. ProbesMatched'
  BY <1>1, <1>6 DEF ProbesMatched, Prober, Answered, AnsMsg
<1>16. \A b : Out(b)' = Out(b)
  BY <1>1 DEF Out, Probed, Answered, AnsMsg
<1>17. ProbesCounted'
  BY <1>1, <1>6, <1>16 DEF ProbesCounted
<1>18. \A d \in Client, b \in Block : Entitled(d, b)' <=> Entitled(d, b)
  BY <1>1 DEF Entitled, Holds, Live, VolMsg
<1>19. \A u \in Tracker : \A b : Serving(u, b)' <=> Serving(u, b)
  BY <1>6 DEF Serving
<1>20. Listed'
  BY <1>1, <1>6, <1>18, <1>19 DEF Listed, Lists
<1>21. SharersProbed'
  BY <1>1, <1>6, <1>16 DEF SharersProbed
<1>22. AnswerersOut'
  BY <1>1, <1>18, TypeFacts DEF AnswerersOut
<1>23. \A b : (AllShared(b)' <=> AllShared(b)) /\ \A d : Owns(d, b)' <=> Owns(d, b)
  BY <1>1 DEF AllShared, Owns, VolMsg, Live
<1>24. SharedInDirectory'
  BY <1>1, <1>6, <1>19, <1>23 DEF SharedInDirectory, Two
<1>25. SharedInTracker'
  BY <1>1, <1>6, <1>23 DEF SharedInTracker, Two
<1>26. DowngradesPending'
  <2>1. \A d, b : Probed(d, b)' <=> Probed(d, b)
    BY <1>1 DEF Probed
  <2> QED BY <1>6, <1>23, <2>1 DEF DowngradesPending
<1>27. GrantsAlone'
  <2>1. ASSUME NEW d \in Client PROVE GrantsAlone!(d)'
    <3>1. gnt[d] # <<>> => Head(gnt[d]) \in GrantMsg
      BY TypeFacts, TailFacts
    <3>2. gnt[d] # <<>> /\ Head(gnt[d]).gtype # "voluntaryAck" => Head(gnt[d]).trk \in Tracker
      BY <3>1 DEF GrantMsg
    <3>3. GrantsAlone!(d)!1'
      BY <1>1, <1>6, <3>2 DEF GrantsAlone
    <3>4. mshr[d].state = "s_meta_write_req" => d # c /\ fq'[d] = fq[d] /\ (fq[d] # NoTracker => fq[d] \in Tracker)
      BY <1>1, <1>4 DEF Types
    <3>5. GrantsAlone!(d)!2'
      BY <1>1, <1>6, <3>4 DEF GrantsAlone
    <3> QED BY <3>3, <3>5
  <2> QED BY <2>1 DEF GrantsAlone
<1> QED BY <1>1, <1>7, <1>9, <1>10, <1>11, <1>12, <1>13, <1>14, <1>15, <1>17, <1>20, <1>21,
           <1>22, <1>24, <1>25, <1>26, <1>27, Frames

\* The answer to a probe takes its place; the copy has gone or is shared when it must.
LEMMA ReceiveProbeInv ==
  ASSUME IInv, NEW c \in Client, ReceiveProbe(c)
  PROVE  IInv'
<1> USE DEF IInv
<1>1. /\ UNCHANGED <<mshr, fq, unc, acq, gnt, meta, data, trk, rt, wb, mem, latest>>
      /\ prb[c] # <<>> /\ prb' = [prb EXCEPT ![c] = Tail(@)]
      /\ mshr[c].state \notin {"s_wb_req", "s_wb_resp", "s_meta_clear", "s_meta_write_req"}
  BY DEF ReceiveProbe, l2vars, probe_rdy
<1>2. /\ prb \in [Client -> Seq(ProbeMsg)] /\ rel \in Seq(ReleaseMsg)
      /\ l1 \in [Client -> [L1Way -> L1Rec]]
  BY DEF Types
<1>3. PICK p \in ProbeMsg : p = Head(prb[c])
  BY <1>1, <1>2, TailFacts
<1>4. p.blk \in Block /\ p.ptype \in ProbeType
  BY DEF ProbeMsg
<1>5. PICK r \in ReleaseMsg :
        /\ rel' = Append(rel, r) /\ r.client = c /\ r.blk = p.blk /\ ~ r.voluntary
        /\ r.ptype = p.ptype
        /\ \/ tag_match_way(c, p.blk) = {} /\ l1' = l1
           \/ \E w \in tag_match_way(c, p.blk) :
                l1' = [l1 EXCEPT ![c][w].st = clientMetadataOnProbe(p.ptype, @)]
  <2> DEFINE R(d) == [client |-> c, blk |-> p.blk, voluntary |-> FALSE, ptype |-> p.ptype, data |-> d]
  <2>1. \A d \in Value \cup {NoValue} :
          /\ R(d) \in ReleaseMsg /\ R(d).client = c /\ R(d).blk = p.blk /\ ~ R(d).voluntary
          /\ R(d).ptype = p.ptype
    BY <1>4 DEF ReleaseMsg
  <2>2. \E d \in Value \cup {NoValue} :
          /\ rel' = Append(rel, R(d))
          /\ \/ tag_match_way(c, p.blk) = {} /\ l1' = l1
             \/ \E w \in tag_match_way(c, p.blk) :
                  l1' = [l1 EXCEPT ![c][w].st = clientMetadataOnProbe(p.ptype, @)]
    <3>1. \A w \in tag_match_way(c, p.blk) :
            (IF l1[c][w].st = "M" THEN l1[c][w].data ELSE NoValue) \in Value \cup {NoValue}
      BY <1>2 DEF tag_match_way, L1Rec
    <3>2. CASE tag_match_way(c, p.blk) = {} /\ rel' = Append(rel, R(NoValue)) /\ l1' = l1
      BY <3>2
    <3>3. CASE \E w \in tag_match_way(c, p.blk) :
                 /\ rel' = Append(rel, R(IF l1[c][w].st = "M" THEN l1[c][w].data ELSE NoValue))
                 /\ l1' = [l1 EXCEPT ![c][w].st = clientMetadataOnProbe(p.ptype, @)]
      BY <3>1, <3>3
    <3> QED BY <1>3, <3>2, <3>3 DEF ReceiveProbe
  <2> HIDE DEF R
  <2> QED BY <2>1, <2>2
<1>6. /\ l1' \in [Client -> [L1Way -> L1Rec]]
      /\ \A d \in Client, x \in L1Way :
           /\ l1'[d][x].tag = l1[d][x].tag
           /\ l1'[d][x].st = l1[d][x].st \/ l1'[d][x].st = "I" \/ l1'[d][x].st = "S"
           /\ l1'[d][x].st # "I" => l1[d][x].st # "I"
           /\ l1[d][x].st = "S" => l1'[d][x].st \in {"S", "I"}
      /\ \A d \in Client : d # c => l1'[d] = l1[d]
      /\ \A x \in L1Way : l1'[c][x].tag = p.blk /\ l1'[c][x].st # "I" =>
           /\ p.ptype # "probeInvalidate"
           /\ p.ptype = "probeDowngrade" => l1'[c][x].st = "S"
  <2>1. CASE tag_match_way(c, p.blk) = {} /\ l1' = l1
    BY <1>2, <2>1 DEF tag_match_way
  <2>2. CASE \E w \in tag_match_way(c, p.blk) :
               l1' = [l1 EXCEPT ![c][w].st = clientMetadataOnProbe(p.ptype, @)]
    <3>0. PICK w \in tag_match_way(c, p.blk) :
            l1' = [l1 EXCEPT ![c][w].st = clientMetadataOnProbe(p.ptype, @)]
      BY <2>2
    <3> DEFINE e == [l1[c][w] EXCEPT !.st = clientMetadataOnProbe(p.ptype, @)]
    <3>1. w \in L1Way /\ l1[c][w] \in L1Rec /\ l1[c][w].tag = p.blk /\ l1[c][w].st # "I"
      BY <1>2 DEF tag_match_way
    <3>2. /\ clientMetadataOnProbe(p.ptype, l1[c][w].st) \in ClientState
          /\ p.ptype = "probeInvalidate" => clientMetadataOnProbe(p.ptype, l1[c][w].st) = "I"
          /\ p.ptype = "probeDowngrade" => clientMetadataOnProbe(p.ptype, l1[c][w].st) = "S"
          /\ p.ptype = "probeCopy" => clientMetadataOnProbe(p.ptype, l1[c][w].st) = l1[c][w].st
      BY <1>4, <3>1 DEF clientMetadataOnProbe, ClientState, L1Rec, ProbeType
    <3>3. e \in L1Rec /\ e.tag = p.blk /\ e.st = clientMetadataOnProbe(p.ptype, l1[c][w].st)
      BY <3>1, <3>2 DEF L1Rec
    <3>4. l1' = [l1 EXCEPT ![c][w] = e]
      BY <1>2, <3>0, <3>1
    <3> HIDE DEF e
    <3>5. /\ l1' \in [Client -> [L1Way -> L1Rec]]
          /\ l1'[c][w] = e
          /\ \A x \in L1Way : x # w => l1'[c][x] = l1[c][x]
          /\ \A d \in Client : d # c => l1'[d] = l1[d]
      BY <1>2, <3>1, <3>3, <3>4, L1Update
    <3>6. \A x \in L1Way : l1'[c][x].tag = p.blk /\ l1'[c][x].st # "I" => x = w
      BY <3>1, <3>3, <3>5 DEF L1Shape
    <3>7. /\ p.ptype \in {"probeInvalidate", "probeDowngrade", "probeCopy"}
          /\ e.st = "I" => p.ptype # "probeDowngrade"
      BY <1>4, <3>2, <3>3 DEF ProbeType
    <3> QED BY <3>1, <3>2, <3>3, <3>5, <3>6, <3>7
  <2> QED BY <1>5, <2>1, <2>2
<1>7. /\ rel' \in Seq(ReleaseMsg)
      /\ Len(rel) + 1 \in DOMAIN rel' /\ rel'[Len(rel) + 1] = r
      /\ \A i \in DOMAIN rel : i \in DOMAIN rel' /\ i # Len(rel) + 1 /\ rel'[i] = rel[i]
      /\ \A i \in DOMAIN rel' : i # Len(rel) + 1 => i \in DOMAIN rel
  BY <1>2, <1>5, AppendFacts
<1>8. /\ prb' \in [Client -> Seq(ProbeMsg)] /\ prb[c][1] = p /\ 1 \in DOMAIN prb[c]
      /\ \A d \in Client : d # c => prb'[d] = prb[d]
      /\ \A i \in DOMAIN prb'[c] : i \in Nat /\ i + 1 \in DOMAIN prb[c] /\ prb'[c][i] = prb[c][i + 1]
      /\ \A i \in DOMAIN prb[c] : i # 1 => i - 1 \in DOMAIN prb'[c] /\ prb'[c][i - 1] = prb[c][i]
  <2>1. prb[c] \in Seq(ProbeMsg)
    BY <1>2
  <2>2. prb'[c] = Tail(prb[c]) /\ \A d \in Client : d # c => prb'[d] = prb[d]
    BY <1>1, <1>2
  <2>3. Tail(prb[c]) \in Seq(ProbeMsg) /\ Head(prb[c]) = prb[c][1] /\ 1 \in DOMAIN prb[c]
    BY <1>1, <2>1, TailFacts
  <2>4. prb' \in [Client -> Seq(ProbeMsg)]
    BY <1>1, <1>2, <2>3
  <2>5. /\ \A i \in DOMAIN Tail(prb[c]) : i \in Nat /\ i + 1 \in DOMAIN prb[c] /\ Tail(prb[c])[i] = prb[c][i + 1]
        /\ \A i \in DOMAIN prb[c] : i # 1 => i - 1 \in DOMAIN Tail(prb[c]) /\ Tail(prb[c])[i - 1] = prb[c][i]
    BY <1>1, <2>1, TailFacts
  <2> QED BY <1>3, <2>2, <2>3, <2>4, <2>5
<1>9. Types(Int)'
  BY <1>1, <1>6, <1>7, <1>8 DEF Types
<1>10. L1Shape'
  <2>1. \A d \in Client : mshr[d].way \in L1Way /\ mshr'[d] = mshr[d]
    BY <1>1, TypeFacts
  <2>2. ASSUME NEW d \in Client, d # c PROVE L1Shape!(d)'
    BY <1>6, <2>1, <2>2, L2CacheAssumption DEF L1Shape
  <2>3. L1Shape!(c)'
    <3>1. \A w, x \in L1Way : /\ l1'[c][w].tag = l1'[c][x].tag
                              /\ l1'[c][w].st # "I" /\ l1'[c][x].st # "I"
                              => w = x
      BY <1>6 DEF L1Shape
    <3>2. mshr[c].state # "s_invalid" =>
            /\ mshr[c].blk \in Block
            /\ \A w \in L1Way : l1'[c][w].tag = mshr[c].blk /\ l1'[c][w].st # "I" => w = mshr[c].way
      BY <1>6 DEF L1Shape
    <3>3. mshr[c].state \in {"s_refill_req", "s_refill_resp"} /\ l1'[c][mshr[c].way].st # "I" =>
            /\ l1'[c][mshr[c].way].tag = mshr[c].blk /\ l1'[c][mshr[c].way].st = "S"
            /\ mshr[c].cmd = "store"
      BY <1>6, <2>1 DEF L1Shape
    <3>4. \A w \in L1Way : l1'[c][w].st # "I" => l1'[c][w].tag \in Block
      BY <1>6 DEF L1Shape
    <3> QED BY <1>1, <2>1, <3>1, <3>2, <3>3, <3>4
  <2> QED BY <2>2, <2>3 DEF L1Shape
<1>11. WritebackTokens'
  <2>1. \A d \in Client : \A i \in DOMAIN rel' : VolMsg(d, i)' => i \in DOMAIN rel /\ VolMsg(d, i)
    BY <1>5, <1>7 DEF VolMsg
  <2>2. \A d \in Client : AtRt(d)' <=> AtRt(d)
    BY <1>1 DEF AtRt
  <2>3. \A d \in Client : l1'[d][mshr[d].way].tag = l1[d][mshr[d].way].tag
    BY <1>6, TypeFacts
  <2> QED BY <1>1, <1>7, <2>1, <2>2, <2>3 DEF WritebackTokens
<1>12. \A d, b : Answered(d, b)' <=> (Answered(d, b) \/ (d = c /\ b = p.blk))
  BY <1>5, <1>7 DEF Answered, AnsMsg
<1>13. \A d \in Client : \A b : Probed(d, b) <=> (Probed(d, b)' \/ (d = c /\ b = p.blk))
  <2>1. \A b : Probed(c, b) <=> (Probed(c, b)' \/ b = p.blk)
    <3> SUFFICES ASSUME NEW b PROVE Probed(c, b) <=> (Probed(c, b)' \/ b = p.blk)
      OBVIOUS
    <3>1. ASSUME Probed(c, b) PROVE Probed(c, b)' \/ b = p.blk
      BY <1>8, <3>1 DEF Probed
    <3>2. ASSUME Probed(c, b)' PROVE Probed(c, b)
      BY <1>8, <3>2 DEF Probed
    <3>3. ASSUME b = p.blk PROVE Probed(c, b)
      BY <1>8, <3>3 DEF Probed
    <3> QED BY <3>1, <3>2, <3>3
  <2>2. \A d \in Client : d # c => \A b : Probed(d, b) <=> Probed(d, b)'
    BY <1>8 DEF Probed
  <2> QED BY <2>1, <2>2
<1>14. /\ Prober(c, p.blk, p.ptype) /\ ~ Answered(c, p.blk) /\ ~ Probed(c, p.blk)'
  <2>1. Prober(c, p.blk, p.ptype) /\ ~ Answered(c, p.blk)
    BY <1>8 DEF ProbesMatched
  <2>2. ASSUME NEW i \in DOMAIN prb'[c], prb'[c][i].blk = p.blk PROVE FALSE
    BY <1>8, <2>2 DEF ProbesMatched
  <2> QED BY <2>1, <2>2 DEF Probed
<1>15. \A b : Out(b)' = Out(b)
  BY <1>12, <1>13, <1>14 DEF Out
<1>16. ProbesMatched'
  <2>1. \A d, b, q : Prober(d, b, q)' <=> Prober(d, b, q)
    BY <1>1 DEF Prober
  <2>2. ASSUME NEW d \in Client, NEW i \in DOMAIN prb'[d]
        PROVE  ProbesMatched!1!(d)!(i)'
    <3>1. CASE d # c
      BY <1>8, <1>12, <2>1, <3>1 DEF ProbesMatched
    <3>2. CASE d = c
      <4>1. prb'[c][i].blk # p.blk
        BY <1>14, <3>2 DEF Probed
      <4>2. ASSUME NEW j \in DOMAIN prb'[c], prb'[c][i].blk = prb'[c][j].blk PROVE i = j
        <5>1. /\ i \in Nat /\ i + 1 \in DOMAIN prb[c] /\ prb'[c][i] = prb[c][i + 1]
              /\ j \in Nat /\ j + 1 \in DOMAIN prb[c] /\ prb'[c][j] = prb[c][j + 1]
          BY <1>8, <3>2
        <5>2. i + 1 = j + 1
          BY <4>2, <5>1 DEF ProbesMatched
        <5> QED BY <5>1, <5>2
      <4>3. i + 1 \in DOMAIN prb[c] /\ prb'[c][i] = prb[c][i + 1]
        BY <1>8, <3>2
      <4>4. Prober(c, prb'[c][i].blk, prb'[c][i].ptype) /\ ~ Answered(c, prb'[c][i].blk)
        BY <4>3 DEF ProbesMatched
      <4> QED BY <1>12, <2>1, <3>2, <4>1, <4>2, <4>4
    <3> QED BY <3>1, <3>2
  <2>3. ASSUME NEW i \in DOMAIN rel', ~ rel'[i].voluntary
        PROVE  ProbesMatched!2!(i)!2'
    <3>1. CASE i = Len(rel) + 1
      <4>1. \A j \in DOMAIN rel : ~ AnsMsg(c, p.blk, j)
        BY <1>14 DEF Answered
      <4>2. \A j \in DOMAIN rel' : AnsMsg(c, p.blk, j)' => i = j
        BY <1>7, <3>1, <4>1 DEF AnsMsg
      <4>3. Prober(rel'[i].client, rel'[i].blk, rel'[i].ptype)
        BY <1>5, <1>7, <1>14, <3>1
      <4> QED BY <1>5, <1>7, <2>1, <3>1, <4>2, <4>3
    <3>2. CASE i # Len(rel) + 1
      <4>1. i \in DOMAIN rel /\ rel'[i] = rel[i] /\ ~ rel[i].voluntary
        BY <1>7, <2>3, <3>2
      <4>2. AnsMsg(rel[i].client, rel[i].blk, i)
        BY <4>1 DEF AnsMsg
      <4>3. ~ (rel[i].client = c /\ rel[i].blk = p.blk)
        BY <1>14, <4>1, <4>2 DEF Answered
      <4>4. \A j \in DOMAIN rel' : AnsMsg(rel[i].client, rel[i].blk, j)'
              => j \in DOMAIN rel /\ AnsMsg(rel[i].client, rel[i].blk, j)
        BY <1>5, <1>7, <4>1, <4>3 DEF AnsMsg
      <4>5. /\ Prober(rel[i].client, rel[i].blk, rel[i].ptype)
            /\ \A j \in DOMAIN rel : AnsMsg(rel[i].client, rel[i].blk, j) => i = j
        BY <4>1 DEF ProbesMatched
      <4> QED BY <2>1, <4>1, <4>4, <4>5
    <3> QED BY <3>1, <3>2
  <2> QED BY <2>2, <2>3 DEF ProbesMatched
<1>17. ProbesCounted' /\ SharersProbed'
  BY <1>1, <1>15 DEF ProbesCounted, SharersProbed
<1>18. /\ \A d \in Client, x \in L1Way : Live(d, x)' => Live(d, x)
       /\ \A d \in Client : \A i \in DOMAIN rel' : VolMsg(d, i)' => i \in DOMAIN rel /\ VolMsg(d, i)
       /\ \A i \in DOMAIN rel' : rel'[i].voluntary => i \in DOMAIN rel
  BY <1>1, <1>5, <1>6, <1>7 DEF Live, VolMsg
<1>19. NoNewCopy
  <2>1. \A d \in Client, b \in Block : Entitled(d, b)' => Entitled(d, b)
    BY <1>6, <1>7, <1>18 DEF Entitled, Holds
  <2>2. \A d \in Client, b \in Block : Owns(d, b)' => Owns(d, b)
    <3>1. \A d \in Client, x \in L1Way : Live(d, x)' /\ l1'[d][x].st # "S" => l1[d][x].st # "S"
      BY <1>6, <1>18 DEF Live
    <3> QED BY <1>6, <1>7, <1>18, <3>1 DEF Owns
  <2> QED BY <2>1, <2>2 DEF NoNewCopy
<1>20. AnswerersOut'
  <2> SUFFICES ASSUME NEW i \in DOMAIN rel', ~ rel'[i].voluntary, rel'[i].ptype = "probeInvalidate"
               PROVE  ~ Entitled(rel[i].client, rel[i].blk)'
    BY DEF AnswerersOut
  <2>1. CASE i = Len(rel) + 1
    <3>1. p.ptype = "probeInvalidate" /\ rel'[i].client = c /\ rel'[i].blk = p.blk
      BY <1>5, <1>7, <2>1
    <3>2. ~ Holds(c, p.blk)'
      BY <1>6, <3>1 DEF Holds, Live
    <3>3. \A j \in DOMAIN rel' : ~ VolMsg(c, j)'
      BY <1>1, <1>18 DEF WritebackTokens
    <3> QED BY <3>1, <3>2, <3>3 DEF Entitled
  <2>2. CASE i # Len(rel) + 1
    BY <1>7, <1>19, <2>2, TypeFacts DEF AnswerersOut, NoNewCopy
  <2> QED BY <2>1, <2>2
<1>21. DowngradesPending'
  <2> SUFFICES ASSUME NEW t \in Tracker, trk[t].state = "s_inner_probe",
                      trk[t].kind = "acquireShared", NEW d \in Client, Owns(d, trk[t].blk)'
               PROVE  d \in trk[t].iprbs \/ Probed(d, trk[t].blk)'
    BY <1>1 DEF DowngradesPending
  <2>1. trk[t].blk \in Block
    BY DEF TrackerShape, Busy
  <2>2. d \in trk[t].iprbs \/ Probed(d, trk[t].blk)
    BY <1>1, <1>19, <2>1 DEF DowngradesPending, NoNewCopy
  <2>3. CASE d = c /\ trk[t].blk = p.blk
    <3>1. p.ptype = "probeDowngrade"
      <4>1. \A u \in Tracker : trk[u].state = "s_inner_probe" /\ trk[u].blk = p.blk => u = t
        BY <2>3, OneUnit DEF Busy
      <4>2. ~ (wb.state = "s_inner_probe" /\ wb.blk = p.blk)
        BY <2>3, OneUnit DEF Busy, WbShape
      <4> QED BY <1>14, <4>1, <4>2 DEF Prober, getProbeType
    <3>2. \A i \in DOMAIN rel' : ~ VolMsg(c, i)'
      BY <1>1, <1>18 DEF WritebackTokens
    <3>3. PICK x \in L1Way : Live(d, x)' /\ l1'[d][x].tag = trk[t].blk /\ l1'[d][x].st # "S"
      BY <1>1, <2>3, <3>2 DEF Owns
    <3>4. l1[d][x].st # "S" /\ Live(d, x) /\ l1'[d][x].st # "I"
      BY <1>6, <1>18, <3>3 DEF Live
    <3> QED BY <1>6, <2>3, <3>1, <3>3, <3>4
  <2>4. CASE ~ (d = c /\ trk[t].blk = p.blk)
    BY <1>1, <1>13, <2>2, <2>4
  <2> QED BY <2>3, <2>4
<1>22. GrantsAlone'
  <2>1. \A d \in Client : mshr'[d].state = "s_meta_write_req" => d # c /\ mshr'[d] = mshr[d]
    BY <1>1
  <2>2. \A d \in Client : d # c => l1'[d] = l1[d]
    BY <1>6
  <2> QED BY <1>1, <2>1, <2>2, GrantsFrame
<1> QED BY <1>1, <1>9, <1>10, <1>11, <1>16, <1>17, <1>19, <1>20, <1>21, <1>22, Frames, CopyFrames

\* Clients without a cache have no copy and no part in the directory.
LEMMA UncachedAcquireInv ==
  ASSUME IInv, NEW u \in Uncached, NEW b \in Uses[u], NEW kind \in {"get", "put"},
         UncachedAcquire(u, b, kind)
  PROVE  IInv'
<1> USE DEF IInv
<1> DEFINE a == [client |-> u, blk |-> b, kind |-> kind]
<1>1. /\ UNCHANGED <<l1, mshr, fq, rel, prb, gnt, meta, data, trk, rt, wb, mem, latest>>
      /\ unc' = unc \cup {u} /\ acq' = Append(acq, a)
  BY DEF UncachedAcquire, l1vars, l2vars
<1>2. a \in AcquireMsg /\ acq \in Seq(AcquireMsg)
  BY L2CacheAssumption DEF AcquireMsg, Kind, Types
<1>3. a.client = u /\ isBuiltInType(a.kind) /\ u \notin Client
  BY L2CacheAssumption DEF isBuiltInType
<1> HIDE DEF a
<1>4. /\ acq' \in Seq(AcquireMsg)
      /\ Len(acq) + 1 \in DOMAIN acq' /\ acq'[Len(acq) + 1] = a
      /\ \A i \in DOMAIN acq : i \in DOMAIN acq' /\ i # Len(acq) + 1 /\ acq'[i] = acq[i]
      /\ \A i \in DOMAIN acq' : i # Len(acq) + 1 => i \in DOMAIN acq
  BY <1>1, <1>2, AppendFacts
<1>5. Types(Int)'
  BY <1>1, <1>4 DEF Types
<1>6. AcquireTokens'
  <2>1. AcquireTokens!1'
    BY <1>3, <1>4 DEF AcquireTokens
  <2>2. ASSUME NEW d \in Client PROVE AcquireTokens!2!(d)'
    <3>1. \A i \in DOMAIN acq' : acq'[i].client = d => i \in DOMAIN acq /\ acq'[i] = acq[i]
      BY <1>3, <1>4
    <3> QED BY <1>1, <3>1 DEF AcquireTokens, Asks, AtTracker, Granted, Busy
  <2> QED BY <2>1, <2>2 DEF AcquireTokens
<1>7. NoNewCopy /\ DowngradesPending'
  <2>1. \A d \in Client, x \in L1Way : Live(d, x)' => Live(d, x)
    BY <1>1 DEF Live
  <2> QED BY <1>1, <2>1, LiveFrames
<1> QED BY <1>1, <1>5, <1>6, <1>7, Frames, CopyFrames

-----------------------------------------------------------------------------
(***************************************************************************)
(* Steps of the acquire trackers.                                          *)
(***************************************************************************)

\* Steps of the L2 leave the copies alone.
LEMMA SameCopies ==
  ASSUME UNCHANGED <<l1, mshr, rel>>
  PROVE  /\ \A d \in Client, x \in L1Way : Live(d, x)' <=> Live(d, x)
         /\ \A d, i : VolMsg(d, i)' <=> VolMsg(d, i)
         /\ \A d, b : Answered(d, b)' <=> Answered(d, b)
         /\ \A d \in Client, b \in Block : Entitled(d, b)' <=> Entitled(d, b)
         /\ \A b : AllShared(b)' <=> AllShared(b)
         /\ \A d \in Client : \A b : Owns(d, b)' <=> Owns(d, b)
         /\ Types(Int) /\ AnswerersOut => AnswerersOut'
<1>1. /\ \A d \in Client, x \in L1Way : Live(d, x)' <=> Live(d, x)
      /\ \A d, i : VolMsg(d, i)' <=> VolMsg(d, i)
      /\ \A d, b : Answered(d, b)' <=> Answered(d, b)
  BY DEF Live, VolMsg, Answered, AnsMsg
<1>2. \A d \in Client, b \in Block : Entitled(d, b)' <=> Entitled(d, b)
  BY <1>1 DEF Entitled, Holds
<1>3. \A b : (AllShared(b)' <=> AllShared(b)) /\ \A d \in Client : Owns(d, b)' <=> Owns(d, b)
  BY <1>1 DEF AllShared, Owns
<1>4. Types(Int) /\ AnswerersOut => AnswerersOut'
  BY <1>2, TypeFacts DEF AnswerersOut
<1> QED BY <1>1, <1>2, <1>3, <1>4

\* Write-backs stay where they are while no unit takes or acknowledges one.
LEMMA WritebackFrame ==
  ASSUME WritebackTokens, UNCHANGED <<l1, mshr, gnt, rel, rt>>,
         \A u \in Tracker : trk'[u].vol = trk[u].vol,
         wb'.vol = wb.vol \/ wb'.vol \notin Client
  PROVE  WritebackTokens'
<1>1. \A d, i : VolMsg(d, i)' <=> VolMsg(d, i)
  BY DEF VolMsg
<1>2. \A d : AtRt(d)' <=> AtRt(d)
  BY DEF AtRt
<1>3. \A d \in Client : wb'.vol = d => wb.vol = d
  OBVIOUS
<1> SUFFICES ASSUME NEW d \in Client PROVE WritebackTokens!(d)'
  BY DEF WritebackTokens
<1> QED BY <1>1, <1>2, <1>3 DEF WritebackTokens

\* The permissions of the copies of a block while no tracker takes or leaves it.
LEMMA PermissionFrame ==
  ASSUME IInv, \A d \in Client, b \in Block : Owns(d, b)' => Owns(d, b)
  PROVE  /\ /\ UNCHANGED meta
            /\ \A u \in Tracker : \A x : Serving(u, x) /\ trk[u].state # "s_inner_probe"
                 => Serving(u, x)' /\ trk'[u].state # "s_inner_probe"
            => SharedInDirectory'
         /\ (\A u \in Tracker : trk'[u].state \in {"s_busy", "s_meta_write"} =>
                 /\ trk[u].state \in {"s_busy", "s_meta_write"} /\ trk'[u].blk = trk[u].blk
                 /\ trk'[u].coh.sharers \subseteq trk[u].coh.sharers /\ trk'[u].kind = trk[u].kind
                 /\ trk'[u].client = trk[u].client
                 /\ trk'[u].gnt = "pending" => trk[u].gnt = "pending")
            => SharedInTracker'
         /\ (\A u \in Tracker : trk'[u].state = "s_inner_probe" =>
                 /\ trk[u].state = "s_inner_probe" /\ trk'[u].blk = trk[u].blk
                 /\ trk'[u].kind = trk[u].kind
                 /\ \A d \in Client : d \in trk[u].iprbs \/ Probed(d, trk[u].blk)
                      => d \in trk'[u].iprbs \/ Probed(d, trk[u].blk)')
            => DowngradesPending'
<1> USE DEF IInv
<1>1. \A b \in Block : AllShared(b) => AllShared(b)'
  BY DEF AllShared
<1>2. \A u \in Tracker : trk[u].state \in {"s_inner_probe", "s_busy", "s_meta_write"} => trk[u].blk \in Block
  BY DEF TrackerShape, Busy
<1>3. ASSUME UNCHANGED meta,
             \A u \in Tracker : \A x : Serving(u, x) /\ trk[u].state # "s_inner_probe"
               => Serving(u, x)' /\ trk'[u].state # "s_inner_probe"
      PROVE  SharedInDirectory'
  BY <1>1, <1>3, TypeFacts DEF SharedInDirectory, Two
<1>4. ASSUME \A u \in Tracker : trk'[u].state \in {"s_busy", "s_meta_write"} =>
               /\ trk[u].state \in {"s_busy", "s_meta_write"} /\ trk'[u].blk = trk[u].blk
               /\ trk'[u].coh.sharers \subseteq trk[u].coh.sharers /\ trk'[u].kind = trk[u].kind
               /\ trk'[u].client = trk[u].client
               /\ trk'[u].gnt = "pending" => trk[u].gnt = "pending"
      PROVE  SharedInTracker'
  <2> SUFFICES ASSUME NEW u \in Tracker, trk'[u].state \in {"s_busy", "s_meta_write"}
               PROVE  SharedInTracker!(u)!2'
    BY DEF SharedInTracker
  <2>1. Two(trk[u].coh.sharers)' => Two(trk[u].coh.sharers)
    BY <1>4 DEF Two
  <2>2. AllShared(trk[u].blk) => AllShared(trk[u].blk)'
    BY <1>1, <1>2, <1>4
  <2> QED BY <1>4, <2>1, <2>2 DEF SharedInTracker
<1>5. ASSUME \A u \in Tracker : trk'[u].state = "s_inner_probe" =>
               /\ trk[u].state = "s_inner_probe" /\ trk'[u].blk = trk[u].blk
               /\ trk'[u].kind = trk[u].kind
               /\ \A d \in Client : d \in trk[u].iprbs \/ Probed(d, trk[u].blk)
                    => d \in trk'[u].iprbs \/ Probed(d, trk[u].blk)'
      PROVE  DowngradesPending'
  BY <1>2, <1>5 DEF DowngradesPending
<1> QED BY <1>3, <1>4, <1>5

\* What has been asked and granted stays so while trackers keep their requests and grants.
LEMMA RequestFrame ==
  ASSUME Types(Int), AcquireTokens, GrantsAlone, UNCHANGED <<l1, mshr, fq, gnt, acq>>,
         \A d \in Client, u \in Tracker :
           /\ AtTracker(d, u)' =>
                AtTracker(d, u) /\ trk'[u].blk = trk[u].blk /\ trk'[u].kind = trk[u].kind
           /\ Granted(d, u) =>
                /\ Granted(d, u)' /\ trk'[u].blk = trk[u].blk
                /\ trk'[u].coh.sharers \subseteq trk[u].coh.sharers
                /\ mshr[d].state \in {"s_refill_resp", "s_meta_write_req"} /\ d \in trk[u].coh.sharers
                     => d \in trk'[u].coh.sharers
  PROVE  AcquireTokens' /\ GrantsAlone'
<1>1. ASSUME NEW d \in Client
      PROVE  AcquireTokens!2!(d)' /\ GrantsAlone!(d)'
  <2>1. gnt[d] # <<>> => Head(gnt[d]) \in GrantMsg
    BY TypeFacts, TailFacts
  <2>2. gnt[d] # <<>> /\ Head(gnt[d]).gtype # "voluntaryAck" =>
          /\ Head(gnt[d]).trk \in Tracker /\ mshr[d].state = "s_refill_resp"
          /\ Granted(d, Head(gnt[d]).trk) /\ trk[Head(gnt[d]).trk].blk = mshr[d].blk
    BY <2>1 DEF AcquireTokens, GrantMsg
  <2>3. fq[d] # NoTracker => fq[d] \in Tracker /\ Granted(d, fq[d])
    BY DEF AcquireTokens, Types
  <2>4. AcquireTokens!2!(d)!1'
    BY DEF AcquireTokens, Asks
  <2>5. AcquireTokens!2!(d)!2'
    BY DEF AcquireTokens, Asks
  <2>6. AcquireTokens!2!(d)!3'
    BY <2>2
  <2>7. AcquireTokens!2!(d)!4' /\ AcquireTokens!2!(d)!5'
    BY <2>3 DEF AcquireTokens
  <2>8. GrantsAlone!(d)!1'
    BY <2>2 DEF GrantsAlone
  <2>9. GrantsAlone!(d)!2'
    BY <2>3 DEF GrantsAlone
  <2> QED BY <2>4, <2>5, <2>6, <2>7, <2>8, <2>9
<1>2. AcquireTokens!1'
  BY DEF AcquireTokens
<1> QED BY <1>1, <1>2 DEF AcquireTokens, GrantsAlone

\* Probes and answers stay matched while the units that wait for them do.
LEMMA ProbeFrame ==
  ASSUME ProbesMatched, UNCHANGED <<prb, rel>>,
         \A d \in Client, b \in Block : \A q : Prober(d, b, q) /\ d \in Out(b) => Prober(d, b, q)',
         Types(Int)
  PROVE  ProbesMatched' /\ \A b : Out(b)' = Out(b)
<1>1. \A d, b : Answered(d, b)' <=> Answered(d, b)
  BY DEF Answered, AnsMsg
<1>2. ProbesMatched'
  <2>1. ProbesMatched!1'
    <3>1. \A d \in Client : \A i \in DOMAIN prb[d] : d \in Out(prb[d][i].blk)
      BY DEF Out, Probed
    <3> QED BY <1>1, <3>1, TypeFacts DEF ProbesMatched
  <2>2. ProbesMatched!2'
    <3>1. \A i \in DOMAIN rel : ~ rel[i].voluntary => rel[i].client \in Out(rel[i].blk)
      BY TypeFacts DEF Out, Answered, AnsMsg
    <3> QED BY <3>1, TypeFacts DEF ProbesMatched, AnsMsg
  <2> QED BY <2>1, <2>2 DEF ProbesMatched
<1>3. \A b : Out(b)' = Out(b)
  BY <1>1 DEF Out, Probed
<1> QED BY <1>2, <1>3

\* The release tracker while no acquire comes to its set or leaves for the write-back unit.
LEMMA RtFrame ==
  ASSUME RtShape, UNCHANGED <<meta, rt>>,
         \A u \in Tracker : Busy(u)' =>
           /\ Busy(u) /\ trk'[u].blk = trk[u].blk /\ trk'[u].line = trk[u].line
           /\ trk'[u].state = "s_meta_read" => trk[u].state = "s_meta_read"
           /\ trk[u].state = "s_wb_req" => trk'[u].state = "s_wb_req"
  PROVE  RtShape'
<1>1. \A b : Resident(b)' <=> Resident(b)
  BY DEF Resident
<1> QED BY <1>1 DEF RtShape

\* The directory keeps whoever has a copy.
LEMMA ListedFrame ==
  ASSUME Listed, UNCHANGED meta,
         \A c \in Client, b \in Block : Entitled(c, b)' =>
           /\ Entitled(c, b)
           /\ \A u \in Tracker :
                /\ Serving(u, b)' <=> Serving(u, b)
                /\ Serving(u, b) /\ c \in trk[u].coh.sharers => c \in trk'[u].coh.sharers
                /\ /\ trk'[u].state \in {"s_outer_acquire", "s_busy", "s_meta_write"}
                   /\ meta[trk'[u].line].tag = b
                   => \/ trk'[u].blk = b
                      \/ /\ trk[u].state \in {"s_outer_acquire", "s_busy", "s_meta_write"}
                         /\ trk'[u].line = trk[u].line /\ trk'[u].blk = trk[u].blk
           /\ wb'.state # "s_idle" /\ wb'.blk = b =>
                /\ wb.state # "s_idle" /\ wb.blk = b
                /\ wb.state = "s_inner_probe" /\ c \in wb.coh.sharers
                     => wb'.state = "s_inner_probe" /\ c \in wb'.coh.sharers
           /\ rt'.state # "s_idle" /\ rt'.rel.blk = b /\ c = rt'.rel.client
                => rt.state # "s_idle" /\ rt.rel = rt'.rel
  PROVE  Listed'
<1> SUFFICES ASSUME NEW c \in Client, NEW b \in Block, Entitled(c, b)' PROVE Lists(c, b)'
  BY DEF Listed
<1>1. Lists(c, b)
  BY DEF Listed
<1>2. Lists(c, b)!1' /\ Lists(c, b)!2'
  BY <1>1 DEF Lists
<1>3. Lists(c, b)!3'
  BY <1>1 DEF Lists
<1>4. Lists(c, b)!4'
  BY <1>1 DEF Lists
<1>5. Lists(c, b)!5'
  BY <1>1 DEF Lists
<1> QED BY <1>2, <1>3, <1>4, <1>5 DEF Lists

\* Sets of clients are finite; the directory counts sharers up to two.
LEMMA CardFacts ==
  ASSUME NEW S \in SUBSET Client
  PROVE  /\ IsFiniteSet(S) /\ Cardinality(S) \in Nat /\ Cardinality(S) <= Cardinality(Client)
         /\ Cardinality(S) = 0 <=> S = {}
         /\ Cardinality(S) # 1 => S = {} \/ Two(S)
         /\ Cardinality(S) <= 1 => ~ Two(S)
         /\ \A c \in Client : c \notin S => Cardinality(S \cup {c}) = Cardinality(S) + 1
         /\ \A c \in S : Cardinality(S \ {c}) = Cardinality(S) - 1
<1>1. IsFiniteSet(S) /\ Cardinality(S) \in Nat /\ Cardinality(S) <= Cardinality(Client)
  BY L2CacheAssumption, FS_Subset, FS_CardinalityType
<1>2. Cardinality(S) = 0 <=> S = {}
  BY <1>1, FS_EmptySet
<1>3. Cardinality(S) = 1 <=> \E x : S = {x}
  BY <1>1, FS_Singleton
<1>4. Cardinality(S) # 1 => S = {} \/ Two(S)
  BY <1>3 DEF Two
<1>5. Cardinality(S) <= 1 => ~ Two(S)
  <2>1. Cardinality(S) <= 1 => Cardinality(S) = 0 \/ Cardinality(S) = 1
    BY <1>1
  <2> QED BY <1>2, <1>3, <2>1 DEF Two
<1>6. \A c \in Client : c \notin S => Cardinality(S \cup {c}) = Cardinality(S) + 1
  BY <1>1, FS_AddElement
<1>7. \A c \in S : Cardinality(S \ {c}) = Cardinality(S) - 1
  BY <1>1, FS_RemoveElement
<1> QED BY <1>1, <1>2, <1>4, <1>5, <1>6, <1>7

\* Who has a copy of a block that no tracker serves is in the directory.
LEMMA InDirectory ==
  ASSUME IInv, NEW t \in Tracker, trk[t].state = "s_meta_read"
  PROVE  /\ \A u \in Tracker : ~ Serving(u, trk[t].blk)
         /\ wb.state # "s_idle" => wb.blk # trk[t].blk
         /\ \A d \in Client : Entitled(d, trk[t].blk) =>
              \E n \in Line : meta[n].tag = trk[t].blk /\ d \in meta[n].coh.sharers
         /\ Out(trk[t].blk) = {}
<1> USE DEF IInv
<1>1. Busy(t) /\ trk[t].blk \in Block
  BY DEF Busy, TrackerShape
<1>2. \A u \in Tracker : trk[u].state # "s_idle" /\ trk[u].blk = trk[t].blk => u = t
  BY <1>1, OneUnit DEF Busy
<1>3. \A u \in Tracker : ~ Serving(u, trk[t].blk)
  BY <1>2 DEF Serving
<1>4. wb.state # "s_idle" => wb.blk # trk[t].blk
  BY <1>1, OneUnit DEF WbShape
<1>5. \A d \in Client : Entitled(d, trk[t].blk) =>
         \E n \in Line : meta[n].tag = trk[t].blk /\ d \in meta[n].coh.sharers
  BY <1>1, <1>3 DEF Listed, Lists
<1>6. \A d \in Client : \A q : ~ Prober(d, trk[t].blk, q)
  BY <1>2, <1>4 DEF Prober
<1>7. \A d \in Client : ~ Probed(d, trk[t].blk)
  BY <1>6 DEF Probed, ProbesMatched
<1>8. \A d \in Client : ~ Answered(d, trk[t].blk)
  BY <1>6 DEF Answered, AnsMsg, ProbesMatched
<1> QED BY <1>3, <1>4, <1>5, <1>7, <1>8 DEF Out

\* A tracker takes over the request of its client.
LEMMA AcceptAcquireInv ==
  ASSUME IInv, NEW t \in Tracker, AcceptAcquire(t)
  PROVE  IInv'
<1> USE DEF IInv
<1>1. /\ UNCHANGED <<l1, mshr, fq, unc, rel, prb, gnt, meta, data, rt, wb, mem, latest>>
      /\ acq # <<>> /\ acq' = Tail(acq) /\ ~ iacq_matches(Head(acq).blk) /\ trk[t].state = "s_idle"
      /\ trk' = [trk EXCEPT ![t] = [NoTrk EXCEPT !.state = "s_meta_read", !.client = Head(acq).client,
                                      !.blk = Head(acq).blk, !.kind = Head(acq).kind]]
  BY DEF AcceptAcquire, l1vars, Busy
<1>2. acq \in Seq(AcquireMsg) /\ trk \in [Tracker -> TrackerRec(Int)] /\ NoTrk \in TrackerRec(Int)
  BY IdleTypes DEF Types
<1>3. PICK a \in AcquireMsg : a = Head(acq)
  BY <1>1, <1>2, TailFacts
<1>4. /\ acq' \in Seq(AcquireMsg) /\ acq[1] = a /\ 1 \in DOMAIN acq
      /\ \A i \in DOMAIN acq' : i \in Nat /\ i + 1 \in DOMAIN acq /\ acq'[i] = acq[i + 1]
  BY <1>1, <1>2, <1>3, TailFacts
<1>5. /\ a.client \in Client \cup Uncached /\ a.blk \in Block /\ a.kind \in Kind
      /\ a.client \in Uncached <=> isBuiltInType(a.kind)
      /\ a.client # NoClient
  BY <1>4, L2CacheAssumption DEF AcquireMsg, AcquireTokens
<1>6. /\ trk' \in [Tracker -> TrackerRec(Int)]
      /\ \A u \in Tracker : u # t => trk'[u] = trk[u]
      /\ trk'[t].state = "s_meta_read" /\ trk'[t].client = a.client /\ trk'[t].blk = a.blk
      /\ trk'[t].kind = a.kind
      /\ trk'[t].iprbs = NoTrk.iprbs /\ trk'[t].irels = NoTrk.irels /\ trk'[t].vol = NoTrk.vol
      /\ trk'[t].gnt = NoTrk.gnt
  BY <1>1, <1>2, <1>3, <1>5 DEF TrackerRec
<1>7. /\ NoTrk.iprbs = {} /\ NoTrk.irels = 0 /\ NoTrk.vol = NoClient /\ NoTrk.gnt = "pending"
      /\ NoTrk.state = "s_idle"
  BY DEF NoTrk
<1>8. trk[t] = NoTrk
  BY <1>1 DEF TrackerShape
<1>9. /\ \A u \in Tracker : Busy(u) => SetOf[trk[u].blk] # SetOf[a.blk]
      /\ rt.state # "s_idle" => SetOf[rt.rel.blk] # SetOf[a.blk]
  BY <1>1, <1>3 DEF iacq_matches
<1>10. /\ Busy(t)' /\ ~ Busy(t) /\ \A u \in Tracker : u # t => (Busy(u)' <=> Busy(u))
       /\ \A u \in Tracker : \A b : Serving(u, b)' <=> Serving(u, b)
  BY <1>1, <1>6 DEF Busy, Serving
<1>11. Types(Int)'
  BY <1>1, <1>4, <1>6 DEF Types
<1>12. SetsApart'
  BY <1>6, <1>9, <1>10 DEF SetsApart
<1>13. ASSUME NEW u \in Tracker PROVE TrackerShape(u)'
  <2>1. CASE u # t
    BY <1>1, <1>6, <2>1, TrackerFrame
  <2>2. CASE u = t
    BY <1>5, <1>6, <1>7, <2>2 DEF TrackerShape, Busy
  <2> QED BY <2>1, <2>2
<1>14. RtShape'
  BY <1>1, <1>6, <1>9, <1>10 DEF RtShape, Resident
<1>15. WbShape'
  BY <1>1, <1>6 DEF WbShape
<1>16. WritebackTokens'
  <2>1. \A u \in Tracker : trk'[u].vol = trk[u].vol
    BY <1>6, <1>7, <1>8
  <2> QED BY <1>1, <2>1 DEF WritebackTokens, VolMsg, AtRt
<1>17. AcquireTokens'
  <2>1. AcquireTokens!1'
    BY <1>4 DEF AcquireTokens
  <2>2. ASSUME NEW d \in Client PROVE AcquireTokens!2!(d)'
    <3>1. \A i \in DOMAIN acq' : acq'[i].client = d =>
            /\ i + 1 \in DOMAIN acq /\ i + 1 # 1 /\ acq[i + 1].client = d
            /\ acq'[i] = acq[i + 1] /\ a.client # d
      BY <1>4 DEF AcquireTokens
    <3>2. \A u \in Tracker : u # t => (AtTracker(d, u)' <=> AtTracker(d, u))
      BY <1>6, <1>10 DEF AtTracker
    <3>3. AtTracker(d, t)' <=> a.client = d
      BY <1>6, <1>7, <1>10 DEF AtTracker
    <3>4. a.client = d => Asks(d, a) /\ gnt[d] = <<>> /\ \A u \in Tracker : ~ AtTracker(d, u)
      BY <1>4 DEF AcquireTokens
    <3>5. \A u \in Tracker : Granted(d, u)' <=> Granted(d, u)
      BY <1>1, <1>6 DEF Granted
    <3>6. \A i \in DOMAIN acq' : acq'[i].client = d => AcquireTokens!2!(d)!1!(i)!2'
      <4> TAKE i \in DOMAIN acq'
      <4> HAVE acq'[i].client = d
      <4>1. /\ Asks(d, acq[i + 1]) /\ gnt[d] = <<>>
            /\ \A j \in DOMAIN acq : acq[j].client = d => i + 1 = j
            /\ \A u \in Tracker : ~ AtTracker(d, u)
        BY <3>1 DEF AcquireTokens
      <4>2. \A j \in DOMAIN acq' : acq'[j].client = d => i = j
        <5> TAKE j \in DOMAIN acq'
        <5> HAVE acq'[j].client = d
        <5>1. i + 1 = j + 1 /\ i \in Nat /\ j \in Nat
          BY <1>4, <3>1, <4>1
        <5> QED BY <5>1
      <4> QED BY <1>1, <3>1, <3>2, <3>3, <4>1, <4>2 DEF Asks
    <3>7. \A u \in Tracker : AtTracker(d, u)' => AcquireTokens!2!(d)!2!(u)!2'
      BY <1>1, <1>6, <3>2, <3>3, <3>4 DEF AcquireTokens, Asks
    <3>8. gnt[d] # <<>> /\ Head(gnt[d]).gtype # "voluntaryAck" =>
            /\ Head(gnt[d]).trk \in Tracker /\ Head(gnt[d]).trk # t
            /\ mshr[d].state = "s_refill_resp"
            /\ Granted(d, Head(gnt[d]).trk) /\ trk[Head(gnt[d]).trk].blk = mshr[d].blk
      <4>1. gnt[d] # <<>> => Head(gnt[d]) \in GrantMsg
        BY TypeFacts, TailFacts
      <4> QED BY <1>1, <4>1 DEF AcquireTokens, GrantMsg, Granted
    <3>9. AcquireTokens!2!(d)!3'
      BY <1>1, <1>6, <3>5, <3>8
    <3>10. fq[d] # NoTracker => fq[d] \in Tracker /\ Granted(d, fq[d])
      BY DEF AcquireTokens, Types
    <3>11. AcquireTokens!2!(d)!4' /\ AcquireTokens!2!(d)!5'
      BY <1>1, <3>5, <3>10 DEF AcquireTokens
    <3> QED BY <1>1, <3>6, <3>7, <3>9, <3>11 DEF AcquireTokens
  <2> QED BY <2>1, <2>2 DEF AcquireTokens
<1>18. ProbesMatched'
  <2>1. \A d, b, q : Prober(d, b, q)' <=> Prober(d, b, q)
    BY <1>1, <1>6 DEF Prober
  <2> QED BY <1>1, <2>1 DEF ProbesMatched, Answered, AnsMsg
<1>19. \A b : Out(b)' = Out(b)
  BY <1>1 DEF Out, Probed, Answered, AnsMsg
<1>20. ProbesCounted' /\ SharersProbed'
  BY <1>1, <1>6, <1>19 DEF ProbesCounted, SharersProbed
<1>21. Listed'
  <2>1. \A d \in Client, b \in Block : Entitled(d, b)' <=> Entitled(d, b)
    BY <1>1, SameCopies
  <2>2. \A u \in Tracker :
          trk'[u].state \in {"s_inner_probe", "s_outer_acquire", "s_busy", "s_meta_write"} => trk'[u] = trk[u]
    BY <1>6
  <2> QED BY <1>1, <1>10, <2>1, <2>2 DEF Listed, Lists, Serving
<1>22. SharedInDirectory'
  BY <1>1, <1>6, <1>10, SameCopies DEF SharedInDirectory, Serving, Two
<1>23. SharedInTracker'
  BY <1>1, <1>6, SameCopies DEF SharedInTracker, Two
<1>24. DowngradesPending'
  BY <1>1, <1>6, SameCopies DEF DowngradesPending, Probed
<1>25. GrantsAlone'
  <2>1. ASSUME NEW d \in Client PROVE GrantsAlone!(d)'
    <3>1. gnt[d] # <<>> => Head(gnt[d]) \in GrantMsg
      BY TypeFacts, TailFacts
    <3>2. gnt[d] # <<>> /\ Head(gnt[d]).gtype # "voluntaryAck" =>
            trk'[Head(gnt[d]).trk] = trk[Head(gnt[d]).trk]
      BY <1>1, <1>6, <3>1 DEF GrantMsg, AcquireTokens, Granted
    <3>3. fq[d] # NoTracker => trk'[fq[d]] = trk[fq[d]]
      BY <1>1, <1>6 DEF AcquireTokens, Granted, Types
    <3> QED BY <1>1, <3>2, <3>3, ZenonT(30) DEF GrantsAlone
  <2> QED BY <2>1 DEF GrantsAlone
<1> QED BY <1>1, <1>11, <1>12, <1>13, <1>14, <1>15, <1>16, <1>17, <1>18, <1>20, <1>21, <1>22,
           <1>23, <1>24, <1>25, SameCopies, Frames

\* What a tracker has read when the metadata of line n arrive.
MetaRead(t, n, coh, on_hit) ==
  LET k == trk[t]
      b == trk[t].blk
  IN  /\ coh = meta[n].coh /\ SetOf[n] = SetOf[b] /\ (L2Match(b) # {} => n \in L2Match(b))
      /\ on_hit.sharers = coh.sharers /\ on_hit.valid = coh.valid
      /\ on_hit.dirty <=> coh.dirty \/ isWrite(k.kind)
      /\ trk' \in [Tracker -> TrackerRec(Int)]
      /\ \A u \in Tracker : u # t => trk'[u] = trk[u]
      /\ trk'[t].blk = b /\ trk'[t].client = k.client /\ trk'[t].kind = k.kind
      /\ trk'[t].line = n /\ trk'[t].irels = k.irels /\ trk'[t].vol = k.vol /\ trk'[t].gnt = k.gnt
      /\ \/ /\ L2Match(b) = {} /\ trk'[t].meta_write /\ coh.valid
            /\ trk'[t].state = "s_wb_req" /\ trk'[t].victim = meta[n].tag /\ trk'[t].old = coh
            /\ trk'[t].iprbs = {}
         \/ /\ L2Match(b) = {} /\ trk'[t].meta_write /\ ~ coh.valid
            /\ trk'[t].state = "s_outer_acquire" /\ trk'[t].iprbs = {}
         \/ /\ n \in L2Match(b) /\ trk'[t].coh = on_hit /\ trk'[t].meta_write = (on_hit # coh)
            /\ \/ /\ trk'[t].state = "s_inner_probe" /\ requiresProbes(k.kind, coh.sharers)
                  /\ trk'[t].iprbs = coh.sharers \ {k.client}
               \/ /\ trk'[t].state = "s_busy" /\ ~ requiresProbes(k.kind, coh.sharers)
                  /\ trk'[t].iprbs = {}

\* It takes the line that has the block, or chooses one of its set to refill, and goes on to
\* evict, to fetch, to probe or to grant.
LEMMA MetaRespFields ==
  ASSUME IInv, NEW t \in Tracker, MetaResp(t)
  PROVE  /\ \A b \in Block : L2Match(b) = {m \in Line : meta[m].tag = b}
         /\ \E n \in Line, coh \in Coh, on_hit \in Coh : MetaRead(t, n, coh, on_hit)
<1> USE DEF IInv
<1>1. trk[t].state = "s_meta_read"
  BY DEF MetaResp
<1>2. PICK b \in Block : b = trk[t].blk
  BY <1>1 DEF TrackerShape, Busy
<1>3. PICK n \in IF L2Match(b) = {} THEN L2Ways(b) ELSE L2Match(b) :
        LET k == trk[t]
            coh == meta[n].coh
            hit == L2Match(b) # {}
            needs_writeback == ~ hit /\ (coh.valid \/ coh.sharers # {})
            needs_inner_probes == hit /\ requiresProbes(k.kind, coh.sharers)
            on_hit == [coh EXCEPT !.dirty = @ \/ isWrite(k.kind)]
        IN  trk' = [trk EXCEPT ![t] =
              [k EXCEPT !.line = n,
                        !.victim = IF needs_writeback THEN meta[n].tag ELSE NoBlock,
                        !.old = IF needs_writeback THEN coh ELSE cohOnReset,
                        !.coh = IF hit THEN on_hit ELSE cohOnReset,
                        !.meta_write = ~ hit \/ on_hit # coh,
                        !.iprbs = IF needs_inner_probes THEN coh.sharers \ {k.client} ELSE {},
                        !.state = IF needs_writeback THEN "s_wb_req"
                                  ELSE IF needs_inner_probes THEN "s_inner_probe"
                                  ELSE IF hit THEN "s_busy" ELSE "s_outer_acquire"]]
  BY <1>2 DEF MetaResp
<1>4. \A y \in Block : L2Match(y) = {m \in Line : meta[m].tag = y}
  BY L2CacheAssumption DEF L2Match, MetaShape
<1>5. n \in Line /\ SetOf[n] = SetOf[b]
  BY <1>3, <1>4, L2CacheAssumption DEF L2Ways, MetaShape
<1>6. PICK coh \in Coh : coh = meta[n].coh
  BY <1>5, TypeFacts
<1>7. PICK k \in TrackerRec(Int) : k = trk[t]
  BY DEF Types
<1>8. [coh EXCEPT !.dirty = @ \/ isWrite(k.kind)] \in Coh
  BY DEF Coh
<1>9. PICK on_hit \in Coh : on_hit = [coh EXCEPT !.dirty = @ \/ isWrite(k.kind)]
  BY <1>8
<1>10. /\ on_hit.sharers = coh.sharers /\ on_hit.valid = coh.valid
       /\ on_hit.dirty <=> coh.dirty \/ isWrite(k.kind)
  BY <1>9 DEF Coh
<1>11. /\ trk' \in [Tracker -> TrackerRec(Int)]
       /\ \A u \in Tracker : u # t => trk'[u] = trk[u]
       /\ trk'[t].blk = b /\ trk'[t].client = k.client /\ trk'[t].kind = k.kind
       /\ trk'[t].line = n /\ trk'[t].irels = k.irels /\ trk'[t].vol = k.vol /\ trk'[t].gnt = k.gnt
       /\ \/ /\ L2Match(b) = {} /\ trk'[t].meta_write /\ coh.valid
             /\ trk'[t].state = "s_wb_req" /\ trk'[t].victim = meta[n].tag /\ trk'[t].old = coh
             /\ trk'[t].iprbs = {}
          \/ /\ L2Match(b) = {} /\ trk'[t].meta_write /\ ~ coh.valid
             /\ trk'[t].state = "s_outer_acquire" /\ trk'[t].iprbs = {}
          \/ /\ n \in L2Match(b) /\ trk'[t].coh = on_hit /\ trk'[t].meta_write = (on_hit # coh)
             /\ \/ /\ trk'[t].state = "s_inner_probe" /\ requiresProbes(k.kind, coh.sharers)
                   /\ trk'[t].iprbs = coh.sharers \ {k.client}
                \/ /\ trk'[t].state = "s_busy" /\ ~ requiresProbes(k.kind, coh.sharers)
                   /\ trk'[t].iprbs = {}
  <2> DEFINE hit == L2Match(b) # {}
             wbk == ~ hit /\ (coh.valid \/ coh.sharers # {})
             pr == hit /\ requiresProbes(k.kind, coh.sharers)
  <2>1. trk' = [trk EXCEPT ![t] =
              [k EXCEPT !.line = n,
                        !.victim = IF wbk THEN meta[n].tag ELSE NoBlock,
                        !.old = IF wbk THEN coh ELSE cohOnReset,
                        !.coh = IF hit THEN on_hit ELSE cohOnReset,
                        !.meta_write = ~ hit \/ on_hit # coh,
                        !.iprbs = IF pr THEN coh.sharers \ {k.client} ELSE {},
                        !.state = IF wbk THEN "s_wb_req"
                                  ELSE IF pr THEN "s_inner_probe"
                                  ELSE IF hit THEN "s_busy" ELSE "s_outer_acquire"]]
    BY <1>3, <1>6, <1>7, <1>9
  <2>2. wbk => meta[n].tag \in Block /\ coh.valid
    BY <1>5, <1>6, TypeFacts DEF MetaShape
  <2>3. coh.valid => coh.valid \/ coh.sharers # {}
    OBVIOUS
  <2>4. hit => n \in L2Match(b)
    BY <1>3
  <2>5. meta[n].tag \in Block \cup {NoBlock} /\ cohOnReset \in Coh /\ coh.sharers \subseteq Client
    BY <1>5, <1>6, TypeFacts, IdleTypes DEF Coh
  <2> HIDE DEF hit, wbk, pr
  <2>6. /\ trk' \in [Tracker -> TrackerRec(Int)]
        /\ \A u \in Tracker : u # t => trk'[u] = trk[u]
        /\ trk'[t].blk = k.blk /\ trk'[t].client = k.client /\ trk'[t].kind = k.kind
        /\ trk'[t].line = n /\ trk'[t].irels = k.irels /\ trk'[t].vol = k.vol /\ trk'[t].gnt = k.gnt
        /\ trk'[t].victim = (IF wbk THEN meta[n].tag ELSE NoBlock)
        /\ trk'[t].old = (IF wbk THEN coh ELSE cohOnReset)
        /\ trk'[t].coh = (IF hit THEN on_hit ELSE cohOnReset)
        /\ trk'[t].meta_write = (~ hit \/ on_hit # coh)
        /\ trk'[t].iprbs = (IF pr THEN coh.sharers \ {k.client} ELSE {})
        /\ trk'[t].state = IF wbk THEN "s_wb_req"
                                  ELSE IF pr THEN "s_inner_probe"
                                  ELSE IF hit THEN "s_busy" ELSE "s_outer_acquire"
    <3>1. PICK s \in {"s_wb_req", "s_inner_probe", "s_outer_acquire", "s_busy"} :
            s = IF wbk THEN "s_wb_req" ELSE IF pr THEN "s_inner_probe"
                ELSE IF hit THEN "s_busy" ELSE "s_outer_acquire"
      OBVIOUS
    <3>2. PICK v \in Block \cup {NoBlock} : v = IF wbk THEN meta[n].tag ELSE NoBlock
      BY <2>5
    <3>3. PICK o \in Coh : o = IF wbk THEN coh ELSE cohOnReset
      BY <2>5
    <3>4. PICK h \in Coh : h = IF hit THEN on_hit ELSE cohOnReset
      BY <2>5
    <3>5. (~ hit \/ on_hit # coh) \in BOOLEAN
      OBVIOUS
    <3>6. PICK mw \in BOOLEAN : mw = (~ hit \/ on_hit # coh)
      BY <3>5
    <3>7. PICK p \in SUBSET Client : p = IF pr THEN coh.sharers \ {k.client} ELSE {}
      BY <2>5
    <3> DEFINE x == [k EXCEPT !.line = n, !.victim = v, !.old = o, !.coh = h, !.meta_write = mw,
                              !.iprbs = p, !.state = s]
    <3>8. trk \in [Tracker -> TrackerRec(Int)] /\ trk' = [trk EXCEPT ![t] = x]
      BY <2>1, <3>1, <3>2, <3>3, <3>4, <3>6, <3>7 DEF Types
    <3>9. /\ x \in TrackerRec(Int)
          /\ x.blk = k.blk /\ x.client = k.client /\ x.kind = k.kind
          /\ x.line = n /\ x.irels = k.irels /\ x.vol = k.vol /\ x.gnt = k.gnt
          /\ x.victim = v /\ x.old = o /\ x.coh = h /\ x.meta_write = mw /\ x.iprbs = p /\ x.state = s
      <4>1. n \in Line
        BY <1>5
      <4>2. x \in TrackerRec(Int)
        BY <4>1 DEF TrackerRec
      <4>3. /\ x.blk = k.blk /\ x.client = k.client /\ x.kind = k.kind
            /\ x.line = n /\ x.irels = k.irels /\ x.vol = k.vol /\ x.gnt = k.gnt
        BY DEF TrackerRec
      <4>4. x.victim = v /\ x.old = o /\ x.coh = h /\ x.iprbs = p /\ x.state = s
        BY DEF TrackerRec
      <4>5. x.meta_write = mw
        BY DEF TrackerRec
      <4> QED BY <4>2, <4>3, <4>4, <4>5
    <3> HIDE DEF x
    <3>10. trk' \in [Tracker -> TrackerRec(Int)] /\ trk'[t] = x /\ \A u \in Tracker : u # t => trk'[u] = trk[u]
      BY <3>8, <3>9
    <3> QED BY <3>1, <3>2, <3>3, <3>4, <3>6, <3>7, <3>9, <3>10
  <2>7. CASE ~ hit
    BY <1>2, <1>7, <2>2, <2>3, <2>6, <2>7 DEF hit, wbk, pr
  <2>8. CASE hit
    BY <1>2, <1>7, <2>4, <2>6, <2>8 DEF hit, wbk, pr
  <2> QED BY <2>7, <2>8
<1>12. L2Match(b) # {} => n \in L2Match(b)
  BY <1>3
<1>13. MetaRead(t, n, coh, on_hit)
  BY <1>2, <1>5, <1>6, <1>7, <1>10, <1>11, <1>12 DEF MetaRead
<1> QED BY <1>4, <1>5, <1>13

\* Hit or miss: the tracker takes the directory entry, or a line to fill.
LEMMA MetaRespInv ==
  ASSUME IInv, NEW t \in Tracker, MetaResp(t)
  PROVE  IInv'
<1> USE DEF IInv
<1>1. /\ UNCHANGED <<l1, mshr, fq, unc, acq, rel, prb, gnt, meta, data, rt, wb, mem, latest>>
      /\ trk[t].state = "s_meta_read"
  BY DEF MetaResp, l1vars
<1>2. PICK b \in Block : b = trk[t].blk
  BY <1>1 DEF TrackerShape, Busy
<1>7. PICK k \in TrackerRec(Int) : k = trk[t]
  BY DEF Types
<1>4. L2Match(b) = {m \in Line : meta[m].tag = b}
  BY MetaRespFields
<1>r. PICK n \in Line, coh \in Coh, on_hit \in Coh : MetaRead(t, n, coh, on_hit)
  BY MetaRespFields
<1>3. L2Match(b) # {} => n \in L2Match(b)
  BY <1>2, <1>r DEF MetaRead
<1>5. n \in Line /\ SetOf[n] = SetOf[b]
  BY <1>2, <1>r DEF MetaRead
<1>6. coh = meta[n].coh
  BY <1>r DEF MetaRead
<1>10. on_hit.sharers = coh.sharers /\ on_hit.valid = coh.valid
  BY <1>r DEF MetaRead
<1>11. /\ trk' \in [Tracker -> TrackerRec(Int)]
       /\ \A u \in Tracker : u # t => trk'[u] = trk[u]
       /\ trk'[t].blk = b /\ trk'[t].client = k.client /\ trk'[t].kind = k.kind
       /\ trk'[t].line = n /\ trk'[t].irels = k.irels /\ trk'[t].vol = k.vol /\ trk'[t].gnt = k.gnt
       /\ \/ /\ L2Match(b) = {} /\ trk'[t].meta_write /\ coh.valid
             /\ trk'[t].state = "s_wb_req" /\ trk'[t].victim = meta[n].tag /\ trk'[t].old = coh
             /\ trk'[t].iprbs = {}
          \/ /\ L2Match(b) = {} /\ trk'[t].meta_write /\ ~ coh.valid
             /\ trk'[t].state = "s_outer_acquire" /\ trk'[t].iprbs = {}
          \/ /\ n \in L2Match(b) /\ trk'[t].coh = on_hit /\ trk'[t].meta_write = (on_hit # coh)
             /\ \/ /\ trk'[t].state = "s_inner_probe" /\ requiresProbes(k.kind, coh.sharers)
                   /\ trk'[t].iprbs = coh.sharers \ {k.client}
                \/ /\ trk'[t].state = "s_busy" /\ ~ requiresProbes(k.kind, coh.sharers)
                   /\ trk'[t].iprbs = {}
  BY <1>2, <1>7, <1>r DEF MetaRead
<1>12. /\ k.client \in Client \cup Uncached /\ (k.client \in Uncached <=> isBuiltInType(k.kind))
       /\ k.vol = NoClient /\ k.gnt = "pending" /\ k.irels = 0
  BY <1>1, <1>7 DEF TrackerShape, Busy
<1>13. /\ Busy(t) /\ Busy(t)' /\ \A u \in Tracker : u # t => (Busy(u)' <=> Busy(u))
       /\ \A u \in Tracker : trk'[u].blk = trk[u].blk
  BY <1>1, <1>2, <1>11 DEF Busy
<1>14. Types(Int)'
  BY <1>1, <1>11 DEF Types
<1>15. SetsApart'
  BY <1>13 DEF SetsApart, Busy
<1>16. L2Match(b) = {} <=> ~ Resident(b)
  BY <1>4 DEF Resident
<1>17. ASSUME NEW u \in Tracker PROVE TrackerShape(u)'
  <2>1. CASE u # t
    BY <1>1, <1>11, <2>1, TrackerFrame
  <2>2. CASE u = t
    <3>1. meta' = meta /\ (Resident(b)' <=> Resident(b))
      BY <1>1 DEF Resident
    <3>2. CASE L2Match(b) = {} /\ trk'[t].state = "s_wb_req"
      BY <1>2, <1>5, <1>6, <1>11, <1>12, <1>16, <2>2, <3>1, <3>2, TypeFacts DEF TrackerShape, Busy, MetaShape
    <3>3. CASE L2Match(b) = {} /\ trk'[t].state = "s_outer_acquire"
      BY <1>2, <1>5, <1>11, <1>12, <1>16, <2>2, <3>1, <3>3 DEF TrackerShape, Busy
    <3>4. CASE n \in L2Match(b)
      <4>1. meta[n].tag = b /\ Resident(b) /\ coh.valid
        BY <1>4, <1>5, <1>6, <3>4, L2CacheAssumption DEF Resident, MetaShape
      <4>2. trk'[t].state \in {"s_inner_probe", "s_busy"} /\ trk'[t].coh = on_hit
            /\ trk'[t].meta_write = (on_hit # coh)
            /\ (trk'[t].state # "s_inner_probe" => trk'[t].iprbs = {})
        BY <1>11, <3>4
      <4> QED BY <1>2, <1>5, <1>6, <1>10, <1>11, <1>12, <2>2, <3>1, <4>1, <4>2 DEF TrackerShape, Busy
    <3> QED BY <1>11, <3>2, <3>3, <3>4
  <2> QED BY <2>1, <2>2
<1>18. RtShape'
  <2>1. rt.state # "s_idle" => SetOf[b] # SetOf[rt.rel.blk]
    BY <1>1, <1>2, <1>13 DEF RtShape
  <2> QED BY <1>1, <1>2, <1>11, <1>13, <2>1 DEF RtShape, Resident
<1>19. WbShape'
  BY <1>1, <1>11 DEF WbShape
<1>20. WritebackTokens'
  <2>1. \A u \in Tracker : trk'[u].vol = trk[u].vol
    BY <1>7, <1>11
  <2> QED BY <1>1, <2>1 DEF WritebackTokens, VolMsg, AtRt
<1>21. AcquireTokens' /\ GrantsAlone'
  <2>1. \A d \in Client, u \in Tracker :
          /\ AtTracker(d, u)' =>
               AtTracker(d, u) /\ trk'[u].blk = trk[u].blk /\ trk'[u].kind = trk[u].kind
          /\ Granted(d, u) => u # t
    BY <1>1, <1>7, <1>11, <1>13 DEF AtTracker, Granted
  <2>2. \A d \in Client, u \in Tracker : Granted(d, u) => Granted(d, u)' /\ trk'[u] = trk[u]
    BY <1>11, <2>1 DEF Granted
  <2> QED BY <1>1, <2>1, <2>2, RequestFrame
<1>22. ProbesMatched' /\ \A x : Out(x)' = Out(x)
  <2>1. \A d \in Client, x \in Block : \A q : Prober(d, x, q) => Prober(d, x, q)'
    BY <1>1, <1>11 DEF Prober
  <2> QED BY <1>1, <2>1, ProbeFrame
<1>23. /\ \A u \in Tracker : ~ Serving(u, b)
       /\ wb.state # "s_idle" => wb.blk # b
       /\ \A d \in Client : Entitled(d, b) =>
            \E m \in Line : meta[m].tag = b /\ d \in meta[m].coh.sharers
       /\ Out(b) = {}
  BY <1>1, <1>2, InDirectory
<1>24. ProbesCounted'
  <2>1. trk'[t].irels = Cardinality(Out(b)')
    BY <1>11, <1>12, <1>22, <1>23, FS_EmptySet
  <2> QED BY <1>1, <1>11, <1>22, <2>1 DEF ProbesCounted
<1>25. \A d \in Client : Entitled(d, b) => n \in L2Match(b) /\ d \in coh.sharers
  BY <1>3, <1>4, <1>6, <1>23, L2CacheAssumption DEF MetaShape
<1>26. Listed'
  <2> SUFFICES ASSUME NEW d \in Client, NEW x \in Block, Entitled(d, x)
               PROVE  Lists(d, x)'
    BY <1>1, SameCopies DEF Listed
  <2>1. \A u \in Tracker : u # t => (Serving(u, x)' <=> Serving(u, x)) /\ trk'[u] = trk[u]
    BY <1>11 DEF Serving
  <2>2. CASE x # b
    <3>1. ~ Serving(t, x) /\ ~ Serving(t, x)'
      BY <1>2, <1>11, <2>2 DEF Serving
    <3>2. ASSUME trk'[t].state \in {"s_outer_acquire", "s_busy", "s_meta_write"},
                 meta[trk'[t].line].tag = x
          PROVE  FALSE
      BY <1>4, <1>5, <1>6, <1>11, <2>2, <3>2, L2CacheAssumption DEF MetaShape
    <3> QED BY <1>1, <2>1, <3>1, <3>2 DEF Listed, Lists
  <2>3. CASE x = b
    <3>1. n \in L2Match(b) /\ d \in coh.sharers
      BY <1>25, <2>3
    <3>2. trk'[t].coh.sharers = coh.sharers /\ trk'[t].blk = b /\ Serving(t, b)'
      <4>1. /\ trk'[t].coh = on_hit /\ trk'[t].state \in {"s_inner_probe", "s_busy"}
        BY <1>11, <3>1
      <4> QED BY <1>10, <1>11, <4>1 DEF Serving
    <3> QED BY <1>1, <2>1, <2>3, <3>1, <3>2 DEF Listed, Lists
  <2> QED BY <2>2, <2>3
<1>27. SharersProbed'
  <2>1. trk'[t].state = "s_inner_probe" => trk'[t].coh.sharers \subseteq trk'[t].iprbs \cup {trk'[t].client}
    BY <1>10, <1>11
  <2>2. ASSUME NEW u \in Tracker, trk'[u].state = "s_inner_probe", isWrite(trk'[u].kind)
        PROVE  trk'[u].coh.sharers \subseteq trk'[u].iprbs \cup Out(trk[u].blk)' \cup {trk'[u].client}
    <3>1. CASE u = t
      BY <2>1, <2>2, <3>1
    <3>2. CASE u # t
      BY <1>11, <1>22, <2>2, <3>2 DEF SharersProbed
    <3> QED BY <3>1, <3>2
  <2> QED BY <1>1, <1>22, <2>2 DEF SharersProbed
<1>28. SharedInDirectory'
  <2>1. \A u \in Tracker : \A x : Serving(u, x) /\ trk[u].state # "s_inner_probe"
          => Serving(u, x)' /\ trk'[u].state # "s_inner_probe"
    BY <1>1, <1>11 DEF Serving
  <2> QED BY <1>1, <2>1, SameCopies DEF SharedInDirectory
<1>29. n \in L2Match(b) /\ Two(coh.sharers) => AllShared(b)
  BY <1>2, <1>4, <1>5, <1>6, <1>23, L2CacheAssumption DEF SharedInDirectory
<1>30. coh.sharers = {} => AllShared(b)
  <2>1. coh.sharers = {} => \A d \in Client : ~ Entitled(d, b)
    BY <1>25
  <2> QED BY <2>1, TypeFacts DEF AllShared, Owns, Entitled, Holds
<1>31. SharedInTracker'
  <2>1. ASSUME trk'[t].state \in {"s_busy", "s_meta_write"} PROVE SharedInTracker!(t)!2'
    <3>1. /\ n \in L2Match(b) /\ trk'[t].coh.sharers = coh.sharers
          /\ ~ requiresProbes(k.kind, coh.sharers)
      BY <1>10, <1>11, <2>1
    <3>2. coh.sharers \in SUBSET Client
      BY DEF Coh
    <3>3. coh.sharers = {} \/ Two(coh.sharers)
      BY <3>1, <3>2, CardFacts DEF requiresProbes
    <3>4. isWrite(k.kind) => coh.sharers = {}
      <4>1. Two(coh.sharers) => Cardinality(coh.sharers) > 1
        BY <3>2, CardFacts
      <4> QED BY <3>1, <3>3, <4>1 DEF requiresProbes
    <3>5. AllShared(b)'
      BY <1>1, <1>29, <1>30, <3>1, <3>3, SameCopies
    <3> QED BY <1>11, <3>1, <3>4, <3>5
  <2>2. ASSUME NEW u \in Tracker, u # t, trk'[u].state \in {"s_busy", "s_meta_write"}
        PROVE  SharedInTracker!(u)!2'
    <3>1. trk'[u] = trk[u]
      BY <1>11, <2>2
    <3> QED BY <1>1, <2>2, <3>1, SameCopies DEF SharedInTracker, Two
  <2> QED BY <2>1, <2>2 DEF SharedInTracker
<1>32. DowngradesPending'
  <2> SUFFICES ASSUME NEW u \in Tracker, trk'[u].state = "s_inner_probe", trk'[u].kind = "acquireShared",
                      NEW d \in Client, Owns(d, trk[u].blk)
               PROVE  d \in trk'[u].iprbs \/ Probed(d, trk[u].blk)
    BY <1>1, <1>13, SameCopies DEF DowngradesPending, Probed
  <2>1. CASE u # t
    BY <1>11, <2>1 DEF DowngradesPending
  <2>2. CASE u = t
    <3>1. Entitled(d, b)
      BY <1>2, <2>2 DEF Entitled, Holds, Owns
    <3>2. d \in coh.sharers /\ trk'[t].iprbs = coh.sharers \ {k.client}
      BY <1>11, <1>25, <2>2, <3>1
    <3>3. d # k.client
      <4>1. SUFFICES ASSUME d = k.client PROVE FALSE
        OBVIOUS
      <4>2. AtTracker(d, t) /\ k.kind = "acquireShared"
        BY <1>7, <1>11, <1>12, <1>13, <2>2, <4>1 DEF AtTracker
      <4>3. mshr[d].state = "s_refill_resp" /\ mshr[d].blk = b /\ mshr[d].cmd # "store"
        BY <1>2, <1>7, <4>2 DEF AcquireTokens, Asks, getAcquireType
      <4>4. PICK w \in L1Way : Live(d, w) /\ l1[d][w].tag = b /\ l1[d][w].st # "S"
        BY <1>2, <2>2, <4>3 DEF Owns, WritebackTokens
      <4>5. l1[d][w].st # "I" /\ w = mshr[d].way
        BY <1>2, <4>3, <4>4 DEF Live, L1Shape
      <4> QED BY <4>3, <4>4, <4>5 DEF L1Shape
    <3> QED BY <2>2, <3>2, <3>3
  <2> QED BY <2>1, <2>2
<1> QED BY <1>1, <1>14, <1>15, <1>17, <1>18, <1>19, <1>20, <1>21, <1>22, <1>24, <1>26, <1>27,
           <1>28, <1>31, <1>32, SameCopies, Frames

\* The write-back unit starts with everyone the directory has for the victim.
LEMMA WbReqInv ==
  ASSUME IInv, NEW t \in Tracker, WbReq(t)
  PROVE  IInv'
<1> USE DEF IInv
<1>1. /\ UNCHANGED <<l1, mshr, fq, unc, acq, rel, prb, gnt, meta, data, rt, mem, latest>>
      /\ trk[t].state = "s_wb_req" /\ wb.state = "s_idle" /\ rt.state = "s_idle"
      /\ trk' = [trk EXCEPT ![t].state = "s_wb_resp", ![t].victim = NoBlock, ![t].old = cohOnReset]
  BY DEF WbReq, l1vars, wb_req_enable
<1>2. PICK k \in TrackerRec(Int) : k = trk[t]
  BY DEF Types
<1>3. /\ k.victim \in Block /\ meta[k.line].tag = k.victim /\ k.line \in Line
      /\ meta[k.line].coh.sharers \subseteq k.old.sharers /\ k.old \in Coh
      /\ k.old.sharers \subseteq Client
  BY <1>1, <1>2 DEF TrackerShape, TrackerRec, Coh
<1>4. PICK b \in Block : b = k.victim
  BY <1>3
<1>5. PICK s \in {"s_inner_probe", "s_busy", "s_wb_resp"} :
        s = IF k.old.sharers # {} THEN "s_inner_probe"
            ELSE IF k.old.dirty THEN "s_busy" ELSE "s_wb_resp"
  OBVIOUS
<1>6. wb' = [NoWb EXCEPT !.trk = t, !.blk = b, !.line = k.line, !.coh = k.old,
                         !.iprbs = k.old.sharers, !.state = s]
  BY <1>2, <1>4, <1>5 DEF WbReq
<1>7. /\ wb' \in WbRec(Int) /\ wb'.state = s /\ wb'.trk = t /\ wb'.blk = b /\ wb'.line = k.line
      /\ wb'.coh = k.old /\ wb'.iprbs = k.old.sharers /\ wb'.irels = 0 /\ wb'.vol = NoClient
  <2>1. NoWb \in WbRec(Int) /\ NoWb.irels = 0 /\ NoWb.vol = NoClient
    BY IdleTypes DEF NoWb
  <2> QED BY <1>3, <1>6, <2>1 DEF WbRec
<1>8. /\ trk' \in [Tracker -> TrackerRec(Int)]
      /\ \A u \in Tracker : u # t => trk'[u] = trk[u]
      /\ trk'[t].state = "s_wb_resp" /\ trk'[t].victim = NoBlock
      /\ trk'[t].client = k.client /\ trk'[t].blk = k.blk /\ trk'[t].kind = k.kind
      /\ trk'[t].line = k.line /\ trk'[t].meta_write = k.meta_write
      /\ trk'[t].iprbs = k.iprbs /\ trk'[t].irels = k.irels
      /\ trk'[t].vol = k.vol /\ trk'[t].gnt = k.gnt
  <2>1. trk \in [Tracker -> TrackerRec(Int)] /\ cohOnReset \in Coh
    BY IdleTypes DEF Types
  <2> QED BY <1>1, <1>2, <2>1 DEF TrackerRec
<1>9. /\ Busy(t) /\ \A u \in Tracker : (Busy(u)' <=> Busy(u)) /\ trk'[u].blk = trk[u].blk
      /\ \A u \in Tracker : \A x : (Serving(u, x)' <=> Serving(u, x))
      /\ \A u \in Tracker : Serving(u, trk[u].blk) => u # t
  BY <1>1, <1>2, <1>8 DEF Busy, Serving
<1>10. Types(Int)'
  BY <1>1, <1>7, <1>8 DEF Types
<1>11. SetsApart'
  BY <1>9 DEF SetsApart
<1>12. ASSUME NEW u \in Tracker PROVE TrackerShape(u)'
  <2>1. Resident(trk[u].blk)' <=> Resident(trk[u].blk)
    BY <1>1, <1>9 DEF Resident
  <2>2. CASE u # t
    <3>1. trk'[u] = trk[u] /\ trk[u].state # "s_wb_resp"
      BY <1>1, <1>8, <2>2 DEF TrackerShape
    <3> QED BY <1>1, <3>1, TrackerFrame
  <2>3. CASE u = t
    BY <1>1, <1>2, <1>7, <1>8, <2>1, <2>3 DEF TrackerShape, Busy
  <2> QED BY <2>2, <2>3
<1>13. RtShape'
  BY <1>1 DEF RtShape
<1>14. WbShape'
  BY <1>1, <1>3, <1>4, <1>5, <1>7, <1>8 DEF WbShape
<1>15. WritebackTokens'
  <2>1. \A u \in Tracker : trk'[u].vol = trk[u].vol
    BY <1>2, <1>8
  <2> QED BY <1>1, <1>7, <2>1, L2CacheAssumption, WritebackFrame
<1>16. AcquireTokens' /\ GrantsAlone'
  <2>1. \A d \in Client, u \in Tracker :
          AtTracker(d, u)' => AtTracker(d, u) /\ trk'[u].blk = trk[u].blk /\ trk'[u].kind = trk[u].kind
    BY <1>2, <1>8, <1>9 DEF AtTracker
  <2>2. \A d \in Client, u \in Tracker : Granted(d, u) => Granted(d, u)' /\ trk'[u] = trk[u]
    BY <1>1, <1>8 DEF Granted
  <2> QED BY <1>1, <2>1, <2>2, RequestFrame
<1>17. ProbesMatched' /\ \A x : Out(x)' = Out(x)
  <2>1. \A d \in Client, x \in Block : \A q : Prober(d, x, q) => Prober(d, x, q)'
    BY <1>1, <1>8 DEF Prober
  <2> QED BY <1>1, <2>1, ProbeFrame
<1>18. \A u \in Tracker : Busy(u) => trk[u].blk # b
  <2>1. \A u \in Tracker : Busy(u) /\ trk[u].blk = b => u = t
    BY <1>1, <1>2, <1>3, <1>4, OneUnit
  <2>2. trk[t].blk # b
    BY <1>1, <1>2, <1>3, <1>4 DEF TrackerShape, Resident
  <2> QED BY <2>1, <2>2
<1>19. Out(b) = {}
  <2>1. \A d \in Client : \A q : ~ Prober(d, b, q)
    BY <1>1, <1>18 DEF Prober, Busy
  <2>2. \A d \in Client : ~ Probed(d, b)
    BY <2>1 DEF Probed, ProbesMatched
  <2>3. \A d \in Client : ~ Answered(d, b)
    BY <2>1 DEF Answered, AnsMsg, ProbesMatched
  <2> QED BY <2>2, <2>3 DEF Out
<1>20. ProbesCounted'
  <2>1. wb'.irels = Cardinality(Out(b)')
    BY <1>7, <1>17, <1>19, FS_EmptySet
  <2> QED BY <1>1, <1>7, <1>8, <1>17, <2>1 DEF ProbesCounted
<1>21. Listed'
  <2> SUFFICES ASSUME NEW d \in Client, NEW x \in Block, Entitled(d, x)
               PROVE  Lists(d, x)'
    BY <1>1, SameCopies DEF Listed
  <2>1. \A u \in Tracker : trk'[u].state \in {"s_inner_probe", "s_outer_acquire", "s_busy", "s_meta_write"}
          => trk'[u] = trk[u]
    BY <1>8
  <2>2. x = b => s = "s_inner_probe" /\ d \in k.old.sharers
    <3>1. x = b => \E n \in Line : meta[n].tag = b /\ d \in meta[n].coh.sharers
      BY <1>18 DEF Listed, Lists, Serving, Busy
    <3>2. x = b => d \in k.old.sharers
      BY <1>3, <1>4, <3>1, L2CacheAssumption DEF MetaShape
    <3> QED BY <1>5, <3>2
  <2>3. Lists(d, x)
    BY DEF Listed
  <2>4. Lists(d, x)!1' /\ Lists(d, x)!2'
    BY <1>1, <1>9, <2>1, <2>3 DEF Lists, Serving
  <2>5. Lists(d, x)!3'
    BY <1>7, <2>2
  <2>6. Lists(d, x)!4' /\ Lists(d, x)!5'
    BY <1>1, <2>1, <2>3 DEF Lists
  <2> QED BY <2>4, <2>5, <2>6 DEF Lists
<1>22. SharersProbed'
  <2>1. \A u \in Tracker : trk'[u].state = "s_inner_probe" => trk'[u] = trk[u]
    BY <1>8
  <2> QED BY <1>7, <1>17, <2>1 DEF SharersProbed
<1>23. SharedInDirectory'
  <2>1. \A u \in Tracker : \A x : Serving(u, x) /\ trk[u].state # "s_inner_probe"
          => Serving(u, x)' /\ trk'[u].state # "s_inner_probe"
    BY <1>1, <1>8 DEF Serving
  <2> QED BY <1>1, <2>1, SameCopies DEF SharedInDirectory
<1>24. SharedInTracker'
  <2>1. \A u \in Tracker : trk'[u].state \in {"s_busy", "s_meta_write"} => trk'[u] = trk[u]
    BY <1>8
  <2> QED BY <1>1, <2>1, SameCopies, ZenonT(30) DEF SharedInTracker, Two
<1>25. DowngradesPending'
  <2>1. \A u \in Tracker : trk'[u].state = "s_inner_probe" => trk'[u] = trk[u]
    BY <1>8
  <2>2. \A d, x : Probed(d, x)' <=> Probed(d, x)
    BY <1>1 DEF Probed
  <2> QED BY <1>1, <2>1, <2>2, SameCopies, PermissionFrame
<1> QED BY <1>1, <1>10, <1>11, <1>12, <1>13, <1>14, <1>15, <1>16, <1>17, <1>20, <1>21, <1>22,
           <1>23, <1>24, <1>25, SameCopies, Frames

\* A probe goes to a client that has none, nor an answer, of this transaction under way.
LEMMA ProbeSent ==
  ASSUME Types(Int), ProbesMatched, NEW c \in Client, NEW p \in ProbeMsg, UNCHANGED rel,
         prb' = [prb EXCEPT ![c] = Append(@, p)], c \notin Out(p.blk),
         Prober(c, p.blk, p.ptype)',
         \A d \in Client, b \in Block : \A q :
           Prober(d, b, q) /\ ~ (d = c /\ b = p.blk) => Prober(d, b, q)'
  PROVE  /\ prb' \in [Client -> Seq(ProbeMsg)]
         /\ ProbesMatched'
         /\ \A d \in Client : \A b : Probed(d, b)' <=> Probed(d, b) \/ (d = c /\ b = p.blk)
         /\ Out(p.blk)' = Out(p.blk) \cup {c}
         /\ \A b : b # p.blk => Out(b)' = Out(b)
<1>1. /\ prb' \in [Client -> Seq(ProbeMsg)]
      /\ \A d \in Client : d # c => prb'[d] = prb[d]
      /\ Len(prb[c]) + 1 \in DOMAIN prb'[c] /\ prb'[c][Len(prb[c]) + 1] = p
      /\ \A i \in DOMAIN prb[c] : i \in DOMAIN prb'[c] /\ i # Len(prb[c]) + 1 /\ prb'[c][i] = prb[c][i]
      /\ \A i \in DOMAIN prb'[c] : i # Len(prb[c]) + 1 => i \in DOMAIN prb[c]
  <2>1. prb \in [Client -> Seq(ProbeMsg)] /\ prb[c] \in Seq(ProbeMsg)
    BY DEF Types
  <2>2. Append(prb[c], p) \in Seq(ProbeMsg)
    BY <2>1
  <2>3. /\ prb' \in [Client -> Seq(ProbeMsg)] /\ prb'[c] = Append(prb[c], p)
        /\ \A d \in Client : d # c => prb'[d] = prb[d]
    BY <2>1, <2>2
  <2> QED BY <2>1, <2>3, AppendFacts
<1>2. \A d, b : Answered(d, b)' <=> Answered(d, b)
  BY DEF Answered, AnsMsg
<1>3. \A d \in Client : \A b : Probed(d, b)' <=> Probed(d, b) \/ (d = c /\ b = p.blk)
  BY <1>1 DEF Probed
<1>4. ~ Probed(c, p.blk) /\ ~ Answered(c, p.blk)
  BY DEF Out
<1>5. Out(p.blk)' = Out(p.blk) \cup {c} /\ \A b : b # p.blk => Out(b)' = Out(b)
  BY <1>2, <1>3 DEF Out
<1>6. ASSUME NEW d \in Client, NEW i \in DOMAIN prb'[d] PROVE ProbesMatched!1!(d)!(i)'
  <2>1. CASE d = c /\ i = Len(prb[c]) + 1
    <3>1. prb'[d][i] = p /\ ~ Answered(d, p.blk)'
      BY <1>1, <1>2, <1>4, <2>1
    <3>2. \A j \in DOMAIN prb'[d] : prb'[d][j].blk = p.blk => i = j
      BY <1>1, <1>4, <2>1 DEF Probed
    <3> QED BY <2>1, <3>1, <3>2
  <2>2. CASE ~ (d = c /\ i = Len(prb[c]) + 1)
    <3>1. i \in DOMAIN prb[d] /\ prb'[d][i] = prb[d][i] /\ ~ (d = c /\ prb[d][i].blk = p.blk)
      BY <1>1, <1>4, <2>2 DEF Probed
    <3>2. /\ Prober(d, prb[d][i].blk, prb[d][i].ptype) /\ ~ Answered(d, prb[d][i].blk)
          /\ \A j \in DOMAIN prb[d] : prb[d][i].blk = prb[d][j].blk => i = j
      BY <3>1 DEF ProbesMatched
    <3>3. \A j \in DOMAIN prb'[d] : prb'[d][i].blk = prb'[d][j].blk => i = j
      BY <1>1, <3>1, <3>2
    <3>4. prb[d][i].blk \in Block
      BY <3>1, TypeFacts
    <3> QED BY <1>2, <3>1, <3>2, <3>3, <3>4
  <2> QED BY <2>1, <2>2
<1>7. ASSUME NEW i \in DOMAIN rel, ~ rel[i].voluntary
      PROVE  /\ Prober(rel[i].client, rel[i].blk, rel[i].ptype)'
             /\ \A j \in DOMAIN rel : AnsMsg(rel[i].client, rel[i].blk, j)' => i = j
  <2>1. ~ (rel[i].client = c /\ rel[i].blk = p.blk)
    BY <1>4, <1>7 DEF Answered, AnsMsg
  <2> QED BY <1>7, <2>1, TypeFacts DEF ProbesMatched, AnsMsg
<1> QED BY <1>1, <1>3, <1>5, <1>6, <1>7 DEF ProbesMatched

\* A probe is sent and counted.
LEMMA SendProbeInv ==
  ASSUME IInv, NEW t \in Tracker, NEW c \in Client, SendProbe(t, c)
  PROVE  IInv'
<1> USE DEF IInv
<1>1. /\ UNCHANGED <<l1, mshr, fq, unc, acq, rel, gnt, meta, data, rt, wb, mem, latest>>
      /\ trk[t].state = "s_inner_probe" /\ c \in trk[t].iprbs
      /\ trk' = [trk EXCEPT ![t].iprbs = @ \ {c}, ![t].irels = @ + 1]
  BY DEF SendProbe, l1vars
<1>2. PICK k \in TrackerRec(Int) : k = trk[t]
  BY DEF Types
<1>3. PICK b \in Block : b = k.blk
  BY <1>1, <1>2 DEF TrackerShape, Busy
<1>4. [blk |-> b, ptype |-> getProbeType(k.kind)] \in ProbeMsg
  BY PolicyTypes DEF ProbeMsg, TrackerRec
<1>5. PICK p \in ProbeMsg : p = [blk |-> b, ptype |-> getProbeType(k.kind)]
  BY <1>4
<1>6. p.blk = b /\ p.ptype = getProbeType(k.kind) /\ prb' = [prb EXCEPT ![c] = Append(@, p)]
  BY <1>2, <1>3, <1>5 DEF SendProbe
<1>7. /\ trk' \in [Tracker -> TrackerRec(Int)]
      /\ \A u \in Tracker : u # t => trk'[u] = trk[u]
      /\ trk'[t].state = "s_inner_probe" /\ trk'[t].iprbs = k.iprbs \ {c} /\ trk'[t].irels = k.irels + 1
      /\ trk'[t].client = k.client /\ trk'[t].blk = b /\ trk'[t].kind = k.kind
      /\ trk'[t].line = k.line /\ trk'[t].coh = k.coh /\ trk'[t].meta_write = k.meta_write
      /\ trk'[t].vol = k.vol /\ trk'[t].gnt = k.gnt
  <2>1. trk \in [Tracker -> TrackerRec(Int)]
    BY DEF Types
  <2> QED BY <1>1, <1>2, <1>3, <2>1 DEF TrackerRec
<1>8. /\ \A u \in Tracker : (Busy(u)' <=> Busy(u)) /\ trk'[u].blk = trk[u].blk
      /\ \A u \in Tracker : \A x : (Serving(u, x)' <=> Serving(u, x))
      /\ Busy(t)
  BY <1>1, <1>2, <1>3, <1>7 DEF Busy, Serving
<1>9. /\ \A u \in Tracker : Busy(u) /\ trk[u].blk = b => u = t
      /\ ~ (wb.state # "s_idle" /\ wb.blk = b)
  <2>1. \A u \in Tracker : Busy(u) /\ trk[u].blk = b => u = t
    BY <1>2, <1>3, <1>8, OneUnit
  <2> QED BY <1>1, <1>2, <1>3, <1>8, <2>1, OneUnit DEF WbShape
<1>10. c \notin Out(b)
  <2>1. \A q : ~ Prober(c, b, q)
    BY <1>1, <1>2, <1>9 DEF Prober, Busy
  <2>2. ~ Probed(c, b)
    BY <2>1 DEF Probed, ProbesMatched
  <2>3. ~ Answered(c, b)
    BY <2>1 DEF Answered, AnsMsg, ProbesMatched
  <2> QED BY <2>2, <2>3 DEF Out
<1>11. /\ prb' \in [Client -> Seq(ProbeMsg)]
       /\ ProbesMatched'
       /\ \A d \in Client : \A x : Probed(d, x)' <=> Probed(d, x) \/ (d = c /\ x = b)
       /\ Out(b)' = Out(b) \cup {c}
       /\ \A x : x # b => Out(x)' = Out(x)
  <2>1. Prober(c, p.blk, p.ptype)'
    BY <1>1, <1>6, <1>7 DEF Prober
  <2>2. \A d \in Client, x \in Block : \A q : Prober(d, x, q) => Prober(d, x, q)'
    BY <1>1, <1>2, <1>3, <1>7 DEF Prober
  <2> QED BY <1>1, <1>6, <1>10, <2>1, <2>2, ProbeSent
<1>12. Types(Int)'
  BY <1>1, <1>7, <1>11 DEF Types
<1>13. SetsApart'
  BY <1>8 DEF SetsApart
<1>14. ASSUME NEW u \in Tracker PROVE TrackerShape(u)'
  <2>1. CASE u # t
    BY <1>1, <1>7, <2>1, TrackerFrame
  <2>2. CASE u = t
    <3>1. Resident(b)' <=> Resident(b)
      BY <1>1 DEF Resident
    <3> QED BY <1>1, <1>2, <1>3, <1>7, <2>2, <3>1 DEF TrackerShape, Busy
  <2> QED BY <2>1, <2>2
<1>15. RtShape'
  <2>1. \A u \in Tracker : trk'[u].line = trk[u].line /\ trk'[u].state = trk[u].state
    BY <1>1, <1>2, <1>7
  <2> QED BY <1>1, <1>8, <2>1, RtFrame
<1>16. WbShape'
  BY <1>1, <1>7 DEF WbShape
<1>17. WritebackTokens'
  <2>1. \A u \in Tracker : trk'[u].vol = trk[u].vol
    BY <1>2, <1>7
  <2> QED BY <1>1, <2>1, WritebackFrame
<1>18. AcquireTokens' /\ GrantsAlone'
  <2>1. \A d \in Client, u \in Tracker :
          /\ AtTracker(d, u)' =>
               AtTracker(d, u) /\ trk'[u].blk = trk[u].blk /\ trk'[u].kind = trk[u].kind
          /\ Granted(d, u) => u # t
    BY <1>1, <1>2, <1>7, <1>8 DEF AtTracker, Granted
  <2>2. \A d \in Client, u \in Tracker : Granted(d, u) => Granted(d, u)' /\ trk'[u] = trk[u]
    BY <1>7, <2>1 DEF Granted
  <2> QED BY <1>1, <2>1, <2>2, RequestFrame
<1>19. ProbesCounted'
  <2>1. k.irels = Cardinality(Out(b)) /\ k.irels \in Int
    BY <1>1, <1>2, <1>3 DEF ProbesCounted, TrackerRec
  <2>2. trk'[t].irels = Cardinality(Out(b)')
    <3>1. Out(b) \in SUBSET Client
      BY DEF Out
    <3> QED BY <1>7, <1>10, <1>11, <2>1, <3>1, CardFacts
  <2>3. \A u \in Tracker : u # t /\ trk'[u].state = "s_inner_probe" => Out(trk[u].blk)' = Out(trk[u].blk)
    BY <1>7, <1>8, <1>9, <1>11 DEF Busy
  <2>4. wb.state = "s_inner_probe" => Out(wb.blk)' = Out(wb.blk)
    BY <1>1, <1>9, <1>11
  <2>5. ASSUME NEW u \in Tracker, trk'[u].state = "s_inner_probe"
        PROVE  trk'[u].irels = Cardinality(Out(trk[u].blk)')
    <3>1. CASE u = t
      BY <1>7, <2>2, <3>1
    <3>2. CASE u # t
      BY <1>7, <2>3, <2>5, <3>2 DEF ProbesCounted
    <3> QED BY <3>1, <3>2
  <2> QED BY <1>1, <1>8, <2>4, <2>5 DEF ProbesCounted
<1>20. Listed'
  <2>1. \A d \in Client, x \in Block : Entitled(d, x)' <=> Entitled(d, x)
    BY <1>1, SameCopies
  <2>2. \A u \in Tracker : trk'[u].coh = trk[u].coh /\ trk'[u].state = trk[u].state
                           /\ trk'[u].line = trk[u].line
    BY <1>1, <1>2, <1>7
  <2> QED BY <1>1, <1>8, <2>1, <2>2, ListedFrame
<1>21. SharersProbed'
  <2>1. ASSUME NEW u \in Tracker, trk'[u].state = "s_inner_probe", isWrite(trk'[u].kind)
        PROVE  trk'[u].coh.sharers \subseteq trk'[u].iprbs \cup Out(trk[u].blk)' \cup {trk'[u].client}
    <3>1. CASE u = t
      BY <1>1, <1>2, <1>3, <1>7, <1>11, <2>1, <3>1, ZenonT(30) DEF SharersProbed
    <3>2. CASE u # t
      <4>1. trk'[u] = trk[u] /\ trk[u].blk # b
        BY <1>7, <1>9, <2>1, <3>2 DEF Busy
      <4> QED BY <1>11, <2>1, <4>1 DEF SharersProbed
    <3> QED BY <3>1, <3>2
  <2>2. wb.state = "s_inner_probe" => wb.blk # b
    BY <1>9
  <2> QED BY <1>1, <1>11, <2>1, <2>2 DEF SharersProbed
<1>22. SharedInDirectory'
  <2>1. \A u \in Tracker : trk'[u].state = trk[u].state
    BY <1>1, <1>7
  <2> QED BY <1>1, <1>8, <2>1, SameCopies DEF SharedInDirectory, Two
<1>23. SharedInTracker'
  <2>1. \A u \in Tracker : trk'[u].state \in {"s_busy", "s_meta_write"} => trk'[u] = trk[u]
    BY <1>7
  <2> QED BY <1>1, <2>1, SameCopies, PermissionFrame
<1>24. DowngradesPending'
  <2> SUFFICES ASSUME NEW u \in Tracker, trk'[u].state = "s_inner_probe",
                      trk'[u].kind = "acquireShared", NEW d \in Client, Owns(d, trk[u].blk)
               PROVE  d \in trk'[u].iprbs \/ Probed(d, trk[u].blk)'
    BY <1>1, <1>8, SameCopies DEF DowngradesPending
  <2>1. CASE u # t
    BY <1>7, <1>11, <2>1 DEF DowngradesPending
  <2>2. CASE u = t
    BY <1>1, <1>2, <1>3, <1>7, <1>11, <2>2 DEF DowngradesPending
  <2> QED BY <2>1, <2>2
<1> QED BY <1>1, <1>11, <1>12, <1>13, <1>14, <1>15, <1>16, <1>17, <1>18, <1>19, <1>20, <1>21,
           <1>22, <1>23, <1>24, SameCopies, Frames

\* A write-back moves from the release channel to the unit that takes it.
LEMMA WritebackMoved ==
  ASSUME WritebackTokens, UNCHANGED <<l1, mshr, gnt>>, NEW c,
         \A i \in DOMAIN rel' : i \in Nat /\ i + 1 \in DOMAIN rel /\ rel'[i] = rel[i + 1],
         \A i \in DOMAIN rel' : rel'[i].voluntary => rel'[i].client # c,
         \A d \in Client :
           /\ \A u \in Tracker : trk'[u].vol = d => trk[u].vol = d \/ d = c
           /\ wb'.vol = d => wb.vol = d \/ d = c
           /\ AtRt(d)' => AtRt(d) \/ d = c,
         c \in Client =>
           /\ mshr[c].state = "s_wb_resp" /\ gnt[c] = <<>>
           /\ \A u \in Tracker : trk'[u].vol = c =>
                wb'.vol # c /\ ~ AtRt(c)' /\ \A v \in Tracker : trk'[v].vol = c => u = v
           /\ wb'.vol = c => ~ AtRt(c)'
  PROVE  WritebackTokens'
<1> SUFFICES ASSUME NEW d \in Client PROVE WritebackTokens!(d)'
  BY DEF WritebackTokens
<1>1. \A i \in DOMAIN rel' : VolMsg(d, i)' => i + 1 \in DOMAIN rel /\ VolMsg(d, i + 1) /\ d # c /\ i \in Nat
  BY DEF VolMsg
<1>2. WritebackTokens!(d)!1'
  <2> SUFFICES ASSUME NEW i \in DOMAIN rel', VolMsg(d, i)' PROVE WritebackTokens!(d)!1!(i)!2'
    OBVIOUS
  <2>1. /\ mshr[d].state = "s_wb_resp" /\ gnt[d] = <<>>
        /\ rel[i + 1].blk = l1[d][mshr[d].way].tag /\ rel[i + 1].ptype = "probeInvalidate"
        /\ \A j \in DOMAIN rel : VolMsg(d, j) => i + 1 = j
        /\ \A t \in Tracker : trk[t].vol # d
        /\ wb.vol # d /\ ~ AtRt(d)
    BY <1>1 DEF WritebackTokens
  <2>2. \A j \in DOMAIN rel' : VolMsg(d, j)' => i = j
    <3> TAKE j \in DOMAIN rel'
    <3> HAVE VolMsg(d, j)'
    <3>1. i + 1 = j + 1 /\ i \in Nat /\ j \in Nat
      BY <1>1, <2>1
    <3> QED BY <3>1
  <2> QED BY <1>1, <2>1, <2>2
<1>3. WritebackTokens!(d)!2'
  BY DEF WritebackTokens
<1>4. WritebackTokens!(d)!3' /\ WritebackTokens!(d)!4' /\ WritebackTokens!(d)!5'
  BY DEF WritebackTokens
<1> QED BY <1>2, <1>3, <1>4

\* A release is taken from its channel.
LEMMA ReleaseTaken ==
  ASSUME IInv, rel # <<>>, rel' = Tail(rel), UNCHANGED <<l1, mshr, prb>>,
         NEW r \in ReleaseMsg, r = Head(rel)
  PROVE  /\ rel' \in Seq(ReleaseMsg) /\ r.client \in Client /\ r.blk \in Block
         /\ \A i \in DOMAIN rel' : i \in Nat /\ i + 1 \in DOMAIN rel /\ rel'[i] = rel[i + 1]
         /\ r.voluntary =>
              /\ r.ptype = "probeInvalidate" /\ VolMsg(r.client, 1) /\ 1 \in DOMAIN rel /\ rel[1] = r
              /\ mshr[r.client].state = "s_wb_resp" /\ gnt[r.client] = <<>>
              /\ \A i \in DOMAIN rel' : rel'[i].voluntary => rel'[i].client # r.client
              /\ \A t \in Tracker : trk[t].vol # r.client
              /\ wb.vol # r.client /\ ~ AtRt(r.client)
         /\ \A d \in Client, b \in Block : Entitled(d, b)' => Entitled(d, b)
         /\ \A d \in Client, b \in Block : Owns(d, b)' => Owns(d, b)
         /\ Entitled(r.client, r.blk)' => r.ptype # "probeInvalidate"
         /\ AnswerersOut'
         /\ \A b : Out(b)' = IF r.voluntary \/ b # r.blk THEN Out(b) ELSE Out(b) \ {r.client}
         /\ ~ r.voluntary => r.client \in Out(r.blk) /\ Prober(r.client, r.blk, r.ptype)
         /\ (\A d \in Client, b \in Block : \A q : Prober(d, b, q) => Prober(d, b, q)') => ProbesMatched'
<1> USE DEF IInv
<1>1. /\ rel' \in Seq(ReleaseMsg) /\ 1 \in DOMAIN rel /\ rel[1] = r
      /\ \A i \in DOMAIN rel' : i \in Nat /\ i + 1 \in DOMAIN rel /\ rel'[i] = rel[i + 1]
      /\ \A i \in DOMAIN rel : i # 1 => i - 1 \in DOMAIN rel' /\ rel'[i - 1] = rel[i]
  <2>1. rel \in Seq(ReleaseMsg)
    BY DEF Types
  <2> QED BY <2>1, TailFacts
<1>2. r.client \in Client /\ r.blk \in Block
  BY DEF ReleaseMsg
<1>3. \A d \in Client, x \in L1Way : Live(d, x)' <=> Live(d, x)
  BY DEF Live
<1>4. \A d : \A i \in DOMAIN rel' : VolMsg(d, i)' => i + 1 \in DOMAIN rel /\ VolMsg(d, i + 1) /\ rel'[i] = rel[i + 1]
  BY <1>1 DEF VolMsg
<1>5. /\ \A d \in Client, b \in Block : Entitled(d, b)' => Entitled(d, b)
      /\ \A d \in Client, b \in Block : Owns(d, b)' => Owns(d, b)
  BY <1>3, <1>4 DEF Entitled, Holds, Owns
<1>6. ASSUME r.voluntary
      PROVE  /\ r.ptype = "probeInvalidate" /\ VolMsg(r.client, 1)
             /\ mshr[r.client].state = "s_wb_resp" /\ gnt[r.client] = <<>>
             /\ r.blk = l1[r.client][mshr[r.client].way].tag
             /\ \A i \in DOMAIN rel' : rel'[i].voluntary => rel'[i].client # r.client
             /\ \A t \in Tracker : trk[t].vol # r.client
             /\ wb.vol # r.client /\ ~ AtRt(r.client)
  <2>1. VolMsg(r.client, 1)
    BY <1>1, <1>6 DEF VolMsg
  <2>2. \A j \in DOMAIN rel : VolMsg(r.client, j) => 1 = j
    BY <1>1, <1>2, <2>1 DEF WritebackTokens
  <2>3. \A i \in DOMAIN rel' : i + 1 # 1
    BY <1>1
  <2>4. \A i \in DOMAIN rel' : rel'[i].voluntary => rel'[i].client # r.client
    BY <1>1, <2>2, <2>3 DEF VolMsg
  <2> QED BY <1>1, <1>2, <2>1, <2>4 DEF WritebackTokens
<1>7. Entitled(r.client, r.blk)' => r.ptype # "probeInvalidate"
  <2>1. CASE r.voluntary
    <3>1. mshr[r.client].way \in L1Way /\ l1[r.client][mshr[r.client].way].st # "I"
      BY <1>2, <1>6, <2>1, TypeFacts DEF L1Shape
    <3>2. ~ Holds(r.client, r.blk)'
      BY <1>2, <1>3, <1>6, <2>1, <3>1 DEF Holds, Live, L1Shape
    <3> QED BY <1>6, <2>1, <3>2 DEF Entitled, VolMsg
  <2>2. CASE ~ r.voluntary
    BY <1>1, <1>2, <1>5, <2>2 DEF AnswerersOut
  <2> QED BY <2>1, <2>2
<1>8. AnswerersOut'
  <2> SUFFICES ASSUME NEW i \in DOMAIN rel', ~ rel'[i].voluntary, rel'[i].ptype = "probeInvalidate"
               PROVE  ~ Entitled(rel[i].client, rel[i].blk)'
    BY DEF AnswerersOut
  <2> QED BY <1>1, <1>5, TypeFacts DEF AnswerersOut
<1>9. \A d, b : \A i \in DOMAIN rel' : AnsMsg(d, b, i)' => AnsMsg(d, b, i + 1)
  BY <1>1 DEF AnsMsg
<1>10. \A d, b : \A i \in DOMAIN rel : AnsMsg(d, b, i) /\ i # 1 => AnsMsg(d, b, i - 1)'
  BY <1>1 DEF AnsMsg
<1>11. ~ r.voluntary =>
         /\ AnsMsg(r.client, r.blk, 1) /\ r.client \in Out(r.blk) /\ Prober(r.client, r.blk, r.ptype)
         /\ \A j \in DOMAIN rel : AnsMsg(r.client, r.blk, j) => j = 1
         /\ ~ Probed(r.client, r.blk)
  BY <1>1, <1>2 DEF ProbesMatched, Out, Answered, AnsMsg, Probed
<1>12. \A d, b : Answered(d, b)' => Answered(d, b)
  BY <1>1, <1>9 DEF Answered
<1>13. \A d, b : Answered(d, b) => Answered(d, b)' \/ (~ r.voluntary /\ d = r.client /\ b = r.blk)
  <2>1. \A d, b : AnsMsg(d, b, 1) => ~ r.voluntary /\ d = r.client /\ b = r.blk
    BY <1>1 DEF AnsMsg
  <2> QED BY <1>1, <1>10, <2>1 DEF Answered
<1>14. ~ r.voluntary => ~ Answered(r.client, r.blk)'
  <2>1. \A i \in DOMAIN rel' : i + 1 # 1
    BY <1>1
  <2> QED BY <1>1, <1>9, <1>11, <2>1 DEF Answered
<1>15. \A d, b : Probed(d, b)' <=> Probed(d, b)
  BY DEF Probed
<1>16. \A b : Out(b)' = IF r.voluntary \/ b # r.blk THEN Out(b) ELSE Out(b) \ {r.client}
  <2>1. \A b : r.voluntary \/ b # r.blk => Out(b)' = Out(b)
    BY <1>12, <1>13, <1>15 DEF Out
  <2>2. ~ r.voluntary => Out(r.blk)' = Out(r.blk) \ {r.client}
    BY <1>11, <1>12, <1>13, <1>14, <1>15 DEF Out
  <2> QED BY <2>1, <2>2
<1>17. ASSUME \A d \in Client, b \in Block : \A q : Prober(d, b, q) => Prober(d, b, q)'
       PROVE  ProbesMatched'
  <2>1. ProbesMatched!1'
    BY <1>12, <1>17, TypeFacts DEF ProbesMatched
  <2>2. ASSUME NEW i \in DOMAIN rel', ~ rel'[i].voluntary PROVE ProbesMatched!2!(i)!2'
    <3>1. i + 1 \in DOMAIN rel /\ rel'[i] = rel[i + 1]
      BY <1>1
    <3>2. /\ Prober(rel[i + 1].client, rel[i + 1].blk, rel[i + 1].ptype)
          /\ \A j \in DOMAIN rel : AnsMsg(rel[i + 1].client, rel[i + 1].blk, j) => i + 1 = j
      BY <2>2, <3>1 DEF ProbesMatched
    <3>3. \A j \in DOMAIN rel' : AnsMsg(rel[i].client, rel[i].blk, j)' => i = j
      <4> TAKE j \in DOMAIN rel'
      <4> HAVE AnsMsg(rel[i].client, rel[i].blk, j)'
      <4>1. i + 1 = j + 1 /\ i \in Nat /\ j \in Nat
        BY <1>1, <3>1, <3>2 DEF AnsMsg
      <4> QED BY <4>1
    <3> QED BY <1>17, <3>1, <3>2, <3>3, TypeFacts
  <2> QED BY <2>1, <2>2 DEF ProbesMatched
<1> QED BY <1>1, <1>2, <1>5, <1>6, <1>7, <1>8, <1>11, <1>16, <1>17

\* An answer or a write-back reaches the tracker of its block.
LEMMA MergeReleaseInv ==
  ASSUME IInv, NEW t \in Tracker, MergeRelease(t)
  PROVE  IInv'
<1> USE DEF IInv
<1>1. /\ UNCHANGED <<l1, mshr, fq, unc, acq, prb, gnt, meta, rt, wb, mem, latest>>
      /\ rel # <<>> /\ rel' = Tail(rel) /\ rel \in Seq(ReleaseMsg)
  BY DEF MergeRelease, l1vars, Types
<1>2. PICK r \in ReleaseMsg : r = Head(rel)
  BY <1>1, TailFacts
<1>3. PICK k \in TrackerRec(Int) : k = trk[t]
  BY DEF Types
<1>4. /\ irel_matches(t, r.blk) /\ (irel_can_merge(t, r) \/ irel_same_xact(t, r))
      /\ trk' = [trk EXCEPT ![t] =
                  [UpdatePendingCoh(k, onRelease(k.coh, r)) EXCEPT
                     !.irels = IF r.voluntary THEN @ ELSE @ - 1,
                     !.vol = IF r.voluntary THEN r.client ELSE @]]
      /\ data' = IF r.data = NoValue THEN data ELSE [data EXCEPT ![trk[t].line] = r.data]
  <2>1. LET x == Head(rel) IN
        /\ irel_matches(t, x.blk) /\ (irel_can_merge(t, x) \/ irel_same_xact(t, x))
        /\ trk' = [trk EXCEPT ![t] =
                    [UpdatePendingCoh(trk[t], onRelease(trk[t].coh, x)) EXCEPT
                       !.irels = IF x.voluntary THEN @ ELSE @ - 1,
                       !.vol = IF x.voluntary THEN x.client ELSE @]]
        /\ data' = IF x.data = NoValue THEN data ELSE [data EXCEPT ![trk[t].line] = x.data]
    BY DEF MergeRelease
  <2> QED BY <1>2, <1>3, <2>1
<1>5. PICK b \in Block : b = r.blk
  BY DEF ReleaseMsg
<1>6. /\ rel' \in Seq(ReleaseMsg) /\ r.client \in Client
      /\ \A i \in DOMAIN rel' : i \in Nat /\ i + 1 \in DOMAIN rel /\ rel'[i] = rel[i + 1]
      /\ r.voluntary =>
           /\ r.ptype = "probeInvalidate" /\ VolMsg(r.client, 1) /\ 1 \in DOMAIN rel /\ rel[1] = r
           /\ mshr[r.client].state = "s_wb_resp" /\ gnt[r.client] = <<>>
           /\ \A i \in DOMAIN rel' : rel'[i].voluntary => rel'[i].client # r.client
           /\ \A u \in Tracker : trk[u].vol # r.client
           /\ wb.vol # r.client /\ ~ AtRt(r.client)
      /\ \A d \in Client, x \in Block : Entitled(d, x)' => Entitled(d, x)
      /\ \A d \in Client, x \in Block : Owns(d, x)' => Owns(d, x)
      /\ Entitled(r.client, b)' => r.ptype # "probeInvalidate"
      /\ AnswerersOut'
      /\ \A x : Out(x)' = IF r.voluntary \/ x # b THEN Out(x) ELSE Out(x) \ {r.client}
      /\ ~ r.voluntary => r.client \in Out(b) /\ Prober(r.client, b, r.ptype)
      /\ (\A d \in Client, x \in Block : \A q : Prober(d, x, q) => Prober(d, x, q)') => ProbesMatched'
  <2>1. /\ rel' \in Seq(ReleaseMsg) /\ r.client \in Client
        /\ \A i \in DOMAIN rel' : i \in Nat /\ i + 1 \in DOMAIN rel /\ rel'[i] = rel[i + 1]
        /\ r.voluntary =>
             /\ r.ptype = "probeInvalidate" /\ VolMsg(r.client, 1) /\ 1 \in DOMAIN rel /\ rel[1] = r
             /\ mshr[r.client].state = "s_wb_resp" /\ gnt[r.client] = <<>>
             /\ \A i \in DOMAIN rel' : rel'[i].voluntary => rel'[i].client # r.client
             /\ \A u \in Tracker : trk[u].vol # r.client
             /\ wb.vol # r.client /\ ~ AtRt(r.client)
        /\ \A d \in Client, x \in Block : Entitled(d, x)' => Entitled(d, x)
        /\ \A d \in Client, x \in Block : Owns(d, x)' => Owns(d, x)
        /\ Entitled(r.client, r.blk)' => r.ptype # "probeInvalidate"
        /\ AnswerersOut'
        /\ \A x : Out(x)' = IF r.voluntary \/ x # r.blk THEN Out(x) ELSE Out(x) \ {r.client}
        /\ ~ r.voluntary => r.client \in Out(r.blk) /\ Prober(r.client, r.blk, r.ptype)
        /\ (\A d \in Client, x \in Block : \A q : Prober(d, x, q) => Prober(d, x, q)') => ProbesMatched'
    BY <1>1, <1>2, ReleaseTaken
  <2> QED BY <1>5, <2>1
<1>7. k.blk = b /\ k.state \in {"s_inner_probe", "s_busy"} /\ (~ r.voluntary => k.state = "s_inner_probe")
      /\ Busy(t)
  <2>1. /\ k.blk = b
        /\ ~ r.voluntary => k.state = "s_inner_probe"
        /\ r.voluntary => k.state \in {"s_wb_resp", "s_outer_acquire", "s_inner_probe", "s_busy"}
    BY <1>3, <1>4, <1>5 DEF irel_can_merge, irel_same_xact, irel_matches, before_wb_req, TrackerRec
  <2>2. Busy(t)
    BY <1>3, <2>1 DEF Busy
  <2>3. r.voluntary => k.state \notin {"s_wb_resp", "s_outer_acquire"}
    <3> SUFFICES ASSUME r.voluntary, k.state \in {"s_wb_resp", "s_outer_acquire"} PROVE FALSE
      OBVIOUS
    <3>1. Entitled(r.client, b)
      BY <1>5, <1>6 DEF Entitled
    <3>2. \A u \in Tracker : ~ Serving(u, b)
      BY <1>3, <2>1, <2>2, OneUnit DEF Serving, Busy
    <3>3. Resident(b)
      BY <1>6, <3>1, <3>2 DEF Listed, Lists, Resident
    <3> QED BY <1>3, <2>1, <3>3 DEF TrackerShape
  <2> QED BY <2>1, <2>2, <2>3
<1>8. PICK coh \in Coh : coh = onRelease(k.coh, r)
  BY PolicyTypes DEF TrackerRec
<1>9. /\ coh.valid = k.coh.valid
      /\ coh.sharers = IF r.ptype = "probeInvalidate" THEN k.coh.sharers \ {r.client} ELSE k.coh.sharers
  <2>1. k.coh \in Coh
    BY DEF TrackerRec
  <2> QED BY <1>8, <2>1 DEF onRelease, Coh
<1>10. /\ trk' \in [Tracker -> TrackerRec(Int)]
       /\ \A u \in Tracker : u # t => trk'[u] = trk[u]
       /\ trk'[t].state = k.state /\ trk'[t].client = k.client /\ trk'[t].blk = b
       /\ trk'[t].kind = k.kind /\ trk'[t].line = k.line /\ trk'[t].iprbs = k.iprbs
       /\ trk'[t].gnt = k.gnt /\ trk'[t].coh = coh
       /\ trk'[t].meta_write = (k.meta_write \/ k.coh # coh)
       /\ trk'[t].irels = (IF r.voluntary THEN k.irels ELSE k.irels - 1)
       /\ trk'[t].vol = (IF r.voluntary THEN r.client ELSE k.vol)
  <2>1. PICK mw \in BOOLEAN : mw = (k.meta_write \/ k.coh # coh)
    <3>1. (k.meta_write \/ k.coh # coh) \in BOOLEAN
      OBVIOUS
    <3> QED BY <3>1
  <2>2. PICK i \in Int : i = IF r.voluntary THEN k.irels ELSE k.irels - 1
    BY DEF TrackerRec
  <2>3. PICK v \in Client \cup {NoClient} : v = IF r.voluntary THEN r.client ELSE k.vol
    BY <1>6 DEF TrackerRec
  <2>4. PICK k1 \in TrackerRec(Int) : k1 = [k EXCEPT !.coh = coh, !.meta_write = mw]
    BY DEF TrackerRec
  <2>5. /\ k1.state = k.state /\ k1.client = k.client /\ k1.blk = k.blk /\ k1.kind = k.kind
        /\ k1.line = k.line /\ k1.iprbs = k.iprbs /\ k1.gnt = k.gnt /\ k1.coh = coh
        /\ k1.irels = k.irels /\ k1.vol = k.vol
    BY <2>4 DEF TrackerRec
  <2>6. k1.meta_write = mw
    BY <2>4 DEF TrackerRec
  <2>7. PICK k2 \in TrackerRec(Int) : k2 = [k1 EXCEPT !.irels = i, !.vol = v]
    BY DEF TrackerRec
  <2>8. /\ k2.state = k1.state /\ k2.client = k1.client /\ k2.blk = k1.blk /\ k2.kind = k1.kind
        /\ k2.line = k1.line /\ k2.iprbs = k1.iprbs /\ k2.gnt = k1.gnt /\ k2.coh = k1.coh
        /\ k2.irels = i /\ k2.vol = v
    BY <2>7 DEF TrackerRec
  <2>9. k2.meta_write = k1.meta_write
    BY <2>7 DEF TrackerRec
  <2>10. UpdatePendingCoh(k, onRelease(k.coh, r)) = k1
    BY <1>8, <2>1, <2>4 DEF UpdatePendingCoh
  <2>11. trk \in [Tracker -> TrackerRec(Int)] /\ trk' = [trk EXCEPT ![t] = k2]
    BY <1>4, <2>2, <2>3, <2>5, <2>7, <2>10 DEF Types
  <2>12. /\ trk' \in [Tracker -> TrackerRec(Int)] /\ trk'[t] = k2
         /\ \A u \in Tracker : u # t => trk'[u] = trk[u]
    BY <2>11
  <2> QED BY <1>7, <2>1, <2>2, <2>3, <2>5, <2>6, <2>8, <2>9, <2>12
<1>11. Types(Int)'
  <2>1. data' \in [Line -> Value \cup {NoValue}]
    BY <1>4 DEF Types, ReleaseMsg
  <2> QED BY <1>1, <1>6, <1>10, <2>1 DEF Types
<1>12. /\ \A u \in Tracker : (Busy(u)' <=> Busy(u)) /\ trk'[u].blk = trk[u].blk
       /\ \A u \in Tracker : \A x : (Serving(u, x)' <=> Serving(u, x))
       /\ \A u \in Tracker : trk'[u].state = trk[u].state /\ trk'[u].line = trk[u].line
  BY <1>3, <1>7, <1>10 DEF Busy, Serving
<1>13. SetsApart'
  BY <1>12 DEF SetsApart
<1>14. \A u \in Tracker : Busy(u) /\ trk[u].blk = b => u = t
  BY <1>3, <1>7, OneUnit
<1>15. ~ (wb.state # "s_idle" /\ wb.blk = b)
  BY <1>3, <1>7, OneUnit DEF WbShape
<1>16. ASSUME NEW u \in Tracker PROVE TrackerShape(u)'
  <2>1. CASE u # t
    BY <1>1, <1>10, <2>1, TrackerFrame
  <2>2. CASE u = t
    <3>1. Resident(b)' <=> Resident(b)
      BY <1>1 DEF Resident
    <3>2. k.state # "s_inner_probe" => trk'[t].irels = 0 /\ trk'[t].iprbs = {}
      BY <1>3, <1>7, <1>10 DEF TrackerShape
    <3>3. coh.sharers \subseteq k.coh.sharers /\ coh.valid
      BY <1>3, <1>7, <1>9 DEF TrackerShape
    <3>4. trk'[t].meta_write \/ (Resident(b) /\ meta[k.line].coh = coh)
      <4>1. k.meta_write \/ (Resident(b) /\ meta[k.line].coh = k.coh)
        BY <1>3, <1>7 DEF TrackerShape
      <4> QED BY <1>10, <4>1
    <3>5. /\ k.client \in Client \cup Uncached /\ (k.client \in Uncached <=> isBuiltInType(k.kind))
          /\ SetOf[k.line] = SetOf[b]
          /\ Resident(b) => meta[k.line].tag = b
          /\ k.state = "s_inner_probe" =>
               Resident(b) /\ k.gnt = "pending" /\ k.coh.sharers \subseteq meta[k.line].coh.sharers
      BY <1>3, <1>7 DEF TrackerShape, Busy
    <3> QED BY <1>1, <1>7, <1>10, <2>2, <3>1, <3>2, <3>3, <3>4, <3>5 DEF TrackerShape, Busy
  <2> QED BY <2>1, <2>2
<1>17. RtShape'
  BY <1>1, <1>12, RtFrame
<1>18. WbShape'
  BY <1>1, <1>12 DEF WbShape
<1>19. WritebackTokens'
  <2>1. CASE r.voluntary
    <3>1. \A u \in Tracker : trk'[u].vol = r.client => u = t
      BY <1>6, <1>10, <2>1
    <3>2. \A d \in Client : \A u \in Tracker : trk'[u].vol = d => trk[u].vol = d \/ d = r.client
      BY <1>10, <2>1
    <3>3. \A d : AtRt(d)' <=> AtRt(d)
      BY <1>1 DEF AtRt
    <3> QED BY <1>1, <1>6, <2>1, <3>1, <3>2, <3>3, WritebackMoved
  <2>2. CASE ~ r.voluntary
    <3>1. \A u \in Tracker : trk'[u].vol = trk[u].vol
      BY <1>3, <1>10, <2>2
    <3>2. \A d : AtRt(d)' <=> AtRt(d)
      BY <1>1 DEF AtRt
    <3>3. \A i \in DOMAIN rel' : rel'[i].client # NoClient
      BY <1>6, TypeFacts, L2CacheAssumption
    <3> QED BY <1>1, <1>6, <3>1, <3>2, <3>3, L2CacheAssumption, WritebackMoved
  <2> QED BY <2>1, <2>2
<1>20. AcquireTokens' /\ GrantsAlone'
  <2>1. \A d \in Client, u \in Tracker :
          /\ AtTracker(d, u)' =>
               AtTracker(d, u) /\ trk'[u].blk = trk[u].blk /\ trk'[u].kind = trk[u].kind
          /\ Granted(d, u) => Granted(d, u)' /\ trk'[u].blk = trk[u].blk
    BY <1>3, <1>7, <1>10, <1>12 DEF AtTracker, Granted
  <2>2. ASSUME NEW d \in Client, NEW u \in Tracker, Granted(d, u)
        PROVE  /\ trk'[u].coh.sharers \subseteq trk[u].coh.sharers
               /\ mshr[d].state \in {"s_refill_resp", "s_meta_write_req"} /\ d \in trk[u].coh.sharers
                    => d \in trk'[u].coh.sharers
    <3>1. CASE u # t
      BY <1>10, <3>1
    <3>2. CASE u = t
      <4>1. r.voluntary /\ mshr[r.client].state = "s_wb_resp"
        BY <1>3, <1>6, <1>7, <2>2, <3>2 DEF Granted
      <4> QED BY <1>3, <1>9, <1>10, <3>2, <4>1
    <3> QED BY <3>1, <3>2
  <2> QED BY <1>1, <2>1, <2>2, RequestFrame
<1>21. ProbesMatched'
  <2>1. \A d \in Client, x \in Block : \A q : Prober(d, x, q) => Prober(d, x, q)'
    BY <1>1, <1>3, <1>7, <1>10 DEF Prober
  <2> QED BY <1>6, <2>1
<1>22. ProbesCounted'
  <2>1. ASSUME NEW u \in Tracker, trk'[u].state = "s_inner_probe"
        PROVE  trk'[u].irels = Cardinality(Out(trk[u].blk)')
    <3>1. CASE u = t
      <4>1. k.irels = Cardinality(Out(b)) /\ k.irels \in Int /\ Out(b) \in SUBSET Client
        <5>1. k.irels = Cardinality(Out(b))
          BY <1>3, <1>7, <1>10, <2>1, <3>1 DEF ProbesCounted
        <5>2. k.irels \in Int
          BY DEF TrackerRec
        <5>3. Out(b) \in SUBSET Client
          BY DEF Out
        <5> QED BY <5>1, <5>2, <5>3
      <4>2. CASE r.voluntary
        BY <1>6, <1>10, <3>1, <4>1, <4>2
      <4>3. CASE ~ r.voluntary
        <5>1. Out(b)' = Out(b) \ {r.client} /\ r.client \in Out(b)
          BY <1>6, <4>3
        <5>2. Cardinality(Out(b) \ {r.client}) = Cardinality(Out(b)) - 1
          BY <4>1, <5>1, CardFacts
        <5> QED BY <1>10, <3>1, <4>1, <4>3, <5>1, <5>2
      <4> QED BY <4>2, <4>3
    <3>2. CASE u # t
      <4>1. trk'[u] = trk[u] /\ trk[u].blk # b
        BY <1>10, <1>14, <2>1, <3>2 DEF Busy
      <4> QED BY <1>6, <2>1, <4>1 DEF ProbesCounted
    <3> QED BY <3>1, <3>2
  <2>2. wb.state = "s_inner_probe" => Out(wb.blk)' = Out(wb.blk)
    BY <1>1, <1>6, <1>15
  <2> QED BY <1>1, <1>12, <2>1, <2>2 DEF ProbesCounted
<1>23. Listed'
  <2>1. \A d \in Client, x \in Block : Entitled(d, x)' => \A u \in Tracker :
           Serving(u, x) /\ d \in trk[u].coh.sharers => d \in trk'[u].coh.sharers
    BY <1>3, <1>6, <1>7, <1>9, <1>10 DEF Serving
  <2> QED BY <1>1, <1>6, <1>12, <2>1, ListedFrame
<1>24. SharersProbed'
  <2>1. ASSUME NEW u \in Tracker, trk'[u].state = "s_inner_probe", isWrite(trk'[u].kind)
        PROVE  trk'[u].coh.sharers \subseteq trk'[u].iprbs \cup Out(trk[u].blk)' \cup {trk'[u].client}
    <3>1. CASE u = t
      <4>1. k.coh.sharers \subseteq k.iprbs \cup Out(b) \cup {k.client}
        BY <1>3, <1>7, <1>10, <2>1, <3>1 DEF SharersProbed
      <4>2. ~ r.voluntary => r.ptype = "probeInvalidate"
        <5>1. ~ r.voluntary => r.ptype = getProbeType(k.kind)
          BY <1>3, <1>6, <1>14, <1>15 DEF Prober, Busy
        <5>2. isWrite(k.kind) => getProbeType(k.kind) = "probeInvalidate"
          BY DEF getProbeType, isWrite
        <5> QED BY <1>10, <2>1, <3>1, <5>1, <5>2
      <4>3. coh.sharers \subseteq k.iprbs \cup Out(b)' \cup {k.client}
        BY <1>6, <1>9, <4>1, <4>2
      <4> QED BY <1>10, <3>1, <4>3
    <3>2. CASE u # t
      <4>1. trk'[u] = trk[u] /\ trk[u].blk # b
        BY <1>10, <1>14, <2>1, <3>2 DEF Busy
      <4> QED BY <1>6, <2>1, <4>1 DEF SharersProbed
    <3> QED BY <3>1, <3>2
  <2>2. wb.state = "s_inner_probe" => Out(wb.blk)' = Out(wb.blk)
    BY <1>1, <1>6, <1>15
  <2> QED BY <1>1, <2>1, <2>2 DEF SharersProbed
<1>25. SharedInDirectory' /\ SharedInTracker' /\ DowngradesPending'
  <2>1. \A u \in Tracker :
          /\ trk'[u].coh.sharers \subseteq trk[u].coh.sharers /\ trk'[u].kind = trk[u].kind
          /\ trk'[u].client = trk[u].client /\ trk'[u].gnt = trk[u].gnt /\ trk'[u].iprbs = trk[u].iprbs
    BY <1>3, <1>9, <1>10
  <2>2. \A d, x : Probed(d, x)' <=> Probed(d, x)
    BY <1>1 DEF Probed
  <2> QED BY <1>1, <1>6, <1>12, <2>1, <2>2, PermissionFrame
<1> QED BY <1>1, <1>6, <1>11, <1>13, <1>16, <1>17, <1>18, <1>19, <1>20, <1>21, <1>22, <1>23,
           <1>24, <1>25, Frames

\* All answers are in: what remains of the block is safe to grant.
LEMMA ProbesDoneInv ==
  ASSUME IInv, NEW t \in Tracker, ProbesDone(t)
  PROVE  IInv'
<1> USE DEF IInv
<1>1. /\ UNCHANGED <<l1, mshr, fq, unc, acq, rel, prb, gnt, meta, data, rt, wb, mem, latest>>
      /\ trk[t].state = "s_inner_probe" /\ trk[t].iprbs = {} /\ trk[t].irels = 0
      /\ trk' = [trk EXCEPT ![t].state = "s_busy"]
  BY DEF ProbesDone, l1vars
<1>2. PICK k \in TrackerRec(Int) : k = trk[t]
  BY DEF Types
<1>3. PICK b \in Block : b = k.blk
  BY <1>1, <1>2 DEF TrackerShape, Busy
<1>4. /\ trk' \in [Tracker -> TrackerRec(Int)]
      /\ \A u \in Tracker : u # t => trk'[u] = trk[u]
      /\ trk'[t].state = "s_busy" /\ trk'[t].iprbs = {} /\ trk'[t].irels = 0
      /\ trk'[t].client = k.client /\ trk'[t].blk = b /\ trk'[t].kind = k.kind
      /\ trk'[t].line = k.line /\ trk'[t].coh = k.coh /\ trk'[t].meta_write = k.meta_write
      /\ trk'[t].vol = k.vol /\ trk'[t].gnt = k.gnt
  <2>1. trk \in [Tracker -> TrackerRec(Int)]
    BY DEF Types
  <2> QED BY <1>1, <1>2, <1>3, <2>1 DEF TrackerRec
<1>5. /\ \A u \in Tracker : (Busy(u)' <=> Busy(u)) /\ trk'[u].blk = trk[u].blk
      /\ \A u \in Tracker : \A x : (Serving(u, x)' <=> Serving(u, x))
      /\ \A u \in Tracker : trk'[u].line = trk[u].line /\ trk'[u].coh = trk[u].coh
      /\ Busy(t)
  BY <1>1, <1>2, <1>3, <1>4 DEF Busy, Serving
<1>6. /\ Resident(b) /\ k.gnt = "pending" /\ k.line \in Line /\ meta[k.line].tag = b
      /\ k.coh.sharers \subseteq meta[k.line].coh.sharers
  BY <1>1, <1>2, <1>3, TypeFacts DEF TrackerShape
<1>7. Out(b) = {}
  <2>1. Out(b) \in SUBSET Client /\ Cardinality(Out(b)) = 0
    BY <1>1, <1>2, <1>3 DEF ProbesCounted, Out
  <2> QED BY <2>1, CardFacts
<1>8. Types(Int)'
  BY <1>1, <1>4 DEF Types
<1>9. SetsApart'
  BY <1>5 DEF SetsApart
<1>10. ASSUME NEW u \in Tracker PROVE TrackerShape(u)'
  <2>1. CASE u # t
    BY <1>1, <1>4, <2>1, TrackerFrame
  <2>2. CASE u = t
    <3>1. Resident(b)' <=> Resident(b)
      BY <1>1 DEF Resident
    <3> QED BY <1>1, <1>2, <1>3, <1>4, <2>2, <3>1 DEF TrackerShape, Busy
  <2> QED BY <2>1, <2>2
<1>11. RtShape'
  <2>1. \A u \in Tracker : /\ trk'[u].state = "s_meta_read" => trk[u].state = "s_meta_read"
                           /\ trk[u].state = "s_wb_req" => trk'[u].state = "s_wb_req"
    BY <1>1, <1>4
  <2> QED BY <1>1, <1>5, <2>1, RtFrame
<1>12. WbShape'
  BY <1>1, <1>4, <1>5 DEF WbShape
<1>13. WritebackTokens'
  <2>1. \A u \in Tracker : trk'[u].vol = trk[u].vol
    BY <1>2, <1>4
  <2> QED BY <1>1, <2>1, WritebackFrame
<1>14. AcquireTokens' /\ GrantsAlone'
  <2>1. \A d \in Client, u \in Tracker :
          /\ AtTracker(d, u)' =>
               AtTracker(d, u) /\ trk'[u].blk = trk[u].blk /\ trk'[u].kind = trk[u].kind
          /\ Granted(d, u) => u # t
    BY <1>1, <1>2, <1>4, <1>5 DEF AtTracker, Granted
  <2>2. \A d \in Client, u \in Tracker : Granted(d, u) => Granted(d, u)' /\ trk'[u] = trk[u]
    BY <1>4, <2>1 DEF Granted
  <2> QED BY <1>1, <2>1, <2>2, RequestFrame
<1>15. ProbesMatched' /\ \A x : Out(x)' = Out(x)
  <2>1. \A d \in Client, x \in Block : \A q : Prober(d, x, q) /\ d \in Out(x) => Prober(d, x, q)'
    BY <1>1, <1>2, <1>3, <1>4, <1>7 DEF Prober
  <2> QED BY <1>1, <2>1, ProbeFrame
<1>16. \A u \in Tracker : trk'[u].state = "s_inner_probe" => trk'[u] = trk[u]
  BY <1>4
<1>17. ProbesCounted' /\ SharersProbed'
  BY <1>1, <1>15, <1>16 DEF ProbesCounted, SharersProbed
<1>18. Listed'
  <2>1. \A d \in Client, x \in Block : Entitled(d, x)' <=> Entitled(d, x)
    BY <1>1, SameCopies
  <2>2. ASSUME NEW u \in Tracker, NEW x, meta[trk'[u].line].tag = x,
               trk'[u].state \in {"s_outer_acquire", "s_busy", "s_meta_write"}
        PROVE  trk'[u].blk = x \/ trk[u].state \in {"s_outer_acquire", "s_busy", "s_meta_write"}
    BY <1>4, <1>6, <2>2
  <2> QED BY <1>1, <1>5, <2>1, <2>2, ListedFrame
<1>19. SharedInTracker!(t)!2'
  <2>1. Two(k.coh.sharers) => AllShared(b)
    <3>1. Two(k.coh.sharers) => Two(meta[k.line].coh.sharers)
      BY <1>6 DEF Two
    <3>2. \A u \in Tracker : ~ (Serving(u, b) /\ trk[u].state # "s_inner_probe")
      BY <1>1, <1>2, <1>3, <1>5, OneUnit DEF Serving, Busy
    <3> QED BY <1>6, <3>1, <3>2, L2CacheAssumption DEF SharedInDirectory
  <2>2. \A d : ~ Probed(d, b) \/ d \notin Client
    BY <1>7 DEF Out
  <2>3. k.kind = "acquireShared" => AllShared(b)
    BY <1>1, <1>2, <1>3, <2>2 DEF DowngradesPending, AllShared
  <2>4. isWrite(k.kind) => k.coh.sharers \subseteq {k.client}
    BY <1>1, <1>2, <1>3, <1>7 DEF SharersProbed
  <2> QED BY <1>1, <1>4, <2>1, <2>3, <2>4, SameCopies
<1>20. SharedInTracker'
  <2>1. ASSUME NEW u \in Tracker, u # t, trk'[u].state \in {"s_busy", "s_meta_write"}
        PROVE  SharedInTracker!(u)!2'
    <3>1. trk'[u] = trk[u]
      BY <1>4, <2>1
    <3> QED BY <1>1, <2>1, <3>1, SameCopies DEF SharedInTracker, Two
  <2> QED BY <1>19, <2>1 DEF SharedInTracker
<1>21. SharedInDirectory' /\ DowngradesPending'
  <2>1. \A u \in Tracker : \A x : Serving(u, x) /\ trk[u].state # "s_inner_probe" => trk'[u].state # "s_inner_probe"
    BY <1>16
  <2>2. \A d, x : Probed(d, x)' <=> Probed(d, x)
    BY <1>1 DEF Probed
  <2> QED BY <1>1, <1>5, <1>16, <2>1, <2>2, SameCopies, PermissionFrame
<1> QED BY <1>1, <1>8, <1>9, <1>10, <1>11, <1>12, <1>13, <1>14, <1>15, <1>17, <1>18, <1>20,
           <1>21, SameCopies, Frames

\* The block comes from memory; nobody has a copy of it.
LEMMA RefillInv ==
  ASSUME IInv, NEW t \in Tracker, Refill(t)
  PROVE  IInv'
<1> USE DEF IInv
<1>1. /\ UNCHANGED <<l1, mshr, fq, unc, acq, rel, prb, gnt, meta, rt, wb, mem, latest>>
      /\ trk[t].state = "s_outer_acquire"
      /\ data' = [data EXCEPT ![trk[t].line] = mem[trk[t].blk]]
  BY DEF Refill, l1vars
<1>2. PICK k \in TrackerRec(Int) : k = trk[t]
  BY DEF Types
<1>3. PICK b \in Block : b = k.blk
  BY <1>1, <1>2 DEF TrackerShape, Busy
<1>4. PICK coh \in Coh : coh = [sharers |-> {}, valid |-> TRUE, dirty |-> isWrite(k.kind)]
  <2>1. isWrite(k.kind) \in BOOLEAN
    BY DEF isWrite
  <2> QED BY <2>1 DEF Coh
<1>5. coh.sharers = {} /\ coh.valid
  BY <1>4
<1>6. /\ trk' \in [Tracker -> TrackerRec(Int)]
      /\ \A u \in Tracker : u # t => trk'[u] = trk[u]
      /\ trk'[t].state = "s_busy" /\ trk'[t].iprbs = k.iprbs /\ trk'[t].irels = k.irels
      /\ trk'[t].client = k.client /\ trk'[t].blk = b /\ trk'[t].kind = k.kind
      /\ trk'[t].line = k.line /\ trk'[t].coh = coh /\ trk'[t].vol = k.vol /\ trk'[t].gnt = k.gnt
      /\ trk'[t].meta_write
  <2>1. PICK mw \in BOOLEAN : mw = (k.meta_write \/ k.coh # coh)
    <3>1. (k.meta_write \/ k.coh # coh) \in BOOLEAN
      OBVIOUS
    <3> QED BY <3>1
  <2>2. k.meta_write
    BY <1>1, <1>2 DEF TrackerShape
  <2>3. PICK k1 \in TrackerRec(Int) : k1 = [k EXCEPT !.coh = coh, !.meta_write = mw, !.state = "s_busy"]
    BY DEF TrackerRec
  <2>4. /\ k1.state = "s_busy" /\ k1.client = k.client /\ k1.blk = k.blk /\ k1.kind = k.kind
        /\ k1.line = k.line /\ k1.iprbs = k.iprbs /\ k1.gnt = k.gnt /\ k1.coh = coh
        /\ k1.irels = k.irels /\ k1.vol = k.vol
    BY <2>3 DEF TrackerRec
  <2>5. k1.meta_write = mw
    BY <2>3 DEF TrackerRec
  <2>6. trk' = [trk EXCEPT ![t] = [UpdatePendingCoh(k, coh) EXCEPT !.state = "s_busy"]]
    BY <1>2, <1>4 DEF Refill
  <2>7. [UpdatePendingCoh(k, coh) EXCEPT !.state = "s_busy"] = k1
    BY <2>1, <2>3 DEF UpdatePendingCoh, TrackerRec
  <2>8. /\ trk' \in [Tracker -> TrackerRec(Int)] /\ trk'[t] = k1
        /\ \A u \in Tracker : u # t => trk'[u] = trk[u]
    BY <2>6, <2>7 DEF Types
  <2> QED BY <1>3, <2>1, <2>2, <2>4, <2>5, <2>8
<1>7. /\ \A u \in Tracker : (Busy(u)' <=> Busy(u)) /\ trk'[u].blk = trk[u].blk /\ trk'[u].line = trk[u].line
      /\ \A u \in Tracker : \A x : x # b \/ u # t => (Serving(u, x)' <=> Serving(u, x))
      /\ Busy(t)
  BY <1>1, <1>2, <1>3, <1>6 DEF Busy, Serving
<1>8. /\ ~ Resident(b) /\ k.vol = NoClient /\ k.gnt = "pending" /\ SetOf[k.line] = SetOf[b]
      /\ k.client \in Client \cup Uncached /\ (k.client \in Uncached <=> isBuiltInType(k.kind))
      /\ k.iprbs = {} /\ k.irels = 0
  BY <1>1, <1>2, <1>3 DEF TrackerShape, Busy
<1>9. \A d \in Client : ~ Entitled(d, b)
  <2>1. \A u \in Tracker : ~ Serving(u, b)
    BY <1>1, <1>2, <1>3, <1>7, OneUnit DEF Serving, Busy
  <2> QED BY <1>8, <2>1 DEF Listed, Lists, Resident
<1>10. AllShared(b)
  BY <1>9, TypeFacts DEF AllShared, Owns, Entitled, Holds
<1>11. Types(Int)'
  <2>1. data' \in [Line -> Value \cup {NoValue}]
    BY <1>1, <1>2, <1>3 DEF Types
  <2> QED BY <1>1, <1>6, <2>1 DEF Types
<1>12. SetsApart'
  BY <1>7 DEF SetsApart
<1>13. ASSUME NEW u \in Tracker PROVE TrackerShape(u)'
  <2>1. CASE u # t
    BY <1>1, <1>6, <2>1, TrackerFrame
  <2>2. CASE u = t
    <3>1. Resident(b)' <=> Resident(b)
      BY <1>1 DEF Resident
    <3> QED BY <1>1, <1>3, <1>5, <1>6, <1>8, <2>2, <3>1 DEF TrackerShape, Busy
  <2> QED BY <2>1, <2>2
<1>14. RtShape'
  <2>1. \A u \in Tracker : /\ trk'[u].state = "s_meta_read" => trk[u].state = "s_meta_read"
                           /\ trk[u].state = "s_wb_req" => trk'[u].state = "s_wb_req"
    BY <1>1, <1>6
  <2> QED BY <1>1, <1>7, <2>1, RtFrame
<1>15. WbShape'
  BY <1>1, <1>6, <1>7 DEF WbShape
<1>16. WritebackTokens'
  <2>1. \A u \in Tracker : trk'[u].vol = trk[u].vol
    BY <1>2, <1>6
  <2> QED BY <1>1, <2>1, WritebackFrame
<1>17. AcquireTokens' /\ GrantsAlone'
  <2>1. \A d \in Client, u \in Tracker :
          /\ AtTracker(d, u)' =>
               AtTracker(d, u) /\ trk'[u].blk = trk[u].blk /\ trk'[u].kind = trk[u].kind
          /\ Granted(d, u) => u # t
    BY <1>1, <1>2, <1>6, <1>7 DEF AtTracker, Granted
  <2>2. \A d \in Client, u \in Tracker : Granted(d, u) => Granted(d, u)' /\ trk'[u] = trk[u]
    BY <1>6, <2>1 DEF Granted
  <2> QED BY <1>1, <2>1, <2>2, RequestFrame
<1>18. \A u \in Tracker : /\ trk'[u].state = "s_inner_probe" => trk'[u] = trk[u]
                          /\ trk[u].state = "s_inner_probe" => trk'[u] = trk[u]
  BY <1>1, <1>6
<1>19. ProbesMatched' /\ \A x : Out(x)' = Out(x)
  <2>1. \A d \in Client, x \in Block : \A q : Prober(d, x, q) => Prober(d, x, q)'
    BY <1>1, <1>18 DEF Prober
  <2> QED BY <1>1, <2>1, ProbeFrame
<1>20. ProbesCounted' /\ SharersProbed'
  BY <1>1, <1>18, <1>19 DEF ProbesCounted, SharersProbed
<1>21. Listed'
  <2>1. \A d \in Client, x \in Block : Entitled(d, x)' => Entitled(d, x) /\ x # b
    BY <1>1, <1>9, SameCopies
  <2>2. \A u \in Tracker : u # t => trk'[u] = trk[u]
    BY <1>6
  <2>3. ~ \E x : x # b /\ Serving(t, x)
    BY <1>2, <1>3 DEF Serving
  <2>4. \A u \in Tracker : trk'[u].state \in {"s_outer_acquire", "s_busy", "s_meta_write"} =>
          trk[u].state \in {"s_outer_acquire", "s_busy", "s_meta_write"}
    BY <1>1, <1>6
  <2> QED BY <1>1, <1>7, <2>1, <2>2, <2>3, <2>4, ListedFrame
<1>22. SharedInTracker'
  <2>1. SharedInTracker!(t)!2'
    BY <1>1, <1>5, <1>6, <1>10, SameCopies
  <2>2. ASSUME NEW u \in Tracker, u # t, trk'[u].state \in {"s_busy", "s_meta_write"}
        PROVE  SharedInTracker!(u)!2'
    <3>1. trk'[u] = trk[u]
      BY <1>6, <2>2
    <3> QED BY <1>1, <2>2, <3>1, SameCopies DEF SharedInTracker, Two
  <2> QED BY <2>1, <2>2 DEF SharedInTracker
<1>23. SharedInDirectory' /\ DowngradesPending'
  <2>1. \A u \in Tracker : \A x : Serving(u, x) /\ trk[u].state # "s_inner_probe"
          => Serving(u, x)' /\ trk'[u].state # "s_inner_probe"
    BY <1>1, <1>6, <1>7, <1>18 DEF Serving
  <2>2. \A d, x : Probed(d, x)' <=> Probed(d, x)
    BY <1>1 DEF Probed
  <2> QED BY <1>1, <1>18, <2>1, <2>2, SameCopies, PermissionFrame
<1> QED BY <1>1, <1>11, <1>12, <1>13, <1>14, <1>15, <1>16, <1>17, <1>19, <1>20, <1>21, <1>22,
           <1>23, SameCopies, Frames

\* The acknowledgement of a write-back is sent to the client that waits for it.
LEMMA WritebackAcknowledged ==
  ASSUME Types(Int), WritebackTokens, AcquireTokens, GrantsAlone, UNCHANGED <<l1, mshr, fq, acq, rel>>,
         NEW c \in Client, mshr[c].state = "s_wb_resp", gnt[c] = <<>>,
         gnt' = [gnt EXCEPT ![c] = Append(@, [gtype |-> "voluntaryAck"])],
         \A i \in DOMAIN rel : ~ VolMsg(c, i),
         \A d \in Client :
           /\ \A u \in Tracker : trk'[u].vol = d => trk[u].vol = d /\ d # c
           /\ wb'.vol = d => wb.vol = d /\ d # c
           /\ AtRt(d)' => AtRt(d) /\ d # c,
         \A u \in Tracker :
           /\ trk'[u].state = trk[u].state /\ trk'[u].client = trk[u].client /\ trk'[u].blk = trk[u].blk
           /\ trk'[u].kind = trk[u].kind /\ trk'[u].gnt = trk[u].gnt /\ trk'[u].coh = trk[u].coh
  PROVE  gnt' \in [Client -> Seq(GrantMsg)] /\ WritebackTokens' /\ AcquireTokens' /\ GrantsAlone'
<1>1. PICK g \in GrantMsg : g = [gtype |-> "voluntaryAck"]
  BY DEF GrantMsg
<1>2. g.gtype = "voluntaryAck"
  BY <1>1
<1>3. gnt \in [Client -> Seq(GrantMsg)]
  BY DEF Types
<1>4. Append(gnt[c], g) = <<g>> /\ <<g>> \in Seq(GrantMsg)
  OBVIOUS
<1>5. gnt' \in [Client -> Seq(GrantMsg)] /\ gnt'[c] = <<g>> /\ \A d \in Client : d # c => gnt'[d] = gnt[d]
  BY <1>1, <1>3, <1>4
<1>6. gnt'[c] # <<>> /\ Len(gnt'[c]) = 1 /\ Head(gnt'[c]).gtype = "voluntaryAck"
  BY <1>2, <1>5
<1>7. WritebackTokens'
  <2>1. ASSUME NEW d \in Client PROVE WritebackTokens!(d)'
    <3>1. \A i \in DOMAIN rel : VolMsg(d, i)' <=> VolMsg(d, i)
      BY DEF VolMsg
    <3>2. WritebackTokens!(d)!1' /\ WritebackTokens!(d)!2'
      BY <1>5, <3>1 DEF WritebackTokens
    <3>3. WritebackTokens!(d)!3' /\ WritebackTokens!(d)!4'
      BY <1>5 DEF WritebackTokens
    <3>4. WritebackTokens!(d)!5'
      BY <1>5, <1>6 DEF WritebackTokens
    <3> QED BY <3>2, <3>3, <3>4
  <2> QED BY <2>1 DEF WritebackTokens
<1>8. \A d \in Client, u \in Tracker : (AtTracker(d, u)' <=> AtTracker(d, u)) /\ (Granted(d, u)' <=> Granted(d, u))
  BY DEF AtTracker, Granted, Busy
<1>9. ASSUME NEW d \in Client PROVE AcquireTokens!2!(d)' /\ GrantsAlone!(d)'
  <2>1. gnt[d] # <<>> => Head(gnt[d]) \in GrantMsg
    BY TypeFacts, TailFacts
  <2>2. gnt[d] # <<>> /\ Head(gnt[d]).gtype # "voluntaryAck" =>
          /\ Head(gnt[d]).trk \in Tracker /\ mshr[d].state = "s_refill_resp"
          /\ Granted(d, Head(gnt[d]).trk) /\ trk[Head(gnt[d]).trk].blk = mshr[d].blk
    BY <2>1 DEF AcquireTokens, GrantMsg
  <2>3. fq[d] # NoTracker => fq[d] \in Tracker /\ Granted(d, fq[d])
    BY DEF AcquireTokens, Types
  <2>4. gnt'[d] # <<>> /\ Head(gnt'[d]).gtype # "voluntaryAck" => d # c /\ gnt'[d] = gnt[d]
    BY <1>5, <1>6
  <2>5. AcquireTokens!2!(d)!1'
    BY <1>5, <1>8 DEF AcquireTokens, Asks
  <2>6. AcquireTokens!2!(d)!2'
    BY <1>5, <1>8 DEF AcquireTokens, Asks
  <2>7. AcquireTokens!2!(d)!3'
    BY <1>8, <2>2, <2>4
  <2>8. AcquireTokens!2!(d)!4' /\ AcquireTokens!2!(d)!5'
    BY <1>8, <2>3 DEF AcquireTokens
  <2>9. GrantsAlone!(d)!1'
    <3>1. gnt[d] # <<>> /\ Head(gnt[d]).gtype # "voluntaryAck" =>
            trk'[Head(gnt[d]).trk].coh = trk[Head(gnt[d]).trk].coh
      BY <2>2
    <3> QED BY <2>4, <3>1 DEF GrantsAlone
  <2>10. GrantsAlone!(d)!2'
    <3>1. fq[d] # NoTracker => trk'[fq[d]].blk = trk[fq[d]].blk /\ trk'[fq[d]].coh = trk[fq[d]].coh
      BY <2>3
    <3> QED BY <3>1 DEF GrantsAlone
  <2> QED BY <2>5, <2>6, <2>7, <2>8, <2>9, <2>10
<1>10. AcquireTokens!1'
  BY DEF AcquireTokens
<1> QED BY <1>5, <1>7, <1>9, <1>10 DEF AcquireTokens, GrantsAlone

\* A tracker acknowledges the write-back it has merged.
LEMMA SendVoluntaryGrantInv ==
  ASSUME IInv, NEW t \in Tracker, SendVoluntaryGrant(t)
  PROVE  IInv'
<1> USE DEF IInv
<1>1. /\ UNCHANGED <<l1, mshr, fq, unc, acq, rel, prb, meta, data, rt, wb, mem, latest>>
      /\ trk[t].vol # NoClient
      /\ gnt' = [gnt EXCEPT ![trk[t].vol] = Append(@, [gtype |-> "voluntaryAck"])]
      /\ trk' = [trk EXCEPT ![t].vol = NoClient]
  BY DEF SendVoluntaryGrant, l1vars
<1>2. PICK c \in Client : c = trk[t].vol
  BY <1>1 DEF Types, TrackerRec
<1>3. /\ trk' \in [Tracker -> TrackerRec(Int)] /\ trk'[t].vol = NoClient
      /\ \A u \in Tracker : u # t => trk'[u] = trk[u]
      /\ \A u \in Tracker : /\ trk'[u].state = trk[u].state /\ trk'[u].client = trk[u].client
                            /\ trk'[u].blk = trk[u].blk /\ trk'[u].kind = trk[u].kind
                            /\ trk'[u].line = trk[u].line /\ trk'[u].coh = trk[u].coh
                            /\ trk'[u].meta_write = trk[u].meta_write
                            /\ trk'[u].iprbs = trk[u].iprbs /\ trk'[u].irels = trk[u].irels
                            /\ trk'[u].gnt = trk[u].gnt
  <2>1. trk \in [Tracker -> TrackerRec(Int)]
    BY DEF Types
  <2> QED BY <1>1, <2>1 DEF TrackerRec
<1>4. /\ mshr[c].state = "s_wb_resp" /\ gnt[c] = <<>>
      /\ \A u \in Tracker : trk[u].vol = c => u = t
      /\ wb.vol # c /\ ~ AtRt(c) /\ \A i \in DOMAIN rel : ~ VolMsg(c, i)
  BY <1>2 DEF WritebackTokens
<1>5. gnt' \in [Client -> Seq(GrantMsg)] /\ WritebackTokens' /\ AcquireTokens' /\ GrantsAlone'
  <2>1. \A d \in Client : \A u \in Tracker : trk'[u].vol = d => trk[u].vol = d /\ d # c
    BY <1>3, <1>4, L2CacheAssumption
  <2>2. \A d : AtRt(d)' <=> AtRt(d)
    BY <1>1 DEF AtRt
  <2>3. \A d \in Client : (wb'.vol = d => wb.vol = d /\ d # c) /\ (AtRt(d)' => AtRt(d) /\ d # c)
    BY <1>1, <1>4, <2>2
  <2>4. gnt' = [gnt EXCEPT ![c] = Append(@, [gtype |-> "voluntaryAck"])]
    BY <1>1, <1>2
  <2> QED BY <1>1, <1>3, <1>4, <2>1, <2>3, <2>4, WritebackAcknowledged, ZenonT(30)
<1>6. Types(Int)'
  BY <1>1, <1>3, <1>5 DEF Types
<1>7. \A u \in Tracker : (Busy(u)' <=> Busy(u)) /\ \A x : Serving(u, x)' <=> Serving(u, x)
  BY <1>3 DEF Busy, Serving
<1>8. SetsApart'
  BY <1>3, <1>7 DEF SetsApart
<1>9. ASSUME NEW u \in Tracker PROVE TrackerShape(u)'
  <2>1. CASE u # t
    BY <1>1, <1>3, <2>1, TrackerFrame
  <2>2. CASE u = t
    <3>1. \A b : Resident(b)' <=> Resident(b)
      BY <1>1 DEF Resident
    <3>2. trk[t].state \in {"s_inner_probe", "s_busy"}
      BY <1>1, <1>2, L2CacheAssumption DEF TrackerShape, NoTrk, Types, TrackerRec
    <3> QED BY <1>1, <1>3, <2>2, <3>1, <3>2 DEF TrackerShape, Busy
  <2> QED BY <2>1, <2>2
<1>10. RtShape' /\ WbShape'
  <2>1. RtShape'
    BY <1>1, <1>3, <1>7, RtFrame
  <2> QED BY <1>1, <1>3, <2>1 DEF WbShape
<1>11. ProbesMatched' /\ \A x : Out(x)' = Out(x)
  <2>1. \A d \in Client, x \in Block : \A q : Prober(d, x, q) => Prober(d, x, q)'
    BY <1>1, <1>3 DEF Prober
  <2> QED BY <1>1, <2>1, ProbeFrame
<1>12. ProbesCounted' /\ SharersProbed'
  BY <1>1, <1>3, <1>11 DEF ProbesCounted, SharersProbed
<1>13. Listed'
  <2>1. \A d \in Client, x \in Block : Entitled(d, x)' <=> Entitled(d, x)
    BY <1>1, SameCopies
  <2> QED BY <1>1, <1>3, <1>7, <2>1, ListedFrame
<1>14. SharedInDirectory' /\ SharedInTracker' /\ DowngradesPending'
  <2>1. \A d, x : Probed(d, x)' <=> Probed(d, x)
    BY <1>1 DEF Probed
  <2> QED BY <1>1, <1>3, <1>7, <2>1, SameCopies, PermissionFrame
<1> QED BY <1>1, <1>5, <1>6, <1>8, <1>9, <1>10, <1>11, <1>12, <1>13, <1>14, SameCopies, Frames

\* A tracker answers its client and enters it in the directory.
LEMMA SendGrantInv ==
  ASSUME IInv, NEW t \in Tracker, NEW v \in Value, SendGrant(t, v)
  PROVE  IInv'
<1> USE DEF IInv
<1>1. /\ UNCHANGED <<l1, mshr, fq, acq, rel, prb, meta, rt, wb, mem>>
      /\ trk[t].state = "s_busy" /\ trk[t].gnt = "pending" /\ trk[t].vol = NoClient
      /\ data' = [data EXCEPT ![trk[t].line] = v] \/ data' = data
      /\ latest' = [latest EXCEPT ![trk[t].blk] = v] \/ latest' = latest
  BY DEF SendGrant, l1vars
<1>2. PICK k \in TrackerRec(Int) : k = trk[t]
  BY DEF Types
<1>3. PICK b \in Block : b = k.blk
  BY <1>1, <1>2 DEF TrackerShape, Busy
<1>4. /\ k.client \in Client \cup Uncached /\ (k.client \in Uncached <=> isBuiltInType(k.kind))
      /\ k.client \in Client <=> k.client \notin Uncached
      /\ Busy(t)
  BY <1>1, <1>2, L2CacheAssumption DEF TrackerShape, Busy
<1>5. PICK coh \in Coh : coh = onGrant(k.coh, k.kind, k.client)
  <2>1. k.coh \in Coh
    BY DEF TrackerRec
  <2> QED BY <1>4, <2>1, PolicyTypes
<1>6. /\ coh.valid = k.coh.valid
      /\ k.client \in Uncached => coh = k.coh
      /\ k.client \in Client => coh.sharers = k.coh.sharers \cup {k.client}
  <2>1. k.coh \in Coh
    BY DEF TrackerRec
  <2> QED BY <1>4, <1>5, <2>1 DEF onGrant, Coh
<1>7. /\ trk' \in [Tracker -> TrackerRec(Int)]
      /\ \A u \in Tracker : u # t => trk'[u] = trk[u]
      /\ trk'[t].state = "s_busy" /\ trk'[t].iprbs = k.iprbs /\ trk'[t].irels = k.irels
      /\ trk'[t].client = k.client /\ trk'[t].blk = b /\ trk'[t].kind = k.kind
      /\ trk'[t].line = k.line /\ trk'[t].coh = coh /\ trk'[t].vol = k.vol
      /\ trk'[t].gnt = (IF k.client \in Uncached THEN "finished" ELSE "sent")
      /\ trk'[t].meta_write = (k.meta_write \/ k.coh # coh)
  <2>1. PICK mw \in BOOLEAN : mw = (k.meta_write \/ k.coh # coh)
    <3>1. (k.meta_write \/ k.coh # coh) \in BOOLEAN
      OBVIOUS
    <3> QED BY <3>1
  <2>2. PICK g \in {"finished", "sent"} : g = IF k.client \in Uncached THEN "finished" ELSE "sent"
    OBVIOUS
  <2>3. PICK k1 \in TrackerRec(Int) : k1 = [k EXCEPT !.coh = coh, !.meta_write = mw, !.gnt = g]
    BY DEF TrackerRec
  <2>4. /\ k1.state = k.state /\ k1.client = k.client /\ k1.blk = k.blk /\ k1.kind = k.kind
        /\ k1.line = k.line /\ k1.iprbs = k.iprbs /\ k1.gnt = g /\ k1.coh = coh
        /\ k1.irels = k.irels /\ k1.vol = k.vol
    BY <2>3 DEF TrackerRec
  <2>5. k1.meta_write = mw
    BY <2>3 DEF TrackerRec
  <2>6. trk' = [trk EXCEPT ![t] = [UpdatePendingCoh(k, coh) EXCEPT !.gnt = g]]
    BY <1>2, <1>5, <2>2 DEF SendGrant
  <2>7. [UpdatePendingCoh(k, coh) EXCEPT !.gnt = g] = k1
    BY <2>1, <2>3 DEF UpdatePendingCoh, TrackerRec
  <2>8. /\ trk' \in [Tracker -> TrackerRec(Int)] /\ trk'[t] = k1
        /\ \A u \in Tracker : u # t => trk'[u] = trk[u]
    BY <2>6, <2>7 DEF Types
  <2> QED BY <1>1, <1>2, <1>3, <2>1, <2>2, <2>4, <2>5, <2>8
<1>8. /\ \A u \in Tracker : (Busy(u)' <=> Busy(u)) /\ trk'[u].blk = trk[u].blk /\ trk'[u].line = trk[u].line
      /\ \A u \in Tracker : \A x : Serving(u, x)' <=> Serving(u, x)
      /\ \A u \in Tracker : trk'[u].state = trk[u].state /\ trk'[u].vol = trk[u].vol
  BY <1>1, <1>2, <1>3, <1>7 DEF Busy, Serving
<1>9. SetsApart'
  BY <1>8 DEF SetsApart
<1>10. ASSUME NEW u \in Tracker PROVE TrackerShape(u)'
  <2>1. CASE u # t
    BY <1>1, <1>7, <2>1, TrackerFrame
  <2>2. CASE u = t
    <3>1. Resident(b)' <=> Resident(b)
      BY <1>1 DEF Resident
    <3>2. /\ k.iprbs = {} /\ k.irels = 0 /\ k.coh.valid /\ SetOf[k.line] = SetOf[b]
          /\ Resident(b) => meta[k.line].tag = b
          /\ k.meta_write \/ (Resident(b) /\ meta[k.line].coh = k.coh)
      BY <1>1, <1>2, <1>3 DEF TrackerShape
    <3>3. trk'[t].meta_write \/ (Resident(b) /\ meta[k.line].coh = coh)
      BY <1>7, <3>2
    <3> QED BY <1>1, <1>4, <1>6, <1>7, <2>2, <3>1, <3>2, <3>3 DEF TrackerShape, Busy
  <2> QED BY <2>1, <2>2
<1>11. RtShape' /\ WbShape'
  <2>1. RtShape'
    BY <1>1, <1>8, RtFrame
  <2> QED BY <1>1, <1>8, <2>1 DEF WbShape
<1>12. \A u \in Tracker : trk[u].state = "s_inner_probe" => trk'[u] = trk[u]
  BY <1>1, <1>7
<1>13. ProbesMatched' /\ \A x : Out(x)' = Out(x)
  <2>1. \A d \in Client, x \in Block : \A q : Prober(d, x, q) => Prober(d, x, q)'
    BY <1>1, <1>12 DEF Prober
  <2> QED BY <1>1, <2>1, ProbeFrame
<1>14. ProbesCounted' /\ SharersProbed'
  BY <1>1, <1>8, <1>12, <1>13 DEF ProbesCounted, SharersProbed
<1>15. Listed'
  <2>1. \A d \in Client, x \in Block : Entitled(d, x)' <=> Entitled(d, x)
    BY <1>1, SameCopies
  <2>2. \A u \in Tracker : trk[u].coh.sharers \subseteq trk'[u].coh.sharers
    BY <1>2, <1>4, <1>6, <1>7
  <2> QED BY <1>1, <1>8, <2>1, <2>2, ListedFrame
<1>16. SharedInDirectory' /\ DowngradesPending'
  <2>1. \A d, x : Probed(d, x)' <=> Probed(d, x)
    BY <1>1 DEF Probed
  <2> QED BY <1>1, <1>8, <1>12, <2>1, SameCopies, PermissionFrame
<1>17. /\ Two(k.coh.sharers) => AllShared(b)
       /\ k.kind = "acquireShared" => AllShared(b)
       /\ isWrite(k.kind) => k.coh.sharers \subseteq {k.client}
  BY <1>1, <1>2, <1>3 DEF SharedInTracker
<1>18. SharedInTracker'
  <2>1. SharedInTracker!(t)!2'
    <3>1. k.client \in Client => k.kind = "acquireShared" \/ isWrite(k.kind)
      BY <1>4 DEF TrackerRec, Kind, isWrite, isBuiltInType
    <3>2. Two(coh.sharers) => AllShared(b)
      BY <1>4, <1>6, <1>17, <3>1 DEF Two
    <3> QED BY <1>1, <1>7, <3>2, SameCopies
  <2>2. ASSUME NEW u \in Tracker, u # t, trk'[u].state \in {"s_busy", "s_meta_write"}
        PROVE  SharedInTracker!(u)!2'
    <3>1. trk'[u] = trk[u]
      BY <1>7, <2>2
    <3> QED BY <1>1, <2>2, <3>1, SameCopies DEF SharedInTracker, Two
  <2> QED BY <2>1, <2>2 DEF SharedInTracker
<1>19. data' \in [Line -> Value \cup {NoValue}] /\ latest' \in [Block -> Value]
  BY <1>1, <1>2, <1>3 DEF Types
<1>20. CASE k.client \in Uncached
  <2>1. gnt' = gnt /\ unc' = unc \ {k.client}
    BY <1>2, <1>4, <1>20 DEF SendGrant
  <2>2. Types(Int)'
    BY <1>1, <1>7, <1>19, <2>1 DEF Types
  <2>3. WritebackTokens'
    BY <1>1, <1>8, <2>1, WritebackFrame
  <2>4. AcquireTokens' /\ GrantsAlone'
    <3>1. \A d \in Client, u \in Tracker :
            /\ AtTracker(d, u)' =>
                 AtTracker(d, u) /\ trk'[u].blk = trk[u].blk /\ trk'[u].kind = trk[u].kind
            /\ Granted(d, u) => u # t
      BY <1>1, <1>2, <1>7, <1>8, <1>20 DEF AtTracker, Granted
    <3>2. \A d \in Client, u \in Tracker : Granted(d, u) => Granted(d, u)' /\ trk'[u] = trk[u]
      BY <1>7, <3>1 DEF Granted
    <3> QED BY <1>1, <2>1, <3>1, <3>2, RequestFrame
  <2> QED BY <1>1, <1>9, <1>10, <1>11, <1>13, <1>14, <1>15, <1>16, <1>18, <2>2, <2>3, <2>4,
             SameCopies, Frames
<1>21. CASE k.client \in Client
  <2>1. PICK c \in Client : c = k.client
    BY <1>21
  <2>2. AtTracker(c, t) /\ c \notin Uncached
    BY <1>1, <1>2, <1>4, <2>1 DEF AtTracker
  <2>3. /\ mshr[c].state = "s_refill_resp" /\ mshr[c].blk = b /\ gnt[c] = <<>> /\ fq[c] = NoTracker
        /\ \A u \in Tracker : AtTracker(c, u) => u = t
        /\ \A i \in DOMAIN acq : acq[i].client # c
    BY <1>2, <1>3, <2>2 DEF AcquireTokens, Asks
  <2>4. PICK g \in GrantMsg : g = [gtype |-> getGrantType(k.kind, k.coh.sharers), trk |-> t, data |-> data[k.line]]
    <3>1. data[k.line] \in Value \cup {NoValue}
      BY DEF Types, TrackerRec
    <3> QED BY <3>1, PolicyTypes DEF GrantMsg
  <2>5. g.gtype = getGrantType(k.kind, k.coh.sharers) /\ g.trk = t /\ g.gtype # "voluntaryAck"
    BY <2>4, PolicyTypes
  <2>6. gnt' = [gnt EXCEPT ![c] = Append(@, g)] /\ unc' = unc
    BY <1>2, <2>1, <2>2, <2>4 DEF SendGrant
  <2>7. gnt' \in [Client -> Seq(GrantMsg)] /\ gnt'[c] = <<g>> /\ \A d \in Client : d # c => gnt'[d] = gnt[d]
    <3>1. gnt \in [Client -> Seq(GrantMsg)] /\ Append(gnt[c], g) = <<g>> /\ <<g>> \in Seq(GrantMsg)
      BY <2>3 DEF Types
    <3> QED BY <2>6, <3>1
  <2>8. gnt'[c] # <<>> /\ Len(gnt'[c]) = 1 /\ Head(gnt'[c]) = g
    BY <2>7
  <2>9. Types(Int)'
    BY <1>1, <1>7, <1>19, <2>6, <2>7 DEF Types
  <2>10. WritebackTokens'
    <3>1. ASSUME NEW d \in Client PROVE WritebackTokens!(d)'
      <4>1. \A i \in DOMAIN rel : VolMsg(d, i)' <=> VolMsg(d, i)
        BY <1>1 DEF VolMsg
      <4>2. AtRt(d)' <=> AtRt(d)
        BY <1>1 DEF AtRt
      <4>3. CASE d # c
        BY <1>1, <1>8, <2>7, <4>1, <4>2, <4>3 DEF WritebackTokens
      <4>4. CASE d = c
        <5>1. /\ \A i \in DOMAIN rel : ~ VolMsg(c, i)
              /\ \A u \in Tracker : trk[u].vol # c
              /\ wb.vol # c /\ ~ AtRt(c)
          BY <2>3 DEF WritebackTokens
        <5> QED BY <1>1, <1>8, <2>5, <2>8, <4>1, <4>2, <4>4, <5>1
      <4> QED BY <4>3, <4>4
    <3> QED BY <3>1 DEF WritebackTokens
  <2>11. \A d \in Client, u \in Tracker : /\ AtTracker(d, u)' => AtTracker(d, u) /\ u # t /\ d # c
                                          /\ Granted(d, u) => Granted(d, u)' /\ u # t /\ trk'[u] = trk[u]
    BY <1>1, <1>2, <1>7, <1>8, <2>2, <2>3 DEF AtTracker, Granted
  <2>12. Granted(c, t)'
    BY <1>7, <2>1, <2>2 DEF Granted
  <2>13. ASSUME NEW d \in Client, d # c PROVE AcquireTokens!2!(d)' /\ GrantsAlone!(d)'
    <3>1. gnt[d] # <<>> => Head(gnt[d]) \in GrantMsg
      BY TypeFacts, TailFacts
    <3>2. gnt[d] # <<>> /\ Head(gnt[d]).gtype # "voluntaryAck" =>
            /\ Head(gnt[d]).trk \in Tracker /\ mshr[d].state = "s_refill_resp"
            /\ Granted(d, Head(gnt[d]).trk) /\ trk[Head(gnt[d]).trk].blk = mshr[d].blk
      BY <3>1 DEF AcquireTokens, GrantMsg
    <3>3. fq[d] # NoTracker => fq[d] \in Tracker /\ Granted(d, fq[d])
      BY DEF AcquireTokens, Types
    <3>4. gnt'[d] = gnt[d] /\ mshr'[d] = mshr[d] /\ fq'[d] = fq[d] /\ l1'[d] = l1[d]
      BY <1>1, <2>7, <2>13
    <3>5. AcquireTokens!2!(d)!1'
      BY <1>1, <2>11, <3>4 DEF AcquireTokens, Asks
    <3>6. AcquireTokens!2!(d)!2'
      BY <1>1, <1>7, <2>11, <3>4 DEF AcquireTokens, Asks
    <3>7. AcquireTokens!2!(d)!3'
      BY <2>11, <3>2, <3>4
    <3>8. AcquireTokens!2!(d)!4' /\ AcquireTokens!2!(d)!5'
      BY <2>11, <3>3, <3>4 DEF AcquireTokens
    <3>9. GrantsAlone!(d)!1'
      <4>1. gnt[d] # <<>> /\ Head(gnt[d]).gtype # "voluntaryAck" =>
              trk'[Head(gnt[d]).trk] = trk[Head(gnt[d]).trk]
        BY <2>11, <3>2
      <4> QED BY <3>4, <4>1 DEF GrantsAlone
    <3>10. GrantsAlone!(d)!2'
      <4>1. fq[d] # NoTracker => trk'[fq[d]] = trk[fq[d]]
        BY <2>11, <3>3
      <4> QED BY <3>4, <4>1 DEF GrantsAlone
    <3> QED BY <3>5, <3>6, <3>7, <3>8, <3>9, <3>10
  <2>14. AcquireTokens!2!(c)'
    BY <1>1, <1>7, <2>3, <2>5, <2>8, <2>11, <2>12
  <2>15. GrantsAlone!(c)'
    <3>1. c \in coh.sharers
      BY <1>6, <1>21, <2>1
    <3>2. g.gtype = "grantExclusive" => coh.sharers \subseteq {c}
      <4>1. k.kind = "acquireShared" \/ isWrite(k.kind)
        BY <1>4, <2>1, <2>2 DEF TrackerRec, Kind, isWrite, isBuiltInType
      <4>2. g.gtype = "grantExclusive" => k.kind # "acquireShared" \/ k.coh.sharers = {}
        BY <2>5 DEF getGrantType
      <4> QED BY <1>6, <1>17, <1>21, <2>1, <4>1, <4>2
    <3>3. Head(gnt'[c]).trk = t /\ trk'[t].coh = coh /\ Head(gnt'[c]).gtype = g.gtype
      BY <1>7, <2>5, <2>8
    <3>4. mshr'[c].state # "s_meta_write_req"
      BY <1>1, <2>3
    <3> QED BY <3>1, <3>2, <3>3, <3>4
  <2>16. AcquireTokens' /\ GrantsAlone'
    <3>1. AcquireTokens!1'
      BY <1>1 DEF AcquireTokens
    <3>2. ASSUME NEW d \in Client PROVE AcquireTokens!2!(d)' /\ GrantsAlone!(d)'
      <4>1. CASE d = c
        BY <2>14, <2>15, <4>1
      <4>2. CASE d # c
        BY <2>13, <4>2
      <4> QED BY <4>1, <4>2
    <3>3. AcquireTokens'
      BY <3>1, <3>2 DEF AcquireTokens
    <3> QED BY <3>2, <3>3 DEF GrantsAlone
  <2> QED BY <1>1, <1>9, <1>10, <1>11, <1>13, <1>14, <1>15, <1>16, <1>18, <2>9, <2>10, <2>16,
             SameCopies, Frames
<1> QED BY <1>4, <1>20, <1>21

\* A tracker is done, or has only the metadata left to write.
LEMMA DoneInv ==
  ASSUME IInv, NEW t \in Tracker, Done(t)
  PROVE  IInv'
<1> USE DEF IInv
<1>1. /\ UNCHANGED <<l1, mshr, fq, unc, acq, rel, prb, gnt, meta, data, rt, wb, mem, latest>>
      /\ trk[t].state = "s_busy" /\ trk[t].gnt = "finished" /\ trk[t].vol = NoClient
      /\ trk' = [trk EXCEPT ![t] = IF @.meta_write THEN [@ EXCEPT !.state = "s_meta_write"] ELSE NoTrk]
  BY DEF Done, all_pending_done, l1vars
<1>2. PICK k \in TrackerRec(Int) : k = trk[t]
  BY DEF Types
<1>3. PICK b \in Block : b = k.blk
  BY <1>1, <1>2 DEF TrackerShape, Busy
<1>4. /\ trk' \in [Tracker -> TrackerRec(Int)]
      /\ \A u \in Tracker : u # t => trk'[u] = trk[u]
      /\ \/ /\ k.meta_write
            /\ trk'[t].state = "s_meta_write" /\ trk'[t].iprbs = k.iprbs /\ trk'[t].irels = k.irels
            /\ trk'[t].client = k.client /\ trk'[t].blk = b /\ trk'[t].kind = k.kind
            /\ trk'[t].line = k.line /\ trk'[t].coh = k.coh /\ trk'[t].meta_write
            /\ trk'[t].vol = k.vol /\ trk'[t].gnt = k.gnt
         \/ ~ k.meta_write /\ trk'[t] = NoTrk
  <2>1. trk \in [Tracker -> TrackerRec(Int)] /\ NoTrk \in TrackerRec(Int)
    BY IdleTypes DEF Types
  <2>2. PICK k1 \in TrackerRec(Int) : k1 = [k EXCEPT !.state = "s_meta_write"]
    BY DEF TrackerRec
  <2>3. /\ k1.state = "s_meta_write" /\ k1.client = k.client /\ k1.blk = k.blk /\ k1.kind = k.kind
        /\ k1.line = k.line /\ k1.iprbs = k.iprbs /\ k1.gnt = k.gnt /\ k1.coh = k.coh
        /\ k1.irels = k.irels /\ k1.vol = k.vol
    BY <2>2 DEF TrackerRec
  <2>4. k1.meta_write = k.meta_write
    BY <2>2 DEF TrackerRec
  <2>5. trk' = [trk EXCEPT ![t] = IF k.meta_write THEN k1 ELSE NoTrk]
    BY <1>1, <1>2, <2>2
  <2>6. CASE k.meta_write
    BY <1>3, <2>1, <2>3, <2>4, <2>5, <2>6
  <2>7. CASE ~ k.meta_write
    BY <2>1, <2>5, <2>7
  <2> QED BY <2>6, <2>7
<1>5. /\ NoTrk.iprbs = {} /\ NoTrk.irels = 0 /\ NoTrk.vol = NoClient /\ NoTrk.gnt = "pending"
      /\ NoTrk.state = "s_idle"
  BY DEF NoTrk
<1>6. /\ Busy(t) /\ k.iprbs = {} /\ k.irels = 0 /\ k.coh.valid /\ SetOf[k.line] = SetOf[b] /\ k.line \in Line
      /\ Resident(b) => meta[k.line].tag = b
      /\ k.meta_write \/ (Resident(b) /\ meta[k.line].coh = k.coh)
      /\ k.client \in Client \cup Uncached /\ (k.client \in Uncached <=> isBuiltInType(k.kind))
  BY <1>1, <1>2, <1>3, TypeFacts DEF TrackerShape, Busy
<1>7. /\ \A u \in Tracker : Busy(u)' => Busy(u) /\ trk'[u].blk = trk[u].blk /\ trk'[u].line = trk[u].line
      /\ \A u \in Tracker : trk'[u].vol = trk[u].vol
      /\ \A u \in Tracker : /\ trk'[u].state = "s_meta_read" => trk[u].state = "s_meta_read"
                            /\ trk[u].state = "s_wb_req" => trk'[u].state = "s_wb_req"
  BY <1>1, <1>2, <1>3, <1>4, <1>5 DEF Busy
<1>8. Types(Int)'
  BY <1>1, <1>4 DEF Types
<1>9. SetsApart'
  BY <1>7 DEF SetsApart
<1>10. ASSUME NEW u \in Tracker PROVE TrackerShape(u)'
  <2>1. CASE u # t
    BY <1>1, <1>4, <2>1, TrackerFrame
  <2>2. CASE u = t /\ k.meta_write
    <3>1. Resident(b)' <=> Resident(b)
      BY <1>1 DEF Resident
    <3> QED BY <1>1, <1>2, <1>4, <1>6, <2>2, <3>1 DEF TrackerShape, Busy
  <2>3. CASE u = t /\ ~ k.meta_write
    BY <1>4, <1>5, <2>3 DEF TrackerShape, Busy
  <2> QED BY <2>1, <2>2, <2>3
<1>11. RtShape' /\ WbShape'
  <2>1. RtShape'
    BY <1>1, <1>7, RtFrame
  <2>2. wb.state # "s_idle" => wb.trk # t
    BY <1>1 DEF WbShape
  <2> QED BY <1>1, <1>4, <2>1, <2>2 DEF WbShape
<1>12. WritebackTokens'
  BY <1>1, <1>7, WritebackFrame
<1>13. AcquireTokens' /\ GrantsAlone'
  <2>1. \A d \in Client, u \in Tracker :
          /\ AtTracker(d, u)' =>
               AtTracker(d, u) /\ trk'[u].blk = trk[u].blk /\ trk'[u].kind = trk[u].kind
          /\ Granted(d, u) => u # t
    BY <1>1, <1>2, <1>4, <1>5 DEF AtTracker, Granted, Busy
  <2>2. \A d \in Client, u \in Tracker : Granted(d, u) => Granted(d, u)' /\ trk'[u] = trk[u]
    BY <1>4, <2>1 DEF Granted
  <2> QED BY <1>1, <2>1, <2>2, RequestFrame
<1>14. \A u \in Tracker : /\ trk'[u].state = "s_inner_probe" => trk'[u] = trk[u]
                          /\ trk[u].state = "s_inner_probe" => trk'[u] = trk[u]
  BY <1>1, <1>4, <1>5
<1>15. ProbesMatched' /\ \A x : Out(x)' = Out(x)
  <2>1. \A d \in Client, x \in Block : \A q : Prober(d, x, q) => Prober(d, x, q)'
    BY <1>1, <1>14 DEF Prober
  <2> QED BY <1>1, <2>1, ProbeFrame
<1>16. ProbesCounted' /\ SharersProbed'
  BY <1>1, <1>14, <1>15 DEF ProbesCounted, SharersProbed
<1>17. SharedInTracker' /\ DowngradesPending'
  <2>1. \A d, x : Probed(d, x)' <=> Probed(d, x)
    BY <1>1 DEF Probed
  <2>2. \A u \in Tracker : trk'[u].state \in {"s_busy", "s_meta_write"} =>
          /\ trk[u].state \in {"s_busy", "s_meta_write"} /\ trk'[u].blk = trk[u].blk
          /\ trk'[u].coh.sharers \subseteq trk[u].coh.sharers /\ trk'[u].kind = trk[u].kind
          /\ trk'[u].client = trk[u].client
          /\ trk'[u].gnt = "pending" => trk[u].gnt = "pending"
    BY <1>1, <1>2, <1>3, <1>4, <1>5
  <2> QED BY <1>1, <1>14, <2>1, <2>2, SameCopies, PermissionFrame
<1>18. \A d \in Client, x \in Block : Entitled(d, x)' <=> Entitled(d, x)
  BY <1>1, SameCopies
<1>19. CASE k.meta_write
  <2>1. \A u \in Tracker : \A x : Serving(u, x)' <=> Serving(u, x)
    BY <1>1, <1>2, <1>3, <1>4, <1>19 DEF Serving
  <2>2. \A u \in Tracker : trk'[u].coh = trk[u].coh /\ trk'[u].line = trk[u].line /\ trk'[u].blk = trk[u].blk
    BY <1>2, <1>3, <1>4, <1>19
  <2>3. \A u \in Tracker : trk'[u].state \in {"s_outer_acquire", "s_busy", "s_meta_write"} =>
          trk[u].state \in {"s_outer_acquire", "s_busy", "s_meta_write"}
    BY <1>1, <1>4
  <2>4. Listed'
    BY <1>1, <1>18, <2>1, <2>2, <2>3, ListedFrame
  <2>5. SharedInDirectory'
    BY <1>1, <1>14, <2>1, SameCopies, PermissionFrame
  <2> QED BY <1>1, <1>8, <1>9, <1>10, <1>11, <1>12, <1>13, <1>15, <1>16, <1>17, <2>4, <2>5,
             SameCopies, Frames
<1>20. CASE ~ k.meta_write
  <2>1. trk'[t] = NoTrk /\ Resident(b) /\ meta[k.line].tag = b /\ meta[k.line].coh = k.coh
    BY <1>4, <1>6, <1>20
  <2>2. /\ \A u \in Tracker : \A x : Serving(u, x)' <=> Serving(u, x) /\ u # t
        /\ \A x : Serving(t, x) <=> x = b
        /\ \A u \in Tracker : Serving(u, b) => u = t
    <3>1. \A u \in Tracker : \A x : Serving(u, x)' <=> Serving(u, x) /\ u # t
      BY <1>1, <1>4, <1>5, <2>1 DEF Serving
    <3>2. \A x : Serving(t, x) <=> x = b
      BY <1>1, <1>2, <1>3 DEF Serving
    <3>3. \A u \in Tracker : Serving(u, b) => u = t
      BY <1>2, <1>3, <1>6, OneUnit DEF Serving, Busy
    <3> QED BY <3>1, <3>2, <3>3
  <2>3. Listed'
    <3> SUFFICES ASSUME NEW d \in Client, NEW x \in Block, Entitled(d, x) PROVE Lists(d, x)'
      BY <1>18 DEF Listed
    <3>1. Lists(d, x)
      BY DEF Listed
    <3>2. Lists(d, x)!1'
      BY <1>4, <2>2, <3>1 DEF Lists
    <3>3. Lists(d, x)!2'
      <4>1. CASE x = b
        <5>1. d \in k.coh.sharers
          BY <1>2, <2>2, <3>1, <4>1 DEF Lists
        <5> QED BY <1>1, <1>6, <2>1, <4>1, <5>1
      <4>2. CASE x # b
        BY <1>1, <2>2, <3>1, <4>2 DEF Lists
      <4> QED BY <4>1, <4>2
    <3>4. Lists(d, x)!3' /\ Lists(d, x)!5'
      BY <1>1, <3>1 DEF Lists
    <3>5. Lists(d, x)!4'
      BY <1>1, <1>4, <1>5, <2>1, <3>1 DEF Lists
    <3> QED BY <3>2, <3>3, <3>4, <3>5 DEF Lists
  <2>4. SharedInDirectory'
    <3> SUFFICES ASSUME NEW n \in Line, meta[n].tag # NoBlock, Two(meta[n].coh.sharers),
                        \A u \in Tracker : ~ (Serving(u, meta[n].tag)' /\ trk'[u].state # "s_inner_probe")
                 PROVE  AllShared(meta[n].tag)
      BY <1>1, SameCopies DEF SharedInDirectory, Two
    <3>1. CASE meta[n].tag = b
      <4>1. n = k.line
        BY <1>6, <2>1, <3>1 DEF MetaShape
      <4> QED BY <1>1, <1>2, <1>3, <2>1, <3>1, <4>1 DEF SharedInTracker
    <3>2. CASE meta[n].tag # b
      <4>1. \A u \in Tracker : Serving(u, meta[n].tag) => u # t /\ Serving(u, meta[n].tag)'
        BY <1>1, <2>2, <3>2
      <4> QED BY <1>4, <4>1 DEF SharedInDirectory
    <3> QED BY <3>1, <3>2
  <2> QED BY <1>1, <1>8, <1>9, <1>10, <1>11, <1>12, <1>13, <1>15, <1>16, <1>17, <2>3, <2>4,
             SameCopies, Frames
<1> QED BY <1>19, <1>20

\* The new directory entry replaces that of the line.
LEMMA MetaWriteInv ==
  ASSUME IInv, NEW t \in Tracker, MetaWrite(t)
  PROVE  IInv'
<1> USE DEF IInv
<1>1. /\ UNCHANGED <<l1, mshr, fq, unc, acq, rel, prb, gnt, data, rt, wb, mem, latest>>
      /\ trk[t].state = "s_meta_write" /\ trk' = [trk EXCEPT ![t] = NoTrk]
      /\ meta' = [meta EXCEPT ![trk[t].line] = [tag |-> trk[t].blk, coh |-> trk[t].coh]]
  BY DEF MetaWrite, l1vars
<1>2. PICK k \in TrackerRec(Int) : k = trk[t]
  BY DEF Types
<1>3. PICK b \in Block : b = k.blk
  BY <1>1, <1>2 DEF TrackerShape, Busy
<1>4. PICK o \in Line : o = k.line
  BY <1>2, TypeFacts
<1>5. /\ Busy(t) /\ k.coh.valid /\ SetOf[o] = SetOf[b] /\ k.coh \in Coh /\ b # NoBlock
      /\ Resident(b) => meta[o].tag = b
      /\ k.gnt = "finished" /\ k.vol = NoClient
  BY <1>1, <1>2, <1>3, <1>4, L2CacheAssumption DEF TrackerShape, Busy, TrackerRec
<1>6. /\ meta' \in [Line -> [tag : Block \cup {NoBlock}, coh : Coh]]
      /\ meta'[o].tag = b /\ meta'[o].coh = k.coh
      /\ \A n \in Line : n # o => meta'[n] = meta[n]
  <2>1. [tag |-> b, coh |-> k.coh] \in [tag : Block \cup {NoBlock}, coh : Coh]
    BY <1>5
  <2>2. meta' = [meta EXCEPT ![o] = [tag |-> b, coh |-> k.coh]]
    BY <1>1, <1>2, <1>3, <1>4
  <2> QED BY <2>1, <2>2 DEF Types
<1>7. /\ trk' \in [Tracker -> TrackerRec(Int)] /\ trk'[t] = NoTrk
      /\ \A u \in Tracker : u # t => trk'[u] = trk[u]
  BY <1>1, IdleTypes DEF Types
<1>8. /\ NoTrk.iprbs = {} /\ NoTrk.irels = 0 /\ NoTrk.vol = NoClient /\ NoTrk.gnt = "pending"
      /\ NoTrk.state = "s_idle"
  BY DEF NoTrk
<1>9. /\ \A u \in Tracker : Busy(u)' <=> Busy(u) /\ u # t
      /\ \A u \in Tracker : trk'[u].vol = trk[u].vol
      /\ \A u \in Tracker : \A x : Serving(u, x)' <=> Serving(u, x) /\ u # t
      /\ \A x : Serving(t, x) <=> x = b
  <2>1. \A u \in Tracker : Busy(u)' <=> Busy(u) /\ u # t
    BY <1>7, <1>8 DEF Busy
  <2>2. \A u \in Tracker : trk'[u].vol = trk[u].vol
    BY <1>2, <1>5, <1>7, <1>8
  <2>3. \A u \in Tracker : \A x : Serving(u, x)' <=> Serving(u, x) /\ u # t
    BY <1>7, <1>8 DEF Serving
  <2>4. \A x : Serving(t, x) <=> x = b
    BY <1>1, <1>2, <1>3 DEF Serving
  <2> QED BY <2>1, <2>2, <2>3, <2>4
<1>10. /\ \A u \in Tracker : Busy(u) /\ u # t => trk[u].blk # b /\ meta[o].tag # trk[u].blk
       /\ \A u \in Tracker : trk[u].state \notin {"s_idle", "s_meta_read"} /\ u # t => trk[u].line # o
  <2>1. trk[t].state \notin {"s_idle", "s_meta_read"}
    BY <1>1
  <2> QED BY <1>2, <1>3, <1>4, <1>5, <2>1, OneUnit
<1>11. \A n \in Line : n # o => meta[n].tag # b
  BY <1>4, <1>5 DEF Resident, MetaShape
<1>12. Types(Int)'
  BY <1>1, <1>6, <1>7 DEF Types
<1>13. MetaShape'
  <2>1. ASSUME NEW n \in Line PROVE MetaShape!1!(n)'
    <3>1. CASE n = o
      BY <1>5, <1>6, <3>1
    <3>2. CASE n # o
      BY <1>6, <3>2 DEF MetaShape
    <3> QED BY <3>1, <3>2
  <2>2. \A n, m \in Line : meta'[n].tag = meta'[m].tag /\ meta'[n].tag # NoBlock => n = m
    BY <1>6, <1>11 DEF MetaShape
  <2> QED BY <2>1, <2>2 DEF MetaShape
<1>14. SetsApart'
  BY <1>7, <1>9 DEF SetsApart
<1>15. \A x : x # b /\ meta[o].tag # x => (Resident(x)' <=> Resident(x))
  BY <1>6 DEF Resident
<1>16. ASSUME NEW u \in Tracker PROVE TrackerShape(u)'
  <2>1. CASE u = t
    BY <1>7, <1>8, <2>1 DEF TrackerShape, Busy
  <2>2. CASE u # t /\ ~ Busy(u)
    <3>1. trk'[u] = NoTrk
      BY <1>7, <2>2 DEF TrackerShape, Busy
    <3> QED BY <1>8, <3>1 DEF TrackerShape, Busy
  <2>3. CASE u # t /\ Busy(u)
    <3>1. trk'[u] = trk[u] /\ wb' = wb /\ (Resident(trk[u].blk)' <=> Resident(trk[u].blk))
      BY <1>1, <1>7, <1>10, <1>15, <2>3
    <3>2. trk[u].state # "s_meta_read" => meta'[trk[u].line] = meta[trk[u].line]
      BY <1>6, <1>10, <2>3, TypeFacts DEF Busy
    <3> QED BY <2>3, <3>1, <3>2 DEF TrackerShape, Busy
  <2> QED BY <2>1, <2>2, <2>3
<1>17. RtShape'
  <2> SUFFICES ASSUME rt.state # "s_idle" PROVE RtShape!2'
    BY <1>1 DEF RtShape
  <2>1. meta[o].tag # rt.rel.blk /\ rt.rel.blk # b
    <3>1. \A x : x = rt.rel.blk /\ SetOf[x] = SetOf[b] => meta[o].tag # rt.rel.blk /\ rt.rel.blk # b
      BY <1>1, <1>2, <1>3, <1>4, <1>5 DEF RtShape
    <3>2. meta[o].tag = rt.rel.blk => SetOf[rt.rel.blk] = SetOf[b]
      <4>1. rt.rel.blk # NoBlock
        BY L2CacheAssumption DEF RtShape, ReleaseMsg
      <4> QED BY <1>5, <4>1 DEF MetaShape
    <3> QED BY <3>1, <3>2
  <2>2. Resident(rt.rel.blk)'
    <3>1. Resident(rt.rel.blk) /\ rt' = rt
      BY <1>1 DEF RtShape
    <3>2. \E n \in Line : n # o /\ meta[n].tag = rt.rel.blk
      BY <2>1, <3>1 DEF Resident
    <3> QED BY <1>6, <3>1, <3>2 DEF Resident
  <2>3. rt.line # o \/ rt.state = "s_meta_read"
    BY <2>1 DEF RtShape
  <2>4. rt.line \in Line
    BY DEF Types, RtRec
  <2>5. rt.state # "s_meta_read" => meta'[rt.line] = meta[rt.line]
    BY <1>6, <2>3, <2>4
  <2>6. \A u \in Tracker : Busy(u)' /\ SetOf[trk'[u].blk] = SetOf[rt.rel.blk] =>
          /\ trk'[u].state # "s_meta_read" /\ trk'[u].blk # rt.rel.blk
          /\ meta'[trk'[u].line].tag = rt.rel.blk => trk'[u].state = "s_wb_req"
    <3> SUFFICES ASSUME NEW u \in Tracker, Busy(u), u # t, SetOf[trk[u].blk] = SetOf[rt.rel.blk]
                 PROVE  /\ trk[u].state # "s_meta_read" /\ trk[u].blk # rt.rel.blk
                        /\ meta'[trk[u].line].tag = rt.rel.blk => trk[u].state = "s_wb_req"
      BY <1>7, <1>9
    <3>1. trk[u].state # "s_meta_read" /\ trk[u].blk # rt.rel.blk
      BY DEF RtShape
    <3>2. meta'[trk[u].line] = meta[trk[u].line]
      BY <1>6, <1>10, <3>1, TypeFacts DEF Busy
    <3> QED BY <3>1, <3>2 DEF RtShape
  <2> QED BY <1>1, <2>2, <2>5, <2>6 DEF RtShape
<1>18. WbShape'
  <2> SUFFICES ASSUME wb.state # "s_idle" PROVE WbShape!2'
    BY <1>1 DEF WbShape
  <2>1. wb.trk \in Tracker /\ trk[wb.trk].state = "s_wb_resp" /\ wb.trk # t /\ wb.line = trk[wb.trk].line
    BY <1>1 DEF WbShape
  <2>2. trk'[wb.trk] = trk[wb.trk] /\ meta'[wb.line] = meta[wb.line]
    BY <1>6, <1>7, <1>10, <2>1, TypeFacts
  <2> QED BY <1>1, <2>1, <2>2 DEF WbShape
<1>19. WritebackTokens'
  BY <1>1, <1>9, WritebackFrame
<1>20. AcquireTokens' /\ GrantsAlone'
  <2>1. \A d \in Client, u \in Tracker :
          /\ AtTracker(d, u)' =>
               AtTracker(d, u) /\ trk'[u].blk = trk[u].blk /\ trk'[u].kind = trk[u].kind
          /\ Granted(d, u) => u # t
    BY <1>1, <1>7, <1>9 DEF AtTracker, Granted
  <2>2. \A d \in Client, u \in Tracker : Granted(d, u) => Granted(d, u)' /\ trk'[u] = trk[u]
    BY <1>7, <2>1 DEF Granted
  <2> QED BY <1>1, <2>1, <2>2, RequestFrame
<1>21. \A u \in Tracker : /\ trk'[u].state = "s_inner_probe" => trk'[u] = trk[u]
                          /\ trk[u].state = "s_inner_probe" => trk'[u] = trk[u]
                          /\ trk'[u].state \in {"s_busy", "s_meta_write"} => trk'[u] = trk[u]
  BY <1>1, <1>7, <1>8
<1>22. ProbesMatched' /\ \A x : Out(x)' = Out(x)
  <2>1. \A d \in Client, x \in Block : \A q : Prober(d, x, q) => Prober(d, x, q)'
    BY <1>1, <1>21 DEF Prober
  <2> QED BY <1>1, <2>1, ProbeFrame
<1>23. ProbesCounted' /\ SharersProbed'
  BY <1>1, <1>21, <1>22 DEF ProbesCounted, SharersProbed
<1>24. SharedInTracker' /\ DowngradesPending'
  <2>1. \A d, x : Probed(d, x)' <=> Probed(d, x)
    BY <1>1 DEF Probed
  <2> QED BY <1>1, <1>21, <2>1, SameCopies, PermissionFrame
<1>25. Listed'
  <2> SUFFICES ASSUME NEW d \in Client, NEW x \in Block, Entitled(d, x) PROVE Lists(d, x)'
    BY <1>1, SameCopies DEF Listed
  <2>1. Lists(d, x)
    BY DEF Listed
  <2>2. Lists(d, x)!1'
    BY <1>7, <1>9, <2>1 DEF Lists
  <2>3. Lists(d, x)!2'
    <3>1. CASE x = b
      BY <1>2, <1>6, <1>9, <2>1, <3>1 DEF Lists
    <3>2. CASE x # b
      <4> SUFFICES ASSUME \A u \in Tracker : ~ Serving(u, x)'
                   PROVE  \E n \in Line : meta'[n].tag = x /\ d \in meta'[n].coh.sharers
        OBVIOUS
      <4>1. \A u \in Tracker : ~ Serving(u, x)
        BY <1>9, <3>2
      <4>2. PICK n \in Line : meta[n].tag = x /\ d \in meta[n].coh.sharers
        BY <2>1, <4>1 DEF Lists
      <4>3. n # o
        BY <1>1, <1>2, <1>3, <1>4, <2>1, <3>2, <4>2 DEF Lists
      <4> QED BY <1>6, <4>2, <4>3
    <3> QED BY <3>1, <3>2
  <2>4. Lists(d, x)!3' /\ Lists(d, x)!5'
    BY <1>1, <2>1 DEF Lists
  <2>5. Lists(d, x)!4'
    <3> SUFFICES ASSUME NEW u \in Tracker, trk'[u].state \in {"s_outer_acquire", "s_busy", "s_meta_write"},
                        meta'[trk'[u].line].tag = x
                 PROVE  trk'[u].blk = x
      OBVIOUS
    <3>1. u # t /\ trk'[u] = trk[u]
      BY <1>7, <1>8
    <3>2. meta'[trk[u].line] = meta[trk[u].line]
      BY <1>6, <1>10, <3>1, TypeFacts
    <3> QED BY <2>1, <3>1, <3>2 DEF Lists
  <2> QED BY <2>2, <2>3, <2>4, <2>5 DEF Lists
<1>26. SharedInDirectory'
  <2> SUFFICES ASSUME NEW n \in Line, meta'[n].tag # NoBlock, Two(meta'[n].coh.sharers),
                      \A u \in Tracker : ~ (Serving(u, meta[n].tag)' /\ trk'[u].state # "s_inner_probe")
               PROVE  AllShared(meta'[n].tag)
    <3>1. \A S : Two(S)' <=> Two(S)
      BY DEF Two
    <3> QED BY <1>1, <3>1, SameCopies DEF SharedInDirectory, Two
  <2>1. CASE n = o
    BY <1>1, <1>2, <1>3, <1>6, <2>1 DEF SharedInTracker
  <2>2. CASE n # o
    <3>1. meta'[n] = meta[n] /\ meta[n].tag # b
      BY <1>6, <1>11, <2>2
    <3>2. \A u \in Tracker : Serving(u, meta[n].tag) => u # t /\ trk'[u] = trk[u] /\ Serving(u, meta[n].tag)'
      BY <1>7, <1>9, <3>1 DEF Serving
    <3> QED BY <3>1, <3>2 DEF SharedInDirectory
  <2> QED BY <2>1, <2>2
<1> QED BY <1>1, <1>12, <1>13, <1>14, <1>16, <1>17, <1>18, <1>19, <1>20, <1>22, <1>23, <1>24,
           <1>25, <1>26, SameCopies, Frames

-----------------------------------------------------------------------------
(***************************************************************************)
(* Steps of the release tracker.                                           *)
(***************************************************************************)

\* A release that matches nobody is of a block that is in the cache.
LEMMA RtAcceptInv ==
  ASSUME IInv, RtAccept
  PROVE  IInv'
<1> USE DEF IInv
<1>1. /\ UNCHANGED <<l1, mshr, fq, unc, acq, prb, gnt, meta, data, trk, wb, mem, latest>>
      /\ rel # <<>> /\ rel' = Tail(rel) /\ rel \in Seq(ReleaseMsg) /\ rt.state = "s_idle"
  BY DEF RtAccept, l1vars, Types
<1>2. PICK r \in ReleaseMsg : r = Head(rel)
  BY <1>1, TailFacts
<1>3. /\ r.voluntary /\ ~ irel_matches_wb(r.blk) /\ \A u \in Tracker : ~ irel_matches(u, r.blk)
      /\ rt' = [rt EXCEPT !.state = "s_meta_read", !.rel = r]
  BY <1>2 DEF RtAccept
<1>4. /\ rel' \in Seq(ReleaseMsg) /\ r.client \in Client /\ r.blk \in Block
      /\ \A i \in DOMAIN rel' : i \in Nat /\ i + 1 \in DOMAIN rel /\ rel'[i] = rel[i + 1]
      /\ r.ptype = "probeInvalidate" /\ VolMsg(r.client, 1) /\ 1 \in DOMAIN rel /\ rel[1] = r
      /\ mshr[r.client].state = "s_wb_resp" /\ gnt[r.client] = <<>>
      /\ \A i \in DOMAIN rel' : rel'[i].voluntary => rel'[i].client # r.client
      /\ \A u \in Tracker : trk[u].vol # r.client
      /\ wb.vol # r.client /\ ~ AtRt(r.client)
      /\ \A d \in Client, x \in Block : Entitled(d, x)' => Entitled(d, x)
      /\ \A d \in Client, x \in Block : Owns(d, x)' => Owns(d, x)
      /\ ~ Entitled(r.client, r.blk)'
      /\ AnswerersOut'
      /\ \A x : Out(x)' = Out(x)
      /\ (\A d \in Client, x \in Block : \A q : Prober(d, x, q) => Prober(d, x, q)') => ProbesMatched'
  BY <1>1, <1>2, <1>3, ReleaseTaken
<1>5. PICK b \in Block : b = r.blk
  BY <1>4
<1>6. /\ rt' \in RtRec /\ rt'.state = "s_meta_read" /\ rt'.rel = r
  <2>1. rt \in RtRec
    BY DEF Types
  <2> QED BY <1>3, <2>1 DEF RtRec
<1>7. Types(Int)'
  BY <1>1, <1>4, <1>6 DEF Types
<1>8. Lists(r.client, b)
  <2>1. Entitled(r.client, b)
    BY <1>4, <1>5 DEF Entitled
  <2> QED BY <1>4, <2>1 DEF Listed
<1>9. \A u \in Tracker : Busy(u) =>
        /\ trk[u].state = "s_meta_read" => SetOf[trk[u].blk] # SetOf[b]
        /\ trk[u].state \notin {"s_meta_read", "s_wb_req"} => trk[u].blk # b
  BY <1>3, <1>5 DEF irel_matches, before_wb_req
<1>10. Resident(b)
  <2>1. \A u \in Tracker : ~ Serving(u, b)
    BY <1>9 DEF Serving, Busy
  <2> QED BY <1>8, <2>1 DEF Lists, Resident
<1>11. ASSUME NEW u \in Tracker, Busy(u), SetOf[trk[u].blk] = SetOf[b]
       PROVE  /\ trk[u].state # "s_meta_read" /\ trk[u].blk # b
              /\ meta[trk[u].line].tag = b => trk[u].state = "s_wb_req"
  <2>1. trk[u].state # "s_meta_read"
    BY <1>9, <1>11
  <2>2. trk[u].blk # b
    BY <1>9, <1>10, <1>11, <2>1 DEF TrackerShape
  <2>3. meta[trk[u].line].tag = b =>
          trk[u].state \notin {"s_outer_acquire", "s_busy", "s_meta_write", "s_inner_probe"}
    BY <1>8, <2>2 DEF Lists, TrackerShape
  <2>4. meta[trk[u].line].tag = b => trk[u].state # "s_wb_resp"
    BY <1>3, <1>5 DEF TrackerShape, WbShape, irel_matches_wb
  <2> QED BY <1>11, <2>1, <2>2, <2>3, <2>4 DEF Busy, Types, TrackerRec
<1>12. RtShape'
  <2>1. Resident(b)'
    BY <1>1, <1>10 DEF Resident
  <2>2. \A u \in Tracker : Busy(u)' <=> Busy(u)
    BY <1>1 DEF Busy
  <2> QED BY <1>1, <1>3, <1>4, <1>5, <1>6, <1>11, <2>1, <2>2 DEF RtShape
<1>13. WritebackTokens'
  <2>1. \A d : AtRt(d)' => d = r.client
    BY <1>6 DEF AtRt
  <2> QED BY <1>1, <1>4, <2>1, WritebackMoved
<1>14. ProbesMatched'
  <2>1. \A d \in Client, x \in Block : \A q : Prober(d, x, q) => Prober(d, x, q)'
    BY <1>1 DEF Prober
  <2> QED BY <1>4, <2>1
<1>15. ProbesCounted' /\ SharersProbed'
  BY <1>1, <1>4 DEF ProbesCounted, SharersProbed
<1>16. Listed'
  <2>1. \A u \in Tracker : \A x : Serving(u, x)' <=> Serving(u, x)
    BY <1>1 DEF Serving
  <2>2. \A d \in Client, x \in Block : Entitled(d, x)' => Entitled(d, x) /\ ~ (d = rt'.rel.client /\ x = rt'.rel.blk)
    BY <1>4, <1>6
  <2> QED BY <1>1, <2>1, <2>2, ListedFrame
<1>17. SharedInDirectory' /\ SharedInTracker' /\ DowngradesPending'
  <2>1. \A d, x : Probed(d, x)' <=> Probed(d, x)
    BY <1>1 DEF Probed
  <2>2. \A u \in Tracker : \A x : Serving(u, x)' <=> Serving(u, x)
    BY <1>1 DEF Serving
  <2> QED BY <1>1, <1>4, <2>1, <2>2, PermissionFrame
<1> QED BY <1>1, <1>4, <1>7, <1>12, <1>13, <1>14, <1>15, <1>16, <1>17, Frames

\* The release tracker finds its line.
LEMMA RtMetaRespInv ==
  ASSUME IInv, RtMetaResp
  PROVE  IInv'
<1> USE DEF IInv
<1>1. /\ UNCHANGED <<l1, mshr, fq, unc, acq, rel, prb, gnt, meta, data, trk, wb, mem, latest>>
      /\ rt.state = "s_meta_read"
  BY DEF RtMetaResp, l1vars
<1>2. PICK n \in Line : /\ rt' = [rt EXCEPT !.state = "s_busy", !.line = n, !.old = meta[n].coh]
                        /\ meta[n].tag = rt.rel.blk
  BY DEF RtMetaResp, L2Match
<1>3. rt' \in RtRec /\ rt'.state = "s_busy" /\ rt'.line = n /\ rt'.old = meta[n].coh /\ rt'.rel = rt.rel
  <2>1. rt \in RtRec /\ meta[n].coh \in Coh
    BY DEF Types
  <2> QED BY <1>2, <2>1 DEF RtRec
<1>4. Types(Int)'
  BY <1>1, <1>3 DEF Types
<1>5. RtShape'
  <2>1. \A x : Resident(x)' <=> Resident(x)
    BY <1>1 DEF Resident
  <2>2. \A u \in Tracker : Busy(u)' <=> Busy(u)
    BY <1>1 DEF Busy
  <2> QED BY <1>1, <1>2, <1>3, <2>1, <2>2 DEF RtShape
<1>6. WritebackTokens'
  <2>1. \A d : AtRt(d)' <=> AtRt(d)
    BY <1>1, <1>3 DEF AtRt
  <2>2. \A d, i : VolMsg(d, i)' <=> VolMsg(d, i)
    BY <1>1 DEF VolMsg
  <2> QED BY <1>1, <2>1, <2>2 DEF WritebackTokens
<1>7. Listed'
  <2>1. \A d \in Client, x \in Block : Entitled(d, x)' <=> Entitled(d, x)
    BY <1>1, SameCopies
  <2>2. \A u \in Tracker : \A x : Serving(u, x)' <=> Serving(u, x)
    BY <1>1 DEF Serving
  <2> QED BY <1>1, <1>3, <2>1, <2>2, ListedFrame
<1>8. SharedInDirectory' /\ SharedInTracker' /\ DowngradesPending'
  <2>1. \A d, x : Probed(d, x)' <=> Probed(d, x)
    BY <1>1 DEF Probed
  <2>2. \A u \in Tracker : \A x : Serving(u, x)' <=> Serving(u, x)
    BY <1>1 DEF Serving
  <2> QED BY <1>1, <2>1, <2>2, SameCopies, PermissionFrame
<1> QED BY <1>1, <1>4, <1>5, <1>6, <1>7, <1>8, SameCopies, Frames

\* The release tracker acknowledges the write-back.
LEMMA RtAckInv ==
  ASSUME IInv, RtAck
  PROVE  IInv'
<1> USE DEF IInv
<1>1. /\ UNCHANGED <<l1, mshr, fq, unc, acq, rel, prb, meta, trk, wb, mem, latest>>
      /\ rt.state = "s_busy"
      /\ data' = [data EXCEPT ![rt.line] = rt.rel.data]
      /\ gnt' = [gnt EXCEPT ![rt.rel.client] = Append(@, [gtype |-> "voluntaryAck"])]
      /\ rt' = [rt EXCEPT !.state = "s_meta_write"]
  BY DEF RtAck, l1vars
<1>2. rt.rel \in ReleaseMsg
  BY <1>1 DEF RtShape
<1>3. PICK c \in Client : c = rt.rel.client
  BY <1>2 DEF ReleaseMsg
<1>4. rt' \in RtRec /\ rt'.state = "s_meta_write" /\ rt'.line = rt.line /\ rt'.old = rt.old /\ rt'.rel = rt.rel
  <2>1. rt \in RtRec
    BY DEF Types
  <2> QED BY <1>1, <2>1 DEF RtRec
<1>5. /\ mshr[c].state = "s_wb_resp" /\ gnt[c] = <<>>
      /\ \A u \in Tracker : trk[u].vol # c
      /\ wb.vol # c /\ \A i \in DOMAIN rel : ~ VolMsg(c, i)
  BY <1>1, <1>3 DEF WritebackTokens, AtRt
<1>6. gnt' \in [Client -> Seq(GrantMsg)] /\ WritebackTokens' /\ AcquireTokens' /\ GrantsAlone'
  <2>1. \A d : ~ AtRt(d)'
    BY <1>4 DEF AtRt
  <2>2. gnt' = [gnt EXCEPT ![c] = Append(@, [gtype |-> "voluntaryAck"])]
    BY <1>1, <1>3
  <2> QED BY <1>1, <1>5, <2>1, <2>2, WritebackAcknowledged
<1>7. Types(Int)'
  <2>1. data' \in [Line -> Value \cup {NoValue}]
    BY <1>1, <1>2 DEF Types, ReleaseMsg
  <2> QED BY <1>1, <1>4, <1>6, <2>1 DEF Types
<1>8. RtShape'
  <2>1. \A x : Resident(x)' <=> Resident(x)
    BY <1>1 DEF Resident
  <2>2. \A u \in Tracker : Busy(u)' <=> Busy(u)
    BY <1>1 DEF Busy
  <2> QED BY <1>1, <1>4, <2>1, <2>2 DEF RtShape
<1>9. Listed'
  <2>1. \A d \in Client, x \in Block : Entitled(d, x)' <=> Entitled(d, x)
    BY <1>1, SameCopies
  <2>2. \A u \in Tracker : \A x : Serving(u, x)' <=> Serving(u, x)
    BY <1>1 DEF Serving
  <2> QED BY <1>1, <1>4, <2>1, <2>2, ListedFrame
<1>10. SharedInDirectory' /\ SharedInTracker' /\ DowngradesPending'
  <2>1. \A d, x : Probed(d, x)' <=> Probed(d, x)
    BY <1>1 DEF Probed
  <2>2. \A u \in Tracker : \A x : Serving(u, x)' <=> Serving(u, x)
    BY <1>1 DEF Serving
  <2> QED BY <1>1, <2>1, <2>2, SameCopies, PermissionFrame
<1> QED BY <1>1, <1>6, <1>7, <1>8, <1>9, <1>10, SameCopies, Frames

\* The release tracker takes the releaser off the directory.
LEMMA RtMetaWriteInv ==
  ASSUME IInv, RtMetaWrite
  PROVE  IInv'
<1> USE DEF IInv
<1>1. /\ UNCHANGED <<l1, mshr, fq, unc, acq, rel, prb, gnt, data, trk, wb, mem, latest>>
      /\ rt.state = "s_meta_write" /\ rt' = NoRt
      /\ meta' = [meta EXCEPT ![rt.line] = [tag |-> rt.rel.blk, coh |-> onRelease(rt.old, rt.rel)]]
  BY DEF RtMetaWrite, l1vars
<1>2. PICK r \in ReleaseMsg : r = rt.rel
  BY <1>1 DEF RtShape
<1>3. PICK b \in Block, c \in Client : b = r.blk /\ c = r.client
  BY DEF ReleaseMsg
<1>4. PICK o \in Line : o = rt.line
  BY DEF Types, RtRec
<1>5. PICK old \in Coh : old = rt.old
  BY DEF Types, RtRec
<1>6. meta[o].tag = b /\ meta[o].coh = old /\ r.ptype = "probeInvalidate" /\ b # NoBlock
  BY <1>1, <1>2, <1>3, <1>4, <1>5, L2CacheAssumption DEF RtShape
<1>7. PICK coh \in Coh : coh = onRelease(old, r)
  BY PolicyTypes
<1>8. coh.valid = old.valid /\ coh.sharers = old.sharers \ {c}
  BY <1>3, <1>6, <1>7 DEF onRelease, Coh
<1>9. /\ meta' \in [Line -> [tag : Block \cup {NoBlock}, coh : Coh]]
      /\ meta'[o].coh = coh
      /\ \A n \in Line : n # o => meta'[n] = meta[n]
      /\ \A n \in Line : meta'[n].tag = meta[n].tag /\ meta'[n].coh.sharers \subseteq meta[n].coh.sharers
  <2>1. [tag |-> b, coh |-> coh] \in [tag : Block \cup {NoBlock}, coh : Coh]
    OBVIOUS
  <2>2. meta' = [meta EXCEPT ![o] = [tag |-> b, coh |-> coh]]
    BY <1>1, <1>2, <1>3, <1>4, <1>5, <1>7
  <2>3. /\ meta' \in [Line -> [tag : Block \cup {NoBlock}, coh : Coh]]
        /\ meta'[o].coh = coh /\ meta'[o].tag = b
        /\ \A n \in Line : n # o => meta'[n] = meta[n]
    BY <2>1, <2>2 DEF Types
  <2> QED BY <1>6, <1>8, <2>3
<1>10. rt'.state = "s_idle" /\ rt' \in RtRec
  BY <1>1, IdleTypes DEF NoRt
<1>11. Types(Int)'
  BY <1>1, <1>9, <1>10 DEF Types
<1>12. MetaShape'
  <2>1. ASSUME NEW n \in Line PROVE MetaShape!1!(n)'
    <3>1. CASE n = o
      BY <1>6, <1>8, <1>9, <3>1 DEF MetaShape
    <3>2. CASE n # o
      BY <1>9, <3>2 DEF MetaShape
    <3> QED BY <3>1, <3>2
  <2>2. \A n, m \in Line : meta'[n].tag = meta'[m].tag /\ meta'[n].tag # NoBlock => n = m
    BY <1>9 DEF MetaShape
  <2> QED BY <2>1, <2>2 DEF MetaShape
<1>13. \A x : Resident(x)' <=> Resident(x)
  BY <1>9 DEF Resident
<1>14. ASSUME NEW u \in Tracker, trk[u].state \in {"s_inner_probe", "s_busy", "s_meta_write"}
       PROVE  meta'[trk[u].line] = meta[trk[u].line]
  <2>1. Busy(u) /\ SetOf[trk[u].line] = SetOf[trk[u].blk] /\ trk[u].line \in Line
    BY <1>14, TypeFacts DEF TrackerShape, Busy
  <2>2. SetOf[b] = SetOf[o]
    BY <1>6 DEF MetaShape
  <2>3. trk[u].line # o
    BY <1>1, <1>2, <1>3, <1>4, <1>6, <1>14, <2>1, <2>2 DEF RtShape
  <2> QED BY <1>9, <2>1, <2>3
<1>15. ASSUME NEW u \in Tracker PROVE TrackerShape(u)'
  <2>1. trk'[u] = trk[u] /\ wb' = wb /\ trk[u].line \in Line
    BY <1>1, TypeFacts
  <2>2. CASE trk[u].state \in {"s_inner_probe", "s_busy", "s_meta_write"}
    BY <1>13, <1>14, <2>1, <2>2 DEF TrackerShape, Busy
  <2>3. CASE trk[u].state \notin {"s_inner_probe", "s_busy", "s_meta_write"}
    <3>1. meta'[trk[u].line].tag = meta[trk[u].line].tag
          /\ meta'[trk[u].line].coh.sharers \subseteq meta[trk[u].line].coh.sharers
      BY <1>9, <2>1
    <3> QED BY <1>13, <2>1, <2>3, <3>1 DEF TrackerShape, Busy
  <2> QED BY <2>2, <2>3
<1>16. RtShape' /\ WbShape'
  <2>1. wb.line \in Line
    BY DEF Types, WbRec
  <2> QED BY <1>1, <1>9, <1>10, <2>1 DEF RtShape, WbShape
<1>17. WritebackTokens'
  <2>1. \A d : AtRt(d)' <=> AtRt(d)
    BY <1>1, <1>10 DEF AtRt
  <2>2. \A d, i : VolMsg(d, i)' <=> VolMsg(d, i)
    BY <1>1 DEF VolMsg
  <2> QED BY <1>1, <2>1, <2>2 DEF WritebackTokens
<1>18. \A u \in Tracker : \A x : Serving(u, x)' <=> Serving(u, x)
  BY <1>1 DEF Serving
<1>19. Listed'
  <2> SUFFICES ASSUME NEW d \in Client, NEW x \in Block, Entitled(d, x) PROVE Lists(d, x)'
    BY <1>1, SameCopies DEF Listed
  <2>1. Lists(d, x)
    BY DEF Listed
  <2>2. Lists(d, x)!1' /\ Lists(d, x)!3' /\ Lists(d, x)!5'
    BY <1>1, <1>10, <1>18, <2>1 DEF Lists
  <2>3. Lists(d, x)!2'
    <3> SUFFICES ASSUME \A u \in Tracker : ~ Serving(u, x)
                 PROVE  \E n \in Line : meta'[n].tag = x /\ d \in meta'[n].coh.sharers
      BY <1>18
    <3>1. PICK n \in Line : meta[n].tag = x /\ d \in meta[n].coh.sharers
      BY <2>1 DEF Lists
    <3>2. n = o => d # c
      BY <1>1, <1>2, <1>3, <1>6, <2>1, <3>1 DEF Lists
    <3> QED BY <1>6, <1>8, <1>9, <3>1, <3>2
  <2>4. Lists(d, x)!4'
    BY <1>1, <1>9, <2>1, TypeFacts DEF Lists
  <2> QED BY <2>2, <2>3, <2>4 DEF Lists
<1>20. SharedInDirectory'
  <2> SUFFICES ASSUME NEW n \in Line, meta'[n].tag # NoBlock, Two(meta'[n].coh.sharers),
                      \A u \in Tracker : ~ (Serving(u, meta[n].tag)' /\ trk'[u].state # "s_inner_probe")
               PROVE  AllShared(meta'[n].tag)
    BY <1>1, SameCopies DEF SharedInDirectory, Two
  <2>1. Two(meta[n].coh.sharers) /\ meta'[n].tag = meta[n].tag
    BY <1>9 DEF Two
  <2>2. \A u \in Tracker : ~ (Serving(u, meta[n].tag) /\ trk[u].state # "s_inner_probe")
    BY <1>1, <1>18, <2>1
  <2> QED BY <2>1, <2>2 DEF SharedInDirectory
<1>21. SharedInTracker' /\ DowngradesPending'
  <2>1. \A d, x : Probed(d, x)' <=> Probed(d, x)
    BY <1>1 DEF Probed
  <2> QED BY <1>1, <2>1, SameCopies, PermissionFrame
<1> QED BY <1>1, <1>11, <1>12, <1>15, <1>16, <1>17, <1>19, <1>20, <1>21, SameCopies, Frames

-----------------------------------------------------------------------------
(***************************************************************************)
(* Steps of the write-back unit.                                           *)
(***************************************************************************)

\* The write-back unit probes the sharers of its line.
LEMMA WbSendProbeInv ==
  ASSUME IInv, NEW c \in Client, WbSendProbe(c)
  PROVE  IInv'
<1> USE DEF IInv
<1>1. /\ UNCHANGED <<l1, mshr, fq, unc, acq, rel, gnt, meta, data, trk, rt, mem, latest>>
      /\ wb.state = "s_inner_probe" /\ c \in wb.iprbs
      /\ wb' = [wb EXCEPT !.iprbs = @ \ {c}, !.irels = @ + 1]
  BY DEF WbSendProbe, l1vars
<1>2. PICK k \in WbRec(Int) : k = wb
  BY DEF Types
<1>3. PICK b \in Block : b = k.blk
  BY <1>1, <1>2 DEF WbShape
<1>4. PICK p \in ProbeMsg : p = [blk |-> b, ptype |-> "probeInvalidate"]
  BY DEF ProbeMsg, ProbeType
<1>5. p.blk = b /\ p.ptype = "probeInvalidate" /\ prb' = [prb EXCEPT ![c] = Append(@, p)]
  BY <1>2, <1>3, <1>4 DEF WbSendProbe
<1>6. /\ wb' \in WbRec(Int) /\ wb'.state = "s_inner_probe" /\ wb'.trk = k.trk /\ wb'.blk = b
      /\ wb'.line = k.line /\ wb'.coh = k.coh /\ wb'.iprbs = k.iprbs \ {c} /\ wb'.irels = k.irels + 1
      /\ wb'.vol = k.vol
  <2>1. PICK S \in SUBSET Client : S = k.iprbs \ {c}
    BY DEF WbRec
  <2>2. PICK i \in Int : i = k.irels + 1
    BY DEF WbRec
  <2>3. wb' = [k EXCEPT !.iprbs = S, !.irels = i]
    BY <1>1, <1>2, <2>1, <2>2
  <2>4. wb' \in WbRec(Int)
    BY <2>3 DEF WbRec
  <2>5. /\ wb'.state = k.state /\ wb'.trk = k.trk /\ wb'.blk = k.blk
        /\ wb'.line = k.line /\ wb'.coh = k.coh /\ wb'.iprbs = S /\ wb'.irels = i
        /\ wb'.vol = k.vol
    BY <2>3 DEF WbRec
  <2> QED BY <1>1, <1>2, <1>3, <2>1, <2>2, <2>4, <2>5
<1>7. \A u \in Tracker : trk[u].state = "s_inner_probe" => trk[u].blk # b
  BY <1>1, <1>2, <1>3, OneUnit DEF WbShape, Busy
<1>8. c \notin Out(b)
  <2>1. \A q : ~ Prober(c, b, q)
    BY <1>1, <1>2, <1>7 DEF Prober
  <2>2. ~ Probed(c, b)
    BY <2>1 DEF Probed, ProbesMatched
  <2>3. ~ Answered(c, b)
    BY <2>1 DEF Answered, AnsMsg, ProbesMatched
  <2> QED BY <2>2, <2>3 DEF Out
<1>9. /\ prb' \in [Client -> Seq(ProbeMsg)]
      /\ ProbesMatched'
      /\ \A d \in Client : \A x : Probed(d, x)' <=> Probed(d, x) \/ (d = c /\ x = b)
      /\ Out(b)' = Out(b) \cup {c}
      /\ \A x : x # b => Out(x)' = Out(x)
  <2>1. Prober(c, p.blk, p.ptype)'
    BY <1>1, <1>5, <1>6 DEF Prober
  <2>2. \A d \in Client, x \in Block : \A q : Prober(d, x, q) => Prober(d, x, q)'
    BY <1>1, <1>2, <1>3, <1>6 DEF Prober
  <2> QED BY <1>1, <1>5, <1>8, <2>1, <2>2, ProbeSent
<1>10. Types(Int)'
  BY <1>1, <1>6, <1>9 DEF Types
<1>11. ASSUME NEW u \in Tracker PROVE TrackerShape(u)'
  <2>1. trk[u].state = "s_wb_resp" => wb'.state # "s_idle" /\ wb'.trk = u
    BY <1>2, <1>6 DEF TrackerShape
  <2> QED BY <1>1, <2>1, TrackerFrame
<1>12. WbShape'
  BY <1>1, <1>2, <1>3, <1>6 DEF WbShape
<1>13. WritebackTokens'
  BY <1>1, <1>2, <1>6, WritebackFrame
<1>14. ProbesCounted'
  <2>1. k.irels = Cardinality(Out(b)) /\ k.irels \in Int
    BY <1>1, <1>2, <1>3 DEF ProbesCounted, WbRec
  <2>2. wb'.irels = Cardinality(Out(b)')
    <3>1. Out(b) \in SUBSET Client
      BY DEF Out
    <3>2. Cardinality(Out(b) \cup {c}) = Cardinality(Out(b)) + 1
      BY <1>8, <3>1, CardFacts
    <3> QED BY <1>6, <1>9, <2>1, <3>2
  <2>3. \A u \in Tracker : trk[u].state = "s_inner_probe" => Out(trk[u].blk)' = Out(trk[u].blk)
    BY <1>1, <1>7, <1>9
  <2>4. (wb.irels = Cardinality(Out(wb.blk)))'
    BY <1>6, <2>2
  <2> QED BY <1>1, <2>3, <2>4 DEF ProbesCounted
<1>15. SharersProbed'
  <2>1. k.coh.sharers \subseteq (k.iprbs \ {c}) \cup Out(b)'
    BY <1>1, <1>2, <1>3, <1>9 DEF SharersProbed
  <2> QED BY <1>1, <1>6, <1>7, <1>9, <2>1 DEF SharersProbed
<1>16. \A u \in Tracker : \A x : Serving(u, x)' <=> Serving(u, x)
  BY <1>1 DEF Serving
<1>17. Listed'
  <2>1. \A d \in Client, x \in Block : Entitled(d, x)' <=> Entitled(d, x)
    BY <1>1, SameCopies
  <2> QED BY <1>1, <1>2, <1>3, <1>6, <1>16, <2>1, ListedFrame
<1>18. SharedInDirectory' /\ SharedInTracker' /\ DowngradesPending'
  BY <1>1, <1>9, <1>16, SameCopies, PermissionFrame
<1> QED BY <1>1, <1>9, <1>10, <1>11, <1>12, <1>13, <1>14, <1>15, <1>17, <1>18, SameCopies, Frames

\* An answer or a write-back reaches the write-back unit.
LEMMA WbReleaseInv ==
  ASSUME IInv, WbRelease
  PROVE  IInv'
<1> USE DEF IInv
<1>1. /\ UNCHANGED <<l1, mshr, fq, unc, acq, prb, gnt, meta, data, trk, rt, mem, latest>>
      /\ rel # <<>> /\ rel' = Tail(rel) /\ rel \in Seq(ReleaseMsg) /\ wb.state = "s_inner_probe"
  BY DEF WbRelease, l1vars, Types
<1>2. PICK r \in ReleaseMsg : r = Head(rel)
  BY <1>1, TailFacts
<1>3. PICK k \in WbRec(Int) : k = wb
  BY DEF Types
<1>4. /\ k.blk = r.blk /\ (r.voluntary => k.vol = NoClient)
      /\ wb' = [k EXCEPT !.coh = onRelease(k.coh, r),
                         !.buf = IF r.data = NoValue THEN k.buf ELSE r.data,
                         !.irels = IF r.voluntary THEN k.irels ELSE k.irels - 1,
                         !.vol = IF r.voluntary THEN r.client ELSE k.vol]
  BY <1>2, <1>3 DEF WbRelease, irel_matches_wb
<1>5. PICK b \in Block : b = r.blk
  BY DEF ReleaseMsg
<1>6. /\ rel' \in Seq(ReleaseMsg) /\ r.client \in Client
      /\ \A i \in DOMAIN rel' : i \in Nat /\ i + 1 \in DOMAIN rel /\ rel'[i] = rel[i + 1]
      /\ r.voluntary =>
           /\ r.ptype = "probeInvalidate"
           /\ mshr[r.client].state = "s_wb_resp" /\ gnt[r.client] = <<>>
           /\ \A i \in DOMAIN rel' : rel'[i].voluntary => rel'[i].client # r.client
           /\ \A u \in Tracker : trk[u].vol # r.client
           /\ wb.vol # r.client /\ ~ AtRt(r.client)
      /\ \A d \in Client, x \in Block : Entitled(d, x)' => Entitled(d, x)
      /\ \A d \in Client, x \in Block : Owns(d, x)' => Owns(d, x)
      /\ Entitled(r.client, b)' => r.ptype # "probeInvalidate"
      /\ AnswerersOut'
      /\ \A x : Out(x)' = IF r.voluntary \/ x # b THEN Out(x) ELSE Out(x) \ {r.client}
      /\ ~ r.voluntary => r.client \in Out(b) /\ Prober(r.client, b, r.ptype)
      /\ (\A d \in Client, x \in Block : \A q : Prober(d, x, q) => Prober(d, x, q)') => ProbesMatched'
  <2>1. /\ rel' \in Seq(ReleaseMsg) /\ r.client \in Client
        /\ \A i \in DOMAIN rel' : i \in Nat /\ i + 1 \in DOMAIN rel /\ rel'[i] = rel[i + 1]
        /\ r.voluntary =>
             /\ r.ptype = "probeInvalidate"
             /\ mshr[r.client].state = "s_wb_resp" /\ gnt[r.client] = <<>>
             /\ \A i \in DOMAIN rel' : rel'[i].voluntary => rel'[i].client # r.client
             /\ \A u \in Tracker : trk[u].vol # r.client
             /\ wb.vol # r.client /\ ~ AtRt(r.client)
        /\ \A d \in Client, x \in Block : Entitled(d, x)' => Entitled(d, x)
        /\ \A d \in Client, x \in Block : Owns(d, x)' => Owns(d, x)
        /\ Entitled(r.client, r.blk)' => r.ptype # "probeInvalidate"
        /\ AnswerersOut'
        /\ \A x : Out(x)' = IF r.voluntary \/ x # r.blk THEN Out(x) ELSE Out(x) \ {r.client}
        /\ ~ r.voluntary => r.client \in Out(r.blk) /\ Prober(r.client, r.blk, r.ptype)
        /\ (\A d \in Client, x \in Block : \A q : Prober(d, x, q) => Prober(d, x, q)') => ProbesMatched'
    BY <1>1, <1>2, ReleaseTaken
  <2> QED BY <1>5, <2>1
<1>7. PICK coh \in Coh : coh = onRelease(k.coh, r)
  BY PolicyTypes DEF WbRec
<1>8. coh.sharers = IF r.ptype = "probeInvalidate" THEN k.coh.sharers \ {r.client} ELSE k.coh.sharers
  <2>1. k.coh \in Coh
    BY DEF WbRec
  <2> QED BY <1>7, <2>1 DEF onRelease, Coh
<1>9. /\ wb' \in WbRec(Int) /\ wb'.state = "s_inner_probe" /\ wb'.trk = k.trk /\ wb'.blk = b
      /\ wb'.line = k.line /\ wb'.coh = coh /\ wb'.iprbs = k.iprbs
      /\ wb'.irels = (IF r.voluntary THEN k.irels ELSE k.irels - 1)
      /\ wb'.vol = (IF r.voluntary THEN r.client ELSE k.vol)
  <2>1. PICK i \in Int : i = IF r.voluntary THEN k.irels ELSE k.irels - 1
    BY DEF WbRec
  <2>2. PICK v \in Client \cup {NoClient} : v = IF r.voluntary THEN r.client ELSE k.vol
    BY <1>6 DEF WbRec
  <2>3. PICK d \in Value \cup {NoValue} : d = IF r.data = NoValue THEN k.buf ELSE r.data
    BY DEF WbRec, ReleaseMsg
  <2>4. wb' = [k EXCEPT !.coh = coh, !.buf = d, !.irels = i, !.vol = v]
    BY <1>4, <1>7, <2>1, <2>2, <2>3
  <2>5. wb' \in WbRec(Int)
    BY <2>4 DEF WbRec
  <2>6. /\ wb'.state = k.state /\ wb'.trk = k.trk /\ wb'.blk = k.blk
        /\ wb'.line = k.line /\ wb'.coh = coh /\ wb'.iprbs = k.iprbs /\ wb'.irels = i /\ wb'.vol = v
    BY <2>4 DEF WbRec
  <2> QED BY <1>1, <1>3, <1>4, <1>5, <2>1, <2>2, <2>5, <2>6
<1>10. Types(Int)'
  BY <1>1, <1>6, <1>9 DEF Types
<1>11. \A u \in Tracker : trk[u].state = "s_inner_probe" => trk[u].blk # b
  BY <1>1, <1>3, <1>4, <1>5, OneUnit DEF WbShape, Busy
<1>12. ASSUME NEW u \in Tracker PROVE TrackerShape(u)'
  <2>1. trk[u].state = "s_wb_resp" => wb'.state # "s_idle" /\ wb'.trk = u
    BY <1>3, <1>9 DEF TrackerShape
  <2> QED BY <1>1, <2>1, TrackerFrame
<1>13. WbShape'
  BY <1>1, <1>3, <1>4, <1>5, <1>9 DEF WbShape
<1>14. WritebackTokens'
  <2>1. \A d : AtRt(d)' <=> AtRt(d)
    BY <1>1 DEF AtRt
  <2>2. CASE r.voluntary
    BY <1>1, <1>6, <1>9, <2>1, <2>2, WritebackMoved
  <2>3. CASE ~ r.voluntary
    <3>1. \A i \in DOMAIN rel' : rel'[i].client # NoClient
      BY <1>6, TypeFacts, L2CacheAssumption
    <3>2. wb'.vol = wb.vol
      BY <1>3, <1>9, <2>3
    <3> QED BY <1>1, <1>6, <2>1, <3>1, <3>2, L2CacheAssumption, WritebackMoved
  <2> QED BY <2>2, <2>3
<1>15. ProbesMatched'
  <2>1. \A d \in Client, x \in Block : \A q : Prober(d, x, q) => Prober(d, x, q)'
    BY <1>1, <1>3, <1>4, <1>5, <1>9 DEF Prober
  <2> QED BY <1>6, <2>1
<1>16. \A u \in Tracker : trk[u].state = "s_inner_probe" => Out(trk[u].blk)' = Out(trk[u].blk)
  BY <1>1, <1>6, <1>11
<1>17. ProbesCounted'
  <2>1. k.irels = Cardinality(Out(b)) /\ k.irels \in Int /\ Out(b) \in SUBSET Client
    BY <1>1, <1>3, <1>4, <1>5 DEF ProbesCounted, WbRec, Out
  <2>2. wb'.irels = Cardinality(Out(b)')
    <3>1. CASE r.voluntary
      BY <1>6, <1>9, <2>1, <3>1
    <3>2. CASE ~ r.voluntary
      <4>1. Out(b)' = Out(b) \ {r.client} /\ r.client \in Out(b)
        BY <1>6, <3>2
      <4>2. Cardinality(Out(b) \ {r.client}) = Cardinality(Out(b)) - 1
        BY <2>1, <4>1, CardFacts
      <4> QED BY <1>9, <2>1, <3>2, <4>1, <4>2
    <3> QED BY <3>1, <3>2
  <2>3. (wb.irels = Cardinality(Out(wb.blk)))'
    BY <1>9, <2>2
  <2> QED BY <1>1, <1>16, <2>3 DEF ProbesCounted
<1>18. SharersProbed'
  <2>1. r.ptype = "probeInvalidate"
    BY <1>6, <1>11 DEF Prober
  <2>2. k.coh.sharers \subseteq k.iprbs \cup Out(b)
    BY <1>1, <1>3, <1>4, <1>5 DEF SharersProbed
  <2>3. coh.sharers \subseteq k.iprbs \cup Out(b)'
    BY <1>6, <1>8, <2>1, <2>2
  <2>4. (wb.coh.sharers \subseteq wb.iprbs \cup Out(wb.blk))'
    BY <1>9, <2>3
  <2> QED BY <1>1, <1>16, <2>4 DEF SharersProbed
<1>19. \A u \in Tracker : \A x : Serving(u, x)' <=> Serving(u, x)
  BY <1>1 DEF Serving
<1>20. Listed'
  <2>1. \A d \in Client, x \in Block : Entitled(d, x)' /\ x = b /\ d \in k.coh.sharers => d \in coh.sharers
    BY <1>6, <1>8
  <2> QED BY <1>1, <1>3, <1>4, <1>5, <1>6, <1>9, <1>19, <2>1, ListedFrame
<1>21. SharedInDirectory' /\ SharedInTracker' /\ DowngradesPending'
  <2>1. \A d, x : Probed(d, x)' <=> Probed(d, x)
    BY <1>1 DEF Probed
  <2> QED BY <1>1, <1>6, <1>19, <2>1, PermissionFrame
<1> QED BY <1>1, <1>6, <1>10, <1>12, <1>13, <1>14, <1>15, <1>17, <1>18, <1>20, <1>21, Frames

\* The write-back unit acknowledges the write-back it has taken.
LEMMA WbVoluntaryGrantInv ==
  ASSUME IInv, WbVoluntaryGrant
  PROVE  IInv'
<1> USE DEF IInv
<1>1. /\ UNCHANGED <<l1, mshr, fq, unc, acq, rel, prb, meta, data, trk, rt, mem, latest>>
      /\ wb.vol # NoClient
      /\ gnt' = [gnt EXCEPT ![wb.vol] = Append(@, [gtype |-> "voluntaryAck"])]
      /\ wb' = [wb EXCEPT !.vol = NoClient]
  BY DEF WbVoluntaryGrant, l1vars
<1>2. PICK k \in WbRec(Int) : k = wb
  BY DEF Types
<1>3. PICK c \in Client : c = k.vol
  BY <1>1, <1>2 DEF WbRec
<1>4. /\ wb' \in WbRec(Int) /\ wb'.state = k.state /\ wb'.trk = k.trk /\ wb'.blk = k.blk
      /\ wb'.line = k.line /\ wb'.coh = k.coh /\ wb'.iprbs = k.iprbs /\ wb'.irels = k.irels
      /\ wb'.vol = NoClient
  BY <1>1, <1>2 DEF WbRec
<1>5. /\ mshr[c].state = "s_wb_resp" /\ gnt[c] = <<>>
      /\ \A u \in Tracker : trk[u].vol # c
      /\ ~ AtRt(c) /\ \A i \in DOMAIN rel : ~ VolMsg(c, i)
  BY <1>2, <1>3 DEF WritebackTokens
<1>6. gnt' \in [Client -> Seq(GrantMsg)] /\ WritebackTokens' /\ AcquireTokens' /\ GrantsAlone'
  <2>1. \A d : AtRt(d)' <=> AtRt(d)
    BY <1>1 DEF AtRt
  <2>2. \A d \in Client : wb'.vol # d
    BY <1>4, L2CacheAssumption
  <2>3. gnt' = [gnt EXCEPT ![c] = Append(@, [gtype |-> "voluntaryAck"])]
    BY <1>1, <1>2, <1>3
  <2>4. \A d \in Client : AtRt(d)' => AtRt(d) /\ d # c
    BY <1>5, <2>1
  <2> QED BY <1>1, <1>5, <2>2, <2>3, <2>4, WritebackAcknowledged, ZenonT(30)
<1>7. Types(Int)'
  BY <1>1, <1>4, <1>6 DEF Types
<1>8. ASSUME NEW u \in Tracker PROVE TrackerShape(u)'
  <2>1. trk[u].state = "s_wb_resp" => wb'.state # "s_idle" /\ wb'.trk = u
    BY <1>2, <1>4 DEF TrackerShape
  <2> QED BY <1>1, <2>1, TrackerFrame
<1>9. WbShape'
  BY <1>1, <1>2, <1>4 DEF WbShape
<1>10. ProbesMatched' /\ \A x : Out(x)' = Out(x)
  <2>1. \A d \in Client, x \in Block : \A q : Prober(d, x, q) => Prober(d, x, q)'
    BY <1>1, <1>2, <1>4 DEF Prober
  <2> QED BY <1>1, <2>1, ProbeFrame
<1>11. ProbesCounted' /\ SharersProbed'
  BY <1>1, <1>2, <1>4, <1>10 DEF ProbesCounted, SharersProbed
<1>12. \A u \in Tracker : \A x : Serving(u, x)' <=> Serving(u, x)
  BY <1>1 DEF Serving
<1>13. Listed'
  <2>1. \A d \in Client, x \in Block : Entitled(d, x)' <=> Entitled(d, x)
    BY <1>1, SameCopies
  <2> QED BY <1>1, <1>2, <1>4, <1>12, <2>1, ListedFrame
<1>14. SharedInDirectory' /\ SharedInTracker' /\ DowngradesPending'
  <2>1. \A d, x : Probed(d, x)' <=> Probed(d, x)
    BY <1>1 DEF Probed
  <2> QED BY <1>1, <1>12, <2>1, SameCopies, PermissionFrame
<1> QED BY <1>1, <1>6, <1>7, <1>8, <1>9, <1>10, <1>11, <1>13, <1>14, SameCopies, Frames

\* Nobody has a copy of the line that is evicted, once its sharers have answered.
LEMMA NobodyEntitled ==
  ASSUME IInv, wb.state # "s_idle", wb.iprbs = {}, wb.irels = 0
  PROVE  /\ \A d \in Client : ~ Entitled(d, wb.blk)
         /\ wb.state = "s_inner_probe" => Out(wb.blk) = {}
<1> USE DEF IInv
<1>1. wb.blk \in Block
  BY DEF WbShape
<1>2. wb.state = "s_inner_probe" => Out(wb.blk) = {}
  <2>1. Out(wb.blk) \in SUBSET Client
    BY DEF Out
  <2> QED BY <2>1, CardFacts DEF ProbesCounted
<1>3. wb.state = "s_inner_probe" => wb.coh.sharers = {}
  BY <1>2 DEF SharersProbed
<1> QED BY <1>1, <1>2, <1>3 DEF Listed, Lists

\* The write-back unit goes on when the sharers have answered.
LEMMA WbMovesInv ==
  ASSUME IInv, NEW s \in {"s_meta_read", "s_busy", "s_wb_resp"}, wb.state # "s_idle",
         wb.iprbs = {}, wb.irels = 0, wb.vol = NoClient, wb' = [wb EXCEPT !.state = s],
         UNCHANGED <<l1, mshr, fq, unc, acq, rel, prb, gnt, meta, data, trk, rt, latest>>,
         mem' \in [Block -> Value \cup {NoValue}]
  PROVE  IInv'
<1> USE DEF IInv
<1>1. PICK k \in WbRec(Int) : k = wb
  BY DEF Types
<1>2. /\ wb' \in WbRec(Int) /\ wb'.state = s /\ wb'.trk = k.trk /\ wb'.blk = k.blk
      /\ wb'.line = k.line /\ wb'.coh = k.coh /\ wb'.iprbs = {} /\ wb'.irels = 0
      /\ wb'.vol = NoClient
  BY <1>1 DEF WbRec
<1>3. /\ \A d \in Client : ~ Entitled(d, k.blk)
      /\ k.state = "s_inner_probe" => Out(k.blk) = {}
  BY <1>1, NobodyEntitled
<1>4. Types(Int)'
  BY <1>2 DEF Types
<1>5. ASSUME NEW u \in Tracker PROVE TrackerShape(u)'
  <2>1. trk[u].state = "s_wb_resp" => wb'.state # "s_idle" /\ wb'.trk = u
    BY <1>1, <1>2 DEF TrackerShape
  <2> QED BY <2>1, TrackerFrame
<1>6. WbShape'
  BY <1>1, <1>2 DEF WbShape
<1>7. WritebackTokens'
  BY <1>2, WritebackFrame
<1>8. ProbesMatched' /\ \A x : Out(x)' = Out(x)
  <2>1. \A d \in Client, x \in Block : \A q : Prober(d, x, q) /\ d \in Out(x) => Prober(d, x, q)'
    BY <1>1, <1>3 DEF Prober
  <2> QED BY <2>1, ProbeFrame
<1>9. ProbesCounted' /\ SharersProbed'
  BY <1>2, <1>8 DEF ProbesCounted, SharersProbed
<1>10. \A u \in Tracker : \A x : Serving(u, x)' <=> Serving(u, x)
  BY DEF Serving
<1>11. Listed'
  <2>1. \A d \in Client, x \in Block : Entitled(d, x)' => Entitled(d, x) /\ x # k.blk
    BY <1>3, SameCopies
  <2> QED BY <1>2, <1>10, <2>1, ListedFrame
<1>12. SharedInDirectory' /\ SharedInTracker' /\ DowngradesPending'
  <2>1. \A d, x : Probed(d, x)' <=> Probed(d, x)
    BY DEF Probed
  <2> QED BY <1>10, <2>1, SameCopies, PermissionFrame
<1> QED BY <1>4, <1>5, <1>6, <1>7, <1>8, <1>9, <1>11, <1>12, SameCopies, Frames

\* The steps of the write-back unit that only move it on.
LEMMA WbMoveStepsInv ==
  ASSUME IInv, WbProbesDone \/ WbMetaResp \/ WbOuterRelease
  PROVE  IInv'
<1> USE DEF IInv
<1>1. CASE WbProbesDone
  BY <1>1, WbMovesInv DEF WbProbesDone, l1vars, Types
<1>2. CASE WbMetaResp
  BY <1>2, WbMovesInv DEF WbMetaResp, l1vars, Types, WbShape
<1>3. CASE WbOuterRelease
  <2>1. wb.line \in Line /\ wb.buf \in Value \cup {NoValue}
    BY DEF Types, WbRec
  <2>2. mem' \in [Block -> Value \cup {NoValue}]
    BY <1>3, <2>1 DEF WbOuterRelease, Types
  <2>3. wb.state # "s_idle" /\ wb.iprbs = {} /\ wb.irels = 0 /\ wb.vol = NoClient
    BY <1>3 DEF WbOuterRelease, WbShape
  <2> QED BY <1>3, <2>2, <2>3, WbMovesInv DEF WbOuterRelease, l1vars
<1> QED BY <1>1, <1>2, <1>3

\* The line is free: the tracker fetches its block.
LEMMA WbRespInv ==
  ASSUME IInv, WbResp
  PROVE  IInv'
<1> USE DEF IInv
<1>1. /\ UNCHANGED <<l1, mshr, fq, unc, acq, rel, prb, gnt, meta, data, rt, mem, latest>>
      /\ wb.state = "s_wb_resp" /\ wb' = NoWb
      /\ trk' = [trk EXCEPT ![wb.trk].state = "s_outer_acquire"]
  BY DEF WbResp, l1vars
<1>2. PICK t \in Tracker : t = wb.trk
  BY <1>1 DEF WbShape
<1>3. PICK k \in TrackerRec(Int) : k = trk[t]
  BY DEF Types
<1>4. PICK b \in Block : b = wb.blk
  BY <1>1 DEF WbShape
<1>5. k.state = "s_wb_resp" /\ meta[k.line].tag = b
  BY <1>1, <1>2, <1>3, <1>4 DEF WbShape
<1>6. wb' \in WbRec(Int) /\ wb'.state = "s_idle" /\ wb'.vol = NoClient
  BY <1>1, IdleTypes DEF NoWb
<1>7. /\ trk' \in [Tracker -> TrackerRec(Int)]
      /\ \A u \in Tracker : u # t => trk'[u] = trk[u]
      /\ trk'[t].state = "s_outer_acquire"
      /\ trk'[t].client = k.client /\ trk'[t].blk = k.blk /\ trk'[t].kind = k.kind
      /\ trk'[t].line = k.line /\ trk'[t].meta_write = k.meta_write
      /\ trk'[t].iprbs = k.iprbs /\ trk'[t].irels = k.irels
      /\ trk'[t].vol = k.vol /\ trk'[t].gnt = k.gnt
  <2>1. trk \in [Tracker -> TrackerRec(Int)] /\ trk' = [trk EXCEPT ![t].state = "s_outer_acquire"]
    BY <1>1, <1>2 DEF Types
  <2> QED BY <1>3, <2>1 DEF TrackerRec
<1>8. \A d \in Client : ~ Entitled(d, b)
  BY <1>1, <1>4, NobodyEntitled DEF WbShape
<1>9. /\ \A u \in Tracker : (Busy(u)' <=> Busy(u)) /\ trk'[u].blk = trk[u].blk /\ trk'[u].line = trk[u].line
      /\ \A u \in Tracker : trk'[u].vol = trk[u].vol
      /\ \A u \in Tracker : \A x : Serving(u, x)' <=> Serving(u, x)
      /\ \A u \in Tracker : /\ trk'[u].state = "s_meta_read" => trk[u].state = "s_meta_read"
                            /\ trk[u].state = "s_wb_req" => trk'[u].state = "s_wb_req"
  BY <1>3, <1>5, <1>7 DEF Busy, Serving
<1>10. Types(Int)'
  BY <1>1, <1>6, <1>7 DEF Types
<1>11. SetsApart'
  BY <1>9 DEF SetsApart
<1>12. ASSUME NEW u \in Tracker PROVE TrackerShape(u)'
  <2>1. CASE u # t
    <3>1. trk[u].state # "s_wb_resp"
      BY <1>2, <2>1 DEF TrackerShape
    <3> QED BY <1>1, <1>7, <2>1, <3>1, TrackerFrame
  <2>2. CASE u = t
    <3>1. Resident(k.blk)' <=> Resident(k.blk)
      BY <1>1 DEF Resident
    <3> QED BY <1>3, <1>5, <1>7, <2>2, <3>1 DEF TrackerShape, Busy
  <2> QED BY <2>1, <2>2
<1>13. RtShape' /\ WbShape'
  <2>1. RtShape'
    BY <1>1, <1>9, RtFrame
  <2> QED BY <1>6, <2>1 DEF WbShape
<1>14. WritebackTokens'
  BY <1>1, <1>6, <1>9, L2CacheAssumption, WritebackFrame
<1>15. AcquireTokens' /\ GrantsAlone'
  <2>1. \A d \in Client, u \in Tracker :
          AtTracker(d, u)' => AtTracker(d, u) /\ trk'[u].blk = trk[u].blk /\ trk'[u].kind = trk[u].kind
    BY <1>3, <1>7, <1>9 DEF AtTracker
  <2>2. \A d \in Client, u \in Tracker : Granted(d, u) => Granted(d, u)' /\ trk'[u] = trk[u]
    BY <1>3, <1>5, <1>7 DEF Granted
  <2> QED BY <1>1, <2>1, <2>2, RequestFrame
<1>16. \A u \in Tracker : /\ trk'[u].state \in {"s_inner_probe", "s_busy", "s_meta_write"} => trk'[u] = trk[u]
                          /\ trk[u].state \in {"s_inner_probe", "s_busy", "s_meta_write"} => trk'[u] = trk[u]
  BY <1>3, <1>5, <1>7
<1>17. ProbesMatched' /\ \A x : Out(x)' = Out(x)
  <2>1. \A d \in Client, x \in Block : \A q : Prober(d, x, q) => Prober(d, x, q)'
    BY <1>1, <1>16 DEF Prober
  <2> QED BY <1>1, <2>1, ProbeFrame
<1>18. ProbesCounted' /\ SharersProbed'
  BY <1>6, <1>16, <1>17 DEF ProbesCounted, SharersProbed
<1>19. Listed'
  <2>1. \A d \in Client, x \in Block : Entitled(d, x)' => Entitled(d, x) /\ x # b
    BY <1>1, <1>8, SameCopies
  <2>2. \A u \in Tracker : Serving(u, trk[u].blk) => trk'[u] = trk[u]
    BY <1>16 DEF Serving
  <2>3. \A u \in Tracker : \A x : Serving(u, x) => trk'[u] = trk[u]
    BY <1>16 DEF Serving
  <2>4. \A u \in Tracker : trk'[u].state \in {"s_outer_acquire", "s_busy", "s_meta_write"} =>
          u = t \/ trk[u].state \in {"s_outer_acquire", "s_busy", "s_meta_write"}
    BY <1>7
  <2>5. meta[trk'[t].line].tag = b
    BY <1>5, <1>7
  <2> QED BY <1>1, <1>6, <1>9, <2>1, <2>3, <2>4, <2>5, ListedFrame
<1>20. SharedInDirectory' /\ SharedInTracker' /\ DowngradesPending'
  <2>1. \A d, x : Probed(d, x)' <=> Probed(d, x)
    BY <1>1 DEF Probed
  <2>2. \A u \in Tracker : \A x : Serving(u, x) => trk'[u] = trk[u]
    BY <1>16 DEF Serving
  <2> QED BY <1>1, <1>9, <1>16, <2>1, <2>2, SameCopies, PermissionFrame
<1> QED BY <1>1, <1>10, <1>11, <1>12, <1>13, <1>14, <1>15, <1>17, <1>18, <1>19, <1>20,
           SameCopies, Frames

-----------------------------------------------------------------------------
(***************************************************************************)
(* The invariant.                                                          *)
(***************************************************************************)

\* After reset every cache is empty and every machine is idle.
LEMMA InitIInv ==
  ASSUME Init
  PROVE  IInv
<1>1. /\ l1 = [c \in Client |-> [w \in L1Way |-> [tag |-> NoBlock, st |-> "I", data |-> NoValue]]]
      /\ mshr = [c \in Client |-> NoMshr] /\ fq = [c \in Client |-> NoTracker] /\ unc = {}
      /\ acq = <<>> /\ rel = <<>>
      /\ prb = [c \in Client |-> <<>>] /\ gnt = [c \in Client |-> <<>>]
      /\ meta = [n \in Line |-> [tag |-> NoBlock, coh |-> cohOnReset]]
      /\ data = [n \in Line |-> NoValue]
      /\ trk = [t \in Tracker |-> NoTrk] /\ rt = NoRt /\ wb = NoWb
      /\ mem \in [Block -> Value] /\ latest = mem
  BY DEF Init
<1>2. /\ \A c \in Client : /\ mshr[c] = NoMshr /\ fq[c] = NoTracker /\ prb[c] = <<>> /\ gnt[c] = <<>>
                           /\ \A w \in L1Way : l1[c][w].st = "I" /\ l1[c][w].tag = NoBlock
      /\ \A n \in Line : meta[n].tag = NoBlock /\ meta[n].coh.valid = FALSE /\ meta[n].coh.sharers = {}
      /\ \A t \in Tracker : trk[t] = NoTrk
  BY <1>1 DEF cohOnReset
<1>3. /\ NoTrk.iprbs = {} /\ NoTrk.irels = 0 /\ NoTrk.vol = NoClient /\ NoTrk.gnt = "pending"
      /\ NoTrk.state = "s_idle" /\ NoTrk.client = NoClient
      /\ NoMshr.state = "s_invalid" /\ NoRt.state = "s_idle" /\ NoWb.state = "s_idle"
      /\ NoWb.vol = NoClient
  BY DEF NoTrk, NoMshr, NoRt, NoWb
<1>4. DOMAIN acq = {} /\ DOMAIN rel = {} /\ \A c \in Client : DOMAIN prb[c] = {}
  BY <1>1, <1>2
<1>5. Types(Int)
  <2>1. l1 \in [Client -> [L1Way -> L1Rec]]
    BY <1>1 DEF L1Rec, ClientState
  <2>2. meta \in [Line -> [tag : Block \cup {NoBlock}, coh : Coh]]
    BY <1>1, IdleTypes
  <2>3. /\ mshr \in [Client -> MshrRec] /\ trk \in [Tracker -> TrackerRec(Int)]
        /\ rt \in RtRec /\ wb \in WbRec(Int)
    BY <1>1, IdleTypes
  <2>4. /\ fq \in [Client -> Tracker \cup {NoTracker}] /\ unc \subseteq Uncached
        /\ acq \in Seq(AcquireMsg) /\ rel \in Seq(ReleaseMsg)
        /\ prb \in [Client -> Seq(ProbeMsg)] /\ gnt \in [Client -> Seq(GrantMsg)]
        /\ data \in [Line -> Value \cup {NoValue}]
        /\ mem \in [Block -> Value \cup {NoValue}] /\ latest \in [Block -> Value]
    BY <1>1
  <2> QED BY <2>1, <2>2, <2>3, <2>4 DEF Types
<1>6. L1Shape /\ MetaShape
  BY <1>2, <1>3, TypeFacts, <1>5 DEF L1Shape, MetaShape
<1>7. SetsApart /\ (\A t \in Tracker : TrackerShape(t)) /\ RtShape /\ WbShape
  BY <1>1, <1>2, <1>3 DEF SetsApart, TrackerShape, RtShape, WbShape, Busy
<1>8. WritebackTokens
  BY <1>1, <1>2, <1>3, <1>4, L2CacheAssumption DEF WritebackTokens, AtRt
<1>9. AcquireTokens /\ GrantsAlone
  BY <1>2, <1>3, <1>4 DEF AcquireTokens, GrantsAlone, AtTracker, Busy
<1>10. ProbesMatched /\ ProbesCounted /\ SharersProbed /\ AnswerersOut
  BY <1>1, <1>2, <1>3, <1>4 DEF ProbesMatched, ProbesCounted, SharersProbed, AnswerersOut
<1>11. \A c \in Client : \A b : ~ Entitled(c, b) /\ ~ Owns(c, b)
  BY <1>2, <1>4 DEF Entitled, Holds, Live, Owns
<1>12. Listed /\ SharedInDirectory /\ SharedInTracker /\ DowngradesPending
  BY <1>2, <1>3, <1>11 DEF Listed, SharedInDirectory, SharedInTracker, DowngradesPending
<1> QED BY <1>5, <1>6, <1>7, <1>8, <1>9, <1>10, <1>12 DEF IInv

\* Nothing moves.
LEMMA StutterIInv ==
  ASSUME IInv, UNCHANGED vars
  PROVE  IInv'
<1> USE DEF IInv
<1>1. UNCHANGED <<l1, mshr, fq, unc, acq, rel, prb, gnt, meta, data, trk, rt, wb, mem, latest>>
  BY DEF vars
<1>2. Types(Int)'
  BY <1>1 DEF Types
<1>3. NoNewCopy /\ DowngradesPending'
  <2>1. \A d \in Client, x \in L1Way : Live(d, x)' <=> Live(d, x)
    BY <1>1, SameCopies
  <2> QED BY <1>1, <2>1, LiveFrames
<1> QED BY <1>1, <1>2, <1>3, Frames, CopyFrames

\* Every step preserves the invariant.
LEMMA NextIInv ==
  ASSUME IInv, [Next]_vars
  PROVE  IInv'
<1>1. CASE Request
  BY <1>1, StoreHitInv, MissInv, SecondaryMissInv, UncachedAcquireInv DEF Request
<1>2. ASSUME NEW c \in Client, MshrStep(c) \/ SendFinish(c) \/ ReceiveProbe(c) PROVE IInv'
  BY <1>2, SendWritebackInv, MetaClearInv, SendAcquireInv, ReceiveGrantInv, ReplayInv,
     SendFinishInv, ReceiveProbeInv DEF MshrStep
<1>3. ASSUME NEW t \in Tracker, TrackerStep(t) PROVE IInv'
  BY <1>3, MetaRespInv, WbReqInv, SendProbeInv, ProbesDoneInv, RefillInv, SendVoluntaryGrantInv,
     SendGrantInv, DoneInv, MetaWriteInv DEF TrackerStep
<1>4. CASE RtStep
  BY <1>4, RtMetaRespInv, RtAckInv, RtMetaWriteInv DEF RtStep
<1>5. CASE WbStep
  BY <1>5, WbSendProbeInv, WbVoluntaryGrantInv, WbMoveStepsInv, WbRespInv DEF WbStep
<1>6. CASE TakeAcquire
  BY <1>6, AcceptAcquireInv DEF TakeAcquire
<1>7. CASE TakeRelease
  BY <1>7, MergeReleaseInv, WbReleaseInv, RtAcceptInv DEF TakeRelease
<1>8. CASE UNCHANGED vars
  BY <1>8, StutterIInv
<1> QED BY <1>1, <1>2, <1>3, <1>4, <1>5, <1>6, <1>7, <1>8 DEF Next, Step

\* The invariant holds in every reachable state, for every number of clients, blocks, lines,
\* ways and trackers.
LEMMA Invariance == Spec => []IInv
<1>1. Init => IInv
  BY InitIInv
<1>2. IInv /\ [Next]_vars => IInv'
  BY NextIInv
<1> QED BY <1>1, <1>2, PTL DEF Spec

-----------------------------------------------------------------------------
(***************************************************************************)
(* What it shows.                                                          *)
(***************************************************************************)

\* Where the directory entry of a copy is.
LEMMA EntryOfCopy ==
  ASSUME IInv, NEW c \in Client, NEW b \in Block, Entitled(c, b)
  PROVE  \/ \E t \in Tracker : /\ Serving(t, b) /\ trk[t].state # "s_inner_probe"
                               /\ c \in trk[t].coh.sharers
         \/ /\ \A t \in Tracker : Serving(t, b) => trk[t].state = "s_inner_probe"
            /\ \E n \in Line : meta[n].tag = b /\ c \in meta[n].coh.sharers
<1> USE DEF IInv
<1>1. Lists(c, b)
  BY DEF Listed
<1>2. CASE \A t \in Tracker : ~ Serving(t, b)
  BY <1>1, <1>2 DEF Lists
<1>3. ASSUME NEW t \in Tracker, Serving(t, b), trk[t].state # "s_inner_probe"
      PROVE  c \in trk[t].coh.sharers
  BY <1>1, <1>3 DEF Lists
<1>4. CASE /\ \A t \in Tracker : Serving(t, b) => trk[t].state = "s_inner_probe"
           /\ \E t \in Tracker : Serving(t, b)
  <2>1. PICK t \in Tracker : Serving(t, b) /\ trk[t].state = "s_inner_probe" /\ trk[t].blk = b
    BY <1>4 DEF Serving
  <2>2. /\ c \in trk[t].coh.sharers /\ trk[t].line \in Line
        /\ trk[t].coh.sharers \subseteq meta[trk[t].line].coh.sharers /\ meta[trk[t].line].tag = b
    BY <1>1, <2>1, TypeFacts DEF Lists, TrackerShape
  <2> QED BY <1>4, <2>2
<1> QED BY <1>2, <1>3, <1>4

\* A client with more than a shared copy, or one that is writing it back, is alone.
LEMMA SoleOwner ==
  ASSUME IInv, NEW c \in Client, NEW d \in Client, NEW b \in Block, Owns(c, b), Entitled(d, b)
  PROVE  c = d
<1> USE DEF IInv
<1>1. Entitled(c, b)
  BY DEF Entitled, Holds, Owns
<1> SUFFICES ASSUME c # d PROVE FALSE
  OBVIOUS
<1>2. ~ AllShared(b)
  BY DEF AllShared
<1>3. \A t, u \in Tracker : Serving(t, b) /\ Serving(u, b) => t = u
  BY OneUnit DEF Serving, Busy
<1>4. ASSUME NEW t \in Tracker, Serving(t, b), trk[t].state # "s_inner_probe" PROVE FALSE
  <2>1. c \in trk[t].coh.sharers /\ d \in trk[t].coh.sharers
    BY <1>1, <1>3, <1>4, EntryOfCopy
  <2>2. Two(trk[t].coh.sharers)
    BY <2>1 DEF Two
  <2> QED BY <1>2, <1>4, <2>2 DEF SharedInTracker, Serving
<1>5. CASE \A t \in Tracker : Serving(t, b) => trk[t].state = "s_inner_probe"
  <2>1. /\ \E n \in Line : meta[n].tag = b /\ c \in meta[n].coh.sharers
        /\ \E n \in Line : meta[n].tag = b /\ d \in meta[n].coh.sharers
    BY <1>1, <1>5, EntryOfCopy
  <2>2. b # NoBlock
    BY L2CacheAssumption
  <2>3. PICK n \in Line : meta[n].tag = b /\ c \in meta[n].coh.sharers /\ d \in meta[n].coh.sharers
    BY <2>1, <2>2 DEF MetaShape
  <2>4. Two(meta[n].coh.sharers)
    BY <2>3 DEF Two
  <2> QED BY <1>2, <1>5, <2>2, <2>3, <2>4 DEF SharedInDirectory
<1> QED BY <1>4, <1>5

\* A line a client may write is in no other L1 cache.
LEMMA IInvExclusiveOwner ==
  ASSUME IInv
  PROVE  ExclusiveOwner
<1> USE DEF IInv
<1> SUFFICES ASSUME NEW c \in Client, NEW d \in Client, NEW w \in L1Way, NEW x \in L1Way,
                    Live(c, w), Live(d, x), l1[c][w].tag = l1[d][x].tag, l1[c][w].st # "S"
             PROVE  <<c, w>> = <<d, x>>
  BY DEF ExclusiveOwner
<1>1. PICK b \in Block : b = l1[c][w].tag
  BY DEF L1Shape, Live
<1>2. Entitled(d, b) /\ Owns(c, b)
  BY <1>1 DEF Entitled, Holds, Owns
<1>3. c = d
  BY <1>2, SoleOwner
<1> QED BY <1>3 DEF L1Shape, Live

\* Whatever probes, voluntary releases and grants are under way between the trackers, the
\* release tracker, the write-back unit and the L1 caches, a line a client may write is in no
\* other L1 cache.
THEOREM ExclusiveOwnerHolds == Spec => []ExclusiveOwner
<1>1. IInv => ExclusiveOwner
  BY IInvExclusiveOwner
<1> QED BY <1>1, Invariance, PTL

\* Every copy in an L1 cache is known to the L2, in the metadata array or in the tracker
\* that is about to write it.
THEOREM InclusionHolds == Spec => []Inclusion
<1>1. IInv => Inclusion
  <2> SUFFICES ASSUME IInv, NEW c \in Client, NEW w \in L1Way, Live(c, w)
               PROVE  \/ \E n \in L2Match(l1[c][w].tag) : c \in meta[n].coh.sharers
                      \/ \E t \in Tracker :
                           /\ trk[t].blk = l1[c][w].tag /\ trk[t].state \in {"s_busy", "s_meta_write"}
                           /\ c \in trk[t].coh.sharers
    BY DEF Inclusion
  <2> USE DEF IInv
  <2>1. PICK b \in Block : b = l1[c][w].tag
    BY DEF L1Shape, Live
  <2>2. Entitled(c, b)
    BY <2>1 DEF Entitled, Holds
  <2>3. CASE \E t \in Tracker : Serving(t, b) /\ trk[t].state # "s_inner_probe" /\ c \in trk[t].coh.sharers
    BY <2>1, <2>3 DEF Serving
  <2>4. CASE \E n \in Line : meta[n].tag = b /\ c \in meta[n].coh.sharers
    BY <2>1, <2>4, L2CacheAssumption DEF L2Match, MetaShape
  <2> QED BY <2>2, <2>3, <2>4, EntryOfCopy
<1> QED BY <1>1, Invariance, PTL

\* The assertion of the release tracker never fails: the block of the release it has accepted
\* is in the cache, and stays there until it is done.
THEOREM ReleaseResidentHolds == Spec => []ReleaseResident
<1>1. IInv => ReleaseResident
  BY L2CacheAssumption DEF IInv, ReleaseResident, RtShape, Resident, L2Match, MetaShape, ReleaseMsg
<1> QED BY <1>1, Invariance, PTL

\* An answer to a probe always finds the tracker or write-back unit that waits for it.
THEOREM ProbeAnswerExpectedHolds == Spec => []ProbeAnswerExpected
<1>1. IInv => ProbeAnswerExpected
  <2> SUFFICES ASSUME IInv, NEW i \in DOMAIN rel, ~ rel[i].voluntary
               PROVE  \/ \E t \in Tracker : irel_same_xact(t, rel[i]) /\ trk[t].irels > 0
                      \/ wb.state = "s_inner_probe" /\ wb.blk = rel[i].blk /\ wb.irels > 0
    BY DEF ProbeAnswerExpected
  <2> USE DEF IInv
  <2>1. PICK c \in Client, b \in Block : c = rel[i].client /\ b = rel[i].blk
    BY TypeFacts
  <2>2. Prober(c, b, rel[i].ptype)
    BY <2>1 DEF ProbesMatched
  <2>3. c \in Out(b)
    BY <2>1 DEF Out, Answered, AnsMsg
  <2>4. Cardinality(Out(b)) > 0
    <3>1. Out(b) \in SUBSET Client /\ Out(b) # {}
      BY <2>3 DEF Out
    <3>2. Cardinality(Out(b)) \in Nat /\ Cardinality(Out(b)) # 0
      BY <3>1, CardFacts
    <3> QED BY <3>2
  <2> QED BY <2>1, <2>2, <2>4 DEF Prober, ProbesCounted, irel_same_xact
<1> QED BY <1>1, Invariance, PTL

=============================================================================
