------------------------- MODULE L2CacheDataProofs -------------------------
(***************************************************************************)
(* The value last written to a block: where it is, that every copy in use  *)
(* has it, and what follows for the types.  A second invariant, on top of  *)
(* that of L2CacheProofs.                                                  *)
(***************************************************************************)
EXTENDS L2CacheProofs

-----------------------------------------------------------------------------
(***************************************************************************)
(* The data invariant: where the value last written to a block is.         *)
(***************************************************************************)

\* Data of a block above the L2 that the L2 has not taken yet.  (The answer to a probe that
\* only copies does not count: its sender still owns the block.)
Carries(i, b) ==
  /\ rel[i].blk = b
  /\ rel[i].voluntary \/ (rel[i].data # NoValue /\ rel[i].ptype # "probeCopy")

DirtyCopy(c, b) == \E w \in L1Way : Live(c, w) /\ l1[c][w].tag = b /\ l1[c][w].st = "M"

Newer(b) ==
  \/ \E c \in Client : DirtyCopy(c, b)
  \/ \E i \in DOMAIN rel : Carries(i, b)
  \/ rt.state \in {"s_meta_read", "s_busy"} /\ rt.rel.blk = b
  \/ wb.state # "s_idle" /\ wb.blk = b /\ wb.buf # NoValue

\* A refill, before and after the client has taken it; who is going to store may.
RefillCurrent ==
  \A c \in Client :
    /\ mshr[c].state = "s_meta_write_req" =>
         /\ l1[c][mshr[c].way].data = latest[mshr[c].blk] /\ l1[c][mshr[c].way].st # "M"
         /\ mshr[c].cmd = "store" => mshr[c].newst = "M"
    /\ gnt[c] # <<>> /\ Head(gnt[c]).gtype # "voluntaryAck" =>
         /\ Head(gnt[c]).data = latest[mshr[c].blk]
         /\ mshr[c].cmd = "store" => Head(gnt[c]).gtype = "grantExclusive"

\* A write-back on its way.
WritebackCurrent == \A i \in DOMAIN rel : rel[i].voluntary => rel[i].data = latest[rel[i].blk]

\* The data in an answer to a probe: nobody can write the block before it has been taken,
\* unless the probe only copied; then the owner has it or sends it later.
AnswerCurrent ==
  \A i \in DOMAIN rel : ~ rel[i].voluntary /\ rel[i].data # NoValue =>
    LET c == rel[i].client
        b == rel[i].blk
    IN  /\ rel[i].ptype # "probeCopy" => rel[i].data = latest[b] /\ AllShared(b)
        /\ rel[i].ptype = "probeInvalidate" => \A d \in Client : ~ Entitled(d, b)
        /\ rel[i].ptype = "probeCopy" =>
             \/ DirtyCopy(c, b)
             \/ \E j \in DOMAIN rel : j > i /\ VolMsg(c, j) /\ rel[j].blk = b

\* The write-back the release tracker works on: its sender was the owner.
RtCurrent ==
  rt.state # "s_idle" =>
    /\ \A d \in Client : ~ Entitled(d, rt.rel.blk)
    /\ \A n \in Line : meta[n].tag = rt.rel.blk => rt.rel.client \in meta[n].coh.sharers
    /\ rt.rel.data # NoValue
    /\ rt.state # "s_meta_write" => rt.rel.data = latest[rt.rel.blk]

\* The eviction: data that came with a release, and memory when it is over.
WbCurrent ==
  wb.state # "s_idle" =>
    /\ wb.buf # NoValue => /\ wb.buf = latest[wb.blk] /\ wb.coh.dirty
                           /\ \A d \in Client : ~ Entitled(d, wb.blk)
    /\ wb.state = "s_meta_read" => wb.buf = NoValue
    /\ wb.state = "s_wb_resp" => mem[wb.blk] = latest[wb.blk]

\* Dirty bits: a tracker that is going to write its block has it dirty, and a victim is as
\* clean as its tracker read it.
DirtyBits ==
  \A t \in Tracker :
    /\ Serving(t, trk[t].blk) /\ isWrite(trk[t].kind) => trk[t].coh.dirty
    /\ trk[t].state = "s_wb_req" /\ trk[t].old.sharers = {} /\ ~ trk[t].old.dirty =>
         ~ meta[trk[t].line].coh.dirty

LineOK(b, n) == data[n] = latest[b] \/ Newer(b)
MemOK(b) == mem[b] = latest[b] \/ Newer(b)

\* A line that a tracker fills, although the metadata may still name another block.
Taken(n) ==
  \E t \in Tracker : trk[t].line = n /\ trk[t].state \in {"s_outer_acquire", "s_busy", "s_meta_write"}

Unserved(b) == \A t \in Tracker : ~ Serving(t, b)

\* No line of the L2 holds the block.
Absent(b) == Unserved(b) /\ \A n \in Line : meta[n].tag = b => Taken(n)

\* Where the value of a block is, unless there is a newer one above: in the line of the tracker
\* that serves it, or in the line the metadata name, and in memory if that line is clean or
\* there is none.
InPlace(b) ==
  /\ \A t \in Tracker : Serving(t, b) =>
       LineOK(b, trk[t].line) /\ (trk[t].coh.dirty \/ MemOK(b))
  /\ Unserved(b) =>
       \A n \in Line : meta[n].tag = b /\ ~ Taken(n) =>
         /\ LineOK(b, n)
         /\ meta[n].coh.dirty \/ MemOK(b) \/ (rt.state # "s_idle" /\ rt.rel.blk = b)
  /\ Absent(b) => mem[b] = latest[b]

DInv ==
  /\ L1Current /\ RefillCurrent /\ WritebackCurrent /\ AnswerCurrent
  /\ RtCurrent /\ WbCurrent /\ DirtyBits
  /\ \A b \in Block : InPlace(b)

-----------------------------------------------------------------------------
(***************************************************************************)
(* What each part depends on.                                              *)
(***************************************************************************)

\* A step that leaves the variables of a part alone preserves it.
LEMMA DataFrames ==
  /\ L1Current /\ UNCHANGED <<l1, mshr, latest>> => L1Current'
  /\ RefillCurrent /\ UNCHANGED <<l1, mshr, gnt, latest>> => RefillCurrent'
  /\ WritebackCurrent /\ UNCHANGED <<rel, latest>> => WritebackCurrent'
  /\ DirtyBits /\ UNCHANGED <<trk, meta>> => DirtyBits'
<1>1. L1Current /\ UNCHANGED <<l1, mshr, latest>> => L1Current'
  BY DEF L1Current, Live
<1>2. DirtyBits /\ UNCHANGED <<trk, meta>> => DirtyBits'
  BY DEF DirtyBits, Serving
<1> QED BY <1>1, <1>2 DEF RefillCurrent, WritebackCurrent

\* Answers to probes, and the units that have taken data, while no client gains a copy and
\* the owners keep theirs.
LEMMA TakenFrame ==
  ASSUME Types(Int), UNCHANGED latest,
         \A d \in Client, b \in Block : Entitled(d, b)' => Entitled(d, b),
         \A d \in Client, b \in Block : Owns(d, b)' => Owns(d, b)
  PROVE  /\ /\ AnswerCurrent /\ UNCHANGED rel
            /\ \A d \in Client, b \in Block : DirtyCopy(d, b) => DirtyCopy(d, b)'
            => AnswerCurrent'
         /\ /\ RtShape /\ RtCurrent /\ UNCHANGED meta
            /\ rt'.state # "s_idle" => /\ rt.state # "s_idle" /\ rt'.rel = rt.rel
                                       /\ rt.state = "s_meta_write" => rt'.state = "s_meta_write"
            => RtCurrent'
         /\ WbShape /\ WbCurrent /\ UNCHANGED <<wb, mem>> => WbCurrent'
<1>1. ASSUME AnswerCurrent, UNCHANGED rel,
             \A d \in Client, b \in Block : DirtyCopy(d, b) => DirtyCopy(d, b)'
      PROVE  AnswerCurrent'
  <2> SUFFICES ASSUME NEW i \in DOMAIN rel, ~ rel[i].voluntary, rel[i].data # NoValue
               PROVE  AnswerCurrent!(i)!2'
    BY <1>1 DEF AnswerCurrent
  <2>1. PICK c \in Client, b \in Block : c = rel[i].client /\ b = rel[i].blk
    BY TypeFacts
  <2>2. AllShared(b) => AllShared(b)'
    BY DEF AllShared
  <2>3. \A j : VolMsg(c, j)' <=> VolMsg(c, j)
    BY <1>1 DEF VolMsg
  <2> QED BY <1>1, <2>1, <2>2, <2>3 DEF AnswerCurrent
<1>2. ASSUME RtShape, RtCurrent, UNCHANGED meta, rt'.state # "s_idle",
             rt.state # "s_idle", rt'.rel = rt.rel, rt.state = "s_meta_write" => rt'.state = "s_meta_write"
      PROVE  RtCurrent'
  <2>1. rt.rel.blk \in Block
    BY <1>2 DEF RtShape, ReleaseMsg
  <2> QED BY <1>2, <2>1 DEF RtCurrent
<1>3. WbShape /\ WbCurrent /\ UNCHANGED <<wb, mem>> => WbCurrent'
  BY DEF WbCurrent, WbShape
<1>4. rt'.state = "s_idle" => RtCurrent'
  BY DEF RtCurrent
<1> QED BY <1>1, <1>2, <1>3, <1>4

\* Data above the L2 that nobody takes.
LEMMA NewerKept ==
  ASSUME UNCHANGED rel,
         \A d \in Client, b \in Block : DirtyCopy(d, b) => DirtyCopy(d, b)',
         rt.state \in {"s_meta_read", "s_busy"} =>
           rt'.state \in {"s_meta_read", "s_busy"} /\ rt'.rel = rt.rel,
         wb.state # "s_idle" /\ wb.buf # NoValue =>
           wb'.state # "s_idle" /\ wb'.blk = wb.blk /\ wb'.buf = wb.buf
  PROVE  \A b \in Block : Newer(b) => Newer(b)'
<1>1. \A i \in DOMAIN rel : \A b : Carries(i, b) => Carries(i, b)'
  BY DEF Carries
<1> QED BY <1>1 DEF Newer

\* The copies in the L1 caches while these and their MSHRs stay as they are.
LEMMA SameDirty ==
  ASSUME UNCHANGED <<l1, mshr>>
  PROVE  \A d \in Client : \A b : DirtyCopy(d, b)' <=> DirtyCopy(d, b)
  BY DEF DirtyCopy, Live

\* A block whose line and memory stay as they are.
LEMMA InPlaceKept ==
  ASSUME NEW b \in Block, InPlace(b),
         \A u \in Tracker : Serving(u, b)' <=> Serving(u, b),
         \A u \in Tracker : Serving(u, b) =>
           /\ trk'[u].line = trk[u].line /\ data'[trk[u].line] = data[trk[u].line]
           /\ trk[u].coh.dirty => trk'[u].coh.dirty,
         \A n \in Line : meta'[n].tag = b <=> meta[n].tag = b,
         \A n \in Line : meta[n].tag = b /\ Unserved(b) =>
           /\ Taken(n)' <=> Taken(n)
           /\ ~ Taken(n) => data'[n] = data[n] /\ (meta[n].coh.dirty => meta'[n].coh.dirty),
         mem'[b] = mem[b], latest'[b] = latest[b], Newer(b) => Newer(b)',
         rt.state # "s_idle" /\ rt.rel.blk = b => rt'.state # "s_idle" /\ rt'.rel.blk = b
  PROVE  InPlace(b)'
<1>1. Unserved(b)' <=> Unserved(b)
  BY DEF Unserved
<1>2. Absent(b)' => Absent(b)
  BY <1>1 DEF Absent
<1>3. ASSUME NEW u \in Tracker, Serving(u, b)'
      PROVE  LineOK(b, trk[u].line)' /\ (trk[u].coh.dirty \/ MemOK(b))'
  BY <1>3 DEF InPlace, LineOK, MemOK
<1>4. ASSUME Unserved(b)', NEW n \in Line, meta'[n].tag = b, ~ Taken(n)'
      PROVE  /\ LineOK(b, n)'
             /\ (meta[n].coh.dirty \/ MemOK(b) \/ (rt.state # "s_idle" /\ rt.rel.blk = b))'
  BY <1>1, <1>4 DEF InPlace, LineOK, MemOK
<1> QED BY <1>2, <1>3, <1>4 DEF InPlace

\* A step of the L1 caches that writes nothing leaves the L2 and memory as they are.
LEMMA AboveMoved ==
  ASSUME IInv, DInv, UNCHANGED <<meta, data, trk, rt, wb, mem, latest>>,
         \A d \in Client, b \in Block : Entitled(d, b)' => Entitled(d, b),
         \A d \in Client, b \in Block : Owns(d, b)' => Owns(d, b),
         \A b \in Block : Newer(b) => Newer(b)'
  PROVE  L1Current' /\ RefillCurrent' /\ WritebackCurrent' /\ AnswerCurrent' => DInv'
<1> USE DEF IInv, DInv
<1>1. RtCurrent' /\ WbCurrent'
  BY TakenFrame
<1>3. /\ \A u \in Tracker : \A x : Serving(u, x)' <=> Serving(u, x)
      /\ \A n \in Line : Taken(n)' <=> Taken(n)
  BY DEF Serving, Taken
<1>4. \A b \in Block : InPlace(b)'
  BY <1>3, InPlaceKept
<1> QED BY <1>1, <1>4, DataFrames

\* The same when it sends no release.
LEMMA CopiesMoved ==
  ASSUME IInv, DInv, UNCHANGED <<rel, meta, data, trk, rt, wb, mem, latest>>,
         \A d \in Client, b \in Block : Entitled(d, b)' => Entitled(d, b),
         \A d \in Client, b \in Block : Owns(d, b)' => Owns(d, b),
         \A d \in Client, b \in Block : DirtyCopy(d, b) => DirtyCopy(d, b)'
  PROVE  L1Current' /\ RefillCurrent' => DInv'
<1> USE DEF IInv, DInv
<1>1. AnswerCurrent'
  BY TakenFrame
<1>2. \A b \in Block : Newer(b) => Newer(b)'
  BY NewerKept
<1>3. WritebackCurrent'
  BY DataFrames
<1> QED BY <1>1, <1>2, <1>3, AboveMoved

\* A release that is sent: what it carries, it takes from a dirty copy.
LEMMA ReleaseSent ==
  ASSUME IInv, DInv, NEW r \in ReleaseMsg, rel' = Append(rel, r), UNCHANGED <<rt, wb, latest>>,
         \A d \in Client, b \in Block : Entitled(d, b)' => Entitled(d, b),
         \A d \in Client, b \in Block : Owns(d, b)' => Owns(d, b),
         r.voluntary => r.data = latest[r.blk],
         ~ r.voluntary /\ r.data # NoValue =>
           /\ r.ptype # "probeCopy" => r.data = latest[r.blk] /\ AllShared(r.blk)'
           /\ r.ptype = "probeInvalidate" => \A d \in Client : ~ Entitled(d, r.blk)'
           /\ r.ptype = "probeCopy" => DirtyCopy(r.client, r.blk)',
         \A d \in Client, b \in Block : DirtyCopy(d, b) =>
           \/ DirtyCopy(d, b)'
           \/ /\ d = r.client /\ b = r.blk
              /\ \/ r.voluntary
                 \/ r.data # NoValue /\ r.ptype # "probeCopy" /\ ~ Answered(d, b)
  PROVE  /\ WritebackCurrent' /\ AnswerCurrent'
         /\ \A b \in Block : Newer(b) => Newer(b)'
<1> USE DEF IInv, DInv
<1>1. rel \in Seq(ReleaseMsg) /\ Len(rel) \in Nat /\ \A i \in DOMAIN rel : i \in Nat /\ i <= Len(rel)
  BY DEF Types
<1>n. PICK n \in Nat : n = Len(rel) + 1
  BY <1>1
<1>2. /\ n \in DOMAIN rel' /\ rel'[n] = r
      /\ \A i \in DOMAIN rel : i \in DOMAIN rel' /\ i < n /\ i # n /\ rel'[i] = rel[i]
      /\ \A i \in DOMAIN rel' : i # n => i \in DOMAIN rel
  BY <1>1, <1>n, AppendFacts
<1>3. WritebackCurrent'
  BY <1>2 DEF WritebackCurrent
<1>4. AnswerCurrent'
  <2> SUFFICES ASSUME NEW i \in DOMAIN rel', ~ rel'[i].voluntary, rel'[i].data # NoValue
               PROVE  AnswerCurrent!(i)!2'
    BY DEF AnswerCurrent
  <2>1. CASE i = n
    BY <1>2, <2>1
  <2>2. CASE i # n
    <3>1. i \in DOMAIN rel /\ rel'[i] = rel[i] /\ ~ rel[i].voluntary /\ rel[i].data # NoValue
      BY <1>2, <2>2
    <3>2. PICK c \in Client, b \in Block : c = rel[i].client /\ b = rel[i].blk
      BY <3>1, TypeFacts
    <3>3. AllShared(b) => AllShared(b)'
      BY DEF AllShared
    <3>4. ASSUME NEW j \in DOMAIN rel, VolMsg(c, j), rel[j].blk = b, j > i
          PROVE  j \in DOMAIN rel' /\ VolMsg(c, j)' /\ rel'[j].blk = b
      BY <1>2, <3>4 DEF VolMsg
    <3>5. ASSUME DirtyCopy(c, b), ~ DirtyCopy(c, b)'
          PROVE  n \in DOMAIN rel' /\ n > i /\ VolMsg(c, n)' /\ rel'[n].blk = b
      <4>1. Answered(c, b)
        BY <3>1, <3>2 DEF Answered, AnsMsg
      <4>2. c = r.client /\ b = r.blk /\ r.voluntary
        BY <3>5, <4>1
      <4>3. n > i
        BY <1>1, <1>2, <3>1
      <4> QED BY <1>2, <4>2, <4>3 DEF VolMsg
    <3>6. rel[i].ptype = "probeCopy" =>
            \/ DirtyCopy(c, b)'
            \/ \E j \in DOMAIN rel' : j > i /\ VolMsg(c, j)' /\ rel'[j].blk = b
      BY <3>1, <3>2, <3>4, <3>5 DEF AnswerCurrent
    <3>7. /\ rel[i].ptype # "probeCopy" => rel[i].data = latest[b] /\ AllShared(b)
          /\ rel[i].ptype = "probeInvalidate" => \A d \in Client : ~ Entitled(d, b)
      BY <3>1, <3>2 DEF AnswerCurrent
    <3> QED BY <3>1, <3>2, <3>3, <3>6, <3>7
  <2> QED BY <2>1, <2>2
<1>5. ASSUME NEW b \in Block, Newer(b) PROVE Newer(b)'
  <2>1. ASSUME NEW i \in DOMAIN rel, Carries(i, b) PROVE i \in DOMAIN rel' /\ Carries(i, b)'
    BY <1>2, <2>1 DEF Carries
  <2>2. ASSUME NEW d \in Client, DirtyCopy(d, b) PROVE DirtyCopy(d, b)' \/ Carries(n, b)'
    BY <1>2, <2>2 DEF Carries
  <2> QED BY <1>2, <1>5, <2>1, <2>2 DEF Newer
<1> QED BY <1>3, <1>4, <1>5

-----------------------------------------------------------------------------
(***************************************************************************)
(* Steps of the L1 caches.                                                 *)
(***************************************************************************)

\* Copies that stay or go without a release; the dirty ones stay.
LEMMA CleanCopiesMoved ==
  ASSUME IInv, DInv, UNCHANGED <<rel, meta, data, trk, rt, wb, mem, latest>>,
         \A d \in Client, x \in L1Way : Live(d, x)' =>
           Live(d, x) /\ l1'[d][x].tag = l1[d][x].tag /\ l1'[d][x].st = l1[d][x].st,
         \A d \in Client, x \in L1Way : Live(d, x) /\ l1[d][x].st = "M" =>
           Live(d, x)' /\ l1'[d][x].tag = l1[d][x].tag /\ l1'[d][x].st = "M"
  PROVE  L1Current' /\ RefillCurrent' => DInv'
<1>1. NoNewCopy
  BY LiveFrames
<1>2. \A d \in Client, b \in Block : DirtyCopy(d, b) => DirtyCopy(d, b)'
  BY DEF DirtyCopy
<1> QED BY <1>1, <1>2, CopiesMoved DEF NoNewCopy

\* A miss that sets the dirty bit has the block.
LEMMA MissData ==
  ASSUME IInv, DInv, NEW c \in Client, NEW b \in Uses[c], NEW cmd \in {"load", "store"}, Miss(c, b, cmd)
  PROVE  DInv'
<1> USE DEF IInv, DInv
<1>1. /\ UNCHANGED <<l1, fq, unc, acq, rel, prb, gnt, meta, data, trk, rt, wb, mem, latest>>
      /\ mshr[c].state = "s_invalid"
  BY DEF Miss, l2vars
<1>2. PICK w \in L1Way :
        /\ \A d \in Client : d # c => mshr'[d] = mshr[d]
        /\ mshr'[c].way = w /\ mshr'[c].blk = b
        /\ mshr'[c].state \in {"s_wb_req", "s_meta_clear", "s_meta_write_req", "s_refill_req"}
        /\ mshr'[c].state = "s_meta_clear" => l1[c][w].st # "M"
        /\ mshr'[c].state = "s_meta_write_req" =>
             l1[c][w].tag = b /\ l1[c][w].st \notin {"I", "M"} /\ mshr'[c].newst = "M"
  <2>1. mshr \in [Client -> MshrRec]
    BY DEF Types
  <2>2. PICK w \in (IF tag_match_way(c, b) = {} THEN L1Way ELSE tag_match_way(c, b)) :
          IF tag_match_way(c, b) = {}
          THEN mshr' = [mshr EXCEPT ![c] =
                 [state |-> IF l1[c][w].st = "M" THEN "s_wb_req" ELSE "s_meta_clear",
                  blk |-> b, way |-> w, cmd |-> cmd, newst |-> "I"]]
          ELSE /\ l1[c][w].st # "M"
               /\ IF isHit(cmd, l1[c][w].st)
                  THEN mshr' = [mshr EXCEPT ![c] = [state |-> "s_meta_write_req", blk |-> b,
                                                    way |-> w, cmd |-> cmd, newst |-> "M"]]
                  ELSE mshr' = [mshr EXCEPT ![c] = [state |-> "s_refill_req", blk |-> b,
                                                    way |-> w, cmd |-> cmd, newst |-> "I"]]
    BY DEF Miss
  <2>3. CASE tag_match_way(c, b) = {}
    BY <2>1, <2>2, <2>3
  <2>4. CASE tag_match_way(c, b) # {}
    BY <2>1, <2>2, <2>4 DEF tag_match_way, isHit
  <2> QED BY <2>3, <2>4
<1>3. \A d \in Client, x \in L1Way :
        /\ Live(d, x)' => Live(d, x)
        /\ Live(d, x) /\ l1[d][x].st = "M" => Live(d, x)'
  BY <1>1, <1>2 DEF Live
<1>4. L1Current'
  BY <1>1, <1>3 DEF L1Current
<1>5. RefillCurrent'
  <2> SUFFICES ASSUME NEW d \in Client PROVE RefillCurrent!(d)'
    BY DEF RefillCurrent
  <2>1. CASE d # c
    BY <1>1, <1>2, <2>1 DEF RefillCurrent
  <2>2. CASE d = c
    <3>1. mshr'[c].state = "s_meta_write_req" => l1[c][w].data = latest[b] /\ l1[c][w].st # "M"
      BY <1>1, <1>2 DEF L1Current, Live
    <3>2. ~ (gnt[c] # <<>> /\ Head(gnt[c]).gtype # "voluntaryAck")
      BY <1>1 DEF AcquireTokens
    <3> QED BY <1>1, <1>2, <2>2, <3>1, <3>2
  <2> QED BY <2>1, <2>2
<1> QED BY <1>1, <1>3, <1>4, <1>5, CleanCopiesMoved

\* Steps of an MSHR that leave the caches alone.
LEMMA MshrData ==
  ASSUME IInv, DInv, NEW c \in Client, SecondaryMiss(c) \/ SendAcquire(c)
  PROVE  DInv'
<1> USE DEF IInv, DInv
<1>1. /\ UNCHANGED <<l1, rel, gnt, meta, data, trk, rt, wb, mem, latest>>
      /\ \/ /\ mshr[c].state = "s_refill_req" /\ mshr' = [mshr EXCEPT ![c].state = "s_refill_resp"]
         \/ /\ mshr[c].state \in {"s_wb_req", "s_wb_resp", "s_meta_clear"}
            /\ mshr' = [mshr EXCEPT ![c].cmd = "store"]
  BY DEF SecondaryMiss, SendAcquire, l2vars
<1>2. mshr \in [Client -> MshrRec]
  BY DEF Types
<1>3. \A d \in Client :
        /\ mshr'[d].way = mshr[d].way /\ mshr'[d].blk = mshr[d].blk
        /\ mshr'[d].state = "s_meta_write_req" => mshr[d].state = "s_meta_write_req"
        /\ mshr'[d].newst = mshr[d].newst
        /\ mshr[d].state \in {"s_refill_resp", "s_meta_write_req"} => mshr'[d].cmd = mshr[d].cmd
        /\ mshr'[d].state \in {"s_wb_resp", "s_meta_clear"} <=> mshr[d].state \in {"s_wb_resp", "s_meta_clear"}
  <2>1. CASE mshr[c].state = "s_refill_req" /\ mshr' = [mshr EXCEPT ![c].state = "s_refill_resp"]
    BY <1>2, <2>1 DEF MshrRec
  <2>2. CASE /\ mshr[c].state \in {"s_wb_req", "s_wb_resp", "s_meta_clear"}
             /\ mshr' = [mshr EXCEPT ![c].cmd = "store"]
    BY <1>2, <2>2 DEF MshrRec
  <2> QED BY <1>1, <2>1, <2>2
<1>4. \A d \in Client, x \in L1Way : Live(d, x)' <=> Live(d, x)
  BY <1>1, <1>3 DEF Live
<1>5. L1Current'
  BY <1>1, <1>4 DEF L1Current
<1>6. RefillCurrent'
  <2>1. \A d \in Client : gnt[d] # <<>> /\ Head(gnt[d]).gtype # "voluntaryAck" => mshr[d].state = "s_refill_resp"
    BY DEF AcquireTokens
  <2> QED BY <1>1, <1>3, <2>1 DEF RefillCurrent
<1> QED BY <1>1, <1>4, <1>5, <1>6, CleanCopiesMoved

\* The way that is cleared was already given up.
LEMMA MetaClearData ==
  ASSUME IInv, DInv, NEW c \in Client, MetaClear(c)
  PROVE  DInv'
<1> USE DEF IInv, DInv
<1>1. /\ UNCHANGED <<rel, gnt, meta, data, trk, rt, wb, mem, latest>>
      /\ mshr[c].state = "s_meta_clear"
      /\ mshr' = [mshr EXCEPT ![c].state = "s_refill_req"]
      /\ l1' = [l1 EXCEPT ![c][mshr[c].way] = [tag |-> NoBlock, st |-> "I", data |-> NoValue]]
  BY DEF MetaClear, l2vars
<1>2. mshr \in [Client -> MshrRec] /\ l1 \in [Client -> [L1Way -> L1Rec]]
  BY DEF Types
<1>3. PICK w \in L1Way : w = mshr[c].way
  BY TypeFacts
<1>4. PICK e \in L1Rec : e = [tag |-> NoBlock, st |-> "I", data |-> NoValue] /\ e.st = "I"
  <2>1. [tag |-> NoBlock, st |-> "I", data |-> NoValue] \in L1Rec
    BY DEF L1Rec, ClientState
  <2> QED BY <2>1
<1>5. l1' = [l1 EXCEPT ![c][w] = e]
  BY <1>1, <1>3, <1>4
<1>6. /\ l1'[c][w].st = "I"
      /\ \A x \in L1Way : x # w => l1'[c][x] = l1[c][x]
      /\ \A d \in Client : d # c => l1'[d] = l1[d]
  BY <1>2, <1>4, <1>5, L1Update
<1>7. /\ mshr'[c].state = "s_refill_req" /\ mshr'[c].way = w
      /\ \A d \in Client : d # c => mshr'[d] = mshr[d]
  BY <1>1, <1>2, <1>3 DEF MshrRec
<1>8. ASSUME NEW d \in Client, NEW x \in L1Way
      PROVE  /\ Live(d, x)' => Live(d, x) /\ l1'[d][x] = l1[d][x]
             /\ Live(d, x) => Live(d, x)' /\ l1'[d][x] = l1[d][x]
  <2>1. CASE d = c /\ x = w
    BY <1>1, <1>3, <1>6, <2>1 DEF Live
  <2>2. CASE d = c /\ x # w
    BY <1>3, <1>6, <1>7, <2>2 DEF Live
  <2>3. CASE d # c
    BY <1>6, <1>7, <2>3 DEF Live
  <2> QED BY <2>1, <2>2, <2>3
<1>9. L1Current'
  BY <1>1, <1>8 DEF L1Current
<1>10. RefillCurrent'
  <2> SUFFICES ASSUME NEW d \in Client PROVE RefillCurrent!(d)'
    BY DEF RefillCurrent
  <2>1. CASE d # c
    BY <1>1, <1>6, <1>7, <2>1 DEF RefillCurrent
  <2>2. CASE d = c
    <3>1. ~ (gnt[c] # <<>> /\ Head(gnt[c]).gtype # "voluntaryAck")
      BY <1>1 DEF AcquireTokens
    <3> QED BY <1>1, <1>7, <2>2, <3>1
  <2> QED BY <2>1, <2>2
<1> QED BY <1>1, <1>8, <1>9, <1>10, CleanCopiesMoved

\* The refill has the value of its block.
LEMMA ReceiveGrantData ==
  ASSUME IInv, DInv, NEW c \in Client, ReceiveGrant(c)
  PROVE  DInv'
<1> USE DEF IInv, DInv
<1>1. /\ UNCHANGED <<rel, meta, data, trk, rt, wb, mem, latest>>
      /\ gnt[c] # <<>> /\ gnt' = [gnt EXCEPT ![c] = Tail(@)]
  BY DEF ReceiveGrant, l2vars
<1>2. /\ mshr \in [Client -> MshrRec] /\ gnt \in [Client -> Seq(GrantMsg)]
      /\ l1 \in [Client -> [L1Way -> L1Rec]]
  BY DEF Types
<1>3. PICK g \in GrantMsg : g = Head(gnt[c])
  BY <1>1, <1>2, TailFacts
<1>4. /\ gnt'[c] = <<>> /\ \A d \in Client : d # c => gnt'[d] = gnt[d]
  <2>1. gnt[c] \in Seq(GrantMsg) /\ Len(gnt[c]) = 1
    BY <1>1, <1>2 DEF WritebackTokens
  <2>2. Tail(gnt[c]) = <<>>
    BY <2>1, TailOfOne
  <2> QED BY <1>1, <1>2, <2>2
<1>5. PICK w \in L1Way : w = mshr[c].way
  BY TypeFacts
<1>6. CASE mshr[c].state = "s_wb_resp" /\ mshr' = [mshr EXCEPT ![c].state = "s_meta_clear"] /\ l1' = l1
  <2>1. /\ mshr'[c].state = "s_meta_clear" /\ mshr'[c].way = mshr[c].way
        /\ \A d \in Client : d # c => mshr'[d] = mshr[d]
    BY <1>2, <1>6 DEF MshrRec
  <2>2. \A d \in Client, x \in L1Way : Live(d, x)' <=> Live(d, x)
    BY <1>6, <2>1 DEF Live
  <2>3. L1Current'
    BY <1>1, <1>6, <2>2 DEF L1Current
  <2>4. RefillCurrent'
    BY <1>1, <1>4, <1>6, <2>1 DEF RefillCurrent
  <2> QED BY <1>1, <1>6, <2>2, <2>3, <2>4, CleanCopiesMoved
<1>7. CASE /\ mshr[c].state = "s_refill_resp"
           /\ mshr' = [mshr EXCEPT ![c].state = "s_meta_write_req",
                                   ![c].newst = clientMetadataOnGrant(g.gtype, mshr[c].cmd)]
           /\ l1' = [l1 EXCEPT ![c][mshr[c].way].data = g.data]
  <2>1. g.gtype # "voluntaryAck"
    BY <1>1, <1>3, <1>7 DEF WritebackTokens
  <2>2. /\ g.data = latest[mshr[c].blk] /\ g.data \in Value \cup {NoValue}
        /\ mshr[c].cmd = "store" => g.gtype = "grantExclusive"
    BY <1>1, <1>3, <2>1 DEF RefillCurrent, GrantMsg
  <2>3. PICK b : b = mshr[c].blk
    OBVIOUS
  <2>4. /\ mshr'[c].state = "s_meta_write_req" /\ mshr'[c].way = w /\ mshr'[c].blk = b
        /\ mshr'[c].cmd = "store" => mshr'[c].newst = "M"
        /\ \A d \in Client : d # c => mshr'[d] = mshr[d]
    BY <1>2, <1>5, <1>7, <2>2, <2>3 DEF MshrRec, clientMetadataOnGrant
  <2>5. PICK e \in L1Rec : /\ e = [l1[c][w] EXCEPT !.data = g.data]
                           /\ e.tag = l1[c][w].tag /\ e.st = l1[c][w].st /\ e.data = g.data
    <3>1. l1[c][w] \in L1Rec
      BY <1>2
    <3>2. [l1[c][w] EXCEPT !.data = g.data] \in L1Rec
      BY <2>2, <3>1 DEF L1Rec
    <3> QED BY <3>1, <3>2 DEF L1Rec
  <2>6. l1' = [l1 EXCEPT ![c][w] = e]
    BY <1>2, <1>5, <1>7, <2>5
  <2>7. /\ l1'[c][w] = e
        /\ \A x \in L1Way : x # w => l1'[c][x] = l1[c][x]
        /\ \A d \in Client : d # c => l1'[d] = l1[d]
    BY <1>2, <2>6, L1Update
  <2>8. \A d \in Client, x \in L1Way : l1'[d][x].tag = l1[d][x].tag /\ l1'[d][x].st = l1[d][x].st
    BY <2>5, <2>7
  <2>9. \A d \in Client, x \in L1Way : Live(d, x)' <=> Live(d, x)
    BY <1>7, <2>4, <2>8 DEF Live
  <2>10. /\ l1[c][w].st # "I" => l1[c][w].tag = b
         /\ l1[c][w].st # "M"
    BY <1>5, <1>7, <2>3 DEF L1Shape
  <2>11. L1Current'
    <3> SUFFICES ASSUME NEW d \in Client, NEW x \in L1Way, Live(d, x)
                 PROVE  l1'[d][x].data = latest[l1'[d][x].tag]
      BY <1>1, <2>9 DEF L1Current
    <3>1. CASE d = c /\ x = w
      BY <2>2, <2>3, <2>5, <2>7, <2>10, <3>1 DEF Live
    <3>2. CASE ~ (d = c /\ x = w)
      BY <2>7, <3>2 DEF L1Current
    <3> QED BY <3>1, <3>2
  <2>12. RefillCurrent'
    <3> SUFFICES ASSUME NEW d \in Client PROVE RefillCurrent!(d)'
      BY DEF RefillCurrent
    <3>1. CASE d # c
      BY <1>1, <1>4, <2>4, <2>7, <3>1 DEF RefillCurrent
    <3>2. CASE d = c
      <4>1. l1'[c][w].data = latest'[b] /\ l1'[c][w].st # "M"
        BY <1>1, <2>2, <2>3, <2>5, <2>7, <2>10
      <4> QED BY <1>4, <2>4, <3>2, <4>1
    <3> QED BY <3>1, <3>2
  <2> QED BY <1>1, <2>8, <2>9, <2>11, <2>12, CleanCopiesMoved
<1> QED BY <1>3, <1>6, <1>7 DEF ReceiveGrant

\* The write-back takes the value along.
LEMMA SendWritebackData ==
  ASSUME IInv, DInv, NEW c \in Client, SendWriteback(c)
  PROVE  DInv'
<1> USE DEF IInv, DInv
<1>1. /\ UNCHANGED <<l1, gnt, meta, data, trk, rt, wb, mem, latest>>
      /\ mshr' = [mshr EXCEPT ![c].state = "s_wb_resp"] /\ mshr[c].state = "s_wb_req"
  BY DEF SendWriteback, l2vars
<1>2. mshr \in [Client -> MshrRec] /\ l1 \in [Client -> [L1Way -> L1Rec]]
  BY DEF Types
<1>3. PICK w \in L1Way : w = mshr[c].way
  BY TypeFacts
<1>4. PICK b \in Block : b = l1[c][w].tag
  BY <1>1, <1>3 DEF L1Shape
<1>5. PICK r \in ReleaseMsg : /\ rel' = Append(rel, r) /\ r.client = c /\ r.blk = b /\ r.voluntary
                              /\ r.data = l1[c][w].data
  <2> DEFINE R == [client |-> c, blk |-> b, voluntary |-> TRUE, ptype |-> "probeInvalidate",
                   data |-> l1[c][w].data]
  <2>1. l1[c][w].data \in Value \cup {NoValue}
    BY <1>2 DEF L1Rec
  <2>2. R \in ReleaseMsg /\ R.client = c /\ R.blk = b /\ R.voluntary /\ R.data = l1[c][w].data
    BY <2>1 DEF ReleaseMsg, ProbeType
  <2>3. rel' = Append(rel, R)
    BY <1>3, <1>4 DEF SendWriteback
  <2> HIDE DEF R
  <2> QED BY <2>2, <2>3
<1>6. /\ mshr'[c].state = "s_wb_resp" /\ mshr'[c].way = w
      /\ \A d \in Client : d # c => mshr'[d] = mshr[d]
  BY <1>1, <1>2, <1>3 DEF MshrRec
<1>7. Live(c, w) /\ l1[c][w].st = "M" /\ ~ Live(c, w)'
  BY <1>1, <1>3, <1>6 DEF L1Shape, Live
<1>8. \A d \in Client, x \in L1Way : ~ (d = c /\ x = w) => (Live(d, x)' <=> Live(d, x))
  BY <1>1, <1>3, <1>6 DEF Live
<1>9. rel \in Seq(ReleaseMsg)
  BY DEF Types
<1>10. \A i \in DOMAIN rel' : \A d : VolMsg(d, i)' => (i \in DOMAIN rel /\ VolMsg(d, i) /\ rel'[i] = rel[i]) \/ (d = c /\ rel'[i].blk = b)
  BY <1>5, <1>9, AppendFacts DEF VolMsg
<1>11. Owns(c, b) /\ Entitled(c, b)
  BY <1>4, <1>7 DEF Owns, Entitled, Holds
<1>12. \A d \in Client, x \in Block : Entitled(d, x)' => Entitled(d, x)
  BY <1>1, <1>7, <1>8, <1>10, <1>11 DEF Entitled, Holds
<1>13. \A d \in Client, x \in Block : Owns(d, x)' => Owns(d, x)
  BY <1>1, <1>7, <1>8, <1>10, <1>11 DEF Owns
<1>14. \A d \in Client, x \in Block : DirtyCopy(d, x) => DirtyCopy(d, x)' \/ (d = c /\ x = b)
  BY <1>1, <1>4, <1>8 DEF DirtyCopy
<1>15. r.data = latest[b]
  BY <1>4, <1>5, <1>7 DEF L1Current
<1>16. WritebackCurrent' /\ AnswerCurrent' /\ \A x \in Block : Newer(x) => Newer(x)'
  BY <1>1, <1>5, <1>12, <1>13, <1>14, <1>15, ReleaseSent
<1>17. L1Current'
  BY <1>1, <1>7, <1>8 DEF L1Current
<1>18. RefillCurrent'
  <2>1. ~ (gnt[c] # <<>> /\ Head(gnt[c]).gtype # "voluntaryAck")
    BY <1>1 DEF AcquireTokens
  <2> QED BY <1>1, <1>6, <2>1 DEF RefillCurrent
<1> QED BY <1>1, <1>12, <1>13, <1>16, <1>17, <1>18, AboveMoved

\* A client that owns a block has a copy of it.
LEMMA OwnerEntitled ==
  ASSUME NEW c \in Client, NEW b, Owns(c, b)
  PROVE  Entitled(c, b)
  BY DEF Owns, Entitled, Holds

\* The answer to a probe has the data of a dirty copy, which is the only one.
LEMMA ReceiveProbeData ==
  ASSUME IInv, DInv, NEW c \in Client, ReceiveProbe(c)
  PROVE  DInv'
<1> USE DEF IInv, DInv
<1>1. /\ UNCHANGED <<mshr, gnt, meta, data, trk, rt, wb, mem, latest>>
      /\ prb[c] # <<>>
      /\ mshr[c].state \notin {"s_wb_req", "s_wb_resp", "s_meta_clear", "s_meta_write_req"}
  BY DEF ReceiveProbe, l2vars, probe_rdy
<1>2. /\ prb \in [Client -> Seq(ProbeMsg)] /\ rel \in Seq(ReleaseMsg)
      /\ l1 \in [Client -> [L1Way -> L1Rec]] /\ latest \in [Block -> Value]
  BY DEF Types
<1>3. PICK p \in ProbeMsg : p = Head(prb[c]) /\ p = prb[c][1] /\ 1 \in DOMAIN prb[c]
  BY <1>1, <1>2, TailFacts
<1>b. PICK b \in Block, q \in ProbeType : b = p.blk /\ q = p.ptype
  BY DEF ProbeMsg
<1> DEFINE R(d) == [client |-> c, blk |-> b, voluntary |-> FALSE, ptype |-> q, data |-> d]
<1>4. \A d \in Value \cup {NoValue} :
        /\ R(d) \in ReleaseMsg /\ R(d).client = c /\ R(d).blk = b /\ ~ R(d).voluntary
        /\ R(d).ptype = q /\ R(d).data = d
  BY DEF ReleaseMsg
<1>5. \/ tag_match_way(c, b) = {} /\ rel' = Append(rel, R(NoValue)) /\ l1' = l1
      \/ \E w \in tag_match_way(c, b) :
           /\ rel' = Append(rel, R(IF l1[c][w].st = "M" THEN l1[c][w].data ELSE NoValue))
           /\ l1' = [l1 EXCEPT ![c][w].st = clientMetadataOnProbe(q, @)]
  BY <1>3, <1>b DEF ReceiveProbe
<1> HIDE DEF R
<1>6. ~ Answered(c, b)
  BY <1>3, <1>b DEF ProbesMatched
<1>7. \A i \in DOMAIN rel : ~ VolMsg(c, i)
  BY <1>1 DEF WritebackTokens
<1>8. \A x \in L1Way : Live(c, x) <=> l1[c][x].st # "I"
  BY <1>1 DEF Live
<1>9. CASE tag_match_way(c, b) = {} /\ rel' = Append(rel, R(NoValue)) /\ l1' = l1
  <2>1. PICK r \in ReleaseMsg : rel' = Append(rel, r) /\ ~ r.voluntary /\ r.data = NoValue
    BY <1>4, <1>9
  <2>2. \A i \in DOMAIN rel' : \A d : VolMsg(d, i)' => i \in DOMAIN rel /\ VolMsg(d, i) /\ rel'[i] = rel[i]
    BY <1>2, <2>1, AppendFacts DEF VolMsg
  <2>3. /\ \A d \in Client, x \in L1Way : Live(d, x)' <=> Live(d, x)
        /\ \A d \in Client : \A x : DirtyCopy(d, x)' <=> DirtyCopy(d, x)
    BY <1>1, <1>9 DEF Live, DirtyCopy
  <2>4. \A d \in Client, x \in Block : Entitled(d, x)' => Entitled(d, x)
    BY <1>9, <2>2, <2>3 DEF Entitled, Holds
  <2>5. \A d \in Client, x \in Block : Owns(d, x)' => Owns(d, x)
    BY <1>9, <2>2, <2>3 DEF Owns
  <2>6. WritebackCurrent' /\ AnswerCurrent' /\ \A x \in Block : Newer(x) => Newer(x)'
    BY <1>1, <2>1, <2>3, <2>4, <2>5, ReleaseSent
  <2> QED BY <1>1, <1>9, <2>4, <2>5, <2>6, AboveMoved, DataFrames
<1>10. CASE \E w \in tag_match_way(c, b) :
              /\ rel' = Append(rel, R(IF l1[c][w].st = "M" THEN l1[c][w].data ELSE NoValue))
              /\ l1' = [l1 EXCEPT ![c][w].st = clientMetadataOnProbe(q, @)]
  <2>0. PICK w \in tag_match_way(c, b) :
              /\ rel' = Append(rel, R(IF l1[c][w].st = "M" THEN l1[c][w].data ELSE NoValue))
              /\ l1' = [l1 EXCEPT ![c][w].st = clientMetadataOnProbe(q, @)]
    BY <1>10
  <2>1. w \in L1Way /\ l1[c][w] \in L1Rec /\ l1[c][w].tag = b /\ l1[c][w].st # "I" /\ Live(c, w)
    BY <1>2, <1>8 DEF tag_match_way
  <2>2. l1[c][w].data = latest[b] /\ l1[c][w].data # NoValue /\ l1[c][w].data \in Value
    BY <1>2, <2>1, L2CacheAssumption DEF L1Current
  <2>3. PICK r \in ReleaseMsg :
          /\ rel' = Append(rel, r) /\ ~ r.voluntary /\ r.client = c /\ r.blk = b /\ r.ptype = q
          /\ r.data = (IF l1[c][w].st = "M" THEN l1[c][w].data ELSE NoValue)
    BY <1>4, <2>0, <2>2
  <2>4. PICK s \in ClientState : s = clientMetadataOnProbe(q, l1[c][w].st)
    <3>1. l1[c][w].st \in ClientState
      BY <2>1 DEF L1Rec
    <3>2. clientMetadataOnProbe(q, l1[c][w].st) \in ClientState
      BY <3>1, PolicyTypes
    <3> QED BY <3>2
  <2>5. /\ q = "probeInvalidate" => s = "I"
        /\ q = "probeDowngrade" => s = "S"
        /\ q = "probeCopy" => s = l1[c][w].st
        /\ q \in {"probeInvalidate", "probeDowngrade", "probeCopy"}
    BY <2>4 DEF clientMetadataOnProbe, ProbeType
  <2>6. PICK e \in L1Rec : /\ e = [l1[c][w] EXCEPT !.st = clientMetadataOnProbe(q, @)]
                           /\ e.tag = b /\ e.st = s /\ e.data = l1[c][w].data
    <3> DEFINE e == [l1[c][w] EXCEPT !.st = clientMetadataOnProbe(q, @)]
    <3>1. e \in L1Rec
      BY <2>1, <2>4 DEF L1Rec
    <3>2. e.tag = b /\ e.st = s /\ e.data = l1[c][w].data
      BY <2>1, <2>4 DEF L1Rec
    <3> HIDE DEF e
    <3>3. \E f \in L1Rec : f = e /\ f.tag = b /\ f.st = s /\ f.data = l1[c][w].data
      BY <3>1, <3>2
    <3> QED BY <3>3 DEF e
  <2>7. l1' = [l1 EXCEPT ![c][w] = e]
    BY <1>2, <2>0, <2>1, <2>6
  <2>8. /\ l1'[c][w] = e
        /\ \A x \in L1Way : x # w => l1'[c][x] = l1[c][x]
        /\ \A d \in Client : d # c => l1'[d] = l1[d]
    BY <1>2, <2>1, <2>7, L1Update
  <2>9. \A i \in DOMAIN rel' : \A d : VolMsg(d, i)' => i \in DOMAIN rel /\ VolMsg(d, i) /\ rel'[i] = rel[i]
    BY <1>2, <2>3, AppendFacts DEF VolMsg
  <2>10. /\ \A d \in Client, x \in L1Way : ~ (d = c /\ x = w) => (Live(d, x)' <=> Live(d, x)) /\ l1'[d][x] = l1[d][x]
         /\ Live(c, w)' <=> s # "I"
    BY <1>1, <2>1, <2>6, <2>8 DEF Live
  <2>11. \A x \in L1Way : l1[c][x].tag = b /\ Live(c, x) => x = w
    BY <1>8, <2>1 DEF L1Shape
  <2>m. \A d \in Client, x \in L1Way :
          /\ l1'[d][x].tag = l1[d][x].tag /\ l1'[d][x].data = l1[d][x].data
          /\ Live(d, x)' => Live(d, x)
          /\ Live(d, x)' /\ l1'[d][x].st # "S" => l1[d][x].st # "S"
    BY <2>1, <2>5, <2>6, <2>8, <2>10
  <2>12. \A d \in Client, x \in Block : Entitled(d, x)' => Entitled(d, x)
    BY <2>9, <2>m DEF Entitled, Holds
  <2>13. \A d \in Client, x \in Block : Owns(d, x)' => Owns(d, x)
    BY <2>9, <2>m DEF Owns
  <2>14. \A d \in Client, x \in Block : DirtyCopy(d, x) =>
           \/ DirtyCopy(d, x)'
           \/ d = c /\ x = b /\ l1[c][w].st = "M" /\ q # "probeCopy"
    <3> SUFFICES ASSUME NEW d \in Client, NEW x \in Block, DirtyCopy(d, x), ~ DirtyCopy(d, x)'
                 PROVE  d = c /\ x = b /\ l1[c][w].st = "M" /\ q # "probeCopy"
      OBVIOUS
    <3>1. PICK y \in L1Way : Live(d, y) /\ l1[d][y].tag = x /\ l1[d][y].st = "M"
      BY DEF DirtyCopy
    <3>2. d = c /\ y = w
      BY <2>10, <3>1 DEF DirtyCopy
    <3>3. q # "probeCopy"
      BY <2>1, <2>5, <2>6, <2>8, <2>10, <3>1, <3>2 DEF DirtyCopy
    <3> QED BY <2>1, <3>1, <3>2, <3>3
  <2>15. ASSUME l1[c][w].st = "M"
         PROVE  /\ q # "probeCopy" => AllShared(b)'
                /\ q = "probeInvalidate" => \A d \in Client : ~ Entitled(d, b)'
                /\ q = "probeCopy" => DirtyCopy(c, b)'
    <3>1. Owns(c, b)
      BY <2>1, <2>15 DEF Owns
    <3>2. \A d \in Client : Entitled(d, b)' => d = c
      BY <2>12, <3>1, SoleOwner
    <3>3. \A i \in DOMAIN rel' : ~ VolMsg(c, i)'
      BY <1>7, <2>9
    <3>4. \A x \in L1Way : Live(c, x)' /\ l1'[c][x].tag = b => x = w /\ s # "I"
      BY <2>10, <2>11
    <3>5. q = "probeInvalidate" => ~ Entitled(c, b)'
      BY <2>5, <3>3, <3>4 DEF Entitled, Holds
    <3>6. q # "probeCopy" => ~ Owns(c, b)'
      BY <2>5, <2>6, <2>8, <3>3, <3>4 DEF Owns
    <3>7. \A d \in Client : Owns(d, b)' => Entitled(d, b)'
      BY DEF Owns, Entitled, Holds
    <3>8. q # "probeCopy" => AllShared(b)'
      BY <3>2, <3>6, <3>7 DEF AllShared
    <3>9. q = "probeCopy" => DirtyCopy(c, b)'
      BY <2>1, <2>5, <2>6, <2>8, <2>10, <2>15 DEF DirtyCopy
    <3> QED BY <3>2, <3>5, <3>8, <3>9
  <2>16. r.data # NoValue <=> l1[c][w].st = "M"
    BY <2>2, <2>3
  <2>17. WritebackCurrent' /\ AnswerCurrent' /\ \A x \in Block : Newer(x) => Newer(x)'
    <3>1. ~ r.voluntary /\ r.data # NoValue =>
           /\ r.ptype # "probeCopy" => r.data = latest[r.blk] /\ AllShared(b)'
           /\ r.ptype = "probeInvalidate" => \A d \in Client : ~ Entitled(d, b)'
           /\ r.ptype = "probeCopy" => DirtyCopy(c, b)'
      BY <2>2, <2>3, <2>15, <2>16
    <3>2. \A d \in Client, x \in Block : DirtyCopy(d, x) =>
           \/ DirtyCopy(d, x)'
           \/ /\ d = r.client /\ x = r.blk
              /\ \/ r.voluntary
                 \/ r.data # NoValue /\ r.ptype # "probeCopy" /\ ~ Answered(d, x)
      BY <1>6, <2>3, <2>14, <2>16
    <3> QED BY <1>1, <2>3, <2>12, <2>13, <3>1, <3>2, ReleaseSent
  <2>18. L1Current'
    BY <1>1, <2>m DEF L1Current
  <2>19. RefillCurrent'
    <3> SUFFICES ASSUME NEW d \in Client PROVE RefillCurrent!(d)'
      BY DEF RefillCurrent
    <3>1. CASE d # c
      BY <1>1, <2>8, <3>1 DEF RefillCurrent
    <3>2. CASE d = c
      BY <1>1, <3>2 DEF RefillCurrent
    <3> QED BY <3>1, <3>2
  <2> QED BY <1>1, <2>12, <2>13, <2>17, <2>18, <2>19, AboveMoved
<1> QED BY <1>5, <1>9, <1>10

-----------------------------------------------------------------------------
(***************************************************************************)
(* Writing a block.                                                        *)
(***************************************************************************)

\* A block that somebody has is in the L2.
LEMMA CopyPlaced ==
  ASSUME IInv, NEW c \in Client, NEW b \in Block, Entitled(c, b)
  PROVE  ~ Absent(b)
<1> USE DEF IInv
<1> SUFFICES ASSUME Absent(b) PROVE FALSE
  OBVIOUS
<1>1. Lists(c, b)
  BY DEF Listed
<1>2. PICK n \in Line : meta[n].tag = b
  BY <1>1 DEF Lists, Absent, Unserved
<1>3. PICK t \in Tracker : trk[t].line = n /\ trk[t].state \in {"s_outer_acquire", "s_busy", "s_meta_write"}
  BY <1>2 DEF Absent, Taken
<1>4. trk[t].blk = b
  BY <1>1, <1>2, <1>3 DEF Lists
<1>5. trk[t].state = "s_outer_acquire"
  BY <1>3, <1>4 DEF Absent, Unserved, Serving
<1> QED BY <1>2, <1>4, <1>5 DEF TrackerShape, Resident

\* While a tracker is past its probes, nobody else works on its block.
LEMMA BlockBusy ==
  ASSUME IInv, NEW t \in Tracker, NEW b, trk[t].blk = b, trk[t].state \in {"s_busy", "s_meta_write"}
  PROVE  /\ \A i \in DOMAIN rel : ~ rel[i].voluntary => rel[i].blk # b
         /\ rt.state # "s_idle" => rt.rel.blk # b
         /\ wb.state # "s_idle" => wb.blk # b
         /\ \A u \in Tracker : Busy(u) /\ trk[u].blk = b => u = t
<1> USE DEF IInv
<1>1. Busy(t)
  BY DEF Busy
<1>2. \A u \in Tracker : Busy(u) /\ trk[u].blk = b => u = t
  BY <1>1, OneUnit
<1>3. wb.state # "s_idle" => wb.blk # b
  BY <1>1, OneUnit DEF WbShape
<1>4. rt.state # "s_idle" => rt.rel.blk # b
  BY <1>1 DEF RtShape
<1>5. \A i \in DOMAIN rel : ~ rel[i].voluntary => rel[i].blk # b
  BY <1>2, <1>3 DEF ProbesMatched, Prober, Busy
<1> QED BY <1>2, <1>3, <1>4, <1>5

\* Nobody else has the block of a client that may write it, or is going to get it, and the L2
\* has taken all that was released.
LEMMA WriterAlone ==
  ASSUME IInv, DInv, NEW c, NEW b \in Block,
         \/ c \in Client /\ Owns(c, b)
         \/ \E t \in Tracker : /\ trk[t].state = "s_busy" /\ trk[t].blk = b
                               /\ trk[t].coh.sharers \subseteq {c}
  PROVE  /\ \A d \in Client : Entitled(d, b) => d = c
         /\ \A d \in Client : d # c =>
              /\ mshr[d].state = "s_meta_write_req" => mshr[d].blk # b
              /\ gnt[d] # <<>> /\ Head(gnt[d]).gtype # "voluntaryAck" => mshr[d].blk # b
         /\ \A i \in DOMAIN rel : ~ rel[i].voluntary /\ rel[i].data # NoValue /\ rel[i].ptype # "probeCopy"
              => rel[i].blk # b
         /\ rt.state # "s_idle" => rt.rel.blk # b
         /\ wb.state # "s_idle" /\ (wb.buf # NoValue \/ wb.state = "s_wb_resp") => wb.blk # b
<1> USE DEF IInv, DInv
<1>1. \A d \in Client : Entitled(d, b) => d = c
  <2>1. CASE c \in Client /\ Owns(c, b)
    BY <2>1, SoleOwner
  <2>2. ASSUME NEW t \in Tracker, trk[t].state = "s_busy", trk[t].blk = b, trk[t].coh.sharers \subseteq {c}
        PROVE  \A d \in Client : Entitled(d, b) => d = c
    BY <2>2 DEF Listed, Lists, Serving
  <2> QED BY <2>1, <2>2
<1>2. ASSUME NEW d \in Client, d # c, NEW u \in Tracker, Granted(d, u), trk[u].blk = b,
             d \in trk[u].coh.sharers
      PROVE  FALSE
  <2>1. trk[u].state = "s_busy" /\ Busy(u) /\ Serving(u, b)
    BY <1>2 DEF Granted, Busy, Serving
  <2>2. CASE c \in Client /\ Owns(c, b)
    <3>1. c \in trk[u].coh.sharers
      BY <2>1, <2>2, OwnerEntitled DEF Listed, Lists
    <3>2. Two(trk[u].coh.sharers)
      BY <1>2, <3>1 DEF Two
    <3> QED BY <1>2, <2>1, <2>2, <3>2 DEF SharedInTracker, AllShared
  <2>3. ASSUME NEW t \in Tracker, trk[t].state = "s_busy", trk[t].blk = b, trk[t].coh.sharers \subseteq {c}
        PROVE  FALSE
    BY <1>2, <2>1, <2>3, BlockBusy
  <2> QED BY <2>2, <2>3
<1>3. ASSUME NEW d \in Client, d # c
      PROVE  /\ mshr[d].state = "s_meta_write_req" => mshr[d].blk # b
             /\ gnt[d] # <<>> /\ Head(gnt[d]).gtype # "voluntaryAck" => mshr[d].blk # b
  <2>1. ASSUME mshr[d].state = "s_meta_write_req", mshr[d].blk = b PROVE FALSE
    <3>1. CASE l1[d][mshr[d].way].st = "E" /\ mshr[d].newst = "M"
      <4>1. PICK w \in L1Way : w = mshr[d].way
        BY TypeFacts
      <4>2. l1[d][w].tag = b /\ Live(d, w)
        BY <2>1, <3>1, <4>1 DEF L1Shape, Live
      <4>3. Entitled(d, b)
        BY <4>2 DEF Entitled, Holds
      <4> QED BY <1>1, <1>3, <4>3
    <3>2. CASE ~ (l1[d][mshr[d].way].st = "E" /\ mshr[d].newst = "M")
      <4>1. fq[d] # NoTracker /\ trk[fq[d]].blk = b /\ d \in trk[fq[d]].coh.sharers
        BY <2>1, <3>2 DEF GrantsAlone
      <4>2. fq[d] \in Tracker /\ Granted(d, fq[d])
        BY <4>1 DEF AcquireTokens, Types
      <4> QED BY <1>2, <1>3, <4>1, <4>2
    <3> QED BY <3>1, <3>2
  <2>2. ASSUME gnt[d] # <<>>, Head(gnt[d]).gtype # "voluntaryAck", mshr[d].blk = b PROVE FALSE
    <3>1. gnt[d] \in Seq(GrantMsg)
      BY DEF Types
    <3>2. PICK g \in GrantMsg : g = Head(gnt[d])
      BY <2>2, <3>1, TailFacts
    <3>3. g.trk \in Tracker
      BY <2>2, <3>2 DEF GrantMsg
    <3>4. Granted(d, g.trk) /\ trk[g.trk].blk = b
      BY <2>2, <3>2 DEF AcquireTokens
    <3>5. d \in trk[g.trk].coh.sharers
      BY <2>2, <3>2 DEF GrantsAlone
    <3> QED BY <1>2, <1>3, <3>3, <3>4, <3>5
  <2> QED BY <2>1, <2>2
<1>4. CASE c \in Client /\ Owns(c, b)
  <2>0. c \in Client /\ Owns(c, b)
    BY <1>4
  <2>1. Entitled(c, b)
    BY <2>0, OwnerEntitled
  <2>2. \A i \in DOMAIN rel : ~ rel[i].voluntary /\ rel[i].data # NoValue /\ rel[i].ptype # "probeCopy"
          => rel[i].blk # b
    BY <2>0 DEF AnswerCurrent, AllShared
  <2>3. rt.state # "s_idle" => rt.rel.blk # b
    BY <2>0, <2>1 DEF RtCurrent
  <2>4. wb.state # "s_idle" /\ (wb.buf # NoValue \/ wb.state = "s_wb_resp") => wb.blk # b
    BY <2>0, <2>1 DEF WbCurrent, Listed, Lists
  <2> QED BY <1>1, <1>3, <2>2, <2>3, <2>4
<1>5. ASSUME NEW t \in Tracker, trk[t].state = "s_busy", trk[t].blk = b, trk[t].coh.sharers \subseteq {c}
      PROVE  /\ \A i \in DOMAIN rel : ~ rel[i].voluntary => rel[i].blk # b
             /\ rt.state # "s_idle" => rt.rel.blk # b
             /\ wb.state # "s_idle" => wb.blk # b
  BY <1>5, BlockBusy
<1> QED BY <1>1, <1>3, <1>4, <1>5

\* A client gets a copy of a block, or writes the one it has: what the other blocks and the
\* L2 keep.
LEMMA CopyGained ==
  ASSUME IInv, DInv, NEW c \in Client, NEW b \in Block,
         UNCHANGED <<rel, meta, data, trk, rt, wb, mem>>,
         \A x \in Block : x # b => latest'[x] = latest[x],
         \A d \in Client, x \in Block : Entitled(d, x)' => Entitled(d, x) \/ x = b,
         \A d \in Client, x \in Block : Owns(d, x)' => Owns(d, x) \/ x = b,
         \A d \in Client, x \in Block : DirtyCopy(d, x) => DirtyCopy(d, x)',
         latest'[b] = latest[b] \/
           (DirtyCopy(c, b)' /\ ~ Absent(b) /\ \A i \in DOMAIN rel : rel[i].voluntary => rel[i].blk # b),
         \A i \in DOMAIN rel : ~ rel[i].voluntary /\ rel[i].data # NoValue /\ rel[i].ptype # "probeCopy"
           => rel[i].blk # b,
         rt.state # "s_idle" => rt.rel.blk # b,
         wb.state # "s_idle" /\ (wb.buf # NoValue \/ wb.state = "s_wb_resp") => wb.blk # b
  PROVE  L1Current' /\ RefillCurrent' => DInv'
<1> USE DEF IInv, DInv
<1>1. WritebackCurrent'
  <2>1. \A i \in DOMAIN rel : rel[i].blk \in Block
    BY TypeFacts
  <2> QED BY <2>1 DEF WritebackCurrent
<1>2. AnswerCurrent'
  <2> SUFFICES ASSUME NEW i \in DOMAIN rel, ~ rel[i].voluntary, rel[i].data # NoValue
               PROVE  AnswerCurrent!(i)!2'
    BY DEF AnswerCurrent
  <2>1. PICK d \in Client, x \in Block : d = rel[i].client /\ x = rel[i].blk
    BY TypeFacts
  <2>2. \A j : VolMsg(d, j)' <=> VolMsg(d, j)
    BY DEF VolMsg
  <2>3. CASE x = b
    BY <2>1, <2>2, <2>3 DEF AnswerCurrent
  <2>4. CASE x # b
    <3>1. AllShared(x) => AllShared(x)'
      BY <2>4 DEF AllShared
    <3> QED BY <2>1, <2>2, <2>4, <3>1 DEF AnswerCurrent
  <2> QED BY <2>3, <2>4
<1>3. RtCurrent'
  <2>1. rt.state # "s_idle" => rt.rel.blk \in Block
    BY DEF RtShape, ReleaseMsg
  <2> QED BY <2>1 DEF RtCurrent
<1>4. WbCurrent'
  <2>1. wb.state # "s_idle" => wb.blk \in Block
    BY DEF WbShape
  <2> QED BY <2>1 DEF WbCurrent
<1>5. DirtyBits'
  BY DataFrames
<1>6. \A x \in Block : Newer(x) => Newer(x)'
  BY NewerKept
<1>7. /\ \A u \in Tracker : \A x : Serving(u, x)' <=> Serving(u, x)
      /\ \A n \in Line : Taken(n)' <=> Taken(n)
  BY DEF Serving, Taken
<1>8. ASSUME NEW x \in Block, latest'[x] = latest[x] PROVE InPlace(x)'
  BY <1>6, <1>7, <1>8, InPlaceKept
<1>9. ASSUME latest'[b] # latest[b] PROVE InPlace(b)'
  <2>1. Newer(b)'
    BY <1>9 DEF Newer
  <2>2. ~ Absent(b)'
    BY <1>7, <1>9 DEF Absent, Unserved
  <2> QED BY <2>1, <2>2 DEF InPlace, LineOK, MemOK
<1>10. \A x \in Block : InPlace(x)'
  BY <1>8, <1>9
<1> QED BY <1>1, <1>2, <1>3, <1>4, <1>5, <1>10

\* A store to a dirty copy.
LEMMA StoreHitData ==
  ASSUME IInv, DInv, NEW c \in Client, NEW w \in L1Way, NEW v \in Value, StoreHit(c, w, v)
  PROVE  DInv'
<1> USE DEF IInv, DInv
<1>1. /\ UNCHANGED <<mshr, rel, gnt, meta, data, trk, rt, wb, mem>>
      /\ mshr[c].state = "s_invalid" /\ l1[c][w].st = "M"
      /\ l1' = [l1 EXCEPT ![c][w].data = v]
      /\ latest' = [latest EXCEPT ![l1[c][w].tag] = v]
  BY DEF StoreHit, l2vars
<1>2. l1 \in [Client -> [L1Way -> L1Rec]] /\ latest \in [Block -> Value]
  BY DEF Types
<1>b. PICK b \in Block : b = l1[c][w].tag
  BY <1>1 DEF L1Shape
<1>3. latest'[b] = v /\ \A x \in Block : x # b => latest'[x] = latest[x]
  BY <1>1, <1>2, <1>b
<1>4. /\ \A d \in Client, x \in L1Way : l1'[d][x].tag = l1[d][x].tag /\ l1'[d][x].st = l1[d][x].st
      /\ \A d \in Client, x \in L1Way : ~ (d = c /\ x = w) => l1'[d][x] = l1[d][x]
      /\ l1'[c][w].data = v
  <2>1. PICK e \in L1Rec : e = l1[c][w]
    BY <1>2
  <2>2. /\ [e EXCEPT !.data = v] \in L1Rec /\ [e EXCEPT !.data = v].data = v
        /\ [e EXCEPT !.data = v].tag = e.tag /\ [e EXCEPT !.data = v].st = e.st
    BY DEF L1Rec
  <2>3. PICK f \in L1Rec : f = [e EXCEPT !.data = v] /\ f.data = v /\ f.tag = e.tag /\ f.st = e.st
    BY <2>2
  <2>4. l1' = [l1 EXCEPT ![c][w] = f]
    BY <1>1, <1>2, <2>1, <2>3
  <2>5. /\ l1'[c][w] = f
        /\ \A x \in L1Way : x # w => l1'[c][x] = l1[c][x]
        /\ \A d \in Client : d # c => l1'[d] = l1[d]
    BY <1>2, <2>4, L1Update
  <2>6. l1'[c][w].tag = l1[c][w].tag /\ l1'[c][w].st = l1[c][w].st /\ l1'[c][w].data = v
    BY <2>1, <2>3, <2>5
  <2> QED BY <2>5, <2>6
<1>5. \A d \in Client, x \in L1Way : Live(d, x)' <=> Live(d, x)
  BY <1>1, <1>4 DEF Live
<1>6. Live(c, w)
  BY <1>1 DEF Live
<1>7. Owns(c, b) /\ Entitled(c, b) /\ DirtyCopy(c, b)
  BY <1>1, <1>6, <1>b DEF Owns, Entitled, Holds, DirtyCopy
<1>8. /\ \A d \in Client, x \in Block : Entitled(d, x)' => Entitled(d, x)
      /\ \A d \in Client, x \in Block : Owns(d, x)' => Owns(d, x)
  <2>1. rel' = rel
    BY <1>1
  <2> QED BY <1>4, <1>5, <2>1, LiveFrames DEF NoNewCopy
<1>9. \A d \in Client, x \in Block : DirtyCopy(d, x) => DirtyCopy(d, x)'
  BY <1>4, <1>5 DEF DirtyCopy
<1>10. \A i \in DOMAIN rel : rel[i].voluntary => rel[i].blk # b
  <2> SUFFICES ASSUME NEW i \in DOMAIN rel, rel[i].voluntary, rel[i].blk = b PROVE FALSE
    OBVIOUS
  <2>1. PICK d \in Client : d = rel[i].client
    BY TypeFacts
  <2>2. VolMsg(d, i)
    BY <2>1 DEF VolMsg
  <2>3. Entitled(d, b)
    BY <2>2 DEF Entitled
  <2>4. d = c
    BY <1>7, <2>3, SoleOwner
  <2> QED BY <1>1, <2>2, <2>4 DEF WritebackTokens
<1>11. ~ Absent(b)
  BY <1>7, CopyPlaced
<1>12. /\ \A d \in Client : Entitled(d, b) => d = c
       /\ \A d \in Client : d # c =>
            /\ mshr[d].state = "s_meta_write_req" => mshr[d].blk # b
            /\ gnt[d] # <<>> /\ Head(gnt[d]).gtype # "voluntaryAck" => mshr[d].blk # b
       /\ \A i \in DOMAIN rel : ~ rel[i].voluntary /\ rel[i].data # NoValue /\ rel[i].ptype # "probeCopy"
            => rel[i].blk # b
       /\ rt.state # "s_idle" => rt.rel.blk # b
       /\ wb.state # "s_idle" /\ (wb.buf # NoValue \/ wb.state = "s_wb_resp") => wb.blk # b
  BY <1>7, WriterAlone
<1>13. L1Current'
  <2> SUFFICES ASSUME NEW d \in Client, NEW x \in L1Way, Live(d, x)
               PROVE  l1'[d][x].data = latest'[l1'[d][x].tag]
    BY <1>5 DEF L1Current
  <2>1. CASE d = c /\ x = w
    BY <1>3, <1>4, <1>b, <2>1
  <2>2. CASE ~ (d = c /\ x = w)
    <3>1. PICK y \in Block : y = l1[d][x].tag
      BY DEF Live, L1Shape
    <3>2. y # b
      <4>1. ASSUME y = b PROVE d = c
        BY <1>12, <3>1, <4>1 DEF Entitled, Holds
      <4>2. ASSUME y = b, d = c PROVE x = w
        <5>1. l1[c][x].st # "I" /\ l1[c][x].tag = l1[c][w].tag /\ l1[c][w].st # "I"
          BY <1>1, <1>b, <3>1, <4>2 DEF Live
        <5> QED BY <5>1 DEF L1Shape
      <4> QED BY <2>2, <4>1, <4>2
    <3> QED BY <1>3, <1>4, <2>2, <3>1, <3>2 DEF L1Current
  <2> QED BY <2>1, <2>2
<1>14. RefillCurrent'
  <2> SUFFICES ASSUME NEW d \in Client PROVE RefillCurrent!(d)'
    BY DEF RefillCurrent
  <2>1. CASE d = c
    BY <1>1, <2>1 DEF AcquireTokens
  <2>2. CASE d # c
    <3>1. PICK y \in L1Way : y = mshr[d].way
      BY TypeFacts
    <3>2. l1'[d][y] = l1[d][y] /\ mshr' = mshr /\ gnt' = gnt
      BY <1>1, <1>4, <2>2
    <3>3. mshr[d].state \in {"s_meta_write_req", "s_refill_resp"} => mshr[d].blk \in Block
      BY DEF L1Shape
    <3>4. gnt[d] # <<>> /\ Head(gnt[d]).gtype # "voluntaryAck" => mshr[d].state = "s_refill_resp"
      BY DEF AcquireTokens
    <3>5. mshr[d].state = "s_meta_write_req" \/ (gnt[d] # <<>> /\ Head(gnt[d]).gtype # "voluntaryAck")
            => latest'[mshr[d].blk] = latest[mshr[d].blk]
      BY <1>3, <1>12, <2>2, <3>3, <3>4
    <3> QED BY <3>1, <3>2, <3>5 DEF RefillCurrent
  <2> QED BY <2>1, <2>2
<1> QED BY <1>1, <1>3, <1>7, <1>8, <1>9, <1>10, <1>11, <1>12, <1>13, <1>14, CopyGained

\* The metadata are written and the waiting accesses replayed: the copy has the value of the
\* block, or the one that is stored.
LEMMA ReplayData ==
  ASSUME IInv, DInv, NEW c \in Client, NEW v \in Value, Replay(c, v)
  PROVE  DInv'
<1> USE DEF IInv, DInv
<1>1. /\ UNCHANGED <<rel, gnt, meta, data, trk, rt, wb, mem>>
      /\ mshr[c].state = "s_meta_write_req" /\ mshr' = [mshr EXCEPT ![c] = NoMshr]
      /\ l1' = [l1 EXCEPT ![c][mshr[c].way] =
                 [tag |-> mshr[c].blk, st |-> mshr[c].newst,
                  data |-> IF mshr[c].cmd = "store" THEN v ELSE @.data]]
      /\ latest' = IF mshr[c].cmd = "store" THEN [latest EXCEPT ![mshr[c].blk] = v] ELSE latest
  BY DEF Replay, l2vars
<1>2. /\ mshr \in [Client -> MshrRec] /\ l1 \in [Client -> [L1Way -> L1Rec]]
      /\ latest \in [Block -> Value]
  BY DEF Types
<1>3. PICK w \in L1Way : w = mshr[c].way
  BY TypeFacts
<1>b. PICK b \in Block : b = mshr[c].blk
  BY <1>1 DEF L1Shape
<1>s. PICK s \in ClientState : s = mshr[c].newst
  BY <1>2 DEF MshrRec
<1>4. PICK a \in Value \cup {NoValue} : /\ a = (IF mshr[c].cmd = "store" THEN v ELSE l1[c][w].data)
                                        /\ mshr[c].cmd # "store" => a = l1[c][w].data
                                        /\ mshr[c].cmd = "store" => a = v
  <2>1. l1[c][w].data \in Value \cup {NoValue}
    BY <1>2 DEF L1Rec
  <2> QED BY <2>1
<1>5. PICK e \in L1Rec : e = [tag |-> b, st |-> s, data |-> a] /\ e.tag = b /\ e.st = s /\ e.data = a
  <2>1. [tag |-> b, st |-> s, data |-> a] \in L1Rec
    BY DEF L1Rec
  <2> QED BY <2>1
<1>6. l1' = [l1 EXCEPT ![c][w] = e]
  BY <1>1, <1>2, <1>3, <1>4, <1>5, <1>b, <1>s
<1>7. /\ l1'[c][w] = e
      /\ \A x \in L1Way : x # w => l1'[c][x] = l1[c][x]
      /\ \A d \in Client : d # c => l1'[d] = l1[d]
  BY <1>2, <1>6, L1Update
<1>8. /\ l1'[c][w].tag = b /\ l1'[c][w].st = s /\ l1'[c][w].data = a
      /\ \A d \in Client, x \in L1Way : ~ (d = c /\ x = w) => l1'[d][x] = l1[d][x]
  BY <1>5, <1>7
<1>9. mshr'[c].state = "s_invalid" /\ \A d \in Client : d # c => mshr'[d] = mshr[d]
  BY <1>1, <1>2 DEF NoMshr
<1>10. /\ l1[c][w].data = latest[b] /\ l1[c][w].st # "M"
       /\ mshr[c].cmd = "store" => s = "M"
  BY <1>1, <1>3, <1>b, <1>s DEF RefillCurrent
<1>11. /\ latest'[b] = a
       /\ \A x \in Block : x # b => latest'[x] = latest[x]
       /\ mshr[c].cmd # "store" => latest' = latest
  BY <1>1, <1>2, <1>4, <1>10, <1>b
<1>12. /\ \A d \in Client, x \in L1Way : ~ (d = c /\ x = w) => (Live(d, x)' <=> Live(d, x))
       /\ \A x \in L1Way : Live(c, x) <=> l1[c][x].st # "I"
       /\ \A x \in L1Way : Live(c, x)' <=> l1'[c][x].st # "I"
  BY <1>1, <1>8, <1>9 DEF Live
<1>13. \A x \in L1Way : l1[c][x].tag = b /\ l1[c][x].st # "I" => x = w
  BY <1>1, <1>3, <1>b DEF L1Shape
<1>14. \A i \in DOMAIN rel : \A d : VolMsg(d, i)' <=> VolMsg(d, i)
  BY <1>1 DEF VolMsg
<1>15. \A d \in Client, x \in Block : Entitled(d, x)' => Entitled(d, x) \/ x = b
  BY <1>1, <1>8, <1>12, <1>14 DEF Entitled, Holds
<1>16. \A d \in Client, x \in Block : Owns(d, x)' => Owns(d, x) \/ x = b
  BY <1>1, <1>8, <1>12, <1>14 DEF Owns
<1>17. \A d \in Client, x \in Block : DirtyCopy(d, x) => DirtyCopy(d, x)'
  BY <1>8, <1>10, <1>12 DEF DirtyCopy
<1>18. /\ \A i \in DOMAIN rel : ~ rel[i].voluntary /\ rel[i].data # NoValue /\ rel[i].ptype # "probeCopy"
            => rel[i].blk # b
       /\ rt.state # "s_idle" => rt.rel.blk # b
       /\ wb.state # "s_idle" /\ (wb.buf # NoValue \/ wb.state = "s_wb_resp") => wb.blk # b
       /\ s = "M" =>
            /\ ~ Absent(b)
            /\ \A d \in Client : Entitled(d, b) => d = c
            /\ \A d \in Client : d # c =>
                 /\ mshr[d].state = "s_meta_write_req" => mshr[d].blk # b
                 /\ gnt[d] # <<>> /\ Head(gnt[d]).gtype # "voluntaryAck" => mshr[d].blk # b
  <2>1. CASE l1[c][w].st = "E" /\ s = "M"
    <3>1. l1[c][w].tag = b
      BY <1>1, <1>3, <1>b, <2>1 DEF L1Shape
    <3>2. Owns(c, b) /\ Entitled(c, b)
      BY <1>12, <2>1, <3>1 DEF Owns, Entitled, Holds
    <3>3. ~ Absent(b)
      BY <3>2, CopyPlaced
    <3> QED BY <3>2, <3>3, WriterAlone
  <2>2. CASE ~ (l1[c][w].st = "E" /\ s = "M")
    <3>1. PICK t \in Tracker : t = fq[c]
      <4>1. fq[c] # NoTracker
        BY <1>1, <1>3, <1>s, <2>2 DEF GrantsAlone
      <4> QED BY <4>1 DEF Types
    <3>2. trk[t].blk = b /\ (s # "S" => trk[t].coh.sharers \subseteq {c}) /\ t # NoTracker
      BY <1>1, <1>3, <1>b, <1>s, <2>2, <3>1 DEF GrantsAlone
    <3>3. trk[t].state = "s_busy"
      BY <3>1, <3>2 DEF AcquireTokens, Granted
    <3>4. ~ Absent(b)
      BY <3>2, <3>3 DEF Absent, Unserved, Serving
    <3>5. s = "M" =>
            /\ \A d \in Client : Entitled(d, b) => d = c
            /\ \A d \in Client : d # c =>
                 /\ mshr[d].state = "s_meta_write_req" => mshr[d].blk # b
                 /\ gnt[d] # <<>> /\ Head(gnt[d]).gtype # "voluntaryAck" => mshr[d].blk # b
      BY <3>2, <3>3, WriterAlone
    <3>6. /\ \A i \in DOMAIN rel : ~ rel[i].voluntary => rel[i].blk # b
          /\ rt.state # "s_idle" => rt.rel.blk # b
          /\ wb.state # "s_idle" => wb.blk # b
      BY <3>2, <3>3, BlockBusy
    <3> QED BY <3>4, <3>5, <3>6
  <2> QED BY <2>1, <2>2
<1>19. s = "M" => \A i \in DOMAIN rel : rel[i].voluntary => rel[i].blk # b
  <2> SUFFICES ASSUME s = "M", NEW i \in DOMAIN rel, rel[i].voluntary, rel[i].blk = b PROVE FALSE
    OBVIOUS
  <2>1. PICK d \in Client : d = rel[i].client
    BY TypeFacts
  <2>2. VolMsg(d, i)
    BY <2>1 DEF VolMsg
  <2>3. Entitled(d, b)
    BY <2>2 DEF Entitled
  <2>4. d = c
    BY <1>18, <2>3
  <2> QED BY <1>1, <2>2, <2>4 DEF WritebackTokens
<1>20. s = "M" => DirtyCopy(c, b)'
  BY <1>8, <1>12 DEF DirtyCopy
<1>21. latest'[b] = latest[b] \/ s = "M"
  BY <1>10, <1>11
<1>22. L1Current'
  <2> SUFFICES ASSUME NEW d \in Client, NEW x \in L1Way, Live(d, x)'
               PROVE  l1'[d][x].data = latest'[l1'[d][x].tag]
    BY DEF L1Current
  <2>1. CASE d = c /\ x = w
    BY <1>8, <1>11, <2>1
  <2>2. CASE ~ (d = c /\ x = w)
    <3>1. l1'[d][x] = l1[d][x] /\ Live(d, x)
      BY <1>8, <1>12, <2>2
    <3>2. PICK y \in Block : y = l1[d][x].tag
      BY <3>1 DEF Live, L1Shape
    <3>3. CASE y # b \/ latest'[b] = latest[b]
      BY <1>11, <3>1, <3>2, <3>3 DEF L1Current
    <3>4. CASE y = b /\ latest'[b] # latest[b]
      <4>1. d = c
        BY <1>18, <1>21, <3>1, <3>2, <3>4 DEF Entitled, Holds
      <4> QED BY <1>12, <1>13, <2>2, <3>1, <3>2, <3>4, <4>1
    <3> QED BY <3>3, <3>4
  <2> QED BY <2>1, <2>2
<1>23. RefillCurrent'
  <2> SUFFICES ASSUME NEW d \in Client PROVE RefillCurrent!(d)'
    BY DEF RefillCurrent
  <2>1. CASE d = c
    BY <1>1, <1>9, <2>1 DEF AcquireTokens
  <2>2. CASE d # c
    <3>2. l1'[d] = l1[d] /\ mshr'[d] = mshr[d] /\ gnt' = gnt
      BY <1>1, <1>7, <1>9, <2>2
    <3>3. mshr[d].state \in {"s_meta_write_req", "s_refill_resp"} => mshr[d].blk \in Block
      BY DEF L1Shape
    <3>4. gnt[d] # <<>> /\ Head(gnt[d]).gtype # "voluntaryAck" => mshr[d].state = "s_refill_resp"
      BY DEF AcquireTokens
    <3>5. mshr[d].state = "s_meta_write_req" \/ (gnt[d] # <<>> /\ Head(gnt[d]).gtype # "voluntaryAck")
            => latest'[mshr[d].blk] = latest[mshr[d].blk]
      BY <1>11, <1>18, <1>21, <2>2, <3>3, <3>4
    <3> QED BY <3>2, <3>5 DEF RefillCurrent
  <2> QED BY <2>1, <2>2
<1>24. latest'[b] = latest[b] \/
         (DirtyCopy(c, b)' /\ ~ Absent(b) /\ \A i \in DOMAIN rel : rel[i].voluntary => rel[i].blk # b)
  BY <1>18, <1>19, <1>20, <1>21
<1> QED BY <1>1, <1>11, <1>15, <1>16, <1>17, <1>18, <1>22, <1>23, <1>24, CopyGained

-----------------------------------------------------------------------------
(***************************************************************************)
(* Steps of the L2 that move no data.                                      *)
(***************************************************************************)

\* What is above the L2 while it leaves the caches and their writes alone.
LEMMA AboveFrame ==
  ASSUME IInv, DInv, UNCHANGED <<l1, mshr, rel, latest>>
  PROVE  /\ L1Current' /\ WritebackCurrent' /\ AnswerCurrent'
         /\ UNCHANGED gnt => RefillCurrent'
         /\ \A d \in Client, b \in Block : Entitled(d, b)' <=> Entitled(d, b)
         /\ \A d \in Client, b \in Block : Owns(d, b)' <=> Owns(d, b)
         /\ \A d \in Client, b \in Block : DirtyCopy(d, b)' <=> DirtyCopy(d, b)
<1> USE DEF IInv, DInv
<1>1. /\ \A d \in Client, b \in Block : Entitled(d, b)' <=> Entitled(d, b)
      /\ \A d \in Client, b \in Block : Owns(d, b)' <=> Owns(d, b)
  BY SameCopies
<1>2. \A d \in Client, b \in Block : DirtyCopy(d, b)' <=> DirtyCopy(d, b)
  BY SameDirty
<1>3. AnswerCurrent'
  BY <1>1, <1>2, TakenFrame
<1> QED BY <1>1, <1>2, <1>3, DataFrames

\* An acknowledgement of a write-back is no refill.
LEMMA AckData ==
  ASSUME IInv, RefillCurrent, UNCHANGED <<l1, mshr, latest>>, NEW c \in Client, gnt[c] = <<>>,
         mshr[c].state = "s_wb_resp",
         gnt' = [gnt EXCEPT ![c] = Append(@, [gtype |-> "voluntaryAck"])]
  PROVE  RefillCurrent'
<1> USE DEF IInv
<1>1. gnt \in [Client -> Seq(GrantMsg)]
  BY DEF Types
<1>2. PICK g \in GrantMsg : g = [gtype |-> "voluntaryAck"] /\ g.gtype = "voluntaryAck"
  <2>1. [gtype |-> "voluntaryAck"] \in GrantMsg
    BY DEF GrantMsg
  <2> QED BY <2>1
<1>3. gnt'[c] = Append(<<>>, g) /\ \A d \in Client : d # c => gnt'[d] = gnt[d]
  BY <1>1, <1>2
<1>4. Head(gnt'[c]) = g
  BY <1>3
<1> QED BY <1>2, <1>3, <1>4 DEF RefillCurrent

\* Trackers that do not move between the groups of states that matter, and units that keep
\* what they hold.
LEMMA QuietStep ==
  ASSUME IInv, DInv, UNCHANGED <<l1, mshr, rel, meta, data, mem, latest>>,
         \A u \in Tracker :
           \/ /\ trk'[u].state = trk[u].state /\ trk'[u].blk = trk[u].blk /\ trk'[u].kind = trk[u].kind
              /\ trk'[u].line = trk[u].line /\ trk'[u].coh = trk[u].coh /\ trk'[u].old = trk[u].old
           \/ trk[u].state \in {"s_idle", "s_meta_read"} /\ trk'[u].state \in {"s_idle", "s_meta_read"},
         \/ rt' = rt
         \/ /\ rt.state = "s_meta_read" /\ rt'.state = "s_busy" /\ rt'.rel = rt.rel,
         /\ wb'.state = wb.state /\ wb'.blk = wb.blk /\ wb'.coh = wb.coh /\ wb'.buf = wb.buf
  PROVE  RefillCurrent' => DInv'
<1> USE DEF IInv, DInv
<1>1. /\ L1Current' /\ WritebackCurrent' /\ AnswerCurrent'
      /\ \A d \in Client, b \in Block : Entitled(d, b)' <=> Entitled(d, b)
      /\ \A d \in Client, b \in Block : Owns(d, b)' <=> Owns(d, b)
      /\ \A d \in Client, b \in Block : DirtyCopy(d, b)' <=> DirtyCopy(d, b)
  BY AboveFrame
<1>2. RtCurrent'
  BY <1>1, TakenFrame
<1>3. WbCurrent'
  <2>1. wb.state # "s_idle" => wb.blk \in Block
    BY DEF WbShape
  <2> QED BY <1>1, <2>1 DEF WbCurrent
<1>4. DirtyBits'
  BY DEF DirtyBits, Serving
<1>5. /\ \A u \in Tracker : \A x : Serving(u, x)' <=> Serving(u, x)
      /\ \A n \in Line : Taken(n)' <=> Taken(n)
      /\ \A u \in Tracker : \A x : Serving(u, x) => trk'[u].line = trk[u].line /\ trk'[u].coh = trk[u].coh
  BY DEF Serving, Taken
<1>6. \A b \in Block : Newer(b) => Newer(b)'
  BY <1>1, NewerKept
<1>7. \A b \in Block : InPlace(b)'
  BY <1>5, <1>6, InPlaceKept
<1> QED BY <1>1, <1>2, <1>3, <1>4, <1>7

\* The steps themselves.
LEMMA QuietData ==
  ASSUME IInv, DInv,
         \/ \E c \in Client : SendFinish(c) \/ WbSendProbe(c)
         \/ \E u \in Uncached : \E b \in Uses[u], kind \in {"get", "put"} : UncachedAcquire(u, b, kind)
         \/ \E t \in Tracker : \/ AcceptAcquire(t) \/ SendVoluntaryGrant(t)
                               \/ \E c \in Client : SendProbe(t, c)
         \/ RtMetaResp \/ WbVoluntaryGrant \/ UNCHANGED vars
  PROVE  DInv'
<1> USE DEF IInv, DInv
<1>0. trk \in [Tracker -> TrackerRec(Int)] /\ wb \in WbRec(Int) /\ rt \in RtRec
  BY DEF Types
<1>1. ASSUME NEW c \in Client, SendFinish(c) PROVE DInv'
  <2>1. UNCHANGED <<l1, mshr, gnt, rel, meta, data, rt, wb, mem, latest>> /\ trk' = [trk EXCEPT ![fq[c]].gnt = "finished"]
    BY <1>1 DEF SendFinish
  <2>2. \A u \in Tracker :
          /\ trk'[u].state = trk[u].state /\ trk'[u].blk = trk[u].blk /\ trk'[u].kind = trk[u].kind
          /\ trk'[u].line = trk[u].line /\ trk'[u].coh = trk[u].coh /\ trk'[u].old = trk[u].old
    BY <1>0, <2>1 DEF TrackerRec
  <2>3. RefillCurrent'
    BY <2>1, AboveFrame
  <2> QED BY <2>1, <2>2, <2>3, QuietStep
<1>2. ASSUME NEW c \in Client, WbSendProbe(c) PROVE DInv'
  <2>1. /\ UNCHANGED <<l1, mshr, gnt, rel, meta, data, trk, rt, mem, latest>>
        /\ wb' = [wb EXCEPT !.iprbs = @ \ {c}, !.irels = @ + 1]
    BY <1>2 DEF WbSendProbe, l1vars
  <2>2. wb'.state = wb.state /\ wb'.blk = wb.blk /\ wb'.coh = wb.coh /\ wb'.buf = wb.buf
    BY <1>0, <2>1 DEF WbRec
  <2>3. RefillCurrent'
    BY <2>1, AboveFrame
  <2> QED BY <2>1, <2>2, <2>3, QuietStep
<1>3. ASSUME NEW u \in Uncached, NEW b \in Uses[u], NEW kind \in {"get", "put"}, UncachedAcquire(u, b, kind)
      PROVE  DInv'
  <2>1. UNCHANGED <<l1, mshr, gnt, rel, meta, data, trk, rt, wb, mem, latest>>
    BY <1>3 DEF UncachedAcquire, l1vars, l2vars
  <2>3. RefillCurrent'
    BY <2>1, AboveFrame
  <2> QED BY <2>1, <2>3, QuietStep
<1>4. ASSUME NEW t \in Tracker, AcceptAcquire(t) PROVE DInv'
  <2>1. /\ UNCHANGED <<l1, mshr, gnt, rel, meta, data, rt, wb, mem, latest>> /\ trk[t].state = "s_idle"
        /\ trk' = [trk EXCEPT ![t] = [NoTrk EXCEPT !.state = "s_meta_read", !.client = Head(acq).client,
                                         !.blk = Head(acq).blk, !.kind = Head(acq).kind]]
    BY <1>4 DEF AcceptAcquire, l1vars, Busy
  <2>2. trk'[t].state = "s_meta_read" /\ \A u \in Tracker : u # t => trk'[u] = trk[u]
    BY <1>0, <2>1 DEF NoTrk
  <2>3. RefillCurrent'
    BY <2>1, AboveFrame
  <2> QED BY <2>1, <2>2, <2>3, QuietStep
<1>5. ASSUME NEW t \in Tracker, SendVoluntaryGrant(t) PROVE DInv'
  <2>1. /\ UNCHANGED <<l1, mshr, rel, meta, data, rt, wb, mem, latest>>
        /\ trk' = [trk EXCEPT ![t].vol = NoClient] /\ trk[t].vol # NoClient
        /\ gnt' = [gnt EXCEPT ![trk[t].vol] = Append(@, [gtype |-> "voluntaryAck"])]
    BY <1>5 DEF SendVoluntaryGrant, l1vars
  <2>2. \A u \in Tracker :
          /\ trk'[u].state = trk[u].state /\ trk'[u].blk = trk[u].blk /\ trk'[u].kind = trk[u].kind
          /\ trk'[u].line = trk[u].line /\ trk'[u].coh = trk[u].coh /\ trk'[u].old = trk[u].old
    BY <1>0, <2>1 DEF TrackerRec
  <2>3. PICK c \in Client : c = trk[t].vol
    BY <1>0, <2>1 DEF TrackerRec
  <2>4. mshr[c].state = "s_wb_resp" /\ gnt[c] = <<>>
    BY <2>3 DEF WritebackTokens
  <2>5. RefillCurrent'
    BY <2>1, <2>3, <2>4, AckData
  <2> QED BY <2>1, <2>2, <2>5, QuietStep
<1>6. ASSUME NEW t \in Tracker, NEW c \in Client, SendProbe(t, c) PROVE DInv'
  <2>1. /\ UNCHANGED <<l1, mshr, gnt, rel, meta, data, rt, wb, mem, latest>>
        /\ trk' = [trk EXCEPT ![t].iprbs = @ \ {c}, ![t].irels = @ + 1]
    BY <1>6 DEF SendProbe, l1vars
  <2>2. \A u \in Tracker :
          /\ trk'[u].state = trk[u].state /\ trk'[u].blk = trk[u].blk /\ trk'[u].kind = trk[u].kind
          /\ trk'[u].line = trk[u].line /\ trk'[u].coh = trk[u].coh /\ trk'[u].old = trk[u].old
    BY <1>0, <2>1 DEF TrackerRec
  <2>3. RefillCurrent'
    BY <2>1, AboveFrame
  <2> QED BY <2>1, <2>2, <2>3, QuietStep
<1>7. ASSUME RtMetaResp PROVE DInv'
  <2>1. /\ UNCHANGED <<l1, mshr, gnt, rel, meta, data, trk, wb, mem, latest>> /\ rt.state = "s_meta_read"
        /\ \E n \in Line : rt' = [rt EXCEPT !.state = "s_busy", !.line = n, !.old = meta[n].coh]
    BY <1>7 DEF RtMetaResp, l1vars, L2Match
  <2>2. rt'.state = "s_busy" /\ rt'.rel = rt.rel
    BY <1>0, <2>1 DEF RtRec
  <2>3. RefillCurrent'
    BY <2>1, AboveFrame
  <2> QED BY <2>1, <2>2, <2>3, QuietStep
<1>8. ASSUME WbVoluntaryGrant PROVE DInv'
  <2>1. /\ UNCHANGED <<l1, mshr, rel, meta, data, trk, rt, mem, latest>>
        /\ wb' = [wb EXCEPT !.vol = NoClient] /\ wb.vol # NoClient
        /\ gnt' = [gnt EXCEPT ![wb.vol] = Append(@, [gtype |-> "voluntaryAck"])]
    BY <1>8 DEF WbVoluntaryGrant, l1vars
  <2>2. wb'.state = wb.state /\ wb'.blk = wb.blk /\ wb'.coh = wb.coh /\ wb'.buf = wb.buf
    BY <1>0, <2>1 DEF WbRec
  <2>3. PICK c \in Client : c = wb.vol
    BY <1>0, <2>1 DEF WbRec
  <2>4. mshr[c].state = "s_wb_resp" /\ gnt[c] = <<>>
    BY <2>3 DEF WritebackTokens
  <2>5. RefillCurrent'
    BY <2>1, <2>3, <2>4, AckData
  <2> QED BY <2>1, <2>2, <2>5, QuietStep
<1>9. ASSUME UNCHANGED vars PROVE DInv'
  <2>1. UNCHANGED <<l1, mshr, gnt, rel, meta, data, trk, rt, wb, mem, latest>>
    BY <1>9 DEF vars
  <2>3. RefillCurrent'
    BY <2>1, AboveFrame
  <2> QED BY <2>1, <2>3, QuietStep
<1> QED BY <1>1, <1>2, <1>3, <1>4, <1>5, <1>6, <1>7, <1>8, <1>9

-----------------------------------------------------------------------------
(***************************************************************************)
(* Steps of the acquire trackers.                                          *)
(***************************************************************************)

\* What holds of every block but the one a tracker works on, while it may write the line that
\* it has chosen.
LEMMA OtherBlocks ==
  ASSUME IInv, DInv, NEW t \in Tracker, NEW l \in Line, NEW b \in Block, NEW x \in Block, x # b,
         \A u \in Tracker : u # t => trk'[u] = trk[u],
         Busy(t), trk[t].blk = b, trk'[t].state = "s_idle" \/ trk'[t].blk = b,
         SetOf[l] = SetOf[b],
         trk[t].state # "s_meta_read" => trk[t].line = l,
         trk'[t].state # "s_idle" => trk'[t].line = l,
         meta[l].tag = x => /\ trk[t].state \in {"s_outer_acquire", "s_busy", "s_meta_write"}
                            /\ trk'[t].state \in {"s_outer_acquire", "s_busy", "s_meta_write"},
         \A n \in Line : n # l => data'[n] = data[n],
         UNCHANGED <<meta, rt>>, mem'[x] = mem[x], latest'[x] = latest[x], Newer(x) => Newer(x)'
  PROVE  InPlace(x)'
<1> USE DEF IInv, DInv
<1>1. \A u \in Tracker : (Serving(u, x)' <=> Serving(u, x)) /\ (Serving(u, x) => u # t)
  BY DEF Serving
<1>2. ASSUME NEW u \in Tracker, Serving(u, x)
      PROVE  trk'[u] = trk[u] /\ data'[trk[u].line] = data[trk[u].line]
  <2>1. u # t /\ Busy(u) /\ trk[u].line \in Line /\ SetOf[trk[u].line] = SetOf[x]
    BY <1>1, <1>2, TypeFacts DEF Serving, Busy, TrackerShape
  <2>2. trk[u].line # l
    BY <1>2, <2>1 DEF SetsApart, Serving
  <2> QED BY <2>1, <2>2
<1>3. ASSUME NEW n \in Line, meta[n].tag = x
      PROVE  (Taken(n)' <=> Taken(n)) /\ (~ Taken(n) => data'[n] = data[n])
  <2>1. CASE n = l
    BY <1>3, <2>1 DEF Taken
  <2>2. CASE n # l
    BY <1>3, <2>2 DEF Taken
  <2> QED BY <2>1, <2>2
<1> QED BY <1>1, <1>2, <1>3, InPlaceKept

\* The line of a tracker is no other's.
LEMMA LineApart ==
  ASSUME IInv, NEW t \in Tracker, trk[t].state \notin {"s_idle", "s_meta_read"}
  PROVE  /\ \A u \in Tracker : /\ trk[u].state \notin {"s_idle", "s_meta_read"}
                               /\ trk[u].line = trk[t].line
                               => u = t
         /\ Taken(trk[t].line) => trk[t].state \in {"s_outer_acquire", "s_busy", "s_meta_write"}
<1> USE DEF IInv
<1>1. \A u \in Tracker : trk[u].state \notin {"s_idle", "s_meta_read"} /\ trk[u].line = trk[t].line => u = t
  BY OneUnit
<1> QED BY <1>1 DEF Taken

\* Probing is over.
LEMMA ProbesDoneData ==
  ASSUME IInv, DInv, NEW t \in Tracker, ProbesDone(t)
  PROVE  DInv'
<1> USE DEF IInv, DInv
<1>1. /\ UNCHANGED <<l1, mshr, rel, gnt, meta, data, rt, wb, mem, latest>>
      /\ trk[t].state = "s_inner_probe" /\ trk' = [trk EXCEPT ![t].state = "s_busy"]
  BY DEF ProbesDone, l1vars
<1>2. PICK b \in Block, l \in Line : b = trk[t].blk /\ l = trk[t].line
  BY <1>1, TypeFacts DEF TrackerShape, Busy
<1>3. /\ Busy(t) /\ SetOf[l] = SetOf[b] /\ meta[l].tag = b
  BY <1>1, <1>2 DEF TrackerShape, Busy
<1>4. /\ \A u \in Tracker : u # t => trk'[u] = trk[u]
      /\ \A u \in Tracker : /\ trk'[u].blk = trk[u].blk /\ trk'[u].line = trk[u].line /\ trk'[u].kind = trk[u].kind
                            /\ trk'[u].coh = trk[u].coh /\ trk'[u].old = trk[u].old
      /\ trk'[t].state = "s_busy"
  BY <1>1 DEF Types, TrackerRec
<1>5. /\ L1Current' /\ WritebackCurrent' /\ AnswerCurrent' /\ RefillCurrent'
      /\ \A d \in Client, x \in Block : Entitled(d, x)' <=> Entitled(d, x)
      /\ \A d \in Client, x \in Block : Owns(d, x)' <=> Owns(d, x)
      /\ \A d \in Client, x \in Block : DirtyCopy(d, x)' <=> DirtyCopy(d, x)
  BY <1>1, AboveFrame
<1>6. RtCurrent' /\ WbCurrent'
  BY <1>1, <1>5, TakenFrame
<1>7. DirtyBits'
  BY <1>1, <1>4 DEF DirtyBits, Serving
<1>8. \A x \in Block : Newer(x) => Newer(x)'
  BY <1>1, <1>5, NewerKept
<1>9. ASSUME NEW x \in Block, x # b PROVE InPlace(x)'
  BY <1>1, <1>2, <1>3, <1>4, <1>8, <1>9, OtherBlocks
<1>10. InPlace(b)'
  <2>1. \A u \in Tracker : Serving(u, b)' <=> Serving(u, b)
    BY <1>1, <1>2, <1>4 DEF Serving
  <2>2. ~ Unserved(b)
    BY <1>1, <1>2 DEF Unserved, Serving
  <2> QED BY <1>1, <1>4, <1>8, <2>1, <2>2, InPlaceKept
<1> QED BY <1>5, <1>6, <1>7, <1>9, <1>10

\* The transaction is over: its entry is the one in the metadata, or is going to be.
LEMMA DoneData ==
  ASSUME IInv, DInv, NEW t \in Tracker, Done(t)
  PROVE  DInv'
<1> USE DEF IInv, DInv
<1>1. /\ UNCHANGED <<l1, mshr, rel, gnt, meta, data, rt, wb, mem, latest>> /\ trk[t].state = "s_busy"
      /\ trk' = [trk EXCEPT ![t] = IF @.meta_write THEN [@ EXCEPT !.state = "s_meta_write"] ELSE NoTrk]
  BY DEF Done, l1vars
<1>2. PICK b \in Block, l \in Line : b = trk[t].blk /\ l = trk[t].line
  BY <1>1, TypeFacts DEF TrackerShape, Busy
<1>3. /\ Busy(t) /\ SetOf[l] = SetOf[b]
      /\ ~ trk[t].meta_write => meta[l].tag = b /\ meta[l].coh = trk[t].coh
  BY <1>1, <1>2 DEF TrackerShape, Busy
<1>4. /\ \A u \in Tracker : u # t => trk'[u] = trk[u]
      /\ \/ /\ trk[t].meta_write /\ trk'[t].state = "s_meta_write" /\ trk'[t].coh = trk[t].coh
            /\ trk'[t].blk = b /\ trk'[t].line = l /\ trk'[t].kind = trk[t].kind
         \/ ~ trk[t].meta_write /\ trk'[t].state = "s_idle"
  <2>1. trk \in [Tracker -> TrackerRec(Int)]
    BY DEF Types
  <2>2. CASE trk[t].meta_write
    <3>1. trk' = [trk EXCEPT ![t].state = "s_meta_write"]
      BY <1>1, <2>2
    <3> QED BY <1>2, <2>1, <2>2, <3>1 DEF TrackerRec
  <2>3. CASE ~ trk[t].meta_write
    BY <1>1, <2>1, <2>3 DEF NoTrk
  <2> QED BY <2>2, <2>3
<1>5. /\ L1Current' /\ WritebackCurrent' /\ AnswerCurrent' /\ RefillCurrent'
      /\ \A d \in Client, x \in Block : Entitled(d, x)' <=> Entitled(d, x)
      /\ \A d \in Client, x \in Block : Owns(d, x)' <=> Owns(d, x)
      /\ \A d \in Client, x \in Block : DirtyCopy(d, x)' <=> DirtyCopy(d, x)
  BY <1>1, AboveFrame
<1>6. RtCurrent' /\ WbCurrent'
  BY <1>1, <1>5, TakenFrame
<1>7. DirtyBits'
  <2>1. \A u \in Tracker : \/ trk'[u].state = "s_idle" \/ trk'[u] = trk[u]
                           \/ u = t /\ trk'[t].state = "s_meta_write" /\ trk'[t].coh = trk[t].coh /\ trk'[t].kind = trk[t].kind
    BY <1>4
  <2>2. isWrite(trk[t].kind) => trk[t].coh.dirty
    BY <1>1 DEF DirtyBits, Serving
  <2> QED BY <1>1, <2>1, <2>2 DEF DirtyBits, Serving
<1>8. \A x \in Block : Newer(x) => Newer(x)'
  BY <1>1, <1>5, NewerKept
<1>9. ASSUME NEW x \in Block, x # b PROVE InPlace(x)'
  BY <1>1, <1>2, <1>3, <1>4, <1>8, <1>9, OtherBlocks
<1>10. Serving(t, b)
  BY <1>1, <1>2 DEF Serving
<1>11. InPlace(b)'
  <2>1. CASE trk[t].meta_write
    <3>1. \A u \in Tracker : Serving(u, b)' <=> Serving(u, b)
      BY <1>1, <1>2, <1>4, <2>1 DEF Serving
    <3>2. ~ Unserved(b)
      BY <1>10 DEF Unserved
    <3>3. \A u \in Tracker : trk'[u].line = trk[u].line /\ trk'[u].coh = trk[u].coh
      BY <1>2, <1>4, <2>1
    <3> QED BY <1>1, <1>8, <3>1, <3>2, <3>3, InPlaceKept
  <2>2. CASE ~ trk[t].meta_write
    <3>1. meta[l].tag = b /\ meta[l].coh = trk[t].coh /\ trk'[t].state = "s_idle"
      BY <1>3, <1>4, <2>2
    <3>2. \A u \in Tracker : ~ Serving(u, b)'
      <4>1. \A u \in Tracker : Busy(u) /\ trk[u].blk = b => u = t
        BY <1>1, <1>2, BlockBusy
      <4> QED BY <1>4, <3>1, <4>1 DEF Serving, Busy
    <3>3. ~ Taken(l)'
      <4>1. \A u \in Tracker : trk[u].state \notin {"s_idle", "s_meta_read"} /\ trk[u].line = trk[t].line => u = t
        BY <1>1, LineApart
      <4> QED BY <1>2, <1>4, <3>1, <4>1 DEF Taken
    <3>4. \A n \in Line : meta[n].tag = b => n = l
      BY <3>1, L2CacheAssumption DEF MetaShape
    <3>5. LineOK(b, l) /\ (trk[t].coh.dirty \/ MemOK(b))
      BY <1>2, <1>10 DEF InPlace
    <3>6. LineOK(b, l)' /\ (meta[l].coh.dirty \/ MemOK(b)')
      BY <1>1, <1>8, <3>1, <3>5 DEF LineOK, MemOK
    <3>7. ~ Absent(b)'
      BY <1>1, <3>1, <3>3 DEF Absent
    <3> QED BY <1>1, <3>2, <3>4, <3>6, <3>7 DEF InPlace
  <2> QED BY <2>1, <2>2
<1> QED BY <1>5, <1>6, <1>7, <1>9, <1>11

\* The entry of the tracker replaces that of the line; a block that was there before has been
\* evicted.
LEMMA MetaWriteData ==
  ASSUME IInv, DInv, NEW t \in Tracker, MetaWrite(t)
  PROVE  DInv'
<1> USE DEF IInv, DInv
<1>1. /\ UNCHANGED <<l1, mshr, rel, gnt, data, rt, wb, mem, latest>> /\ trk[t].state = "s_meta_write"
      /\ trk' = [trk EXCEPT ![t] = NoTrk]
      /\ meta' = [meta EXCEPT ![trk[t].line] = [tag |-> trk[t].blk, coh |-> trk[t].coh]]
  BY DEF MetaWrite, l1vars
<1>2. PICK b \in Block, l \in Line : b = trk[t].blk /\ l = trk[t].line
  BY <1>1, TypeFacts DEF TrackerShape, Busy
<1>3. /\ Busy(t) /\ SetOf[l] = SetOf[b] /\ Serving(t, b) /\ Taken(l)
      /\ \A n \in Line : meta[n].tag = b => n = l
  <2>1. Busy(t) /\ SetOf[l] = SetOf[b] /\ Serving(t, b) /\ Taken(l)
    BY <1>1, <1>2 DEF TrackerShape, Busy, Serving, Taken
  <2>2. Resident(b) => meta[l].tag = b
    BY <1>1, <1>2 DEF TrackerShape
  <2>3. \A n \in Line : meta[n].tag = b => n = l
    BY <2>2, L2CacheAssumption DEF Resident, MetaShape
  <2> QED BY <2>1, <2>3
<1>4. /\ \A u \in Tracker : u # t => trk'[u] = trk[u]
      /\ trk'[t].state = "s_idle"
  BY <1>1 DEF Types, NoTrk
<1>5. /\ meta'[l].tag = b /\ meta'[l].coh = trk[t].coh
      /\ \A n \in Line : n # l => meta'[n] = meta[n]
  BY <1>1, <1>2 DEF Types
<1>6. /\ \A u \in Tracker : Busy(u) /\ SetOf[trk[u].blk] = SetOf[b] => u = t
      /\ \A u \in Tracker : trk[u].state \notin {"s_idle", "s_meta_read"} /\ trk[u].line = l => u = t
      /\ rt.state # "s_idle" => rt.rel.blk # b
  <2>1. \A u \in Tracker : trk[u].state \notin {"s_idle", "s_meta_read"} /\ trk[u].line = trk[t].line => u = t
    BY <1>1, LineApart
  <2>2. rt.state # "s_idle" => rt.rel.blk # b
    BY <1>1, <1>2, BlockBusy
  <2> QED BY <1>2, <1>3, <2>1, <2>2 DEF SetsApart
<1>7. /\ L1Current' /\ WritebackCurrent' /\ AnswerCurrent' /\ RefillCurrent'
      /\ \A d \in Client, x \in Block : Entitled(d, x)' <=> Entitled(d, x)
      /\ \A d \in Client, x \in Block : Owns(d, x)' <=> Owns(d, x)
      /\ \A d \in Client, x \in Block : DirtyCopy(d, x)' <=> DirtyCopy(d, x)
  BY <1>1, AboveFrame
<1>8. WbCurrent'
  BY <1>1, <1>7, TakenFrame
<1>9. RtCurrent'
  <2>1. rt.state # "s_idle" => rt.rel.blk \in Block
    BY DEF RtShape, ReleaseMsg
  <2> QED BY <1>1, <1>5, <1>6, <1>7, <2>1 DEF RtCurrent
<1>10. DirtyBits'
  <2> SUFFICES ASSUME NEW u \in Tracker PROVE DirtyBits!(u)'
    BY DEF DirtyBits
  <2>1. CASE u = t
    BY <1>4, <2>1 DEF Serving
  <2>2. CASE u # t
    <3>1. trk'[u] = trk[u] /\ (trk[u].state = "s_wb_req" => meta'[trk[u].line] = meta[trk[u].line])
      BY <1>4, <1>5, <1>6, <2>2, TypeFacts
    <3> QED BY <3>1 DEF DirtyBits, Serving
  <2> QED BY <2>1, <2>2
<1>11. \A x \in Block : Newer(x) => Newer(x)'
  BY <1>1, <1>7, NewerKept
<1>12. \A n \in Line : n # l => (Taken(n)' <=> Taken(n))
  BY <1>2, <1>4 DEF Taken
<1>13. ~ Taken(l)'
  BY <1>4, <1>6 DEF Taken
<1>14. ASSUME NEW x \in Block, x # b PROVE InPlace(x)'
  <2>1. \A u \in Tracker : (Serving(u, x)' <=> Serving(u, x)) /\ (Serving(u, x) => u # t)
    BY <1>2, <1>4, <1>14 DEF Serving
  <2>2. CASE meta[l].tag = x
    <3>1. SetOf[x] = SetOf[b]
      BY <1>3, <2>2, L2CacheAssumption DEF MetaShape
    <3>2. Unserved(x)
      BY <1>6, <2>1, <3>1 DEF Unserved, Serving, Busy
    <3>3. \A n \in Line : meta[n].tag = x => n = l
      BY <2>2, L2CacheAssumption DEF MetaShape
    <3>4. mem[x] = latest[x]
      BY <1>3, <3>2, <3>3 DEF Absent, InPlace
    <3>5. \A n \in Line : meta'[n].tag # x
      BY <1>5, <1>14, <3>3
    <3> QED BY <1>1, <2>1, <3>2, <3>4, <3>5 DEF InPlace, Unserved
  <2>3. CASE meta[l].tag # x
    <3>1. \A n \in Line : (meta'[n].tag = x <=> meta[n].tag = x) /\ (meta[n].tag = x => meta'[n] = meta[n])
      BY <1>5, <1>14, <2>3
    <3>2. \A n \in Line : meta[n].tag = x => (Taken(n)' <=> Taken(n))
      BY <1>12, <2>3
    <3>3. \A u \in Tracker : Serving(u, x) => trk'[u] = trk[u]
      BY <1>4, <2>1
    <3> QED BY <1>1, <1>11, <2>1, <3>1, <3>2, <3>3, InPlaceKept
  <2> QED BY <2>2, <2>3
<1>15. InPlace(b)'
  <2>1. \A u \in Tracker : ~ Serving(u, b)'
    BY <1>4, <1>6 DEF Serving, Busy
  <2>2. \A n \in Line : meta'[n].tag = b => n = l
    BY <1>3, <1>5
  <2>3. LineOK(b, l) /\ (trk[t].coh.dirty \/ MemOK(b))
    BY <1>2, <1>3 DEF InPlace
  <2>4. LineOK(b, l)' /\ (meta'[l].coh.dirty \/ MemOK(b)')
    BY <1>1, <1>5, <1>11, <2>3 DEF LineOK, MemOK
  <2>5. ~ Absent(b)'
    BY <1>5, <1>13 DEF Absent
  <2> QED BY <2>1, <2>2, <2>4, <2>5 DEF InPlace
<1> QED BY <1>7, <1>8, <1>9, <1>10, <1>14, <1>15

\* Hit or miss: the value of the block stays in the line that was found.
LEMMA MetaRespData ==
  ASSUME IInv, DInv, NEW t \in Tracker, MetaResp(t)
  PROVE  DInv'
<1> USE DEF IInv, DInv
<1>1. /\ UNCHANGED <<l1, mshr, rel, gnt, meta, data, rt, wb, mem, latest>>
      /\ trk[t].state = "s_meta_read"
  BY DEF MetaResp, l1vars
<1>2. PICK b \in Block : b = trk[t].blk
  BY <1>1 DEF TrackerShape, Busy
<1>3. PICK n \in Line, coh \in Coh, on_hit \in Coh : MetaRead(t, n, coh, on_hit)
  BY MetaRespFields
<1>4. /\ coh = meta[n].coh /\ SetOf[n] = SetOf[b]
      /\ on_hit.dirty <=> coh.dirty \/ isWrite(trk[t].kind)
      /\ \A u \in Tracker : u # t => trk'[u] = trk[u]
      /\ trk'[t].blk = b /\ trk'[t].kind = trk[t].kind /\ trk'[t].line = n
  BY <1>2, <1>3 DEF MetaRead
<1>5. \/ coh.valid /\ trk'[t].state = "s_wb_req" /\ trk'[t].old = coh
      \/ ~ coh.valid /\ trk'[t].state = "s_outer_acquire"
      \/ /\ n \in L2Match(b) /\ trk'[t].coh = on_hit /\ trk'[t].state \in {"s_inner_probe", "s_busy"}
  BY <1>2, <1>3 DEF MetaRead
<1>6. /\ L1Current' /\ WritebackCurrent' /\ AnswerCurrent' /\ RefillCurrent'
      /\ \A d \in Client, x \in Block : Entitled(d, x)' <=> Entitled(d, x)
      /\ \A d \in Client, x \in Block : Owns(d, x)' <=> Owns(d, x)
      /\ \A d \in Client, x \in Block : DirtyCopy(d, x)' <=> DirtyCopy(d, x)
  BY <1>1, AboveFrame
<1>7. RtCurrent' /\ WbCurrent'
  BY <1>1, <1>6, TakenFrame
<1>8. \A x \in Block : Newer(x) => Newer(x)'
  BY <1>1, <1>6, NewerKept
<1>9. DirtyBits'
  <2> SUFFICES ASSUME NEW u \in Tracker PROVE DirtyBits!(u)'
    BY DEF DirtyBits
  <2>1. CASE u # t
    BY <1>1, <1>4, <2>1 DEF DirtyBits, Serving
  <2>2. CASE u = t
    BY <1>1, <1>4, <1>5, <2>2 DEF Serving
  <2> QED BY <2>1, <2>2
<1>10. Busy(t) /\ \A x \in Block : \A u \in Tracker : Serving(u, x) => u # t
  BY <1>1 DEF Serving, Busy
<1>11. CASE trk'[t].state \in {"s_wb_req", "s_outer_acquire"}
  <2>1. \A x \in Block : \A u \in Tracker : Serving(u, x)' <=> Serving(u, x)
    BY <1>4, <1>10, <1>11 DEF Serving
  <2>2. \A m \in Line : meta[m].tag \in Block => (Taken(m)' <=> Taken(m))
    <3> SUFFICES ASSUME NEW m \in Line, meta[m].tag \in Block PROVE Taken(m)' <=> Taken(m)
      OBVIOUS
    <3>1. trk'[t].state = "s_outer_acquire" => m # n
      BY <1>4, <1>5, L2CacheAssumption DEF MetaShape
    <3> QED BY <1>1, <1>4, <1>11, <3>1 DEF Taken
  <2>3. \A x \in Block : InPlace(x)'
    BY <1>1, <1>4, <1>8, <1>10, <2>1, <2>2, InPlaceKept
  <2> QED BY <1>6, <1>7, <1>9, <2>3
<1>12. CASE trk'[t].state \in {"s_inner_probe", "s_busy"}
  <2>1. n \in L2Match(b) /\ trk'[t].coh = on_hit /\ meta[n].tag = b
    BY <1>5, <1>12 DEF L2Match
  <2>2. ASSUME NEW x \in Block, x # b PROVE InPlace(x)'
    BY <1>1, <1>2, <1>4, <1>8, <1>10, <1>12, <2>1, <2>2, OtherBlocks
  <2>3. /\ \A u \in Tracker : ~ Serving(u, b)
        /\ ~ Taken(n)
        /\ ~ (rt.state # "s_idle" /\ rt.rel.blk = b)
    <3>1. \A u \in Tracker : ~ Serving(u, b)
      BY <1>1, <1>2, InDirectory
    <3>2. ~ Taken(n)
      BY <1>1, <1>2, <1>10, <2>1, OneUnit DEF Taken
    <3>3. ~ (rt.state # "s_idle" /\ rt.rel.blk = b)
      BY <1>1, <1>2, <1>10 DEF RtShape
    <3> QED BY <3>1, <3>2, <3>3
  <2>4. LineOK(b, n) /\ (coh.dirty \/ MemOK(b))
    BY <1>4, <2>1, <2>3 DEF InPlace, Unserved
  <2>5. LineOK(b, n)' /\ (on_hit.dirty \/ MemOK(b)')
    BY <1>1, <1>4, <1>8, <2>4 DEF LineOK, MemOK
  <2>6. Serving(t, b)' /\ \A u \in Tracker : Serving(u, b)' => u = t
    BY <1>4, <1>12, <2>3 DEF Serving
  <2>7. InPlace(b)'
    BY <1>4, <2>1, <2>5, <2>6 DEF InPlace, Absent, Unserved
  <2> QED BY <1>6, <1>7, <1>9, <2>2, <2>7
<1> QED BY <1>5, <1>11, <1>12

\* Memory has the value of a block that is not in the L2.
LEMMA RefillData ==
  ASSUME IInv, DInv, NEW t \in Tracker, Refill(t)
  PROVE  DInv'
<1> USE DEF IInv, DInv
<1>1. /\ UNCHANGED <<l1, mshr, rel, gnt, meta, rt, wb, mem, latest>> /\ trk[t].state = "s_outer_acquire"
      /\ data' = [data EXCEPT ![trk[t].line] = mem[trk[t].blk]]
      /\ trk' = [trk EXCEPT ![t] = [UpdatePendingCoh(trk[t], [sharers |-> {}, valid |-> TRUE,
                                       dirty |-> isWrite(trk[t].kind)]) EXCEPT !.state = "s_busy"]]
  BY DEF Refill, l1vars
<1>2. PICK b \in Block, l \in Line : b = trk[t].blk /\ l = trk[t].line
  BY <1>1, TypeFacts DEF TrackerShape, Busy
<1>3. /\ Busy(t) /\ SetOf[l] = SetOf[b] /\ ~ Resident(b)
  BY <1>1, <1>2 DEF TrackerShape, Busy
<1>4. /\ data'[l] = mem[b] /\ \A n \in Line : n # l => data'[n] = data[n]
  BY <1>1, <1>2 DEF Types
<1>5. /\ \A u \in Tracker : u # t => trk'[u] = trk[u]
      /\ trk'[t].blk = b /\ trk'[t].line = l /\ trk'[t].kind = trk[t].kind /\ trk'[t].state = "s_busy"
      /\ isWrite(trk[t].kind) => trk'[t].coh.dirty
  <2>1. trk \in [Tracker -> TrackerRec(Int)]
    BY DEF Types
  <2> QED BY <1>1, <1>2, <2>1 DEF UpdatePendingCoh, TrackerRec
<1>6. /\ L1Current' /\ WritebackCurrent' /\ AnswerCurrent' /\ RefillCurrent'
      /\ \A d \in Client, x \in Block : Entitled(d, x)' <=> Entitled(d, x)
      /\ \A d \in Client, x \in Block : Owns(d, x)' <=> Owns(d, x)
      /\ \A d \in Client, x \in Block : DirtyCopy(d, x)' <=> DirtyCopy(d, x)
  BY <1>1, AboveFrame
<1>7. RtCurrent' /\ WbCurrent'
  BY <1>1, <1>6, TakenFrame
<1>8. \A x \in Block : Newer(x) => Newer(x)'
  BY <1>1, <1>6, NewerKept
<1>9. DirtyBits'
  <2> SUFFICES ASSUME NEW u \in Tracker PROVE DirtyBits!(u)'
    BY DEF DirtyBits
  <2>1. CASE u # t
    BY <1>1, <1>5, <2>1 DEF DirtyBits, Serving
  <2>2. CASE u = t
    BY <1>5, <2>2 DEF Serving
  <2> QED BY <2>1, <2>2
<1>10. ASSUME NEW x \in Block, x # b PROVE InPlace(x)'
  BY <1>1, <1>2, <1>3, <1>4, <1>5, <1>8, <1>10, OtherBlocks
<1>11. \A u \in Tracker : Busy(u) /\ trk[u].blk = b => u = t
  BY <1>2, <1>3, OneUnit
<1>12. mem[b] = latest[b]
  <2>1. Unserved(b)
    BY <1>1, <1>11 DEF Unserved, Serving, Busy
  <2> QED BY <1>3, <2>1 DEF Absent, Resident, InPlace
<1>13. Serving(t, b)' /\ \A u \in Tracker : Serving(u, b)' => u = t
  BY <1>5, <1>11 DEF Serving, Busy
<1>14. LineOK(b, l)' /\ MemOK(b)'
  BY <1>1, <1>4, <1>12 DEF LineOK, MemOK
<1>15. InPlace(b)'
  BY <1>5, <1>13, <1>14 DEF InPlace, Absent, Unserved
<1> QED BY <1>6, <1>7, <1>9, <1>10, <1>15

\* When a tracker is going to grant more than a copy of the data, all that was above is taken.
LEMMA NothingNewer ==
  ASSUME IInv, DInv, NEW t \in Tracker, NEW b \in Block, trk[t].blk = b, trk[t].state = "s_busy",
         trk[t].gnt = "pending", trk[t].kind # "get"
  PROVE  (\A d \in Client : ~ Owns(d, b)) /\ ~ Newer(b)
<1> USE DEF IInv, DInv
<1>1. Busy(t) /\ Serving(t, b) /\ trk[t].kind \in {"put", "acquireShared", "acquireExclusive"}
  BY TypeFacts DEF Busy, Serving, TrackerRec, Kind
<1>2. ASSUME NEW d \in Client, Owns(d, b) PROVE FALSE
  <2>1. trk[t].kind # "acquireShared"
    BY <1>2 DEF SharedInTracker, AllShared
  <2>2. d \in trk[t].coh.sharers
    BY <1>1, <1>2, OwnerEntitled DEF Listed, Lists
  <2>3. trk[t].client = d
    BY <1>1, <2>1, <2>2 DEF SharedInTracker, isWrite
  <2>4. trk[t].kind = "acquireExclusive" /\ mshr[d].state = "s_refill_resp" /\ mshr[d].blk = b
    BY <1>1, <2>1, <2>3, L2CacheAssumption DEF TrackerShape, isBuiltInType, AcquireTokens, AtTracker, Asks
  <2>5. \A i \in DOMAIN rel : ~ VolMsg(d, i)
    BY <2>4 DEF WritebackTokens
  <2>6. PICK w \in L1Way : Live(d, w) /\ l1[d][w].tag = b /\ l1[d][w].st # "S"
    BY <1>2, <2>5 DEF Owns
  <2>7. w = mshr[d].way /\ l1[d][w].st # "I"
    BY <2>4, <2>6 DEF L1Shape, Live
  <2> QED BY <2>4, <2>6, <2>7 DEF L1Shape
<1>3. \A d \in Client : ~ DirtyCopy(d, b)
  BY <1>2 DEF DirtyCopy, Owns
<1>4. /\ \A i \in DOMAIN rel : ~ rel[i].voluntary => rel[i].blk # b
      /\ rt.state # "s_idle" => rt.rel.blk # b
      /\ wb.state # "s_idle" => wb.blk # b
  BY BlockBusy
<1>5. ASSUME NEW i \in DOMAIN rel, rel[i].voluntary PROVE rel[i].blk # b
  BY <1>2, <1>5, TypeFacts DEF Owns, VolMsg
<1>6. \A i \in DOMAIN rel : ~ Carries(i, b)
  BY <1>4, <1>5 DEF Carries
<1> QED BY <1>2, <1>3, <1>4, <1>6 DEF Newer

\* The grant, or the write of a put.
LEMMA SendGrantData ==
  ASSUME IInv, DInv, NEW t \in Tracker, NEW v \in Value, SendGrant(t, v)
  PROVE  DInv'
<1> USE DEF IInv, DInv
<1>1. /\ UNCHANGED <<l1, mshr, rel, meta, rt, wb, mem>>
      /\ trk[t].state = "s_busy" /\ trk[t].gnt = "pending"
  BY DEF SendGrant, l1vars
<1>2. PICK k \in TrackerRec(Int) : k = trk[t]
  BY DEF Types
<1>3. PICK b \in Block, l \in Line : b = k.blk /\ l = k.line
  BY <1>1, <1>2, TypeFacts DEF TrackerShape, Busy
<1>4. /\ k.client \in Client \cup Uncached /\ (k.client \in Uncached <=> isBuiltInType(k.kind))
      /\ k.client \in Client <=> k.client \notin Uncached
      /\ Busy(t) /\ SetOf[l] = SetOf[b] /\ Serving(t, b)
  BY <1>1, <1>2, <1>3, L2CacheAssumption DEF TrackerShape, Busy, Serving
<1>5. /\ \A u \in Tracker : u # t => trk'[u] = trk[u]
      /\ trk'[t].state = "s_busy" /\ trk'[t].blk = b /\ trk'[t].line = l /\ trk'[t].kind = k.kind
      /\ trk'[t].coh.dirty = k.coh.dirty
  <2>1. PICK coh \in Coh : coh = onGrant(k.coh, k.kind, k.client) /\ coh.dirty = k.coh.dirty
    <3>1. k.coh \in Coh
      BY DEF TrackerRec
    <3>2. onGrant(k.coh, k.kind, k.client) \in Coh
      BY <1>4, <3>1, PolicyTypes
    <3>3. onGrant(k.coh, k.kind, k.client).dirty = k.coh.dirty
      BY <3>1 DEF onGrant, Coh
    <3> QED BY <3>2, <3>3
  <2>2. trk' = [trk EXCEPT ![t] = [UpdatePendingCoh(k, coh) EXCEPT
                  !.gnt = IF k.client \in Uncached THEN "finished" ELSE "sent"]]
    BY <1>2, <2>1 DEF SendGrant
  <2>3. trk \in [Tracker -> TrackerRec(Int)]
    BY DEF Types
  <2> QED BY <1>1, <1>2, <1>3, <2>1, <2>2, <2>3 DEF UpdatePendingCoh, TrackerRec
<1>6. DirtyBits'
  <2> SUFFICES ASSUME NEW u \in Tracker PROVE DirtyBits!(u)'
    BY DEF DirtyBits
  <2>1. CASE u # t
    BY <1>1, <1>5, <2>1 DEF DirtyBits, Serving
  <2>2. CASE u = t
    BY <1>2, <1>3, <1>4, <1>5, <2>2 DEF DirtyBits, Serving
  <2> QED BY <2>1, <2>2
<1>7. /\ \A u \in Tracker : \A x : Serving(u, x)' <=> Serving(u, x)
      /\ \A n \in Line : Taken(n)' <=> Taken(n)
      /\ \A u \in Tracker : trk'[u].line = trk[u].line /\ (trk[u].coh.dirty => trk'[u].coh.dirty)
  BY <1>1, <1>2, <1>3, <1>5 DEF Serving, Taken
<1>8. CASE k.kind # "put"
  <2>1. data' = data /\ latest' = latest
    BY <1>2, <1>8 DEF SendGrant
  <2>2. /\ L1Current' /\ WritebackCurrent' /\ AnswerCurrent' /\ (UNCHANGED gnt => RefillCurrent')
        /\ \A d \in Client, x \in Block : Entitled(d, x)' <=> Entitled(d, x)
        /\ \A d \in Client, x \in Block : Owns(d, x)' <=> Owns(d, x)
        /\ \A d \in Client, x \in Block : DirtyCopy(d, x)' <=> DirtyCopy(d, x)
    BY <1>1, <2>1, AboveFrame
  <2>3. RtCurrent' /\ WbCurrent'
    BY <1>1, <2>1, <2>2, TakenFrame
  <2>4. \A x \in Block : Newer(x) => Newer(x)'
    BY <1>1, <2>2, NewerKept
  <2>5. \A x \in Block : InPlace(x)'
    BY <1>1, <1>7, <2>1, <2>4, InPlaceKept
  <2>6. CASE k.client \in Uncached
    <3>1. gnt' = gnt
      BY <1>2, <1>4, <2>6 DEF SendGrant
    <3> QED BY <1>6, <2>2, <2>3, <2>5, <3>1
  <2>7. CASE k.client \in Client
    <3>1. PICK c \in Client : c = k.client
      BY <2>7
    <3>2. k.kind \in {"acquireShared", "acquireExclusive"}
      BY <1>4, <2>7 DEF TrackerRec, Kind, isBuiltInType
    <3>3. AtTracker(c, t)
      BY <1>1, <1>2, <1>4, <3>1 DEF AtTracker
    <3>4. /\ gnt[c] = <<>> /\ mshr[c].blk = b /\ k.kind = getAcquireType(mshr[c].cmd)
          /\ mshr[c].state = "s_refill_resp"
      BY <1>2, <1>3, <3>3 DEF AcquireTokens, Asks
    <3>5. data[l] = latest[b] /\ data[l] \in Value \cup {NoValue}
      <4>1. ~ Newer(b)
        BY <1>1, <1>2, <1>3, <3>2, NothingNewer
      <4>2. LineOK(b, l)
        BY <1>2, <1>3, <1>4 DEF InPlace
      <4> QED BY <4>1, <4>2 DEF LineOK, Types
    <3>6. PICK y \in {"grantShared", "grantExclusive"} :
            /\ y = getGrantType(k.kind, k.coh.sharers)
            /\ mshr[c].cmd = "store" => y = "grantExclusive"
      BY <3>4 DEF getGrantType, getAcquireType
    <3>7. PICK g \in GrantMsg : /\ g = [gtype |-> y, trk |-> t, data |-> data[l]]
                                /\ g.gtype = y /\ g.data = data[l]
      <4>1. [gtype |-> y, trk |-> t, data |-> data[l]] \in GrantMsg
        BY <3>5 DEF GrantMsg
      <4> QED BY <4>1
    <3>8. gnt' = [gnt EXCEPT ![c] = Append(@, g)]
      BY <1>2, <1>3, <1>4, <3>1, <3>6, <3>7 DEF SendGrant
    <3>9. gnt \in [Client -> Seq(GrantMsg)]
      BY DEF Types
    <3>10. gnt'[c] = Append(<<>>, g) /\ \A d \in Client : d # c => gnt'[d] = gnt[d]
      BY <3>4, <3>8, <3>9
    <3>11. Head(gnt'[c]) = g
      BY <3>10
    <3>12. RefillCurrent'
      <4> SUFFICES ASSUME NEW d \in Client PROVE RefillCurrent!(d)'
        BY DEF RefillCurrent
      <4>1. CASE d # c
        BY <1>1, <2>1, <3>10, <4>1 DEF RefillCurrent
      <4>2. CASE d = c
        BY <1>1, <2>1, <3>4, <3>5, <3>6, <3>7, <3>11, <4>2
      <4> QED BY <4>1, <4>2
    <3> QED BY <1>6, <2>2, <2>3, <2>5, <3>12
  <2> QED BY <1>4, <2>6, <2>7
<1>9. CASE k.kind = "put"
  <2>1. k.client \in Uncached /\ k.client \notin Client /\ isWrite(k.kind)
    BY <1>4, <1>9 DEF isBuiltInType, isWrite
  <2>2. /\ data' = [data EXCEPT ![k.line] = v] /\ latest' = [latest EXCEPT ![k.blk] = v] /\ gnt' = gnt
    BY <1>2, <1>4, <1>9, <2>1 DEF SendGrant
  <2>3. /\ data'[l] = v /\ \A n \in Line : n # l => data'[n] = data[n]
        /\ latest'[b] = v /\ \A x \in Block : x # b => latest'[x] = latest[x]
    BY <1>3, <2>2 DEF Types
  <2>4. k.coh.sharers \subseteq {k.client} /\ k.coh.dirty
    BY <1>1, <1>2, <1>3, <1>4, <2>1 DEF SharedInTracker, DirtyBits
  <2>5. /\ \A d \in Client : Entitled(d, b) => d = k.client
        /\ \A d \in Client : d # k.client =>
             /\ mshr[d].state = "s_meta_write_req" => mshr[d].blk # b
             /\ gnt[d] # <<>> /\ Head(gnt[d]).gtype # "voluntaryAck" => mshr[d].blk # b
        /\ \A i \in DOMAIN rel : ~ rel[i].voluntary /\ rel[i].data # NoValue /\ rel[i].ptype # "probeCopy"
             => rel[i].blk # b
        /\ rt.state # "s_idle" => rt.rel.blk # b
        /\ wb.state # "s_idle" /\ (wb.buf # NoValue \/ wb.state = "s_wb_resp") => wb.blk # b
    BY <1>1, <1>2, <1>3, <2>4, WriterAlone
  <2>6. \A d \in Client :
          /\ ~ Entitled(d, b)
          /\ mshr[d].state = "s_meta_write_req" => mshr[d].blk # b
          /\ gnt[d] # <<>> /\ Head(gnt[d]).gtype # "voluntaryAck" => mshr[d].blk # b
    BY <2>1, <2>5
  <2>7. /\ \A d \in Client, x \in L1Way : Live(d, x)' <=> Live(d, x)
        /\ \A d \in Client, x \in Block : Entitled(d, x)' <=> Entitled(d, x)
        /\ \A d \in Client, x \in Block : Owns(d, x)' <=> Owns(d, x)
        /\ \A d \in Client, x \in Block : DirtyCopy(d, x)' <=> DirtyCopy(d, x)
    BY <1>1, SameCopies, SameDirty DEF Live
  <2>8. L1Current'
    <3> SUFFICES ASSUME NEW d \in Client, NEW x \in L1Way, Live(d, x)
                 PROVE  l1[d][x].data = latest'[l1[d][x].tag]
      BY <1>1, <2>7 DEF L1Current
    <3>1. PICK y \in Block : y = l1[d][x].tag
      BY DEF Live, L1Shape
    <3>2. y # b
      BY <2>6, <3>1 DEF Entitled, Holds
    <3> QED BY <2>3, <3>1, <3>2 DEF L1Current
  <2>9. RefillCurrent'
    <3> SUFFICES ASSUME NEW d \in Client PROVE RefillCurrent!(d)'
      BY DEF RefillCurrent
    <3>1. mshr[d].state \in {"s_meta_write_req", "s_refill_resp"} => mshr[d].blk \in Block
      BY DEF L1Shape
    <3>2. gnt[d] # <<>> /\ Head(gnt[d]).gtype # "voluntaryAck" => mshr[d].state = "s_refill_resp"
      BY DEF AcquireTokens
    <3>3. mshr[d].state = "s_meta_write_req" \/ (gnt[d] # <<>> /\ Head(gnt[d]).gtype # "voluntaryAck")
            => latest'[mshr[d].blk] = latest[mshr[d].blk]
      BY <2>3, <2>6, <3>1, <3>2
    <3> QED BY <1>1, <2>2, <3>3 DEF RefillCurrent
  <2>10. \A i \in DOMAIN rel : rel[i].voluntary => rel[i].blk # b
    BY <2>6, TypeFacts DEF Entitled, VolMsg
  <2>11. WritebackCurrent'
    BY <1>1, <2>3, <2>10, TypeFacts DEF WritebackCurrent
  <2>12. AnswerCurrent'
    <3> SUFFICES ASSUME NEW i \in DOMAIN rel, ~ rel[i].voluntary, rel[i].data # NoValue
                 PROVE  AnswerCurrent!(i)!2'
      BY <1>1 DEF AnswerCurrent
    <3>1. PICK d \in Client, x \in Block : d = rel[i].client /\ x = rel[i].blk
      BY TypeFacts
    <3>2. (\A j : VolMsg(d, j)' <=> VolMsg(d, j)) /\ (AllShared(x) => AllShared(x)')
      BY <1>1, <2>7 DEF VolMsg, AllShared
    <3>3. rel[i].ptype # "probeCopy" => latest'[x] = latest[x]
      BY <2>3, <2>5, <3>1
    <3> QED BY <1>1, <2>7, <3>1, <3>2, <3>3 DEF AnswerCurrent
  <2>13. RtCurrent'
    <3>1. rt.state # "s_idle" => rt.rel.blk \in Block
      BY DEF RtShape, ReleaseMsg
    <3> QED BY <1>1, <2>3, <2>5, <2>7, <3>1 DEF RtCurrent
  <2>14. WbCurrent'
    <3>1. wb.state # "s_idle" => wb.blk \in Block
      BY DEF WbShape
    <3> QED BY <1>1, <2>3, <2>5, <2>7, <3>1 DEF WbCurrent
  <2>15. \A x \in Block : Newer(x) => Newer(x)'
    BY <1>1, <2>7, NewerKept
  <2>16. ASSUME NEW x \in Block, x # b PROVE InPlace(x)'
    BY <1>1, <1>2, <1>3, <1>4, <1>5, <2>3, <2>15, <2>16, OtherBlocks
  <2>17. InPlace(b)'
    <3>1. \A u \in Tracker : Serving(u, b)' => u = t
      BY <1>1, <1>2, <1>3, <1>7, BlockBusy DEF Serving, Busy
    <3>2. Serving(t, b)' /\ trk'[t].line = l /\ trk'[t].coh.dirty
      BY <1>4, <1>5, <1>7, <2>4
    <3>3. LineOK(b, l)'
      BY <2>3 DEF LineOK
    <3> QED BY <3>1, <3>2, <3>3 DEF InPlace, Absent, Unserved
  <2> QED BY <1>6, <2>8, <2>9, <2>11, <2>12, <2>13, <2>14, <2>16, <2>17
<1> QED BY <1>8, <1>9

-----------------------------------------------------------------------------
(***************************************************************************)
(* Releases that the L2 takes.                                             *)
(***************************************************************************)

\* What is left above, and what the release brings: the value of its block, unless the owner
\* goes on writing it.
LEMMA ReleaseData ==
  ASSUME IInv, DInv, rel # <<>>, rel' = Tail(rel), UNCHANGED <<l1, mshr, prb, latest>>,
         NEW r \in ReleaseMsg, r = Head(rel)
  PROVE  /\ L1Current' /\ WritebackCurrent' /\ AnswerCurrent' /\ (UNCHANGED gnt => RefillCurrent')
         /\ r.client \in Client /\ r.blk \in Block
         /\ \A d \in Client, x \in Block : Entitled(d, x)' => Entitled(d, x)
         /\ \A d \in Client, x \in Block : Owns(d, x)' => Owns(d, x)
         /\ \A d \in Client, x \in Block : DirtyCopy(d, x)' <=> DirtyCopy(d, x)
         /\ r.voluntary => /\ r.data = latest[r.blk] /\ Entitled(r.client, r.blk)
                           /\ \A d \in Client : ~ Entitled(d, r.blk)'
         /\ r.data # NoValue /\ r.ptype = "probeInvalidate" =>
              r.data = latest[r.blk] /\ \A d \in Client : ~ Entitled(d, r.blk)'
         /\ \A x \in Block : \A i \in DOMAIN rel : Carries(i, x) =>
              (\E j \in DOMAIN rel' : Carries(j, x)') \/ (x = r.blk /\ r.data = latest[x])
         /\ r.data # NoValue => \/ r.data = latest[r.blk] \/ DirtyCopy(r.client, r.blk)
                                \/ \E j \in DOMAIN rel' : Carries(j, r.blk)'
         /\ latest[r.blk] # NoValue
<1> USE DEF IInv, DInv
<1>1. rel \in Seq(ReleaseMsg) /\ latest \in [Block -> Value]
  BY DEF Types
<1>2. PICK c \in Client, b \in Block : c = r.client /\ b = r.blk
  BY DEF ReleaseMsg
<1>3. /\ 1 \in DOMAIN rel /\ rel[1] = r /\ \A i \in DOMAIN rel : i \in Nat
      /\ \A i \in DOMAIN rel' : i \in Nat /\ i + 1 \in DOMAIN rel /\ rel'[i] = rel[i + 1]
      /\ \A i \in DOMAIN rel : i # 1 => i - 1 \in DOMAIN rel' /\ rel'[i - 1] = rel[i]
  BY <1>1, TailFacts
<1>4. /\ \A d \in Client, x \in Block : Entitled(d, x)' => Entitled(d, x)
      /\ \A d \in Client, x \in Block : Owns(d, x)' => Owns(d, x)
      /\ Entitled(c, b)' => r.ptype # "probeInvalidate"
      /\ r.voluntary => r.ptype = "probeInvalidate" /\ VolMsg(c, 1)
  BY <1>2, ReleaseTaken
<1>5. \A d \in Client, x \in Block : DirtyCopy(d, x)' <=> DirtyCopy(d, x)
  BY SameDirty
<1>6. L1Current' /\ (UNCHANGED gnt => RefillCurrent')
  BY DataFrames
<1>7. WritebackCurrent'
  BY <1>3 DEF WritebackCurrent
<1>8. latest[b] # NoValue
  BY <1>1, L2CacheAssumption
<1>9. r.voluntary => r.data = latest[b] /\ Entitled(c, b) /\ \A d \in Client : ~ Entitled(d, b)'
  <2> SUFFICES ASSUME r.voluntary
               PROVE  r.data = latest[b] /\ Entitled(c, b) /\ \A d \in Client : ~ Entitled(d, b)'
    OBVIOUS
  <2>1. r.data = latest[b]
    BY <1>2, <1>3 DEF WritebackCurrent
  <2>2. Owns(c, b) /\ Entitled(c, b)
    BY <1>2, <1>3, <1>4 DEF Owns, Entitled
  <2>3. \A d \in Client : Entitled(d, b) => d = c
    BY <2>2, SoleOwner
  <2> QED BY <1>4, <2>1, <2>2, <2>3
<1>10. ~ r.voluntary /\ r.data # NoValue =>
         /\ r.ptype # "probeCopy" => r.data = latest[b]
         /\ r.ptype = "probeInvalidate" => \A d \in Client : ~ Entitled(d, b)'
         /\ r.ptype = "probeCopy" => \/ DirtyCopy(c, b)
                                     \/ \E j \in DOMAIN rel : j > 1 /\ VolMsg(c, j) /\ rel[j].blk = b
  BY <1>2, <1>3, <1>4 DEF AnswerCurrent
<1>11. \A x \in Block : \A i \in DOMAIN rel : i # 1 /\ Carries(i, x) => Carries(i - 1, x)'
  BY <1>3 DEF Carries
<1>12. \A x \in Block : \A i \in DOMAIN rel : Carries(i, x) =>
         (\E j \in DOMAIN rel' : Carries(j, x)') \/ (x = b /\ r.data = latest[x])
  <2> SUFFICES ASSUME NEW x \in Block, Carries(1, x) PROVE x = b /\ r.data = latest[x]
    BY <1>3, <1>11
  <2> QED BY <1>2, <1>3, <1>9, <1>10 DEF Carries
<1>13. r.data # NoValue => r.data = latest[b] \/ DirtyCopy(c, b) \/ \E j \in DOMAIN rel' : Carries(j, b)'
  <2>1. ASSUME NEW j \in DOMAIN rel, j > 1, VolMsg(c, j), rel[j].blk = b
        PROVE  \E i \in DOMAIN rel' : Carries(i, b)'
    <3>1. Carries(j, b) /\ j # 1
      BY <2>1 DEF Carries, VolMsg
    <3> QED BY <1>3, <1>11, <3>1
  <2> QED BY <1>9, <1>10, <2>1
<1>14. AnswerCurrent'
  <2> SUFFICES ASSUME NEW i \in DOMAIN rel', ~ rel'[i].voluntary, rel'[i].data # NoValue
               PROVE  AnswerCurrent!(i)!2'
    BY DEF AnswerCurrent
  <2>1. PICK k \in DOMAIN rel : k = i + 1 /\ rel'[i] = rel[k] /\ i \in Nat
    BY <1>3
  <2>2. PICK d \in Client, x \in Block : d = rel[k].client /\ x = rel[k].blk
    BY TypeFacts
  <2>3. AllShared(x) => AllShared(x)'
    BY <1>4 DEF AllShared
  <2>4. ASSUME NEW j \in DOMAIN rel, j > k, VolMsg(d, j), rel[j].blk = x
        PROVE  \E m \in DOMAIN rel' : m > i /\ VolMsg(d, m)' /\ rel'[m].blk = x
    <3>1. j \in Nat /\ j # 1 /\ j - 1 > i
      BY <1>3, <2>1, <2>4
    <3>2. j - 1 \in DOMAIN rel' /\ rel'[j - 1] = rel[j]
      BY <1>3, <3>1
    <3>3. VolMsg(d, j - 1)' /\ rel'[j - 1].blk = x
      BY <2>4, <3>2 DEF VolMsg
    <3> QED BY <3>1, <3>2, <3>3
  <2>5. /\ rel[k].ptype # "probeCopy" => rel[k].data = latest[x] /\ AllShared(x)
        /\ rel[k].ptype = "probeInvalidate" => \A e \in Client : ~ Entitled(e, x)
        /\ rel[k].ptype = "probeCopy" =>
             \/ DirtyCopy(d, x)
             \/ \E j \in DOMAIN rel : j > k /\ VolMsg(d, j) /\ rel[j].blk = x
    BY <2>1, <2>2 DEF AnswerCurrent
  <2> QED BY <1>4, <1>5, <2>1, <2>2, <2>3, <2>4, <2>5
<1> QED BY <1>2, <1>4, <1>5, <1>6, <1>7, <1>8, <1>9, <1>10, <1>12, <1>13, <1>14

\* A tracker takes it: the answer to a probe, or a write-back that it merges.
LEMMA MergeReleaseData ==
  ASSUME IInv, DInv, NEW t \in Tracker, MergeRelease(t)
  PROVE  DInv'
<1> USE DEF IInv, DInv
<1>1. /\ UNCHANGED <<l1, mshr, prb, gnt, meta, rt, wb, mem, latest>> /\ rel # <<>> /\ rel' = Tail(rel)
  BY DEF MergeRelease, l1vars
<1>2. PICK r \in ReleaseMsg : r = Head(rel)
  BY <1>1, TailFacts DEF Types
<1>3. PICK c \in Client, b \in Block : c = r.client /\ b = r.blk
  BY DEF ReleaseMsg
<1>4. /\ irel_matches(t, b) /\ (irel_can_merge(t, r) \/ irel_same_xact(t, r))
      /\ data' = IF r.data = NoValue THEN data ELSE [data EXCEPT ![trk[t].line] = r.data]
      /\ trk' = [trk EXCEPT ![t] =
           [UpdatePendingCoh(trk[t], onRelease(trk[t].coh, r)) EXCEPT
              !.irels = IF r.voluntary THEN @ ELSE @ - 1,
              !.vol = IF r.voluntary THEN r.client ELSE @]]
  BY <1>2, <1>3 DEF MergeRelease
<1>5. /\ L1Current' /\ WritebackCurrent' /\ AnswerCurrent' /\ RefillCurrent'
      /\ \A d \in Client, x \in Block : Entitled(d, x)' => Entitled(d, x)
      /\ \A d \in Client, x \in Block : Owns(d, x)' => Owns(d, x)
      /\ \A d \in Client, x \in Block : DirtyCopy(d, x)' <=> DirtyCopy(d, x)
      /\ r.voluntary => Entitled(c, b)
      /\ \A x \in Block : \A i \in DOMAIN rel : Carries(i, x) =>
           (\E j \in DOMAIN rel' : Carries(j, x)') \/ (x = b /\ r.data = latest[x])
      /\ r.data # NoValue => \/ r.data = latest[b] \/ DirtyCopy(c, b)
                             \/ \E j \in DOMAIN rel' : Carries(j, b)'
      /\ latest[b] # NoValue
  BY <1>1, <1>2, <1>3, ReleaseData
<1>6. /\ Busy(t) /\ trk[t].blk = b /\ Serving(t, b)
  <2>1. /\ Busy(t) /\ trk[t].blk = b
        /\ trk[t].state \in {"s_wb_resp", "s_outer_acquire", "s_inner_probe", "s_busy"}
        /\ trk[t].state # "s_inner_probe" => r.voluntary
    BY <1>3, <1>4, TypeFacts DEF irel_matches, irel_can_merge, irel_same_xact, Busy, before_wb_req, TrackerRec
  <2>2. ASSUME trk[t].state \in {"s_wb_resp", "s_outer_acquire"} PROVE FALSE
    <3>1. ~ Resident(b) /\ \A u \in Tracker : ~ Serving(u, b)
      <4>1. \A u \in Tracker : Busy(u) /\ trk[u].blk = b => u = t
        BY <2>1, OneUnit
      <4> QED BY <2>1, <2>2, <4>1 DEF TrackerShape, Serving, Busy
    <3>2. Entitled(c, b)
      BY <1>5, <2>1, <2>2
    <3> QED BY <3>1, <3>2 DEF Listed, Lists, Resident
  <2> QED BY <2>1, <2>2 DEF Serving
<1>7. PICK l \in Line : l = trk[t].line
  BY TypeFacts
<1>8. SetOf[l] = SetOf[b]
  BY <1>6, <1>7 DEF TrackerShape, Serving
<1>9. /\ \A u \in Tracker : u # t => trk'[u] = trk[u]
      /\ trk'[t].state = trk[t].state /\ trk'[t].blk = b /\ trk'[t].line = l /\ trk'[t].kind = trk[t].kind
      /\ trk'[t].coh.dirty <=> trk[t].coh.dirty \/ r.data # NoValue
  <2>1. PICK k \in TrackerRec(Int) : k = trk[t]
    BY DEF Types
  <2>2. PICK coh \in Coh : coh = onRelease(k.coh, r) /\ (coh.dirty <=> k.coh.dirty \/ r.data # NoValue)
    <3>1. k.coh \in Coh
      BY DEF TrackerRec
    <3>2. onRelease(k.coh, r) \in Coh
      BY <3>1, PolicyTypes
    <3>3. onRelease(k.coh, r).dirty <=> k.coh.dirty \/ r.data # NoValue
      BY <3>1 DEF onRelease, Coh
    <3> QED BY <3>2, <3>3
  <2>3. trk \in [Tracker -> TrackerRec(Int)]
    BY DEF Types
  <2>4. trk' = [trk EXCEPT ![t] = [UpdatePendingCoh(k, coh) EXCEPT
                  !.irels = IF r.voluntary THEN @ ELSE @ - 1,
                  !.vol = IF r.voluntary THEN r.client ELSE @]]
    BY <1>4, <2>1, <2>2
  <2>5. /\ \A u \in Tracker : u # t => trk'[u] = trk[u]
        /\ trk'[t].state = k.state /\ trk'[t].blk = k.blk /\ trk'[t].line = k.line /\ trk'[t].kind = k.kind
        /\ trk'[t].coh = coh
    BY <2>3, <2>4 DEF UpdatePendingCoh, TrackerRec
  <2> QED BY <1>6, <1>7, <2>1, <2>2, <2>5
<1>10. /\ \A n \in Line : n # l => data'[n] = data[n]
       /\ r.data = NoValue => data'[l] = data[l]
       /\ r.data # NoValue => data'[l] = r.data
  BY <1>4, <1>7 DEF Types
<1>11. RtCurrent' /\ WbCurrent'
  BY <1>1, <1>5, TakenFrame
<1>12. DirtyBits'
  <2> SUFFICES ASSUME NEW u \in Tracker PROVE DirtyBits!(u)'
    BY DEF DirtyBits
  <2>1. CASE u # t
    BY <1>1, <1>9, <2>1 DEF DirtyBits, Serving
  <2>2. CASE u = t
    BY <1>6, <1>9, <2>2 DEF DirtyBits, Serving
  <2> QED BY <2>1, <2>2
<1>13. \A x \in Block : Newer(x) => Newer(x)' \/ (x = b /\ r.data = latest[b])
  BY <1>1, <1>5 DEF Newer
<1>14. ASSUME NEW x \in Block, x # b PROVE InPlace(x)'
  <2>1. Newer(x) => Newer(x)'
    BY <1>13, <1>14
  <2>2. \A n \in Line : meta[n].tag = x /\ n = l => Taken(n) /\ trk[t].state = "s_busy"
    <3>1. ASSUME meta[l].tag = x, trk[t].state = "s_inner_probe" PROVE FALSE
      BY <1>6, <1>7, <1>14, <3>1 DEF TrackerShape
    <3>2. trk[t].state \in {"s_inner_probe", "s_busy"}
      BY <1>3, <1>4, <1>6 DEF Serving, irel_can_merge, irel_same_xact
    <3> QED BY <1>7, <3>1, <3>2 DEF Taken
  <2> QED BY <1>1, <1>6, <1>7, <1>8, <1>9, <1>10, <1>14, <2>1, <2>2, OtherBlocks DEF Serving
<1>15. InPlace(b)'
  <2>1. \A u \in Tracker : Serving(u, b)' => u = t
    <3>1. \A u \in Tracker : Busy(u) /\ trk[u].blk = b => u = t
      BY <1>6, OneUnit
    <3> QED BY <1>9, <3>1 DEF Serving, Busy
  <2>2. Serving(t, b)'
    BY <1>6, <1>9 DEF Serving
  <2>3. LineOK(b, l) /\ (trk[t].coh.dirty \/ MemOK(b))
    BY <1>6, <1>7 DEF InPlace
  <2>4. LineOK(b, l)' /\ (trk'[t].coh.dirty \/ MemOK(b)')
    <3>1. CASE r.data = NoValue
      <4>1. Newer(b) => Newer(b)'
        BY <1>5, <1>13, <3>1
      <4> QED BY <1>1, <1>9, <1>10, <2>3, <3>1, <4>1 DEF LineOK, MemOK
    <3>2. CASE r.data # NoValue
      <4>1. r.data = latest[b] \/ Newer(b)'
        BY <1>5, <3>2 DEF Newer
      <4> QED BY <1>1, <1>9, <1>10, <3>2, <4>1 DEF LineOK
    <3> QED BY <3>1, <3>2
  <2> QED BY <1>9, <2>1, <2>2, <2>4 DEF InPlace, Absent, Unserved
<1> QED BY <1>5, <1>11, <1>12, <1>14, <1>15

\* The write-back unit takes it: it was probing to invalidate.
LEMMA WbReleaseData ==
  ASSUME IInv, DInv, WbRelease
  PROVE  DInv'
<1> USE DEF IInv, DInv
<1>1. /\ UNCHANGED <<l1, mshr, prb, gnt, meta, data, trk, rt, mem, latest>> /\ rel # <<>> /\ rel' = Tail(rel)
      /\ wb.state = "s_inner_probe"
  BY DEF WbRelease, l1vars
<1>2. PICK r \in ReleaseMsg : r = Head(rel)
  BY <1>1, TailFacts DEF Types
<1>3. PICK b \in Block : b = r.blk
  BY DEF ReleaseMsg
<1>4. /\ wb.blk = b
      /\ wb' = [wb EXCEPT !.coh = onRelease(@, r),
                         !.buf = IF r.data = NoValue THEN @ ELSE r.data,
                         !.irels = IF r.voluntary THEN @ ELSE @ - 1,
                         !.vol = IF r.voluntary THEN r.client ELSE @]
  BY <1>2, <1>3 DEF WbRelease, irel_matches_wb
<1>5. /\ L1Current' /\ WritebackCurrent' /\ AnswerCurrent' /\ RefillCurrent'
      /\ r.client \in Client
      /\ \A d \in Client, x \in Block : Entitled(d, x)' => Entitled(d, x)
      /\ \A d \in Client, x \in Block : Owns(d, x)' => Owns(d, x)
      /\ \A d \in Client, x \in Block : DirtyCopy(d, x)' <=> DirtyCopy(d, x)
      /\ r.voluntary => r.data = latest[b] /\ \A d \in Client : ~ Entitled(d, b)'
      /\ r.data # NoValue /\ r.ptype = "probeInvalidate" =>
           r.data = latest[b] /\ \A d \in Client : ~ Entitled(d, b)'
      /\ \A x \in Block : \A i \in DOMAIN rel : Carries(i, x) =>
           (\E j \in DOMAIN rel' : Carries(j, x)') \/ (x = b /\ r.data = latest[x])
      /\ latest[b] # NoValue
  BY <1>1, <1>2, <1>3, ReleaseData
<1>6. /\ wb'.state = "s_inner_probe" /\ wb'.blk = b
      /\ wb'.coh.dirty <=> wb.coh.dirty \/ r.data # NoValue
      /\ wb'.buf = IF r.data = NoValue THEN wb.buf ELSE r.data
  <2>1. wb \in WbRec(Int) /\ wb.coh \in Coh
    BY DEF Types, WbRec
  <2>2. /\ wb'.state = "s_inner_probe" /\ wb'.blk = b /\ wb'.coh = onRelease(wb.coh, r)
        /\ wb'.buf = IF r.data = NoValue THEN wb.buf ELSE r.data
    BY <1>1, <1>4, <2>1 DEF WbRec
  <2>3. onRelease(wb.coh, r).dirty <=> wb.coh.dirty \/ r.data # NoValue
    BY <2>1 DEF onRelease, Coh
  <2> QED BY <2>2, <2>3
<1>7. r.data # NoValue => r.data = latest[b] /\ \A d \in Client : ~ Entitled(d, b)'
  <2> SUFFICES ASSUME r.data # NoValue, ~ r.voluntary PROVE r.ptype = "probeInvalidate"
    BY <1>5
  <2>1. Prober(r.client, b, r.ptype)
    BY <1>1, <1>2, <1>3, ReleaseTaken
  <2>2. \A u \in Tracker : Busy(u) /\ trk[u].blk = b => trk[u].state = "s_wb_resp"
    BY <1>1, <1>4, OneUnit DEF WbShape
  <2> QED BY <2>1, <2>2 DEF Prober, Busy
<1>8. WbCurrent'
  BY <1>1, <1>4, <1>5, <1>6, <1>7 DEF WbCurrent
<1>9. RtCurrent' /\ DirtyBits'
  BY <1>1, <1>5, TakenFrame, DataFrames
<1>10. \A x \in Block : Newer(x) => Newer(x)'
  <2> SUFFICES ASSUME NEW x \in Block, Newer(x) PROVE Newer(x)'
    OBVIOUS
  <2>1. CASE x = b /\ r.data # NoValue
    BY <1>6, <2>1 DEF Newer
  <2>2. CASE ~ (x = b /\ r.data # NoValue)
    <3>1. \A i \in DOMAIN rel : Carries(i, x) => \E j \in DOMAIN rel' : Carries(j, x)'
      BY <1>5, <2>2
    <3>2. wb.blk = x /\ wb.buf # NoValue => wb'.state # "s_idle" /\ wb'.blk = x /\ wb'.buf # NoValue
      BY <1>4, <1>6
    <3> QED BY <1>1, <1>5, <3>1, <3>2 DEF Newer
  <2> QED BY <2>1, <2>2
<1>11. /\ \A u \in Tracker : \A x : Serving(u, x)' <=> Serving(u, x)
       /\ \A n \in Line : Taken(n)' <=> Taken(n)
  BY <1>1 DEF Serving, Taken
<1>12. \A x \in Block : InPlace(x)'
  BY <1>1, <1>10, <1>11, InPlaceKept
<1> QED BY <1>5, <1>8, <1>9, <1>12

\* The release tracker takes it: nobody else works on the block, so its sender is in the
\* directory.
LEMMA RtAcceptData ==
  ASSUME IInv, DInv, RtAccept
  PROVE  DInv'
<1> USE DEF IInv, DInv
<1>1. /\ UNCHANGED <<l1, mshr, prb, gnt, meta, data, trk, wb, mem, latest>> /\ rel # <<>> /\ rel' = Tail(rel)
      /\ rt.state = "s_idle"
  BY DEF RtAccept, l1vars
<1>2. PICK r \in ReleaseMsg : r = Head(rel)
  BY <1>1, TailFacts DEF Types
<1>3. PICK c \in Client, b \in Block : c = r.client /\ b = r.blk
  BY DEF ReleaseMsg
<1>4. /\ r.voluntary /\ (\A u \in Tracker : ~ irel_matches(u, b))
      /\ rt' = [rt EXCEPT !.state = "s_meta_read", !.rel = r]
  BY <1>2, <1>3 DEF RtAccept
<1>5. /\ L1Current' /\ WritebackCurrent' /\ AnswerCurrent' /\ RefillCurrent'
      /\ \A d \in Client, x \in Block : Entitled(d, x)' => Entitled(d, x)
      /\ \A d \in Client, x \in Block : Owns(d, x)' => Owns(d, x)
      /\ \A d \in Client, x \in Block : DirtyCopy(d, x)' <=> DirtyCopy(d, x)
      /\ r.data = latest[b] /\ Entitled(c, b) /\ \A d \in Client : ~ Entitled(d, b)'
      /\ \A x \in Block : \A i \in DOMAIN rel : Carries(i, x) =>
           (\E j \in DOMAIN rel' : Carries(j, x)') \/ (x = b /\ r.data = latest[x])
      /\ latest[b] # NoValue
  BY <1>1, <1>2, <1>3, <1>4, ReleaseData
<1>6. rt'.state = "s_meta_read" /\ rt'.rel = r
  BY <1>4 DEF Types, RtRec
<1>7. \A u \in Tracker : ~ Serving(u, b)
  BY <1>4 DEF irel_matches, Serving, Busy, before_wb_req
<1>8. PICK n \in Line : meta[n].tag = b /\ c \in meta[n].coh.sharers
  BY <1>5, <1>7 DEF Listed, Lists
<1>9. \A m \in Line : meta[m].tag = b => m = n
  BY <1>8, L2CacheAssumption DEF MetaShape
<1>10. RtCurrent'
  BY <1>1, <1>3, <1>5, <1>6, <1>8, <1>9 DEF RtCurrent
<1>11. WbCurrent' /\ DirtyBits'
  BY <1>1, <1>5, TakenFrame, DataFrames
<1>12. \A x \in Block : Newer(x) => Newer(x)'
  BY <1>1, <1>3, <1>5, <1>6 DEF Newer
<1>13. /\ \A u \in Tracker : \A x : Serving(u, x)' <=> Serving(u, x)
       /\ \A m \in Line : Taken(m)' <=> Taken(m)
  BY <1>1 DEF Serving, Taken
<1>14. \A x \in Block : InPlace(x)'
  BY <1>1, <1>12, <1>13, InPlaceKept
<1> QED BY <1>5, <1>10, <1>11, <1>14

-----------------------------------------------------------------------------
(***************************************************************************)
(* Steps of the release tracker.                                           *)
(***************************************************************************)

\* The block of the release tracker is in the line the directory says.
LEMMA RtPlace ==
  ASSUME IInv, rt.state # "s_idle"
  PROVE  /\ rt.rel.blk \in Block /\ Unserved(rt.rel.blk)
         /\ \A u \in Tracker : /\ trk[u].state \notin {"s_idle", "s_meta_read"}
                               /\ meta[trk[u].line].tag = rt.rel.blk
                               => trk[u].state = "s_wb_req"
         /\ \A n \in Line : meta[n].tag = rt.rel.blk => ~ Taken(n)
<1> USE DEF IInv
<1>1. rt.rel.blk \in Block /\ Unserved(rt.rel.blk)
  BY DEF RtShape, ReleaseMsg, Unserved, Serving, Busy
<1>2. ASSUME NEW u \in Tracker, trk[u].state \notin {"s_idle", "s_meta_read"},
             meta[trk[u].line].tag = rt.rel.blk
      PROVE  trk[u].state = "s_wb_req"
  <2>1. Busy(u) /\ SetOf[trk[u].line] = SetOf[trk[u].blk] /\ trk[u].line \in Line
    BY <1>2, TypeFacts DEF Busy, TrackerShape
  <2>2. SetOf[rt.rel.blk] = SetOf[trk[u].line]
    BY <1>1, <1>2, <2>1, L2CacheAssumption DEF MetaShape
  <2> QED BY <1>2, <2>1, <2>2 DEF RtShape
<1> QED BY <1>1, <1>2 DEF Taken

\* Its data are written.
LEMMA RtAckData ==
  ASSUME IInv, DInv, RtAck
  PROVE  DInv'
<1> USE DEF IInv, DInv
<1>1. /\ UNCHANGED <<l1, mshr, rel, meta, trk, wb, mem, latest>> /\ rt.state = "s_busy"
      /\ data' = [data EXCEPT ![rt.line] = rt.rel.data]
      /\ gnt' = [gnt EXCEPT ![rt.rel.client] = Append(@, [gtype |-> "voluntaryAck"])]
      /\ rt' = [rt EXCEPT !.state = "s_meta_write"]
  BY DEF RtAck, l1vars
<1>2. PICK b \in Block, c \in Client, n \in Line : b = rt.rel.blk /\ c = rt.rel.client /\ n = rt.line
  BY <1>1 DEF Types, RtRec, RtShape, ReleaseMsg
<1>3. /\ rt'.state = "s_meta_write" /\ rt'.rel = rt.rel /\ rt'.rel.blk = b
      /\ data'[n] = latest[b] /\ \A m \in Line : m # n => data'[m] = data[m]
      /\ meta[n].tag = b
  <2>1. rt.rel.data = latest[b] /\ meta[n].tag = b
    BY <1>1, <1>2 DEF RtCurrent, RtShape
  <2> QED BY <1>1, <1>2, <2>1 DEF Types, RtRec
<1>4. /\ L1Current' /\ WritebackCurrent' /\ AnswerCurrent'
      /\ \A d \in Client, x \in Block : Entitled(d, x)' <=> Entitled(d, x)
      /\ \A d \in Client, x \in Block : Owns(d, x)' <=> Owns(d, x)
      /\ \A d \in Client, x \in Block : DirtyCopy(d, x)' <=> DirtyCopy(d, x)
  BY <1>1, AboveFrame
<1>5. RefillCurrent'
  <2>1. mshr[c].state = "s_wb_resp" /\ gnt[c] = <<>>
    BY <1>1, <1>2 DEF WritebackTokens, AtRt
  <2> QED BY <1>1, <1>2, <2>1, AckData
<1>6. RtCurrent' /\ WbCurrent' /\ DirtyBits'
  BY <1>1, <1>3, <1>4, TakenFrame, DataFrames
<1>7. /\ \A u \in Tracker : \A x : Serving(u, x)' <=> Serving(u, x)
      /\ \A m \in Line : Taken(m)' <=> Taken(m)
  BY <1>1 DEF Serving, Taken
<1>8. /\ Unserved(b) /\ ~ Taken(n) /\ \A m \in Line : meta[m].tag = b => m = n
      /\ \A u \in Tracker : \A x : Serving(u, x) => trk[u].line # n
  <2>1. Unserved(b) /\ ~ Taken(n)
    BY <1>1, <1>2, <1>3, RtPlace
  <2>2. \A u \in Tracker : \A x : Serving(u, x) => trk[u].line # n
    BY <1>1, <1>2, <1>3, RtPlace DEF Serving
  <2>3. \A m \in Line : meta[m].tag = b => m = n
    BY <1>3, L2CacheAssumption DEF MetaShape
  <2> QED BY <2>1, <2>2, <2>3
<1>9. ASSUME NEW x \in Block, x # b PROVE InPlace(x)'
  <2>1. Newer(x) => Newer(x)'
    <3>1. \A i \in DOMAIN rel : Carries(i, x) => Carries(i, x)'
      BY <1>1 DEF Carries
    <3> QED BY <1>1, <1>2, <1>4, <1>9, <3>1 DEF Newer
  <2>2. \A u \in Tracker : Serving(u, x) => data'[trk[u].line] = data[trk[u].line]
    BY <1>3, <1>8, TypeFacts
  <2>3. \A m \in Line : meta[m].tag = x => data'[m] = data[m]
    BY <1>3, <1>9
  <2> QED BY <1>1, <1>2, <1>7, <1>9, <2>1, <2>2, <2>3, InPlaceKept
<1>10. InPlace(b)'
  <2>1. Unserved(b)' /\ ~ Absent(b)'
    BY <1>1, <1>3, <1>7, <1>8 DEF Unserved, Absent
  <2>2. LineOK(b, n)'
    BY <1>1, <1>3 DEF LineOK
  <2> QED BY <1>1, <1>3, <1>8, <2>1, <2>2 DEF InPlace, Unserved
<1> QED BY <1>4, <1>5, <1>6, <1>9, <1>10

\* The entry is written, with the line dirty.
LEMMA RtMetaWriteData ==
  ASSUME IInv, DInv, RtMetaWrite
  PROVE  DInv'
<1> USE DEF IInv, DInv
<1>1. /\ UNCHANGED <<l1, mshr, rel, gnt, data, trk, wb, mem, latest>> /\ rt.state = "s_meta_write"
      /\ meta' = [meta EXCEPT ![rt.line] = [tag |-> rt.rel.blk, coh |-> onRelease(rt.old, rt.rel)]]
      /\ rt' = NoRt
  BY DEF RtMetaWrite, l1vars
<1>2. PICK b \in Block, c \in Client, n \in Line : b = rt.rel.blk /\ c = rt.rel.client /\ n = rt.line
  BY <1>1 DEF Types, RtRec, RtShape, ReleaseMsg
<1>3. /\ rt'.state = "s_idle" /\ meta[n].tag = b /\ c \in meta[n].coh.sharers
      /\ meta'[n].tag = b /\ meta'[n].coh.dirty
      /\ \A m \in Line : m # n => meta'[m] = meta[m]
  <2>1. meta[n].tag = b /\ c \in meta[n].coh.sharers /\ rt.rel.data # NoValue /\ rt.rel \in ReleaseMsg
    BY <1>1, <1>2 DEF RtCurrent, RtShape
  <2>2. onRelease(rt.old, rt.rel).dirty
    <3>1. rt.old \in Coh
      BY DEF Types, RtRec
    <3> QED BY <2>1, <3>1 DEF onRelease, Coh
  <2>3. PICK o : o = onRelease(rt.old, rt.rel) /\ o.dirty
    BY <2>2
  <2>4. meta' = [meta EXCEPT ![n] = [tag |-> b, coh |-> o]]
    BY <1>1, <1>2, <2>3
  <2> QED BY <1>1, <2>1, <2>3, <2>4 DEF Types, NoRt
<1>4. /\ L1Current' /\ WritebackCurrent' /\ AnswerCurrent' /\ RefillCurrent'
      /\ \A d \in Client, x \in Block : Entitled(d, x)' <=> Entitled(d, x)
      /\ \A d \in Client, x \in Block : Owns(d, x)' <=> Owns(d, x)
      /\ \A d \in Client, x \in Block : DirtyCopy(d, x)' <=> DirtyCopy(d, x)
  BY <1>1, AboveFrame
<1>5. RtCurrent' /\ WbCurrent'
  <2>1. WbCurrent'
    BY <1>1, <1>4, TakenFrame
  <2> QED BY <1>3, <2>1 DEF RtCurrent
<1>6. DirtyBits'
  <2> SUFFICES ASSUME NEW u \in Tracker PROVE DirtyBits!(u)'
    BY DEF DirtyBits
  <2>1. trk[u].state = "s_wb_req" /\ trk[u].old.sharers = {} => trk[u].line # n
    BY <1>3 DEF TrackerShape
  <2>2. trk[u].state = "s_wb_req" /\ trk[u].old.sharers = {} => meta'[trk[u].line] = meta[trk[u].line]
    BY <1>3, <2>1, TypeFacts
  <2> QED BY <1>1, <2>2 DEF DirtyBits, Serving
<1>7. \A x \in Block : Newer(x) => Newer(x)'
  BY <1>1, <1>4, NewerKept
<1>8. /\ \A u \in Tracker : \A x : Serving(u, x)' <=> Serving(u, x)
      /\ \A m \in Line : Taken(m)' <=> Taken(m)
      /\ \A m \in Line : meta'[m].tag = meta[m].tag
  BY <1>1, <1>3 DEF Serving, Taken
<1>9. /\ Unserved(b) /\ ~ Taken(n) /\ \A m \in Line : meta[m].tag = b => m = n
  BY <1>1, <1>2, <1>3, RtPlace, L2CacheAssumption DEF MetaShape
<1>10. ASSUME NEW x \in Block, x # b PROVE InPlace(x)'
  <2>1. \A m \in Line : meta[m].tag = x => meta'[m] = meta[m]
    BY <1>3, <1>10
  <2> QED BY <1>1, <1>2, <1>7, <1>8, <1>10, <2>1, InPlaceKept
<1>11. InPlace(b)'
  <2>1. Unserved(b)' /\ ~ Absent(b)'
    BY <1>3, <1>8, <1>9 DEF Unserved, Absent
  <2>2. LineOK(b, n)'
    BY <1>1, <1>3, <1>7, <1>9 DEF LineOK, InPlace
  <2> QED BY <1>3, <1>8, <1>9, <2>1, <2>2 DEF InPlace, Unserved
<1> QED BY <1>4, <1>5, <1>6, <1>10, <1>11

-----------------------------------------------------------------------------
(***************************************************************************)
(* Steps of the write-back unit.                                           *)
(***************************************************************************)

\* The block that is evicted is in the line the directory says, and once its sharers have
\* answered nothing newer is above, but for what the unit has taken.
LEMMA EvictedBlock ==
  ASSUME IInv, wb.state # "s_idle"
  PROVE  /\ wb.blk \in Block /\ wb.line \in Line /\ Unserved(wb.blk)
         /\ ~ Taken(wb.line) /\ meta[wb.line].tag = wb.blk
         /\ \A n \in Line : meta[n].tag = wb.blk => n = wb.line
         /\ ~ (rt.state # "s_idle" /\ rt.rel.blk = wb.blk)
         /\ wb.iprbs = {} /\ wb.irels = 0 /\ wb.buf = NoValue => ~ Newer(wb.blk)
<1> USE DEF IInv
<1>1. PICK t \in Tracker, b \in Block, n \in Line :
        /\ t = wb.trk /\ b = wb.blk /\ n = wb.line /\ trk[t].state = "s_wb_resp" /\ trk[t].line = n
        /\ meta[n].tag = b
  BY TypeFacts DEF WbShape
<1>2. \A u \in Tracker : Busy(u) /\ trk[u].blk = b => u = t
  BY <1>1, OneUnit
<1>3. Unserved(b)
  BY <1>1, <1>2 DEF Unserved, Serving, Busy
<1>4. ~ Taken(n)
  <2>1. Taken(trk[t].line) => trk[t].state \in {"s_outer_acquire", "s_busy", "s_meta_write"}
    BY <1>1, LineApart
  <2> QED BY <1>1, <2>1
<1>5. \A m \in Line : meta[m].tag = b => m = n
  BY <1>1, L2CacheAssumption DEF MetaShape
<1>6. ~ (rt.state # "s_idle" /\ rt.rel.blk = b)
  <2>1. rt.state # "s_idle" /\ meta[trk[t].line].tag = rt.rel.blk => trk[t].state = "s_wb_req"
    BY <1>1, RtPlace
  <2> QED BY <1>1, <2>1
<1>7. ASSUME wb.iprbs = {}, wb.irels = 0, wb.buf = NoValue PROVE ~ Newer(b)
  <2>1. /\ \A d \in Client : ~ Entitled(d, b)
        /\ wb.state = "s_inner_probe" => Out(b) = {}
    BY <1>1, <1>7, NobodyEntitled
  <2>2. \A d \in Client : ~ DirtyCopy(d, b)
    BY <2>1 DEF DirtyCopy, Entitled, Holds
  <2>3. ASSUME NEW i \in DOMAIN rel, rel[i].blk = b PROVE FALSE
    <3>1. rel[i].client \in Client
      BY <2>3, TypeFacts
    <3>2. ~ rel[i].voluntary
      BY <2>1, <2>3, <3>1 DEF Entitled, VolMsg
    <3>3. Prober(rel[i].client, b, rel[i].ptype)
      BY <2>3, <3>2 DEF ProbesMatched
    <3>4. wb.state = "s_inner_probe"
      BY <1>1, <1>2, <3>3 DEF Prober, Busy
    <3>5. rel[i].client \in Out(b)
      BY <2>3, <3>1, <3>2 DEF Out, Answered, AnsMsg
    <3> QED BY <2>1, <3>4, <3>5
  <2>4. \A i \in DOMAIN rel : ~ Carries(i, b)
    BY <2>3 DEF Carries
  <2> QED BY <1>6, <1>7, <2>2, <2>4 DEF Newer
<1> QED BY <1>1, <1>3, <1>4, <1>5, <1>6, <1>7

\* The unit goes on when the sharers have answered; memory may get the value of the block.
LEMMA WbMovesData ==
  ASSUME IInv, DInv, NEW s \in {"s_meta_read", "s_busy", "s_wb_resp"}, wb.state # "s_idle",
         wb' = [wb EXCEPT !.state = s],
         UNCHANGED <<l1, mshr, rel, gnt, meta, data, trk, rt, latest>>,
         s = "s_meta_read" => wb.buf = NoValue,
         s = "s_wb_resp" => mem'[wb.blk] = latest[wb.blk],
         \A x \in Block : x # wb.blk => mem'[x] = mem[x],
         mem'[wb.blk] \in {mem[wb.blk], latest[wb.blk]}
  PROVE  DInv'
<1> USE DEF IInv, DInv
<1>1. PICK b \in Block, n \in Line : b = wb.blk /\ n = wb.line
  BY EvictedBlock
<1>2. /\ Unserved(b) /\ ~ Taken(n) /\ meta[n].tag = b
      /\ \A m \in Line : meta[m].tag = b => m = n
  BY <1>1, EvictedBlock
<1>3. wb'.state = s /\ wb'.blk = b /\ wb'.coh = wb.coh /\ wb'.buf = wb.buf
  BY <1>1 DEF Types, WbRec
<1>4. /\ L1Current' /\ WritebackCurrent' /\ AnswerCurrent' /\ RefillCurrent'
      /\ \A d \in Client, x \in Block : Entitled(d, x)' <=> Entitled(d, x)
      /\ \A d \in Client, x \in Block : Owns(d, x)' <=> Owns(d, x)
      /\ \A d \in Client, x \in Block : DirtyCopy(d, x)' <=> DirtyCopy(d, x)
  BY AboveFrame
<1>5. RtCurrent' /\ DirtyBits'
  BY <1>4, TakenFrame, DataFrames
<1>6. WbCurrent'
  <2>1. wb.buf # NoValue => /\ wb.buf = latest[b] /\ wb.coh.dirty
                            /\ \A d \in Client : ~ Entitled(d, b)
    BY <1>1 DEF WbCurrent
  <2> QED BY <1>1, <1>3, <1>4, <2>1 DEF WbCurrent
<1>7. \A x \in Block : Newer(x) => Newer(x)'
  BY <1>1, <1>3, <1>4, NewerKept
<1>8. /\ \A u \in Tracker : \A x : Serving(u, x)' <=> Serving(u, x)
      /\ \A m \in Line : Taken(m)' <=> Taken(m)
  BY DEF Serving, Taken
<1>9. ASSUME NEW x \in Block, mem'[x] = mem[x] PROVE InPlace(x)'
  BY <1>7, <1>8, <1>9, InPlaceKept
<1>10. ASSUME mem'[b] = latest[b] PROVE InPlace(b)'
  <2>1. Unserved(b)' /\ MemOK(b)'
    BY <1>2, <1>8, <1>10 DEF Unserved, MemOK
  <2>2. LineOK(b, n)
    BY <1>2 DEF InPlace
  <2>3. LineOK(b, n)'
    BY <1>7, <2>2 DEF LineOK
  <2> QED BY <1>2, <1>8, <1>10, <2>1, <2>3 DEF InPlace, Unserved
<1> QED BY <1>1, <1>4, <1>5, <1>6, <1>9, <1>10

\* The steps themselves.  A request that was clean is looked up again; then a clean line has the
\* value memory has, and a dirty one, or what came with a release, is the value to write.
LEMMA WbMoveStepsData ==
  ASSUME IInv, DInv, WbProbesDone \/ WbMetaResp \/ WbOuterRelease
  PROVE  DInv'
<1> USE DEF IInv, DInv
<1>1. /\ UNCHANGED <<l1, mshr, rel, gnt, meta, data, trk, rt, latest>>
      /\ wb.state # "s_idle" /\ wb.iprbs = {} /\ wb.irels = 0
  BY DEF WbProbesDone, WbMetaResp, WbOuterRelease, l1vars, WbShape
<1>2. PICK b \in Block, n \in Line : b = wb.blk /\ n = wb.line
  BY <1>1, EvictedBlock
<1>3. /\ LineOK(b, n) /\ (meta[n].coh.dirty \/ MemOK(b))
      /\ wb.buf = NoValue => ~ Newer(b)
  <2>1. /\ Unserved(b) /\ ~ Taken(n) /\ meta[n].tag = b
        /\ ~ (rt.state # "s_idle" /\ rt.rel.blk = b)
        /\ wb.buf = NoValue => ~ Newer(b)
    BY <1>1, <1>2, EvictedBlock
  <2> QED BY <2>1 DEF InPlace
<1>4. CASE WbProbesDone
  <2>1. /\ wb' = [wb EXCEPT !.state = IF wb.coh.dirty THEN "s_busy" ELSE "s_meta_read"] /\ mem' = mem
    BY <1>4 DEF WbProbesDone
  <2>2. ~ wb.coh.dirty => wb.buf = NoValue
    BY <1>1 DEF WbCurrent
  <2> QED BY <1>1, <2>1, <2>2, WbMovesData
<1>5. CASE WbMetaResp
  <2>1. /\ wb' = [wb EXCEPT !.state = IF meta[n].coh.dirty THEN "s_busy" ELSE "s_wb_resp"] /\ mem' = mem
        /\ wb.state = "s_meta_read"
    BY <1>2, <1>5 DEF WbMetaResp
  <2>2. ~ meta[n].coh.dirty => mem[b] = latest[b]
    BY <1>3, <2>1 DEF WbCurrent, MemOK
  <2> QED BY <1>1, <1>2, <2>1, <2>2, WbMovesData
<1>6. CASE WbOuterRelease
  <2>1. /\ wb' = [wb EXCEPT !.state = "s_wb_resp"]
        /\ mem' = [mem EXCEPT ![b] = IF wb.buf = NoValue THEN data[n] ELSE wb.buf]
    BY <1>2, <1>6 DEF WbOuterRelease
  <2>2. (IF wb.buf = NoValue THEN data[n] ELSE wb.buf) = latest[b]
    BY <1>1, <1>2, <1>3 DEF WbCurrent, LineOK
  <2>3. mem'[b] = latest[b] /\ \A x \in Block : x # b => mem'[x] = mem[x]
    BY <2>1, <2>2 DEF Types
  <2> QED BY <1>1, <1>2, <2>1, <2>3, WbMovesData
<1> QED BY <1>4, <1>5, <1>6

\* The line is free: memory has what was in it.
LEMMA WbRespData ==
  ASSUME IInv, DInv, WbResp
  PROVE  DInv'
<1> USE DEF IInv, DInv
<1>1. /\ UNCHANGED <<l1, mshr, rel, gnt, meta, data, rt, mem, latest>>
      /\ wb.state = "s_wb_resp" /\ wb' = NoWb
      /\ trk' = [trk EXCEPT ![wb.trk].state = "s_outer_acquire"]
  BY DEF WbResp, l1vars
<1>2. PICK t \in Tracker, b \in Block, n \in Line :
        /\ t = wb.trk /\ b = wb.blk /\ n = wb.line /\ trk[t].state = "s_wb_resp" /\ trk[t].line = n
  BY <1>1, TypeFacts DEF WbShape
<1>3. /\ Unserved(b) /\ meta[n].tag = b /\ mem[b] = latest[b]
      /\ \A m \in Line : meta[m].tag = b => m = n
  <2>1. mem[b] = latest[b]
    BY <1>1, <1>2 DEF WbCurrent
  <2> QED BY <1>1, <1>2, <2>1, EvictedBlock
<1>4. wb'.state = "s_idle"
  BY <1>1 DEF NoWb
<1>5. /\ \A u \in Tracker : u # t => trk'[u] = trk[u]
      /\ trk'[t].state = "s_outer_acquire" /\ trk'[t].line = n
  <2>1. trk \in [Tracker -> TrackerRec(Int)] /\ trk' = [trk EXCEPT ![t].state = "s_outer_acquire"]
    BY <1>1, <1>2 DEF Types
  <2> QED BY <1>2, <2>1 DEF TrackerRec
<1>6. /\ L1Current' /\ WritebackCurrent' /\ AnswerCurrent' /\ RefillCurrent'
      /\ \A d \in Client, x \in Block : Entitled(d, x)' <=> Entitled(d, x)
      /\ \A d \in Client, x \in Block : Owns(d, x)' <=> Owns(d, x)
      /\ \A d \in Client, x \in Block : DirtyCopy(d, x)' <=> DirtyCopy(d, x)
  BY <1>1, AboveFrame
<1>7. RtCurrent' /\ WbCurrent'
  <2>1. RtCurrent'
    BY <1>1, <1>6, TakenFrame
  <2> QED BY <1>4, <2>1 DEF WbCurrent
<1>8. DirtyBits'
  <2> SUFFICES ASSUME NEW u \in Tracker PROVE DirtyBits!(u)'
    BY DEF DirtyBits
  <2>1. CASE u # t
    BY <1>1, <1>5, <2>1 DEF DirtyBits, Serving
  <2>2. CASE u = t
    BY <1>5, <2>2 DEF Serving
  <2> QED BY <2>1, <2>2
<1>9. \A u \in Tracker : \A x : Serving(u, x)' <=> Serving(u, x)
  BY <1>2, <1>5 DEF Serving
<1>10. ASSUME NEW x \in Block, x # b PROVE InPlace(x)'
  <2>1. Newer(x) => Newer(x)'
    <3>1. \A i \in DOMAIN rel : Carries(i, x) => Carries(i, x)'
      BY <1>1 DEF Carries
    <3> QED BY <1>1, <1>2, <1>6, <1>10, <3>1 DEF Newer
  <2>2. \A u \in Tracker : Serving(u, x) => trk'[u] = trk[u]
    BY <1>2, <1>5 DEF Serving
  <2>3. \A m \in Line : m # n => (Taken(m)' <=> Taken(m))
    BY <1>2, <1>5 DEF Taken
  <2>4. \A m \in Line : meta[m].tag = x => (Taken(m)' <=> Taken(m))
    BY <1>3, <1>10, <2>3
  <2> QED BY <1>1, <1>9, <2>1, <2>2, <2>4, InPlaceKept
<1>11. InPlace(b)'
  <2>1. Unserved(b)' /\ Taken(n)'
    BY <1>3, <1>5, <1>9 DEF Unserved, Taken
  <2> QED BY <1>1, <1>3, <2>1 DEF InPlace, Unserved
<1> QED BY <1>6, <1>7, <1>8, <1>10, <1>11

\* A request to evict.  One that needs nothing more is about a line as clean as it was read,
\* which nobody has a copy of.
LEMMA WbReqData ==
  ASSUME IInv, DInv, NEW t \in Tracker, WbReq(t)
  PROVE  DInv'
<1> USE DEF IInv, DInv
<1>1. /\ UNCHANGED <<l1, mshr, rel, gnt, meta, data, rt, mem, latest>>
      /\ trk[t].state = "s_wb_req" /\ wb.state = "s_idle" /\ rt.state = "s_idle"
      /\ trk' = [trk EXCEPT ![t].state = "s_wb_resp", ![t].victim = NoBlock, ![t].old = cohOnReset]
  BY DEF WbReq, l1vars, wb_req_enable
<1>2. PICK k \in TrackerRec(Int) : k = trk[t]
  BY DEF Types
<1>3. PICK b \in Block, n \in Line :
        /\ b = k.victim /\ n = k.line /\ meta[n].tag = b /\ meta[n].coh.sharers \subseteq k.old.sharers
  BY <1>1, <1>2 DEF TrackerShape, TrackerRec
<1>4. PICK s \in {"s_inner_probe", "s_busy", "s_wb_resp"} :
        s = IF k.old.sharers # {} THEN "s_inner_probe"
            ELSE IF k.old.dirty THEN "s_busy" ELSE "s_wb_resp"
  OBVIOUS
<1>5. wb' = [NoWb EXCEPT !.trk = t, !.blk = b, !.line = k.line, !.coh = k.old,
                         !.iprbs = k.old.sharers, !.state = s]
  BY <1>2, <1>3, <1>4 DEF WbReq
<1>6. wb'.state = s /\ wb'.blk = b /\ wb'.buf = NoValue
  BY <1>5 DEF NoWb
<1>7. /\ \A u \in Tracker : u # t => trk'[u] = trk[u]
      /\ trk'[t].state = "s_wb_resp"
  BY <1>1 DEF Types, TrackerRec
<1>8. /\ L1Current' /\ WritebackCurrent' /\ AnswerCurrent' /\ RefillCurrent'
      /\ \A d \in Client, x \in Block : Entitled(d, x)' <=> Entitled(d, x)
      /\ \A d \in Client, x \in Block : Owns(d, x)' <=> Owns(d, x)
      /\ \A d \in Client, x \in Block : DirtyCopy(d, x)' <=> DirtyCopy(d, x)
  BY <1>1, AboveFrame
<1>9. RtCurrent'
  BY <1>1, <1>8, TakenFrame
<1>10. DirtyBits'
  <2> SUFFICES ASSUME NEW u \in Tracker PROVE DirtyBits!(u)'
    BY DEF DirtyBits
  <2>1. CASE u # t
    BY <1>1, <1>7, <2>1 DEF DirtyBits, Serving
  <2>2. CASE u = t
    BY <1>7, <2>2 DEF Serving
  <2> QED BY <2>1, <2>2
<1>11. \A x \in Block : Newer(x) => Newer(x)'
  BY <1>1, <1>8, NewerKept
<1>12. /\ \A u \in Tracker : \A x : Serving(u, x)' <=> Serving(u, x)
       /\ \A m \in Line : Taken(m)' <=> Taken(m)
       /\ \A u \in Tracker : \A x : Serving(u, x) => trk'[u] = trk[u]
  BY <1>1, <1>7 DEF Serving, Taken
<1>13. \A x \in Block : InPlace(x)'
  BY <1>1, <1>11, <1>12, InPlaceKept
<1>14. ASSUME s = "s_wb_resp" PROVE mem[b] = latest[b]
  <2>1. k.old.sharers = {} /\ ~ k.old.dirty
    BY <1>4, <1>14
  <2>2. ~ meta[n].coh.dirty /\ meta[n].coh.sharers = {}
    <3>1. ~ meta[trk[t].line].coh.dirty
      BY <1>1, <1>2, <2>1 DEF DirtyBits
    <3> QED BY <1>2, <1>3, <2>1, <3>1
  <2>3. \A u \in Tracker : Busy(u) /\ trk[u].blk = b => u = t
    BY <1>1, <1>2, <1>3, OneUnit
  <2>4. \A u \in Tracker : Busy(u) /\ trk[u].blk = b => trk[u].state = "s_wb_req"
    BY <1>1, <2>3
  <2>5. Unserved(b)
    BY <2>4 DEF Unserved, Serving, Busy
  <2>6. ~ Taken(n)
    <3>1. Taken(trk[t].line) => trk[t].state \in {"s_outer_acquire", "s_busy", "s_meta_write"}
      BY <1>1, LineApart
    <3> QED BY <1>1, <1>2, <1>3, <3>1
  <2>7. \A m \in Line : meta[m].tag = b => m = n
    BY <1>3, L2CacheAssumption DEF MetaShape
  <2>8. \A d \in Client : ~ Entitled(d, b)
    BY <2>2, <2>5, <2>7 DEF Listed, Lists, Unserved
  <2>9. \A d \in Client : ~ DirtyCopy(d, b)
    BY <2>8 DEF DirtyCopy, Entitled, Holds
  <2>10. ASSUME NEW i \in DOMAIN rel, rel[i].blk = b PROVE FALSE
    <3>1. rel[i].client \in Client
      BY <2>10, TypeFacts
    <3>2. ~ rel[i].voluntary
      BY <2>8, <2>10, <3>1 DEF Entitled, VolMsg
    <3>3. Prober(rel[i].client, b, rel[i].ptype)
      BY <2>10, <3>2 DEF ProbesMatched
    <3> QED BY <1>1, <2>4, <3>3 DEF Prober, Busy
  <2>11. ~ Newer(b)
    BY <1>1, <2>9, <2>10 DEF Newer, Carries
  <2>12. meta[n].coh.dirty \/ MemOK(b) \/ (rt.state # "s_idle" /\ rt.rel.blk = b)
    BY <1>3, <2>5, <2>6 DEF InPlace
  <2> QED BY <1>1, <2>2, <2>11, <2>12 DEF MemOK
<1>15. WbCurrent'
  BY <1>1, <1>4, <1>6, <1>14 DEF WbCurrent
<1> QED BY <1>8, <1>9, <1>10, <1>13, <1>15

-----------------------------------------------------------------------------
(***************************************************************************)
(* The invariant.                                                          *)
(***************************************************************************)

\* After reset memory has everything.
LEMMA InitDInv ==
  ASSUME Init
  PROVE  DInv
<1>1. /\ l1 = [c \in Client |-> [w \in L1Way |-> [tag |-> NoBlock, st |-> "I", data |-> NoValue]]]
      /\ mshr = [c \in Client |-> NoMshr] /\ rel = <<>> /\ gnt = [c \in Client |-> <<>>]
      /\ meta = [n \in Line |-> [tag |-> NoBlock, coh |-> cohOnReset]]
      /\ trk = [t \in Tracker |-> NoTrk] /\ rt = NoRt /\ wb = NoWb
      /\ mem \in [Block -> Value] /\ latest = mem
  BY DEF Init
<1>2. /\ \A c \in Client : mshr[c] = NoMshr /\ gnt[c] = <<>> /\ \A w \in L1Way : l1[c][w].st = "I"
      /\ \A n \in Line : meta[n].tag = NoBlock
      /\ \A t \in Tracker : trk[t] = NoTrk
  BY <1>1
<1>3. /\ NoTrk.state = "s_idle" /\ NoMshr.state = "s_invalid" /\ NoRt.state = "s_idle"
      /\ NoWb.state = "s_idle" /\ DOMAIN rel = {}
  BY <1>1 DEF NoTrk, NoMshr, NoRt, NoWb
<1>4. L1Current /\ RefillCurrent
  BY <1>2, <1>3 DEF L1Current, Live, RefillCurrent
<1>5. WritebackCurrent /\ AnswerCurrent
  BY <1>3 DEF WritebackCurrent, AnswerCurrent
<1>6. RtCurrent /\ WbCurrent
  BY <1>1, <1>3 DEF RtCurrent, WbCurrent
<1>7. DirtyBits
  BY <1>2, <1>3 DEF DirtyBits, Serving
<1>8. \A b \in Block : InPlace(b)
  BY <1>1, <1>2, <1>3, L2CacheAssumption DEF InPlace, Serving
<1> QED BY <1>4, <1>5, <1>6, <1>7, <1>8 DEF DInv

\* Every step preserves the invariant.
LEMMA NextDInv ==
  ASSUME IInv, DInv, [Next]_vars
  PROVE  DInv'
<1>1. CASE Request
  BY <1>1, StoreHitData, MissData, MshrData, QuietData DEF Request
<1>2. ASSUME NEW c \in Client, MshrStep(c) \/ SendFinish(c) \/ ReceiveProbe(c) PROVE DInv'
  BY <1>2, SendWritebackData, MetaClearData, MshrData, ReceiveGrantData, ReplayData,
     QuietData, ReceiveProbeData DEF MshrStep
<1>3. ASSUME NEW t \in Tracker, TrackerStep(t) PROVE DInv'
  BY <1>3, MetaRespData, WbReqData, ProbesDoneData, RefillData, QuietData, SendGrantData,
     DoneData, MetaWriteData DEF TrackerStep
<1>4. CASE RtStep
  BY <1>4, QuietData, RtAckData, RtMetaWriteData DEF RtStep
<1>5. CASE WbStep
  BY <1>5, QuietData, WbMoveStepsData, WbRespData DEF WbStep
<1>6. CASE TakeAcquire
  BY <1>6, QuietData DEF TakeAcquire
<1>7. CASE TakeRelease
  BY <1>7, MergeReleaseData, WbReleaseData, RtAcceptData DEF TakeRelease
<1>8. CASE UNCHANGED vars
  BY <1>8, QuietData
<1> QED BY <1>1, <1>2, <1>3, <1>4, <1>5, <1>6, <1>7, <1>8 DEF Next, Step

\* The value last written to a block is where the invariant says, in every reachable state.
LEMMA DataInvariance == Spec => [](IInv /\ DInv)
<1>1. Init => DInv
  BY InitDInv
<1>2. IInv /\ DInv /\ [Next]_vars => DInv'
  BY NextDInv
<1> QED BY <1>1, <1>2, Invariance, PTL DEF Spec

-----------------------------------------------------------------------------
(***************************************************************************)
(* What it shows.                                                          *)
(***************************************************************************)

\* A load that hits in an L1 cache returns the value last written by any client, cached or
\* not, in every interleaving of misses, probes, write-backs, evictions and refills.
THEOREM L1CurrentHolds == Spec => []L1Current
<1>1. IInv /\ DInv => L1Current
  BY DEF DInv
<1> QED BY <1>1, DataInvariance, PTL

\* The line of a tracker that is about to grant, in terms of the invariants.
LEMMA DInvGrantCurrent ==
  ASSUME IInv, DInv
  PROVE  GrantCurrent
<1> USE DEF IInv, DInv
<1> SUFFICES ASSUME NEW t \in Tracker, trk[t].state = "s_busy", trk[t].gnt = "pending",
                    data[trk[t].line] # latest[trk[t].blk]
             PROVE  /\ trk[t].kind = "get"
                    /\ \E c \in Client : \E w \in tag_match_way(c, trk[t].blk) : l1[c][w].st = "M"
  BY DEF GrantCurrent
<1>1. PICK b \in Block : b = trk[t].blk
  BY DEF TrackerShape, Busy
<1>2. Newer(b)
  <2>1. Serving(t, b)
    BY <1>1 DEF Serving
  <2>2. LineOK(b, trk[t].line)
    BY <2>1 DEF InPlace
  <2> QED BY <1>1, <2>2 DEF LineOK
<1>3. trk[t].kind = "get"
  BY <1>1, <1>2, NothingNewer
<1>4. /\ \A i \in DOMAIN rel : ~ rel[i].voluntary => rel[i].blk # b
      /\ rt.state # "s_idle" => rt.rel.blk # b
      /\ wb.state # "s_idle" => wb.blk # b
  BY <1>1, BlockBusy
<1>5. \/ \E c \in Client : DirtyCopy(c, b)
      \/ \E i \in DOMAIN rel : rel[i].voluntary /\ rel[i].blk = b
  BY <1>2, <1>4 DEF Newer, Carries
<1>6. CASE \E c \in Client : DirtyCopy(c, b)
  BY <1>1, <1>3, <1>6 DEF DirtyCopy, tag_match_way
<1>7. CASE \E i \in DOMAIN rel : rel[i].voluntary /\ rel[i].blk = b
  <2>1. PICK i \in DOMAIN rel : rel[i].voluntary /\ rel[i].blk = b
    BY <1>7
  <2>2. PICK c \in Client : c = rel[i].client
    BY <2>1, TypeFacts
  <2>3. mshr[c].state = "s_wb_resp" /\ l1[c][mshr[c].way].tag = b /\ mshr[c].way \in L1Way
    BY <2>1, <2>2, TypeFacts DEF WritebackTokens, VolMsg
  <2>4. l1[c][mshr[c].way].st = "M"
    BY <2>3 DEF L1Shape
  <2> QED BY <1>1, <1>3, <2>3, <2>4 DEF tag_match_way
<1> QED BY <1>5, <1>6, <1>7

\* What a tracker is about to grant is the value last written, whether it comes from memory
\* after an eviction, from a probed owner or from a release that was merged; only a get, which
\* leaves the owner its rights, may see the value the owner had when it was probed.
THEOREM GrantCurrentHolds == Spec => []GrantCurrent
<1>1. IInv /\ DInv => GrantCurrent
  BY DInvGrantCurrent
<1> QED BY <1>1, DataInvariance, PTL

-----------------------------------------------------------------------------
(***************************************************************************)
(* Types.                                                                  *)
(***************************************************************************)

\* What the type invariant adds: memory has a value for every block, and the write-back unit
\* waits for nothing when it is idle.
MemoryFull ==
  mem \in [Block -> Value] /\ (wb.state = "s_idle" => wb.irels = 0)

\* Only the write-back unit writes to memory, and what it writes is the value last written.
LEMMA NextMemoryFull ==
  ASSUME IInv, DInv, MemoryFull, [Next]_vars
  PROVE  MemoryFull'
<1> USE DEF IInv, DInv
<1>0. wb \in WbRec(Int) /\ latest \in [Block -> Value] /\ NoWb.irels = 0
  BY DEF Types, NoWb
<1>1. ASSUME UNCHANGED <<mem, wb>> PROVE MemoryFull'
  BY <1>1 DEF MemoryFull
<1>2. CASE Request
  BY <1>1, <1>2 DEF Request, StoreHit, Miss, SecondaryMiss, UncachedAcquire, l2vars
<1>3. ASSUME NEW c \in Client, MshrStep(c) \/ SendFinish(c) \/ ReceiveProbe(c) PROVE MemoryFull'
  BY <1>1, <1>3 DEF MshrStep, SendWriteback, MetaClear, SendAcquire, ReceiveGrant, Replay, SendFinish,
     ReceiveProbe, l2vars
<1>4. ASSUME NEW t \in Tracker, TrackerStep(t) PROVE MemoryFull'
  <2>1. CASE WbReq(t)
    <3>1. mem' = mem
      BY <2>1 DEF WbReq
    <3>2. wb'.state \in {"s_inner_probe", "s_busy", "s_wb_resp"}
      BY <2>1 DEF WbReq, NoWb
    <3> QED BY <3>1, <3>2 DEF MemoryFull
  <2>2. CASE ~ WbReq(t)
    BY <1>1, <1>4, <2>2 DEF TrackerStep, MetaResp, SendProbe, ProbesDone, Refill, SendVoluntaryGrant,
       SendGrant, Done, MetaWrite
  <2> QED BY <2>1, <2>2
<1>5. CASE RtStep
  BY <1>1, <1>5 DEF RtStep, RtMetaResp, RtAck, RtMetaWrite
<1>6. CASE WbStep
  <2>1. ASSUME NEW c \in Client, WbSendProbe(c) PROVE MemoryFull'
    <3>1. mem' = mem /\ wb.state = "s_inner_probe" /\ wb' = [wb EXCEPT !.iprbs = @ \ {c}, !.irels = @ + 1]
      BY <2>1 DEF WbSendProbe
    <3>2. wb'.state = "s_inner_probe"
      BY <1>0, <3>1 DEF WbRec
    <3> QED BY <3>1, <3>2 DEF MemoryFull
  <2>2. CASE WbVoluntaryGrant
    <3>1. mem' = mem /\ wb' = [wb EXCEPT !.vol = NoClient]
      BY <2>2 DEF WbVoluntaryGrant
    <3>2. wb'.state = wb.state /\ wb'.irels = wb.irels
      BY <1>0, <3>1 DEF WbRec
    <3> QED BY <3>1, <3>2 DEF MemoryFull
  <2>3. CASE WbProbesDone \/ WbMetaResp
    <3>1. mem' = mem /\ \E s \in {"s_meta_read", "s_busy", "s_wb_resp"} : wb' = [wb EXCEPT !.state = s]
      BY <2>3 DEF WbProbesDone, WbMetaResp
    <3>2. wb'.state # "s_idle"
      BY <1>0, <3>1 DEF WbRec
    <3> QED BY <3>1, <3>2 DEF MemoryFull
  <2>4. CASE WbOuterRelease
    <3>1. /\ wb.state = "s_busy" /\ wb' = [wb EXCEPT !.state = "s_wb_resp"]
          /\ mem' = [mem EXCEPT ![wb.blk] = IF wb.buf = NoValue THEN data[wb.line] ELSE wb.buf]
      BY <2>4 DEF WbOuterRelease
    <3>2. PICK b \in Block : b = wb.blk
      BY <3>1, EvictedBlock
    <3>3. wb'.state = "s_wb_resp" /\ wb'.blk = b
      BY <1>0, <3>1, <3>2 DEF WbRec
    <3>4. mem'[b] = latest[b]
      <4>1. DInv' /\ latest' = latest
        BY <2>4, WbMoveStepsData DEF WbOuterRelease
      <4> QED BY <3>3, <4>1 DEF WbCurrent
    <3>5. mem' = [mem EXCEPT ![b] = latest[b]]
      <4>1. mem' = [mem EXCEPT ![b] = mem'[b]]
        BY <3>1, <3>2 DEF MemoryFull
      <4> QED BY <3>4, <4>1
    <3> QED BY <1>0, <3>3, <3>5 DEF MemoryFull
  <2>5. CASE WbResp
    BY <1>0, <2>5 DEF WbResp, MemoryFull
  <2> QED BY <1>6, <2>1, <2>2, <2>3, <2>4, <2>5 DEF WbStep
<1>7. CASE TakeAcquire
  BY <1>1, <1>7 DEF TakeAcquire, AcceptAcquire
<1>8. CASE TakeRelease
  <2>1. CASE WbRelease
    <3>1. /\ mem' = mem /\ wb.state = "s_inner_probe"
          /\ \E r : wb' = [wb EXCEPT !.coh = onRelease(@, r),
                            !.buf = IF r.data = NoValue THEN @ ELSE r.data,
                            !.irels = IF r.voluntary THEN @ ELSE @ - 1,
                            !.vol = IF r.voluntary THEN r.client ELSE @]
      BY <2>1 DEF WbRelease
    <3>2. wb'.state = "s_inner_probe"
      BY <1>0, <3>1 DEF WbRec
    <3> QED BY <3>1, <3>2 DEF MemoryFull
  <2>2. CASE ~ WbRelease
    BY <1>1, <1>8, <2>2 DEF TakeRelease, MergeRelease, RtAccept
  <2> QED BY <2>1, <2>2
<1>9. CASE UNCHANGED vars
  BY <1>1, <1>9 DEF vars
<1> QED BY <1>2, <1>3, <1>4, <1>5, <1>6, <1>7, <1>8, <1>9 DEF Next, Step

\* A unit counts answers of clients, so no more than there are.
LEMMA AnswersBounded ==
  ASSUME IInv, MemoryFull
  PROVE  TypeOK
<1> USE DEF IInv
<1>1. \A b : Cardinality(Out(b)) \in 0..Cardinality(Client)
  <2> SUFFICES ASSUME NEW b PROVE Cardinality(Out(b)) \in 0..Cardinality(Client)
    OBVIOUS
  <2>1. Out(b) \in SUBSET Client /\ Client \in SUBSET Client
    BY DEF Out
  <2> QED BY <2>1, CardFacts
<1>2. 0 \in 0..Cardinality(Client)
  BY CardFacts
<1>3. \A t \in Tracker : trk[t].irels \in 0..Cardinality(Client)
  BY <1>1, <1>2 DEF ProbesCounted, TrackerShape
<1>4. wb.irels \in 0..Cardinality(Client)
  BY <1>1, <1>2 DEF ProbesCounted, WbShape, MemoryFull
<1>5. trk \in [Tracker -> TrackerRec(0..Cardinality(Client))]
  <2>1. trk \in [Tracker -> TrackerRec(Int)]
    BY DEF Types
  <2>2. \A t \in Tracker : trk[t] \in TrackerRec(0..Cardinality(Client))
    BY <1>3, <2>1 DEF TrackerRec
  <2> QED BY <2>1, <2>2
<1>6. wb \in WbRec(0..Cardinality(Client))
  <2>1. wb \in WbRec(Int)
    BY DEF Types
  <2> QED BY <1>4, <2>1 DEF WbRec
<1> QED BY <1>5, <1>6 DEF TypeOK, Types, MemoryFull

\* The type invariant: the channels hold messages and the units their states, no unit waits for
\* more answers than there are L1 caches, and an eviction never writes a line without data to
\* memory.
THEOREM TypeOKHolds == Spec => []TypeOK
<1>1. Init => MemoryFull
  BY DEF Init, MemoryFull, NoWb
<1>2. IInv /\ DInv /\ MemoryFull /\ [Next]_vars => MemoryFull'
  BY NextMemoryFull
<1>3. IInv /\ MemoryFull => TypeOK
  BY AnswersBounded
<1> QED BY <1>1, <1>2, <1>3, DataInvariance, PTL DEF Spec

=============================================================================
