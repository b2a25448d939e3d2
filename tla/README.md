# The lowRISC chip v0.4: TLA+ models, checks and proofs

This directory models three subsystems of the lowRISC chip v0.4.

* **Tagged memory** with the improved (parallel) tag cache:
  `uncore/src/main/scala/tagcache.scala` and `tag.scala`. Every 64-bit word of
  memory has a few tag bits. They are kept in a *tag table* (TT) at the top of
  memory; one bit of *tag map 0* (TM0) tells whether a table line holds any tag,
  one bit of *tag map 1* (TM1) whether a TM0 line does. The tag cache sits between
  the L2 cache and memory, caches lines of all three levels and adds the tags to
  what passes.
* **Coherence** between the L1 data caches (`rocket/.../nbdcache.scala`) and the
  L2 cache above the tag cache (`uncore/.../cache.scala`, `coherence.scala`).
* **Debug access**: the host library of Open SoC Debug
  (`opensocdebug/software/src`) with the debug modules it talks to
  (`opensocdebug/hardware`), which loads programs, starts the cores and collects
  traces.

## 1. Inventory

| Part | State | Operations | Interacts with |
|---|---|---|---|
| memory trackers (`TCMemXactTracker`, `TCMemAcquireTracker`) | `mt_state`, `tc_state`, `tc_req_sent`, transaction, tag buffer, five flags | accept an acquire, search the hierarchy, lock / write / unlock it, grant | L2 (TileLink), banks, lock table |
| tag trackers, "banks" (`TCTagXactTracker`) | state, transaction, metadata and row buffers | eight operations R FR L FL U I C W on a line, hit and miss | arrays, write-back unit, memory, lock table |
| lock table (`lock_vec` in `TagCache`) | slots: locked, owner, map bit | gate requests, lock, unlock | both kinds of tracker |
| arbitration (`TCTagXactDemux`, `RRArbiter`) | `last_grant` per bank | route a request to its bank, pick one | trackers, initiator |
| initiator (`TCInitiator`) | `rst_cnt` per bank | create the top lines after reset | bank, arbiter |
| metadata and data arrays, PLRU | tag, state, row count, data, replacement state | lookup, write, victim | banks |
| write-back unit | one line buffer | read a line, put it to memory | banks, memory |
| search-order selector | counters, order | count, re-evaluate each period | performance counters, trackers |
| address map (`TagUtil`) | none | `pa2tta`, `pa2tm0a`, ... | everything |
| L1 data cache (`nbdcache.scala`) | metadata and data, one MSHR for a set, finish queue | hit, miss, write-back, acquire, replay, answer a probe | core, L2 (TileLink acquire, release, probe, grant, finish) |
| L2 cache (`cache.scala`) | metadata with a directory of sharers, data, acquire trackers, release tracker, write-back unit | allocate, probe, merge releases, evict, refill, grant | L1 caches, uncached clients, tag cache |
| coherence policy (`coherence.scala`) | none | MESI with a full-map directory | both cache levels |
| debug host library (`software/src`) | call in progress, module table, handlers, two locks with condition variables, log | connect, register access, memory write / read / load, reset, start, STM log, receive | application, receiver thread, debug modules |
| debug modules (`hardware`) | SCM reset register, MAM access in progress, STM buffer and overflow counter | register access, memory access, trace | debug ring, cores, memory |
| broadcast hub, TileLink converters, devices, Rocket core, daemon | | | not modelled, see section 7 |

What is hard here: several memory trackers search and update the same lines
without a global lock; each request passes a lock check, an arbiter and a bank
that may be refilling; writes are answered before they are done; lines below
the top are never initialised, so a map bit that is wrong by one step exposes
whatever memory held; lines are created, dropped and evicted under a search.
In the caches voluntary releases cross probes and evictions of the same block, the
directory does not know which sharer is exclusive, clean lines vanish silently, and
misses, probes, releases and finishes wait for one another. In the debug library
two threads meet in condition variables without a predicate, answers are
recognised by nothing but their order, writes are posted, and a full link can
stop every party.

What makes it correct, by part:

* trackers: a read returns the tags last written to its block, however searches,
  updates and evictions interleave; a block has one transaction at a time;
* hierarchy: at rest every search order finds the same tags;
* locks: exclusive, none is lost or left behind, a full table never deadlocks;
* banks: each answer meets the request it belongs to; row counts are exact;
* arbitration: nobody starves;
* initiator: its creates do not disturb the trackers;
* selector: a period is complete, the order follows the hit ratio;
* address map: levels do not overlap, a bit stands for one line, a lock for one
  bit;
* caches: a writer is alone, every hit and every grant has the value last
  written, the directory knows every copy, every message finds the unit that
  waits for it, every request ends;
* debug library: no wake-up is lost, an answer meets its request, a read returns
  what was written, a trace has no silent gap, every call returns.

The list of hazards, each at its source line and with the properties that would
catch it, is in `PROJECT.json`.

## 2. Modules

| Module | What it is |
|---|---|
| `TagCache` | the whole tag cache, one action per operation |
| `TaggedMemory` | abstract specification: what the tag cache promises to the L2 |
| `MCTagCache` | small hierarchies and a restricted traffic for TLC |
| `TagCacheProofs` | theorems about `TagCache`: types, locks, handshake, row counts |
| `TagCacheDataProofs` | theorems about `TagCache`: the tags, and the refinement of `TaggedMemory` |
| `TagUtil`, `TagUtilProofs` | address map, and theorems about it |
| `TCSearchOrderSelector`, `TCSearchOrderSelectorProofs` | order selector, cycle by cycle, and theorems |
| `L2Cache` | L1 data caches, uncached clients and an L2 bank over memory |
| `L2CacheProofs` | coherence: who may have a copy, and who waits for whom |
| `L2CacheDataProofs` | coherence: where the value last written is |
| `MCL2Cache` | instances of it: two blocks that compete for one L2 line |
| `OsdHost` | application and receiver thread of the debug library, and the debug modules |
| `OsdHostProofs` | one access at a time: requests and their answers, handlers, trace events |
| `OsdHostDataProofs` | the bytes written and read, and the theorems about `OsdHost` |
| `MCOsdHost` | an instance of it: SCM, UART, MAM, STM and a core trace module |

### TagCache

A line is the set of its bits that are 1. Everything that is addressed is a
*hold*: a block holds tag bits in its TT line, a TT line one bit in its TM0
line, a TM0 line one bit in its TM1 line; `Up` maps a hold to its line. `Row`
and `Byte` say where in the line the hold is, `BankOf` and `SetOf` where the line
is cached.

| Action | Code |
|---|---|
| `AcquireGet`, `AcquirePut` | the last beat of an acquire is accepted: allocation, block exclusion, first search state |
| `Retire` | outer transaction over, last inner grant sent; a read waits for its tags, a write does not |
| `Grant` | round-robin choice among the requests that are not gated by a lock; the bank takes one |
| `LookupLock`, `HitRead`, `HitWrite`, `HitInvalidate`, `MissPass`, `MissFetch`, `MissCreate` | a bank from the metadata lookup (MR) to the lock step (L) |
| `Finish` | state L: lock or unlock the map bit, answer all but writes, become idle |
| `Initiate` | a create of the initiator |

The tracker's side of an answer (`Respond`) is part of the action that sends it:
`NextTcState`, `NextMemData` and `NextFlag` are the three blocks of
`TCMemXactTracker` that react to `io.tc.resp.valid`. The states between MR and L
are one step because only this bank works on the lines of its sets (a set belongs
to one bank, an assumption of the module that follows from both being indexed by
the low bits of the line number) and nothing else is visible outside in between,
except the early answer of writes, which is sent in MR and kept apart from
`Finish`.

`Init` is the state when the initiators have finished: top lines zero, in the
cache or already written back; with empty-line avoidance every other line of
memory is arbitrary. `InitCold` is the reset state with arbitrary memory.

Which initiator creates which line is the constant `Dealt`. The code deals the
lines out in turn, starting with initiator 0 at `resetBase`
(`tagcache.scala:1127-1144`), while a request goes to the bank that its absolute
line number names (`tagcache.scala:1162-1168`). The two agree if the first line
is one of bank 0; otherwise every initiator creates the lines of another bank,
and all the assumption says is that two lines have one initiator exactly if they
have one bank. The runs from reset have the lines in turn (`InTurn`). Dealt out
shifted by one bank (`Shifted`, for a single top line with an odd number and two
banks) a tracker can moreover fetch the top line from uninitialised memory, since
nothing holds back its bank while another one's initiator has yet to create the
line; TLC then finds `ReadCorrect` violated, while the theorems about `SpecCold` hold
for every `Dealt`. Until the initiators have finished
such a set has two banks at work on it, so the single step from MR to L is there
an abstraction. Only cold starts with several banks are concerned: with `Init` the
initialisation is over before the first transaction.

`SpecEager` restricts the schedules to those in which an idle bank takes a
request at once, as the combinational arbiter does.

Abstracted: the beats of a transaction and its data, the PLRU state (any victim
is possible, valid lines also when a way is free, as the code does not look for
free ways), the pipelines of the arrays, the time of refills and write-backs
(atomic with the lookup that causes them), performance counters.

### TaggedMemory

Blocks with tags and open transactions. A write takes effect at its acquire, a
read returns the tags of the block, at most one transaction works on a block, a
write may be acknowledged before its tags have settled. `TagCache` maps a
tracker to a transaction (`Abstract`): the whole search and update is one step
`Settle`, the one that ends it.

### TagUtil

Shifts are divisions, bit ranges are remainders. The state is a pair of block
addresses that walks through all pairs, so that invariants quantify over them.
The assumption holds the `require`s of the class, the ratio `Configs.scala`
chooses (`TagMapRatio = CacheBlockBytes * 8`), alignment, and a memory large
enough for the maps not to share a line (32 MB with 2 tag bits; the smallest
configuration has 128 MB; the code does not check it).

### TCSearchOrderSelector

One action `Tick` per clock cycle, with any report the shared metadata array can
produce. Counters keep their widths. The wires `tt`, `tm0` and `tm1` have one
value in a cycle, that of their last connection: 0 in the cycle of an update.

### L2Cache

One action per message or step of a state machine; the states keep their names.

| Action | Code |
|---|---|
| `StoreHit`, `Miss`, `SecondaryMiss` | the core's side of the L1: a store to a dirty line, a primary miss, a store that joins a load miss |
| `SendWriteback`, `MetaClear`, `SendAcquire`, `ReceiveGrant`, `Replay`, `SendFinish` | the MSHR from `s_wb_req` to the drained replay queue, and its finish queue |
| `ReceiveProbe` | the probe unit, from `mshr.probe_rdy` to the metadata write |
| `UncachedAcquire` | get and put of clients without a cache |
| `AcceptAcquire`, `MetaResp`, `WbReq`, `SendProbe`, `MergeRelease`, `ProbesDone`, `Refill`, `SendVoluntaryGrant`, `SendGrant`, `Done`, `MetaWrite` | `L2AcquireTracker` |
| `RtAccept`, `RtMetaResp`, `RtAck`, `RtMetaWrite` | `L2VoluntaryReleaseTracker` |
| `WbSendProbe`, `WbRelease`, `WbVoluntaryGrant`, `WbProbesDone`, `WbMetaResp`, `WbOuterRelease`, `WbResp` | `L2WritebackUnit` |

Routing follows `TSHRFile`: a release goes to the unit that matches its block (the
whole set while a tracker has not chosen its victim), else to the release
tracker; an acquire waits while its set is in use. Acquire and release channels
are one queue each, probes and grants one queue per client, as the crossbar keeps
the order between two ends.

Abstracted: a block moves as a whole and is one value; the L1 is seen through one
set, where misses use one MSHR at a time; fetch from memory and write-back to it
are one step, since the unit that waits for the answer holds the block; the
replacement policy may choose any way. `latest` is a history variable, the value
last written to a block.

### OsdHost

A library call is a list of steps: a register access, a packet to the memory
access module (MAM), a burst, a fetch, a handler to register. A burst becomes its
packets when the loop reaches it (`WriteBulk`). A register access and a fetch
have the micro-steps of their lock and condition variable (`next`, `locked`,
`sent`, `wait`, `woken`), the receiver thread takes the same lock to signal
(`HandleRegister`, `SignalRead`); the words of a fetch are stored without it
(`memory_read_cb`), as in the code. `Prolog`, `Epilog`, `Bulk` and `Bursts` are
`calculate_parts` and the burst loop, `memory_write_bulk` cuts a burst into
packets, `FetchReturn` swaps the bytes back. Packets travel through one queue per
module and one queue to the host, each `Depth` packets long, so that back-pressure
is part of the model.

On the other side `RegAccess` is the register block every module has,
`MamCommand`, `MamWrite` and `MamRead` are the MAM packet by packet, `Sample`,
`OverflowComplete` and `Packetize` the trace path of the STM: `Sample` is a clock
cycle with an event, which goes into the buffer, is counted as lost, or takes the
place in which the overflow count is stored and becomes the first loss of the
next gap.

The enumeration reads the registers whose values decide what happens next (module
type, number of modules, and for a MAM, an STM or a core trace module one
descriptor register); further descriptor registers only repeat the same step.
`Type` gives the modules in any number and of any types, with the SCM at its fixed
place and at least one MAM and one STM; the application uses one MAM and one STM
(`Mam`, `Stm`), the other modules answer register accesses and are otherwise
silent: they stay stalled, or get no request.

Two assumptions that POSIX and the API do not give:

* condition variables wake only when they are signalled. `osd_reg_access` and
  `memory_read_bulk` do not wait in a loop: after a spurious wake-up they copy the
  previous answer, or an incomplete buffer, and the real answer later signals
  nobody or the next request;
* one thread at a time is inside the library. `osd_reg_access` releases its lock
  while it waits, so a second caller can send too; the condition variable then
  wakes one of them, not necessarily the one the answer is for, and
  `osd_reg_read16` may fail its assertion on the size (`regaccess.c:60`).

## 3. Runs

All passing runs check for deadlock. Constants are in the `.cfg` files.

| Run | Instance | Shows |
|---|---|---|
| `two_levels` | 2 trackers, 2 banks, 2 blocks in different rows of one TT line, TM0 on top, a bank for each line, orders 0 and 1 | reads right; locks exclusive and released; answers in step; maps, creates and row counts right |
| `three_levels` | from reset, 1 tracker, 1 bank, 3 blocks in use, one with 2 tag bits and partial writes, 2 TT lines, three levels and unused lines beside them, direct-mapped sets shared across levels, orders 0-2 | every order finds the same tags over long sequences of transactions from any content of uninitialised memory; creates miss; counts exact; refinement of `TaggedMemory`; with one bank the answers of the initiator do no harm |
| `no_aea` | 2 trackers, three levels, no empty-line avoidance, byte locks | refinement of `TaggedMemory` with concurrent trackers and evictions; no forbidden lock |
| `progress` | 2 writers, 2 banks, three levels, three branches of which two share a TM1 line and one is written by both trackers | a lock waits for a slot only while one is being freed; no lock is left behind; every transaction ends (252 thousand states, with full lock tables and gated requests) |
| `address_map` | 2048 blocks of 8 bytes, all pairs of the 1536 tagged ones | levels, bits and lock names |
| `order_selector` | period 3, counters modulo 4 | registers in range; the access counter does not wrap |
| `search_race` | 2 trackers, three levels, empty-line avoidance | **violated**: finding 1 |
| `cold_two_banks` | from reset, 2 banks with two top lines each | **violated**: finding 2 |
| `order_comment` | period 3, counters modulo 4, the reports of whole searches | **violated**: finding 3 |
| `l2_coherence` | 2 L1 caches, 1 uncached client, 2 blocks that share one L1 way and one L2 line, 2 values, 1 tracker | single writer, current data, inclusion, releases and probe answers meet their unit (1.9 million states) |
| `l2_progress` | the same, one value, one client with both blocks, the others with one each | every miss and every uncached request ends |
| `osd_host` | SCM, UART, MAM, STM, core trace module; words of 2 bytes, bursts of 3 words, packets of 2; a load with prolog, two bursts, epilog and zeros; links and trace buffer of 1 | the properties of the debug library (334 thousand states) |

Bounds. Two trackers and two banks are the default configuration
(`TC_MEM_XACTORS`, `TC_TAG_XACTORS`). Two blocks in one TT line, in different
rows, are what the update logic distinguishes: own bits, other bits of the row
(second tag bit in `three_levels`), other rows (`tcnt`). Two TT lines under one TM0
line repeat this a level up. Lines that share a set are
evicted in `three_levels` and `no_aea`. Three
levels with two trackers and all orders is out of reach with evictions; it is
split into `three_levels` (sequential), `no_aea` and `search_race` (concurrent).

In `l2_coherence` two blocks for one line make every miss an eviction, so that
probes of the write-back unit, voluntary releases, merges and refills of the same
two blocks overlap all the time; two clients are a sharer and a rival, the third
party is uncached. The trackers of an L2 bank never share a set, so a second one
adds traffic to other sets only; the instance has one. In `osd_host` links and
trace buffer of one entry make every wait for room possible; the segment is the
smallest range that has all parts, an odd start, a burst that is full and one that
is not, packets that are full and not; three events can fill the buffer, overflow
and resume.

Fairness (`progress`): weak fairness of each bank (a state machine that can take
a step does) and of `Retire` (memory answers, the L2 accepts grants). No fairness
of acquires, and none between trackers: that a tracker is served follows from the
round-robin arbiter alone, and fails with a fixed priority. The traffic is the one
that loads the lock table: complete tag writes with all lines cached
(`SpecWriters`). Tracker 1 writes `b3`, tracker 0 the other blocks, among them `b4`
in the same table line; the tags of `b4` are set and cleared, those of the others
set.

In `l2_progress` every state machine is weakly fair and the two input ports take
what they can take: this is clocked hardware whose arbiters keep a request they
have shown. An acquire is only fair while no release to its set is at the port
(`irel_vs_iacq_conflict`), as in the code; nothing is asked of the programs, which
may miss for ever or stop. In `osd_host` the operating system runs both threads,
and the modules, together, take a step when they can, which is less than clocked
hardware gives; calls and trace events may stop.

## 4. Findings

1. **A search can follow a map bit that a writer has just cleared**
   (`search_race`). Three levels, empty-line avoidance. A search that has read
   its TM1 bit holds no lock. If a writer clears the last tag under the TM0 line
   before the search reads that line, it drops the line and clears the TM1 bit;
   the search's forced read misses and fetches the TM0 line from memory, which
   was never written, and returns tags found through it. With two levels the
   same window is harmless (`two_levels`): the top line
   is never dropped, and the bit is read under the lock's gate. Without
   empty-line avoidance it is harmless too (`no_aea`).
2. **The last create of an initiator is answered to a memory tracker**
   (`cold_two_banks`). `rst_cnt` reaches its end when the create is taken, not
   when it is answered, and the create carries the id the arbiter shows. With
   several banks a tracker that waits for another bank takes the answer. It needs
   traffic before all top lines exist, which the reset of the metadata array
   makes possible.

3. **The order selector compares wires that are 0** (`order_comment`). The comments
   say "choose bottom-up when tt-hit > 50%", "choose top-down when tm1-hit > 50%",
   "otherwise, choose middle-up" (`tagcache.scala:1241-1243`). The same block
   clears the wires it compares (`tagcache.scala:1244-1246`), and a wire has one
   value in a cycle, that of its last connection. `OrderFollowsHits` is what the
   comments say, of the hits as lines 1231-1233 count them. In the trace map 1
   has two of three hits, and the update chooses 2 instead of 0; as the
   comparison always sees zeros, every update does.

## 5. Proofs

| Theorem | Statement |
|---|---|
| `TagCacheProofs!TypeCorrect` | `Spec \/ SpecCold => []TypeOK` |
| `TagCacheProofs!LocksExclusive` | `Spec \/ SpecCold => []LockExclusion` |
| `TagCacheProofs!LocksPermitted` | `Spec \/ SpecCold => []LockPermitted` |
| `TagCacheProofs!ResponsesExpected` | `Spec => []ResponseExpected` |
| `TagCacheProofs!LocksReleased` | `Spec => []UnlockedAtRest` |
| `TagCacheProofs!SlotsSuffice` | `Spec => []SlotWaitEnds` |
| `TagCacheProofs!RowsAreCounted` | `Spec \/ SpecCold => []RowsCounted` |
| `TagCacheDataProofs!ReadsCorrect` | `NoRace /\ Spec => []ReadCorrect` |
| `TagCacheDataProofs!OrdersFindTheSame` | `NoRace /\ Spec => []OrdersAgree` |
| `TagCacheDataProofs!CreatesMiss` | `NoRace /\ Spec => []CreateMisses` |
| `TagCacheDataProofs!Refinement` | `NoRace /\ Spec => ImplementsTaggedMemory` |
| `TagUtilProofs!LevelsStayApart` | `Spec => []LevelsApart` |
| `TagUtilProofs!BitsNameLines` | `Spec => []BitsMatchLines` |
| `TagUtilProofs!LocksAreBits` | `Spec => []LocksNameBits` |
| `TCSearchOrderSelectorProofs!SelectorTypeCorrect` | `Spec => []TypeOK` |
| `TCSearchOrderSelectorProofs!PeriodsComplete` | `Spec => PeriodNeverCutShort` |
| `L2CacheProofs!ExclusiveOwnerHolds` | `Spec => []ExclusiveOwner` |
| `L2CacheProofs!InclusionHolds` | `Spec => []Inclusion` |
| `L2CacheProofs!ReleaseResidentHolds` | `Spec => []ReleaseResident` |
| `L2CacheProofs!ProbeAnswerExpectedHolds` | `Spec => []ProbeAnswerExpected` |
| `L2CacheDataProofs!L1CurrentHolds` | `Spec => []L1Current` |
| `L2CacheDataProofs!GrantCurrentHolds` | `Spec => []GrantCurrent` |
| `L2CacheDataProofs!TypeOKHolds` | `Spec => []TypeOK` |
| `OsdHostDataProofs!HostTypes` | `Spec => []TypeOK` |
| `OsdHostDataProofs!WakeupNeverLost` | `Spec => []WakeupMeetsWaiter` |
| `OsdHostDataProofs!ReplyIsOwn` | `Spec => []ReplyMatches` |
| `OsdHostDataProofs!EnumerationFindsAll` | `Spec => []EnumerationComplete` |
| `OsdHostDataProofs!HandlerBeforeEvent` | `Spec => []EventHandled` |
| `OsdHostDataProofs!FramingKept` | `Spec => []MamFraming` |
| `OsdHostDataProofs!ReadsAreExact` | `Spec => []ReadExact` |
| `OsdHostDataProofs!NoSilentGap` | `OvMax >= MaxEvents => (Spec => []TraceGapsReported)` |

They hold for every value of the constants allowed by the `ASSUME` of the module
(`TagCacheAssumption`, `TagUtilAssumption`, `SelectorAssumption`,
`L2CacheAssumption`, `OsdHostAssumption`): any number of trackers, banks, blocks,
lines and ways, one to three levels, with or without empty-line avoidance and
bit-level locks; any number of L1 caches, uncached clients, blocks, sets, ways and
trackers of the L2; any number of debug modules, any sizes of words, bursts,
packets, links and buffers, and all ranges of memory the burst loop tiles. The
large inductive invariants (`AllInv`, `IInv`, `DInv`, `DataInv`) were checked by TLC
on the instances of section 3 before they were proved.

### The tag cache: control (`TagCacheProofs`)

*Locks.* `LockExclusion` is not inductive: the table is consulted when a bank
takes a request and written in state L. The invariant adds `LockPermitted` (a
bank that executes a lock of a map bit meets no clashing lock of another tracker)
and `LockHome` (a bank only locks bits of its own lines; the creates of an initiator
may be for another bank's). Two locks that
clash are about the same line, so about the same bank, which executes one
operation at a time; this is why no lock can slip in between check and write.

*Answers.* `ResponseExpected` needs that the initiators are done (`Initiated`) and
that a bank then only works on its own lines (`BankHome`); it fails from `InitCold`, which is finding 2. An answer clears
`tc_req_sent`, and the tracker's next request differs only after it was answered.

*Lock accounting.* `HeldInv`: a taken slot belongs to an update that holds the bit
(`Held`, read off the tracker's state) or its unlock is posted in a bank
(`Posted`), and no tracker has two slots for one bit. At rest there is neither,
hence `UnlockedAtRest`. A full table of two slots for each tracker then contains,
by counting, a slot whose owner no longer holds it, so a posted unlock: the lock
that waits, waits for a bank that is not itself waiting (`SlotWaitEnds`).

*Row counts.* `RowInv`: what a write carries lies in the row of its hold
(`WritesInHold`), a create is only sent with a tag to set (`FlagTags`). The
increments of `RowDelta` are then exact for every mask and row layout.

### The tag cache: data (`TagCacheDataProofs`)

`NoRace == NLevel < 3 \/ ~ AEA \/ NMem = 1` is the complement of finding 1: with
three levels, empty-line avoidance and two trackers `ReadCorrect` is false
(`search_race`). Everything else is covered. The invariant `AllInv` has these parts.

* `Base`, the invariants above.
* `ControlInv`: open transactions are on different blocks; a tracker that is
  between its locks and its unlocks has its slots; what a bank executes still is
  what its tracker asks for; a granted request met no lock of another tracker,
  and none has been taken since.
* `LineInv`: a clean line equals memory, and a response waiting in state L is the
  row as it still is. So a line, seen through cache and memory (`View`), changes
  only by a write, a create or an invalidate; evictions and fetches are invisible.
* `TurnsOK`: a search that has found its table line live and waits to read it is
  served before an update of the line may drop it. No lock protects the search
  here. What does is the round-robin arbiter: the update has been granted since
  the search began to wait, so the search is next.
* `DataInv`. `Bit0` and `Bit1` are the map bits as they will be when the update in
  progress has written them, `Eff0` and `Eff1` the lines with the reading that,
  with empty-line avoidance, a line whose bit is 0 is empty whatever memory
  holds. In these terms the table holds the tags last written but for writes that
  have not reached it, which keep theirs in the tag buffer (`TableOK`); an update
  has something to change (`UpdatesOK`); a bit that is 0 stands for an empty line
  (`MapsOK`); the five flags say what the maps and the rest of the line were when
  locked, and that still holds (`FlagsOK`); only lines whose bit is 1 are cached or
  about to be fetched (`CachedLive`, `FetchLive`); finished reads are right
  (`ReadCorrect`).

The step lemmas follow the operations: acquire, retire, the lookups that only
fetch, the answers of searches and of locks, and the writes of the table, of map 0
and of map 1. `OrdersAgree` and `CreateMisses` are consequences: at rest `Bit` and
`Eff` are the plain lines, and a create is sent with a bit that was read as 0 and
is still locked. For the refinement an acquire maps to `Read` or `Write`, a
retirement to `Acknowledge`, the answer that makes a tracker idle to `Settle`
(which needs `ReadCorrect` in the new state), and all else to a stutter.

### The address map (`TagUtilProofs`)

From the sizes being exact quotients, the offset of a block within a level is below
the size of the level minus that of the next one; the comparison of line numbers in
`is_map` and `is_top` needs the bases to be apart by whole lines, which the size
assumption provides. For bits and locks the addresses are brought into a normal form,
base plus quotient of the block's offset (byte of the tags, line of the tags, line of
the map bits); byte and bit index within a line are then quotient and remainder of
the line number below, and the truncation in the lock name loses only what is the
same for a whole map.

### The caches (`L2CacheProofs`, `L2CacheDataProofs`)

`ExclusiveOwner` alone says nothing about the messages that will make it false. The
invariant `IInv` accounts for them.

* `L1Shape`, `MetaShape`, `SetsApart`, `TrackerShape`, `RtShape`, `WbShape`: a block
  is in one line, trackers are in different sets, and each unit's registers mean
  what its state says.
* `WritebackTokens`, `AcquireTokens`: a client that waits for an acknowledgement or
  a grant has exactly one token (its release, its acquire, a unit at work for it,
  a message to it) on the way, and none otherwise.
* `ProbesMatched`, `ProbesCounted`: every probe and every answer belongs to a unit
  that waits, one for each client, and the unit's counter is their number; hence
  `ProbeAnswerExpected`.
* `Listed`: whoever has a copy, or is promised one, is listed as a sharer where the
  current directory entry is (metadata, tracker or write-back unit); hence
  `Inclusion` and, with the shapes, `ReleaseResident`.
* `SharersProbed`, `AnswerersOut`, `SharedInDirectory`, `SharedInTracker`,
  `DowngradesPending`, `GrantsAlone`: before an exclusive grant everybody else has
  been probed and has lost its copy, before a shared one everybody else has been
  downgraded. This is where the directory's ignorance of exclusive owners and the
  silent drop of clean lines are dealt with.

The data invariant `DInv` says where the value last written is (`InPlace`): unless
an owner, a release or an answer on its way has a newer one, it is in the line of
the tracker that serves the block or in the line the metadata name, and in memory
as well if that line is clean or there is none. The carriers above the line are
current too (`RefillCurrent`, `WritebackCurrent`, `AnswerCurrent`, `RtCurrent`,
`WbCurrent`), and the dirty bits say when memory is not (`DirtyBits`). `TypeOK`
comes last because it contains that an eviction never writes a line without data to
memory, which only follows from `DInv`.

### The debug library (`OsdHostProofs`, `OsdHostDataProofs`)

The library compares nothing with anything: it trusts that what arrives is what it
waits for. So the invariant is about everything that is on its way. `Inbox` are the
packets the host has not handled, the one in the receiver's hands first.

* `OneAccess`: a register request is in a link, or its answer in the inbox, only
  while the caller is in that very access and past its send; there is one of them,
  it is the caller's, and never both. The receiver can therefore only be held up
  by the lock, and when it gets it the caller waits: `WakeupMeetsWaiter`. The
  answer keeps its meaning on the way because nobody else writes the register in
  between: `ReplyMatches`.
* `Enumeration`: what is left of `osd_system_enumerate` is the ids from some
  module on, perhaps after a descriptor of the one before, and the table is right
  below it.
* `HandlersFirst`: an unstalled module, a sampled event and an unstall on its way
  all imply the handler; an unstall still to come has the registration before it.
* `OneFetch`: of a fetch, either the request is the last packet in the link and
  nothing has come, or the words counted, those in the inbox and those the MAM has
  left are together its size, and each is the word of memory at its place (`Flow`).
  Hence the count never passes the buffer's end, and the signal comes after the
  last word.
* `NoGap`: the events logged, reported missed and counted, then those in the
  inbox, then those in the trace buffer, then the overflow counter, are all
  events sampled, in this order. If the counter saturates (`OvMax < MaxEvents`)
  this is false, as section 7 says.
* `Stream`: the MAM's state, then the packets in its link, then the steps left of
  the call, take the memory to what has been written, each packet in a state in
  which the MAM expects it. `Takes` says what the MAM does with a packet, `Sends` what
  a step of the call comes to; that the packets of a burst do together what
  `Sends` says of the burst is the lemma `BurstEffect`, that the steps of
  `osd_memory_write` write their range is `WriteEffect`. `MamFraming` is the first
  packet of the path.
* `Buffer`, `Results`: the bytes that have come are those of memory with each pair
  swapped; each byte of the caller's buffer is right, or a fetch that brings it is
  still to come, and every fetch is in place. A fetch is in a state of the
  stream in which all that was written is in memory, which makes posted writes
  harmless: `ReadExact`.

A sum, or a run of the MAM, over the packets of a queue is stated as the existence
of its partial results, a function on `1 .. Len(q) + 1` with a condition between
neighbours (`Flow`, `Gapless`, `Path`): it is shifted when a packet leaves, extended
when one arrives, and needs no recursion, about which nothing could be proved.

The content of a write is one pattern for each size (`Data`), different in every
byte; the proof uses only that it is a sequence of bytes. `BlockSize` divides
`MemSize`: an epilog is read as a whole word, which must exist.

### Only model-checked

Liveness (the two `Progress`, `CallsReturn`), which under fairness is outside the
prover's reach; what is run from `InitCold` beyond the theorems that name `SpecCold`
(`three_levels`: the creates of the initiators interleaved with one tracker). Every
other property of a passing run is a theorem. That `ReadCorrect` fails without `NoRace` is shown by
the run `search_race`.

## 6. Mutants

Each property of a passing run is broken by a variant of a definition, placed
just above the definition and marked "Mutant:". They are plausible slips in the
code: a dropped gate, a forgotten write-back, a count that is off by one, a fixed
priority, too few slots.

## 7. Not modelled

*Tagged memory.* `TCMemReleaseTracker` (never instantiated), `TagCacheTop` and the
performance counters, the ordering of a write-back and a later fetch behind the
cache, beats, array pipelines and PLRU state, accesses to the tag region itself.

*Caches.* Beats, array pipelines, ECC; merging of a second acquire into a tracker
(`iacq_can_merge`), atomics and requests that do not allocate; load-reserved and
uncached accesses of the L1; the policies other than MESI; the broadcast hub. A
put that does not allocate and misses would write the metadata of the victim line
(`cache.scala:774` and `992`); the clients of the chip all allocate.

*Debug system.* The daemon and the connection through it, the tracing of the core
trace module (its enumeration is modelled), the terminal, the flits and routers of the ring, the adapter from MAM to TileLink.
The model stays inside the following limits of the library, which are plain from
the code:

* the burst loop (`memory.c:259-268`, `296-299`) runs over the size of the whole
  range and cuts its last burst to what the bulk still needs. It tiles the bulk
  only if prolog and epilog do not reach across a multiple of `BULK_MAX`
  (`Tiled`, an assumption on the ranges);
* a write shorter than a word that crosses a word (`memory.c:121-144`), and a
  read shorter than a word at the lowest address (`memory.c:290`), are outside
  `CanWrite` and `CanRead`;
* writing the reset register changes `rst_vector` and nothing else in the model. On
  the chip `sys_rst` also resets the Rocket top (`chip_top.sv:1001`), with the L2,
  the tag cache and the adapter of the MAM, but not the MAM: writes that are
  posted, or dirty in a cache, when `osd_reset_system` is called can be lost. So
  `ReadExact` is about the library and the modules, and on the chip does not extend
  across `osd_reset_system`;
* `control_init` allocates `num_modules` handler entries and fills one more
  (`control.c:37-40`); `misscount` is one variable for all trace modules
  (`trace.c:94`); the overflow counter saturates, so `TraceGapsReported` needs
  `OvMax >= MaxEvents`; `osd_start_cores` may overtake writes that are still on
  their way to memory, unless the load is verified.

The Rocket core, NASTI junctions, devices, HTIF, DMA, FPGA support and the vendored
software are outside; `PROJECT.json` gives the reason for each part.

## 8. Plan

1. Done: `TagCache` with `TaggedMemory`, `TagUtil`, `TCSearchOrderSelector`,
   `L2Cache`, `OsdHost`; the proof of every invariant of all of them and of the
   refinement.
2. Proofs: of `TagCache`, the data from reset with one bank.
3. `TCMemAcquireTracker`, beat by beat: early grants, beat counters, the buffer
   shared by data and tags; shown to implement `Acquire` and `Retire` of
   `TagCache`.
4. `TCTagXactTracker` state by state with the arrays, the write-back unit and the
   outer arbiter; the order of put and get behind the cache with the TileLink to
   NASTI converter.
5. The broadcast hub, and the daemon with its claims of modules.
