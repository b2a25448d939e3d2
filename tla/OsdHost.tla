------------------------------- MODULE OsdHost -------------------------------
(***************************************************************************)
(* The host library of Open SoC Debug (src/opensocdebug/software/src) with *)
(* the debug modules it talks to.  An application thread makes one library *)
(* call at a time; the receiver thread of the connection hands every       *)
(* incoming packet to osd_handle_packet.  Register accesses and memory     *)
(* reads wait on a condition variable that the receiver signals, without   *)
(* a predicate: that the wake-up cannot be lost, and that the answer found *)
(* there is the answer to this request, rests on the order in which the    *)
(* two threads take the locks and on the traffic of the modules.           *)
(*                                                                         *)
(* A library call is a list of steps (a register access, a packet to send, *)
(* a burst, a memory fetch, a handler to register), each with the micro-   *)
(* steps of its lock and condition variable.  A 16-bit word of a packet is *)
(* a pair of bytes, most significant first.  The condition variables wake  *)
(* only when signalled and the library is entered by one thread: see the   *)
(* README for what happens without these two assumptions.                  *)
(***************************************************************************)
EXTENDS Integers, Sequences

CONSTANTS
    Type,           \* the type of module i, for i = 1, 2, ...
    BlockSize,      \* bytes of a memory word (mem->data_width >> 3)
    BULK_MAX,       \* bytes of the largest burst
    WordsPerPacket, \* payload words of a full packet (psize - 2)
    MemSize,        \* bytes of the memory
    Load,           \* the calls of osd_memory_loadelf: [addr, filesz, memsz]
    Write, Read,    \* the ranges written and read: [addr, size]
    Depth,          \* packets each link holds
    FifoDepth,      \* entries of the STM's trace buffer
    OvMax,          \* the largest value of the STM's overflow counter
    MaxEvents       \* bound: trace events of a behaviour

Module == 1 .. Len(Type)

\* The module types (enum of opensocdebug.h, module_lookup).
HOST == 0
SCM == 1
UART == 2
MAM == 3
STM == 4
CTM == 5

(***************************************************************************)
(* memory.c: how a range is cut into transfers.                            *)
(***************************************************************************)
Prolog(addr, size) == IF size < BlockSize THEN size
                      ELSE (BlockSize - addr) % BlockSize

Epilog(addr, size) == IF size < BlockSize THEN 0
                      ELSE (addr + size) % BlockSize

Bulk(addr, size) == size - Prolog(addr, size) - Epilog(addr, size)

\* The bursts of the bulk: the loop runs over i < size, and its last burst is
\* what the bulk still needs.
Bursts(addr, size) ==
    IF Bulk(addr, size) = 0 THEN <<>>
    ELSE [j \in 1 .. ((size + BULK_MAX - 1) \div BULK_MAX) |->
            LET i == (j - 1) * BULK_MAX
            IN  [off |-> Prolog(addr, size) + i,
                 n   |-> IF i + BULK_MAX > size THEN Bulk(addr, size) - i
                                                ELSE BULK_MAX]]

\* The ranges on which the loop is right: its bursts are whole, and together
\* they are the bulk.
Tiled(addr, size) ==
    LET b == Bursts(addr, size)
    IN  b # <<>> => /\ \A j \in DOMAIN b : b[j].n \in 1 .. BULK_MAX
                    /\ b[Len(b)].off + b[Len(b)].n
                         = Prolog(addr, size) + Bulk(addr, size)

\* The ranges the library writes and reads correctly.
CanWrite(addr, size) ==
    /\ size > 0 /\ addr + size <= MemSize
    /\ size >= BlockSize \/ (addr % BlockSize) + size <= BlockSize
    /\ Tiled(addr, size)

CanRead(addr, size) ==
    /\ size > 0 /\ addr + size <= MemSize
    /\ size >= BlockSize \/ addr + size >= BlockSize
    /\ Tiled(addr, size)

ASSUME OsdHostAssumption ==
    /\ Type \in Seq(Nat) /\ Len(Type) >= 1
    /\ Type[1] = SCM
    /\ \A t \in {MAM, STM} : \E m \in Module : Type[m] = t
    /\ BlockSize \in Nat /\ BlockSize > 0 /\ BlockSize % 2 = 0
    /\ BULK_MAX \in Nat /\ BULK_MAX > 0 /\ BULK_MAX % BlockSize = 0
    /\ {WordsPerPacket, MemSize, Depth, FifoDepth, OvMax} \subseteq Nat \ {0}
    /\ MemSize % BlockSize = 0
    /\ MaxEvents \in Nat
    /\ Write \cup Read \subseteq [addr : Nat, size : Nat]
    /\ Load \subseteq [addr : Nat, filesz : Nat, memsz : Nat]
    /\ \A w \in Write : CanWrite(w.addr, w.size)
    /\ \A r \in Read : CanRead(r.addr, r.size)
    /\ \A e \in Load : /\ CanWrite(e.addr, e.filesz) /\ CanRead(e.addr, e.filesz)
                       /\ e.memsz # e.filesz =>
                            CanWrite(e.addr + e.filesz, e.memsz - e.filesz)

\* The SCM, and the memory and the trace module that the application uses.
Scm == 1
Mam == CHOOSE m \in Module : Type[m] = MAM
Stm == CHOOSE m \in Module : Type[m] = STM

VARIABLES
    api,        \* the application thread: pc, steps left of the call, result
    connected,  \* osd_connect has returned
    info,       \* ctx->system_info: the module types found so far
    handler,    \* ctx->module_handlers[m]->packet_handler.call
    reg_access, \* ctx->reg_access.resp_packet and size
    mem_access, \* ctx->mem_access: size, data, count
    rx,         \* the receiver thread and the packet it handles
    log,        \* the STM log: lines, misses reported, misscount
    down, up,   \* packets to each module, packets to the host
    rst_vector, \* the SCM's reset register
    stall,      \* the STM's mod_cs_stall
    mam,        \* the state of the memory access module
    memory,     \* what it has written, by byte
    stm,        \* the STM: events sampled, overflow counter, trace buffer
    written     \* what the calls so far have written (history variable)

host == <<api, connected, info, handler, reg_access, mem_access, rx, log>>
device == <<rst_vector, stall, mam, memory, stm>>
vars == <<host, down, up, device, written>>

NoPacket == [mod |-> 0, kind |-> "none"]
NoResult == [addr |-> 0, data |-> <<>>]
MamIdle == [state |-> "INACTIVE", addr |-> 0, flits |-> 0]

(***************************************************************************)
(* The steps of the library calls.                                         *)
(***************************************************************************)
osd_reg_read16(m, r) == [k |-> "reg", m |-> m, r |-> r, write |-> FALSE, v |-> 0]
osd_reg_write16(m, r, v) == [k |-> "reg", m |-> m, r |-> r, write |-> TRUE, v |-> v]

ToMam(cmd, addr, strb, beats, words) ==
    [k |-> "send", pkt |-> [mod |-> Mam, kind |-> "plain", cmd |-> cmd, addr |-> addr,
                            strb |-> strb, beats |-> beats, words |-> words]]

\* A buffer of bytes as 16-bit words.
Words(bytes) == [i \in 1 .. Len(bytes) \div 2 |-> <<bytes[2*i - 1], bytes[2*i]>>]

\* Mutant: the strobe covers the whole block.
memory_write_single_block(addr, bytes) ==
    LET b == addr % BlockSize
    IN  <<ToMam("single", addr - b, 0 .. BlockSize - 1, 1,
                Words([i \in 1 .. BlockSize |-> IF i - b \in DOMAIN bytes
                                                THEN bytes[i - b] ELSE 0]))>>

\* Bytes of one block, with a strobe for each.
memory_write_single(addr, bytes) ==
    LET b == addr % BlockSize
    IN  <<ToMam("single", addr - b,
                {i \in 0 .. BlockSize - 1 : i >= b /\ i < b + Len(bytes)}, 1,
                Words([i \in 1 .. BlockSize |-> IF i - b \in DOMAIN bytes
                                                THEN bytes[i - b] ELSE 0]))>>

\* Mutant: the words after the last full packet are not sent.
memory_write_bulk_full(addr, bytes) ==
    LET w    == Words(bytes)
        full == Len(w) \div WordsPerPacket
    IN  <<ToMam("burst", addr, {}, Len(bytes) \div BlockSize, <<>>)>> \o
        [j \in 1 .. full |->
            ToMam("data", 0, {}, 0, SubSeq(w, (j - 1) * WordsPerPacket + 1,
                                              j * WordsPerPacket))]

\* The header in a packet of its own, full packets of data, and the rest.
memory_write_bulk(addr, bytes) ==
    IF Len(bytes) > BULK_MAX THEN <<>>
    ELSE LET w    == Words(bytes)
             full == Len(w) \div WordsPerPacket
             data == [j \in 1 .. full |->
                        ToMam("data", 0, {}, 0, SubSeq(w, (j - 1) * WordsPerPacket + 1,
                                                      j * WordsPerPacket))]
             rest == SubSeq(w, full * WordsPerPacket + 1, Len(w))
         IN  <<ToMam("burst", addr, {}, Len(bytes) \div BlockSize, <<>>)>> \o data \o
             (IF rest = <<>> THEN <<>> ELSE <<ToMam("data", 0, {}, 0, rest)>>)

\* Each burst is a step: memory_write_bulk sends its packets when it is reached.
osd_memory_write(addr, bytes) ==
    LET size == Len(bytes)
        p == Prolog(addr, size)
        e == Epilog(addr, size)
        b == Bursts(addr, size)
    IN  (IF p > 0 THEN memory_write_single(addr, SubSeq(bytes, 1, p)) ELSE <<>>) \o
        [j \in DOMAIN b |->
            [k |-> "bulk", addr |-> addr + b[j].off,
             bytes |-> SubSeq(bytes, b[j].off + 1, b[j].off + b[j].n)]] \o
        (IF e > 0 THEN memory_write_single(addr + size - e,
                                           SubSeq(bytes, size - e + 1, size))
         ELSE <<>>)

\* A fetch of n bytes, of which `keep`, after the first `skip`, go to `off`.
memory_read_bulk(addr, n, off, skip, keep) ==
    [k |-> "fetch", addr |-> addr, n |-> n, off |-> off, skip |-> skip, keep |-> keep]

osd_memory_read(addr, size) ==
    LET p == Prolog(addr, size)
        e == Epilog(addr, size)
        b == Bursts(addr, size)
    IN  <<[k |-> "result", addr |-> addr, size |-> size]>> \o
        (IF p > 0
         THEN <<memory_read_bulk(addr - BlockSize + p, BlockSize, 0, BlockSize - p, p)>>
         ELSE <<>>) \o
        [j \in DOMAIN b |->
            memory_read_bulk(addr + b[j].off, b[j].n, b[j].off, 0, b[j].n)] \o
        (IF e > 0 THEN <<memory_read_bulk(addr + size - e, BlockSize, size - e, 0, e)>>
         ELSE <<>>)

osd_module_unstall(m) == <<osd_reg_write16(m, "cs", 0)>>

\* Mutant: the module is unstalled before its handler is registered.
osd_stm_log_late(m) == osd_module_unstall(m) \o
    <<[k |-> "handler", m |-> m, call |-> "stm_log_handler"]>>

osd_stm_log(m) == <<[k |-> "handler", m |-> m, call |-> "stm_log_handler"]>>
                    \o osd_module_unstall(m)

osd_start_cores == <<osd_reg_write16(Scm, "rst", 0)>>

osd_reset_system(halt_cores) ==
    <<osd_reg_write16(Scm, "rst", 3), osd_reg_write16(Scm, "rst", IF halt_cores THEN 2 ELSE 0)>>

\* osd_system_enumerate, before the first answer.
osd_system_enumerate == <<osd_reg_read16(Scm, "id"), osd_reg_read16(Scm, "num")>>

\* Mutant: the loop stops at mod_num instead of mod_num + 1.
EnumerateNext_short(m, r, v, rest) ==
    IF r = "num" THEN [i \in 1 .. v - 1 |-> osd_reg_read16(i, "id")]
    ELSE IF r = "id" /\ info = <<>> /\ v # SCM THEN <<>>
    ELSE IF r = "id" /\ v \in {MAM, STM, CTM} THEN <<osd_reg_read16(m, "desc")>> \o rest
    ELSE rest

\* ... and what is left of it after it reads v from register r of module m: it
\* gives up unless module 1 is the SCM, asks every module for its type, and a
\* memory or a trace module for its descriptor.
EnumerateNext(m, r, v, rest) ==
    IF r = "num" THEN [i \in 1 .. v |-> osd_reg_read16(i, "id")]
    ELSE IF r = "id" /\ info = <<>> /\ v # SCM THEN <<>>
    ELSE IF r = "id" /\ v \in {MAM, STM, CTM} THEN <<osd_reg_read16(m, "desc")>> \o rest
    ELSE rest

\* ctx->system_info after that answer.
Enumerated(m, r, v) ==
    IF r = "num" THEN [i \in 1 .. v |-> HOST]
    ELSE IF r = "id" /\ info # <<>> THEN [info EXCEPT ![m] = v]
    ELSE info

\* The n bytes a caller writes (the memory starts with zeros), and n zeros.
Data(n) == [i \in 1 .. n |-> i]
Zeros(n) == [i \in 1 .. n |-> 0]

osd_memory_loadelf(e, verify) ==
    osd_memory_write(e.addr, Data(e.filesz)) \o
    (IF e.memsz > e.filesz
     THEN osd_memory_write(e.addr + e.filesz, Zeros(e.memsz - e.filesz))
     ELSE <<>>) \o
    (IF verify THEN osd_memory_read(e.addr, e.filesz) ELSE <<>>)

(***************************************************************************)
(* The application thread.                                                 *)
(***************************************************************************)
Step == Head(api.todo)
AtStep(k, pc) == api.todo # <<>> /\ Step.k = k /\ api.pc = pc

Goto(pc) == api' = [api EXCEPT !.pc = pc]
StepDone == api' = [api EXCEPT !.pc = "next", !.todo = Tail(@)]

\* Mutant: the receiver signals without taking the lock.
Holds_unlocked(k) == FALSE

\* The lock a thread in its critical section keeps the other from taking.
Holds(k) == \E pc \in {"locked", "sent"} : AtStep(k, pc)

Idle == api.todo = <<>>

Enter(steps) == api' = [pc |-> "next", todo |-> steps, result |-> NoResult]

\* What a caller has written once a call is made, seen by the next reader.
Wrote(addr, bytes) ==
    written' = [a \in DOMAIN written |-> IF a - addr + 1 \in DOMAIN bytes
                                         THEN bytes[a - addr + 1] ELSE written[a]]

CallWrite ==
    \E w \in Write : /\ Enter(osd_memory_write(w.addr, Data(w.size)))
                     /\ Wrote(w.addr, Data(w.size))

CallLoad ==
    \E e \in Load, verify \in BOOLEAN :
        /\ Enter(osd_memory_loadelf(e, verify))
        /\ Wrote(e.addr, Data(e.filesz) \o Zeros(e.memsz - e.filesz))

CallRead ==
    /\ \E r \in Read : Enter(osd_memory_read(r.addr, r.size))
    /\ UNCHANGED written

CallControl ==
    /\ \/ Enter(osd_stm_log(Stm))
       \/ Enter(osd_start_cores)
       \/ \E halt \in BOOLEAN : Enter(osd_reset_system(halt))
    /\ UNCHANGED written

Call == /\ connected /\ Idle
        /\ CallWrite \/ CallLoad \/ CallRead \/ CallControl
        /\ UNCHANGED <<connected, info, handler, reg_access, mem_access, rx, log,
                       down, up, device>>

Put(m, pkt) == /\ Len(down[m]) < Depth
               /\ down' = [down EXCEPT ![m] = Append(@, pkt)]

\* osd_reg_access: lock; send; wait (which unlocks); copy the answer; unlock.
RegLock == /\ AtStep("reg", "next")
           /\ Goto("locked")
           /\ UNCHANGED <<connected, info, handler, reg_access, mem_access, rx, log,
                          down, up, device, written>>

RegSend == /\ AtStep("reg", "locked")
           /\ Put(Step.m, [mod |-> Step.m, kind |-> "reg", r |-> Step.r,
                           write |-> Step.write, v |-> Step.v])
           /\ Goto("sent")
           /\ UNCHANGED <<connected, info, handler, reg_access, mem_access, rx, log,
                          up, device, written>>

\* Mutant: the caller does not wait for the signal.
CondWait_skip ==
    /\ \E k \in {"reg", "fetch"} : AtStep(k, "sent")
    /\ Goto("woken")
    /\ UNCHANGED <<connected, info, handler, reg_access, mem_access, rx, log,
                   down, up, device, written>>

CondWait == /\ \E k \in {"reg", "fetch"} : AtStep(k, "sent")
            /\ Goto("wait")
            /\ UNCHANGED <<connected, info, handler, reg_access, mem_access, rx, log,
                           down, up, device, written>>

RegReturn ==
    /\ AtStep("reg", "woken")
    /\ IF connected THEN StepDone /\ UNCHANGED <<connected, info, handler>>
       ELSE LET v == reg_access.v
                rest == EnumerateNext(Step.m, Step.r, v, Tail(api.todo))
            IN  /\ api' = [api EXCEPT !.pc = "next", !.todo = rest]
                /\ info' = Enumerated(Step.m, Step.r, v)
                /\ connected' = (rest = <<>> /\ info' # <<>>)
                \* control_init
                /\ handler' = IF connected' THEN [m \in DOMAIN info' |-> "none"]
                                            ELSE handler
    /\ UNCHANGED <<reg_access, mem_access, rx, log, down, up, device, written>>

Send == /\ AtStep("send", "next")
        /\ Put(Step.pkt.mod, Step.pkt)
        /\ StepDone
        /\ UNCHANGED <<connected, info, handler, reg_access, mem_access, rx, log,
                       up, device, written>>

\* The burst loop reaches its next burst.
WriteBulk ==
    /\ AtStep("bulk", "next")
    /\ api' = [api EXCEPT !.todo = memory_write_bulk(Step.addr, Step.bytes) \o Tail(@)]
    /\ UNCHANGED <<connected, info, handler, reg_access, mem_access, rx, log,
                   down, up, device, written>>

osd_module_register_handler ==
    /\ AtStep("handler", "next")
    /\ handler' = [handler EXCEPT ![Step.m] = Step.call]
    /\ StepDone
    /\ UNCHANGED <<connected, info, reg_access, mem_access, rx, log, down, up, device, written>>

\* The caller's buffer of a memory read.
Result == /\ AtStep("result", "next")
          /\ api' = [api EXCEPT !.todo = Tail(@),
                        !.result = [addr |-> Step.addr,
                                    data |-> [i \in 0 .. Step.size - 1 |-> 0]]]
          /\ UNCHANGED <<connected, info, handler, reg_access, mem_access, rx, log,
                         down, up, device, written>>

FetchLock == /\ AtStep("fetch", "next")
             /\ handler' = [handler EXCEPT ![Mam] = "memory_read_cb"]
             /\ mem_access' = [size |-> Step.n, count |-> 0,
                               data |-> [i \in 0 .. Step.n - 1 |-> 0]]
             /\ Goto("locked")
             /\ UNCHANGED <<connected, info, reg_access, rx, log, down, up, device, written>>

\* Mutant: one memory word too many is asked for.
FetchSend_more ==
    /\ AtStep("fetch", "locked")
    /\ Put(Mam, ToMam("get", Step.addr, {}, Step.n \div BlockSize + 1, <<>>).pkt)
    /\ Goto("sent")
    /\ UNCHANGED <<connected, info, handler, reg_access, mem_access, rx, log,
                   up, device, written>>

FetchSend == /\ AtStep("fetch", "locked")
             /\ Put(Mam, ToMam("get", Step.addr, {}, Step.n \div BlockSize, <<>>).pkt)
             /\ Goto("sent")
             /\ UNCHANGED <<connected, info, handler, reg_access, mem_access, rx, log,
                            up, device, written>>

\* Mutant: the loop over the bursts does not advance.
FetchReturn_again ==
    /\ AtStep("fetch", "woken")
    /\ Goto("next")
    /\ UNCHANGED <<connected, info, handler, reg_access, mem_access, rx, log,
                   down, up, device, written>>

\* The bytes of each word were stored low byte first: swap them, and copy the
\* part the caller asked for.  The buffer is the caller's from here on.
FetchReturn ==
    /\ AtStep("fetch", "woken")
    /\ LET swap == [i \in 0 .. Step.n - 1 |->
                       mem_access.data[IF i % 2 = 0 THEN i + 1 ELSE i - 1]]
       IN  api' = [api EXCEPT !.pc = "next", !.todo = Tail(@),
                      !.result.data = [i \in DOMAIN @ |->
                          IF i >= Step.off /\ i < Step.off + Step.keep
                          THEN swap[Step.skip + i - Step.off] ELSE @[i]]]
    /\ mem_access' = [mem_access EXCEPT !.data = <<>>]
    /\ UNCHANGED <<connected, info, handler, reg_access, rx, log,
                   down, up, device, written>>

ApiStep == \/ RegLock \/ RegSend \/ CondWait \/ RegReturn \/ Send
           \/ WriteBulk \/ osd_module_register_handler \/ Result
           \/ FetchLock \/ FetchSend \/ FetchReturn

(***************************************************************************)
(* The receiver thread.                                                    *)
(***************************************************************************)
Receive == /\ rx.at = "read" /\ up # <<>>
           /\ rx' = [at |-> "handle", pkt |-> Head(up)]
           /\ up' = Tail(up)
           /\ UNCHANGED <<api, connected, info, handler, reg_access, mem_access, log,
                          down, device, written>>

Handled == rx' = [at |-> "read", pkt |-> NoPacket]

\* pthread_cond_signal: wakes the thread if it waits there, else does nothing.
Signal(k) == IF AtStep(k, "wait") THEN Goto("woken") ELSE UNCHANGED api

HandleRegister == /\ rx.at = "handle" /\ rx.pkt.kind = "reg"
                  /\ ~Holds("reg")
                  /\ reg_access' = rx.pkt
                  /\ Signal("reg")
                  /\ Handled
                  /\ UNCHANGED <<connected, info, handler, mem_access, log,
                                 down, up, device, written>>

HasHandler(call) == /\ rx.at = "handle" /\ rx.pkt.kind = "event"
                    /\ rx.pkt.mod \in DOMAIN handler
                    /\ handler[rx.pkt.mod] = call

memory_read_cb ==
    /\ HasHandler("memory_read_cb")
    /\ LET w == rx.pkt.words
           at == mem_access.count
           count == at + Len(w)
       IN  /\ mem_access' = [mem_access EXCEPT !.count = count,
                                !.data = [i \in DOMAIN @ |->
                                    IF i \div 2 \in at .. count - 1
                                    THEN w[i \div 2 - at + 1][IF i % 2 = 0 THEN 2 ELSE 1]
                                    ELSE @[i]]]
           /\ IF count >= mem_access.size \div 2
              THEN rx' = [rx EXCEPT !.at = "signal"] ELSE Handled
    /\ UNCHANGED <<api, connected, info, handler, reg_access, log, down, up, device, written>>

SignalRead == /\ rx.at = "signal"
              /\ ~Holds("fetch")
              /\ Signal("fetch")
              /\ Handled
              /\ UNCHANGED <<connected, info, handler, reg_access, mem_access, log,
                             down, up, device, written>>

\* Mutant: an overflow packet is dropped.
stm_log_handler_drop ==
    /\ HasHandler("stm_log_handler")
    /\ log' = IF rx.pkt.overflow THEN log
              ELSE [lines |-> log.lines + 1, missed |-> log.missed + log.misscount,
                    misscount |-> 0]
    /\ Handled
    /\ UNCHANGED <<api, connected, info, handler, reg_access, mem_access,
                   down, up, device, written>>

\* An overflow packet adds to misscount; the next event reports the misses.
stm_log_handler ==
    /\ HasHandler("stm_log_handler")
    /\ log' = IF rx.pkt.overflow THEN [log EXCEPT !.misscount = @ + rx.pkt.v]
              ELSE [lines |-> log.lines + 1, missed |-> log.missed + log.misscount,
                    misscount |-> 0]
    /\ Handled
    /\ UNCHANGED <<api, connected, info, handler, reg_access, mem_access,
                   down, up, device, written>>

RxStep == Receive \/ HandleRegister \/ memory_read_cb \/ SignalRead \/ stm_log_handler

(***************************************************************************)
(* The debug modules, each behind its own queue of the debug ring.         *)
(***************************************************************************)
Reply(pkt) == Len(up) < Depth /\ up' = Append(up, pkt)
Take(m) == down' = [down EXCEPT ![m] = Tail(@)]
AtModule(m, kind) == down[m] # <<>> /\ Head(down[m]).kind = kind

RegValue(m, r) == CASE r = "id" -> Type[m]
                    [] r = "num" -> Len(Type)
                    [] r = "desc" -> BlockSize
                    [] r = "rst" -> rst_vector

\* osd_regaccess: a read is answered with the value, a write without.  What the
\* chip does with rst_vector, to the caches and the memory too, is not modelled.
RegAccess(m) ==
    /\ AtModule(m, "reg")
    /\ LET q == Head(down[m])
       IN  /\ Reply([mod |-> m, kind |-> "reg", size |-> IF q.write THEN 2 ELSE 3,
                     v |-> IF q.write THEN 0 ELSE RegValue(m, q.r)])
           /\ rst_vector' = IF q.write /\ q.r = "rst" THEN q.v ELSE rst_vector
           /\ stall' = IF q.write /\ q.r = "cs" THEN q.v = 1 ELSE stall
    /\ Take(m)
    /\ UNCHANGED <<host, mam, memory, stm, written>>

\* The words of a packet written from byte address a on.
Stored(a, words) == [b \in DOMAIN memory |->
    IF b >= a /\ b < a + 2 * Len(words)
    THEN words[(b - a) \div 2 + 1][((b - a) % 2) + 1] ELSE memory[b]]

MamCommand ==
    /\ AtModule(Mam, "plain") /\ mam.state = "INACTIVE"
    /\ LET q == Head(down[Mam])
           wide == Stored(q.addr, q.words)
       IN  IF q.cmd = "single"
           THEN /\ memory' = [b \in DOMAIN memory |->
                                 IF b - q.addr \in q.strb THEN wide[b] ELSE memory[b]]
                /\ UNCHANGED mam
           ELSE /\ mam' = [state |-> IF q.cmd = "get" THEN "READ" ELSE "WRITE",
                           addr |-> q.addr, flits |-> q.beats * (BlockSize \div 2)]
                /\ UNCHANGED memory
    /\ Take(Mam)
    /\ UNCHANGED <<host, up, rst_vector, stall, stm, written>>

Advance(n) == mam' = IF n = mam.flits THEN MamIdle
                     ELSE [mam EXCEPT !.addr = @ + 2 * n, !.flits = @ - n]

MamWrite == /\ AtModule(Mam, "plain") /\ mam.state = "WRITE"
            /\ LET w == Head(down[Mam]).words
               IN  memory' = Stored(mam.addr, w) /\ Advance(Len(w))
            /\ Take(Mam)
            /\ UNCHANGED <<host, up, rst_vector, stall, stm, written>>

MamRead == /\ mam.state = "READ"
           /\ LET n == IF mam.flits < WordsPerPacket THEN mam.flits ELSE WordsPerPacket
              IN  /\ Reply([mod |-> Mam, kind |-> "event",
                            words |-> Words([i \in 1 .. 2 * n |-> memory[mam.addr + i - 1]])])
                  /\ Advance(n)
           /\ UNCHANGED <<host, down, rst_vector, stall, memory, stm, written>>

\* osd_tracesample: one clock cycle with a sample, or the cycle without one in
\* which the overflow counter goes into the buffer.
FifoReady == Len(stm.fifo) < FifoDepth
Event(overflow, v) == [mod |-> Stm, kind |-> "event", overflow |-> overflow, v |-> v]

Sample ==
    /\ ~stall /\ stm.sampled < MaxEvents
    /\ LET e == stm.sampled + 1
       IN  stm' = IF ~FifoReady
                  THEN [stm EXCEPT !.sampled = e, !.ov = IF @ = OvMax THEN @ ELSE @ + 1]
                  ELSE IF stm.ov = 0
                  THEN [stm EXCEPT !.sampled = e, !.fifo = Append(@, Event(FALSE, e))]
                  ELSE [sampled |-> e, ov |-> 1,
                        fifo |-> Append(stm.fifo, Event(TRUE, stm.ov))]
    /\ UNCHANGED <<host, down, up, rst_vector, stall, mam, memory, written>>

OverflowComplete ==
    /\ stm.ov > 0 /\ FifoReady
    /\ stm' = [stm EXCEPT !.ov = 0, !.fifo = Append(@, Event(TRUE, stm.ov))]
    /\ UNCHANGED <<host, down, up, rst_vector, stall, mam, memory, written>>

Packetize == /\ stm.fifo # <<>>
             /\ Reply(Head(stm.fifo))
             /\ stm' = [stm EXCEPT !.fifo = Tail(@)]
             /\ UNCHANGED <<host, down, rst_vector, stall, mam, memory, written>>

ModuleStep == \/ \E m \in Module : RegAccess(m)
              \/ MamCommand \/ MamWrite \/ MamRead
              \/ OverflowComplete \/ Packetize

Init ==
    /\ api = [pc |-> "next", todo |-> osd_system_enumerate, result |-> NoResult]
    /\ connected = FALSE /\ info = <<>> /\ handler = <<>>
    /\ reg_access = NoPacket
    /\ mem_access = [size |-> 0, count |-> 0, data |-> <<>>]
    /\ rx = [at |-> "read", pkt |-> NoPacket]
    /\ log = [lines |-> 0, missed |-> 0, misscount |-> 0]
    /\ down = [m \in Module |-> <<>>] /\ up = <<>>
    /\ rst_vector = 0 /\ stall = TRUE
    /\ mam = MamIdle /\ memory = [a \in 0 .. MemSize - 1 |-> 0]
    /\ stm = [sampled |-> 0, ov |-> 0, fifo |-> <<>>]
    /\ written = memory

Next == Call \/ ApiStep \/ RxStep \/ ModuleStep \/ Sample

(***************************************************************************)
(* Fairness: the operating system runs both threads, the modules are       *)
(* clocked (fairness to the modules together is enough, and weaker than    *)
(* what the hardware gives each).  Calls and trace events may stop.        *)
(***************************************************************************)
Fairness == WF_vars(ApiStep) /\ WF_vars(RxStep) /\ WF_vars(ModuleStep)

Spec == Init /\ [][Next]_vars
FairSpec == Spec /\ Fairness

(***************************************************************************)
(* Properties.                                                             *)
(***************************************************************************)
\* The threads, the links and the modules keep their types; a memory read is
\* never sent more words than its buffer holds (memory_read_cb does not look).
TypeOK ==
    /\ api.pc \in {"next", "locked", "sent", "wait", "woken"}
    /\ connected \in BOOLEAN /\ stall \in BOOLEAN /\ rst_vector \in 0 .. 3
    /\ DOMAIN info = DOMAIN handler \/ ~connected
    /\ rx.at \in {"read", "handle", "signal"}
    /\ mem_access.count <= mem_access.size \div 2
    /\ \A m \in Module : Len(down[m]) <= Depth
    /\ Len(up) <= Depth /\ Len(stm.fifo) <= FifoDepth /\ stm.ov \in 0 .. OvMax
    /\ mam.state \in {"INACTIVE", "WRITE", "READ"} /\ mam.flits \in Nat
    /\ DOMAIN memory = 0 .. MemSize - 1 /\ DOMAIN written = DOMAIN memory

\* No wake-up is lost: when osd_handle_packet or memory_read_cb can take the
\* lock to signal, the caller it answers already waits on that condition
\* variable (regaccess.c and memory.c wait without a predicate, so a signal
\* sent earlier would leave the caller asleep for ever).
WakeupMeetsWaiter ==
    /\ rx.at = "handle" /\ rx.pkt.kind = "reg" /\ ~Holds("reg") => AtStep("reg", "wait")
    /\ rx.at = "signal" /\ ~Holds("fetch") => AtStep("fetch", "wait")

\* What osd_reg_access finds in resp_packet when it wakes answers its own
\* request: the module it asked, three words for a read (asserted by
\* osd_reg_read16) with the register's value, two for a write.
ReplyMatches ==
    AtStep("reg", "woken") =>
        /\ reg_access.mod = Step.m
        /\ reg_access.size = IF Step.write THEN 2 ELSE 3
        /\ ~Step.write => reg_access.v = RegValue(Step.m, Step.r)

\* osd_connect returns with the type of every module of the chip.
EnumerationComplete == connected => info = Type

\* An event packet never meets a module without its handler, not even before
\* control_init has allocated the table: modules start stalled, osd_stm_log
\* registers before it unstalls, and memory_read_bulk before it asks.
EventHandled ==
    rx.at = "handle" /\ rx.pkt.kind = "event" =>
        /\ rx.pkt.mod \in DOMAIN handler
        /\ handler[rx.pkt.mod] = IF rx.pkt.mod = Mam THEN "memory_read_cb"
                                                     ELSE "stm_log_handler"

\* A memory read returns what the calls before it wrote, byte for byte, through
\* prologs, bursts, epilogs, packets and byte swaps; and when it returns, every
\* write the library had only posted has reached the memory, so that the
\* verification of osd_memory_loadelf says something about the memory.
ReadExact ==
    Idle /\ api.result # NoResult =>
        /\ \A i \in DOMAIN api.result.data :
                api.result.data[i] = written[api.result.addr + i]
        /\ memory = written

\* The memory access module is never out of step with memory_write_bulk: it
\* takes a header only between accesses, and data only while it expects at
\* least that many words (one word too few would make it read the next header
\* as data, from then on for ever).
MamFraming ==
    AtModule(Mam, "plain") =>
        LET q == Head(down[Mam])
        IN  /\ mam.state = "INACTIVE" => q.cmd # "data"
            /\ mam.state = "WRITE" => q.cmd = "data" /\ Len(q.words) <= mam.flits

\* The log has no silent gap: the event stm_log_handler is about to log is the
\* one after those it has logged, reported missed and counted in misscount,
\* whatever overflowed between the module and the host (OvMax >= MaxEvents).
TraceGapsReported ==
    rx.at = "handle" /\ rx.pkt.kind = "event" /\ rx.pkt.mod = Stm /\ ~rx.pkt.overflow =>
        rx.pkt.v = log.lines + log.missed + log.misscount + 1

\* Every call returns: no order of the two threads, and no full link or trace
\* buffer, leaves the caller waiting.
CallsReturn == ~Idle ~> Idle
=============================================================================
