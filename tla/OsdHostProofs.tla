---------------------------- MODULE OsdHostProofs ----------------------------
(***************************************************************************)
(* Proofs about OsdHost, for every chip, every range written and read and  *)
(* every capacity of the links.  The inductive invariant says what may be  *)
(* under way at once: at most one register access, at most one memory      *)
(* fetch, and of a fetch exactly the words its buffer still lacks.         *)
(*                                                                         *)
(* A sum over the packets of a link is not written as a recursive          *)
(* function, about which nothing could be proved, but as the existence of  *)
(* its partial sums: a function T with T[i + 1] = T[i] + (what packet i    *)
(* adds).  It is shifted when a packet leaves and extended when one comes. *)
(***************************************************************************)
EXTENDS OsdHost, SequenceTheorems, TLAPS

(***************************************************************************)
(* Types.                                                                  *)
(***************************************************************************)
Word == Nat \X Nat
Bytes == [0 .. MemSize - 1 -> Nat]

ReadReg == {"id", "num", "desc"}
RegStep == {s \in [k : {"reg"}, m : Module, r : ReadReg \cup {"rst", "cs"},
                   write : BOOLEAN, v : 0 .. 3] :
              /\ (~s.write) <=> s.r \in ReadReg
              /\ s.r = "cs" => s.m = Stm}
MamPacket == [mod : {Mam}, kind : {"plain"}, cmd : {"single", "burst", "data", "get"},
              addr : Nat, strb : SUBSET Nat, beats : Nat, words : Seq(Word)]
SendStep == {s \in [k : {"send"}, pkt : MamPacket] : s.pkt.cmd # "get"}
BulkStep == [k : {"bulk"}, addr : Nat, bytes : Seq(Nat)]
HandlerStep == [k : {"handler"}, m : {Stm}, call : {"stm_log_handler"}]
ResultStep == [k : {"result"}, addr : Nat, size : Nat]
FetchStep == {s \in [k : {"fetch"}, addr : Nat, n : Nat, off : Nat, skip : Nat, keep : Nat] :
                /\ s.n > 0 /\ s.n % BlockSize = 0
                /\ s.addr + s.n <= MemSize
                /\ s.skip + s.keep <= s.n}
AnyStep == RegStep \cup SendStep \cup BulkStep \cup HandlerStep \cup ResultStep \cup FetchStep

RegRequest == [mod : Module, kind : {"reg"}, r : ReadReg \cup {"rst", "cs"},
               write : BOOLEAN, v : 0 .. 3]
DownPacket == RegRequest \cup MamPacket

RegReply == [mod : Module, kind : {"reg"}, size : {2, 3}, v : Nat]
MamEvent == {p \in [mod : {Mam}, kind : {"event"}, words : Seq(Word)] : p.words # <<>>}
StmEvent == [mod : {Stm}, kind : {"event"}, overflow : BOOLEAN, v : Nat]
UpPacket == RegReply \cup MamEvent \cup StmEvent

ApiShape ==
    /\ api = [pc |-> api.pc, todo |-> api.todo, result |-> api.result]
    /\ api.pc \in {"next", "locked", "sent", "wait", "woken"}
    /\ api.todo \in Seq(AnyStep)
    /\ api.pc # "next" => api.todo # <<>> /\ Step.k \in {"reg", "fetch"}
    /\ connected \in BOOLEAN

HostShape ==
    /\ mem_access = [size |-> mem_access.size, count |-> mem_access.count,
                     data |-> mem_access.data]
    /\ mem_access.size \in Nat /\ mem_access.count \in Nat
    /\ log \in [lines : Nat, missed : Nat, misscount : Nat]

LinkShape ==
    /\ rx = [at |-> rx.at, pkt |-> rx.pkt] /\ rx.at \in {"read", "handle", "signal"}
    /\ rx.at = "handle" => rx.pkt \in UpPacket
    /\ down \in [Module -> Seq(DownPacket)] /\ up \in Seq(UpPacket)
    /\ \A m \in Module : Len(down[m]) <= Depth
    /\ Len(up) <= Depth

DeviceShape ==
    /\ rst_vector \in 0 .. 3 /\ stall \in BOOLEAN
    /\ mam \in [state : {"INACTIVE", "WRITE", "READ"}, addr : Nat, flits : Int]
    /\ mam.state # "WRITE" => mam.flits \in Nat
    /\ memory \in Bytes /\ written \in Bytes
    /\ stm \in [sampled : Nat, ov : 0 .. OvMax, fifo : Seq(StmEvent)]
    /\ Len(stm.fifo) <= FifoDepth

Shape == ApiShape /\ HostShape /\ LinkShape /\ DeviceShape

(***************************************************************************)
(* The packets the host has not handled yet, the oldest first.  Receive    *)
(* leaves them as they are.                                                *)
(***************************************************************************)
Inbox == IF rx.at = "handle" THEN <<rx.pkt>> \o up ELSE up

(***************************************************************************)
(* One register access at a time.                                          *)
(***************************************************************************)
Waiting(k) == AtStep(k, "sent") \/ AtStep(k, "wait")

Request == [mod |-> Step.m, kind |-> "reg", r |-> Step.r, write |-> Step.write, v |-> Step.v]

Answer == [mod |-> Step.m, kind |-> "reg", size |-> IF Step.write THEN 2 ELSE 3,
           v |-> IF Step.write THEN 0 ELSE RegValue(Step.m, Step.r)]

IsReg(p) == p.kind = "reg"

OneAccess ==
    /\ \A m \in Module : \A i \in 1 .. Len(down[m]) : IsReg(down[m][i]) =>
          /\ Waiting("reg") /\ m = Step.m /\ down[m][i] = Request
          /\ \A j \in 1 .. Len(down[m]) : IsReg(down[m][j]) => j = i
          /\ \A j \in 1 .. Len(Inbox) : ~IsReg(Inbox[j])
    /\ \A i \in 1 .. Len(Inbox) : IsReg(Inbox[i]) =>
          /\ Waiting("reg") /\ Inbox[i] = Answer
          /\ \A j \in 1 .. Len(Inbox) : IsReg(Inbox[j]) => j = i
    /\ AtStep("reg", "woken") => reg_access = Answer

(***************************************************************************)
(* The enumeration.                                                        *)
(***************************************************************************)
Remaining(k) == [i \in 1 .. Len(Type) + 1 - k |-> osd_reg_read16(k + i - 1, "id")]

Enumerating(k) ==
    /\ info \in [Module -> Nat]
    /\ \A i \in 1 .. k - 1 : info[i] = Type[i]
    /\ \/ api.todo = Remaining(k) /\ k <= Len(Type)
       \/ k > 1 /\ api.todo = <<osd_reg_read16(k - 1, "desc")>> \o Remaining(k)

Enumeration ==
    /\ connected => info = Type /\ DOMAIN handler = Module
    /\ ~connected => \/ info = <<>> /\ api.todo \in {osd_system_enumerate, Tail(osd_system_enumerate)}
                     \/ \E k \in 1 .. Len(Type) + 1 : Enumerating(k)

(***************************************************************************)
(* Handlers are registered before there is anything to handle.             *)
(***************************************************************************)
IsMam(p) == p.kind = "event" /\ p.mod = Mam
IsStm(p) == p.kind = "event" /\ p.mod = Stm

StmReady == connected /\ handler[Stm] = "stm_log_handler"

Unstall(s) == s.k = "reg" /\ s.r = "cs"

HandlersFirst ==
    /\ ~connected => \A i \in 1 .. Len(api.todo) :
                        api.todo[i].k = "reg" /\ api.todo[i].r \in ReadReg
    /\ ~stall \/ stm.ov > 0 \/ stm.fifo # <<>> => StmReady
    /\ \A i \in 1 .. Len(Inbox) : IsStm(Inbox[i]) => StmReady
    /\ \A m \in Module : \A i \in 1 .. Len(down[m]) :
          IsReg(down[m][i]) /\ down[m][i].r = "cs" => StmReady
    /\ \A i \in 1 .. Len(api.todo) : Unstall(api.todo[i]) =>
          StmReady \/ \E j \in 1 .. i - 1 : api.todo[j].k = "handler"
    /\ api.todo # <<>> /\ Step.k = "fetch" /\ api.pc # "next" => handler[Mam] = "memory_read_cb"

(***************************************************************************)
(* One fetch at a time, and of its words each is in the module, under way, *)
(* or counted.                                                             *)
(***************************************************************************)
IsPlain(p) == p.kind = "plain"
IsGet(p) == IsPlain(p) /\ p.cmd = "get"

Reading == mam.state = "READ"
Left == IF Reading THEN mam.flits ELSE 0

\* What packet p brings of a fetch from address base, when a words came before.
Adds(a, p, b, base, mem) ==
    /\ ~IsMam(p) => b = a
    /\ IsMam(p) => /\ b = a + Len(p.words)
                   /\ \A k \in 1 .. Len(p.words) :
                         p.words[k] = <<mem[base + 2 * (a + k - 1)], mem[base + 2 * (a + k - 1) + 1]>>

Brought(T, s, base, mem) ==
    /\ T \in [1 .. Len(s) + 1 -> Nat]
    /\ \A i, j \in 1 .. Len(s) + 1 : i <= j => T[i] <= T[j]
    /\ \A i \in 1 .. Len(s) : Adds(T[i], s[i], T[i + 1], base, mem)

\* T[i]: the words received once all packets before the i-th are handled.
Flow(T) ==
    /\ Brought(T, Inbox, Step.addr, memory)
    /\ T[1] = mem_access.count
    /\ T[Len(Inbox) + 1] + Left = mem_access.size \div 2
    /\ Reading => mam.addr = Step.addr + 2 * T[Len(Inbox) + 1]

Pending == \E i \in 1 .. Len(down[Mam]) : IsGet(down[Mam][i])

Quiet == ~Reading /\ rx.at # "signal" /\ \A i \in 1 .. Len(Inbox) : ~IsMam(Inbox[i])

OneFetch ==
    /\ ~Waiting("fetch") => Quiet /\ ~Pending
    /\ \A i \in 1 .. Len(down[Mam]) : IsGet(down[Mam][i]) =>
          /\ i = Len(down[Mam]) /\ Quiet /\ mem_access.count = 0
          /\ down[Mam][i].addr = Step.addr /\ down[Mam][i].beats = Step.n \div BlockSize
    /\ api.todo # <<>> /\ Step.k = "fetch" /\ api.pc # "next" =>
          mem_access.size = Step.n
    /\ AtStep("fetch", "locked") => mem_access.count = 0
    /\ AtStep("fetch", "woken") \/ (Waiting("fetch") /\ ~Pending) =>
          /\ mam.state # "WRITE" /\ \A i \in 1 .. Len(down[Mam]) : ~IsPlain(down[Mam][i])
          /\ \E T : Flow(T)
    /\ rx.at = "signal" \/ AtStep("fetch", "woken") => mem_access.count = mem_access.size \div 2
    /\ Reading => mam.flits > 0
    /\ mem_access.count <= mem_access.size \div 2

(***************************************************************************)
(* Every trace event is logged, reported missed, or in this order in the   *)
(* overflow counter, the buffer or the link.                               *)
(***************************************************************************)
Gapless(T, s) ==
    /\ T \in [1 .. Len(s) + 1 -> Nat]
    /\ \A i \in 1 .. Len(s) :
          /\ ~IsStm(s[i]) => T[i + 1] = T[i]
          /\ IsStm(s[i]) /\ s[i].overflow => T[i + 1] = T[i] + s[i].v
          /\ IsStm(s[i]) /\ ~s[i].overflow => s[i].v = T[i] + 1 /\ T[i + 1] = T[i] + 1

Chained(a, s, b) == \E T : Gapless(T, s) /\ T[1] = a /\ T[Len(s) + 1] = b

NoGap ==
    OvMax >= MaxEvents =>
      /\ stm.sampled <= MaxEvents
      /\ \E n \in Nat : /\ Chained(log.lines + log.missed + log.misscount, Inbox, n)
                        /\ Chained(n, stm.fifo, stm.sampled - stm.ov)

IInv == Shape /\ OneAccess /\ Enumeration /\ HandlersFirst /\ OneFetch /\ NoGap

-----------------------------------------------------------------------------
(***************************************************************************)
(* The constants, and division by the size of a memory word.               *)
(***************************************************************************)

\* Division with remainder, for the SMT solver.
LEMMA DivMod ==
  ASSUME NEW x \in Int, NEW n \in Nat \ {0}
  PROVE  /\ x \div n \in Int /\ x % n \in 0 .. n - 1
         /\ x = n * (x \div n) + (x % n)
         /\ x \in Nat => x \div n \in Nat
<1>1. x \div n \in Int /\ x = n * (x \div n) + (x % n) /\ x % n \in 0 .. n - 1
  OBVIOUS
<1>2. ASSUME x \in Nat PROVE x \div n \in Nat
  <2> DEFINE d == x \div n
             r == x % n
  <2>1. d \in Int /\ x = n * d + r /\ r \in 0 .. n - 1
    BY <1>1
  <2> HIDE DEF d, r
  <2>2. SUFFICES ASSUME d <= -1 PROVE FALSE
    BY <2>1 DEF d
  <2>3. n * d <= -n
    BY <2>1, <2>2
  <2> QED BY <1>2, <2>1, <2>3
<1> QED BY <1>1, <1>2

\* The same for natural numbers.
LEMMA NatDivMod ==
  ASSUME NEW x \in Nat, NEW n \in Nat \ {0}
  PROVE  x \div n \in Nat /\ x % n \in 0 .. n - 1 /\ x = n * (x \div n) + (x % n)
<1>1. x \in Int
  OBVIOUS
<1> QED BY <1>1, DivMod

\* A number is a multiple exactly when it leaves no remainder.
LEMMA Multiple ==
  ASSUME NEW x \in Int, NEW n \in Nat \ {0}
  PROVE  x % n = 0 <=> \E q \in Int : x = n * q
<1> DEFINE d == x \div n
           r == x % n
<1>1. d \in Int /\ r \in 0 .. n - 1 /\ x = n * d + r
  BY DivMod
<1> HIDE DEF d, r
<1>2. ASSUME r = 0 PROVE \E q \in Int : x = n * q
  BY <1>1, <1>2
<1>3. ASSUME NEW q \in Int, x = n * q PROVE r = 0
  <2> DEFINE z == q - d
  <2>1. z \in Int /\ n * z = r
    BY <1>1, <1>3
  <2> HIDE DEF z
  <2>2. z >= 1 => n * z >= n
    BY <2>1
  <2>3. z <= -1 => n * z <= -n
    BY <2>1
  <2>4. z = 0 => r = 0
    BY <1>1, <2>1
  <2> QED BY <1>1, <2>1, <2>2, <2>3, <2>4
<1> QED BY <1>2, <1>3 DEF r

\* A multiple divided.
LEMMA Exact ==
  ASSUME NEW q \in Int, NEW n \in Nat \ {0}
  PROVE  (n * q) \div n = q /\ (n * q) % n = 0
<1> DEFINE x == n * q
           d == x \div n
           r == x % n
<1>1. x \in Int
  OBVIOUS
<1>2. r = 0
  BY <1>1, Multiple
<1>3. d \in Int /\ x = n * d + r
  BY <1>1, DivMod
<1> HIDE DEF d, r
<1>4. n * (d - q) = 0
  BY <1>2, <1>3
<1>5. d = q
  BY <1>3, <1>4
<1> QED BY <1>2, <1>5 DEF d, r

\* The modules of the chip: the first is the SCM, one is a MAM, another an STM.
LEMMA Constants ==
  /\ Len(Type) \in Nat \ {0} /\ Type \in [Module -> Nat] /\ Type[1] = 1
  /\ Module = 1 .. Len(Type) /\ Scm = 1 /\ Scm \in Module
  /\ Mam \in Module /\ Type[Mam] = 3 /\ Stm \in Module /\ Type[Stm] = 4 /\ Mam # Stm
<1>1. Type \in Seq(Nat) /\ Len(Type) >= 1 /\ Type[1] = 1
  BY OsdHostAssumption DEF SCM
<1>2. Len(Type) \in Nat /\ Type \in [1 .. Len(Type) -> Nat]
  BY <1>1, LenProperties
<1>3. \A t \in {MAM, STM} : \E m \in Module : Type[m] = t
  BY OsdHostAssumption
<1>4. Mam \in Module /\ Type[Mam] = MAM
  BY <1>3 DEF Mam
<1>5. Stm \in Module /\ Type[Stm] = STM
  BY <1>3 DEF Stm
<1> QED BY <1>1, <1>2, <1>4, <1>5 DEF Module, Scm, MAM, STM

\* The sizes are positive, and a memory word is a whole number of 16-bit words.
LEMMA Sizes ==
  /\ BlockSize \in Nat \ {0} /\ BlockSize % 2 = 0 /\ BlockSize \div 2 \in Nat \ {0}
  /\ BlockSize = 2 * (BlockSize \div 2)
  /\ BULK_MAX \in Nat \ {0} /\ BULK_MAX % BlockSize = 0
  /\ WordsPerPacket \in Nat \ {0} /\ MemSize \in Nat \ {0} /\ MemSize % BlockSize = 0
  /\ Depth \in Nat \ {0} /\ FifoDepth \in Nat \ {0} /\ OvMax \in Nat \ {0} /\ MaxEvents \in Nat
BY OsdHostAssumption

\* calculate_parts: prolog and epilog are less than a word, what is between
\* them is whole words, on whole-word addresses.
LEMMA Parts ==
  ASSUME NEW addr \in Nat, NEW size \in Nat \ {0}
  PROVE  /\ Prolog(addr, size) \in Nat /\ Epilog(addr, size) \in Nat
         /\ Bulk(addr, size) \in Nat /\ Bulk(addr, size) % BlockSize = 0
         /\ Prolog(addr, size) + Bulk(addr, size) + Epilog(addr, size) = size
         /\ Epilog(addr, size) < BlockSize
         /\ size < BlockSize => Prolog(addr, size) = size
         /\ size >= BlockSize => /\ Prolog(addr, size) < BlockSize
                                 /\ (addr + Prolog(addr, size)) % BlockSize = 0
                                 /\ (addr + size - Epilog(addr, size)) % BlockSize = 0
<1>1. BlockSize \in Nat \ {0}
  BY Sizes
<1>2. CASE size < BlockSize
  <2>1. Prolog(addr, size) = size /\ Epilog(addr, size) = 0 /\ Bulk(addr, size) = 0
    BY <1>2 DEF Prolog, Epilog, Bulk
  <2>2. 0 % BlockSize = 0
    BY <1>1, Multiple
  <2> QED BY <1>1, <1>2, <2>1, <2>2
<1>3. CASE size >= BlockSize
  <2> DEFINE B == BlockSize
             p == (B - addr) % B
             e == (addr + size) % B
             c == (B - addr) \div B
             d == (addr + size) \div B
             b == size - p - e
  <2>1. Prolog(addr, size) = p /\ Epilog(addr, size) = e /\ Bulk(addr, size) = b
    BY <1>1, <1>3 DEF Prolog, Epilog, Bulk
  <2>0. B - addr \in Int /\ addr + size \in Int
    BY <1>1
  <2>2. c \in Int /\ p \in 0 .. B - 1 /\ B - addr = B * c + p
    BY <1>1, <2>0, DivMod
  <2>3. d \in Int /\ e \in 0 .. B - 1 /\ addr + size = B * d + e
    BY <1>1, <2>0, DivMod
  <2> HIDE DEF p, e, c, d
  <2>4. addr + p = B * (1 - c) /\ 1 - c \in Int
    BY <1>1, <2>2
  <2>5. addr + size - e = B * d
    BY <1>1, <2>3
  <2>6. b = B * (d + c - 1) /\ d + c - 1 \in Int
    BY <1>1, <2>2, <2>3, <2>4, <2>5
  <2>7. b \in Nat
    <3>1. B * (d + c - 1) > -B
      BY <1>1, <1>3, <2>2, <2>3, <2>6
    <3> DEFINE z == d + c - 1
    <3>2. z \in Int /\ B * z > -B
      BY <2>2, <2>3, <3>1
    <3> HIDE DEF z
    <3>3. z >= 0
      <4> SUFFICES ASSUME z <= -1 PROVE FALSE
        BY <3>2
      <4>1. B * z <= -B
        BY <1>1, <3>2
      <4> QED BY <1>1, <3>2, <4>1
    <3>4. B * z \in Nat
      BY <1>1, <3>2, <3>3
    <3> QED BY <2>6, <3>4 DEF z
  <2> HIDE DEF b
  <2>8. b % B = 0 /\ (addr + p) % B = 0 /\ (addr + size - e) % B = 0
    <3>1. b \in Int /\ addr + p \in Int /\ addr + size - e \in Int
      BY <1>1, <2>2, <2>3, <2>7
    <3>2. b % B = 0
      BY <1>1, <2>6, <3>1, Multiple
    <3>3. (addr + p) % B = 0
      BY <1>1, <2>4, <3>1, Multiple
    <3>4. (addr + size - e) % B = 0
      BY <1>1, <2>3, <2>5, <3>1, Multiple
    <3> QED BY <3>2, <3>3, <3>4
  <2>9. p + b + e = size
    BY <2>2, <2>3 DEF b
  <2> QED BY <1>1, <1>3, <2>1, <2>2, <2>3, <2>7, <2>8, <2>9
<1> QED BY <1>1, <1>2, <1>3

\* The bursts b lie one after the other from p to z, in whole words.
Tile(b, p, z) ==
    /\ b \in Seq([off : Nat, n : Nat])
    /\ Len(b) \in Nat
    /\ Len(b) = 0 <=> p = z
    /\ Len(b) > 0 => b[1].off = p
    /\ \A j \in 1 .. Len(b) :
          /\ b[j].n \in 1 .. BULK_MAX /\ b[j].n % BlockSize = 0
          /\ p <= b[j].off /\ b[j].off + b[j].n <= z
          /\ b[j].off + b[j].n = IF j = Len(b) THEN z ELSE b[j + 1].off
    /\ \A x \in p .. z - 1 : \E j \in 1 .. Len(b) :
          b[j].off <= x /\ x < b[j].off + b[j].n

\* The bursts of a range on which the loop is right: whole words, one after the
\* other, from the end of the prolog to the start of the epilog.
LEMMA BurstFacts ==
  ASSUME NEW addr \in Nat, NEW size \in Nat \ {0}, Tiled(addr, size)
  PROVE  Tile(Bursts(addr, size), Prolog(addr, size), Prolog(addr, size) + Bulk(addr, size))
<1> DEFINE b == Bursts(addr, size)
           p == Prolog(addr, size)
           k == Bulk(addr, size)
           M == BULK_MAX
           N == (size + M - 1) \div M
<1>1. p \in Nat /\ k \in Nat /\ k % BlockSize = 0 /\ p + k <= size
  BY Parts
<1>2. M \in Nat \ {0} /\ BlockSize \in Nat \ {0} /\ M % BlockSize = 0
  BY Sizes
<1>3. CASE k = 0
  <2>1. b = <<>>
    BY <1>3 DEF Bursts
  <2> HIDE DEF b
  <2>2. Len(b) = 0 /\ b \in Seq([off : Nat, n : Nat])
    BY <2>1
  <2>3. p + k = p
    BY <1>1, <1>3
  <2>4. Tile(b, p, p + k)
    BY <1>1, <2>2, <2>3 DEF Tile
  <2> QED BY <2>4 DEF b
<1>4. CASE k # 0
  <2> DEFINE P(j) == M * (j - 1)
  <2>1. b = [j \in 1 .. N |-> [off |-> p + (j - 1) * M,
                n |-> IF (j - 1) * M + M > size THEN k - (j - 1) * M ELSE M]]
    BY <1>4 DEF Bursts
  <2>2. N \in Nat \ {0} /\ M * (N - 1) <= size - 1 /\ M * N >= size
    <3> DEFINE r == (size + M - 1) % M
    <3>1. size + M - 1 \in Nat /\ size + M - 1 \in Int
      BY <1>2
    <3>2. N \in Nat /\ r \in 0 .. M - 1 /\ size + M - 1 = M * N + r
      BY <1>2, <3>1, DivMod
    <3> HIDE DEF N, r
    <3>3. N # 0
      BY <1>2, <3>2
    <3> QED BY <1>2, <3>2, <3>3
  <2> HIDE DEF N
  <2>3. \A j \in 1 .. N : P(j) \in Nat /\ P(j) = (j - 1) * M /\ P(j) <= size - 1 /\ P(j + 1) = P(j) + M
    <3> SUFFICES ASSUME NEW j \in 1 .. N
                 PROVE  P(j) \in Nat /\ P(j) = (j - 1) * M /\ P(j) <= size - 1 /\ P(j + 1) = P(j) + M
      OBVIOUS
    <3>1. P(j) \in Nat /\ P(j) = (j - 1) * M /\ P(j + 1) = P(j) + M
      BY <1>2, <2>2
    <3>2. M * (j - 1) <= M * (N - 1)
      BY <1>2, <2>2
    <3> QED BY <1>2, <2>2, <3>1, <3>2
  <2>4. \A j \in 1 .. N - 1 : P(j) + M <= size
    <3> SUFFICES ASSUME NEW j \in 1 .. N - 1 PROVE P(j) + M <= size
      OBVIOUS
    <3>1. j + 1 \in 1 .. N /\ j \in 1 .. N
      BY <2>2
    <3>2. P(j + 1) = P(j) + M /\ P(j + 1) <= size - 1 /\ P(j) \in Nat
      BY <2>3, <3>1
    <3> QED BY <1>2, <3>2
  <2> HIDE DEF P
  <2>5. b = [j \in 1 .. N |-> [off |-> p + P(j), n |-> IF P(j) + M > size THEN k - P(j) ELSE M]]
    BY <2>1, <2>3
  <2>6. \A j \in 1 .. N : b[j].off = p + P(j) /\ b[j].n = (IF P(j) + M > size THEN k - P(j) ELSE M)
    BY <2>5
  <2>7. DOMAIN b = 1 .. N /\ b # <<>> /\ Len(b) = N
    BY <2>2, <2>5
  <2>8. /\ \A j \in 1 .. N : b[j].n \in 1 .. M
        /\ b[N].off + b[N].n = p + k
    BY <2>7 DEF Tiled
  <2>9. b \in Seq([off : Nat, n : Nat])
    <3>1. ASSUME NEW j \in 1 .. N PROVE b[j] \in [off : Nat, n : Nat]
      <4> DEFINE o == p + P(j)
                 c == IF P(j) + M > size THEN k - P(j) ELSE M
      <4>1. b[j] = [off |-> o, n |-> c]
        BY <2>5
      <4>2. o \in Nat
        BY <1>1, <2>3
      <4>3. c \in Nat
        <5>1. c \in 1 .. M
          BY <2>6, <2>8
        <5> QED BY <1>2, <5>1
      <4> HIDE DEF o, c
      <4> QED BY <4>1, <4>2, <4>3
    <3> QED BY <2>2, <2>5, <3>1, <2>7
  <2> HIDE DEF b
  <2>10. P(N) + b[N].n = k /\ N \in 1 .. N /\ P(N) \in Nat
    <3>1. N \in 1 .. N
      BY <2>2
    <3>2. b[N].n \in Nat /\ P(N) \in Nat /\ b[N].off = p + P(N)
      <4>1. b[N].n \in 1 .. M
        BY <2>8, <3>1
      <4>2. P(N) \in Nat /\ b[N].off = p + P(N)
        BY <2>3, <2>6, <3>1
      <4> QED BY <1>2, <4>1, <4>2
    <3> QED BY <1>1, <2>8, <3>1, <3>2
  <2>11. \A j \in 1 .. N - 1 : b[j].n = M /\ b[j].off + b[j].n = b[j + 1].off
    BY <1>1, <1>2, <2>2, <2>3, <2>4, <2>6
  <2>12. \A j \in 1 .. N : P(j) <= P(N)
    <3> SUFFICES ASSUME NEW j \in 1 .. N PROVE P(j) <= P(N)
      OBVIOUS
    <3>1. M * (j - 1) <= M * (N - 1)
      BY <1>2, <2>2
    <3> QED BY <3>1 DEF P
  <2>13. \A j \in 1 .. N : p <= b[j].off /\ b[j].off + b[j].n <= p + k
    <3> SUFFICES ASSUME NEW j \in 1 .. N PROVE p <= b[j].off /\ b[j].off + b[j].n <= p + k
      OBVIOUS
    <3>1. CASE j = N
      BY <1>1, <2>3, <2>6, <2>8, <3>1
    <3>2. CASE j # N
      <4>1. j \in 1 .. N - 1 /\ j + 1 \in 1 .. N
        BY <2>2, <3>2
      <4>2. b[j].off + b[j].n = p + P(j + 1)
        BY <2>6, <2>11, <4>1
      <4> QED BY <1>1, <2>3, <2>6, <2>8, <2>10, <2>12, <4>1, <4>2
    <3> QED BY <3>1, <3>2
  <2>14. \A j \in 1 .. N : b[j].n % BlockSize = 0
    <3> SUFFICES ASSUME NEW j \in 1 .. N PROVE b[j].n % BlockSize = 0
      OBVIOUS
    <3>1. CASE j # N
      BY <1>2, <2>2, <2>11, <3>1
    <3>2. CASE j = N
      <4>1. PICK c \in Int : k = BlockSize * c
        <5>1. k \in Int
          BY <1>1
        <5> QED BY <1>1, <1>2, <5>1, Multiple
      <4>2. PICK d \in Int : M = BlockSize * d
        <5>1. M \in Int
          BY <1>2
        <5> QED BY <1>2, <5>1, Multiple
      <4>3. b[N].n = BlockSize * c - (BlockSize * d) * (N - 1)
        BY <1>1, <2>8, <2>10, <4>1, <4>2 DEF P
      <4>4. b[N].n = BlockSize * (c - d * (N - 1)) /\ c - d * (N - 1) \in Int
        BY <1>2, <2>2, <4>3
      <4>5. b[N].n \in Int
        BY <1>2, <2>8, <2>10
      <4>6. b[N].n % BlockSize = 0
        BY <1>2, <4>4, <4>5, Multiple
      <4> QED BY <3>2, <4>6
    <3> QED BY <3>1, <3>2
  <2>15. \A x \in p .. p + k - 1 : \E j \in 1 .. N : b[j].off <= x /\ x < b[j].off + b[j].n
    <3> SUFFICES ASSUME NEW x \in p .. p + k - 1
                 PROVE  \E j \in 1 .. N : b[j].off <= x /\ x < b[j].off + b[j].n
      OBVIOUS
    <3> DEFINE q == (x - p) \div M
               r == (x - p) % M
    <3>1. x - p \in Nat /\ x - p \in Int
      BY <1>1
    <3>2. q \in Nat /\ r \in 0 .. M - 1 /\ x - p = M * q + r
      BY <1>2, <3>1, DivMod
    <3> HIDE DEF q, r
    <3>3. P(q + 1) = M * q
      BY <3>2 DEF P
    <3>4. CASE q + 1 >= N
      <4>1. M * q >= M * (N - 1)
        BY <1>2, <2>2, <3>2, <3>4
      <4>2. p + P(N) <= x
        BY <1>1, <1>2, <3>1, <3>2, <4>1, <2>2 DEF P
      <4> QED BY <1>1, <2>6, <2>8, <2>10, <4>2
    <3>5. CASE q + 1 < N
      <4>1. q + 1 \in 1 .. N - 1 /\ q + 1 \in 1 .. N
        BY <2>2, <3>2, <3>5
      <4>2. b[q + 1].n = M /\ b[q + 1].off = p + M * q
        BY <2>6, <2>11, <3>3, <4>1
      <4>3. b[q + 1].off <= x /\ x < b[q + 1].off + b[q + 1].n
        BY <1>1, <1>2, <3>1, <3>2, <4>2
      <4> QED BY <4>1, <4>3
    <3> QED BY <2>2, <3>2, <3>4, <3>5
  <2>16. b[1].off = p
    <3>1. P(1) = 0
      BY <1>2 DEF P
    <3> QED BY <1>1, <2>2, <2>6, <3>1
  <2>17. \A j \in 1 .. Len(b) :
            /\ b[j].n \in 1 .. M /\ b[j].n % BlockSize = 0
            /\ p <= b[j].off /\ b[j].off + b[j].n <= p + k
            /\ b[j].off + b[j].n = IF j = Len(b) THEN p + k ELSE b[j + 1].off
    BY <2>2, <2>7, <2>8, <2>11, <2>13, <2>14
  <2>18. /\ Len(b) \in Nat
         /\ Len(b) = 0 <=> p = p + k
         /\ Len(b) > 0 => b[1].off = p
         /\ \A x \in p .. p + k - 1 : \E j \in 1 .. Len(b) :
               b[j].off <= x /\ x < b[j].off + b[j].n
    BY <1>1, <1>4, <2>2, <2>7, <2>15, <2>16
  <2>19. Tile(b, p, p + k)
    <3> DEFINE z == p + k
    <3>1. b \in Seq([off : Nat, n : Nat])
      BY <2>9
    <3>2. Len(b) \in Nat
      BY <2>18
    <3>3. Len(b) = 0 <=> p = z
      BY <2>18
    <3>4. Len(b) > 0 => b[1].off = p
      BY <2>18
    <3>5. \A j \in 1 .. Len(b) :
            /\ b[j].n \in 1 .. BULK_MAX /\ b[j].n % BlockSize = 0
            /\ p <= b[j].off /\ b[j].off + b[j].n <= z
            /\ b[j].off + b[j].n = IF j = Len(b) THEN z ELSE b[j + 1].off
      BY <2>17
    <3>6. \A x \in p .. z - 1 : \E j \in 1 .. Len(b) :
             b[j].off <= x /\ x < b[j].off + b[j].n
      BY <1>1, <2>18
    <3> HIDE DEF z, p, k
    <3>7. Tile(b, p, z)
      BY ONLY <3>1, <3>2, <3>3, <3>4, <3>5, <3>6, Zenon DEF Tile
    <3> QED BY <3>7 DEF z
  <2> QED BY <2>19 DEF b
<1> QED BY <1>1, <1>3, <1>4

(***************************************************************************)
(* The steps of the calls.                                                 *)
(***************************************************************************)

\* A step of each kind is a record of its kind.
LEMMA StepKinds ==
  ASSUME NEW s \in AnyStep
  PROVE  /\ s.k = "reg" <=> s \in RegStep
         /\ s.k = "send" <=> s \in SendStep
         /\ s.k = "bulk" <=> s \in BulkStep
         /\ s.k = "handler" <=> s \in HandlerStep
         /\ s.k = "result" <=> s \in ResultStep
         /\ s.k = "fetch" <=> s \in FetchStep
         /\ s.k \in {"reg", "send", "bulk", "handler", "result", "fetch"}
<1>1. s \in RegStep => s.k = "reg"
  BY DEF RegStep
<1>2. s \in SendStep => s.k = "send"
  BY DEF SendStep
<1>3. s \in BulkStep => s.k = "bulk"
  BY DEF BulkStep
<1>4. s \in HandlerStep => s.k = "handler"
  BY DEF HandlerStep
<1>5. s \in ResultStep => s.k = "result"
  BY DEF ResultStep
<1>6. s \in FetchStep => s.k = "fetch"
  BY DEF FetchStep
<1> QED BY <1>1, <1>2, <1>3, <1>4, <1>5, <1>6 DEF AnyStep

\* A buffer of bytes, paired into 16-bit words.
LEMMA WordsType ==
  ASSUME NEW bytes \in Seq(Nat)
  PROVE  /\ Words(bytes) \in Seq(Word) /\ Len(Words(bytes)) = Len(bytes) \div 2
         /\ \A i \in 1 .. Len(bytes) \div 2 : Words(bytes)[i] = <<bytes[2 * i - 1], bytes[2 * i]>>
<1> DEFINE n == Len(bytes) \div 2
           w == [i \in 1 .. n |-> <<bytes[2 * i - 1], bytes[2 * i]>>]
<1>1. n \in Nat /\ 2 * n <= Len(bytes) /\ Len(bytes) \in Nat
  OBVIOUS
<1>2. \A i \in 1 .. n : <<bytes[2 * i - 1], bytes[2 * i]>> \in Word
  <2> SUFFICES ASSUME NEW i \in 1 .. n PROVE bytes[2 * i - 1] \in Nat /\ bytes[2 * i] \in Nat
    BY DEF Word
  <2>1. 2 * i - 1 \in 1 .. Len(bytes) /\ 2 * i \in 1 .. Len(bytes)
    BY <1>1
  <2> QED BY <2>1
<1> HIDE DEF n
<1>3. w \in Seq(Word) /\ Len(w) = n
  BY <1>1, <1>2
<1> QED BY <1>3 DEF Words, n

\* memory_write_single makes packets for the MAM.
LEMMA SingleType ==
  ASSUME NEW addr \in Nat, NEW bytes \in Seq(Nat)
  PROVE  memory_write_single(addr, bytes) \in Seq(SendStep)
<1> DEFINE b == addr % BlockSize
           block == [i \in 1 .. BlockSize |-> IF i - b \in DOMAIN bytes THEN bytes[i - b] ELSE 0]
           strb == {i \in 0 .. BlockSize - 1 : i >= b /\ i < b + Len(bytes)}
           x == ToMam("single", addr - b, strb, 1, Words(block))
<1>1. BlockSize \in Nat \ {0}
  BY Sizes
<1>2. b \in Nat /\ addr - b \in Nat
  <2> DEFINE d == addr \div BlockSize
  <2>1. d \in Nat /\ b \in 0 .. BlockSize - 1 /\ addr = BlockSize * d + b
    BY <1>1, NatDivMod
  <2> HIDE DEF d, b
  <2>2. BlockSize * d \in Nat
    BY <1>1, <2>1
  <2> QED BY <2>1, <2>2
<1>3. block \in Seq(Nat)
  <2>1. \A i \in 1 .. BlockSize : (IF i - b \in DOMAIN bytes THEN bytes[i - b] ELSE 0) \in Nat
    OBVIOUS
  <2> HIDE DEF b
  <2> QED BY <1>1, <2>1
<1>4. Words(block) \in Seq(Word)
  BY <1>3, WordsType
<1>5. strb \in SUBSET Nat
  BY <1>1
<1> HIDE DEF b, block, strb
<1>6. x.pkt \in MamPacket /\ x = [k |-> "send", pkt |-> x.pkt] /\ x.pkt.cmd = "single"
  BY <1>2, <1>4, <1>5 DEF ToMam, MamPacket
<1>7. x \in SendStep
  BY <1>6 DEF SendStep
<1>8. memory_write_single(addr, bytes) = <<x>>
  BY Zenon DEF memory_write_single, x, strb, block, b
<1> HIDE DEF x
<1> QED BY <1>7, <1>8

\* memory_write_bulk makes packets for the MAM, header and data.
LEMMA BulkType ==
  ASSUME NEW addr \in Nat, NEW bytes \in Seq(Nat)
  PROVE  memory_write_bulk(addr, bytes) \in Seq(SendStep)
<1> DEFINE w == Words(bytes)
           P == WordsPerPacket
           full == Len(w) \div P
           pkt(j) == ToMam("data", 0, {}, 0, SubSeq(w, (j - 1) * P + 1, j * P))
           data == [j \in 1 .. full |-> pkt(j)]
           rest == SubSeq(w, full * P + 1, Len(w))
           last == IF rest = <<>> THEN <<>> ELSE <<ToMam("data", 0, {}, 0, rest)>>
           head == <<ToMam("burst", addr, {}, Len(bytes) \div BlockSize, <<>>)>>
<1>1. P \in Nat \ {0} /\ BlockSize \in Nat \ {0}
  BY Sizes
<1>2. w \in Seq(Word) /\ Len(w) \in Nat
  BY WordsType
<1> HIDE DEF w
<1>3. full \in Nat /\ P * full <= Len(w)
  <2> DEFINE r == Len(w) % P
  <2>1. full \in Nat /\ r \in 0 .. P - 1 /\ Len(w) = P * full + r
    BY <1>1, <1>2, NatDivMod
  <2> HIDE DEF r, full
  <2> QED BY <1>1, <1>2, <2>1
<1> HIDE DEF full
<1>4. ASSUME NEW a \in Nat, NEW n \in Nat, NEW cmd \in {"burst", "data"}, NEW v \in Seq(Word)
      PROVE  ToMam(cmd, a, {}, n, v) \in SendStep
  BY <1>4 DEF ToMam, SendStep, MamPacket
<1>5. \A j \in 1 .. full : pkt(j) \in SendStep
  <2> SUFFICES ASSUME NEW j \in 1 .. full PROVE pkt(j) \in SendStep
    OBVIOUS
  <2> DEFINE u == (j - 1) * P + 1
             v == j * P
  <2>1. u \in Nat /\ v \in Nat /\ 1 <= u /\ v <= Len(w)
    <3>1. u \in Nat /\ v \in Nat /\ 1 <= u
      BY <1>1, <1>3
    <3>2. P * j <= P * full /\ v = P * j
      BY <1>1, <1>3
    <3> QED BY <1>1, <1>2, <1>3, <3>1, <3>2
  <2> HIDE DEF u, v
  <2>2. \A i \in u .. v : w[i] \in Word
    BY <1>2, <2>1
  <2>3. SubSeq(w, u, v) \in Seq(Word)
    BY <2>1, <2>2, SubSeqProperties
  <2>4. ToMam("data", 0, {}, 0, SubSeq(w, u, v)) \in SendStep
    BY <1>4, <2>3
  <2> QED BY <2>4 DEF u, v
<1>6. data \in Seq(SendStep)
  <2> HIDE DEF pkt
  <2> QED BY <1>3, <1>5
<1>7. rest \in Seq(Word)
  <2> DEFINE u == full * P + 1
  <2>1. u \in Nat /\ 1 <= u
    BY <1>1, <1>3
  <2> HIDE DEF u
  <2>2. \A i \in u .. Len(w) : w[i] \in Word
    BY <1>2, <2>1
  <2>3. SubSeq(w, u, Len(w)) \in Seq(Word)
    BY <1>2, <2>1, <2>2, SubSeqProperties
  <2> QED BY <2>3 DEF u
<1> HIDE DEF rest
<1>8. last \in Seq(SendStep)
  <2>1. ToMam("data", 0, {}, 0, rest) \in SendStep
    BY <1>4, <1>7
  <2> QED BY <2>1
<1>9. head \in Seq(SendStep)
  <2>1. Len(bytes) \div BlockSize \in Nat
    BY <1>1, NatDivMod
  <2>2. <<>> \in Seq(Word)
    OBVIOUS
  <2> DEFINE n == Len(bytes) \div BlockSize
  <2> HIDE DEF n
  <2>3. ToMam("burst", addr, {}, n, <<>>) \in SendStep
    BY <1>4, <2>1, <2>2 DEF n
  <2>4. <<ToMam("burst", addr, {}, n, <<>>)>> \in Seq(SendStep)
    BY <2>3
  <2> QED BY <2>4 DEF n
<1> HIDE DEF head, last, data
<1>10. head \o data \o last \in Seq(SendStep)
  BY <1>6, <1>8, <1>9
<1>11. memory_write_bulk(addr, bytes) = IF Len(bytes) > BULK_MAX THEN <<>> ELSE head \o data \o last
  BY Zenon DEF memory_write_bulk, head, data, last, rest, full, w
<1>12. <<>> \in Seq(SendStep)
  OBVIOUS
<1> QED BY <1>10, <1>11, <1>12

\* A part of a buffer.
LEMMA PartType ==
  ASSUME NEW S, NEW s \in Seq(S), NEW m \in Nat, NEW n \in Nat, 1 <= m, n <= Len(s), m <= n + 1
  PROVE  /\ SubSeq(s, m, n) \in Seq(S) /\ Len(SubSeq(s, m, n)) = n - m + 1
         /\ \A i \in 1 .. n - m + 1 : SubSeq(s, m, n)[i] = s[m + i - 1]
<1>1. \A i \in m .. n : s[i] \in S
  OBVIOUS
<1>2. m \in Int /\ n \in Int
  OBVIOUS
<1>3. /\ SubSeq(s, m, n) \in Seq(S)
      /\ Len(SubSeq(s, m, n)) = IF m <= n THEN n - m + 1 ELSE 0
      /\ \A i \in 1 .. n - m + 1 : SubSeq(s, m, n)[i] = s[m + i - 1]
  BY <1>1, <1>2, SubSeqProperties
<1> QED BY <1>3

BulkSteps(addr, bytes, b) ==
    [j \in DOMAIN b |-> [k |-> "bulk", addr |-> addr + b[j].off,
                         bytes |-> SubSeq(bytes, b[j].off + 1, b[j].off + b[j].n)]]

\* The burst loop of osd_memory_write makes one burst for each tile.
LEMMA BulkStepsType ==
  ASSUME NEW addr \in Nat, NEW bytes \in Seq(Nat), NEW b, NEW p \in Nat, NEW z \in Nat,
         Tile(b, p, z), z <= Len(bytes)
  PROVE  /\ BulkSteps(addr, bytes, b) \in Seq(BulkStep)
         /\ Len(BulkSteps(addr, bytes, b)) = Len(b)
         /\ \A j \in 1 .. Len(b) : BulkSteps(addr, bytes, b)[j] =
              [k |-> "bulk", addr |-> addr + b[j].off,
               bytes |-> SubSeq(bytes, b[j].off + 1, b[j].off + b[j].n)]
<1>1. b \in Seq([off : Nat, n : Nat]) /\ Len(b) \in Nat /\ DOMAIN b = 1 .. Len(b)
  BY DEF Tile
<1>2. \A j \in 1 .. Len(b) : b[j].off \in Nat /\ b[j].n \in Nat /\ b[j].off + b[j].n <= z
  <2>1. \A j \in 1 .. Len(b) : b[j] \in [off : Nat, n : Nat]
    BY <1>1, ElementOfSeq
  <2>2. \A j \in 1 .. Len(b) : b[j].off + b[j].n <= z
    BY Zenon DEF Tile
  <2> QED BY <2>1, <2>2
<1> DEFINE step(j) == [k |-> "bulk", addr |-> addr + b[j].off,
                       bytes |-> SubSeq(bytes, b[j].off + 1, b[j].off + b[j].n)]
<1>3. \A j \in 1 .. Len(b) : step(j) \in BulkStep
  <2> SUFFICES ASSUME NEW j \in 1 .. Len(b) PROVE step(j) \in BulkStep
    OBVIOUS
  <2> DEFINE o == b[j].off
             c == b[j].n
             m == o + 1
             n == o + c
  <2>1. m \in Nat /\ n \in Nat /\ 1 <= m /\ n <= Len(bytes) /\ m <= n + 1 /\ addr + b[j].off \in Nat
    <3>1. o \in Nat /\ c \in Nat /\ o + c <= z /\ Len(bytes) \in Nat
      BY <1>2
    <3> HIDE DEF o, c
    <3>2. m \in Nat /\ n \in Nat /\ 1 <= m /\ n <= Len(bytes) /\ m <= n + 1 /\ addr + o \in Nat
      BY <3>1
    <3> QED BY <3>2 DEF o, c
  <2> HIDE DEF m, n
  <2>2. SubSeq(bytes, m, n) \in Seq(Nat)
    BY <2>1, PartType
  <2> QED BY <2>1, <2>2 DEF BulkStep, m, n
<1> HIDE DEF step
<1>4. BulkSteps(addr, bytes, b) = [j \in 1 .. Len(b) |-> step(j)]
  BY <1>1, Zenon DEF BulkSteps, step
<1>5. /\ BulkSteps(addr, bytes, b) \in Seq(BulkStep)
      /\ Len(BulkSteps(addr, bytes, b)) = Len(b)
      /\ \A j \in 1 .. Len(b) : BulkSteps(addr, bytes, b)[j] = step(j)
  BY <1>1, <1>3, <1>4
<1> QED BY <1>5 DEF step

\* The three parts of a write.
WriteHead(addr, bytes) ==
    LET p == Prolog(addr, Len(bytes))
    IN  IF p > 0 THEN memory_write_single(addr, SubSeq(bytes, 1, p)) ELSE <<>>

WriteLast(addr, bytes) ==
    LET size == Len(bytes)
        e == Epilog(addr, size)
    IN  IF e > 0 THEN memory_write_single(addr + size - e, SubSeq(bytes, size - e + 1, size))
        ELSE <<>>

\* A write is prolog, bursts and epilog.
LEMMA WriteParts ==
  ASSUME NEW addr, NEW bytes
  PROVE  osd_memory_write(addr, bytes) =
            WriteHead(addr, bytes) \o BulkSteps(addr, bytes, Bursts(addr, Len(bytes)))
              \o WriteLast(addr, bytes)
BY Zenon DEF osd_memory_write, WriteHead, WriteLast, BulkSteps

\* osd_memory_write makes packets and bursts only.
LEMMA WriteType ==
  ASSUME NEW addr \in Nat, NEW bytes \in Seq(Nat), Len(bytes) # 0, Tiled(addr, Len(bytes))
  PROVE  /\ osd_memory_write(addr, bytes) \in Seq(AnyStep)
         /\ \A i \in 1 .. Len(osd_memory_write(addr, bytes)) :
               osd_memory_write(addr, bytes)[i].k \in {"send", "bulk"}
<1> DEFINE size == Len(bytes)
           p == Prolog(addr, size)
           e == Epilog(addr, size)
           k == Bulk(addr, size)
           S == SendStep \cup BulkStep
<1>1. size \in Nat \ {0}
  OBVIOUS
<1>2. p \in Nat /\ e \in Nat /\ k \in Nat /\ p + k + e = size
  BY <1>1, Parts
<1>3. Tile(Bursts(addr, size), p, p + k)
  BY <1>1, BurstFacts
<1> HIDE DEF p, e, k
<1>4. WriteHead(addr, bytes) \in Seq(S)
  <2>1. CASE p > 0
    <3>1. SubSeq(bytes, 1, p) \in Seq(Nat)
      BY <1>1, <1>2, <2>1, PartType
    <3>2. memory_write_single(addr, SubSeq(bytes, 1, p)) \in Seq(SendStep)
      BY <3>1, SingleType
    <3>3. WriteHead(addr, bytes) = memory_write_single(addr, SubSeq(bytes, 1, p))
      BY <2>1, Zenon DEF WriteHead, p
    <3> QED BY <3>2, <3>3, SeqMonotonic
  <2>2. CASE ~(p > 0)
    BY <2>2 DEF WriteHead, p
  <2> QED BY <2>1, <2>2
<1>5. WriteLast(addr, bytes) \in Seq(S)
  <2>1. CASE e > 0
    <3>0. size - e + 1 \in Nat /\ 1 <= size - e + 1 /\ size \in Nat /\ size - e + 1 <= size + 1
          /\ addr + size - e \in Nat
      BY <1>1, <1>2, <2>1
    <3>1. SubSeq(bytes, size - e + 1, size) \in Seq(Nat)
      BY <3>0, PartType
    <3>2. memory_write_single(addr + size - e, SubSeq(bytes, size - e + 1, size)) \in Seq(SendStep)
      BY <3>0, <3>1, SingleType
    <3>3. WriteLast(addr, bytes)
            = memory_write_single(addr + size - e, SubSeq(bytes, size - e + 1, size))
      BY <2>1, Zenon DEF WriteLast, e
    <3> QED BY <3>2, <3>3, SeqMonotonic
  <2>2. CASE ~(e > 0)
    BY <2>2 DEF WriteLast, e
  <2> QED BY <2>1, <2>2
<1>6. BulkSteps(addr, bytes, Bursts(addr, size)) \in Seq(S)
  <2>1. p + k \in Nat /\ p + k <= size
    BY <1>1, <1>2
  <2>2. BulkSteps(addr, bytes, Bursts(addr, size)) \in Seq(BulkStep)
    BY <1>3, <1>2, <2>1, BulkStepsType
  <2> QED BY <2>2, SeqMonotonic
<1> DEFINE q == osd_memory_write(addr, bytes)
<1> HIDE DEF S
<1>7. q \in Seq(S)
  BY <1>4, <1>5, <1>6, WriteParts, ConcatProperties
<1> HIDE DEF q
<1>8. q \in Seq(AnyStep)
  <2>1. S \subseteq AnyStep
    BY DEF AnyStep, S
  <2> QED BY <1>7, <2>1, SeqMonotonic
<1>9. \A x \in S : x.k \in {"send", "bulk"}
  BY DEF S, SendStep, BulkStep
<1>10. \A i \in 1 .. Len(q) : q[i] \in S
  BY <1>7
<1> QED BY <1>8, <1>9, <1>10 DEF q

FetchSteps(addr, b) ==
    [j \in DOMAIN b |-> memory_read_bulk(addr + b[j].off, b[j].n, b[j].off, 0, b[j].n)]

ReadHead(addr, size) ==
    LET p == Prolog(addr, size)
    IN  IF p > 0
        THEN <<memory_read_bulk(addr - BlockSize + p, BlockSize, 0, BlockSize - p, p)>>
        ELSE <<>>

ReadLast(addr, size) ==
    LET e == Epilog(addr, size)
    IN  IF e > 0 THEN <<memory_read_bulk(addr + size - e, BlockSize, size - e, 0, e)>> ELSE <<>>

\* A read is the allocation of the buffer, prolog, bursts and epilog.
LEMMA ReadParts ==
  ASSUME NEW addr, NEW size
  PROVE  osd_memory_read(addr, size) =
            <<[k |-> "result", addr |-> addr, size |-> size]>>
              \o ReadHead(addr, size) \o FetchSteps(addr, Bursts(addr, size))
              \o ReadLast(addr, size)
BY Zenon DEF osd_memory_read, ReadHead, ReadLast, FetchSteps

\* The fetches of the words that hold the two ends of the range lie in the memory.
LEMMA EndsInMemory ==
  ASSUME NEW addr \in Nat, NEW size \in Nat \ {0}, CanRead(addr, size)
  PROVE  /\ Prolog(addr, size) > 0 => /\ addr - BlockSize + Prolog(addr, size) \in Nat
                                      /\ Prolog(addr, size) <= BlockSize
                                      /\ addr + Prolog(addr, size) <= MemSize
         /\ Epilog(addr, size) > 0 => /\ addr + size - Epilog(addr, size) \in Nat
                                      /\ addr + size - Epilog(addr, size) + BlockSize <= MemSize
<1> DEFINE B == BlockSize
           p == Prolog(addr, size)
           e == Epilog(addr, size)
           k == Bulk(addr, size)
<1>1. B \in Nat \ {0} /\ MemSize \in Nat /\ MemSize % B = 0
  BY Sizes
<1>2. /\ p \in Nat /\ e \in Nat /\ k \in Nat /\ p + k + e = size /\ e < B
      /\ size < B => p = size
      /\ size >= B => p < B /\ (addr + p) % B = 0 /\ (addr + size - e) % B = 0
  BY Parts
<1>3. addr + size <= MemSize /\ (size >= B \/ addr + size >= B)
  BY DEF CanRead
<1> HIDE DEF p, e, k
<1>4. ASSUME p > 0 PROVE addr - B + p \in Nat /\ p <= B /\ addr + p <= MemSize
  <2>1. CASE size < B
    BY <1>1, <1>2, <1>3, <2>1
  <2>2. CASE size >= B
    <3>0. addr + p \in Int /\ addr + p > 0
      BY <1>2, <1>4
    <3>1. PICK q \in Int : addr + p = B * q
      BY <1>1, <1>2, <2>2, <3>0, Multiple
    <3>2. q >= 1
      <4> SUFFICES ASSUME q <= 0 PROVE FALSE
        OBVIOUS
      <4>1. B * q <= 0
        BY <1>1
      <4> QED BY <3>0, <3>1, <4>1
    <3>3. B * q >= B
      BY <1>1, <3>2
    <3> QED BY <1>1, <1>2, <1>3, <2>2, <3>1, <3>3
  <2> QED BY <1>1, <2>1, <2>2
<1>5. ASSUME e > 0 PROVE addr + size - e \in Nat /\ addr + size - e + B <= MemSize
  <2>0. size >= B
    BY <1>1, <1>2, <1>5
  <2>1. addr + size - e \in Int /\ MemSize \in Int /\ addr + size - e \in Nat
    BY <1>1, <1>2
  <2>2. PICK q \in Int : addr + size - e = B * q
    BY <1>1, <1>2, <2>0, <2>1, Multiple
  <2>3. PICK m \in Int : MemSize = B * m
    BY <1>1, <2>1, Multiple
  <2>4. B * q < B * m
    BY <1>1, <1>2, <1>3, <1>5, <2>2, <2>3
  <2>5. q + 1 <= m
    <3> SUFFICES ASSUME q >= m PROVE FALSE
      OBVIOUS
    <3>1. B * q >= B * m
      BY <1>1
    <3>2. B * q \in Int /\ B * m \in Int
      BY <1>1
    <3> QED BY <2>4, <3>1, <3>2
  <2>6. B * (q + 1) <= B * m /\ B * (q + 1) = B * q + B
    BY <1>1, <2>5
  <2> QED BY <1>1, <2>1, <2>2, <2>3, <2>6
<1> QED BY <1>4, <1>5 DEF p, e

\* The burst loop of osd_memory_read makes one fetch for each tile.
LEMMA FetchStepsType ==
  ASSUME NEW addr \in Nat, NEW b, NEW p \in Nat, NEW z \in Nat,
         Tile(b, p, z), addr + z <= MemSize
  PROVE  /\ FetchSteps(addr, b) \in Seq(FetchStep)
         /\ Len(FetchSteps(addr, b)) = Len(b)
         /\ \A j \in 1 .. Len(b) : FetchSteps(addr, b)[j] =
               memory_read_bulk(addr + b[j].off, b[j].n, b[j].off, 0, b[j].n)
<1>1. b \in Seq([off : Nat, n : Nat]) /\ Len(b) \in Nat /\ DOMAIN b = 1 .. Len(b)
  BY DEF Tile
<1> DEFINE step(j) == memory_read_bulk(addr + b[j].off, b[j].n, b[j].off, 0, b[j].n)
<1>2. \A j \in 1 .. Len(b) : step(j) \in FetchStep
  <2> SUFFICES ASSUME NEW j \in 1 .. Len(b) PROVE step(j) \in FetchStep
    OBVIOUS
  <2> DEFINE o == b[j].off
             c == b[j].n
  <2>1. b[j] \in [off : Nat, n : Nat]
    BY <1>1, ElementOfSeq
  <2>2. o + c <= z /\ c \in 1 .. BULK_MAX /\ c % BlockSize = 0
    BY Zenon DEF Tile
  <2>3. o \in Nat /\ c \in Nat /\ BULK_MAX \in Nat
    BY <2>1, Sizes
  <2> HIDE DEF o, c
  <2>4. memory_read_bulk(addr + o, c, o, 0, c) \in FetchStep
    <3>1. MemSize \in Nat /\ c > 0 /\ addr + o \in Nat /\ addr + o + c <= MemSize /\ 0 + c <= c
      BY <2>2, <2>3, Sizes
    <3> QED BY <2>2, <2>3, <3>1 DEF memory_read_bulk, FetchStep
  <2> QED BY <2>4 DEF o, c
<1> HIDE DEF step
<1>3. FetchSteps(addr, b) = [j \in 1 .. Len(b) |-> step(j)]
  BY <1>1, Zenon DEF FetchSteps, step
<1>4. /\ FetchSteps(addr, b) \in Seq(FetchStep)
      /\ Len(FetchSteps(addr, b)) = Len(b)
      /\ \A j \in 1 .. Len(b) : FetchSteps(addr, b)[j] = step(j)
  BY <1>1, <1>2, <1>3
<1> QED BY <1>4 DEF step

\* What a read does after it has its buffer.
Fetches(addr, size) ==
    ReadHead(addr, size) \o FetchSteps(addr, Bursts(addr, size)) \o ReadLast(addr, size)

\* Every fetch of a read is a number of whole words inside the memory.
LEMMA FetchesType ==
  ASSUME NEW addr \in Nat, NEW size \in Nat \ {0}, CanRead(addr, size)
  PROVE  /\ ReadHead(addr, size) \in Seq(FetchStep) /\ ReadLast(addr, size) \in Seq(FetchStep)
         /\ FetchSteps(addr, Bursts(addr, size)) \in Seq(FetchStep)
         /\ Fetches(addr, size) \in Seq(FetchStep)
<1> DEFINE B == BlockSize
           p == Prolog(addr, size)
           e == Epilog(addr, size)
           k == Bulk(addr, size)
<1>1. B \in Nat \ {0} /\ MemSize \in Nat /\ B % B = 0
  <2>1. B \in Nat \ {0} /\ MemSize \in Nat /\ B = B * 1 /\ B \in Int
    BY Sizes
  <2> QED BY <2>1, Multiple
<1>2. p \in Nat /\ e \in Nat /\ k \in Nat /\ p + k + e = size
  BY Parts
<1>3. /\ p > 0 => addr - B + p \in Nat /\ p <= B /\ addr + p <= MemSize
      /\ e > 0 => addr + size - e \in Nat /\ addr + size - e + B <= MemSize
  BY EndsInMemory
<1>4. e < B
  BY Parts
<1>5. Tile(Bursts(addr, size), p, p + k) /\ addr + size <= MemSize
  BY BurstFacts DEF CanRead
<1> HIDE DEF p, e, k
<1>6. p > 0 => memory_read_bulk(addr - B + p, B, 0, B - p, p) \in FetchStep
  <2> SUFFICES ASSUME p > 0 PROVE memory_read_bulk(addr - B + p, B, 0, B - p, p) \in FetchStep
    OBVIOUS
  <2>1. /\ addr - B + p \in Nat /\ B - p \in Nat /\ (B - p) + p <= B
        /\ (addr - B + p) + B <= MemSize /\ B > 0
    BY <1>1, <1>2, <1>3
  <2> QED BY <1>1, <1>2, <2>1 DEF memory_read_bulk, FetchStep
<1>7. e > 0 => memory_read_bulk(addr + size - e, B, size - e, 0, e) \in FetchStep
  <2> SUFFICES ASSUME e > 0 PROVE memory_read_bulk(addr + size - e, B, size - e, 0, e) \in FetchStep
    OBVIOUS
  <2>1. addr + size - e \in Nat /\ size - e \in Nat /\ 0 + e <= B
        /\ (addr + size - e) + B <= MemSize /\ B > 0
    BY <1>1, <1>2, <1>3, <1>4
  <2> QED BY <1>1, <1>2, <2>1 DEF memory_read_bulk, FetchStep
<1>8. ReadHead(addr, size) \in Seq(FetchStep)
  <2>1. ReadHead(addr, size) = IF p > 0 THEN <<memory_read_bulk(addr - B + p, B, 0, B - p, p)>> ELSE <<>>
    BY Zenon DEF ReadHead, p
  <2> DEFINE x == memory_read_bulk(addr - B + p, B, 0, B - p, p)
  <2> HIDE DEF x
  <2>2. ReadHead(addr, size) = IF p > 0 THEN <<x>> ELSE <<>>
    BY <2>1, Zenon DEF x
  <2>3. p > 0 => x \in FetchStep
    BY <1>6 DEF x
  <2> QED BY <2>2, <2>3
<1>9. ReadLast(addr, size) \in Seq(FetchStep)
  <2>1. ReadLast(addr, size) = IF e > 0 THEN <<memory_read_bulk(addr + size - e, B, size - e, 0, e)>> ELSE <<>>
    BY Zenon DEF ReadLast, e
  <2> DEFINE x == memory_read_bulk(addr + size - e, B, size - e, 0, e)
  <2> HIDE DEF x
  <2>2. ReadLast(addr, size) = IF e > 0 THEN <<x>> ELSE <<>>
    BY <2>1, Zenon DEF x
  <2>3. e > 0 => x \in FetchStep
    BY <1>7 DEF x
  <2> QED BY <2>2, <2>3
<1>10. FetchSteps(addr, Bursts(addr, size)) \in Seq(FetchStep)
  <2>1. p + k \in Nat /\ addr + (p + k) <= MemSize
    BY <1>1, <1>2, <1>5
  <2> QED BY <1>2, <1>5, <2>1, FetchStepsType
<1> QED BY <1>8, <1>9, <1>10, ConcatProperties DEF Fetches

\* osd_memory_read allocates its buffer, then fetches.
LEMMA ReadType ==
  ASSUME NEW addr \in Nat, NEW size \in Nat \ {0}, CanRead(addr, size)
  PROVE  /\ osd_memory_read(addr, size) = <<[k |-> "result", addr |-> addr, size |-> size]>>
                                            \o Fetches(addr, size)
         /\ osd_memory_read(addr, size) \in Seq(ResultStep \cup FetchStep)
<1> DEFINE S == ResultStep \cup FetchStep
           r == [k |-> "result", addr |-> addr, size |-> size]
           h == ReadHead(addr, size)
           f == FetchSteps(addr, Bursts(addr, size))
           l == ReadLast(addr, size)
<1>1. h \in Seq(FetchStep) /\ f \in Seq(FetchStep) /\ l \in Seq(FetchStep)
  BY FetchesType
<1>2. r \in ResultStep
  BY DEF ResultStep
<1>3. h \in Seq(S) /\ f \in Seq(S) /\ l \in Seq(S) /\ <<r>> \in Seq(S)
  <2>1. FetchStep \subseteq S /\ r \in S
    BY <1>2
  <2> HIDE DEF S, r, h, f, l
  <2>2. h \in Seq(S) /\ f \in Seq(S) /\ l \in Seq(S)
    BY <1>1, <2>1, SeqMonotonic
  <2> QED BY <2>1, <2>2
<1>4. osd_memory_read(addr, size) = ((<<r>> \o h) \o f) \o l
  BY ReadParts
<1> HIDE DEF S, r, h, f, l
<1>5. ((<<r>> \o h) \o f) \o l = <<r>> \o ((h \o f) \o l)
  BY <1>3, ConcatAssociative, ConcatProperties
<1>6. <<r>> \o ((h \o f) \o l) \in Seq(S)
  BY <1>3, ConcatProperties
<1> QED BY <1>4, <1>5, <1>6 DEF Fetches, S, r, h, f, l

\* What a caller writes is a sequence of bytes as long as it says.
LEMMA BufferTypes ==
  ASSUME NEW n \in Nat
  PROVE  /\ Data(n) \in Seq(Nat) /\ Len(Data(n)) = n
         /\ Zeros(n) \in Seq(Nat) /\ Len(Zeros(n)) = n
BY DEF Data, Zeros

\* The ranges of the calls are ranges the library handles.
LEMMA RangeFacts ==
  /\ \A w \in Write : w.addr \in Nat /\ w.size \in Nat \ {0} /\ CanWrite(w.addr, w.size)
  /\ \A r \in Read : r.addr \in Nat /\ r.size \in Nat \ {0} /\ CanRead(r.addr, r.size)
  /\ \A e \in Load : /\ e.addr \in Nat /\ e.filesz \in Nat \ {0} /\ e.memsz \in Nat
                     /\ CanWrite(e.addr, e.filesz) /\ CanRead(e.addr, e.filesz)
                     /\ e.memsz >= e.filesz
                     /\ e.memsz # e.filesz => CanWrite(e.addr + e.filesz, e.memsz - e.filesz)
<1>1. \A w \in Write : w.addr \in Nat /\ w.size \in Nat /\ CanWrite(w.addr, w.size)
  BY OsdHostAssumption
<1>2. \A r \in Read : r.addr \in Nat /\ r.size \in Nat /\ CanRead(r.addr, r.size)
  BY OsdHostAssumption
<1>3. \A e \in Load : /\ e.addr \in Nat /\ e.filesz \in Nat /\ e.memsz \in Nat
                      /\ CanWrite(e.addr, e.filesz) /\ CanRead(e.addr, e.filesz)
                      /\ e.memsz # e.filesz => CanWrite(e.addr + e.filesz, e.memsz - e.filesz)
  BY OsdHostAssumption
<1>4. \A a, n : CanWrite(a, n) => n > 0
  BY DEF CanWrite
<1>5. \A a, n : CanRead(a, n) => n > 0
  BY DEF CanRead
<1> QED BY <1>1, <1>2, <1>3, <1>4, <1>5

\* The steps of a load: the two writes, and the read if it verifies.
LEMMA LoadType ==
  ASSUME NEW e \in Load, NEW verify \in BOOLEAN
  PROVE  /\ osd_memory_loadelf(e, verify) \in Seq(AnyStep)
         /\ \A i \in 1 .. Len(osd_memory_loadelf(e, verify)) :
               osd_memory_loadelf(e, verify)[i].k \in {"send", "bulk", "result", "fetch"}
<1> DEFINE n == e.memsz - e.filesz
           K == {"send", "bulk", "result", "fetch"}
           S == {s \in AnyStep : s.k \in K}
           a == osd_memory_write(e.addr, Data(e.filesz))
           b == IF e.memsz > e.filesz THEN osd_memory_write(e.addr + e.filesz, Zeros(n)) ELSE <<>>
           c == IF verify THEN osd_memory_read(e.addr, e.filesz) ELSE <<>>
<1>1. /\ e.addr \in Nat /\ e.filesz \in Nat \ {0} /\ e.memsz \in Nat
      /\ CanWrite(e.addr, e.filesz) /\ CanRead(e.addr, e.filesz) /\ e.memsz >= e.filesz
      /\ e.memsz # e.filesz => CanWrite(e.addr + e.filesz, n)
  BY RangeFacts
<1>2. \A q \in Seq(AnyStep) : (\A i \in 1 .. Len(q) : q[i].k \in K) => q \in Seq(S)
  <2> SUFFICES ASSUME NEW q \in Seq(AnyStep), \A i \in 1 .. Len(q) : q[i].k \in K
               PROVE  q \in Seq(S)
    OBVIOUS
  <2>1. Len(q) \in Nat /\ q \in [1 .. Len(q) -> AnyStep]
    BY LenProperties
  <2>2. \A i \in 1 .. Len(q) : q[i] \in S
    BY <2>1
  <2> HIDE DEF S
  <2> QED BY <2>1, <2>2
<1>3. a \in Seq(S)
  <2>1. Data(e.filesz) \in Seq(Nat) /\ Len(Data(e.filesz)) = e.filesz
    BY <1>1, BufferTypes
  <2>2. Tiled(e.addr, e.filesz)
    BY <1>1 DEF CanWrite
  <2>3. a \in Seq(AnyStep) /\ \A i \in 1 .. Len(a) : a[i].k \in {"send", "bulk"}
    BY <1>1, <2>1, <2>2, WriteType
  <2> HIDE DEF a, S
  <2> QED BY <1>2, <2>3
<1>4. b \in Seq(S)
  <2>1. CASE e.memsz > e.filesz
    <3>1. n \in Nat \ {0} /\ e.addr + e.filesz \in Nat
      BY <1>1, <2>1
    <3>2. Zeros(n) \in Seq(Nat) /\ Len(Zeros(n)) = n
      BY <3>1, BufferTypes
    <3>3. Tiled(e.addr + e.filesz, n)
      BY <1>1, <2>1 DEF CanWrite
    <3> HIDE DEF n
    <3>4. b = osd_memory_write(e.addr + e.filesz, Zeros(n))
      BY <2>1
    <3>5. b \in Seq(AnyStep) /\ \A i \in 1 .. Len(b) : b[i].k \in {"send", "bulk"}
      BY <3>1, <3>2, <3>3, <3>4, WriteType
    <3> HIDE DEF b, S
    <3> QED BY <1>2, <3>5
  <2>2. CASE ~(e.memsz > e.filesz)
    <3>1. b = <<>>
      BY <2>2
    <3> HIDE DEF b, S
    <3> QED BY <3>1
  <2> QED BY <2>1, <2>2
<1>5. c \in Seq(S)
  <2>1. osd_memory_read(e.addr, e.filesz) \in Seq(ResultStep \cup FetchStep)
    BY <1>1, ReadType
  <2>2. ResultStep \cup FetchStep \subseteq S
    BY DEF AnyStep, ResultStep, FetchStep
  <2>3. osd_memory_read(e.addr, e.filesz) \in Seq(S)
    BY <2>1, <2>2, SeqMonotonic
  <2> HIDE DEF S
  <2> QED BY <2>3
<1> HIDE DEF a, b, c, S
<1>6. (a \o b) \o c \in Seq(S)
  BY <1>3, <1>4, <1>5, ConcatProperties
<1>7. osd_memory_loadelf(e, verify) = (a \o b) \o c
  BY Zenon DEF osd_memory_loadelf, a, b, c, n
<1> DEFINE q == osd_memory_loadelf(e, verify)
<1>8. q \in Seq(S)
  BY <1>6, <1>7
<1> HIDE DEF q
<1>9. q \in Seq(AnyStep) /\ \A i \in 1 .. Len(q) : q[i].k \in K
  <2>1. S \subseteq AnyStep /\ \A s \in S : s.k \in K
    BY DEF S
  <2>2. q \in Seq(AnyStep)
    BY <1>8, <2>1, SeqMonotonic
  <2>3. \A i \in 1 .. Len(q) : q[i] \in S
    BY <1>8, ElementOfSeq
  <2> QED BY <2>1, <2>2, <2>3
<1> QED BY <1>9 DEF q

\* The register accesses of the control calls.
LEMMA ControlType ==
  /\ osd_stm_log(Stm) \in Seq(AnyStep) /\ Len(osd_stm_log(Stm)) = 2
  /\ osd_stm_log(Stm)[1].k = "handler" /\ osd_stm_log(Stm)[2].k = "reg"
  /\ osd_start_cores \in Seq(AnyStep) /\ Len(osd_start_cores) = 1
  /\ osd_start_cores[1].k = "reg" /\ osd_start_cores[1].r = "rst"
  /\ \A halt \in BOOLEAN :
        /\ osd_reset_system(halt) \in Seq(AnyStep) /\ Len(osd_reset_system(halt)) = 2
        /\ \A i \in 1 .. 2 : osd_reset_system(halt)[i].k = "reg" /\ osd_reset_system(halt)[i].r = "rst"
<1>1. \A v \in 0 .. 3 : /\ osd_reg_write16(Scm, "rst", v) \in AnyStep
                        /\ osd_reg_write16(Scm, "rst", v).k = "reg"
                        /\ osd_reg_write16(Scm, "rst", v).r = "rst"
  <2> SUFFICES ASSUME NEW v \in 0 .. 3
               PROVE  /\ osd_reg_write16(Scm, "rst", v) \in RegStep
                      /\ osd_reg_write16(Scm, "rst", v).k = "reg"
                      /\ osd_reg_write16(Scm, "rst", v).r = "rst"
    BY DEF AnyStep
  <2> QED BY Constants DEF osd_reg_write16, RegStep, ReadReg
<1>2. osd_reg_write16(Stm, "cs", 0) \in AnyStep /\ osd_reg_write16(Stm, "cs", 0).k = "reg"
  <2>1. osd_reg_write16(Stm, "cs", 0) \in RegStep
    BY Constants DEF osd_reg_write16, RegStep, ReadReg
  <2> QED BY <2>1 DEF AnyStep, RegStep
<1> DEFINE h == [k |-> "handler", m |-> Stm, call |-> "stm_log_handler"]
<1>3. h \in AnyStep /\ h.k = "handler"
  <2>1. h \in HandlerStep
    BY DEF HandlerStep
  <2> QED BY <2>1 DEF AnyStep
<1>4. osd_stm_log(Stm) = <<h, osd_reg_write16(Stm, "cs", 0)>>
  <2> DEFINE x == osd_reg_write16(Stm, "cs", 0)
  <2>1. x \in AnyStep /\ osd_stm_log(Stm) = <<h>> \o <<x>>
    BY <1>2 DEF osd_stm_log, osd_module_unstall
  <2> HIDE DEF x, h
  <2>2. <<h>> \o <<x>> = <<h, x>>
    <3>1. <<h>> \in Seq(AnyStep) /\ <<x>> \in Seq(AnyStep) /\ <<h, x>> \in Seq(AnyStep)
      BY <1>3, <2>1
    <3>2. /\ <<h>> \o <<x>> \in Seq(AnyStep) /\ Len(<<h>> \o <<x>>) = 2
          /\ (<<h>> \o <<x>>)[1] = h /\ (<<h>> \o <<x>>)[2] = x
      BY <3>1, ConcatProperties
    <3>3. Len(<<h, x>>) = 2 /\ <<h, x>>[1] = h /\ <<h, x>>[2] = x
      OBVIOUS
    <3> DEFINE u == <<h>> \o <<x>>
               v == <<h, x>>
    <3>4. /\ u \in Seq(AnyStep) /\ v \in Seq(AnyStep) /\ Len(u) = 2 /\ Len(v) = 2
          /\ u[1] = v[1] /\ u[2] = v[2]
      BY <3>1, <3>2, <3>3, Zenon
    <3> HIDE DEF u, v
    <3>5. \A i \in 1 .. Len(u) : u[i] = v[i]
      BY <3>4
    <3>6. u = v
      BY <3>4, <3>5, SeqEqual
    <3> QED BY <3>6 DEF u, v
  <2> QED BY <2>1, <2>2 DEF x
<1>5. osd_start_cores = <<osd_reg_write16(Scm, "rst", 0)>>
  BY DEF osd_start_cores
<1>6. \A halt \in BOOLEAN : osd_reset_system(halt) =
        <<osd_reg_write16(Scm, "rst", 3), osd_reg_write16(Scm, "rst", IF halt THEN 2 ELSE 0)>>
  BY DEF osd_reset_system
<1>7. osd_stm_log(Stm) \in Seq(AnyStep) /\ Len(osd_stm_log(Stm)) = 2
      /\ osd_stm_log(Stm)[1].k = "handler" /\ osd_stm_log(Stm)[2].k = "reg"
  <2> DEFINE x == osd_reg_write16(Stm, "cs", 0)
  <2> HIDE DEF h, x
  <2>1. x \in AnyStep /\ x.k = "reg" /\ osd_stm_log(Stm) = <<h, x>>
    BY <1>2, <1>4 DEF x
  <2> QED BY <1>3, <2>1
<1>8. osd_start_cores \in Seq(AnyStep) /\ Len(osd_start_cores) = 1
      /\ osd_start_cores[1].k = "reg" /\ osd_start_cores[1].r = "rst"
  <2> DEFINE x == osd_reg_write16(Scm, "rst", 0)
  <2>0. 0 \in 0 .. 3
    OBVIOUS
  <2>1. x \in AnyStep /\ x.k = "reg" /\ x.r = "rst" /\ osd_start_cores = <<x>>
    BY <1>1, <1>5, <2>0
  <2> HIDE DEF x
  <2> QED BY <2>1
<1>9. ASSUME NEW halt \in BOOLEAN
      PROVE  /\ osd_reset_system(halt) \in Seq(AnyStep) /\ Len(osd_reset_system(halt)) = 2
             /\ \A i \in 1 .. 2 : osd_reset_system(halt)[i].k = "reg" /\ osd_reset_system(halt)[i].r = "rst"
  <2> DEFINE c == IF halt THEN 2 ELSE 0
             x == osd_reg_write16(Scm, "rst", 3)
             y == osd_reg_write16(Scm, "rst", c)
  <2>0. 3 \in 0 .. 3 /\ c \in 0 .. 3
    OBVIOUS
  <2> HIDE DEF c
  <2>1. x \in AnyStep /\ x.k = "reg" /\ x.r = "rst" /\ y \in AnyStep /\ y.k = "reg" /\ y.r = "rst"
    BY <1>1, <2>0
  <2>2. osd_reset_system(halt) = <<x, y>>
    BY <1>6 DEF c
  <2> HIDE DEF x, y
  <2> QED BY <2>1, <2>2
<1> QED BY <1>7, <1>8, <1>9

-----------------------------------------------------------------------------
(***************************************************************************)
(* What the actions do to the application thread.                          *)
(***************************************************************************)

\* Head and tail of a sequence that is not empty.
LEMMA TailFacts ==
  ASSUME NEW S, NEW s \in Seq(S), s # <<>>
  PROVE  /\ Len(s) \in Nat \ {0} /\ Head(s) = s[1] /\ s[1] \in S
         /\ Tail(s) \in Seq(S) /\ Len(Tail(s)) = Len(s) - 1
         /\ \A i \in 1 .. Len(s) - 1 : Tail(s)[i] = s[i + 1]
<1>1. Len(s) \in Nat \ {0}
  BY EmptySeq
<1>2. Head(s) = s[1] /\ s[1] \in S
  BY <1>1
<1>3. Tail(s) \in Seq(S) /\ Len(Tail(s)) = Len(s) - 1
      /\ \A i \in 1 .. Len(Tail(s)) : Tail(s)[i] = s[i + 1]
  BY HeadTailProperties
<1> QED BY <1>1, <1>2, <1>3

\* Every call starts from an idle thread with a list of well-formed steps, in
\* which a module is unstalled only after its handler is registered.
LEMMA CallEffect ==
  ASSUME Call, DeviceShape
  PROVE  /\ connected /\ api.todo = <<>>
         /\ api' = [pc |-> "next", todo |-> api'.todo, result |-> NoResult]
         /\ api'.todo \in Seq(AnyStep)
         /\ \A i \in 1 .. Len(api'.todo) : Unstall(api'.todo[i]) =>
               \E j \in 1 .. i - 1 : api'.todo[j].k = "handler"
         /\ written' \in Bytes
<1>0. connected /\ api.todo = <<>>
  BY DEF Call, Idle
<1>1. ASSUME NEW a, NEW n \in Nat, NEW bytes \in Seq(Nat), Wrote(a, bytes), a \in Nat
      PROVE  written' \in Bytes
  <2>1. written \in Bytes /\ MemSize \in Nat
    BY Sizes DEF DeviceShape
  <2>2. \A x \in 0 .. MemSize - 1 :
           (IF x - a + 1 \in DOMAIN bytes THEN bytes[x - a + 1] ELSE written[x]) \in Nat
    BY <1>1, <2>1 DEF Bytes
  <2> QED BY <1>1, <2>1, <2>2 DEF Wrote, Bytes
<1>2. ASSUME NEW q \in Seq(AnyStep), Enter(q)
      PROVE  /\ api' = [pc |-> "next", todo |-> api'.todo, result |-> NoResult]
             /\ api'.todo = q
  BY <1>2 DEF Enter
<1>3. CASE CallWrite
  <2>1. PICK w \in Write : /\ Enter(osd_memory_write(w.addr, Data(w.size)))
                           /\ Wrote(w.addr, Data(w.size))
    BY <1>3 DEF CallWrite
  <2> DEFINE q == osd_memory_write(w.addr, Data(w.size))
  <2>2. w.addr \in Nat /\ w.size \in Nat \ {0} /\ Tiled(w.addr, w.size)
    BY RangeFacts DEF CanWrite
  <2>3. Data(w.size) \in Seq(Nat) /\ Len(Data(w.size)) = w.size
    BY <2>2, BufferTypes
  <2>4. q \in Seq(AnyStep) /\ \A i \in 1 .. Len(q) : q[i].k \in {"send", "bulk"}
    BY <2>2, <2>3, WriteType
  <2>5. written' \in Bytes
    BY <1>1, <2>1, <2>2, <2>3
  <2> HIDE DEF q
  <2>6. \A i \in 1 .. Len(q) : ~Unstall(q[i])
    BY <2>4 DEF Unstall
  <2>7. Enter(q)
    BY <2>1 DEF q
  <2> QED BY <1>0, <1>2, <2>4, <2>5, <2>6, <2>7
<1>4. CASE CallLoad
  <2>1. PICK e \in Load, verify \in BOOLEAN :
           /\ Enter(osd_memory_loadelf(e, verify))
           /\ Wrote(e.addr, Data(e.filesz) \o Zeros(e.memsz - e.filesz))
    BY <1>4 DEF CallLoad
  <2> DEFINE q == osd_memory_loadelf(e, verify)
             n == e.memsz - e.filesz
  <2>2. e.addr \in Nat /\ e.filesz \in Nat /\ n \in Nat
    BY RangeFacts
  <2>3. Data(e.filesz) \o Zeros(n) \in Seq(Nat)
    <3> HIDE DEF n
    <3> QED BY <2>2, BufferTypes, ConcatProperties
  <2>4. q \in Seq(AnyStep) /\ \A i \in 1 .. Len(q) : q[i].k \in {"send", "bulk", "result", "fetch"}
    BY LoadType
  <2>5. written' \in Bytes
    BY <1>1, <2>1, <2>2, <2>3
  <2> HIDE DEF q
  <2>6. \A i \in 1 .. Len(q) : ~Unstall(q[i])
    BY <2>4 DEF Unstall
  <2>7. Enter(q)
    BY <2>1 DEF q
  <2> QED BY <1>0, <1>2, <2>4, <2>5, <2>6, <2>7
<1>5. CASE CallRead
  <2>1. PICK r \in Read : Enter(osd_memory_read(r.addr, r.size))
    BY <1>5 DEF CallRead
  <2> DEFINE q == osd_memory_read(r.addr, r.size)
             S == ResultStep \cup FetchStep
  <2>2. r.addr \in Nat /\ r.size \in Nat \ {0} /\ CanRead(r.addr, r.size)
    BY RangeFacts
  <2>3. q \in Seq(S)
    BY <2>2, ReadType
  <2>4. S \subseteq AnyStep /\ \A s \in S : s.k # "reg"
    BY DEF AnyStep, ResultStep, FetchStep
  <2> HIDE DEF q, S
  <2>5. q \in Seq(AnyStep)
    BY <2>3, <2>4, SeqMonotonic
  <2>6. \A i \in 1 .. Len(q) : ~Unstall(q[i])
    BY <2>3, <2>4, ElementOfSeq DEF Unstall
  <2>7. Enter(q)
    BY <2>1 DEF q
  <2>8. written' \in Bytes
    BY <1>5 DEF CallRead, DeviceShape
  <2> QED BY <1>0, <1>2, <2>5, <2>6, <2>7, <2>8
<1>6. CASE CallControl
  <2>1. written' \in Bytes
    BY <1>6 DEF CallControl, DeviceShape
  <2>2. CASE Enter(osd_stm_log(Stm))
    <3> DEFINE q == osd_stm_log(Stm)
    <3>1. q \in Seq(AnyStep) /\ Len(q) = 2 /\ q[1].k = "handler"
      BY ControlType
    <3> HIDE DEF q
    <3>2. \A i \in 1 .. Len(q) : Unstall(q[i]) => \E j \in 1 .. i - 1 : q[j].k = "handler"
      BY <3>1 DEF Unstall
    <3>3. Enter(q)
      BY <2>2 DEF q
    <3> QED BY <1>0, <1>2, <2>1, <3>1, <3>2, <3>3
  <2>3. CASE Enter(osd_start_cores)
    <3> DEFINE q == osd_start_cores
    <3>1. q \in Seq(AnyStep) /\ Len(q) = 1 /\ q[1].r = "rst"
      BY ControlType
    <3> HIDE DEF q
    <3>2. \A i \in 1 .. Len(q) : ~Unstall(q[i])
      BY <3>1 DEF Unstall
    <3>3. Enter(q)
      BY <2>3 DEF q
    <3> QED BY <1>0, <1>2, <2>1, <3>1, <3>2, <3>3
  <2>4. CASE \E halt \in BOOLEAN : Enter(osd_reset_system(halt))
    <3>0. PICK halt \in BOOLEAN : Enter(osd_reset_system(halt))
      BY <2>4
    <3> DEFINE q == osd_reset_system(halt)
    <3>1. q \in Seq(AnyStep) /\ Len(q) = 2 /\ \A i \in 1 .. 2 : q[i].r = "rst"
      BY ControlType
    <3> HIDE DEF q
    <3>2. \A i \in 1 .. Len(q) : ~Unstall(q[i])
      BY <3>1 DEF Unstall
    <3>3. Enter(q)
      BY <3>0 DEF q
    <3> QED BY <1>0, <1>2, <2>1, <3>1, <3>2, <3>3
  <2> QED BY <1>6, <2>2, <2>3, <2>4 DEF CallControl
<1> QED BY <1>3, <1>4, <1>5, <1>6 DEF Call

\* A queue that loses its first packet, and one that gets another.
Popped(s, t) == /\ Len(s) \in Nat \ {0} /\ Len(t) = Len(s) - 1
                /\ \A i \in 1 .. Len(t) : t[i] = s[i + 1]

Pushed(s, p, t) == /\ Len(s) \in Nat /\ Len(t) = Len(s) + 1 /\ t[Len(s) + 1] = p
                   /\ \A i \in 1 .. Len(s) : t[i] = s[i]

\* Taking the head of a queue leaves what Popped says.
LEMMA TailPopped ==
  ASSUME NEW S, NEW s \in Seq(S), s # <<>>
  PROVE  Popped(s, Tail(s)) /\ Tail(s) \in Seq(S) /\ Head(s) = s[1] /\ s[1] \in S
BY TailFacts DEF Popped

\* Appending to a queue gives what Pushed says.
LEMMA AppendPushed ==
  ASSUME NEW S, NEW s \in Seq(S), NEW p \in S
  PROVE  Pushed(s, p, Append(s, p)) /\ Append(s, p) \in Seq(S)
BY AppendProperties DEF Pushed

\* A packet put before a queue.
LEMMA ConsFacts ==
  ASSUME NEW S, NEW p \in S, NEW s \in Seq(S)
  PROVE  /\ <<p>> \o s \in Seq(S) /\ Len(<<p>> \o s) = Len(s) + 1 /\ (<<p>> \o s)[1] = p
         /\ \A i \in 1 .. Len(s) : (<<p>> \o s)[i + 1] = s[i]
         /\ \A i \in 2 .. Len(s) + 1 : (<<p>> \o s)[i] = s[i - 1]
         /\ Popped(<<p>> \o s, s)
<1> DEFINE q == <<p>>
           u == q \o s
<1>1. q \in Seq(S) /\ Len(q) = 1 /\ q[1] = p /\ Len(s) \in Nat
  OBVIOUS
<1> HIDE DEF q
<1>2. /\ u \in Seq(S) /\ Len(u) = Len(q) + Len(s)
      /\ \A i \in 1 .. Len(q) + Len(s) : u[i] = IF i <= Len(q) THEN q[i] ELSE s[i - Len(q)]
  BY <1>1, ConcatProperties
<1> HIDE DEF u
<1>3. u[1] = p
  BY <1>1, <1>2
<1>4. \A i \in 2 .. Len(s) + 1 : u[i] = s[i - 1]
  BY <1>1, <1>2
<1>5. \A i \in 1 .. Len(s) : u[i + 1] = s[i]
  BY <1>1, <1>2
<1>6. Len(u) = Len(s) + 1 /\ Popped(u, s)
  BY <1>1, <1>2, <1>5 DEF Popped
<1> QED BY <1>2, <1>3, <1>4, <1>5, <1>6 DEF u, q

\* Head and tail together are the queue.
LEMMA ConsTail ==
  ASSUME NEW S, NEW s \in Seq(S), s # <<>>
  PROVE  <<Head(s)>> \o Tail(s) = s
<1> DEFINE u == <<Head(s)>> \o Tail(s)
           t == Tail(s)
<1>1. /\ Len(s) \in Nat \ {0} /\ Head(s) = s[1] /\ s[1] \in S
      /\ t \in Seq(S) /\ Len(t) = Len(s) - 1 /\ \A i \in 1 .. Len(s) - 1 : t[i] = s[i + 1]
  BY TailFacts
<1>2. u \in Seq(S) /\ Len(u) = Len(t) + 1 /\ u[1] = s[1] /\ \A i \in 2 .. Len(t) + 1 : u[i] = t[i - 1]
  BY <1>1, ConsFacts
<1> HIDE DEF u, t
<1>3. Len(u) = Len(s) /\ \A i \in 1 .. Len(u) : u[i] = s[i]
  BY <1>1, <1>2
<1>4. u = s
  BY <1>2, <1>3, SeqEqual
<1> QED BY <1>4 DEF u

\* The packets not handled yet.
LEMMA InboxType ==
  ASSUME LinkShape
  PROVE  /\ Inbox \in Seq(UpPacket) /\ Len(Inbox) \in Nat
         /\ \A i \in 1 .. Len(Inbox) : Inbox[i] \in UpPacket
         /\ rx.at = "handle" => Len(Inbox) > 0 /\ Inbox[1] = rx.pkt /\ rx.pkt \in UpPacket
<1>1. up \in Seq(UpPacket) /\ (rx.at = "handle" => rx.pkt \in UpPacket)
  BY DEF LinkShape
<1>2. CASE rx.at = "handle"
  <2>1. Inbox = <<rx.pkt>> \o up
    BY <1>2 DEF Inbox
  <2>2. Inbox \in Seq(UpPacket) /\ Len(Inbox) = Len(up) + 1 /\ Inbox[1] = rx.pkt
    BY <1>1, <1>2, <2>1, ConsFacts
  <2> QED BY <1>1, <1>2, <2>2
<1>3. CASE rx.at # "handle"
  BY <1>1, <1>3 DEF Inbox
<1> QED BY <1>2, <1>3

\* Handling a packet takes it from the front.
LEMMA InboxHandled ==
  ASSUME LinkShape, rx.at = "handle", rx'.at # "handle", up' = up
  PROVE  Popped(Inbox, Inbox') /\ Inbox[1] = rx.pkt
<1>1. up \in Seq(UpPacket) /\ rx.pkt \in UpPacket
  BY DEF LinkShape
<1>2. Inbox = <<rx.pkt>> \o up /\ Inbox' = up
  BY DEF Inbox
<1> QED BY <1>1, <1>2, ConsFacts

\* Receiving it changes nothing.
LEMMA InboxReceive ==
  ASSUME LinkShape, Receive
  PROVE  Inbox' = Inbox
<1>1. up \in Seq(UpPacket) /\ up # <<>> /\ rx' = [at |-> "handle", pkt |-> Head(up)]
      /\ up' = Tail(up) /\ rx.at = "read"
  BY DEF LinkShape, Receive
<1>2. Inbox = up /\ Inbox' = <<Head(up)>> \o Tail(up)
  BY <1>1 DEF Inbox
<1> QED BY <1>1, <1>2, ConsTail

\* An answer or an event joins at the end.
LEMMA InboxReply ==
  ASSUME LinkShape, NEW p \in UpPacket, Reply(p), rx' = rx
  PROVE  Pushed(Inbox, p, Inbox') /\ up' \in Seq(UpPacket) /\ Len(up') <= Depth
<1>1. up \in Seq(UpPacket) /\ up' = Append(up, p) /\ Len(up) < Depth
  BY DEF LinkShape, Reply
<1>2. /\ up' \in Seq(UpPacket) /\ Len(up') = Len(up) + 1 /\ up'[Len(up) + 1] = p /\ Len(up) \in Nat
      /\ \A i \in 1 .. Len(up) : up'[i] = up[i]
  BY <1>1, AppendProperties
<1>3. Len(up') <= Depth
  BY <1>1, <1>2, Sizes
<1>4. CASE rx.at = "handle"
  <2> DEFINE x == <<rx.pkt>> \o up
             y == <<rx.pkt>> \o up'
  <2>1. rx.pkt \in UpPacket
    BY <1>4 DEF LinkShape
  <2>2. Inbox = x /\ Inbox' = y
    BY <1>4 DEF Inbox
  <2>3. Len(x) = Len(up) + 1 /\ x[1] = rx.pkt /\ \A i \in 2 .. Len(up) + 1 : x[i] = up[i - 1]
    BY <1>1, <2>1, ConsFacts
  <2>4. Len(y) = Len(up') + 1 /\ y[1] = rx.pkt /\ \A i \in 2 .. Len(up') + 1 : y[i] = up'[i - 1]
    BY <1>2, <2>1, ConsFacts
  <2> HIDE DEF x, y
  <2>5. Pushed(x, p, y)
    BY <1>2, <2>3, <2>4 DEF Pushed
  <2> QED BY <1>2, <1>3, <2>2, <2>5
<1>5. CASE rx.at # "handle"
  <2>1. Inbox = up /\ Inbox' = up'
    BY <1>5 DEF Inbox
  <2> QED BY <1>2, <1>3, <2>1 DEF Pushed
<1> QED BY <1>4, <1>5

\* The step a thread is at.
LEMMA StepType ==
  ASSUME ApiShape, api.todo # <<>>
  PROVE  /\ Step \in AnyStep /\ Step = api.todo[1] /\ Len(api.todo) \in Nat \ {0}
         /\ Tail(api.todo) \in Seq(AnyStep) /\ Popped(api.todo, Tail(api.todo))
<1>1. api.todo \in Seq(AnyStep)
  BY DEF ApiShape
<1> QED BY <1>1, TailPopped DEF Step, Popped

\* A micro-step changes the program counter only.
LEMMA GotoFacts ==
  ASSUME ApiShape, NEW pc, Goto(pc)
  PROVE  /\ api'.pc = pc /\ api'.todo = api.todo /\ api'.result = api.result /\ Step' = Step
         /\ api' = [pc |-> api'.pc, todo |-> api'.todo, result |-> api'.result]
<1>1. api = [pc |-> api.pc, todo |-> api.todo, result |-> api.result]
  BY DEF ApiShape
<1>2. api' = [api EXCEPT !.pc = pc]
  BY DEF Goto
<1>3. /\ api'.pc = pc /\ api'.todo = api.todo /\ api'.result = api.result
      /\ api' = [pc |-> api'.pc, todo |-> api'.todo, result |-> api'.result]
  BY <1>1, <1>2
<1> QED BY <1>3 DEF Step

\* A step that is done is taken off the call.
LEMMA DoneFacts ==
  ASSUME ApiShape, StepDone
  PROVE  /\ api'.pc = "next" /\ api'.todo = Tail(api.todo) /\ api'.result = api.result
         /\ api' = [pc |-> api'.pc, todo |-> api'.todo, result |-> api'.result]
<1>1. api = [pc |-> api.pc, todo |-> api.todo, result |-> api.result]
  BY DEF ApiShape
<1>2. api' = [api EXCEPT !.pc = "next", !.todo = Tail(@)]
  BY DEF StepDone
<1> QED BY <1>1, <1>2

\* The value a register is read as does not change, so neither does the
\* answer to the access under way.
LEMMA RegValueFacts ==
  ASSUME NEW m \in Module, NEW r \in ReadReg
  PROVE  /\ RegValue(m, r) = IF r = "id" THEN Type[m] ELSE IF r = "num" THEN Len(Type) ELSE BlockSize
         /\ RegValue(m, r) \in Nat
<1>1. RegValue(m, r) = IF r = "id" THEN Type[m] ELSE IF r = "num" THEN Len(Type) ELSE BlockSize
  BY DEF RegValue, ReadReg
<1>2. Type[m] \in Nat /\ Len(Type) \in Nat /\ BlockSize \in Nat
  BY Constants, Sizes
<1> QED BY <1>1, <1>2

\* The request and the answer of a register access have their types, and stay
\* the same as long as the step and the register do.
LEMMA AnswerFacts ==
  ASSUME ApiShape, api.todo # <<>>, Step.k = "reg"
  PROVE  /\ Step \in RegStep /\ Step.m \in Module
         /\ Answer \in RegReply
         /\ Request \in RegRequest
         /\ Step' = Step => Answer' = Answer /\ Request' = Request
<1>1. Step \in RegStep
  BY StepType, StepKinds
<1>2. Step.m \in Module /\ Step.write \in BOOLEAN /\ ((~Step.write) <=> Step.r \in ReadReg)
      /\ Step.v \in 0 .. 3 /\ Step.r \in ReadReg \cup {"rst", "cs"}
  BY <1>1 DEF RegStep
<1>3. ~Step.write => RegValue(Step.m, Step.r) \in Nat
  BY <1>2, RegValueFacts
<1>4. Answer \in RegReply
  BY <1>2, <1>3 DEF Answer, RegReply
<1>5. Request \in RegRequest
  BY <1>2 DEF Request, RegRequest
<1>6. ASSUME Step' = Step PROVE Answer' = Answer /\ Request' = Request
  <2>1. Request' = Request
    BY <1>6 DEF Request
  <2>2. CASE Step.write
    <3>1. Answer = [mod |-> Step.m, kind |-> "reg", size |-> 2, v |-> 0]
      BY <2>2 DEF Answer
    <3>2. Answer' = [mod |-> Step'.m, kind |-> "reg", size |-> 2, v |-> 0]
      BY <1>6, <2>2 DEF Answer
    <3>3. Answer' = Answer
      BY <1>6, <3>1, <3>2, Zenon
    <3> QED BY <2>1, <3>3
  <2>3. CASE ~Step.write
    <3> DEFINE m == Step.m
               r == Step.r
    <3>1. m \in Module /\ r \in ReadReg
      BY <1>2, <2>3
    <3>2. RegValue(m, r)' = RegValue(m, r)
      <4>1. m' = m /\ r' = r
        BY <1>6
      <4>2. RegValue(m, r)' = IF r' = "id" THEN Type[m'] ELSE IF r' = "num" THEN Len(Type) ELSE BlockSize
        BY <3>1, <4>1 DEF RegValue, ReadReg
      <4>3. RegValue(m, r) = IF r = "id" THEN Type[m] ELSE IF r = "num" THEN Len(Type) ELSE BlockSize
        BY <3>1 DEF RegValue, ReadReg
      <4> QED BY <4>1, <4>2, <4>3
    <3> QED BY <1>6, <2>1, <2>3, <3>2 DEF Answer
  <2> QED BY <1>2, <2>1, <2>2, <2>3
<1> QED BY <1>1, <1>2, <1>4, <1>5, <1>6

(***************************************************************************)
(* The enumeration, one answer after the other.                            *)
(***************************************************************************)
ReadStep == {s \in RegStep : s.r \in ReadReg}

\* osd_reg_read16 makes a read of a register.
LEMMA ReadStepType ==
  ASSUME NEW m \in Module, NEW r \in ReadReg
  PROVE  /\ osd_reg_read16(m, r) \in ReadStep
         /\ osd_reg_read16(m, r).k = "reg" /\ osd_reg_read16(m, r).m = m
         /\ osd_reg_read16(m, r).r = r /\ osd_reg_read16(m, r).write = FALSE
BY DEF osd_reg_read16, ReadStep, RegStep, ReadReg

\* The ids that are left to ask for are a queue: its head is module k.
LEMMA RemainingFacts ==
  ASSUME NEW k \in 1 .. Len(Type) + 1
  PROVE  /\ Remaining(k) \in Seq(ReadStep) /\ Len(Remaining(k)) = Len(Type) + 1 - k
         /\ \A i \in 1 .. Len(Type) + 1 - k : Remaining(k)[i] = osd_reg_read16(k + i - 1, "id")
         /\ k <= Len(Type) => /\ Remaining(k) # <<>> /\ Head(Remaining(k)) = osd_reg_read16(k, "id")
                              /\ Tail(Remaining(k)) = Remaining(k + 1)
         /\ k = Len(Type) + 1 => Remaining(k) = <<>>
<1>0. Len(Type) \in Nat \ {0} /\ Module = 1 .. Len(Type) /\ "id" \in ReadReg
  BY Constants DEF ReadReg
<1>1. ASSUME NEW j \in 1 .. Len(Type) + 1
      PROVE  /\ Remaining(j) \in Seq(ReadStep) /\ Len(Remaining(j)) = Len(Type) + 1 - j
             /\ \A i \in 1 .. Len(Type) + 1 - j : Remaining(j)[i] = osd_reg_read16(j + i - 1, "id")
  <2> DEFINE n == Len(Type) + 1 - j
             e(i) == osd_reg_read16(j + i - 1, "id")
             f == [i \in 1 .. n |-> e(i)]
  <2>1. n \in Nat
    BY <1>0
  <2>2. \A i \in 1 .. n : e(i) \in ReadStep
    <3> SUFFICES ASSUME NEW i \in 1 .. n PROVE e(i) \in ReadStep
      OBVIOUS
    <3>1. j + i - 1 \in Module
      BY <1>0
    <3> QED BY <1>0, <3>1, ReadStepType
  <2> HIDE DEF e
  <2>3. f \in Seq(ReadStep) /\ Len(f) = n /\ \A i \in 1 .. n : f[i] = e(i)
    <3> HIDE DEF n
    <3> QED BY <2>1, <2>2
  <2>4. Remaining(j) = f
    BY DEF Remaining, e
  <2> QED BY <2>3, <2>4 DEF e
<1>2. ASSUME k <= Len(Type)
      PROVE  /\ Remaining(k) # <<>> /\ Head(Remaining(k)) = osd_reg_read16(k, "id")
             /\ Tail(Remaining(k)) = Remaining(k + 1)
  <2> DEFINE s == Remaining(k)
             t == Tail(s)
             u == Remaining(k + 1)
             e(i) == osd_reg_read16(i, "id")
  <2>0. k + 1 \in 1 .. Len(Type) + 1 /\ Len(Type) \in Nat /\ k \in Nat
    BY <1>0, <1>2
  <2>1. s \in Seq(ReadStep) /\ Len(s) = Len(Type) + 1 - k /\ \A i \in 1 .. Len(Type) + 1 - k : s[i] = e(k + i - 1)
    BY <1>1
  <2>2. u \in Seq(ReadStep) /\ Len(u) = Len(Type) + 1 - (k + 1)
        /\ \A i \in 1 .. Len(Type) + 1 - (k + 1) : u[i] = e(k + 1 + i - 1)
    BY <1>1, <2>0
  <2> HIDE DEF s, u, e
  <2>3. s # <<>>
    BY <1>2, <2>0, <2>1, EmptySeq
  <2>4. Head(s) = s[1] /\ t \in Seq(ReadStep) /\ Len(t) = Len(s) - 1 /\ \A i \in 1 .. Len(s) - 1 : t[i] = s[i + 1]
    BY <2>1, <2>3, TailFacts
  <2> HIDE DEF t
  <2>5. s[1] = e(k)
    <3>1. 1 \in 1 .. Len(Type) + 1 - k /\ k + 1 - 1 = k
      BY <1>2, <2>0
    <3> QED BY <2>1, <3>1
  <2>6. \A i \in 1 .. Len(t) : t[i] = u[i]
    <3> SUFFICES ASSUME NEW i \in 1 .. Len(t) PROVE t[i] = u[i]
      OBVIOUS
    <3>1. /\ i \in 1 .. Len(s) - 1 /\ i + 1 \in 1 .. Len(Type) + 1 - k
          /\ k + (i + 1) - 1 = k + i /\ k + 1 + i - 1 = k + i /\ i \in 1 .. Len(Type) + 1 - (k + 1)
      BY <2>0, <2>1, <2>4
    <3>2. t[i] = e(k + i)
      BY <2>1, <2>4, <3>1
    <3>3. u[i] = e(k + i)
      BY <2>2, <3>1
    <3> QED BY <3>2, <3>3
  <2>7. Len(t) = Len(u)
    BY <2>0, <2>1, <2>2, <2>4
  <2>8. t = u
    BY <2>2, <2>4, <2>6, <2>7, SeqEqual
  <2> QED BY <2>3, <2>4, <2>5, <2>8 DEF s, t, u, e
<1>3. ASSUME k = Len(Type) + 1 PROVE Remaining(k) = <<>>
  <2>1. Len(Remaining(k)) = 0 /\ Remaining(k) \in Seq(ReadStep)
    BY <1>0, <1>1, <1>3
  <2> QED BY <2>1, EmptySeq
<1> QED BY <1>1, <1>2, <1>3

\* What osd_system_enumerate starts with.
LEMMA EnumerateFacts ==
  /\ osd_system_enumerate \in Seq(ReadStep) /\ osd_system_enumerate # <<>>
  /\ Head(osd_system_enumerate) = osd_reg_read16(1, "id")
  /\ Tail(osd_system_enumerate) \in Seq(ReadStep) /\ Tail(osd_system_enumerate) # <<>>
  /\ Head(Tail(osd_system_enumerate)) = osd_reg_read16(1, "num")
<1> DEFINE x == osd_reg_read16(1, "id")
           y == osd_reg_read16(1, "num")
<1>1. x \in ReadStep /\ y \in ReadStep
  BY Constants, ReadStepType DEF ReadReg
<1>2. osd_system_enumerate = <<x, y>>
  BY Constants DEF osd_system_enumerate
<1> HIDE DEF x, y
<1>3. <<x, y>> \in Seq(ReadStep) /\ <<x, y>> # <<>> /\ Head(<<x, y>>) = x
  BY <1>1
<1>4. Tail(<<x, y>>) \in Seq(ReadStep) /\ Len(Tail(<<x, y>>)) = 1 /\ Tail(<<x, y>>)[1] = y
  BY <1>1
<1>5. Tail(<<x, y>>) # <<>> /\ Head(Tail(<<x, y>>)) = y
  BY <1>4
<1> QED BY <1>2, <1>3, <1>4, <1>5 DEF x, y

\* Until it is connected, the thread only reads registers.
LEMMA EnumTodo ==
  ASSUME NEW todo,
         \/ todo \in {osd_system_enumerate, Tail(osd_system_enumerate)}
         \/ \E k \in 1 .. Len(Type) + 1 :
               \/ todo = Remaining(k) /\ k <= Len(Type)
               \/ k > 1 /\ todo = <<osd_reg_read16(k - 1, "desc")>> \o Remaining(k)
  PROVE  todo \in Seq(ReadStep) /\ todo # <<>>
<1>1. CASE todo \in {osd_system_enumerate, Tail(osd_system_enumerate)}
  BY <1>1, EnumerateFacts
<1>2. ASSUME NEW k \in 1 .. Len(Type) + 1,
             \/ todo = Remaining(k) /\ k <= Len(Type)
             \/ k > 1 /\ todo = <<osd_reg_read16(k - 1, "desc")>> \o Remaining(k)
      PROVE  todo \in Seq(ReadStep) /\ todo # <<>>
  <2>1. Remaining(k) \in Seq(ReadStep) /\ (k <= Len(Type) => Remaining(k) # <<>>)
    BY RemainingFacts
  <2>2. CASE todo = Remaining(k) /\ k <= Len(Type)
    BY <2>1, <2>2
  <2>3. CASE k > 1 /\ todo = <<osd_reg_read16(k - 1, "desc")>> \o Remaining(k)
    <3> DEFINE p == osd_reg_read16(k - 1, "desc")
               s == Remaining(k)
    <3>1. k - 1 \in Module /\ "desc" \in ReadReg
      BY <2>3, Constants DEF ReadReg
    <3>2. p \in ReadStep
      BY <3>1, ReadStepType
    <3> HIDE DEF p, s
    <3>3. s \in Seq(ReadStep)
      BY <2>1 DEF s
    <3>4. <<p>> \o s \in Seq(ReadStep) /\ Len(<<p>> \o s) = Len(s) + 1
      BY <3>2, <3>3, ConsFacts
    <3>5. <<p>> \o s # <<>>
      BY <3>3, <3>4, EmptySeq
    <3> QED BY <2>3, <3>4, <3>5 DEF p, s
  <2> QED BY <1>2, <2>2, <2>3
<1> QED BY <1>1, <1>2

\* Until osd_connect returns, all steps are register reads.
LEMMA EnumSteps ==
  Enumeration /\ ~connected => api.todo \in Seq(ReadStep) /\ api.todo # <<>>
<1> SUFFICES ASSUME Enumeration, ~connected PROVE api.todo \in Seq(ReadStep) /\ api.todo # <<>>
  OBVIOUS
<1> DEFINE todo == api.todo
<1>1. \/ todo \in {osd_system_enumerate, Tail(osd_system_enumerate)}
      \/ \E k \in 1 .. Len(Type) + 1 :
            \/ todo = Remaining(k) /\ k <= Len(Type)
            \/ k > 1 /\ todo = <<osd_reg_read16(k - 1, "desc")>> \o Remaining(k)
  BY DEF Enumeration, Enumerating
<1> HIDE DEF todo
<1>2. todo \in Seq(ReadStep) /\ todo # <<>>
  BY <1>1, EnumTodo
<1> QED BY <1>2 DEF todo

\* An answer of the enumeration keeps its table and its list of reads in step,
\* and osd_connect returns when the list is empty.
LEMMA EnumReturn ==
  ASSUME ApiShape, OneAccess, Enumeration, RegReturn, ~connected
  PROVE  /\ api' = [pc |-> "next", todo |-> api'.todo, result |-> api'.result]
         /\ api'.result = api.result
         /\ connected' \in BOOLEAN
         /\ connected' => api'.todo = <<>>
         /\ connected' \/ handler' = handler
         /\ Enumeration'
<1> DEFINE v == reg_access.v
           rest == EnumerateNext(Step.m, Step.r, v, Tail(api.todo))
<1>0. AtStep("reg", "woken") /\ api.todo # <<>>
  BY DEF RegReturn, AtStep
<1>1. reg_access = Answer
  BY <1>0 DEF OneAccess
<1>2. /\ api' = [api EXCEPT !.pc = "next", !.todo = rest]
      /\ info' = Enumerated(Step.m, Step.r, v)
      /\ connected' = (rest = <<>> /\ info' # <<>>)
      /\ handler' = IF connected' THEN [m \in DOMAIN info' |-> "none"] ELSE handler
  BY DEF RegReturn
<1>3. /\ api' = [pc |-> "next", todo |-> api'.todo, result |-> api'.result]
      /\ api'.result = api.result /\ api'.todo = rest
  <2>1. api = [pc |-> api.pc, todo |-> api.todo, result |-> api.result]
    BY DEF ApiShape
  <2> HIDE DEF rest
  <2> QED BY <1>2, <2>1
<1>4. ASSUME NEW m \in Module, NEW r \in ReadReg, Step = osd_reg_read16(m, r)
      PROVE  v = RegValue(m, r) /\ Step.m = m /\ Step.r = r
  <2>1. Step.m = m /\ Step.r = r /\ Step.write = FALSE
    BY <1>4, ReadStepType
  <2> QED BY <1>1, <2>1 DEF Answer
<1> HIDE DEF v
<1>5. CASE info = <<>> /\ api.todo \in {osd_system_enumerate, Tail(osd_system_enumerate)}
  <2>1. CASE api.todo = osd_system_enumerate
    <3>1. Step = osd_reg_read16(1, "id")
      BY <2>1, EnumerateFacts DEF Step
    <3>2. 1 \in Module /\ "id" \in ReadReg /\ Type[1] = SCM
      BY Constants DEF ReadReg, SCM
    <3>3. v = SCM /\ Step.r = "id"
      BY <1>4, <3>1, <3>2, RegValueFacts
    <3>4. rest = Tail(osd_system_enumerate)
      BY <2>1, <3>3 DEF EnumerateNext, SCM, MAM, STM, CTM
    <3>5. info' = info
      BY <1>2, <1>5, <3>3 DEF Enumerated
    <3>6. ~connected' /\ rest # <<>>
      BY <1>2, <3>4, EnumerateFacts
    <3>7. Enumeration'
      BY <1>3, <1>5, <3>4, <3>5, <3>6 DEF Enumeration
    <3> QED BY <1>2, <1>3, <3>6, <3>7
  <2>2. CASE api.todo = Tail(osd_system_enumerate)
    <3>1. Step = osd_reg_read16(1, "num")
      BY <2>2, EnumerateFacts DEF Step
    <3>2. 1 \in Module /\ "num" \in ReadReg
      BY Constants DEF ReadReg
    <3>3. v = Len(Type) /\ Step.r = "num"
      BY <1>4, <3>1, <3>2, RegValueFacts
    <3>4. 1 \in 1 .. Len(Type) + 1 /\ 1 <= Len(Type)
      BY Constants
    <3>5. rest = Remaining(1)
      <4>1. rest = [i \in 1 .. Len(Type) |-> osd_reg_read16(i, "id")]
        BY <3>3 DEF EnumerateNext
      <4>2. Len(Type) + 1 - 1 = Len(Type) /\ \A i \in 1 .. Len(Type) : 1 + i - 1 = i
        BY Constants
      <4>3. Remaining(1) = [i \in 1 .. Len(Type) |-> osd_reg_read16(1 + i - 1, "id")]
        BY <4>2 DEF Remaining
      <4>4. \A i \in 1 .. Len(Type) : osd_reg_read16(i, "id") = osd_reg_read16(1 + i - 1, "id")
        BY <4>2
      <4> QED BY <4>1, <4>3, <4>4
    <3>6. rest # <<>>
      BY <3>4, <3>5, RemainingFacts
    <3>7. ~connected'
      BY <1>2, <3>6
    <3>8. info' = [i \in 1 .. Len(Type) |-> 0]
      BY <1>2, <3>3 DEF Enumerated, HOST
    <3>9. info' \in [Module -> Nat]
      BY <3>8, Constants
    <3>10. Enumerating(1)'
      BY <1>3, <3>4, <3>5, <3>9 DEF Enumerating
    <3>11. Enumeration'
      BY <3>4, <3>7, <3>10 DEF Enumeration
    <3> QED BY <1>2, <1>3, <3>7, <3>11
  <2> QED BY <1>5, <2>1, <2>2
<1>6. ASSUME NEW k \in 1 .. Len(Type) + 1, Enumerating(k)
      PROVE  /\ connected' \in BOOLEAN /\ (connected' => api'.todo = <<>>)
             /\ connected' \/ handler' = handler
             /\ Enumeration'
  <2>0. info \in [Module -> Nat] /\ info # <<>> /\ \A i \in 1 .. k - 1 : info[i] = Type[i]
    <3>1. info \in [Module -> Nat] /\ 1 \in Module
      BY <1>6, Constants DEF Enumerating
    <3>2. info # <<>>
      BY <3>1
    <3> QED BY <1>6, <3>1, <3>2 DEF Enumerating
  <2>1. ASSUME NEW j \in 1 .. Len(Type) + 1, rest = Remaining(j), info' \in [Module -> Nat],
               \A i \in 1 .. j - 1 : info'[i] = Type[i]
        PROVE  /\ connected' \in BOOLEAN /\ (connected' => api'.todo = <<>>)
               /\ connected' \/ handler' = handler
               /\ Enumeration'
    <3>0. info' # <<>>
      <4>1. 1 \in Module
        BY Constants
      <4> QED BY <2>1, <4>1
    <3>1. CASE j <= Len(Type)
      <4>1. ~connected'
        BY <1>2, <2>1, <3>1, RemainingFacts
      <4>2. Enumerating(j)'
        BY <1>3, <2>1, <3>1 DEF Enumerating
      <4>3. Enumeration'
        BY <4>1, <4>2 DEF Enumeration
      <4> QED BY <1>2, <4>1, <4>3
    <3>2. CASE j = Len(Type) + 1
      <4>1. rest = <<>> /\ connected'
        BY <1>2, <2>1, <3>0, <3>2, RemainingFacts
      <4>2. info' = Type
        <5>1. Type \in [Module -> Nat] /\ Module = 1 .. Len(Type) /\ Len(Type) \in Nat
          BY Constants
        <5>2. \A i \in Module : info'[i] = Type[i]
          BY <2>1, <3>2, <5>1
        <5> QED BY <2>1, <5>1, <5>2
      <4>3. DOMAIN handler' = Module
        BY <1>2, <2>1, <4>1
      <4>4. Enumeration'
        BY <4>1, <4>2, <4>3 DEF Enumeration
      <4> QED BY <1>3, <4>1, <4>4
    <3> QED BY <3>1, <3>2, Constants
  <2>2. CASE api.todo = Remaining(k) /\ k <= Len(Type)
    <3>1. Step = osd_reg_read16(k, "id") /\ Tail(api.todo) = Remaining(k + 1)
      BY <2>2, RemainingFacts DEF Step
    <3>2. k \in Module /\ "id" \in ReadReg /\ k + 1 \in 1 .. Len(Type) + 1 /\ Len(Type) \in Nat /\ k \in Nat
          /\ Type[k] \in Nat
      BY <2>2, Constants DEF ReadReg
    <3>3. v = Type[k] /\ Step.m = k /\ Step.r = "id"
      BY <1>4, <3>1, <3>2, RegValueFacts
    <3>4. info' = [info EXCEPT ![k] = Type[k]]
      BY <1>2, <2>0, <3>3 DEF Enumerated
    <3>5. info' \in [Module -> Nat] /\ \A i \in 1 .. k : info'[i] = Type[i]
      BY <2>0, <3>2, <3>4, Constants
    <3>6. CASE Type[k] \in {MAM, STM, CTM}
      <4>1. rest = <<osd_reg_read16(k, "desc")>> \o Remaining(k + 1)
        BY <2>0, <3>1, <3>3, <3>6 DEF EnumerateNext
      <4>2. rest # <<>>
        <5> DEFINE p == osd_reg_read16(k, "desc")
                   s == Remaining(k + 1)
        <5>1. p \in ReadStep /\ s \in Seq(ReadStep)
          BY <3>2, ReadStepType, RemainingFacts DEF ReadReg
        <5> HIDE DEF p, s
        <5>2. <<p>> \o s \in Seq(ReadStep) /\ Len(<<p>> \o s) = Len(s) + 1
          BY <5>1, ConsFacts
        <5>3. <<p>> \o s # <<>>
          BY <5>1, <5>2, EmptySeq
        <5> QED BY <4>1, <5>3 DEF p, s
      <4>3. ~connected'
        BY <1>2, <4>2
      <4>4. Enumerating(k + 1)'
        <5>1. k + 1 - 1 = k /\ k + 1 > 1
          BY <3>2
        <5>2. api'.todo = <<osd_reg_read16(k + 1 - 1, "desc")>> \o Remaining(k + 1)
          BY <1>3, <4>1, <5>1
        <5>3. \A i \in 1 .. (k + 1) - 1 : info'[i] = Type[i]
          BY <3>5, <5>1
        <5> QED BY <3>5, <5>1, <5>2, <5>3 DEF Enumerating
      <4>5. Enumeration'
        BY <3>2, <4>3, <4>4 DEF Enumeration
      <4> QED BY <1>2, <4>3, <4>5
    <3>7. CASE Type[k] \notin {MAM, STM, CTM}
      <4>1. rest = Remaining(k + 1)
        BY <2>0, <3>1, <3>3, <3>7 DEF EnumerateNext
      <4>2. \A i \in 1 .. (k + 1) - 1 : info'[i] = Type[i]
        BY <3>2, <3>5
      <4> QED BY <2>1, <3>2, <3>5, <4>1, <4>2
    <3> QED BY <3>6, <3>7
  <2>3. CASE k > 1 /\ api.todo = <<osd_reg_read16(k - 1, "desc")>> \o Remaining(k)
    <3> DEFINE p == osd_reg_read16(k - 1, "desc")
               s == Remaining(k)
    <3>1. k - 1 \in Module /\ "desc" \in ReadReg
      BY <2>3, Constants DEF ReadReg
    <3>2. p \in ReadStep /\ s \in Seq(ReadStep)
      BY <3>1, ReadStepType, RemainingFacts
    <3>3. Step = p /\ Tail(api.todo) = s
      <4> HIDE DEF p, s
      <4>1. <<p>> \o s \in Seq(ReadStep) /\ Head(<<p>> \o s) = p /\ Tail(<<p>> \o s) = s
        <5>1. <<p>> \o s \in Seq(ReadStep) /\ Len(<<p>> \o s) = Len(s) + 1 /\ (<<p>> \o s)[1] = p
          BY <3>2, ConsFacts
        <5> DEFINE u == <<p>> \o s
        <5>2. \A i \in 1 .. Len(s) : u[i + 1] = s[i]
          BY <3>2, ConsFacts
        <5> HIDE DEF u
        <5>3. u # <<>>
          BY <3>2, <5>1, EmptySeq DEF u
        <5>4. Head(u) = u[1] /\ Tail(u) \in Seq(ReadStep) /\ Len(Tail(u)) = Len(u) - 1
              /\ \A i \in 1 .. Len(u) - 1 : Tail(u)[i] = u[i + 1]
          BY <5>1, <5>3, TailFacts DEF u
        <5>5. Len(Tail(u)) = Len(s) /\ \A i \in 1 .. Len(Tail(u)) : Tail(u)[i] = s[i]
          BY <3>2, <5>1, <5>2, <5>4 DEF u
        <5>6. Tail(u) = s
          BY <3>2, <5>4, <5>5, SeqEqual
        <5> QED BY <5>1, <5>4, <5>6 DEF u
      <4>2. api.todo = <<p>> \o s
        BY <2>3 DEF p, s
      <4> QED BY <4>1, <4>2 DEF Step
    <3>4. Step.r = "desc"
      BY <1>4, <3>1, <3>3
    <3>5. rest = Remaining(k)
      BY <3>3, <3>4 DEF EnumerateNext
    <3>6. info' = info
      BY <1>2, <3>4 DEF Enumerated
    <3> QED BY <2>0, <2>1, <3>5, <3>6
  <2> QED BY <1>6, <2>2, <2>3 DEF Enumerating
<1> QED BY <1>3, <1>5, <1>6 DEF Enumeration

(***************************************************************************)
(* The types are kept.                                                     *)
(***************************************************************************)

\* A burst is replaced by its packets, in front of the rest of the call.
LEMMA BulkEffect ==
  ASSUME ApiShape, WriteBulk
  PROVE  /\ Step \in BulkStep /\ api'.todo = memory_write_bulk(Step.addr, Step.bytes) \o Tail(api.todo)
         /\ memory_write_bulk(Step.addr, Step.bytes) \in Seq(SendStep)
         /\ Tail(api.todo) \in Seq(AnyStep) /\ api'.todo \in Seq(AnyStep)
         /\ api' = [pc |-> "next", todo |-> api'.todo, result |-> api.result]
<1>1. api.todo # <<>> /\ Step.k = "bulk" /\ api.pc = "next"
      /\ api' = [api EXCEPT !.todo = memory_write_bulk(Step.addr, Step.bytes) \o Tail(@)]
  BY DEF WriteBulk, AtStep
<1>2. Step \in BulkStep /\ Tail(api.todo) \in Seq(AnyStep)
  BY <1>1, StepType, StepKinds
<1>3. Step.addr \in Nat /\ Step.bytes \in Seq(Nat)
  BY <1>2 DEF BulkStep
<1> DEFINE b == memory_write_bulk(Step.addr, Step.bytes)
           t == Tail(api.todo)
<1>4. b \in Seq(SendStep)
  BY <1>3, BulkType
<1>5. api = [pc |-> api.pc, todo |-> api.todo, result |-> api.result]
  BY DEF ApiShape
<1>6. api' = [api EXCEPT !.todo = b \o t] /\ t \in Seq(AnyStep)
  BY <1>1, <1>2
<1>7. SendStep \subseteq AnyStep
  BY DEF AnyStep
<1> HIDE DEF b, t
<1>8. b \in Seq(AnyStep)
  BY <1>4, <1>7, SeqMonotonic
<1>9. b \o t \in Seq(AnyStep)
  BY <1>6, <1>8, ConcatProperties
<1>10. api'.todo = b \o t /\ api' = [pc |-> "next", todo |-> api'.todo, result |-> api.result]
  BY <1>1, <1>5, <1>6
<1> QED BY <1>2, <1>4, <1>6, <1>9, <1>10 DEF b, t

\* What a step of the application thread leaves: the same step at another
\* point of it, or the rest of the call.
LEMMA ApiNext ==
  ASSUME ApiShape, OneAccess, Enumeration, ApiStep
  PROVE  /\ api' = [pc |-> api'.pc, todo |-> api'.todo, result |-> api'.result]
         /\ api'.todo \in Seq(AnyStep)
         /\ api.todo # <<>>
         /\ \/ /\ api'.todo = api.todo /\ Step' = Step /\ api'.result = api.result
               /\ Step.k \in {"reg", "fetch"} /\ api'.pc \in {"locked", "sent", "wait"}
               /\ connected' = connected /\ info' = info
            \/ /\ api'.pc = "next" /\ connected' = connected /\ info' = info
               /\ \/ api'.todo = Tail(api.todo)
                  \/ WriteBulk
            \/ /\ api'.pc = "next" /\ ~connected /\ RegReturn
         /\ connected' \in BOOLEAN
<1>0. connected \in BOOLEAN /\ api = [pc |-> api.pc, todo |-> api.todo, result |-> api.result]
      /\ api.todo \in Seq(AnyStep)
  BY DEF ApiShape
<1>1. CASE RegLock
  <2>1. Goto("locked") /\ api.todo # <<>> /\ Step.k = "reg" /\ connected' = connected /\ info' = info
    BY <1>1 DEF RegLock, AtStep
  <2> QED BY <1>0, <2>1, GotoFacts
<1>2. CASE RegSend
  <2>1. Goto("sent") /\ api.todo # <<>> /\ Step.k = "reg" /\ connected' = connected /\ info' = info
    BY <1>2 DEF RegSend, AtStep
  <2> QED BY <1>0, <2>1, GotoFacts
<1>3. CASE CondWait
  <2>1. Goto("wait") /\ api.todo # <<>> /\ Step.k \in {"reg", "fetch"} /\ connected' = connected /\ info' = info
    BY <1>3 DEF CondWait, AtStep
  <2> QED BY <1>0, <2>1, GotoFacts
<1>4. CASE RegReturn /\ connected
  <2>1. StepDone /\ api.todo # <<>> /\ connected' = connected /\ info' = info
    BY <1>4 DEF RegReturn, AtStep
  <2> QED BY <1>0, <2>1, DoneFacts, StepType
<1>5. CASE RegReturn /\ ~connected
  <2>1. /\ api' = [pc |-> "next", todo |-> api'.todo, result |-> api'.result]
        /\ connected' \in BOOLEAN /\ Enumeration' /\ (connected' => api'.todo = <<>>)
    BY <1>5, EnumReturn
  <2>2. api'.todo \in Seq(AnyStep)
    <3>1. CASE connected'
      <4>1. api'.todo = <<>>
        BY <2>1, <3>1, Zenon
      <4>2. <<>> \in Seq(AnyStep)
        OBVIOUS
      <4> QED BY <4>1, <4>2, Zenon
    <3>2. CASE ~connected'
      <4>1. api'.todo \in Seq(ReadStep)
        <5> DEFINE todo == api'.todo
        <5>1. \/ todo \in {osd_system_enumerate, Tail(osd_system_enumerate)}
              \/ \E k \in 1 .. Len(Type) + 1 :
                    \/ todo = Remaining(k) /\ k <= Len(Type)
                    \/ k > 1 /\ todo = <<osd_reg_read16(k - 1, "desc")>> \o Remaining(k)
          BY <2>1, <3>2 DEF Enumeration, Enumerating
        <5> HIDE DEF todo
        <5>2. todo \in Seq(ReadStep)
          BY <5>1, EnumTodo
        <5> QED BY <5>2 DEF todo
      <4>2. ReadStep \subseteq AnyStep
        BY DEF ReadStep, AnyStep
      <4>3. \A q \in Seq(ReadStep) : q \in Seq(AnyStep)
        BY <4>2, SeqMonotonic
      <4> QED BY <4>1, <4>3
    <3> QED BY <3>1, <3>2
  <2>3. api.todo # <<>> /\ api'.pc = "next"
    BY <1>5, <2>1 DEF RegReturn, AtStep
  <2> QED BY <1>5, <2>1, <2>2, <2>3
<1>6. CASE Send
  <2>1. StepDone /\ api.todo # <<>> /\ connected' = connected /\ info' = info
    BY <1>6 DEF Send, AtStep
  <2> QED BY <1>0, <2>1, DoneFacts, StepType
<1>7. CASE WriteBulk
  <2>1. api.todo # <<>> /\ connected' = connected /\ info' = info
    BY <1>7 DEF WriteBulk, AtStep
  <2> QED BY <1>0, <1>7, <2>1, BulkEffect
<1>8. CASE osd_module_register_handler
  <2>1. StepDone /\ api.todo # <<>> /\ connected' = connected /\ info' = info
    BY <1>8 DEF osd_module_register_handler, AtStep
  <2> QED BY <1>0, <2>1, DoneFacts, StepType
<1>9. CASE Result
  <2> DEFINE r == [addr |-> Step.addr, data |-> [i \in 0 .. Step.size - 1 |-> 0]]
  <2>1. api' = [api EXCEPT !.todo = Tail(@), !.result = r]
        /\ api.pc = "next" /\ api.todo # <<>> /\ connected' = connected /\ info' = info
    BY <1>9 DEF Result, AtStep
  <2> HIDE DEF r
  <2>2. /\ api' = [pc |-> api'.pc, todo |-> api'.todo, result |-> api'.result]
        /\ api'.pc = "next" /\ api'.todo = Tail(api.todo)
    BY <1>0, <2>1
  <2> QED BY <1>0, <2>1, <2>2, StepType
<1>10. CASE FetchLock
  <2>1. Goto("locked") /\ api.todo # <<>> /\ Step.k = "fetch" /\ connected' = connected /\ info' = info
    BY <1>10 DEF FetchLock, AtStep
  <2> QED BY <1>0, <2>1, GotoFacts
<1>11. CASE FetchSend
  <2>1. Goto("sent") /\ api.todo # <<>> /\ Step.k = "fetch" /\ connected' = connected /\ info' = info
    BY <1>11 DEF FetchSend, AtStep
  <2> QED BY <1>0, <2>1, GotoFacts
<1>12. CASE FetchReturn
  <2>1. PICK r : api' = [api EXCEPT !.pc = "next", !.todo = Tail(@), !.result.data = r]
    BY <1>12 DEF FetchReturn
  <2>2. api.todo # <<>> /\ connected' = connected /\ info' = info
    BY <1>12 DEF FetchReturn, AtStep
  <2>3. /\ api' = [pc |-> api'.pc, todo |-> api'.todo, result |-> api'.result]
        /\ api'.pc = "next" /\ api'.todo = Tail(api.todo)
    BY <1>0, <2>1
  <2> QED BY <1>0, <2>2, <2>3, StepType
<1> QED BY <1>1, <1>2, <1>3, <1>4, <1>5, <1>6, <1>7, <1>8, <1>9, <1>10, <1>11, <1>12 DEF ApiStep

\* The packets to the host, by what osd_handle_packet sees.
LEMMA UpKinds ==
  ASSUME NEW p \in UpPacket
  PROVE  /\ p.kind \in {"reg", "event"}
         /\ IsReg(p) <=> p \in RegReply
         /\ IsMam(p) <=> p \in MamEvent
         /\ IsStm(p) <=> p \in StmEvent
         /\ IsReg(p) \/ IsMam(p) \/ IsStm(p)
         /\ ~(IsReg(p) /\ IsMam(p)) /\ ~(IsReg(p) /\ IsStm(p)) /\ ~(IsMam(p) /\ IsStm(p))
<1>1. p \in RegReply => p.kind = "reg"
  BY DEF RegReply
<1>2. p \in MamEvent => p.kind = "event" /\ p.mod = Mam
  BY DEF MamEvent
<1>3. p \in StmEvent => p.kind = "event" /\ p.mod = Stm
  BY DEF StmEvent
<1> QED BY <1>1, <1>2, <1>3, Constants DEF UpPacket, IsReg, IsMam, IsStm

\* The packets to a module.
LEMMA DownKinds ==
  ASSUME NEW p \in DownPacket
  PROVE  /\ IsReg(p) <=> p \in RegRequest
         /\ IsPlain(p) <=> p \in MamPacket
         /\ IsReg(p) <=> ~IsPlain(p)
<1>1. p \in RegRequest => p.kind = "reg"
  BY DEF RegRequest
<1>2. p \in MamPacket => p.kind = "plain"
  BY DEF MamPacket
<1> QED BY <1>1, <1>2 DEF DownPacket, IsReg, IsPlain

\* An event in the receiver's hands has its handler.
LEMMA HandlerFits ==
  ASSUME Shape, Enumeration, HandlersFirst, OneFetch, rx.at = "handle", rx.pkt.kind = "event"
  PROVE  /\ connected /\ rx.pkt.mod \in DOMAIN handler /\ DOMAIN handler = Module
         /\ \/ /\ IsMam(rx.pkt) /\ rx.pkt \in MamEvent /\ handler[rx.pkt.mod] = "memory_read_cb"
               /\ Waiting("fetch")
            \/ /\ IsStm(rx.pkt) /\ rx.pkt \in StmEvent /\ handler[rx.pkt.mod] = "stm_log_handler"
               /\ StmReady
<1>1. /\ Len(Inbox) \in Nat /\ Len(Inbox) > 0 /\ Inbox[1] = rx.pkt /\ rx.pkt \in UpPacket
  BY InboxType DEF Shape
<1>2. 1 \in 1 .. Len(Inbox)
  BY <1>1
<1>3. IsMam(rx.pkt) \/ IsStm(rx.pkt)
  BY <1>1, UpKinds DEF IsReg
<1>4. ASSUME IsMam(rx.pkt)
      PROVE  connected /\ Waiting("fetch") /\ handler[Mam] = "memory_read_cb"
  <2>1. Waiting("fetch")
    BY <1>1, <1>2, <1>4 DEF OneFetch, Quiet
  <2>2. api.todo # <<>> /\ Step.k = "fetch" /\ api.pc # "next"
    BY <2>1 DEF Waiting, AtStep
  <2>3. connected
    <3>1. 1 \in 1 .. Len(api.todo) /\ api.todo[1] = Step
      BY <2>2, StepType DEF Shape
    <3> QED BY <2>2, <3>1 DEF HandlersFirst
  <2> QED BY <2>1, <2>2, <2>3 DEF HandlersFirst
<1>5. ASSUME IsStm(rx.pkt)
      PROVE  connected /\ handler[Stm] = "stm_log_handler" /\ StmReady
  BY <1>1, <1>2, <1>5 DEF HandlersFirst, StmReady
<1>6. connected => DOMAIN handler = Module
  BY DEF Enumeration
<1>7. CASE IsMam(rx.pkt)
  BY <1>1, <1>4, <1>6, <1>7, UpKinds, Constants DEF IsMam
<1>8. CASE IsStm(rx.pkt)
  BY <1>1, <1>5, <1>6, <1>8, UpKinds, Constants DEF IsStm
<1> QED BY <1>3, <1>7, <1>8

\* The access module reads inside the memory, and sends at least a word.
MamReply == LET n == IF mam.flits < WordsPerPacket THEN mam.flits ELSE WordsPerPacket
            IN  [mod |-> Mam, kind |-> "event",
                 words |-> Words([i \in 1 .. 2 * n |-> memory[mam.addr + i - 1]])]

\* While the MAM reads, the caller waits for that fetch, and what the MAM has
\* left to read is inside the memory.
LEMMA ReadFacts ==
  ASSUME Shape, OneFetch, Reading
  PROVE  /\ Waiting("fetch") /\ ~Pending /\ Step \in FetchStep
         /\ mam.flits \in Nat \ {0} /\ mam.addr \in Nat /\ mam.addr + 2 * mam.flits <= MemSize
         /\ mem_access.size = Step.n /\ rx.at # "signal"
<1>1. Waiting("fetch") /\ ~Pending
  BY DEF OneFetch, Quiet, Pending
<1>2. api.todo # <<>> /\ Step.k = "fetch" /\ api.pc # "next"
  BY <1>1 DEF Waiting, AtStep
<1>3. Step \in FetchStep
  BY <1>2, StepType, StepKinds DEF Shape
<1>4. mem_access.size = Step.n
  BY <1>2 DEF OneFetch
<1>5. PICK T : Flow(T)
  BY <1>1 DEF OneFetch
<1>6. Len(Inbox) \in Nat
  BY InboxType DEF Shape
<1> DEFINE t == T[Len(Inbox) + 1]
<1>7. /\ t \in Nat /\ t + mam.flits = mem_access.size \div 2 /\ mam.addr = Step.addr + 2 * t
  BY <1>5, <1>6 DEF Flow, Left, Brought
<1>8. mam.flits \in Nat \ {0} /\ mam.addr \in Nat
  BY DEF Shape, DeviceShape, OneFetch
<1>9. Step.addr \in Nat /\ Step.n \in Nat /\ Step.addr + Step.n <= MemSize
  BY <1>3 DEF FetchStep
<1> HIDE DEF t
<1>10. 2 * (Step.n \div 2) <= Step.n /\ Step.n \div 2 \in Nat
  BY <1>9
<1>11. mam.addr + 2 * mam.flits <= MemSize
  BY <1>4, <1>7, <1>8, <1>9, <1>10, Sizes
<1>12. rx.at # "signal"
  <2> SUFFICES ASSUME rx.at = "signal" PROVE FALSE
    OBVIOUS
  <2>1. T[1] = mem_access.size \div 2
    BY <1>5 DEF OneFetch, Flow
  <2>2. T[1] <= T[Len(Inbox) + 1]
    BY <1>5, <1>6 DEF Flow, Brought
  <2> QED BY <1>4, <1>7, <1>8, <1>10, <2>1, <2>2 DEF t
<1> QED BY <1>1, <1>3, <1>4, <1>8, <1>11, <1>12

\* The MAM answers a read with the next words of memory, at most a full packet.
LEMMA MamReplyType ==
  ASSUME Shape, OneFetch, Reading
  PROVE  \E n \in Nat \ {0} :
           /\ n <= mam.flits
           /\ n = IF mam.flits < WordsPerPacket THEN mam.flits ELSE WordsPerPacket
           /\ MamReply \in MamEvent /\ MamReply.words \in Seq(Word) /\ Len(MamReply.words) = n
           /\ \A k \in 1 .. n : MamReply.words[k] = <<memory[mam.addr + 2 * (k - 1)],
                                                      memory[mam.addr + 2 * (k - 1) + 1]>>
<1> DEFINE n == IF mam.flits < WordsPerPacket THEN mam.flits ELSE WordsPerPacket
           e(i) == memory[mam.addr + i - 1]
           b == [i \in 1 .. 2 * n |-> e(i)]
           w == Words(b)
<1>1. mam.flits \in Nat \ {0} /\ mam.addr \in Nat /\ mam.addr + 2 * mam.flits <= MemSize
  BY ReadFacts
<1>2. n \in Nat \ {0} /\ n <= mam.flits
  BY <1>1, Sizes
<1>3. n = IF mam.flits < WordsPerPacket THEN mam.flits ELSE WordsPerPacket
  OBVIOUS
<1>4. MamReply = [mod |-> Mam, kind |-> "event", words |-> w]
  BY DEF MamReply
<1> HIDE DEF n
<1>5. \A i \in 1 .. 2 * n : e(i) \in Nat
  <2> SUFFICES ASSUME NEW i \in 1 .. 2 * n PROVE e(i) \in Nat
    OBVIOUS
  <2>1. mam.addr + i - 1 \in 0 .. MemSize - 1
    BY <1>1, <1>2, Sizes
  <2> QED BY <2>1 DEF Shape, DeviceShape, Bytes
<1>6. \A k \in 1 .. n : e(2 * k - 1) = memory[mam.addr + 2 * (k - 1)]
                        /\ e(2 * k) = memory[mam.addr + 2 * (k - 1) + 1]
  <2> SUFFICES ASSUME NEW k \in 1 .. n
               PROVE  e(2 * k - 1) = memory[mam.addr + 2 * (k - 1)]
                      /\ e(2 * k) = memory[mam.addr + 2 * (k - 1) + 1]
    OBVIOUS
  <2>1. mam.addr + (2 * k - 1) - 1 = mam.addr + 2 * (k - 1) /\ mam.addr + 2 * k - 1 = mam.addr + 2 * (k - 1) + 1
    BY <1>1, <1>2
  <2> QED BY <2>1
<1> HIDE DEF e
<1>7. b \in Seq(Nat) /\ Len(b) = 2 * n /\ \A i \in 1 .. 2 * n : b[i] = e(i)
  BY <1>2, <1>5
<1> HIDE DEF b
<1>8. /\ w \in Seq(Word) /\ Len(w) = Len(b) \div 2
      /\ \A i \in 1 .. Len(b) \div 2 : w[i] = <<b[2 * i - 1], b[2 * i]>>
  BY <1>7, WordsType
<1>9. Len(b) \div 2 = n
  BY <1>2, <1>7
<1> HIDE DEF w
<1>10. \A k \in 1 .. n : w[k] = <<memory[mam.addr + 2 * (k - 1)], memory[mam.addr + 2 * (k - 1) + 1]>>
  <2> SUFFICES ASSUME NEW k \in 1 .. n
               PROVE  w[k] = <<memory[mam.addr + 2 * (k - 1)], memory[mam.addr + 2 * (k - 1) + 1]>>
    OBVIOUS
  <2>1. 2 * k - 1 \in 1 .. 2 * n /\ 2 * k \in 1 .. 2 * n
    BY <1>2
  <2> QED BY <1>6, <1>7, <1>8, <1>9, <2>1
<1>11. w # <<>>
  BY <1>2, <1>8, <1>9, EmptySeq
<1>12. MamReply \in MamEvent /\ MamReply.words = w
  BY <1>4, <1>8, <1>11 DEF MamEvent
<1> QED BY <1>2, <1>3, <1>8, <1>9, <1>10, <1>12

\* The answer of a module, and the access it answers.
LEMMA AccessFacts ==
  ASSUME Shape, OneAccess, NEW m \in Module, RegAccess(m)
  PROVE  /\ Waiting("reg") /\ m = Step.m /\ down[m] # <<>> /\ down[m][1] = Request /\ Head(down[m]) = Request
         /\ IsReg(down[m][1]) /\ Step \in RegStep
         /\ Answer \in UpPacket /\ IsReg(Answer) /\ Reply(Answer)
         /\ Popped(down[m], down'[m]) /\ down'[m] \in Seq(DownPacket)
         /\ down' = [down EXCEPT ![m] = Tail(down[m])]
<1>1. down \in [Module -> Seq(DownPacket)] /\ down[m] # <<>> /\ Head(down[m]).kind = "reg"
      /\ down' = [down EXCEPT ![m] = Tail(down[m])]
  BY DEF RegAccess, AtModule, Take, Shape, LinkShape
<1>2. down[m] \in Seq(DownPacket) /\ down'[m] = Tail(down[m])
  BY <1>1
<1>3. /\ Popped(down[m], down'[m]) /\ down'[m] \in Seq(DownPacket) /\ Head(down[m]) = down[m][1]
      /\ Len(down[m]) \in Nat \ {0}
  BY <1>1, <1>2, TailPopped DEF Popped
<1>4. IsReg(down[m][1]) /\ 1 \in 1 .. Len(down[m])
  BY <1>1, <1>3 DEF IsReg
<1>5. Waiting("reg") /\ m = Step.m /\ down[m][1] = Request
  BY <1>4 DEF OneAccess
<1>6. api.todo # <<>> /\ Step.k = "reg"
  BY <1>5 DEF Waiting, AtStep
<1>7. Step \in RegStep /\ Answer \in RegReply
  BY <1>6, AnswerFacts DEF Shape
<1>8. Answer \in UpPacket /\ IsReg(Answer)
  BY <1>7 DEF UpPacket, IsReg, RegReply
<1>9. Reply(Answer)
  <2> DEFINE q == Head(down[m])
  <2>1. q.write = Step.write /\ q.r = Step.r
    BY <1>3, <1>5 DEF Request
  <2>2. Reply([mod |-> m, kind |-> "reg", size |-> IF q.write THEN 2 ELSE 3,
               v |-> IF q.write THEN 0 ELSE RegValue(m, q.r)])
    BY DEF RegAccess
  <2> QED BY <1>5, <2>1, <2>2, Zenon DEF Answer
<1> QED BY <1>1, <1>3, <1>4, <1>5, <1>7, <1>8, <1>9

\* A packet joins the queue of a module.
LEMMA PutFacts ==
  ASSUME LinkShape, NEW m \in Module, NEW p \in DownPacket, Put(m, p)
  PROVE  /\ Pushed(down[m], p, down'[m]) /\ \A x \in Module \ {m} : down'[x] = down[x]
         /\ down' \in [Module -> Seq(DownPacket)] /\ \A x \in Module : Len(down'[x]) <= Depth
<1>1. down \in [Module -> Seq(DownPacket)] /\ down[m] \in Seq(DownPacket) /\ Len(down[m]) < Depth
      /\ down' = [down EXCEPT ![m] = Append(down[m], p)]
  BY DEF LinkShape, Put
<1>2. Pushed(down[m], p, Append(down[m], p)) /\ Append(down[m], p) \in Seq(DownPacket)
  BY <1>1, AppendPushed
<1> DEFINE q == Append(down[m], p)
<1>3. Len(q) <= Depth
  BY <1>1, <1>2, Sizes DEF Pushed
<1> HIDE DEF q
<1>4. down' = [down EXCEPT ![m] = q] /\ q \in Seq(DownPacket) /\ Pushed(down[m], p, q)
  BY <1>1, <1>2 DEF q
<1>5. \A x \in Module : Len(down[x]) <= Depth
  BY DEF LinkShape
<1> QED BY <1>1, <1>3, <1>4, <1>5

\* A module takes a packet from its queue.
LEMMA TakeFacts ==
  ASSUME LinkShape, NEW m \in Module, Take(m), down[m] # <<>>
  PROVE  /\ Popped(down[m], down'[m]) /\ \A x \in Module \ {m} : down'[x] = down[x]
         /\ down' \in [Module -> Seq(DownPacket)] /\ \A x \in Module : Len(down'[x]) <= Depth
         /\ Head(down[m]) = down[m][1] /\ down[m][1] \in DownPacket
<1>1. down \in [Module -> Seq(DownPacket)] /\ down[m] \in Seq(DownPacket) /\ Len(down[m]) <= Depth
      /\ down' = [down EXCEPT ![m] = Tail(down[m])]
  BY DEF LinkShape, Take
<1> DEFINE q == Tail(down[m])
<1>2. Popped(down[m], q) /\ q \in Seq(DownPacket) /\ Head(down[m]) = down[m][1] /\ down[m][1] \in DownPacket
  BY <1>1, TailPopped
<1>3. Len(q) <= Depth
  BY <1>1, <1>2, Sizes DEF Popped
<1> HIDE DEF q
<1>4. down' = [down EXCEPT ![m] = q]
  BY <1>1 DEF q
<1>5. \A x \in Module : Len(down[x]) <= Depth
  BY DEF LinkShape
<1> QED BY <1>1, <1>2, <1>3, <1>4, <1>5

\* What the application thread sends, and to which module.
LEMMA SendFacts ==
  ASSUME Shape
  PROVE  /\ RegSend => Request \in DownPacket /\ Step.m \in Module /\ Put(Step.m, Request)
         /\ Send => /\ Step \in SendStep /\ Step.pkt \in MamPacket /\ Step.pkt \in DownPacket
                    /\ Put(Mam, Step.pkt) /\ ~IsReg(Step.pkt) /\ ~IsGet(Step.pkt)
         /\ FetchSend => \E p \in MamPacket : /\ Put(Mam, p) /\ IsGet(p) /\ p.addr = Step.addr
                                              /\ p.beats = Step.n \div BlockSize /\ p \in DownPacket
<1>1. ASSUME RegSend PROVE Request \in DownPacket /\ Step.m \in Module /\ Put(Step.m, Request)
  <2>1. api.todo # <<>> /\ Step.k = "reg"
    BY <1>1 DEF RegSend, AtStep
  <2>2. Step.m \in Module /\ Request \in RegRequest
    BY <2>1, AnswerFacts DEF Shape
  <2> QED BY <1>1, <2>2 DEF RegSend, Request, DownPacket
<1>2. ASSUME Send
      PROVE  /\ Step \in SendStep /\ Step.pkt \in MamPacket /\ Step.pkt \in DownPacket
             /\ Put(Mam, Step.pkt) /\ ~IsReg(Step.pkt) /\ ~IsGet(Step.pkt)
  <2>1. api.todo # <<>> /\ Step.k = "send" /\ Put(Step.pkt.mod, Step.pkt)
    BY <1>2 DEF Send, AtStep
  <2>2. Step \in SendStep
    BY <2>1, StepType, StepKinds DEF Shape
  <2>3. Step.pkt \in MamPacket /\ Step.pkt.cmd # "get"
    BY <2>2 DEF SendStep
  <2>4. Step.pkt.mod = Mam /\ Step.pkt.kind = "plain"
    BY <2>3 DEF MamPacket
  <2> QED BY <2>1, <2>2, <2>3, <2>4 DEF DownPacket, IsReg, IsGet
<1>3. ASSUME FetchSend
      PROVE  \E p \in MamPacket : /\ Put(Mam, p) /\ IsGet(p) /\ p.addr = Step.addr
                                  /\ p.beats = Step.n \div BlockSize /\ p \in DownPacket
  <2> DEFINE p == [mod |-> Mam, kind |-> "plain", cmd |-> "get", addr |-> Step.addr,
                   strb |-> {}, beats |-> Step.n \div BlockSize, words |-> <<>>]
  <2>1. api.todo # <<>> /\ Step.k = "fetch"
    BY <1>3 DEF FetchSend, AtStep
  <2>2. Step \in FetchStep
    BY <2>1, StepType, StepKinds DEF Shape
  <2>3. Step.addr \in Nat /\ Step.n \in Nat
    BY <2>2 DEF FetchStep
  <2>4. Step.n \div BlockSize \in Nat
    BY <2>3, NatDivMod, Sizes
  <2>5. p \in MamPacket
    BY <2>3, <2>4 DEF MamPacket
  <2>6. Put(Mam, p)
    BY <1>3 DEF FetchSend, ToMam
  <2>7. IsGet(p) /\ p.addr = Step.addr /\ p.beats = Step.n \div BlockSize
    BY DEF IsGet, IsPlain
  <2> QED BY <2>5, <2>6, <2>7 DEF DownPacket
<1> QED BY <1>1, <1>2, <1>3

\* Stored keeps the memory a memory.
LEMMA StoredType ==
  ASSUME memory \in Bytes, NEW a \in Nat, NEW w \in Seq(Word)
  PROVE  Stored(a, w) \in Bytes
<1>1. DOMAIN memory = 0 .. MemSize - 1 /\ MemSize \in Nat
  BY Sizes DEF Bytes
<1>2. ASSUME NEW b \in 0 .. MemSize - 1
      PROVE  (IF b >= a /\ b < a + 2 * Len(w) THEN w[(b - a) \div 2 + 1][((b - a) % 2) + 1]
              ELSE memory[b]) \in Nat
  <2>1. memory[b] \in Nat
    BY DEF Bytes
  <2>2. ASSUME b >= a, b < a + 2 * Len(w)
        PROVE  w[(b - a) \div 2 + 1][((b - a) % 2) + 1] \in Nat
    <3> DEFINE i == (b - a) \div 2 + 1
               j == ((b - a) % 2) + 1
    <3>1. i \in 1 .. Len(w) /\ j \in 1 .. 2
      BY <1>1, <2>2
    <3> HIDE DEF i, j
    <3>2. w[i] \in Nat \X Nat
      BY <3>1, ElementOfSeq DEF Word
    <3>3. w[i][j] \in Nat
      BY <3>1, <3>2
    <3> QED BY <3>3 DEF i, j
  <2> QED BY <2>1, <2>2
<1>3. Stored(a, w) = [b \in 0 .. MemSize - 1 |->
         IF b >= a /\ b < a + 2 * Len(w) THEN w[(b - a) \div 2 + 1][((b - a) % 2) + 1] ELSE memory[b]]
  BY <1>1 DEF Stored
<1> QED BY <1>2, <1>3 DEF Bytes

\* The call in progress keeps its type.
LEMMA ApiShapeInv ==
  ASSUME IInv, Next
  PROVE  ApiShape'
<1> USE DEF IInv, Shape
<1>0. connected \in BOOLEAN
  BY DEF ApiShape
<1>1. CASE Call
  <2>1. connected' = connected
    BY <1>1 DEF Call
  <2>2. /\ api' = [pc |-> "next", todo |-> api'.todo, result |-> NoResult]
        /\ api'.todo \in Seq(AnyStep)
    BY <1>1, CallEffect
  <2>3. /\ api' = [pc |-> api'.pc, todo |-> api'.todo, result |-> api'.result] /\ api'.pc = "next"
    BY <2>2
  <2> QED BY <1>0, <2>1, <2>2, <2>3 DEF ApiShape
<1>2. CASE ApiStep
  <2>1. /\ api' = [pc |-> api'.pc, todo |-> api'.todo, result |-> api'.result]
        /\ api'.todo \in Seq(AnyStep) /\ connected' \in BOOLEAN
        /\ \/ /\ api'.todo = api.todo /\ Step' = Step /\ api.todo # <<>>
              /\ Step.k \in {"reg", "fetch"} /\ api'.pc \in {"locked", "sent", "wait"}
           \/ api'.pc = "next"
    BY <1>2, ApiNext
  <2> QED BY <2>1 DEF ApiShape
<1>3. ASSUME NEW k \in {"reg", "fetch"}, Signal(k), connected' = connected PROVE ApiShape'
  <2>1. CASE AtStep(k, "wait")
    <3>1. Goto("woken") /\ api.todo # <<>> /\ Step.k = k
      BY <1>3, <2>1 DEF Signal, AtStep
    <3>2. /\ api'.pc = "woken" /\ api'.todo = api.todo /\ Step' = Step
          /\ api' = [pc |-> api'.pc, todo |-> api'.todo, result |-> api'.result]
      BY <3>1, GotoFacts
    <3> QED BY <1>3, <3>1, <3>2 DEF ApiShape
  <2>2. CASE ~AtStep(k, "wait")
    <3>1. api' = api
      BY <1>3, <2>2 DEF Signal
    <3> QED BY <1>3, <3>1 DEF ApiShape, Step
  <2> QED BY <2>1, <2>2
<1>4. CASE HandleRegister
  BY <1>3, <1>4 DEF HandleRegister
<1>5. CASE SignalRead
  BY <1>3, <1>5 DEF SignalRead
<1>6. ASSUME api' = api, connected' = connected PROVE ApiShape'
  BY <1>6 DEF ApiShape, Step
<1>7. CASE Receive \/ memory_read_cb \/ stm_log_handler
  BY <1>6, <1>7 DEF Receive, memory_read_cb, stm_log_handler
<1>8. CASE ModuleStep \/ Sample
  BY <1>6, <1>8 DEF ModuleStep, Sample, RegAccess, MamCommand, MamWrite, MamRead, OverflowComplete,
                    Packetize, host
<1> QED BY <1>1, <1>2, <1>4, <1>5, <1>7, <1>8 DEF Next, RxStep

\* The buffers and the log keep their types.
LEMMA HostShapeInv ==
  ASSUME IInv, Next
  PROVE  HostShape'
<1> USE DEF IInv, Shape
<1>1. ASSUME mem_access' = mem_access, log' = log PROVE HostShape'
  BY <1>1 DEF HostShape
<1>2. CASE Call
  BY <1>1, <1>2 DEF Call
<1>3. CASE RegLock \/ RegSend \/ CondWait \/ RegReturn \/ Send
           \/ WriteBulk \/ osd_module_register_handler \/ Result \/ FetchSend
  BY <1>1, <1>3 DEF RegLock, RegSend, CondWait, RegReturn, Send, WriteBulk, osd_module_register_handler,
                    Result, FetchSend
<1>4. CASE FetchLock
  <2>1. api.todo # <<>> /\ Step.k = "fetch" /\ log' = log
    BY <1>4 DEF FetchLock, AtStep
  <2>2. Step \in FetchStep
    BY <2>1, StepType, StepKinds
  <2>3. Step.n \in Nat
    BY <2>2 DEF FetchStep
  <2> DEFINE d == [i \in 0 .. Step.n - 1 |-> 0]
  <2>4. mem_access' = [size |-> Step.n, count |-> 0, data |-> d]
    BY <1>4 DEF FetchLock
  <2> HIDE DEF d
  <2> QED BY <2>1, <2>3, <2>4 DEF HostShape
<1>5. CASE FetchReturn
  <2>1. mem_access' = [mem_access EXCEPT !.data = <<>>] /\ log' = log
    BY <1>5 DEF FetchReturn
  <2> QED BY <2>1 DEF HostShape
<1>6. CASE Receive \/ HandleRegister \/ SignalRead
  BY <1>1, <1>6 DEF Receive, HandleRegister, SignalRead
<1>7. CASE memory_read_cb
  <2>1. rx.at = "handle" /\ rx.pkt.kind = "event" /\ handler[rx.pkt.mod] = "memory_read_cb" /\ log' = log
    BY <1>7 DEF memory_read_cb, HasHandler
  <2>2. rx.pkt \in MamEvent
    BY <2>1, HandlerFits
  <2>3. Len(rx.pkt.words) \in Nat
    BY <2>2 DEF MamEvent
  <2>4. PICK d : mem_access' = [mem_access EXCEPT !.count = mem_access.count + Len(rx.pkt.words), !.data = d]
    BY <1>7 DEF memory_read_cb
  <2> DEFINE n == mem_access.count + Len(rx.pkt.words)
  <2>5. n \in Nat
    BY <2>3 DEF HostShape
  <2> HIDE DEF n
  <2>6. mem_access' = [mem_access EXCEPT !.count = n, !.data = d]
    BY <2>4 DEF n
  <2> QED BY <2>1, <2>5, <2>6 DEF HostShape
<1>8. CASE stm_log_handler
  <2>1. rx.at = "handle" /\ rx.pkt.kind = "event" /\ handler[rx.pkt.mod] = "stm_log_handler"
        /\ mem_access' = mem_access
        /\ log' = IF rx.pkt.overflow THEN [log EXCEPT !.misscount = @ + rx.pkt.v]
                  ELSE [lines |-> log.lines + 1, missed |-> log.missed + log.misscount, misscount |-> 0]
    BY <1>8 DEF stm_log_handler, HasHandler
  <2>2. rx.pkt \in StmEvent
    BY <2>1, HandlerFits
  <2>3. rx.pkt.v \in Nat
    BY <2>2 DEF StmEvent
  <2> QED BY <2>1, <2>3 DEF HostShape
<1>9. CASE ModuleStep \/ Sample
  BY <1>1, <1>9 DEF ModuleStep, Sample, RegAccess, MamCommand, MamWrite, MamRead, OverflowComplete,
                    Packetize, host
<1> QED BY <1>2, <1>3, <1>4, <1>5, <1>6, <1>7, <1>8, <1>9 DEF Next, ApiStep, RxStep

\* The links and the receiver keep their types, and no link holds too much.
LEMMA LinkShapeInv ==
  ASSUME IInv, Next
  PROVE  LinkShape'
<1> USE DEF IInv, Shape
<1>1. ASSUME rx' = rx, up' = up, down' = down PROVE LinkShape'
  BY <1>1 DEF LinkShape
<1>2. CASE Call
  BY <1>1, <1>2 DEF Call
<1>3. CASE RegLock \/ CondWait \/ RegReturn \/ WriteBulk \/ osd_module_register_handler \/ Result
           \/ FetchLock \/ FetchReturn
  BY <1>1, <1>3 DEF RegLock, CondWait, RegReturn, WriteBulk, osd_module_register_handler,
                    Result, FetchLock, FetchReturn
<1>4. ASSUME NEW m \in Module, NEW p \in DownPacket, Put(m, p), rx' = rx, up' = up PROVE LinkShape'
  <2>1. down' \in [Module -> Seq(DownPacket)] /\ \A x \in Module : Len(down'[x]) <= Depth
    BY <1>4, PutFacts
  <2> QED BY <1>4, <2>1 DEF LinkShape
<1>5. CASE RegSend
  BY <1>4, <1>5, SendFacts DEF RegSend
<1>6. CASE Send
  BY <1>4, <1>6, SendFacts, Constants DEF Send
<1>7. CASE FetchSend
  BY <1>4, <1>7, SendFacts, Constants DEF FetchSend
<1>8. CASE Receive
  <2>1. up \in Seq(UpPacket) /\ up # <<>> /\ rx' = [at |-> "handle", pkt |-> Head(up)]
        /\ up' = Tail(up) /\ down' = down /\ Len(up) <= Depth
    BY <1>8 DEF Receive, LinkShape
  <2>2. Head(up) \in UpPacket /\ up' \in Seq(UpPacket) /\ Len(up') <= Depth
    BY <2>1, TailPopped, Sizes DEF Popped
  <2> QED BY <2>1, <2>2 DEF LinkShape
<1>9. ASSUME Handled, up' = up, down' = down PROVE LinkShape'
  BY <1>9 DEF LinkShape, Handled
<1>10. CASE HandleRegister \/ SignalRead \/ stm_log_handler
  BY <1>9, <1>10 DEF HandleRegister, SignalRead, stm_log_handler
<1>11. CASE memory_read_cb
  <2>1. up' = up /\ down' = down /\ (rx' = [rx EXCEPT !.at = "signal"] \/ Handled)
    BY <1>11 DEF memory_read_cb
  <2>2. CASE rx' = [rx EXCEPT !.at = "signal"]
    BY <2>1, <2>2 DEF LinkShape
  <2> QED BY <1>9, <2>1, <2>2
<1>12. ASSUME NEW m \in Module, RegAccess(m) PROVE LinkShape'
  <2>1. rx' = rx /\ Take(m) /\ down[m] # <<>>
    BY <1>12 DEF RegAccess, host, AtModule
  <2>2. Answer \in UpPacket /\ Reply(Answer)
    BY <1>12, AccessFacts
  <2>3. down' \in [Module -> Seq(DownPacket)] /\ \A x \in Module : Len(down'[x]) <= Depth
    BY <2>1, TakeFacts
  <2>4. up' \in Seq(UpPacket) /\ Len(up') <= Depth
    BY <2>1, <2>2, InboxReply
  <2> QED BY <2>1, <2>3, <2>4 DEF LinkShape
<1>13. CASE MamCommand \/ MamWrite
  <2>1. rx' = rx /\ up' = up /\ Take(Mam) /\ down[Mam] # <<>>
    BY <1>13 DEF MamCommand, MamWrite, host, AtModule
  <2>2. down' \in [Module -> Seq(DownPacket)] /\ \A x \in Module : Len(down'[x]) <= Depth
    BY <2>1, TakeFacts, Constants
  <2> QED BY <2>1, <2>2 DEF LinkShape
<1>14. CASE MamRead
  <2>1. rx' = rx /\ down' = down /\ Reply(MamReply) /\ Reading
    BY <1>14 DEF MamRead, host, MamReply, Reading
  <2>2. MamReply \in UpPacket
    BY <2>1, MamReplyType DEF UpPacket
  <2>3. up' \in Seq(UpPacket) /\ Len(up') <= Depth
    BY <2>1, <2>2, InboxReply
  <2> QED BY <2>1, <2>3 DEF LinkShape
<1>15. CASE Packetize
  <2>1. rx' = rx /\ down' = down /\ stm.fifo # <<>> /\ Reply(Head(stm.fifo)) /\ stm.fifo \in Seq(StmEvent)
    BY <1>15 DEF Packetize, host, DeviceShape
  <2>2. Head(stm.fifo) \in UpPacket
    BY <2>1, TailPopped DEF UpPacket
  <2>3. up' \in Seq(UpPacket) /\ Len(up') <= Depth
    BY <2>1, <2>2, InboxReply
  <2> QED BY <2>1, <2>3 DEF LinkShape
<1>16. CASE OverflowComplete \/ Sample
  BY <1>1, <1>16 DEF OverflowComplete, Sample, host
<1> QED BY <1>2, <1>3, <1>5, <1>6, <1>7, <1>8, <1>10, <1>11, <1>12, <1>13, <1>14, <1>15, <1>16
        DEF Next, ApiStep, RxStep, ModuleStep

\* The modules keep their types.
LEMMA DeviceShapeInv ==
  ASSUME IInv, Next
  PROVE  DeviceShape'
<1> USE DEF IInv, Shape
<1>1. ASSUME rst_vector' = rst_vector, stall' = stall, mam' = mam, memory' = memory, stm' = stm,
             written' \in Bytes
      PROVE  DeviceShape'
  BY <1>1 DEF DeviceShape
<1>0. written \in Bytes
  BY DEF DeviceShape
<1>2. CASE Call
  <2>1. written' \in Bytes
    BY <1>2, CallEffect
  <2> QED BY <1>1, <1>2, <2>1 DEF Call, device
<1>3. CASE ApiStep
  BY <1>0, <1>1, <1>3 DEF ApiStep, RegLock, RegSend, CondWait, RegReturn, Send, WriteBulk,
     osd_module_register_handler, Result, FetchLock, FetchSend, FetchReturn, device
<1>4. CASE RxStep
  BY <1>0, <1>1, <1>4 DEF RxStep, Receive, HandleRegister, memory_read_cb, SignalRead,
     stm_log_handler, device
<1>5. ASSUME NEW m \in Module, RegAccess(m) PROVE DeviceShape'
  <2> DEFINE q == Head(down[m])
  <2>1. /\ rst_vector' = (IF q.write /\ q.r = "rst" THEN q.v ELSE rst_vector)
        /\ stall' = (IF q.write /\ q.r = "cs" THEN q.v = 1 ELSE stall)
        /\ mam' = mam /\ memory' = memory /\ stm' = stm /\ written' = written
    BY <1>5 DEF RegAccess
  <2>2. q = Request /\ Waiting("reg")
    BY <1>5, AccessFacts
  <2>3. Request \in RegRequest
    BY <2>2, AnswerFacts DEF Waiting, AtStep
  <2>4. q.v \in 0 .. 3
    BY <2>2, <2>3 DEF RegRequest
  <2> HIDE DEF q
  <2>5. rst_vector' \in 0 .. 3
    BY <2>1, <2>4 DEF DeviceShape
  <2>6. stall' \in BOOLEAN
    <3>1. CASE q.write /\ q.r = "cs"
      BY <2>1, <3>1
    <3>2. CASE ~(q.write /\ q.r = "cs")
      BY <2>1, <3>2 DEF DeviceShape
    <3> QED BY <3>1, <3>2
  <2> QED BY <2>1, <2>5, <2>6 DEF DeviceShape
<1>6. ASSUME down[Mam] # <<>>, Head(down[Mam]).kind = "plain"
      PROVE  Head(down[Mam]) \in MamPacket
  <2>1. down[Mam] \in Seq(DownPacket)
    BY Constants DEF LinkShape
  <2>2. Head(down[Mam]) \in DownPacket
    BY <1>6, <2>1, TailPopped
  <2> QED BY <1>6, <2>2, DownKinds DEF IsPlain
<1>7. CASE MamCommand
  <2> DEFINE q == Head(down[Mam])
  <2>1. q \in MamPacket
    BY <1>6, <1>7 DEF MamCommand, AtModule
  <2>2. /\ q.addr \in Nat /\ q.words \in Seq(Word) /\ q.beats \in Nat
    BY <2>1 DEF MamPacket
  <2>3. /\ rst_vector' = rst_vector /\ stall' = stall /\ stm' = stm /\ written' = written
        /\ IF q.cmd = "single"
           THEN /\ memory' = [b \in DOMAIN memory |->
                                 IF b - q.addr \in q.strb THEN Stored(q.addr, q.words)[b] ELSE memory[b]]
                /\ mam' = mam
           ELSE /\ mam' = [state |-> IF q.cmd = "get" THEN "READ" ELSE "WRITE",
                           addr |-> q.addr, flits |-> q.beats * (BlockSize \div 2)]
                /\ memory' = memory
    BY <1>7 DEF MamCommand
  <2> HIDE DEF q
  <2>4. memory \in Bytes
    BY DEF DeviceShape
  <2>5. CASE q.cmd = "single"
    <3> DEFINE s == Stored(q.addr, q.words)
    <3>1. s \in Bytes
      BY <2>2, <2>4, StoredType
    <3> HIDE DEF s
    <3>2. memory' = [b \in DOMAIN memory |-> IF b - q.addr \in q.strb THEN s[b] ELSE memory[b]]
      BY <2>3, <2>5 DEF s
    <3>3. memory' \in Bytes
      BY <2>4, <3>1, <3>2 DEF Bytes
    <3> QED BY <2>3, <2>5, <3>3 DEF DeviceShape
  <2>6. CASE q.cmd # "single"
    <3> DEFINE f == q.beats * (BlockSize \div 2)
    <3>1. f \in Nat
      <4>1. BlockSize \div 2 \in Nat
        BY Sizes
      <4> QED BY <2>2, <4>1
    <3> HIDE DEF f
    <3>2. mam' = [state |-> IF q.cmd = "get" THEN "READ" ELSE "WRITE", addr |-> q.addr, flits |-> f]
          /\ memory' = memory
      BY <2>3, <2>6 DEF f
    <3> QED BY <2>2, <2>3, <3>1, <3>2 DEF DeviceShape
  <2> QED BY <2>5, <2>6
<1>8. CASE MamWrite
  <2> DEFINE w == Head(down[Mam]).words
  <2>1. /\ rst_vector' = rst_vector /\ stall' = stall /\ stm' = stm /\ written' = written
        /\ memory' = Stored(mam.addr, w) /\ Advance(Len(w)) /\ mam.state = "WRITE"
    BY <1>8 DEF MamWrite
  <2>2. Head(down[Mam]) \in MamPacket
    BY <1>6, <1>8 DEF MamWrite, AtModule
  <2>3. w \in Seq(Word)
    BY <2>2 DEF MamPacket
  <2> HIDE DEF w
  <2>4. mam.addr \in Nat /\ memory \in Bytes /\ mam.flits \in Int /\ Len(w) \in Nat
    BY <2>3 DEF DeviceShape
  <2>5. memory' \in Bytes
    BY <2>1, <2>3, <2>4, StoredType
  <2>6. mam' = MamIdle \/ mam' = [mam EXCEPT !.addr = @ + 2 * Len(w), !.flits = @ - Len(w)]
    BY <2>1 DEF Advance
  <2>7. /\ mam' \in [state : {"INACTIVE", "WRITE", "READ"}, addr : Nat, flits : Int]
        /\ mam'.state # "WRITE" => mam'.flits \in Nat
    <3> DEFINE n == Len(w)
    <3>1. n \in Nat
      BY <2>4
    <3> HIDE DEF n
    <3>2. mam' = MamIdle \/ mam' = [mam EXCEPT !.addr = @ + 2 * n, !.flits = @ - n]
      BY <2>6 DEF n
    <3>3. CASE mam' = MamIdle
      BY <3>3 DEF MamIdle
    <3>4. CASE mam' = [mam EXCEPT !.addr = @ + 2 * n, !.flits = @ - n]
      <4>1. mam \in [state : {"INACTIVE", "WRITE", "READ"}, addr : Nat, flits : Int]
        BY DEF DeviceShape
      <4>2. /\ mam'.state = mam.state /\ mam'.addr = mam.addr + 2 * n /\ mam'.flits = mam.flits - n
            /\ mam' = [state |-> mam'.state, addr |-> mam'.addr, flits |-> mam'.flits]
        BY <3>4, <4>1
      <4>3. mam'.addr \in Nat /\ mam'.flits \in Int
        BY <2>4, <3>1, <4>2
      <4> QED BY <2>1, <4>1, <4>2, <4>3
    <3> QED BY <3>2, <3>3, <3>4
  <2> QED BY <2>1, <2>5, <2>7 DEF DeviceShape
<1>9. CASE MamRead
  <2>1. Reading
    BY <1>9 DEF MamRead, Reading
  <2>2. PICK n \in Nat \ {0} : /\ n <= mam.flits
                               /\ n = IF mam.flits < WordsPerPacket THEN mam.flits ELSE WordsPerPacket
    BY <2>1, MamReplyType
  <2>3. /\ rst_vector' = rst_vector /\ stall' = stall /\ stm' = stm /\ written' = written
        /\ memory' = memory /\ Advance(n)
    BY <1>9, <2>2 DEF MamRead
  <2>4. mam' = MamIdle \/ mam' = [mam EXCEPT !.addr = @ + 2 * n, !.flits = @ - n]
    BY <2>3 DEF Advance
  <2>5. mam.addr \in Nat /\ mam.flits \in Nat
    BY <2>1, ReadFacts
  <2>6. /\ mam' \in [state : {"INACTIVE", "WRITE", "READ"}, addr : Nat, flits : Int]
        /\ mam'.state # "WRITE" => mam'.flits \in Nat
    <3>3. CASE mam' = MamIdle
      BY <3>3 DEF MamIdle
    <3>4. CASE mam' = [mam EXCEPT !.addr = @ + 2 * n, !.flits = @ - n]
      <4>1. mam \in [state : {"INACTIVE", "WRITE", "READ"}, addr : Nat, flits : Int]
        BY DEF DeviceShape
      <4>2. /\ mam'.state = mam.state /\ mam'.addr = mam.addr + 2 * n /\ mam'.flits = mam.flits - n
            /\ mam' = [state |-> mam'.state, addr |-> mam'.addr, flits |-> mam'.flits]
        BY <3>4, <4>1
      <4>3. mam'.addr \in Nat /\ mam'.flits \in Int /\ mam'.flits \in Nat
        BY <2>2, <2>5, <4>2
      <4> QED BY <4>1, <4>2, <4>3
    <3> QED BY <2>4, <3>3, <3>4
  <2> QED BY <2>3, <2>6 DEF DeviceShape
<1>10. /\ stm \in [sampled : Nat, ov : 0 .. OvMax, fifo : Seq(StmEvent)]
       /\ stm.fifo \in Seq(StmEvent) /\ Len(stm.fifo) \in Nat /\ Len(stm.fifo) <= FifoDepth
       /\ stm.ov \in 0 .. OvMax /\ stm.sampled \in Nat
  BY DEF DeviceShape
<1>11. ASSUME NEW o \in BOOLEAN, NEW v \in Nat, Len(stm.fifo) < FifoDepth
       PROVE  /\ Append(stm.fifo, Event(o, v)) \in Seq(StmEvent)
              /\ Len(Append(stm.fifo, Event(o, v))) <= FifoDepth
  <2>1. Event(o, v) \in StmEvent
    BY DEF Event, StmEvent
  <2> QED BY <1>10, <1>11, <2>1, AppendPushed, Sizes DEF Pushed
<1>12. ASSUME rst_vector' = rst_vector, stall' = stall, mam' = mam, memory' = memory, written' = written,
              stm' \in [sampled : Nat, ov : 0 .. OvMax, fifo : Seq(StmEvent)],
              Len(stm'.fifo) <= FifoDepth
       PROVE  DeviceShape'
  BY <1>12 DEF DeviceShape
<1>13. CASE Sample
  <2> DEFINE e == stm.sampled + 1
             f == Append(stm.fifo, Event(FALSE, e))
             g == Append(stm.fifo, Event(TRUE, stm.ov))
  <2>1. /\ rst_vector' = rst_vector /\ stall' = stall /\ mam' = mam /\ memory' = memory /\ written' = written
        /\ stm' = IF ~(Len(stm.fifo) < FifoDepth)
                  THEN [stm EXCEPT !.sampled = e, !.ov = IF @ = OvMax THEN @ ELSE @ + 1]
                  ELSE IF stm.ov = 0 THEN [stm EXCEPT !.sampled = e, !.fifo = f]
                  ELSE [sampled |-> e, ov |-> 1, fifo |-> g]
    BY <1>13 DEF Sample, FifoReady
  <2>2. e \in Nat /\ stm.ov \in Nat
    BY <1>10, Sizes
  <2>3. Len(stm.fifo) < FifoDepth => /\ f \in Seq(StmEvent) /\ Len(f) <= FifoDepth
                                     /\ g \in Seq(StmEvent) /\ Len(g) <= FifoDepth
    BY <1>11, <2>2
  <2> HIDE DEF e, f, g
  <2>4. stm' \in [sampled : Nat, ov : 0 .. OvMax, fifo : Seq(StmEvent)] /\ Len(stm'.fifo) <= FifoDepth
    <3>1. CASE ~(Len(stm.fifo) < FifoDepth)
      <4>1. stm' = [stm EXCEPT !.sampled = e, !.ov = IF @ = OvMax THEN @ ELSE @ + 1]
        BY <2>1, <3>1
      <4>2. (IF stm.ov = OvMax THEN stm.ov ELSE stm.ov + 1) \in 0 .. OvMax
        BY <1>10, Sizes
      <4> QED BY <1>10, <2>2, <4>1, <4>2
    <3>2. CASE Len(stm.fifo) < FifoDepth /\ stm.ov = 0
      <4>1. stm' = [stm EXCEPT !.sampled = e, !.fifo = f]
        BY <2>1, <3>2
      <4> QED BY <1>10, <2>2, <2>3, <3>2, <4>1
    <3>3. CASE Len(stm.fifo) < FifoDepth /\ stm.ov # 0
      <4>1. stm' = [sampled |-> e, ov |-> 1, fifo |-> g]
        BY <2>1, <3>3
      <4>2. 1 \in 0 .. OvMax
        BY Sizes
      <4> QED BY <2>2, <2>3, <3>3, <4>1, <4>2
    <3> QED BY <3>1, <3>2, <3>3
  <2> QED BY <1>12, <2>1, <2>4
<1>14. CASE OverflowComplete
  <2> DEFINE g == Append(stm.fifo, Event(TRUE, stm.ov))
  <2>1. /\ rst_vector' = rst_vector /\ stall' = stall /\ mam' = mam /\ memory' = memory /\ written' = written
        /\ stm' = [stm EXCEPT !.ov = 0, !.fifo = g] /\ Len(stm.fifo) < FifoDepth
    BY <1>14 DEF OverflowComplete, FifoReady
  <2>2. stm.ov \in Nat
    BY <1>10, Sizes
  <2>3. g \in Seq(StmEvent) /\ Len(g) <= FifoDepth
    BY <1>11, <2>1, <2>2
  <2> HIDE DEF g
  <2>4. 0 \in 0 .. OvMax
    BY Sizes
  <2>5. stm' \in [sampled : Nat, ov : 0 .. OvMax, fifo : Seq(StmEvent)] /\ stm'.fifo = g
    BY <1>10, <2>1, <2>3, <2>4
  <2> QED BY <1>12, <2>1, <2>3, <2>5
<1>15. CASE Packetize
  <2> DEFINE g == Tail(stm.fifo)
  <2>1. /\ rst_vector' = rst_vector /\ stall' = stall /\ mam' = mam /\ memory' = memory /\ written' = written
        /\ stm' = [stm EXCEPT !.fifo = g] /\ stm.fifo # <<>>
    BY <1>15 DEF Packetize
  <2>2. g \in Seq(StmEvent) /\ Len(g) <= FifoDepth
    BY <1>10, <2>1, TailPopped, Sizes DEF Popped
  <2> HIDE DEF g
  <2>3. stm' \in [sampled : Nat, ov : 0 .. OvMax, fifo : Seq(StmEvent)] /\ stm'.fifo = g
    BY <1>10, <2>1, <2>2
  <2> QED BY <1>12, <2>1, <2>2, <2>3
<1> QED BY <1>2, <1>3, <1>4, <1>5, <1>7, <1>8, <1>9, <1>13, <1>14, <1>15 DEF Next, ModuleStep

(***************************************************************************)
(* The enumeration ends with the type of every module.                     *)
(***************************************************************************)

\* The receiver wakes the caller, or leaves it.
LEMMA SignalFacts ==
  ASSUME ApiShape, NEW k, Signal(k)
  PROVE  /\ api'.todo = api.todo /\ Step' = Step /\ api'.result = api.result
         /\ IF AtStep(k, "wait") THEN api'.pc = "woken" ELSE api' = api
<1>1. CASE AtStep(k, "wait")
  <2>1. Goto("woken")
    BY <1>1 DEF Signal
  <2> QED BY <1>1, <2>1, GotoFacts
<1>2. CASE ~AtStep(k, "wait")
  <2>1. api' = api
    BY <1>2 DEF Signal
  <2> QED BY <1>2, <2>1 DEF Step
<1> QED BY <1>1, <1>2

\* The receiver, the modules and the trace do not touch the steps of the call.
LEMMA OthersKeepSteps ==
  ASSUME ApiShape, RxStep \/ ModuleStep \/ Sample
  PROVE  /\ api'.todo = api.todo /\ Step' = Step /\ api'.result = api.result
         /\ connected' = connected /\ info' = info /\ handler' = handler /\ written' = written
<1>1. CASE HandleRegister
  BY <1>1, SignalFacts DEF HandleRegister
<1>2. CASE SignalRead
  BY <1>2, SignalFacts DEF SignalRead
<1>3. CASE Receive \/ memory_read_cb \/ stm_log_handler
  BY <1>3 DEF Receive, memory_read_cb, stm_log_handler, Step
<1>4. CASE ModuleStep \/ Sample
  <2>1. /\ api' = api /\ connected' = connected /\ info' = info /\ handler' = handler
        /\ written' = written
    BY <1>4 DEF ModuleStep, Sample, RegAccess, MamCommand, MamWrite, MamRead, OverflowComplete,
                Packetize, host
  <2> QED BY <2>1 DEF Step
<1> QED BY <1>1, <1>2, <1>3, <1>4 DEF RxStep

\* The enumeration stays in step.
LEMMA EnumerationInv ==
  ASSUME IInv, Next
  PROVE  Enumeration'
<1> USE DEF IInv, Shape
<1>1. ASSUME api'.todo = api.todo, connected' = connected, info' = info, handler' = handler
      PROVE  Enumeration'
  BY <1>1 DEF Enumeration, Enumerating
<1>2. CASE RxStep \/ ModuleStep \/ Sample
  BY <1>1, <1>2, OthersKeepSteps
<1>3. ASSUME connected, connected', info' = info, DOMAIN handler' = DOMAIN handler
      PROVE  Enumeration'
  BY <1>3 DEF Enumeration
<1>4. CASE Call
  <2>1. connected /\ connected' = connected /\ info' = info /\ handler' = handler
    BY <1>4 DEF Call
  <2> QED BY <1>3, <2>1
<1>5. CASE ApiStep /\ connected
  BY <1>3, <1>5 DEF ApiStep, RegLock, RegSend, CondWait, RegReturn, Send, WriteBulk,
     osd_module_register_handler, Result, FetchLock, FetchSend, FetchReturn
<1>6. CASE ApiStep /\ ~connected
  <2>1. api.todo # <<>> /\ Step.k = "reg"
    <3>1. api.todo \in Seq(ReadStep) /\ api.todo # <<>>
      BY <1>6, EnumSteps
    <3>2. Step \in ReadStep
      BY <3>1, TailPopped DEF Step
    <3> QED BY <3>1, <3>2 DEF ReadStep, RegStep
  <2>2. CASE RegReturn
    BY <1>6, <2>2, EnumReturn
  <2>3. CASE RegLock \/ RegSend \/ CondWait
    <3>1. /\ connected' = connected /\ info' = info /\ handler' = handler
          /\ Goto("locked") \/ Goto("sent") \/ Goto("wait")
      BY <2>3 DEF RegLock, RegSend, CondWait
    <3>2. api'.todo = api.todo
      BY <3>1, GotoFacts
    <3> QED BY <1>1, <3>1, <3>2
  <2>4. CASE Send \/ WriteBulk \/ osd_module_register_handler \/ Result \/ FetchLock \/ FetchSend
             \/ FetchReturn
    BY <2>1, <2>4 DEF Send, WriteBulk, osd_module_register_handler, Result, FetchLock, FetchSend,
       FetchReturn, AtStep
  <2> QED BY <1>6, <2>2, <2>3, <2>4 DEF ApiStep
<1> QED BY <1>2, <1>4, <1>5, <1>6 DEF Next

(***************************************************************************)
(* One register access at a time.                                          *)
(***************************************************************************)
NoReg == /\ \A m \in Module : \A i \in 1 .. Len(down[m]) : ~IsReg(down[m][i])
         /\ \A i \in 1 .. Len(Inbox) : ~IsReg(Inbox[i])

\* Of a register access, request or answer, only one is ever under way.
LEMMA OneAccessInv ==
  ASSUME IInv, Next
  PROVE  OneAccess'
<1> USE DEF IInv, Shape
<1>a. /\ Len(Inbox) \in Nat /\ down \in [Module -> Seq(DownPacket)]
      /\ \A m \in Module : Len(down[m]) \in Nat
  BY InboxType DEF LinkShape
<1>b. ~Waiting("reg") => NoReg
  BY DEF OneAccess, NoReg
\* Nothing of an access is under way after the step.
<1>1. ASSUME NoReg', ~AtStep("reg", "woken")' PROVE OneAccess'
  BY <1>1 DEF OneAccess, NoReg
\* The access is where it was.
<1>2. ASSUME Step' = Step, Waiting("reg")' <=> Waiting("reg"),
             AtStep("reg", "woken")' <=> AtStep("reg", "woken"), reg_access' = reg_access,
             down' = down, Inbox' = Inbox
      PROVE  OneAccess'
  <2>1. api.todo # <<>> /\ Step.k = "reg" => Answer' = Answer /\ Request' = Request
    BY <1>2, AnswerFacts
  <2>2. Waiting("reg") \/ AtStep("reg", "woken") => Answer' = Answer /\ Request' = Request
    BY <2>1 DEF Waiting, AtStep
  <2> QED BY <1>2, <2>2 DEF OneAccess
<1>3. ASSUME ~Waiting("reg"), api'.pc \in {"next", "locked"}, down' = down, Inbox' = Inbox
      PROVE  OneAccess'
  BY <1>1, <1>3, <1>b DEF NoReg, AtStep
<1>4. CASE Call
  <2>1. api.todo = <<>> /\ api' = [pc |-> "next", todo |-> api'.todo, result |-> NoResult]
    BY <1>4, CallEffect
  <2>2. down' = down /\ Inbox' = Inbox
    BY <1>4 DEF Call, Inbox
  <2>3. ~Waiting("reg") /\ api'.pc = "next"
    BY <2>1 DEF Waiting, AtStep
  <2> QED BY <1>3, <2>2, <2>3
<1>5. CASE RegLock \/ FetchLock
  <2>1. api.pc = "next" /\ Goto("locked") /\ down' = down /\ Inbox' = Inbox
    BY <1>5 DEF RegLock, FetchLock, AtStep, Inbox
  <2>2. ~Waiting("reg") /\ api'.pc = "locked"
    BY <2>1, GotoFacts DEF Waiting, AtStep
  <2> QED BY <1>3, <2>1, <2>2
<1>6. CASE RegReturn \/ FetchReturn
  <2>1. api.pc = "woken" /\ down' = down /\ Inbox' = Inbox
    BY <1>6 DEF RegReturn, FetchReturn, AtStep, Inbox
  <2>2. ~Waiting("reg")
    BY <2>1 DEF Waiting, AtStep
  <2>3. api'.pc = "next"
    <3>1. api = [pc |-> api.pc, todo |-> api.todo, result |-> api.result]
      BY DEF ApiShape
    <3> QED BY <1>6, <3>1 DEF RegReturn, FetchReturn, StepDone
  <2> QED BY <1>3, <2>1, <2>2, <2>3
<1>7. CASE WriteBulk \/ osd_module_register_handler \/ Result
  <2>1. api.pc = "next" /\ down' = down /\ Inbox' = Inbox
    BY <1>7 DEF WriteBulk, osd_module_register_handler, Result, AtStep, Inbox
  <2>2. ~Waiting("reg")
    BY <2>1 DEF Waiting, AtStep
  <2>3. api'.pc = "next"
    <3>1. api = [pc |-> api.pc, todo |-> api.todo, result |-> api.result]
      BY DEF ApiShape
    <3> QED BY <1>7, <2>1, <3>1 DEF WriteBulk, osd_module_register_handler, Result, StepDone
  <2> QED BY <1>3, <2>1, <2>2, <2>3
<1>8. ASSUME NEW p \in DownPacket, Put(Mam, p), ~IsReg(p), ~Waiting("reg"), ~AtStep("reg", "woken")',
             Inbox' = Inbox
      PROVE  OneAccess'
  <2>1. Pushed(down[Mam], p, down'[Mam]) /\ \A x \in Module \ {Mam} : down'[x] = down[x]
    BY <1>8, PutFacts, Constants
  <2>2. ASSUME NEW m \in Module, NEW i \in 1 .. Len(down'[m]) PROVE ~IsReg(down'[m][i])
    <3>1. CASE m = Mam
      <4>1. i \in 1 .. Len(down[Mam]) \/ i = Len(down[Mam]) + 1
        BY <1>a, <2>1, <2>2, <3>1 DEF Pushed
      <4> QED BY <1>8, <1>b, <2>1, <3>1, <4>1 DEF Pushed, NoReg
    <3>2. CASE m # Mam
      BY <1>8, <1>b, <2>1, <2>2, <3>2 DEF NoReg
    <3> QED BY <3>1, <3>2
  <2>3. NoReg'
    BY <1>8, <1>b, <2>2 DEF NoReg
  <2> QED BY <1>1, <1>8, <2>3
<1>9. CASE Send
  <2>1. api.pc = "next" /\ StepDone /\ Inbox' = Inbox
    BY <1>9 DEF Send, AtStep, Inbox
  <2>2. ~Waiting("reg") /\ api'.pc = "next"
    BY <2>1, DoneFacts DEF Waiting, AtStep
  <2>3. ~AtStep("reg", "woken")'
    BY <2>2 DEF AtStep
  <2> QED BY <1>8, <1>9, <2>1, <2>2, <2>3, SendFacts
<1>10. CASE FetchSend
  <2>1. Step.k = "fetch" /\ Goto("sent") /\ Inbox' = Inbox
    BY <1>10 DEF FetchSend, AtStep, Inbox
  <2>2. ~Waiting("reg") /\ api'.pc = "sent"
    BY <2>1, GotoFacts DEF Waiting, AtStep
  <2>3. ~AtStep("reg", "woken")'
    BY <2>2 DEF AtStep
  <2>4. PICK p \in MamPacket : Put(Mam, p) /\ IsGet(p) /\ p \in DownPacket
    BY <1>10, SendFacts
  <2>5. ~IsReg(p)
    BY <2>4, DownKinds DEF IsGet
  <2> QED BY <1>8, <2>1, <2>2, <2>3, <2>4, <2>5
<1>11. CASE RegSend
  <2>1. api.pc = "locked" /\ Goto("sent") /\ Inbox' = Inbox /\ api.todo # <<>> /\ Step.k = "reg"
    BY <1>11 DEF RegSend, AtStep, Inbox
  <2>2. ~Waiting("reg") /\ api'.pc = "sent" /\ api'.todo = api.todo /\ Step' = Step
    BY <2>1, GotoFacts DEF Waiting, AtStep
  <2>3. Waiting("reg")' /\ ~AtStep("reg", "woken")'
    BY <2>1, <2>2 DEF Waiting, AtStep
  <2>4. Request \in DownPacket /\ Step.m \in Module /\ Put(Step.m, Request)
    BY <1>11, SendFacts
  <2>5. Request' = Request
    BY <2>1, <2>2, AnswerFacts
  <2> DEFINE s == Step.m
  <2>6. Pushed(down[s], Request, down'[s]) /\ \A x \in Module \ {s} : down'[x] = down[x]
    BY <2>4, PutFacts
  <2>7. NoReg
    BY <1>b, <2>2
  <2>8. ASSUME NEW m \in Module, NEW i \in 1 .. Len(down'[m]), IsReg(down'[m][i])
        PROVE  m = s /\ i = Len(down[s]) + 1 /\ down'[m][i] = Request
    <3>1. m = s
      BY <2>6, <2>7, <2>8 DEF NoReg
    <3>2. i \in 1 .. Len(down[s]) \/ i = Len(down[s]) + 1
      BY <1>a, <2>4, <2>6, <2>8, <3>1 DEF Pushed
    <3> QED BY <2>6, <2>7, <2>8, <3>1, <3>2 DEF Pushed, NoReg
  <2>9. \A j \in 1 .. Len(Inbox') : ~IsReg(Inbox'[j])
    BY <2>1, <2>7 DEF NoReg
  <2>10. s = Step'.m
    BY <2>2
  <2> HIDE DEF s
  <2> QED BY <2>3, <2>5, <2>8, <2>9, <2>10 DEF OneAccess
<1>12. CASE CondWait
  <2>1. api.pc = "sent" /\ Goto("wait") /\ down' = down /\ Inbox' = Inbox /\ reg_access' = reg_access
    BY <1>12 DEF CondWait, AtStep, Inbox
  <2>2. api'.pc = "wait" /\ api'.todo = api.todo /\ Step' = Step
    BY <2>1, GotoFacts
  <2>3. (Waiting("reg")' <=> Waiting("reg")) /\ ~AtStep("reg", "woken")' /\ ~AtStep("reg", "woken")
    BY <2>1, <2>2 DEF Waiting, AtStep
  <2> QED BY <1>2, <2>1, <2>2, <2>3
<1>13. CASE Receive
  <2>1. api' = api /\ reg_access' = reg_access /\ down' = down
    BY <1>13 DEF Receive
  <2>2. Inbox' = Inbox
    BY <1>13, InboxReceive
  <2>3. Step' = Step /\ (Waiting("reg")' <=> Waiting("reg")) /\ (AtStep("reg", "woken")' <=> AtStep("reg", "woken"))
    BY <2>1 DEF Waiting, AtStep, Step
  <2> QED BY <1>2, <2>1, <2>2, <2>3
<1>14. CASE HandleRegister
  <2>1. /\ rx.at = "handle" /\ rx.pkt.kind = "reg" /\ ~Holds("reg") /\ reg_access' = rx.pkt
        /\ Signal("reg") /\ rx'.at # "handle" /\ up' = up /\ down' = down
    BY <1>14 DEF HandleRegister, Handled
  <2>2. Popped(Inbox, Inbox') /\ Inbox[1] = rx.pkt
    BY <2>1, InboxHandled
  <2>3. IsReg(Inbox[1]) /\ 1 \in 1 .. Len(Inbox)
    BY <2>1, <2>2 DEF IsReg, Popped
  <2>4. Waiting("reg") /\ Inbox[1] = Answer /\ \A j \in 1 .. Len(Inbox) : IsReg(Inbox[j]) => j = 1
    BY <2>3 DEF OneAccess
  <2>5. AtStep("reg", "wait")
    BY <2>1, <2>4 DEF Waiting, Holds
  <2>6. Step' = Step /\ api'.pc = "woken" /\ api'.todo = api.todo
    BY <2>1, <2>5, SignalFacts
  <2>7. reg_access' = Answer'
    BY <2>1, <2>2, <2>4, <2>5, <2>6, AnswerFacts DEF AtStep
  <2>8. \A j \in 1 .. Len(Inbox') : ~IsReg(Inbox'[j])
    <3> SUFFICES ASSUME NEW j \in 1 .. Len(Inbox'), IsReg(Inbox'[j]) PROVE FALSE
      OBVIOUS
    <3>1. j + 1 \in 1 .. Len(Inbox) /\ Inbox'[j] = Inbox[j + 1] /\ j + 1 # 1
      BY <2>2 DEF Popped
    <3> QED BY <2>4, <3>1
  <2>9. \A m \in Module : \A i \in 1 .. Len(down[m]) : ~IsReg(down[m][i])
    BY <2>3 DEF OneAccess
  <2> QED BY <2>1, <2>7, <2>8, <2>9 DEF OneAccess
<1>15. ASSUME NEW t, Popped(Inbox, t), Inbox' = t, ~IsReg(Inbox[1]), down' = down, reg_access' = reg_access,
              Step' = Step, Waiting("reg")' <=> Waiting("reg"),
              AtStep("reg", "woken")' <=> AtStep("reg", "woken")
       PROVE  OneAccess'
  <2>1. Waiting("reg") \/ AtStep("reg", "woken") => Answer' = Answer /\ Request' = Request
    BY <1>15, AnswerFacts DEF Waiting, AtStep
  <2>2. \A j \in 1 .. Len(t) : j + 1 \in 1 .. Len(Inbox) /\ t[j] = Inbox[j + 1]
    BY <1>15 DEF Popped
  <2>3. ASSUME NEW i \in 1 .. Len(t), IsReg(t[i])
        PROVE  /\ Waiting("reg") /\ t[i] = Answer
               /\ \A j \in 1 .. Len(t) : IsReg(t[j]) => j = i
    <3>1. i + 1 \in 1 .. Len(Inbox) /\ IsReg(Inbox[i + 1])
      BY <2>2, <2>3
    <3>2. /\ Waiting("reg") /\ Inbox[i + 1] = Answer
          /\ \A j \in 1 .. Len(Inbox) : IsReg(Inbox[j]) => j = i + 1
      BY <3>1 DEF OneAccess
    <3>3. ASSUME NEW j \in 1 .. Len(t), IsReg(t[j]) PROVE j = i
      <4>1. j + 1 = i + 1
        BY <2>2, <3>2, <3>3
      <4> QED BY <2>3, <3>3, <4>1
    <3> QED BY <2>2, <3>2, <3>3
  <2>4. ASSUME NEW m \in Module, NEW i \in 1 .. Len(down[m]), IsReg(down[m][i])
        PROVE  /\ Waiting("reg") /\ m = Step.m /\ down[m][i] = Request
               /\ \A j \in 1 .. Len(down[m]) : IsReg(down[m][j]) => j = i
               /\ \A j \in 1 .. Len(t) : ~IsReg(t[j])
    BY <2>2, <2>4 DEF OneAccess
  <2>5. AtStep("reg", "woken") => reg_access = Answer
    BY DEF OneAccess
  <2> QED BY <1>15, <2>1, <2>3, <2>4, <2>5 DEF OneAccess
<1>16. CASE memory_read_cb \/ stm_log_handler
  <2>1. /\ rx.at = "handle" /\ rx.pkt.kind = "event" /\ up' = up /\ down' = down
        /\ api' = api /\ reg_access' = reg_access
        /\ rx' = [rx EXCEPT !.at = "signal"] \/ Handled
    BY <1>16 DEF memory_read_cb, stm_log_handler, HasHandler
  <2>2. rx'.at # "handle"
    BY <2>1 DEF Handled, LinkShape
  <2>3. Popped(Inbox, Inbox') /\ ~IsReg(Inbox[1])
    BY <2>1, <2>2, InboxHandled DEF IsReg
  <2>4. Step' = Step /\ (Waiting("reg")' <=> Waiting("reg")) /\ (AtStep("reg", "woken")' <=> AtStep("reg", "woken"))
    BY <2>1 DEF Waiting, AtStep, Step
  <2> QED BY <1>15, <2>1, <2>3, <2>4
<1>17. CASE SignalRead
  <2>1. /\ rx.at = "signal" /\ Signal("fetch") /\ rx'.at = "read" /\ up' = up /\ down' = down
        /\ reg_access' = reg_access
    BY <1>17 DEF SignalRead, Handled
  <2>2. Inbox' = Inbox
    BY <2>1 DEF Inbox
  <2>3. Step' = Step /\ (Waiting("reg")' <=> Waiting("reg")) /\ (AtStep("reg", "woken")' <=> AtStep("reg", "woken"))
    <3>1. /\ api'.todo = api.todo /\ Step' = Step
          /\ IF AtStep("fetch", "wait") THEN api'.pc = "woken" ELSE api' = api
      BY <2>1, SignalFacts
    <3>2. CASE AtStep("fetch", "wait")
      BY <3>1, <3>2 DEF Waiting, AtStep
    <3>3. CASE ~AtStep("fetch", "wait")
      BY <3>1, <3>3 DEF Waiting, AtStep
    <3> QED BY <3>2, <3>3
  <2> QED BY <1>2, <2>1, <2>2, <2>3
<1>18. ASSUME NEW m \in Module, RegAccess(m) PROVE OneAccess'
  <2>1. /\ Waiting("reg") /\ m = Step.m /\ down[m][1] = Request /\ IsReg(down[m][1])
        /\ Answer \in UpPacket /\ IsReg(Answer) /\ Reply(Answer) /\ Popped(down[m], down'[m])
        /\ down' = [down EXCEPT ![m] = Tail(down[m])]
    BY <1>18, AccessFacts
  <2>2. rx' = rx /\ api' = api
    BY <1>18 DEF RegAccess, host
  <2>3. Pushed(Inbox, Answer, Inbox')
    BY <2>1, <2>2, InboxReply
  <2>4. Step' = Step /\ Waiting("reg")' /\ ~AtStep("reg", "woken")'
    BY <2>1, <2>2 DEF Waiting, AtStep, Step
  <2>5. Answer' = Answer
    BY <2>1, <2>4, AnswerFacts DEF Waiting, AtStep
  <2>6. 1 \in 1 .. Len(down[m])
    BY <2>1 DEF Popped
  <2>7. /\ \A j \in 1 .. Len(down[m]) : IsReg(down[m][j]) => j = 1
        /\ \A j \in 1 .. Len(Inbox) : ~IsReg(Inbox[j])
    BY <2>1, <2>6 DEF OneAccess
  <2>8. ASSUME NEW x \in Module, NEW i \in 1 .. Len(down'[x]) PROVE ~IsReg(down'[x][i])
    <3>1. CASE x = m
      <4>1. i + 1 \in 1 .. Len(down[m]) /\ down'[m][i] = down[m][i + 1] /\ i + 1 # 1
        BY <2>1, <2>8, <3>1 DEF Popped
      <4> QED BY <2>7, <3>1, <4>1
    <3>2. CASE x # m
      <4>1. down'[x] = down[x]
        BY <1>a, <2>1, <3>2
      <4> QED BY <2>1, <2>8, <3>2, <4>1 DEF OneAccess
    <3> QED BY <3>1, <3>2
  <2>9. ASSUME NEW i \in 1 .. Len(Inbox'), IsReg(Inbox'[i])
        PROVE  Inbox'[i] = Answer /\ i = Len(Inbox) + 1
    <3>1. i \in 1 .. Len(Inbox) \/ i = Len(Inbox) + 1
      BY <1>a, <2>3, <2>9 DEF Pushed
    <3> QED BY <2>3, <2>7, <2>9, <3>1 DEF Pushed
  <2> QED BY <2>4, <2>5, <2>8, <2>9 DEF OneAccess
<1>19. CASE MamCommand \/ MamWrite
  <2>1. /\ down[Mam] # <<>> /\ Head(down[Mam]).kind = "plain" /\ Take(Mam) /\ up' = up /\ rx' = rx
        /\ api' = api /\ reg_access' = reg_access
    BY <1>19 DEF MamCommand, MamWrite, AtModule, host
  <2>2. Inbox' = Inbox
    BY <2>1 DEF Inbox
  <2>3. Step' = Step /\ (Waiting("reg")' <=> Waiting("reg")) /\ (AtStep("reg", "woken")' <=> AtStep("reg", "woken"))
    BY <2>1 DEF Waiting, AtStep, Step
  <2>4. Popped(down[Mam], down'[Mam]) /\ \A x \in Module \ {Mam} : down'[x] = down[x]
    BY <2>1, TakeFacts, Constants
  <2>5. Waiting("reg") \/ AtStep("reg", "woken") => Answer' = Answer /\ Request' = Request
    BY <2>3, AnswerFacts DEF Waiting, AtStep
  <2>6. ASSUME NEW m \in Module, NEW i \in 1 .. Len(down'[m]), IsReg(down'[m][i])
        PROVE  /\ Waiting("reg") /\ m = Step.m /\ down'[m][i] = Request
               /\ \A j \in 1 .. Len(down'[m]) : IsReg(down'[m][j]) => j = i
               /\ \A j \in 1 .. Len(Inbox) : ~IsReg(Inbox[j])
    <3>1. CASE m = Mam
      <4>1. \A j \in 1 .. Len(down'[m]) : j + 1 \in 1 .. Len(down[m]) /\ down'[m][j] = down[m][j + 1]
        BY <2>4, <3>1 DEF Popped
      <4>2. i + 1 \in 1 .. Len(down[m]) /\ IsReg(down[m][i + 1])
        BY <2>6, <4>1
      <4>3. /\ Waiting("reg") /\ m = Step.m /\ down[m][i + 1] = Request
            /\ \A j \in 1 .. Len(down[m]) : IsReg(down[m][j]) => j = i + 1
            /\ \A j \in 1 .. Len(Inbox) : ~IsReg(Inbox[j])
        BY <4>2 DEF OneAccess
      <4>4. ASSUME NEW j \in 1 .. Len(down'[m]), IsReg(down'[m][j]) PROVE j = i
        <5>1. j + 1 = i + 1
          BY <4>1, <4>3, <4>4
        <5> QED BY <2>6, <4>4, <5>1
      <4> QED BY <4>1, <4>3, <4>4
    <3>2. CASE m # Mam
      <4>1. down'[m] = down[m]
        BY <2>4, <3>2
      <4> QED BY <2>6, <4>1 DEF OneAccess
    <3> QED BY <3>1, <3>2
  <2>7. /\ \A i \in 1 .. Len(Inbox) : IsReg(Inbox[i]) =>
              /\ Waiting("reg") /\ Inbox[i] = Answer
              /\ \A j \in 1 .. Len(Inbox) : IsReg(Inbox[j]) => j = i
        /\ AtStep("reg", "woken") => reg_access = Answer
    BY DEF OneAccess
  <2> QED BY <2>1, <2>2, <2>3, <2>5, <2>6, <2>7 DEF OneAccess
<1>20. ASSUME NEW p \in UpPacket, Reply(p), ~IsReg(p), rx' = rx, down' = down, api' = api, reg_access' = reg_access
       PROVE  OneAccess'
  <2>1. Pushed(Inbox, p, Inbox')
    BY <1>20, InboxReply
  <2>2. Step' = Step /\ (Waiting("reg")' <=> Waiting("reg")) /\ (AtStep("reg", "woken")' <=> AtStep("reg", "woken"))
    BY <1>20 DEF Waiting, AtStep, Step
  <2>3. Waiting("reg") \/ AtStep("reg", "woken") => Answer' = Answer /\ Request' = Request
    BY <2>2, AnswerFacts DEF Waiting, AtStep
  <2>4. \A i \in 1 .. Len(Inbox') : IsReg(Inbox'[i]) => i \in 1 .. Len(Inbox) /\ Inbox'[i] = Inbox[i]
    <3> SUFFICES ASSUME NEW i \in 1 .. Len(Inbox'), IsReg(Inbox'[i])
                 PROVE  i \in 1 .. Len(Inbox) /\ Inbox'[i] = Inbox[i]
      OBVIOUS
    <3>1. i \in 1 .. Len(Inbox) \/ i = Len(Inbox) + 1
      BY <1>a, <2>1 DEF Pushed
    <3> QED BY <1>20, <2>1, <3>1 DEF Pushed
  <2>5. /\ \A i \in 1 .. Len(Inbox) : IsReg(Inbox[i]) =>
              /\ Waiting("reg") /\ Inbox[i] = Answer
              /\ \A j \in 1 .. Len(Inbox) : IsReg(Inbox[j]) => j = i
        /\ AtStep("reg", "woken") => reg_access = Answer
        /\ \A m \in Module : \A i \in 1 .. Len(down[m]) : IsReg(down[m][i]) =>
              /\ Waiting("reg") /\ m = Step.m /\ down[m][i] = Request
              /\ \A j \in 1 .. Len(down[m]) : IsReg(down[m][j]) => j = i
              /\ \A j \in 1 .. Len(Inbox) : ~IsReg(Inbox[j])
    BY DEF OneAccess
  <2>6. \A i \in 1 .. Len(Inbox') : IsReg(Inbox'[i]) =>
              /\ Waiting("reg") /\ Inbox'[i] = Answer
              /\ \A j \in 1 .. Len(Inbox') : IsReg(Inbox'[j]) => j = i
    BY <2>4, <2>5
  <2>7. \A m \in Module : \A i \in 1 .. Len(down[m]) : IsReg(down[m][i]) =>
              /\ Waiting("reg") /\ m = Step.m /\ down[m][i] = Request
              /\ \A j \in 1 .. Len(down[m]) : IsReg(down[m][j]) => j = i
              /\ \A j \in 1 .. Len(Inbox') : ~IsReg(Inbox'[j])
    BY <2>4, <2>5
  <2> QED BY <1>20, <2>2, <2>3, <2>5, <2>6, <2>7 DEF OneAccess
<1>21. CASE MamRead
  <2>1. Reading /\ Reply(MamReply) /\ rx' = rx /\ down' = down /\ api' = api /\ reg_access' = reg_access
    BY <1>21 DEF MamRead, MamReply, Reading, host
  <2>2. MamReply \in MamEvent
    BY <2>1, MamReplyType
  <2>3. MamReply \in UpPacket /\ ~IsReg(MamReply)
    BY <2>2, UpKinds DEF UpPacket
  <2> QED BY <1>20, <2>1, <2>3
<1>22. CASE Packetize
  <2>1. /\ stm.fifo # <<>> /\ Reply(Head(stm.fifo)) /\ rx' = rx /\ down' = down /\ api' = api /\ reg_access' = reg_access
        /\ stm.fifo \in Seq(StmEvent)
    BY <1>22 DEF Packetize, host, DeviceShape
  <2>2. Head(stm.fifo) \in StmEvent
    BY <2>1, TailPopped
  <2>3. Head(stm.fifo) \in UpPacket /\ ~IsReg(Head(stm.fifo))
    BY <2>2, UpKinds DEF UpPacket
  <2> QED BY <1>20, <2>1, <2>3
<1>23. CASE OverflowComplete \/ Sample
  <2>1. api' = api /\ reg_access' = reg_access /\ down' = down /\ Inbox' = Inbox
    BY <1>23 DEF OverflowComplete, Sample, host, Inbox
  <2>2. Step' = Step /\ (Waiting("reg")' <=> Waiting("reg")) /\ (AtStep("reg", "woken")' <=> AtStep("reg", "woken"))
    BY <2>1 DEF Waiting, AtStep, Step
  <2> QED BY <1>2, <2>1, <2>2
<1> QED BY <1>4, <1>5, <1>6, <1>7, <1>9, <1>10, <1>11, <1>12, <1>13, <1>14, <1>16, <1>17, <1>18,
           <1>19, <1>21, <1>22, <1>23 DEF Next, ApiStep, RxStep, ModuleStep

(***************************************************************************)
(* Handlers are registered before there is anything to handle.             *)
(***************************************************************************)

\* Once the trace handler is registered, it stays.
LEMMA StmReadyStable ==
  ASSUME IInv, Next, StmReady
  PROVE  StmReady'
<1> USE DEF IInv, Shape
<1>0. connected /\ handler[Stm] = "stm_log_handler" /\ DOMAIN handler = Module
  BY DEF StmReady, Enumeration
<1>1. ASSUME connected' = connected, handler' = handler PROVE StmReady'
  BY <1>1 DEF StmReady
<1>2. CASE Call
  BY <1>1, <1>2 DEF Call
<1>3. CASE RxStep \/ ModuleStep \/ Sample
  BY <1>1, <1>3, OthersKeepSteps
<1>4. CASE RegLock \/ RegSend \/ CondWait \/ RegReturn \/ Send \/ WriteBulk \/ Result \/ FetchSend \/ FetchReturn
  BY <1>0, <1>1, <1>4 DEF RegLock, RegSend, CondWait, RegReturn, Send, WriteBulk, Result, FetchSend, FetchReturn
<1>5. CASE osd_module_register_handler
  <2>1. /\ api.todo # <<>> /\ Step.k = "handler" /\ connected' = connected
        /\ handler' = [handler EXCEPT ![Step.m] = Step.call]
    BY <1>5 DEF osd_module_register_handler, AtStep
  <2>2. Step \in HandlerStep
    BY <2>1, StepType, StepKinds
  <2>3. Step.call = "stm_log_handler"
    BY <2>2 DEF HandlerStep
  <2> QED BY <1>0, <2>1, <2>3 DEF StmReady
<1>6. CASE FetchLock
  <2>1. connected' = connected /\ handler' = [handler EXCEPT ![Mam] = "memory_read_cb"]
    BY <1>6 DEF FetchLock
  <2> QED BY <1>0, <2>1, Constants DEF StmReady
<1> QED BY <1>2, <1>3, <1>4, <1>5, <1>6 DEF Next, ApiStep

\* Registering it.
LEMMA Registered ==
  ASSUME IInv, osd_module_register_handler
  PROVE  StmReady'
<1> USE DEF IInv, Shape
<1>1. /\ api.todo # <<>> /\ Step.k = "handler" /\ connected' = connected
      /\ handler' = [handler EXCEPT ![Step.m] = Step.call]
  BY DEF osd_module_register_handler, AtStep
<1>2. Step \in HandlerStep
  BY <1>1, StepType, StepKinds
<1>3. Step.m = Stm /\ Step.call = "stm_log_handler"
  BY <1>2 DEF HandlerStep
<1>4. connected
  <2>1. 1 \in 1 .. Len(api.todo) /\ api.todo[1] = Step
    BY <1>1, StepType
  <2> QED BY <1>1, <2>1 DEF HandlersFirst
<1>5. DOMAIN handler = Module
  BY <1>4 DEF Enumeration
<1> QED BY <1>1, <1>3, <1>4, <1>5, Constants DEF StmReady

\* Of the steps left of a call, a module is unstalled only after its handler
\* is registered.
LEMMA UnstallInv ==
  ASSUME IInv, Next, Enumeration'
  PROVE  \A i \in 1 .. Len(api'.todo) : Unstall(api'.todo[i]) =>
            StmReady' \/ \E j \in 1 .. i - 1 : api'.todo[j].k = "handler"
<1> USE DEF IInv, Shape
<1>a. \A i \in 1 .. Len(api.todo) : Unstall(api.todo[i]) =>
         StmReady \/ \E j \in 1 .. i - 1 : api.todo[j].k = "handler"
  BY DEF HandlersFirst
<1>b. StmReady => StmReady'
  BY StmReadyStable
<1>1. ASSUME api'.todo = api.todo
      PROVE  \A i \in 1 .. Len(api'.todo) : Unstall(api'.todo[i]) =>
                StmReady' \/ \E j \in 1 .. i - 1 : api'.todo[j].k = "handler"
  BY <1>1, <1>a, <1>b
<1>2. ASSUME api'.todo = Tail(api.todo), api.todo # <<>>, StmReady' \/ Step.k # "handler"
      PROVE  \A i \in 1 .. Len(api'.todo) : Unstall(api'.todo[i]) =>
                StmReady' \/ \E j \in 1 .. i - 1 : api'.todo[j].k = "handler"
  <2>1. Popped(api.todo, api'.todo) /\ Step = api.todo[1]
    BY <1>2, StepType
  <2> SUFFICES ASSUME NEW i \in 1 .. Len(api'.todo), Unstall(api'.todo[i]), ~StmReady'
               PROVE  \E j \in 1 .. i - 1 : api'.todo[j].k = "handler"
    OBVIOUS
  <2>2. i + 1 \in 1 .. Len(api.todo) /\ api'.todo[i] = api.todo[i + 1]
    BY <2>1 DEF Popped
  <2>3. PICK j \in 1 .. (i + 1) - 1 : api.todo[j].k = "handler"
    BY <1>a, <1>b, <2>2
  <2>4. j # 1
    BY <1>2, <2>1, <2>3
  <2>5. j - 1 \in 1 .. i - 1 /\ j - 1 \in 1 .. Len(api'.todo) /\ (j - 1) + 1 = j
    BY <2>1, <2>2, <2>3, <2>4 DEF Popped
  <2>6. api'.todo[j - 1] = api.todo[j]
    BY <2>1, <2>5 DEF Popped
  <2> QED BY <2>3, <2>5, <2>6
<1>3. CASE Call
  BY <1>3, CallEffect
<1>4. CASE RxStep \/ ModuleStep \/ Sample
  BY <1>1, <1>4, OthersKeepSteps
<1>5. CASE RegReturn /\ ~connected
  <2>1. connected' => api'.todo = <<>>
    BY <1>5, EnumReturn
  <2>2. CASE connected'
    BY <2>1, <2>2
  <2>3. CASE ~connected'
    <3> DEFINE todo == api'.todo
    <3>1. \/ todo \in {osd_system_enumerate, Tail(osd_system_enumerate)}
          \/ \E k \in 1 .. Len(Type) + 1 :
                \/ todo = Remaining(k) /\ k <= Len(Type)
                \/ k > 1 /\ todo = <<osd_reg_read16(k - 1, "desc")>> \o Remaining(k)
      BY <2>3 DEF Enumeration, Enumerating
    <3> HIDE DEF todo
    <3>2. todo \in Seq(ReadStep)
      BY <3>1, EnumTodo
    <3>3. \A i \in 1 .. Len(todo) : ~Unstall(todo[i])
      BY <3>2, ElementOfSeq DEF ReadStep, Unstall, ReadReg
    <3> QED BY <3>3 DEF todo
  <2> QED BY <2>2, <2>3
<1>6. CASE RegReturn /\ connected
  <2>1. api.todo # <<>> /\ Step.k = "reg" /\ StepDone
    BY <1>6 DEF RegReturn, AtStep
  <2> QED BY <1>2, <2>1, DoneFacts
<1>7. CASE Send
  <2>1. api.todo # <<>> /\ Step.k = "send" /\ StepDone
    BY <1>7 DEF Send, AtStep
  <2> QED BY <1>2, <2>1, DoneFacts
<1>8. CASE osd_module_register_handler
  <2>1. api.todo # <<>> /\ StepDone
    BY <1>8 DEF osd_module_register_handler, AtStep
  <2> QED BY <1>2, <1>8, <2>1, DoneFacts, Registered
<1>9. CASE Result \/ FetchReturn
  <2>1. api.todo # <<>> /\ Step.k \in {"result", "fetch"} /\ api'.todo = Tail(api.todo)
    <3>1. api = [pc |-> api.pc, todo |-> api.todo, result |-> api.result]
      BY DEF ApiShape
    <3> QED BY <1>9, <3>1 DEF Result, FetchReturn, AtStep
  <2> QED BY <1>2, <2>1
<1>10. CASE RegLock \/ RegSend \/ CondWait \/ FetchLock \/ FetchSend
  <2>1. Goto("locked") \/ Goto("sent") \/ Goto("wait")
    BY <1>10 DEF RegLock, RegSend, CondWait, FetchLock, FetchSend
  <2> QED BY <1>1, <2>1, GotoFacts
<1>11. CASE WriteBulk
  <2> DEFINE b == memory_write_bulk(Step.addr, Step.bytes)
             t == Tail(api.todo)
             u == api'.todo
  <2>1. u = b \o t /\ b \in Seq(SendStep) /\ t \in Seq(AnyStep)
    BY <1>11, BulkEffect
  <2>2. api.todo # <<>> /\ Step.k = "bulk"
    BY <1>11 DEF WriteBulk, AtStep
  <2>3. Popped(api.todo, t) /\ Step = api.todo[1]
    BY <2>2, StepType
  <2> HIDE DEF b, t, u
  <2>4. b \in Seq(AnyStep) /\ Len(b) \in Nat /\ Len(t) \in Nat
    <3>1. SendStep \subseteq AnyStep
      BY DEF AnyStep
    <3> QED BY <2>1, <3>1, SeqMonotonic
  <2>5. /\ Len(u) = Len(b) + Len(t)
        /\ \A i \in 1 .. Len(b) + Len(t) : u[i] = IF i <= Len(b) THEN b[i] ELSE t[i - Len(b)]
    BY <2>1, <2>4, ConcatProperties
  <2>6. \A i \in 1 .. Len(b) : ~Unstall(b[i])
    BY <2>1, ElementOfSeq DEF SendStep, Unstall
  <2>7. ASSUME NEW i \in 1 .. Len(u), Unstall(u[i]), ~StmReady'
        PROVE  \E j \in 1 .. i - 1 : u[j].k = "handler"
    <3>1. i > Len(b)
      BY <2>4, <2>5, <2>6, <2>7
    <3> DEFINE x == i - Len(b)
    <3>a. i \in Nat /\ i <= Len(b) + Len(t) /\ i \in 1 .. Len(b) + Len(t)
      BY <2>4, <2>5, <2>7
    <3>b. x \in 1 .. Len(t)
      BY <2>4, <3>1, <3>a
    <3>c. u[i] = t[x]
      BY <2>4, <2>5, <3>1, <3>a
    <3> HIDE DEF x
    <3>2. x \in 1 .. Len(t) /\ u[i] = t[x] /\ x + 1 \in 1 .. Len(api.todo) /\ t[x] = api.todo[x + 1]
      BY <2>3, <3>b, <3>c DEF Popped
    <3>3. PICK j \in 1 .. (x + 1) - 1 : api.todo[j].k = "handler"
      BY <1>a, <1>b, <2>7, <3>2
    <3>4. j # 1
      BY <2>2, <2>3, <3>3
    <3>5. j - 1 \in 1 .. Len(t) /\ t[j - 1] = api.todo[j] /\ j - 1 < x
      <4>1. j - 1 \in 1 .. Len(t) /\ (j - 1) + 1 = j /\ j - 1 < x
        BY <2>4, <3>2, <3>3, <3>4
      <4>2. t[j - 1] = api.todo[(j - 1) + 1]
        BY <2>3, <4>1 DEF Popped
      <4> QED BY <4>1, <4>2
    <3> DEFINE y == Len(b) + j - 1
    <3>6. y \in 1 .. i - 1 /\ y \in 1 .. Len(b) + Len(t) /\ ~(y <= Len(b)) /\ y - Len(b) = j - 1
      BY <2>4, <2>5, <3>2, <3>3, <3>4, <3>5 DEF x
    <3>7. u[y] = t[j - 1]
      BY <2>5, <3>6
    <3> QED BY <3>3, <3>5, <3>6, <3>7
  <2> QED BY <2>7 DEF u
<1> QED BY <1>3, <1>4, <1>5, <1>6, <1>7, <1>8, <1>9, <1>10, <1>11 DEF Next, ApiStep

\* A module is unstalled, and traces, only once the handler is registered.
LEMMA TraceInv ==
  ASSUME IInv, Next
  PROVE  /\ (~stall \/ stm.ov > 0 \/ stm.fifo # <<>> => StmReady)'
         /\ (\A i \in 1 .. Len(Inbox) : IsStm(Inbox[i]) => StmReady)'
         /\ (\A m \in Module : \A i \in 1 .. Len(down[m]) :
                IsReg(down[m][i]) /\ down[m][i].r = "cs" => StmReady)'
<1> USE DEF IInv, Shape
<1>a. /\ ~stall \/ stm.ov > 0 \/ stm.fifo # <<>> => StmReady
      /\ \A i \in 1 .. Len(Inbox) : IsStm(Inbox[i]) => StmReady
      /\ \A m \in Module : \A i \in 1 .. Len(down[m]) :
            IsReg(down[m][i]) /\ down[m][i].r = "cs" => StmReady
  BY DEF HandlersFirst
<1>b. StmReady => StmReady'
  BY StmReadyStable
<1>c. /\ Len(Inbox) \in Nat /\ down \in [Module -> Seq(DownPacket)]
      /\ \A m \in Module : Len(down[m]) \in Nat
  BY InboxType DEF LinkShape
<1> SUFFICES ASSUME ~StmReady'
             PROVE  /\ stall' /\ ~(stm'.ov > 0) /\ stm'.fifo = <<>>
                    /\ \A i \in 1 .. Len(Inbox') : ~IsStm(Inbox'[i])
                    /\ \A m \in Module : \A i \in 1 .. Len(down'[m]) :
                          ~(IsReg(down'[m][i]) /\ down'[m][i].r = "cs")
  OBVIOUS
<1>d. /\ stall /\ ~(stm.ov > 0) /\ stm.fifo = <<>>
      /\ \A i \in 1 .. Len(Inbox) : ~IsStm(Inbox[i])
      /\ \A m \in Module : \A i \in 1 .. Len(down[m]) : ~(IsReg(down[m][i]) /\ down[m][i].r = "cs")
  BY <1>a, <1>b
<1> DEFINE Silent == /\ stall /\ ~(stm.ov > 0) /\ stm.fifo = <<>>
           Unheard == \A i \in 1 .. Len(Inbox) : ~IsStm(Inbox[i])
           Unasked == \A m \in Module : \A i \in 1 .. Len(down[m]) : ~(IsReg(down[m][i]) /\ down[m][i].r = "cs")
<1> SUFFICES Silent' /\ Unheard' /\ Unasked'
  OBVIOUS
<1>1. ASSUME stall' = stall, stm' = stm PROVE Silent'
  BY <1>1, <1>d
<1>2. ASSUME Inbox' = Inbox PROVE Unheard'
  BY <1>2, <1>d
<1>3. ASSUME down' = down PROVE Unasked'
  BY <1>3, <1>d
<1>4. ASSUME Popped(Inbox, Inbox') PROVE Unheard'
  BY <1>4, <1>d DEF Popped
<1>5. ASSUME NEW p, Pushed(Inbox, p, Inbox'), ~IsStm(p) PROVE Unheard'
  <2> SUFFICES ASSUME NEW i \in 1 .. Len(Inbox') PROVE ~IsStm(Inbox'[i])
    OBVIOUS
  <2>1. i \in 1 .. Len(Inbox) \/ i = Len(Inbox) + 1
    BY <1>5, <1>c DEF Pushed
  <2> QED BY <1>5, <1>d, <2>1 DEF Pushed
<1>6. ASSUME NEW m \in Module, Popped(down[m], down'[m]), \A x \in Module \ {m} : down'[x] = down[x]
      PROVE  Unasked'
  <2> SUFFICES ASSUME NEW x \in Module, NEW i \in 1 .. Len(down'[x])
               PROVE  ~(IsReg(down'[x][i]) /\ down'[x][i].r = "cs")
    OBVIOUS
  <2>1. CASE x = m
    <3>1. i + 1 \in 1 .. Len(down[m]) /\ down'[m][i] = down[m][i + 1]
      BY <1>6, <2>1 DEF Popped
    <3> QED BY <1>d, <2>1, <3>1
  <2>2. CASE x # m
    BY <1>6, <1>d, <2>2
  <2> QED BY <2>1, <2>2
<1>7. ASSUME NEW m \in Module, NEW p, Pushed(down[m], p, down'[m]), \A x \in Module \ {m} : down'[x] = down[x],
             ~(IsReg(p) /\ p.r = "cs")
      PROVE  Unasked'
  <2> SUFFICES ASSUME NEW x \in Module, NEW i \in 1 .. Len(down'[x])
               PROVE  ~(IsReg(down'[x][i]) /\ down'[x][i].r = "cs")
    OBVIOUS
  <2>1. CASE x = m
    <3>1. i \in 1 .. Len(down[m]) \/ i = Len(down[m]) + 1
      BY <1>7, <1>c, <2>1 DEF Pushed
    <3> QED BY <1>7, <1>d, <2>1, <3>1 DEF Pushed
  <2>2. CASE x # m
    BY <1>7, <1>d, <2>2
  <2> QED BY <2>1, <2>2
<1> HIDE DEF Silent, Unheard, Unasked
<1>8. CASE Call
  BY <1>1, <1>2, <1>3, <1>8 DEF Call, device, Inbox
<1>9. CASE RegLock \/ CondWait \/ RegReturn \/ WriteBulk \/ osd_module_register_handler \/ Result
           \/ FetchLock \/ FetchReturn
  BY <1>1, <1>2, <1>3, <1>9 DEF RegLock, CondWait, RegReturn, WriteBulk, osd_module_register_handler,
     Result, FetchLock, FetchReturn, device, Inbox
<1>10. CASE RegSend
  <2>1. stall' = stall /\ stm' = stm /\ Inbox' = Inbox /\ api.todo # <<>> /\ Step.k = "reg"
    BY <1>10 DEF RegSend, device, Inbox, AtStep
  <2>2. Request \in DownPacket /\ Step.m \in Module /\ Put(Step.m, Request)
    BY <1>10, SendFacts
  <2>3. ~Unstall(Step)
    <3>1. 1 \in 1 .. Len(api.todo) /\ api.todo[1] = Step
      BY <2>1, StepType
    <3>2. ~StmReady
      BY <1>b
    <3>3. ~ \E j \in 1 .. 1 - 1 : api.todo[j].k = "handler"
      OBVIOUS
    <3>4. Unstall(api.todo[1]) => StmReady \/ \E j \in 1 .. 1 - 1 : api.todo[j].k = "handler"
      BY <3>1 DEF HandlersFirst
    <3> QED BY <3>1, <3>2, <3>3, <3>4
  <2>4. ~(IsReg(Request) /\ Request.r = "cs")
    BY <2>1, <2>3 DEF Request, Unstall
  <2>5. /\ Pushed(down[Step.m], Request, down'[Step.m])
        /\ \A x \in Module \ {Step.m} : down'[x] = down[x]
    BY <2>2, PutFacts
  <2> QED BY <1>1, <1>2, <1>7, <2>1, <2>2, <2>4, <2>5
<1>11. ASSUME NEW p \in DownPacket, Put(Mam, p), ~IsReg(p) PROVE Unasked'
  BY <1>7, <1>11, PutFacts, Constants
<1>12. CASE Send
  <2>1. stall' = stall /\ stm' = stm /\ Inbox' = Inbox
    BY <1>12 DEF Send, device, Inbox
  <2> QED BY <1>1, <1>2, <1>11, <1>12, <2>1, SendFacts
<1>13. CASE FetchSend
  <2>1. stall' = stall /\ stm' = stm /\ Inbox' = Inbox
    BY <1>13 DEF FetchSend, device, Inbox
  <2>2. PICK p \in MamPacket : Put(Mam, p) /\ IsGet(p) /\ p \in DownPacket
    BY <1>13, SendFacts
  <2>3. ~IsReg(p)
    BY <2>2, DownKinds DEF IsGet
  <2> QED BY <1>1, <1>2, <1>11, <2>1, <2>2, <2>3
<1>14. CASE Receive
  BY <1>1, <1>2, <1>3, <1>14, InboxReceive DEF Receive, device
<1>15. CASE HandleRegister \/ memory_read_cb \/ stm_log_handler
  <2>1. /\ rx.at = "handle" /\ up' = up /\ down' = down /\ stall' = stall /\ stm' = stm
        /\ rx' = [rx EXCEPT !.at = "signal"] \/ Handled
    BY <1>15 DEF HandleRegister, memory_read_cb, stm_log_handler, HasHandler, device
  <2>2. rx'.at # "handle"
    BY <2>1 DEF Handled, LinkShape
  <2> QED BY <1>1, <1>3, <1>4, <2>1, <2>2, InboxHandled
<1>16. CASE SignalRead
  <2>1. rx.at = "signal" /\ rx'.at = "read" /\ up' = up /\ down' = down /\ stall' = stall /\ stm' = stm
    BY <1>16 DEF SignalRead, Handled, device
  <2>2. Inbox' = Inbox
    BY <2>1 DEF Inbox
  <2> QED BY <1>1, <1>2, <1>3, <2>1, <2>2
<1>17. ASSUME NEW m \in Module, RegAccess(m) PROVE Silent' /\ Unheard' /\ Unasked'
  <2>1. /\ down[m][1] = Request /\ IsReg(down[m][1]) /\ Head(down[m]) = Request /\ down[m] # <<>>
        /\ Answer \in UpPacket /\ IsReg(Answer) /\ Reply(Answer) /\ Popped(down[m], down'[m])
    BY <1>17, AccessFacts
  <2>2. rx' = rx /\ Take(m) /\ stm' = stm
        /\ stall' = IF Request.write /\ Request.r = "cs" THEN Request.v = 1 ELSE stall
    BY <1>17, <2>1 DEF RegAccess, host
  <2>3. 1 \in 1 .. Len(down[m])
    BY <2>1 DEF Popped
  <2>4. Request.r # "cs"
    BY <1>d, <2>1, <2>3
  <2>5. stall' = stall
    BY <2>2, <2>4
  <2>6. Pushed(Inbox, Answer, Inbox') /\ ~IsStm(Answer)
    BY <2>1, <2>2, InboxReply, UpKinds
  <2>7. \A x \in Module \ {m} : down'[x] = down[x]
    BY <2>1, <2>2, TakeFacts
  <2> QED BY <1>1, <1>5, <1>6, <2>1, <2>2, <2>5, <2>6, <2>7
<1>18. CASE MamCommand \/ MamWrite
  <2>1. down[Mam] # <<>> /\ Take(Mam) /\ Inbox' = Inbox /\ stall' = stall /\ stm' = stm
    BY <1>18 DEF MamCommand, MamWrite, AtModule, host, Inbox
  <2>2. Popped(down[Mam], down'[Mam]) /\ \A x \in Module \ {Mam} : down'[x] = down[x]
    BY <2>1, TakeFacts, Constants
  <2> QED BY <1>1, <1>2, <1>6, <2>1, <2>2, Constants
<1>19. CASE MamRead
  <2>1. Reading /\ Reply(MamReply) /\ rx' = rx /\ down' = down /\ stall' = stall /\ stm' = stm
    BY <1>19 DEF MamRead, MamReply, Reading, host
  <2>2. MamReply \in MamEvent
    BY <2>1, MamReplyType
  <2>3. MamReply \in UpPacket /\ ~IsStm(MamReply)
    BY <2>2, UpKinds DEF UpPacket
  <2> QED BY <1>1, <1>3, <1>5, <2>1, <2>3, InboxReply
<1>20. CASE OverflowComplete \/ Packetize \/ Sample
  BY <1>20, <1>d DEF OverflowComplete, Packetize, Sample
<1> QED BY <1>8, <1>9, <1>10, <1>12, <1>13, <1>14, <1>15, <1>16, <1>17, <1>18, <1>19, <1>20
        DEF Next, ApiStep, RxStep, ModuleStep

\* Handlers stay ahead of the events they handle.
LEMMA HandlersFirstInv ==
  ASSUME IInv, Next
  PROVE  HandlersFirst'
<1> USE DEF IInv, Shape
<1>0. Enumeration'
  BY EnumerationInv
<1>1. ASSUME ~connected'
      PROVE  \A i \in 1 .. Len(api'.todo) : api'.todo[i].k = "reg" /\ api'.todo[i].r \in ReadReg
  <2> DEFINE todo == api'.todo
  <2>1. \/ todo \in {osd_system_enumerate, Tail(osd_system_enumerate)}
        \/ \E k \in 1 .. Len(Type) + 1 :
              \/ todo = Remaining(k) /\ k <= Len(Type)
              \/ k > 1 /\ todo = <<osd_reg_read16(k - 1, "desc")>> \o Remaining(k)
    BY <1>0, <1>1 DEF Enumeration, Enumerating
  <2> HIDE DEF todo
  <2>2. todo \in Seq(ReadStep)
    BY <2>1, EnumTodo
  <2>3. \A i \in 1 .. Len(todo) : todo[i].k = "reg" /\ todo[i].r \in ReadReg
    BY <2>2, ElementOfSeq DEF ReadStep, RegStep
  <2> QED BY <2>3 DEF todo
<1>2. (api.todo # <<>> /\ Step.k = "fetch" /\ api.pc # "next" => handler[Mam] = "memory_read_cb")'
  <2>a. api.todo # <<>> /\ Step.k = "fetch" /\ api.pc # "next" => handler[Mam] = "memory_read_cb"
    BY DEF HandlersFirst
  <2>1. CASE api'.pc = "next"
    BY <2>1
  <2>2. ASSUME api'.todo = api.todo, Step' = Step, api.pc # "next", handler' = handler
        PROVE  (api.todo # <<>> /\ Step.k = "fetch" /\ api.pc # "next" => handler[Mam] = "memory_read_cb")'
    BY <2>2, <2>a
  <2>3. CASE Call
    <3>1. api' = [pc |-> "next", todo |-> api'.todo, result |-> NoResult]
      BY <2>3, CallEffect
    <3>2. api'.pc = "next"
      BY <3>1
    <3> QED BY <2>1, <3>2
  <2>4. CASE RegSend \/ CondWait \/ FetchSend
    <3>1. api.pc # "next" /\ handler' = handler /\ (Goto("sent") \/ Goto("wait"))
      BY <2>4 DEF RegSend, CondWait, FetchSend, AtStep
    <3>2. api'.todo = api.todo /\ Step' = Step
      BY <3>1, GotoFacts
    <3> QED BY <2>2, <3>1, <3>2
  <2>5. CASE RegLock
    <3>1. Step.k = "reg" /\ Goto("locked")
      BY <2>5 DEF RegLock, AtStep
    <3>2. Step' = Step
      BY <3>1, GotoFacts
    <3> QED BY <3>1, <3>2
  <2>6. CASE FetchLock
    <3>1. api.todo # <<>> /\ Step.k = "fetch" /\ handler' = [handler EXCEPT ![Mam] = "memory_read_cb"]
      BY <2>6 DEF FetchLock, AtStep
    <3>2. connected
      <4>1. 1 \in 1 .. Len(api.todo) /\ api.todo[1] = Step
        BY <3>1, StepType
      <4> QED BY <3>1, <4>1 DEF HandlersFirst
    <3>3. DOMAIN handler = Module
      BY <3>2 DEF Enumeration
    <3> QED BY <3>1, <3>3, Constants
  <2>7. CASE ApiStep /\ ~(RegSend \/ CondWait \/ FetchSend \/ RegLock \/ FetchLock)
    <3>1. api = [pc |-> api.pc, todo |-> api.todo, result |-> api.result]
      BY DEF ApiShape
    <3>2. api'.pc = "next"
      BY <2>7, <3>1 DEF ApiStep, RegReturn, Send, WriteBulk, osd_module_register_handler, Result, FetchReturn,
         StepDone, AtStep
    <3> QED BY <2>1, <3>2
  <2>8. CASE RxStep \/ ModuleStep \/ Sample
    <3>1. api'.todo = api.todo /\ Step' = Step /\ handler' = handler
      BY <2>8, OthersKeepSteps
    <3>2. CASE api.pc # "next"
      BY <2>2, <3>1, <3>2
    <3>3. CASE api.pc = "next"
      <4>1. api' = api
        <5>1. CASE HandleRegister
          BY <3>3, <5>1, SignalFacts DEF HandleRegister, AtStep
        <5>2. CASE SignalRead
          BY <3>3, <5>2, SignalFacts DEF SignalRead, AtStep
        <5>3. CASE Receive \/ memory_read_cb \/ stm_log_handler
          BY <5>3 DEF Receive, memory_read_cb, stm_log_handler
        <5>4. CASE ModuleStep \/ Sample
          BY <5>4 DEF ModuleStep, Sample, RegAccess, MamCommand, MamWrite, MamRead, OverflowComplete,
                      Packetize, host
        <5> QED BY <2>8, <5>1, <5>2, <5>3, <5>4 DEF RxStep
      <4> QED BY <2>1, <3>3, <4>1
    <3> QED BY <3>2, <3>3
  <2> QED BY <2>3, <2>4, <2>5, <2>6, <2>7, <2>8 DEF Next
<1>3. \A i \in 1 .. Len(api'.todo) : Unstall(api'.todo[i]) =>
         StmReady' \/ \E j \in 1 .. i - 1 : api'.todo[j].k = "handler"
  BY <1>0, UnstallInv
<1>4. /\ (~stall \/ stm.ov > 0 \/ stm.fifo # <<>> => StmReady)'
      /\ (\A i \in 1 .. Len(Inbox) : IsStm(Inbox[i]) => StmReady)'
      /\ (\A m \in Module : \A i \in 1 .. Len(down[m]) :
             IsReg(down[m][i]) /\ down[m][i].r = "cs" => StmReady)'
  BY TraceInv
<1> QED BY <1>1, <1>2, <1>3, <1>4 DEF HandlersFirst

(***************************************************************************)
(* No silent gap in the trace.                                             *)
(***************************************************************************)

\* What a packet adds to the events accounted for.
Accounts(a, p, b) == /\ ~IsStm(p) => b = a
                     /\ IsStm(p) /\ p.overflow => b = a + p.v
                     /\ IsStm(p) /\ ~p.overflow => p.v = a + 1 /\ b = a + 1

\* The ends of a chain are numbers of events.
LEMMA ChainEnds ==
  ASSUME NEW a, NEW b, NEW s, Len(s) \in Nat, Chained(a, s, b)
  PROVE  a \in Nat /\ b \in Nat
<1>1. PICK T : Gapless(T, s) /\ T[1] = a /\ T[Len(s) + 1] = b
  BY DEF Chained
<1>2. T \in [1 .. Len(s) + 1 -> Nat] /\ 1 \in 1 .. Len(s) + 1 /\ Len(s) + 1 \in 1 .. Len(s) + 1
  BY <1>1 DEF Gapless
<1> QED BY <1>1, <1>2

\* A chain without its first packet starts after what that packet accounts for.
LEMMA ChainPop ==
  ASSUME NEW a, NEW b, NEW s, NEW t, Popped(s, t), Chained(a, s, b)
  PROVE  \E c \in Nat : Chained(c, t, b) /\ Accounts(a, s[1], c)
<1>1. PICK T : Gapless(T, s) /\ T[1] = a /\ T[Len(s) + 1] = b
  BY DEF Chained
<1>2. Len(s) \in Nat \ {0} /\ Len(t) = Len(s) - 1 /\ \A i \in 1 .. Len(t) : t[i] = s[i + 1]
  BY DEF Popped
<1>3. /\ T \in [1 .. Len(s) + 1 -> Nat]
      /\ \A i \in 1 .. Len(s) : Accounts(T[i], s[i], T[i + 1])
  BY <1>1 DEF Gapless, Accounts
<1> DEFINE U == [i \in 1 .. Len(t) + 1 |-> T[i + 1]]
<1>4. U \in [1 .. Len(t) + 1 -> Nat] /\ \A i \in 1 .. Len(t) + 1 : U[i] = T[i + 1]
  BY <1>2, <1>3
<1> HIDE DEF U
<1>5. ASSUME NEW i \in 1 .. Len(t) PROVE Accounts(U[i], t[i], U[i + 1])
  <2>1. i + 1 \in 1 .. Len(s) /\ i \in 1 .. Len(t) + 1 /\ i + 1 \in 1 .. Len(t) + 1
    BY <1>2
  <2>2. U[i] = T[i + 1] /\ U[i + 1] = T[(i + 1) + 1] /\ t[i] = s[i + 1]
    BY <1>2, <1>4, <2>1
  <2>3. Accounts(T[i + 1], s[i + 1], T[(i + 1) + 1])
    BY <1>3, <2>1
  <2> QED BY <2>2, <2>3
<1>6. Gapless(U, t)
  BY <1>4, <1>5 DEF Gapless, Accounts
<1>7. U[1] = T[2] /\ U[Len(t) + 1] = b /\ T[2] \in Nat
  <2>1. 1 \in 1 .. Len(t) + 1 /\ Len(t) + 1 \in 1 .. Len(t) + 1 /\ (Len(t) + 1) + 1 = Len(s) + 1
        /\ 1 + 1 = 2 /\ 2 \in 1 .. Len(s) + 1
    BY <1>2
  <2>2. U[1] = T[1 + 1] /\ U[Len(t) + 1] = T[(Len(t) + 1) + 1]
    BY <1>4, <2>1
  <2>3. T[2] \in Nat
    BY <1>3, <2>1
  <2> QED BY <1>1, <2>1, <2>2, <2>3
<1>8. Chained(T[2], t, b)
  BY <1>6, <1>7 DEF Chained
<1>9. Accounts(a, s[1], T[2])
  <2>1. 1 \in 1 .. Len(s) /\ 1 + 1 = 2
    BY <1>2
  <2>2. Accounts(T[1], s[1], T[1 + 1])
    BY <1>3, <2>1
  <2> QED BY <1>1, <2>1, <2>2
<1> QED BY <1>7, <1>8, <1>9

\* A chain with one more packet ends after what that packet accounts for.
LEMMA ChainPush ==
  ASSUME NEW a, NEW b, NEW c \in Nat, NEW s, NEW p, NEW t, Pushed(s, p, t), Chained(a, s, b),
         Accounts(b, p, c)
  PROVE  Chained(a, t, c)
<1>1. PICK T : Gapless(T, s) /\ T[1] = a /\ T[Len(s) + 1] = b
  BY DEF Chained
<1>2. Len(s) \in Nat /\ Len(t) = Len(s) + 1 /\ t[Len(s) + 1] = p /\ \A i \in 1 .. Len(s) : t[i] = s[i]
  BY DEF Pushed
<1>3. /\ T \in [1 .. Len(s) + 1 -> Nat]
      /\ \A i \in 1 .. Len(s) : Accounts(T[i], s[i], T[i + 1])
  BY <1>1 DEF Gapless, Accounts
<1> DEFINE U == [i \in 1 .. Len(t) + 1 |-> IF i = Len(t) + 1 THEN c ELSE T[i]]
<1>4. /\ U \in [1 .. Len(t) + 1 -> Nat]
      /\ \A i \in 1 .. Len(s) + 1 : U[i] = T[i]
      /\ U[Len(t) + 1] = c
  BY <1>2, <1>3
<1> HIDE DEF U
<1>5. ASSUME NEW i \in 1 .. Len(t) PROVE Accounts(U[i], t[i], U[i + 1])
  <2>1. CASE i \in 1 .. Len(s)
    <3>1. i \in 1 .. Len(s) + 1 /\ i + 1 \in 1 .. Len(s) + 1
      BY <1>2, <2>1
    <3>2. U[i] = T[i] /\ U[i + 1] = T[i + 1] /\ t[i] = s[i]
      BY <1>2, <1>4, <2>1, <3>1
    <3> QED BY <1>3, <2>1, <3>2
  <2>2. CASE i = Len(s) + 1
    <3>1. i \in 1 .. Len(s) + 1 /\ i + 1 = Len(t) + 1
      BY <1>2, <2>2
    <3>2. U[i] = b /\ U[i + 1] = c /\ t[i] = p
      BY <1>1, <1>2, <1>4, <2>2, <3>1
    <3> QED BY <3>2
  <2> QED BY <1>2, <2>1, <2>2
<1>6. Gapless(U, t)
  BY <1>4, <1>5 DEF Gapless, Accounts
<1>7. U[1] = a
  <2>1. 1 \in 1 .. Len(s) + 1
    BY <1>2
  <2> QED BY <1>1, <1>4, <2>1
<1> QED BY <1>4, <1>6, <1>7 DEF Chained

\* No packets account for nothing.
LEMMA ChainNil ==
  ASSUME NEW a \in Nat
  PROVE  Chained(a, <<>>, a)
<1> DEFINE U == [i \in 1 .. 1 |-> a]
<1>1. Len(<<>>) = 0
  OBVIOUS
<1>2. U \in [1 .. Len(<<>>) + 1 -> Nat] /\ U[1] = a /\ U[Len(<<>>) + 1] = a
  BY <1>1
<1>3. Gapless(U, <<>>)
  BY <1>1, <1>2 DEF Gapless
<1> QED BY <1>2, <1>3 DEF Chained

\* Every event sampled stays accounted for, in order.
LEMMA NoGapInv ==
  ASSUME IInv, Next
  PROVE  NoGap'
<1> USE DEF IInv, Shape
<1> SUFFICES ASSUME OvMax >= MaxEvents
             PROVE  /\ stm'.sampled <= MaxEvents
                    /\ \E n \in Nat : /\ Chained(log'.lines + log'.missed + log'.misscount, Inbox', n)
                                      /\ Chained(n, stm'.fifo, stm'.sampled - stm'.ov)
  BY DEF NoGap
<1> DEFINE a == log.lines + log.missed + log.misscount
           d == stm.sampled - stm.ov
<1>1. PICK n \in Nat : Chained(a, Inbox, n) /\ Chained(n, stm.fifo, d)
  BY DEF NoGap
<1>2. stm.sampled <= MaxEvents
  BY DEF NoGap
<1>3. /\ stm \in [sampled : Nat, ov : 0 .. OvMax, fifo : Seq(StmEvent)]
      /\ stm.sampled \in Nat /\ stm.ov \in Nat /\ stm.fifo \in Seq(StmEvent) /\ Len(stm.fifo) \in Nat
      /\ log \in [lines : Nat, missed : Nat, misscount : Nat]
  BY Sizes DEF DeviceShape, HostShape
<1>4. a \in Nat /\ d \in Nat
  BY <1>1, <1>3, ChainEnds
<1> DEFINE Goal == /\ stm'.sampled <= MaxEvents
                   /\ \E x \in Nat : /\ Chained(log'.lines + log'.missed + log'.misscount, Inbox', x)
                                     /\ Chained(x, stm'.fifo, stm'.sampled - stm'.ov)
<1> SUFFICES Goal
  OBVIOUS
<1>5. ASSUME log' = log, stm' = stm, NEW x \in Nat, Chained(a, Inbox', x), x = n PROVE Goal
  BY <1>1, <1>2, <1>5
<1>6. ASSUME log' = log, stm' = stm, Inbox' = Inbox PROVE Goal
  BY <1>1, <1>5, <1>6
<1>7. ASSUME log' = log, stm' = stm, Popped(Inbox, Inbox'), ~IsStm(Inbox[1]) PROVE Goal
  <2>1. PICK c \in Nat : Chained(c, Inbox', n) /\ Accounts(a, Inbox[1], c)
    BY <1>1, <1>7, ChainPop
  <2>2. c = a
    BY <1>7, <2>1 DEF Accounts
  <2> QED BY <1>5, <1>7, <2>1, <2>2
<1>8. ASSUME log' = log, stm' = stm, NEW p, Pushed(Inbox, p, Inbox'), ~IsStm(p) PROVE Goal
  <2>1. Accounts(n, p, n)
    BY <1>8 DEF Accounts
  <2>2. Chained(a, Inbox', n)
    BY <1>1, <1>8, <2>1, ChainPush
  <2> QED BY <1>5, <1>8, <2>2
<1>9. ASSUME NEW e \in Nat, NEW f \in Nat, log' = log, Inbox' = Inbox, stm'.sampled = e, stm'.ov = f, e <= MaxEvents,
             Chained(n, stm'.fifo, e - f)
      PROVE  Goal
  BY <1>1, <1>9
<1> HIDE DEF Goal
<1>10. CASE Call
  BY <1>6, <1>10 DEF Call, device, Inbox
<1>11. CASE ApiStep
  BY <1>6, <1>11 DEF ApiStep, RegLock, RegSend, CondWait, RegReturn, Send, WriteBulk,
     osd_module_register_handler, Result, FetchLock, FetchSend, FetchReturn, device, Inbox
<1>12. CASE Receive
  BY <1>6, <1>12, InboxReceive DEF Receive, device
<1>13. CASE HandleRegister \/ memory_read_cb
  <2>1. /\ rx.at = "handle" /\ up' = up /\ log' = log /\ stm' = stm
        /\ rx' = [rx EXCEPT !.at = "signal"] \/ Handled
        /\ rx.pkt.kind = "reg" \/ (rx.pkt.kind = "event" /\ handler[rx.pkt.mod] = "memory_read_cb")
    BY <1>13 DEF HandleRegister, memory_read_cb, HasHandler, device
  <2>2. rx'.at # "handle"
    BY <2>1 DEF Handled, LinkShape
  <2>3. Popped(Inbox, Inbox') /\ Inbox[1] = rx.pkt
    BY <2>1, <2>2, InboxHandled
  <2>4. ~IsStm(rx.pkt)
    <3>1. CASE rx.pkt.kind = "reg"
      BY <3>1 DEF IsStm
    <3>2. CASE rx.pkt.kind = "event" /\ handler[rx.pkt.mod] = "memory_read_cb"
      <4>1. rx.pkt \in UpPacket
        BY <2>1 DEF LinkShape
      <4> QED BY <2>1, <3>2, <4>1, HandlerFits, UpKinds
    <3> QED BY <2>1, <3>1, <3>2
  <2> QED BY <1>7, <2>1, <2>3, <2>4
<1>14. CASE SignalRead
  <2>1. rx.at = "signal" /\ rx'.at = "read" /\ up' = up /\ log' = log /\ stm' = stm
    BY <1>14 DEF SignalRead, Handled, device
  <2>2. Inbox' = Inbox
    BY <2>1 DEF Inbox
  <2> QED BY <1>6, <2>1, <2>2
<1>15. CASE stm_log_handler
  <2>1. /\ rx.at = "handle" /\ up' = up /\ stm' = stm /\ Handled /\ rx.pkt.kind = "event"
        /\ handler[rx.pkt.mod] = "stm_log_handler"
        /\ log' = IF rx.pkt.overflow THEN [log EXCEPT !.misscount = @ + rx.pkt.v]
                  ELSE [lines |-> log.lines + 1, missed |-> log.missed + log.misscount, misscount |-> 0]
    BY <1>15 DEF stm_log_handler, HasHandler, device
  <2>2. rx'.at # "handle"
    BY <2>1 DEF Handled
  <2>3. Popped(Inbox, Inbox') /\ Inbox[1] = rx.pkt
    BY <2>1, <2>2, InboxHandled
  <2>4. IsStm(rx.pkt) /\ rx.pkt.v \in Nat
    BY <2>1, HandlerFits DEF StmEvent
  <2>5. PICK c \in Nat : Chained(c, Inbox', n) /\ Accounts(a, Inbox[1], c)
    BY <1>1, <2>3, ChainPop
  <2>6. log'.lines + log'.missed + log'.misscount = c
    <3>1. CASE rx.pkt.overflow
      <4>1. log' = [log EXCEPT !.misscount = @ + rx.pkt.v] /\ c = a + rx.pkt.v
        BY <2>1, <2>3, <2>4, <2>5, <3>1 DEF Accounts
      <4>2. log'.lines = log.lines /\ log'.missed = log.missed /\ log'.misscount = log.misscount + rx.pkt.v
        BY <1>3, <4>1
      <4> QED BY <1>3, <2>4, <4>1, <4>2
    <3>2. CASE ~rx.pkt.overflow
      <4>1. log' = [lines |-> log.lines + 1, missed |-> log.missed + log.misscount, misscount |-> 0] /\ c = a + 1
        BY <2>1, <2>3, <2>4, <2>5, <3>2 DEF Accounts
      <4>2. log'.lines = log.lines + 1 /\ log'.missed = log.missed + log.misscount /\ log'.misscount = 0
        BY <4>1
      <4>3. log.lines \in Nat /\ log.missed \in Nat /\ log.misscount \in Nat
        BY <1>3
      <4> QED BY <4>1, <4>2, <4>3
    <3> QED BY <3>1, <3>2
  <2> QED BY <1>1, <1>2, <2>1, <2>5, <2>6 DEF Goal
<1>16. ASSUME NEW m \in Module, RegAccess(m) PROVE Goal
  <2>1. Answer \in UpPacket /\ IsReg(Answer) /\ Reply(Answer)
    BY <1>16, AccessFacts
  <2>2. rx' = rx /\ log' = log /\ stm' = stm
    BY <1>16 DEF RegAccess, host
  <2>3. Pushed(Inbox, Answer, Inbox') /\ ~IsStm(Answer)
    BY <2>1, <2>2, InboxReply, UpKinds
  <2> QED BY <1>8, <2>2, <2>3
<1>17. CASE MamCommand \/ MamWrite
  BY <1>6, <1>17 DEF MamCommand, MamWrite, host, Inbox
<1>18. CASE MamRead
  <2>1. Reading /\ Reply(MamReply) /\ rx' = rx /\ log' = log /\ stm' = stm
    BY <1>18 DEF MamRead, MamReply, Reading, host
  <2>2. MamReply \in MamEvent
    BY <2>1, MamReplyType
  <2>3. MamReply \in UpPacket /\ ~IsStm(MamReply)
    BY <2>2, UpKinds DEF UpPacket
  <2>4. Pushed(Inbox, MamReply, Inbox')
    BY <2>1, <2>3, InboxReply
  <2> QED BY <1>8, <2>1, <2>3, <2>4
<1>19. ASSUME NEW o \in BOOLEAN, NEW v \in Nat
       PROVE  /\ Pushed(stm.fifo, Event(o, v), Append(stm.fifo, Event(o, v)))
              /\ IsStm(Event(o, v)) /\ Event(o, v).overflow = o /\ Event(o, v).v = v
  <2>1. Event(o, v) \in StmEvent /\ IsStm(Event(o, v)) /\ Event(o, v).overflow = o /\ Event(o, v).v = v
    BY DEF Event, StmEvent, IsStm
  <2> QED BY <1>3, <2>1, AppendPushed
<1>20. CASE OverflowComplete
  <2> DEFINE g == Append(stm.fifo, Event(TRUE, stm.ov))
  <2>1. log' = log /\ Inbox' = Inbox /\ stm' = [stm EXCEPT !.ov = 0, !.fifo = g]
    BY <1>20 DEF OverflowComplete, host, Inbox
  <2>2. /\ Pushed(stm.fifo, Event(TRUE, stm.ov), g) /\ IsStm(Event(TRUE, stm.ov))
        /\ Event(TRUE, stm.ov).overflow = TRUE /\ Event(TRUE, stm.ov).v = stm.ov
    BY <1>3, <1>19
  <2>3. Accounts(d, Event(TRUE, stm.ov), stm.sampled)
    <3>1. stm.sampled = d + stm.ov
      BY <1>3
    <3> HIDE DEF d
    <3> QED BY <2>2, <3>1 DEF Accounts
  <2>4. Chained(n, g, stm.sampled)
    <3> DEFINE s == stm.fifo
               p == Event(TRUE, stm.ov)
               c == stm.sampled
               x == g
    <3>1. c \in Nat /\ Pushed(s, p, x) /\ Chained(n, s, d) /\ Accounts(d, p, c)
      BY <1>1, <1>3, <2>2, <2>3
    <3> HIDE DEF s, p, c, x, d
    <3>2. Chained(n, x, c)
      BY <3>1, ChainPush
    <3> QED BY <3>2 DEF x, c
  <2> HIDE DEF g
  <2>5. stm'.sampled = stm.sampled /\ stm'.ov = 0 /\ stm'.fifo = g /\ stm.sampled - 0 = stm.sampled /\ 0 \in Nat
    BY <1>3, <2>1
  <2> QED BY <1>2, <1>3, <1>9, <2>1, <2>4, <2>5
<1>21. CASE Packetize
  <2> DEFINE p == Head(stm.fifo)
             g == Tail(stm.fifo)
  <2>1. stm.fifo # <<>> /\ Reply(p) /\ rx' = rx /\ log' = log /\ stm' = [stm EXCEPT !.fifo = g]
    BY <1>21 DEF Packetize, host
  <2>2. Popped(stm.fifo, g) /\ p = stm.fifo[1] /\ p \in StmEvent
    BY <1>3, <2>1, TailPopped
  <2>3. PICK c \in Nat : Chained(c, g, d) /\ Accounts(n, p, c)
    BY <1>1, <2>2, ChainPop
  <2>4. Pushed(Inbox, p, Inbox')
    BY <2>1, <2>2, InboxReply DEF UpPacket
  <2> HIDE DEF p, g
  <2>5. Chained(a, Inbox', c)
    BY <1>1, <2>3, <2>4, ChainPush
  <2>6. stm'.sampled = stm.sampled /\ stm'.ov = stm.ov /\ stm'.fifo = g
    BY <1>3, <2>1
  <2> QED BY <1>2, <2>1, <2>3, <2>5, <2>6 DEF Goal
<1>22. CASE Sample
  <2> DEFINE e == stm.sampled + 1
             f == Append(stm.fifo, Event(FALSE, e))
             g == Append(stm.fifo, Event(TRUE, stm.ov))
  <2>1. /\ log' = log /\ Inbox' = Inbox /\ stm.sampled < MaxEvents
        /\ stm' = IF ~(Len(stm.fifo) < FifoDepth)
                  THEN [stm EXCEPT !.sampled = e, !.ov = IF @ = OvMax THEN @ ELSE @ + 1]
                  ELSE IF stm.ov = 0 THEN [stm EXCEPT !.sampled = e, !.fifo = f]
                  ELSE [sampled |-> e, ov |-> 1, fifo |-> g]
    BY <1>22 DEF Sample, FifoReady, host, Inbox
  <2>a. stm.sampled < MaxEvents /\ stm.sampled \in Nat /\ stm.ov \in Nat /\ MaxEvents \in Nat /\ OvMax \in Nat
    BY <1>3, <1>22, Sizes DEF Sample
  <2>2. e \in Nat /\ e <= MaxEvents
    BY <2>a
  <2>3. stm.ov # OvMax
    <3>1. stm.ov <= stm.sampled
      BY <1>4, <2>a
    <3> QED BY <2>a, <3>1
  <2>4. CASE ~(Len(stm.fifo) < FifoDepth)
    <3>1. stm' = [stm EXCEPT !.sampled = e, !.ov = stm.ov + 1]
      BY <2>1, <2>3, <2>4
    <3> HIDE DEF e, f, g
    <3>2. stm'.sampled = e /\ stm'.ov = stm.ov + 1 /\ stm'.fifo = stm.fifo
      BY <1>3, <3>1
    <3>3. e - (stm.ov + 1) = d /\ stm.ov + 1 \in Nat
      BY <1>3 DEF e
    <3> QED BY <1>1, <1>9, <2>1, <2>2, <3>2, <3>3
  <2>5. CASE Len(stm.fifo) < FifoDepth /\ stm.ov = 0
    <3>1. stm' = [stm EXCEPT !.sampled = e, !.fifo = f]
      BY <2>1, <2>5
    <3>2. /\ Pushed(stm.fifo, Event(FALSE, e), f) /\ IsStm(Event(FALSE, e))
          /\ Event(FALSE, e).overflow = FALSE /\ Event(FALSE, e).v = e
      BY <1>19, <2>2
    <3>3. Accounts(d, Event(FALSE, e), e)
      <4>1. e = d + 1
        BY <1>3, <2>5
      <4> HIDE DEF e, d
      <4> QED BY <3>2, <4>1 DEF Accounts
    <3>4. Chained(n, f, e)
      <4> DEFINE s == stm.fifo
                 p == Event(FALSE, e)
                 c == e
                 x == f
      <4>1. c \in Nat /\ Pushed(s, p, x) /\ Chained(n, s, d) /\ Accounts(d, p, c)
        BY <1>1, <2>2, <3>2, <3>3
      <4> HIDE DEF s, p, c, x, d
      <4>2. Chained(n, x, c)
        BY <4>1, ChainPush
      <4> QED BY <4>2 DEF x, c
    <3> HIDE DEF e, f, g
    <3>5. stm'.sampled = e /\ stm'.ov = 0 /\ stm'.fifo = f /\ e - 0 = e /\ 0 \in Nat
      BY <1>3, <2>2, <2>5, <3>1
    <3> QED BY <1>9, <2>1, <2>2, <3>4, <3>5
  <2>6. CASE Len(stm.fifo) < FifoDepth /\ stm.ov # 0
    <3>1. stm' = [sampled |-> e, ov |-> 1, fifo |-> g]
      BY <2>1, <2>6
    <3>2. /\ Pushed(stm.fifo, Event(TRUE, stm.ov), g) /\ IsStm(Event(TRUE, stm.ov))
          /\ Event(TRUE, stm.ov).overflow = TRUE /\ Event(TRUE, stm.ov).v = stm.ov
      BY <1>3, <1>19
    <3>3. Accounts(d, Event(TRUE, stm.ov), stm.sampled)
      <4>1. stm.sampled = d + stm.ov
        BY <1>3
      <4> HIDE DEF d
      <4> QED BY <3>2, <4>1 DEF Accounts
    <3>4. Chained(n, g, stm.sampled)
      <4> DEFINE s == stm.fifo
                 p == Event(TRUE, stm.ov)
                 c == stm.sampled
                 x == g
      <4>1. c \in Nat /\ Pushed(s, p, x) /\ Chained(n, s, d) /\ Accounts(d, p, c)
        BY <1>1, <1>3, <3>2, <3>3
      <4> HIDE DEF s, p, c, x, d
      <4>2. Chained(n, x, c)
        BY <4>1, ChainPush
      <4> QED BY <4>2 DEF x, c
    <3>5. e - 1 = stm.sampled /\ 1 \in Nat
      BY <1>3
    <3> HIDE DEF e, f, g
    <3>6. stm'.sampled = e /\ stm'.ov = 1 /\ stm'.fifo = g
      BY <3>1
    <3> QED BY <1>9, <2>1, <2>2, <3>4, <3>5, <3>6
  <2> QED BY <2>4, <2>5, <2>6
<1> QED BY <1>10, <1>11, <1>12, <1>13, <1>14, <1>15, <1>16, <1>17, <1>18, <1>20, <1>21, <1>22
        DEF Next, RxStep, ModuleStep

(***************************************************************************)
(* One fetch at a time.                                                    *)
(***************************************************************************)

\* Without its first packet, a queue brings the words after that packet.
LEMMA BroughtPop ==
  ASSUME NEW T, NEW s, NEW t, NEW base, NEW mem, Popped(s, t), Brought(T, s, base, mem)
  PROVE  /\ Adds(T[1], s[1], T[2], base, mem) /\ T[2] \in Nat /\ T[1] <= T[2]
         /\ \E U : Brought(U, t, base, mem) /\ U[1] = T[2] /\ U[Len(t) + 1] = T[Len(s) + 1]
<1>1. Len(s) \in Nat \ {0} /\ Len(t) = Len(s) - 1 /\ \A i \in 1 .. Len(t) : t[i] = s[i + 1]
  BY DEF Popped
<1>2. /\ T \in [1 .. Len(s) + 1 -> Nat]
      /\ \A i, j \in 1 .. Len(s) + 1 : i <= j => T[i] <= T[j]
      /\ \A i \in 1 .. Len(s) : Adds(T[i], s[i], T[i + 1], base, mem)
  BY DEF Brought
<1> DEFINE U == [i \in 1 .. Len(t) + 1 |-> T[i + 1]]
<1>3. U \in [1 .. Len(t) + 1 -> Nat] /\ \A i \in 1 .. Len(t) + 1 : U[i] = T[i + 1]
  BY <1>1, <1>2
<1> HIDE DEF U
<1>4. ASSUME NEW i \in 1 .. Len(t) PROVE Adds(U[i], t[i], U[i + 1], base, mem)
  <2>1. i + 1 \in 1 .. Len(s) /\ i \in 1 .. Len(t) + 1 /\ i + 1 \in 1 .. Len(t) + 1
    BY <1>1
  <2>2. U[i] = T[i + 1] /\ U[i + 1] = T[(i + 1) + 1] /\ t[i] = s[i + 1]
    BY <1>1, <1>3, <2>1
  <2>3. Adds(T[i + 1], s[i + 1], T[(i + 1) + 1], base, mem)
    BY <1>2, <2>1
  <2> QED BY <2>2, <2>3
<1>5. ASSUME NEW i \in 1 .. Len(t) + 1, NEW j \in 1 .. Len(t) + 1, i <= j PROVE U[i] <= U[j]
  <2>1. i + 1 \in 1 .. Len(s) + 1 /\ j + 1 \in 1 .. Len(s) + 1 /\ i + 1 <= j + 1
    BY <1>1, <1>5
  <2> QED BY <1>2, <1>3, <2>1
<1>6. Brought(U, t, base, mem)
  BY <1>3, <1>4, <1>5 DEF Brought
<1>7. /\ 1 \in 1 .. Len(t) + 1 /\ Len(t) + 1 \in 1 .. Len(t) + 1 /\ (Len(t) + 1) + 1 = Len(s) + 1
      /\ 1 + 1 = 2 /\ 2 \in 1 .. Len(s) + 1 /\ 1 \in 1 .. Len(s) + 1 /\ 1 \in 1 .. Len(s)
  BY <1>1
<1>8. U[1] = T[1 + 1] /\ U[Len(t) + 1] = T[(Len(t) + 1) + 1]
  BY <1>3, <1>7
<1>9. Adds(T[1], s[1], T[1 + 1], base, mem) /\ T[2] \in Nat /\ T[1] <= T[2]
  BY <1>2, <1>7
<1> QED BY <1>6, <1>7, <1>8, <1>9

\* With one more packet, a queue brings that packet's words after the others.
LEMMA BroughtPush ==
  ASSUME NEW T, NEW s, NEW p, NEW t, NEW base, NEW mem, NEW c \in Nat,
         Pushed(s, p, t), Brought(T, s, base, mem),
         Adds(T[Len(s) + 1], p, c, base, mem), T[Len(s) + 1] <= c
  PROVE  \E U : Brought(U, t, base, mem) /\ U[1] = T[1] /\ U[Len(t) + 1] = c
<1>1. Len(s) \in Nat /\ Len(t) = Len(s) + 1 /\ t[Len(s) + 1] = p /\ \A i \in 1 .. Len(s) : t[i] = s[i]
  BY DEF Pushed
<1>2. /\ T \in [1 .. Len(s) + 1 -> Nat]
      /\ \A i, j \in 1 .. Len(s) + 1 : i <= j => T[i] <= T[j]
      /\ \A i \in 1 .. Len(s) : Adds(T[i], s[i], T[i + 1], base, mem)
  BY DEF Brought
<1> DEFINE U == [i \in 1 .. Len(t) + 1 |-> IF i = Len(t) + 1 THEN c ELSE T[i]]
<1>3. /\ U \in [1 .. Len(t) + 1 -> Nat]
      /\ \A i \in 1 .. Len(s) + 1 : U[i] = T[i]
      /\ U[Len(t) + 1] = c
  BY <1>1, <1>2
<1> HIDE DEF U
<1>4. ASSUME NEW i \in 1 .. Len(t) PROVE Adds(U[i], t[i], U[i + 1], base, mem)
  <2>1. CASE i \in 1 .. Len(s)
    <3>1. i \in 1 .. Len(s) + 1 /\ i + 1 \in 1 .. Len(s) + 1
      BY <1>1, <2>1
    <3>2. U[i] = T[i] /\ U[i + 1] = T[i + 1] /\ t[i] = s[i]
      BY <1>1, <1>3, <2>1, <3>1
    <3> QED BY <1>2, <2>1, <3>2
  <2>2. CASE i = Len(s) + 1
    <3>1. i \in 1 .. Len(s) + 1 /\ i + 1 = Len(t) + 1
      BY <1>1, <2>2
    <3>2. U[i] = T[Len(s) + 1] /\ U[i + 1] = c /\ t[i] = p
      BY <1>1, <1>3, <2>2, <3>1
    <3> QED BY <3>2
  <2> QED BY <1>1, <2>1, <2>2
<1>5. ASSUME NEW i \in 1 .. Len(t) + 1, NEW j \in 1 .. Len(t) + 1, i <= j PROVE U[i] <= U[j]
  <2>1. CASE j \in 1 .. Len(s) + 1
    <3>1. i \in 1 .. Len(s) + 1
      BY <1>1, <1>5, <2>1
    <3> QED BY <1>2, <1>3, <1>5, <2>1, <3>1
  <2>2. CASE j = Len(t) + 1 /\ i \in 1 .. Len(s) + 1
    <3>1. Len(s) + 1 \in 1 .. Len(s) + 1 /\ i <= Len(s) + 1
      BY <1>1, <2>2
    <3>2. T[i] <= T[Len(s) + 1] /\ T[i] \in Nat /\ T[Len(s) + 1] \in Nat
      BY <1>2, <2>2, <3>1
    <3> QED BY <1>3, <2>2, <3>2
  <2>3. CASE j = Len(t) + 1 /\ i = Len(t) + 1
    BY <1>3, <2>3
  <2> QED BY <1>1, <1>5, <2>1, <2>2, <2>3
<1>6. Brought(U, t, base, mem)
  BY <1>3, <1>4, <1>5 DEF Brought
<1>7. U[1] = T[1]
  <2>1. 1 \in 1 .. Len(s) + 1
    BY <1>1
  <2> QED BY <1>3, <2>1
<1> QED BY <1>3, <1>6, <1>7

\* A fetch that has all its words has none under way.
LEMMA FlowDone ==
  ASSUME Shape, OneFetch, NEW T, Flow(T), mem_access.count = mem_access.size \div 2
  PROVE  ~Reading /\ \A i \in 1 .. Len(Inbox) : ~IsMam(Inbox[i])
<1>0. Len(Inbox) \in Nat /\ \A i \in 1 .. Len(Inbox) : Inbox[i] \in UpPacket
  BY InboxType DEF Shape
<1> DEFINE N == Len(Inbox)
<1>1. /\ T \in [1 .. N + 1 -> Nat] /\ \A i, j \in 1 .. N + 1 : i <= j => T[i] <= T[j]
      /\ \A i \in 1 .. N : Adds(T[i], Inbox[i], T[i + 1], Step.addr, memory)
      /\ T[1] = mem_access.count /\ T[N + 1] + Left = mem_access.size \div 2
  BY DEF Flow, Brought
<1>2. mem_access.count \in Nat /\ (Reading => mam.flits > 0 /\ mam.flits \in Nat)
  BY DEF Shape, HostShape, DeviceShape, OneFetch, Reading
<1> HIDE DEF N
<1>3. T[1] <= T[N + 1] /\ T[1] \in Nat /\ T[N + 1] \in Nat
  BY <1>0, <1>1 DEF N
<1>4. ~Reading /\ T[1] = T[N + 1]
  BY <1>1, <1>2, <1>3 DEF Left
<1>5. ASSUME NEW i \in 1 .. N, IsMam(Inbox[i]) PROVE FALSE
  <2>1. Inbox[i] \in MamEvent
    BY <1>0, <1>5, UpKinds DEF N
  <2>2. Inbox[i].words \in Seq(Word) /\ Inbox[i].words # <<>>
    BY <2>1 DEF MamEvent
  <2>3. Len(Inbox[i].words) \in Nat \ {0}
    BY <2>2, EmptySeq
  <2>4. T[i + 1] = T[i] + Len(Inbox[i].words)
    BY <1>1, <1>5 DEF Adds
  <2>5. /\ i \in 1 .. N + 1 /\ i + 1 \in 1 .. N + 1 /\ 1 \in 1 .. N + 1 /\ N + 1 \in 1 .. N + 1
        /\ 1 <= i /\ i + 1 <= N + 1
    BY <1>0, <1>5 DEF N
  <2>6. T[1] <= T[i] /\ T[i + 1] <= T[N + 1] /\ T[i] \in Nat /\ T[i + 1] \in Nat
    BY <1>1, <2>5
  <2> QED BY <1>3, <1>4, <2>3, <2>4, <2>6
<1> QED BY <1>4, <1>5 DEF N

InFetch == api.todo # <<>> /\ Step.k = "fetch" /\ api.pc # "next"

\* The caller is where it was in its fetch.
SameFetch == /\ Step' = Step /\ (InFetch' <=> InFetch) /\ (Waiting("fetch")' <=> Waiting("fetch"))
             /\ AtStep("fetch", "locked")' <=> AtStep("fetch", "locked")
             /\ AtStep("fetch", "woken")' <=> AtStep("fetch", "woken")

\* The access module finds the packets to it as it expects them; OneFetch is
\* kept as long as it does.
LEMMA OneFetchInv ==
  ASSUME IInv, Next, MamFraming
  PROVE  OneFetch'
<1> USE DEF IInv, Shape
<1> DEFINE D == down[Mam]
<1>a. /\ ~Waiting("fetch") => Quiet /\ ~Pending
      /\ \A i \in 1 .. Len(D) : IsGet(D[i]) =>
            /\ i = Len(D) /\ Quiet /\ mem_access.count = 0
            /\ D[i].addr = Step.addr /\ D[i].beats = Step.n \div BlockSize
      /\ InFetch => mem_access.size = Step.n
      /\ AtStep("fetch", "locked") => mem_access.count = 0
      /\ AtStep("fetch", "woken") \/ (Waiting("fetch") /\ ~Pending) =>
            /\ mam.state # "WRITE" /\ \A i \in 1 .. Len(D) : ~IsPlain(D[i])
            /\ \E T : Flow(T)
      /\ rx.at = "signal" \/ AtStep("fetch", "woken") => mem_access.count = mem_access.size \div 2
      /\ Reading => mam.flits > 0
      /\ mem_access.count <= mem_access.size \div 2
  BY DEF OneFetch, InFetch
<1>b. /\ Len(Inbox) \in Nat /\ (\A i \in 1 .. Len(Inbox) : Inbox[i] \in UpPacket)
      /\ D \in Seq(DownPacket) /\ Len(D) \in Nat /\ \A i \in 1 .. Len(D) : D[i] \in DownPacket
      /\ down \in [Module -> Seq(DownPacket)]
  BY InboxType, Constants DEF LinkShape
<1>c. mem_access.count \in Nat /\ mem_access.size \in Nat
  BY DEF HostShape
<1>d. Pending <=> \E i \in 1 .. Len(D) : IsGet(D[i])
  BY DEF Pending
<1>e. Pending' <=> \E i \in 1 .. Len(D') : IsGet(D'[i])
  BY DEF Pending
<1>f. Quiet' <=> ~Reading' /\ rx'.at # "signal" /\ \A i \in 1 .. Len(Inbox') : ~IsMam(Inbox'[i])
  BY DEF Quiet
\* The conjuncts after the step.
<1>g. ASSUME /\ ~Waiting("fetch")' => Quiet' /\ ~Pending'
             /\ \A i \in 1 .. Len(D') : IsGet(D'[i]) =>
                   /\ i = Len(D') /\ Quiet' /\ mem_access'.count = 0
                   /\ D'[i].addr = Step'.addr /\ D'[i].beats = Step'.n \div BlockSize
             /\ InFetch' => mem_access'.size = Step'.n
             /\ AtStep("fetch", "locked")' => mem_access'.count = 0
             /\ AtStep("fetch", "woken")' \/ (Waiting("fetch")' /\ ~Pending') =>
                   /\ mam'.state # "WRITE" /\ \A i \in 1 .. Len(D') : ~IsPlain(D'[i])
                   /\ \E T : Flow(T)'
             /\ rx'.at = "signal" \/ AtStep("fetch", "woken")' => mem_access'.count = mem_access'.size \div 2
             /\ Reading' => mam'.flits > 0
             /\ mem_access'.count <= mem_access'.size \div 2
      PROVE  OneFetch'
  BY <1>g DEF OneFetch, InFetch
<1>h. InFetch <=> AtStep("fetch", "locked") \/ Waiting("fetch") \/ AtStep("fetch", "woken")
  BY DEF InFetch, AtStep, Waiting, ApiShape
<1> HIDE DEF D
\* No fetch, before and after.
<1>1. ASSUME ~Waiting("fetch"), ~Waiting("fetch")', ~InFetch', ~AtStep("fetch", "locked")',
             ~AtStep("fetch", "woken")',
             mam' = mam, rx' = rx, Inbox' = Inbox, \A i \in 1 .. Len(D') : ~IsGet(D'[i]),
             mem_access'.count = mem_access.count, mem_access'.size = mem_access.size
      PROVE  OneFetch'
  <2>1. Quiet' /\ ~Pending'
    BY <1>1, <1>a, <1>e, <1>f DEF Quiet, Reading
  <2>2. rx'.at # "signal"
    BY <2>1, <1>f
  <2>3. Reading' => mam'.flits > 0
    BY <1>1, <1>a DEF Reading
  <2> QED BY <1>1, <1>a, <1>g, <2>1, <2>2, <2>3
<1>2. ASSUME api.pc # "wait", api.pc # "sent", api'.pc = "next" \/ (Step' = Step /\ Step.k = "reg"),
             mam' = mam, rx' = rx, Inbox' = Inbox,
             D' = D \/ (\E p \in DownPacket : Pushed(D, p, D') /\ ~IsGet(p)),
             mem_access'.count = mem_access.count, mem_access'.size = mem_access.size
      PROVE  OneFetch'
  <2>1. /\ ~Waiting("fetch") /\ ~Waiting("fetch")' /\ ~InFetch' /\ ~AtStep("fetch", "locked")'
        /\ ~AtStep("fetch", "woken")'
    BY <1>2 DEF Waiting, AtStep, InFetch
  <2>2. \A i \in 1 .. Len(D) : ~IsGet(D[i])
    BY <1>a, <1>d, <2>1
  <2>3. ASSUME NEW i \in 1 .. Len(D') PROVE ~IsGet(D'[i])
    <3>1. CASE D' = D
      BY <2>2, <2>3, <3>1
    <3>2. ASSUME NEW p \in DownPacket, Pushed(D, p, D'), ~IsGet(p) PROVE ~IsGet(D'[i])
      <4>1. i \in 1 .. Len(D) \/ i = Len(D) + 1
        BY <1>b, <2>3, <3>2 DEF Pushed
      <4> QED BY <2>2, <3>2, <4>1 DEF Pushed
    <3> QED BY <1>2, <3>1, <3>2
  <2> QED BY <1>1, <1>2, <2>1, <2>3
<1>3. CASE Call
  <2>1. api.todo = <<>> /\ api' = [pc |-> "next", todo |-> api'.todo, result |-> NoResult]
    BY <1>3, CallEffect
  <2>2. api'.pc = "next" /\ api.pc = "next"
    BY <2>1 DEF ApiShape
  <2>3. mam' = mam /\ rx' = rx /\ Inbox' = Inbox /\ D' = D /\ mem_access' = mem_access
    BY <1>3 DEF Call, device, Inbox, D
  <2> QED BY <1>2, <2>2, <2>3
<1>4. CASE RegLock
  <2>1. api.pc = "next" /\ Step.k = "reg" /\ Goto("locked")
    BY <1>4 DEF RegLock, AtStep
  <2>2. mam' = mam /\ rx' = rx /\ Inbox' = Inbox /\ D' = D /\ mem_access' = mem_access
    BY <1>4 DEF RegLock, device, Inbox, D
  <2> QED BY <1>2, <2>1, <2>2, GotoFacts
<1>5. CASE RegSend
  <2>1. api.pc = "locked" /\ Step.k = "reg" /\ Goto("sent")
    BY <1>5 DEF RegSend, AtStep
  <2>2. mam' = mam /\ rx' = rx /\ Inbox' = Inbox /\ mem_access' = mem_access
    BY <1>5 DEF RegSend, device, Inbox
  <2>3. Request \in DownPacket /\ Step.m \in Module /\ Put(Step.m, Request)
    BY <1>5, SendFacts
  <2>4. ~IsGet(Request)
    BY DEF IsGet, IsPlain, Request
  <2>5. D' = D \/ Pushed(D, Request, D')
    <3>1. Pushed(down[Step.m], Request, down'[Step.m]) /\ \A x \in Module \ {Step.m} : down'[x] = down[x]
      BY <2>3, PutFacts
    <3> QED BY <3>1, Constants DEF D
  <2> QED BY <1>2, <2>1, <2>2, <2>3, <2>4, <2>5, GotoFacts
<1>6. CASE RegReturn \/ FetchReturn \/ WriteBulk \/ osd_module_register_handler \/ Result
  <2>1. mam' = mam /\ rx' = rx /\ Inbox' = Inbox /\ D' = D /\ api.pc \in {"next", "woken"}
    BY <1>6 DEF RegReturn, FetchReturn, WriteBulk, osd_module_register_handler, Result, AtStep, device, Inbox, D
  <2>2. api'.pc = "next"
    <3>1. api = [pc |-> api.pc, todo |-> api.todo, result |-> api.result]
      BY DEF ApiShape
    <3> QED BY <1>6, <3>1 DEF RegReturn, FetchReturn, WriteBulk, osd_module_register_handler, Result,
               StepDone, AtStep
  <2>3. mem_access'.count = mem_access.count /\ mem_access'.size = mem_access.size
    BY <1>6 DEF RegReturn, FetchReturn, WriteBulk, osd_module_register_handler, Result, HostShape
  <2> QED BY <1>2, <2>1, <2>2, <2>3
<1>7. CASE Send
  <2>1. api.pc = "next" /\ StepDone /\ mam' = mam /\ rx' = rx /\ Inbox' = Inbox /\ mem_access' = mem_access
    BY <1>7 DEF Send, AtStep, device, Inbox
  <2>2. Step.pkt \in DownPacket /\ Put(Mam, Step.pkt) /\ ~IsGet(Step.pkt)
    BY <1>7, SendFacts
  <2>3. Pushed(D, Step.pkt, D')
    BY <2>2, PutFacts, Constants DEF D
  <2> QED BY <1>2, <2>1, <2>2, <2>3, DoneFacts
<1>8. CASE FetchLock
  <2>1. /\ api.pc = "next" /\ Goto("locked") /\ mam' = mam /\ rx' = rx /\ Inbox' = Inbox /\ D' = D
        /\ api.todo # <<>> /\ Step.k = "fetch"
    BY <1>8 DEF FetchLock, AtStep, device, Inbox, D
  <2>2. api'.pc = "locked" /\ Step' = Step /\ api'.todo = api.todo
    BY <2>1, GotoFacts
  <2> DEFINE d == [i \in 0 .. Step.n - 1 |-> 0]
  <2>3. mem_access' = [size |-> Step.n, count |-> 0, data |-> d]
    BY <1>8 DEF FetchLock
  <2> HIDE DEF d
  <2>4. mem_access'.size = Step.n /\ mem_access'.count = 0
    BY <2>3
  <2>5. ~Waiting("fetch") /\ ~Waiting("fetch")' /\ ~AtStep("fetch", "woken")'
    BY <2>1, <2>2 DEF Waiting, AtStep
  <2>6. Quiet' /\ ~Pending' /\ rx'.at # "signal" /\ ~Reading'
    BY <1>a, <1>d, <1>e, <1>f, <2>1, <2>5 DEF Quiet, Reading
  <2>7. 0 <= Step.n \div 2
    <3>1. Step \in FetchStep
      BY <2>1, StepType, StepKinds
    <3>2. Step.n \in Nat
      BY <3>1 DEF FetchStep
    <3> QED BY <3>2
  <2>8. \A i \in 1 .. Len(D') : ~IsGet(D'[i])
    BY <1>e, <2>6
  <2> QED BY <1>g, <2>2, <2>4, <2>5, <2>6, <2>7, <2>8
<1>9. CASE FetchSend
  <2>1. /\ AtStep("fetch", "locked") /\ Goto("sent") /\ mam' = mam /\ rx' = rx /\ Inbox' = Inbox
        /\ mem_access' = mem_access
    BY <1>9 DEF FetchSend, device, Inbox
  <2>2. api'.pc = "sent" /\ Step' = Step /\ api'.todo = api.todo
    BY <2>1, GotoFacts
  <2>3. ~Waiting("fetch") /\ Waiting("fetch")' /\ ~AtStep("fetch", "woken")' /\ ~AtStep("fetch", "locked")' /\ InFetch
    BY <2>1, <2>2 DEF Waiting, AtStep, InFetch
  <2>4. PICK p \in MamPacket : Put(Mam, p) /\ IsGet(p) /\ p.addr = Step.addr
                               /\ p.beats = Step.n \div BlockSize /\ p \in DownPacket
    BY <1>9, SendFacts
  <2>5. Pushed(D, p, D')
    BY <2>4, PutFacts, Constants DEF D
  <2>6. Quiet /\ mem_access.count = 0 /\ mem_access.size = Step.n /\ \A i \in 1 .. Len(D) : ~IsGet(D[i])
    BY <1>a, <1>d, <2>1, <2>3
  <2>7. Quiet' /\ rx'.at # "signal" /\ ~Reading'
    BY <1>f, <2>1, <2>6 DEF Quiet, Reading
  <2>8. ASSUME NEW i \in 1 .. Len(D'), IsGet(D'[i]) PROVE i = Len(D') /\ D'[i] = p
    <3>1. i \in 1 .. Len(D) \/ i = Len(D) + 1
      BY <1>b, <2>5, <2>8 DEF Pushed
    <3> QED BY <2>5, <2>6, <2>8, <3>1 DEF Pushed
  <2>9. Pending'
    <3>1. Len(D) + 1 \in 1 .. Len(D') /\ D'[Len(D) + 1] = p
      BY <1>b, <2>5 DEF Pushed
    <3> QED BY <1>e, <2>4, <3>1
  <2> QED BY <1>a, <1>g, <2>1, <2>2, <2>3, <2>4, <2>6, <2>7, <2>8, <2>9
\* The fetch is where it was, and other packets may have moved.
<1>10. ASSUME SameFetch, mem_access' = mem_access, mam' = mam,
              rx'.at = "signal" <=> rx.at = "signal",
              (\A i \in 1 .. Len(Inbox) : ~IsMam(Inbox[i])) => \A i \in 1 .. Len(Inbox') : ~IsMam(Inbox'[i]),
              \A T : Flow(T) => \E U : Flow(U)',
              D' = D \/ (Popped(D, D') /\ ~IsPlain(D[1]))
       PROVE  OneFetch'
  <2>1. Quiet => Quiet'
    BY <1>10, <1>f DEF Quiet, Reading
  <2>2. Popped(D, D') => \A i \in 1 .. Len(D') : i + 1 \in 1 .. Len(D) /\ D'[i] = D[i + 1]
    BY DEF Popped
  <2>3. Pending' <=> Pending
    <3>1. CASE D' = D
      BY <1>d, <1>e, <3>1
    <3>2. CASE Popped(D, D') /\ ~IsPlain(D[1])
      <4>1. Pending' => Pending
        BY <1>d, <1>e, <2>2, <3>2
      <4>2. ASSUME NEW i \in 1 .. Len(D), IsGet(D[i]) PROVE Pending'
        <5>1. i # 1
          BY <3>2, <4>2 DEF IsGet
        <5>2. i - 1 \in 1 .. Len(D') /\ D'[i - 1] = D[(i - 1) + 1] /\ (i - 1) + 1 = i
          BY <3>2, <4>2, <5>1 DEF Popped
        <5> QED BY <1>e, <4>2, <5>2
      <4> QED BY <1>d, <4>1, <4>2
    <3> QED BY <1>10, <3>1, <3>2
  <2>4. ASSUME NEW i \in 1 .. Len(D'), IsGet(D'[i])
        PROVE  /\ i = Len(D') /\ Quiet' /\ mem_access'.count = 0
               /\ D'[i].addr = Step'.addr /\ D'[i].beats = Step'.n \div BlockSize
    <3>1. CASE D' = D
      BY <1>10, <1>a, <2>1, <2>4, <3>1 DEF SameFetch
    <3>2. CASE Popped(D, D')
      <4>1. i + 1 \in 1 .. Len(D) /\ D'[i] = D[i + 1]
        BY <2>2, <2>4, <3>2
      <4>2. /\ i + 1 = Len(D) /\ Quiet /\ mem_access.count = 0
            /\ D[i + 1].addr = Step.addr /\ D[i + 1].beats = Step.n \div BlockSize
        BY <1>a, <2>4, <4>1
      <4>3. i = Len(D')
        BY <2>4, <3>2, <4>2 DEF Popped
      <4> QED BY <1>10, <2>1, <4>1, <4>2, <4>3 DEF SameFetch
    <3> QED BY <1>10, <3>1, <3>2
  <2>5. ASSUME \A i \in 1 .. Len(D) : ~IsPlain(D[i]) PROVE \A i \in 1 .. Len(D') : ~IsPlain(D'[i])
    BY <1>10, <2>2, <2>5
  <2>6. Reading' => mam'.flits > 0
    BY <1>10, <1>a DEF Reading
  <2>7. AtStep("fetch", "woken")' \/ (Waiting("fetch")' /\ ~Pending') =>
            /\ mam'.state # "WRITE" /\ \A i \in 1 .. Len(D') : ~IsPlain(D'[i])
            /\ \E T : Flow(T)'
    <3> SUFFICES ASSUME AtStep("fetch", "woken")' \/ (Waiting("fetch")' /\ ~Pending')
                 PROVE  /\ mam'.state # "WRITE" /\ \A i \in 1 .. Len(D') : ~IsPlain(D'[i])
                        /\ \E T : Flow(T)'
      OBVIOUS
    <3>1. AtStep("fetch", "woken") \/ (Waiting("fetch") /\ ~Pending)
      BY <1>10, <2>3 DEF SameFetch
    <3>2. /\ mam.state # "WRITE" /\ \A i \in 1 .. Len(D) : ~IsPlain(D[i])
          /\ \E T : Flow(T)
      BY <1>a, <3>1
    <3>3. \E T : Flow(T)'
      BY <1>10, <3>2
    <3> QED BY <1>10, <2>5, <3>2, <3>3
  <2>8. /\ ~Waiting("fetch")' => Quiet' /\ ~Pending'
        /\ InFetch' => mem_access'.size = Step'.n
        /\ AtStep("fetch", "locked")' => mem_access'.count = 0
        /\ rx'.at = "signal" \/ AtStep("fetch", "woken")' => mem_access'.count = mem_access'.size \div 2
        /\ mem_access'.count <= mem_access'.size \div 2
    BY <1>10, <1>a, <2>1, <2>3 DEF SameFetch
  <2> QED BY <1>g, <2>4, <2>6, <2>7, <2>8
<1>11. ASSUME SameFetch, mem_access' = mem_access, mam' = mam, memory' = memory, Inbox' = Inbox,
              NEW T, Flow(T)
       PROVE  \E U : Flow(U)'
  <2>1. Flow(T)'
    BY <1>11 DEF Flow, SameFetch, Left, Reading
  <2> QED BY <2>1
<1>12. ASSUME api' = api PROVE SameFetch
  BY <1>12 DEF SameFetch, InFetch, Waiting, AtStep, Step
<1>13. CASE CondWait
  <2>1. Goto("wait") /\ api.pc = "sent" /\ mem_access' = mem_access /\ mam' = mam /\ memory' = memory /\ rx' = rx
        /\ Inbox' = Inbox /\ D' = D
    BY <1>13 DEF CondWait, AtStep, device, Inbox, D
  <2>2. Step' = Step /\ api'.pc = "wait" /\ api'.todo = api.todo
    BY <2>1, GotoFacts
  <2>3. SameFetch
    BY <2>1, <2>2 DEF SameFetch, InFetch, Waiting, AtStep
  <2> QED BY <1>10, <1>11, <2>1, <2>3
<1>14. CASE Receive
  <2>1. /\ api' = api /\ mem_access' = mem_access /\ mam' = mam /\ memory' = memory /\ D' = D
        /\ rx.at = "read" /\ rx'.at = "handle"
    BY <1>14 DEF Receive, device, D
  <2>2. Inbox' = Inbox
    BY <1>14, InboxReceive
  <2>3. SameFetch
    BY <1>12, <2>1
  <2> QED BY <1>10, <1>11, <2>1, <2>2, <2>3
<1>15. CASE OverflowComplete \/ Sample
  <2>1. /\ api' = api /\ mem_access' = mem_access /\ mam' = mam /\ memory' = memory /\ D' = D
        /\ rx' = rx /\ Inbox' = Inbox
    BY <1>15 DEF OverflowComplete, Sample, host, D, Inbox
  <2>3. SameFetch
    BY <1>12, <2>1
  <2> QED BY <1>10, <1>11, <2>1, <2>3
\* A packet that is no answer of the access module leaves.
<1>16. ASSUME SameFetch, mem_access' = mem_access, mam' = mam, memory' = memory, D' = D,
              rx.at = "handle", rx'.at = "read", up' = up, ~IsMam(rx.pkt)
       PROVE  OneFetch'
  <2>1. Popped(Inbox, Inbox') /\ Inbox[1] = rx.pkt
    BY <1>16, InboxHandled
  <2>2. (\A i \in 1 .. Len(Inbox) : ~IsMam(Inbox[i])) => \A i \in 1 .. Len(Inbox') : ~IsMam(Inbox'[i])
    BY <2>1 DEF Popped
  <2>3. ASSUME NEW T, Flow(T) PROVE \E U : Flow(U)'
    <3>1. Brought(T, Inbox, Step.addr, memory)
      BY <2>3 DEF Flow
    <3>2. Adds(T[1], Inbox[1], T[2], Step.addr, memory)
      BY <2>1, <3>1, BroughtPop
    <3>3. PICK U : Brought(U, Inbox', Step.addr, memory) /\ U[1] = T[2] /\ U[Len(Inbox') + 1] = T[Len(Inbox) + 1]
      BY <2>1, <3>1, BroughtPop
    <3>4. T[2] = T[1]
      BY <1>16, <2>1, <3>2 DEF Adds
    <3>5. Flow(U)'
      BY <1>16, <2>3, <3>3, <3>4 DEF Flow, SameFetch, Left, Reading
    <3> QED BY <3>5
  <2> QED BY <1>10, <1>16, <2>2, <2>3
<1>17. CASE HandleRegister
  <2>1. /\ rx.at = "handle" /\ rx'.at = "read" /\ rx.pkt.kind = "reg" /\ up' = up /\ D' = D
        /\ mem_access' = mem_access /\ mam' = mam /\ memory' = memory /\ Signal("reg")
    BY <1>17 DEF HandleRegister, Handled, device, D
  <2>2. SameFetch
    <3>1. /\ api'.todo = api.todo /\ Step' = Step
          /\ IF AtStep("reg", "wait") THEN api'.pc = "woken" ELSE api' = api
      BY <2>1, SignalFacts
    <3>2. CASE AtStep("reg", "wait")
      BY <3>1, <3>2 DEF SameFetch, InFetch, Waiting, AtStep
    <3>3. CASE ~AtStep("reg", "wait")
      BY <1>12, <3>1, <3>3
    <3> QED BY <3>2, <3>3
  <2>3. ~IsMam(rx.pkt)
    BY <2>1 DEF IsMam
  <2> QED BY <1>16, <2>1, <2>2, <2>3
<1>18. CASE stm_log_handler
  <2>1. /\ rx.at = "handle" /\ rx'.at = "read" /\ rx.pkt.kind = "event" /\ up' = up /\ D' = D
        /\ mem_access' = mem_access /\ mam' = mam /\ memory' = memory /\ api' = api
        /\ handler[rx.pkt.mod] = "stm_log_handler"
    BY <1>18 DEF stm_log_handler, HasHandler, Handled, device, D
  <2>2. ~IsMam(rx.pkt)
    <3>1. rx.pkt \in UpPacket
      BY <2>1 DEF LinkShape
    <3> QED BY <2>1, <3>1, HandlerFits, UpKinds
  <2> QED BY <1>12, <1>16, <2>1, <2>2
\* Another packet joins.
<1>19. ASSUME api' = api, mem_access' = mem_access, mam' = mam, memory' = memory,
              D' = D \/ (Popped(D, D') /\ ~IsPlain(D[1])),
              rx' = rx, NEW p \in UpPacket, Reply(p), ~IsMam(p)
       PROVE  OneFetch'
  <2>0. SameFetch
    BY <1>12, <1>19
  <2>1. Pushed(Inbox, p, Inbox')
    BY <1>19, InboxReply
  <2>2. ASSUME \A i \in 1 .. Len(Inbox) : ~IsMam(Inbox[i]), NEW i \in 1 .. Len(Inbox') PROVE ~IsMam(Inbox'[i])
    <3>1. i \in 1 .. Len(Inbox) \/ i = Len(Inbox) + 1
      BY <1>b, <2>1 DEF Pushed
    <3> QED BY <1>19, <2>1, <2>2, <3>1 DEF Pushed
  <2>3. ASSUME NEW T, Flow(T) PROVE \E U : Flow(U)'
    <3> DEFINE c == T[Len(Inbox) + 1]
    <3>1. Brought(T, Inbox, Step.addr, memory)
      BY <2>3 DEF Flow
    <3>2. c \in Nat /\ c <= c
      BY <1>b, <3>1 DEF Brought
    <3>3. Adds(c, p, c, Step.addr, memory)
      BY <1>19 DEF Adds
    <3>4. PICK U : Brought(U, Inbox', Step.addr, memory) /\ U[1] = T[1] /\ U[Len(Inbox') + 1] = c
      BY <2>1, <3>1, <3>2, <3>3, BroughtPush
    <3>5. Flow(U)'
      BY <1>19, <2>0, <2>3, <3>4 DEF Flow, SameFetch, Left, Reading
    <3> QED BY <3>5
  <2> QED BY <1>10, <1>19, <2>0, <2>2, <2>3
<1>20. ASSUME NEW m \in Module, RegAccess(m) PROVE OneFetch'
  <2>1. /\ Answer \in UpPacket /\ IsReg(Answer) /\ Reply(Answer) /\ IsReg(down[m][1]) /\ down[m] # <<>>
        /\ Popped(down[m], down'[m])
    BY <1>20, AccessFacts
  <2>2. /\ rx' = rx /\ api' = api /\ mem_access' = mem_access /\ mam' = mam /\ memory' = memory /\ Take(m)
    BY <1>20 DEF RegAccess, host
  <2>3. ~IsMam(Answer)
    BY <2>1, UpKinds
  <2>4. D' = D \/ (Popped(D, D') /\ ~IsPlain(D[1]))
    <3>1. \A x \in Module \ {m} : down'[x] = down[x]
      BY <2>1, <2>2, TakeFacts
    <3>2. CASE m = Mam
      <4>1. IsReg(D[1]) /\ Popped(D, D')
        BY <2>1, <3>2 DEF D
      <4> QED BY <4>1 DEF IsReg, IsPlain
    <3>3. CASE m # Mam
      BY <3>1, <3>3, Constants DEF D
    <3> QED BY <3>2, <3>3
  <2> QED BY <1>19, <2>1, <2>2, <2>3, <2>4
<1>21. CASE Packetize
  <2>1. /\ stm.fifo # <<>> /\ Reply(Head(stm.fifo)) /\ rx' = rx /\ D' = D /\ api' = api
        /\ mem_access' = mem_access /\ mam' = mam /\ memory' = memory /\ stm.fifo \in Seq(StmEvent)
    BY <1>21 DEF Packetize, host, DeviceShape, D
  <2>2. Head(stm.fifo) \in StmEvent
    BY <2>1, TailPopped
  <2>3. Head(stm.fifo) \in UpPacket /\ ~IsMam(Head(stm.fifo))
    BY <2>2, UpKinds DEF UpPacket
  <2> QED BY <1>19, <2>1, <2>3
<1>22. CASE memory_read_cb
  <2>1. /\ rx.at = "handle" /\ rx.pkt.kind = "event" /\ up' = up /\ D' = D
        /\ mam' = mam /\ memory' = memory /\ api' = api
        /\ handler[rx.pkt.mod] = "memory_read_cb"
    BY <1>22 DEF memory_read_cb, HasHandler, device, D
  <2> DEFINE count == mem_access.count + Len(rx.pkt.words)
  <2>2. PICK d : mem_access' = [mem_access EXCEPT !.count = count, !.data = d]
    BY <1>22 DEF memory_read_cb
  <2>3. IF count >= mem_access.size \div 2 THEN rx' = [rx EXCEPT !.at = "signal"] ELSE Handled
    BY <1>22 DEF memory_read_cb
  <2>4. IsMam(rx.pkt) /\ rx.pkt \in MamEvent
    <3>1. rx.pkt \in UpPacket
      BY <2>1 DEF LinkShape
    <3> QED BY <2>1, <3>1, HandlerFits, UpKinds
  <2>5. Len(rx.pkt.words) \in Nat
    BY <2>4 DEF MamEvent
  <2> HIDE DEF count
  <2>6. mem_access'.count = count /\ mem_access'.size = mem_access.size
    BY <2>2 DEF HostShape
  <2>7. rx'.at = IF count >= mem_access.size \div 2 THEN "signal" ELSE "read"
    BY <2>3 DEF Handled, LinkShape
  <2>8. Popped(Inbox, Inbox') /\ Inbox[1] = rx.pkt
    <3>1. rx'.at # "handle"
      BY <2>7
    <3> QED BY <2>1, <3>1, InboxHandled
  <2>9. ~Quiet
    <3>1. 1 \in 1 .. Len(Inbox)
      BY <2>8 DEF Popped
    <3> QED BY <2>4, <2>8, <3>1 DEF Quiet
  <2>10. Waiting("fetch") /\ ~Pending
    BY <1>a, <1>d, <2>9
  <2>11. SameFetch
    BY <1>12, <2>1
  <2>12. /\ mam.state # "WRITE" /\ (\A i \in 1 .. Len(D) : ~IsPlain(D[i]))
         /\ \E T : Flow(T)
    BY <1>a, <2>10
  <2>13. PICK T : Flow(T)
    BY <2>12
  <2>14. Brought(T, Inbox, Step.addr, memory)
    BY <2>13 DEF Flow
  <2>15. Adds(T[1], Inbox[1], T[2], Step.addr, memory) /\ T[2] \in Nat
    BY <2>8, <2>14, BroughtPop
  <2>16. PICK U : Brought(U, Inbox', Step.addr, memory) /\ U[1] = T[2] /\ U[Len(Inbox') + 1] = T[Len(Inbox) + 1]
    BY <2>8, <2>14, BroughtPop
  <2>17. T[2] = count
    BY <2>4, <2>8, <2>13, <2>15 DEF Adds, Flow, count
  <2>18. Flow(U)'
    BY <2>1, <2>6, <2>11, <2>13, <2>16, <2>17 DEF Flow, SameFetch, Left, Reading
  <2>19. count <= mem_access.size \div 2
    <3>1. 2 \in 1 .. Len(Inbox) + 1 /\ Len(Inbox) + 1 \in 1 .. Len(Inbox) + 1 /\ 2 <= Len(Inbox) + 1
      BY <2>8 DEF Popped
    <3>2. T[2] <= T[Len(Inbox) + 1] /\ T[Len(Inbox) + 1] \in Nat
      BY <2>14, <3>1 DEF Brought
    <3>3. T[Len(Inbox) + 1] + Left = mem_access.size \div 2 /\ Left \in Nat
      BY <2>13 DEF Flow, Left, Reading, DeviceShape
    <3> QED BY <2>15, <2>17, <3>2, <3>3
  <2>20. Waiting("fetch")' /\ ~Pending' /\ ~AtStep("fetch", "woken")' /\ ~AtStep("fetch", "locked")'
    <3>1. ~AtStep("fetch", "woken") /\ ~AtStep("fetch", "locked")
      BY <2>10 DEF Waiting, AtStep
    <3>2. ~Pending'
      BY <1>d, <1>e, <2>1, <2>10
    <3> QED BY <2>10, <2>11, <3>1, <3>2 DEF SameFetch
  <2>21. \A i \in 1 .. Len(D') : ~IsGet(D'[i])
    BY <1>e, <2>20
  <2>22. rx'.at = "signal" => mem_access'.count = mem_access'.size \div 2
    <3>1. count \in Nat /\ mem_access.size \div 2 \in Nat
      BY <1>c, <2>15, <2>17
    <3> QED BY <2>6, <2>7, <2>19, <3>1
  <2>23. InFetch' => mem_access'.size = Step'.n
    BY <1>a, <2>6, <2>11 DEF SameFetch
  <2>24. Reading' => mam'.flits > 0
    BY <1>a, <2>1 DEF Reading
  <2> QED BY <1>g, <2>1, <2>6, <2>12, <2>18, <2>19, <2>20, <2>21, <2>22, <2>23, <2>24
<1>23. CASE SignalRead
  <2>1. /\ rx.at = "signal" /\ rx'.at = "read" /\ up' = up /\ D' = D /\ ~Holds("fetch") /\ Signal("fetch")
        /\ mam' = mam /\ memory' = memory /\ mem_access' = mem_access
    BY <1>23 DEF SignalRead, Handled, device, D
  <2>2. Inbox' = Inbox
    BY <2>1 DEF Inbox
  <2>3. Waiting("fetch") /\ ~Pending
    BY <1>a, <1>d, <2>1 DEF Quiet
  <2>4. AtStep("fetch", "wait")
    BY <2>1, <2>3 DEF Waiting, Holds
  <2>5. api'.pc = "woken" /\ Step' = Step /\ api'.todo = api.todo
    BY <2>1, <2>4, SignalFacts
  <2>6. PICK T : Flow(T)
    BY <1>a, <2>3
  <2>7. mem_access.count = mem_access.size \div 2
    BY <1>a, <2>1
  <2>8. ~Reading /\ \A i \in 1 .. Len(Inbox) : ~IsMam(Inbox[i])
    BY <2>6, <2>7, FlowDone
  <2>9. Quiet' /\ ~Pending' /\ ~Reading'
    BY <1>d, <1>e, <1>f, <2>1, <2>2, <2>3, <2>8 DEF Reading
  <2>10. Flow(T)'
    BY <2>1, <2>2, <2>5, <2>6 DEF Flow, Left, Reading
  <2>11. mam.state # "WRITE" /\ \A i \in 1 .. Len(D) : ~IsPlain(D[i])
    BY <1>a, <2>3
  <2>12. ~AtStep("fetch", "locked")' /\ ~Waiting("fetch")' /\ mem_access.size = Step.n
    BY <1>a, <1>h, <2>3, <2>5 DEF AtStep, Waiting
  <2>13. \A i \in 1 .. Len(D') : ~IsGet(D'[i])
    BY <1>e, <2>9
  <2> QED BY <1>a, <1>g, <2>1, <2>5, <2>7, <2>9, <2>10, <2>11, <2>12, <2>13
<1>24. ASSUME down[Mam] # <<>>, Take(Mam), Head(down[Mam]).kind = "plain"
       PROVE  /\ Popped(D, D') /\ Head(down[Mam]) = D[1] /\ IsPlain(D[1]) /\ 1 \in 1 .. Len(D)
              /\ D[1] \in MamPacket
              /\ \A i \in 1 .. Len(D') : i + 1 \in 1 .. Len(D) /\ D'[i] = D[i + 1]
  <2>1. Popped(D, D') /\ Head(down[Mam]) = D[1] /\ D[1] \in DownPacket
    BY <1>24, TakeFacts, Constants DEF D
  <2>2. IsPlain(D[1])
    BY <1>24, <2>1 DEF IsPlain
  <2>3. D[1] \in MamPacket
    BY <2>1, <2>2, DownKinds
  <2> QED BY <2>1, <2>2, <2>3 DEF Popped
\* The access module takes a packet that does not ask for a fetch.
<1>25. ASSUME Popped(D, D'), IsPlain(D[1]), ~IsGet(D[1]), 1 \in 1 .. Len(D), api' = api, rx' = rx, up' = up,
              mem_access' = mem_access, ~Reading, ~Reading',
              \A i \in 1 .. Len(D') : i + 1 \in 1 .. Len(D) /\ D'[i] = D[i + 1]
       PROVE  OneFetch'
  <2>1. SameFetch
    BY <1>12, <1>25
  <2>2. ~AtStep("fetch", "woken") /\ (Waiting("fetch") => Pending)
    BY <1>25, <1>a
  <2>3. Pending => Pending'
    <3> SUFFICES ASSUME NEW i \in 1 .. Len(D), IsGet(D[i]) PROVE Pending'
      BY <1>d
    <3>1. i # 1
      BY <1>25
    <3>2. i - 1 \in 1 .. Len(D') /\ (i - 1) + 1 = i
      BY <1>25, <3>1 DEF Popped
    <3>3. D'[i - 1] = D[i]
      BY <1>25, <3>2
    <3> QED BY <1>e, <3>2, <3>3
  <2>4. Inbox' = Inbox
    BY <1>25 DEF Inbox
  <2>5. Quiet => Quiet'
    BY <1>25, <1>f, <2>4 DEF Quiet
  <2>6. ASSUME NEW i \in 1 .. Len(D'), IsGet(D'[i])
        PROVE  /\ i = Len(D') /\ Quiet' /\ mem_access'.count = 0 /\ Pending
               /\ D'[i].addr = Step'.addr /\ D'[i].beats = Step'.n \div BlockSize
    <3>1. i + 1 \in 1 .. Len(D) /\ D'[i] = D[i + 1] /\ IsGet(D[i + 1])
      BY <1>25, <2>6
    <3>2. /\ i + 1 = Len(D) /\ Quiet /\ mem_access.count = 0 /\ Pending
          /\ D[i + 1].addr = Step.addr /\ D[i + 1].beats = Step.n \div BlockSize
      BY <1>a, <1>d, <3>1
    <3>3. i = Len(D')
      BY <1>25, <2>6, <3>2 DEF Popped
    <3> QED BY <1>25, <2>1, <2>5, <3>1, <3>2, <3>3 DEF SameFetch
  <2>7. Pending' => Pending
    BY <1>e, <2>6
  <2>8. /\ ~Waiting("fetch")' => Quiet' /\ ~Pending'
        /\ InFetch' => mem_access'.size = Step'.n
        /\ AtStep("fetch", "locked")' => mem_access'.count = 0
        /\ rx'.at = "signal" \/ AtStep("fetch", "woken")' => mem_access'.count = mem_access'.size \div 2
        /\ mem_access'.count <= mem_access'.size \div 2
    BY <1>25, <1>a, <2>1, <2>5, <2>7 DEF SameFetch
  <2>9. ~(AtStep("fetch", "woken")' \/ (Waiting("fetch")' /\ ~Pending'))
    BY <2>1, <2>2, <2>3 DEF SameFetch
  <2> QED BY <1>25, <1>g, <2>6, <2>8, <2>9
<1>26. CASE MamWrite
  <2>1. /\ down[Mam] # <<>> /\ Take(Mam) /\ Head(down[Mam]).kind = "plain" /\ mam.state = "WRITE"
        /\ api' = api /\ rx' = rx /\ up' = up /\ mem_access' = mem_access
    BY <1>26 DEF MamWrite, AtModule, host
  <2>2. /\ Popped(D, D') /\ Head(down[Mam]) = D[1] /\ IsPlain(D[1]) /\ 1 \in 1 .. Len(D)
        /\ \A i \in 1 .. Len(D') : i + 1 \in 1 .. Len(D) /\ D'[i] = D[i + 1]
    BY <1>24, <2>1
  <2>3. ~IsGet(D[1])
    BY <2>1, <2>2 DEF MamFraming, AtModule, IsGet
  <2>4. ~Reading /\ ~Reading'
    <3>1. PICK n : Advance(n)
      BY <1>26 DEF MamWrite
    <3>2. mam'.state \in {"INACTIVE", "WRITE"}
      BY <2>1, <3>1 DEF Advance, MamIdle, DeviceShape
    <3> QED BY <2>1, <3>2 DEF Reading
  <2> QED BY <1>25, <2>1, <2>2, <2>3, <2>4
<1>27. CASE MamCommand
  <2> DEFINE q == Head(down[Mam])
  <2>1. /\ down[Mam] # <<>> /\ Take(Mam) /\ Head(down[Mam]).kind = "plain" /\ mam.state = "INACTIVE"
        /\ api' = api /\ rx' = rx /\ up' = up /\ mem_access' = mem_access
    BY <1>27 DEF MamCommand, AtModule, host
  <2>2. /\ Popped(D, D') /\ q = D[1] /\ IsPlain(D[1]) /\ 1 \in 1 .. Len(D) /\ D[1] \in MamPacket
        /\ \A i \in 1 .. Len(D') : i + 1 \in 1 .. Len(D) /\ D'[i] = D[i + 1]
    BY <1>24, <2>1
  <2>3. IF q.cmd = "single" THEN mam' = mam
        ELSE /\ mam' = [state |-> IF q.cmd = "get" THEN "READ" ELSE "WRITE",
                        addr |-> q.addr, flits |-> q.beats * (BlockSize \div 2)]
             /\ memory' = memory
    BY <1>27 DEF MamCommand
  <2> HIDE DEF q
  <2>4. CASE ~IsGet(D[1])
    <3>1. q.cmd # "get"
      BY <2>2, <2>4 DEF IsGet
    <3>2. ~Reading'
      <4>1. CASE q.cmd = "single"
        BY <2>1, <2>3, <4>1 DEF Reading
      <4>2. CASE q.cmd # "single"
        BY <2>3, <3>1, <4>2 DEF Reading
      <4> QED BY <4>1, <4>2
    <3>3. ~Reading
      BY <2>1 DEF Reading
    <3> QED BY <1>25, <2>1, <2>2, <2>4, <3>2, <3>3
  <2>5. CASE IsGet(D[1])
    <3>1. /\ 1 = Len(D) /\ Quiet /\ mem_access.count = 0
          /\ q.addr = Step.addr /\ q.beats = Step.n \div BlockSize
      BY <1>a, <2>2, <2>5
    <3>2. q.cmd = "get"
      BY <2>2, <2>5 DEF IsGet
    <3>3. mam' = [state |-> "READ", addr |-> Step.addr, flits |-> (Step.n \div BlockSize) * (BlockSize \div 2)]
          /\ memory' = memory
      BY <2>3, <3>1, <3>2
    <3>4. Pending /\ Waiting("fetch")
      BY <1>a, <1>d, <2>2, <2>5
    <3>5. InFetch /\ Step \in FetchStep /\ mem_access.size = Step.n
      <4>1. InFetch
        BY <3>4 DEF Waiting, AtStep, InFetch
      <4> QED BY <1>a, <4>1, StepType, StepKinds DEF InFetch
    <3>6. Step.n \in Nat /\ Step.n > 0 /\ Step.n % BlockSize = 0 /\ Step.addr \in Nat
      BY <3>5 DEF FetchStep
    <3> DEFINE f == (Step.n \div BlockSize) * (BlockSize \div 2)
    <3>7. f = Step.n \div 2 /\ f > 0 /\ f \in Nat
      <4> DEFINE h == BlockSize \div 2
                 b == Step.n \div BlockSize
      <4>1. BlockSize = 2 * h /\ h \in Nat \ {0} /\ BlockSize \in Nat \ {0}
        BY Sizes
      <4>2. b \in Nat /\ Step.n = BlockSize * b
        <5> DEFINE N == Step.n
        <5>1. N \in Nat /\ N % BlockSize = 0
          BY <3>6
        <5> HIDE DEF N
        <5>2. N \div BlockSize \in Nat /\ N = BlockSize * (N \div BlockSize) + (N % BlockSize)
          BY <4>1, <5>1, NatDivMod
        <5>3. N = BlockSize * (N \div BlockSize)
          <6> DEFINE y == BlockSize * (N \div BlockSize)
          <6>1. y \in Int
            BY <4>1, <5>2
          <6> HIDE DEF y
          <6>2. N = y
            BY <5>1, <5>2, <6>1 DEF y
          <6> QED BY <6>2 DEF y
        <5> QED BY <5>2, <5>3 DEF N
      <4> DEFINE g == b * h
      <4>3. f = g
        OBVIOUS
      <4> HIDE DEF h, b, f
      <4>4. Step.n = 2 * g /\ g \in Nat
        BY <4>1, <4>2
      <4> HIDE DEF g
      <4>5. Step.n \div 2 = g
        BY <4>4
      <4> QED BY <3>6, <4>3, <4>4, <4>5
    <3> HIDE DEF f
    <3>8. mam' = [state |-> "READ", addr |-> Step.addr, flits |-> f]
      BY <3>3 DEF f
    <3>9. SameFetch
      BY <1>12, <2>1
    <3>10. Inbox' = Inbox
      BY <2>1 DEF Inbox
    <3>11. Reading' /\ mam'.flits = f /\ mam'.state # "WRITE" /\ mam'.addr = Step.addr
      BY <3>8 DEF Reading
    <3>12. \A i \in 1 .. Len(D') : FALSE
      <4>1. Len(D') = Len(D) - 1
        BY <2>2 DEF Popped
      <4>2. Len(D') = 0
        BY <3>1, <4>1
      <4> QED BY <4>2
    <3>13. PICK V : Brought(V, Inbox, Step.addr, memory) /\ V[1] = 0 /\ V[Len(Inbox) + 1] = 0
      <4> DEFINE T == [i \in 1 .. Len(Inbox) + 1 |-> 0]
      <4>1. T \in [1 .. Len(Inbox) + 1 -> Nat] /\ \A i \in 1 .. Len(Inbox) + 1 : T[i] = 0
        OBVIOUS
      <4> HIDE DEF T
      <4>2. \A i \in 1 .. Len(Inbox) : Adds(T[i], Inbox[i], T[i + 1], Step.addr, memory)
        <5> SUFFICES ASSUME NEW i \in 1 .. Len(Inbox) PROVE Adds(T[i], Inbox[i], T[i + 1], Step.addr, memory)
          OBVIOUS
        <5>1. ~IsMam(Inbox[i])
          BY <3>1 DEF Quiet
        <5>2. T[i] = 0 /\ T[i + 1] = 0
          BY <1>b, <4>1
        <5> QED BY <5>1, <5>2 DEF Adds
      <4>3. \A i, j \in 1 .. Len(Inbox) + 1 : i <= j => T[i] <= T[j]
        BY <4>1
      <4>4. T[1] = 0 /\ T[Len(Inbox) + 1] = 0
        BY <1>b, <4>1
      <4> QED BY <4>1, <4>2, <4>3, <4>4 DEF Brought
    <3>14. Flow(V)'
      <4>1. Left' = f
        BY <3>11 DEF Left
      <4>2. 0 + f = mem_access'.size \div 2
        BY <2>1, <3>5, <3>7
      <4>3. Step.addr = Step.addr + 2 * 0
        BY <3>6
      <4>4. /\ Step' = Step /\ memory' = memory /\ mem_access'.count = 0
        BY <2>1, <3>1, <3>3, <3>9 DEF SameFetch
      <4>5. /\ Brought(V, Inbox', Step'.addr, memory') /\ V[1] = mem_access'.count
            /\ V[Len(Inbox') + 1] = 0
        BY <3>10, <3>13, <4>4
      <4>6. /\ V[Len(Inbox') + 1] + Left' = mem_access'.size \div 2
            /\ mam'.addr = Step'.addr + 2 * V[Len(Inbox') + 1]
        <5> DEFINE x == V[Len(Inbox') + 1]
                   z == mem_access'.size \div 2
                   u == mam'.addr
                   v == Step'.addr
        <5>1. x = 0 /\ 0 + f = z /\ Left' = f /\ u = v /\ v \in Nat
          BY <3>6, <3>11, <4>1, <4>2, <4>4, <4>5
        <5> HIDE DEF x, z, u, v
        <5>2. x + Left' = z /\ u = v + 2 * x
          BY <5>1
        <5> QED BY <5>2 DEF x, z, u, v
      <4> QED BY <4>5, <4>6 DEF Flow
    <3>15. Waiting("fetch")' /\ ~AtStep("fetch", "woken")' /\ ~AtStep("fetch", "locked")'
      <4>1. ~AtStep("fetch", "woken") /\ ~AtStep("fetch", "locked")
        BY <3>4 DEF Waiting, AtStep
      <4> QED BY <3>4, <3>9, <4>1 DEF SameFetch
    <3>16. rx'.at # "signal"
      BY <2>1, <3>1 DEF Quiet
    <3>17. InFetch' => mem_access'.size = Step'.n
      BY <2>1, <3>5, <3>9 DEF SameFetch
    <3> QED BY <1>a, <1>g, <2>1, <3>7, <3>11, <3>12, <3>14, <3>15, <3>16, <3>17
  <2> QED BY <2>4, <2>5
<1>28. CASE MamRead
  <2>1. /\ Reading /\ Reply(MamReply) /\ rx' = rx /\ D' = D /\ memory' = memory /\ api' = api /\ mem_access' = mem_access
    BY <1>28 DEF MamRead, MamReply, Reading, host, D
  <2>2. PICK n \in Nat \ {0} :
           /\ n <= mam.flits
           /\ n = IF mam.flits < WordsPerPacket THEN mam.flits ELSE WordsPerPacket
           /\ MamReply \in MamEvent /\ MamReply.words \in Seq(Word) /\ Len(MamReply.words) = n
           /\ \A k \in 1 .. n : MamReply.words[k] = <<memory[mam.addr + 2 * (k - 1)],
                                                      memory[mam.addr + 2 * (k - 1) + 1]>>
    BY <2>1, MamReplyType
  <2>3. Advance(n)
    BY <1>28, <2>2 DEF MamRead
  <2>4. /\ Waiting("fetch") /\ ~Pending /\ Step \in FetchStep /\ mam.flits \in Nat \ {0} /\ mam.addr \in Nat
        /\ mem_access.size = Step.n /\ rx.at # "signal"
    BY <2>1, ReadFacts
  <2>5. SameFetch
    BY <1>12, <2>1
  <2>6. /\ mam.state # "WRITE" /\ (\A i \in 1 .. Len(D) : ~IsPlain(D[i])) /\ \E T : Flow(T)
    BY <1>a, <2>4
  <2>7. PICK T : Flow(T)
    BY <2>6
  <2> DEFINE a == T[Len(Inbox) + 1]
             c == a + n
  <2>8. /\ Brought(T, Inbox, Step.addr, memory) /\ a + mam.flits = mem_access.size \div 2
        /\ mam.addr = Step.addr + 2 * a /\ T[1] = mem_access.count
    BY <2>1, <2>7 DEF Flow, Left
  <2>9. a \in Nat /\ Step.addr \in Nat
    BY <1>b, <2>4, <2>8 DEF Brought, FetchStep
  <2>10. MamReply \in UpPacket /\ IsMam(MamReply)
    <3>1. MamReply \in UpPacket
      BY <2>2 DEF UpPacket
    <3> QED BY <2>2, <3>1, UpKinds
  <2>11. Pushed(Inbox, MamReply, Inbox')
    BY <2>1, <2>10, InboxReply
  <2> HIDE DEF a
  <2>12. c \in Nat /\ a <= c
    BY <2>2, <2>9
  <2>13. Adds(a, MamReply, c, Step.addr, memory)
    <3>1. \A k \in 1 .. n : /\ mam.addr + 2 * (k - 1) = Step.addr + 2 * (a + k - 1)
      BY <2>2, <2>8, <2>9
    <3>2. \A k \in 1 .. n : MamReply.words[k] = <<memory[Step.addr + 2 * (a + k - 1)],
                                                  memory[Step.addr + 2 * (a + k - 1) + 1]>>
      <4> SUFFICES ASSUME NEW k \in 1 .. n
                   PROVE  MamReply.words[k] = <<memory[Step.addr + 2 * (a + k - 1)],
                                                memory[Step.addr + 2 * (a + k - 1) + 1]>>
        OBVIOUS
      <4> DEFINE x == mam.addr + 2 * (k - 1)
                 y == Step.addr + 2 * (a + k - 1)
      <4>1. x = y /\ MamReply.words[k] = <<memory[x], memory[x + 1]>>
        BY <2>2, <3>1
      <4> HIDE DEF x, y
      <4>2. MamReply.words[k] = <<memory[y], memory[y + 1]>>
        BY <4>1
      <4> QED BY <4>2 DEF y
    <3> HIDE DEF c
    <3>3. c = a + Len(MamReply.words)
      BY <2>2 DEF c
    <3> QED BY <2>2, <2>10, <3>2, <3>3 DEF Adds
  <2>14. PICK U : Brought(U, Inbox', Step.addr, memory) /\ U[1] = T[1] /\ U[Len(Inbox') + 1] = c
    <3> HIDE DEF c
    <3> QED BY <2>8, <2>11, <2>12, <2>13, BroughtPush DEF a
  <2>15. /\ mam'.state # "WRITE" /\ (Reading' => mam'.flits > 0 /\ mam'.addr = Step.addr + 2 * c)
         /\ c + Left' = mem_access.size \div 2
    <3>1. CASE n = mam.flits
      <4>1. mam' = MamIdle
        BY <2>3, <3>1 DEF Advance
      <4>2. mam'.state = "INACTIVE" /\ ~Reading' /\ Left' = 0
        BY <4>1 DEF MamIdle, Reading, Left
      <4> QED BY <2>2, <2>8, <2>9, <3>1, <4>2
    <3>2. CASE n # mam.flits
      <4>1. mam' = [mam EXCEPT !.addr = @ + 2 * n, !.flits = @ - n]
        BY <2>3, <3>2 DEF Advance
      <4>2. mam'.state = "READ" /\ mam'.addr = mam.addr + 2 * n /\ mam'.flits = mam.flits - n
        BY <2>1, <4>1 DEF DeviceShape, Reading
      <4>3. Left' = mam.flits - n
        BY <4>2 DEF Left, Reading
      <4>4. mam'.flits > 0 /\ mam'.state # "WRITE"
        BY <2>2, <2>4, <3>2, <4>2
      <4>5. mam'.addr = Step.addr + 2 * c
        BY <2>2, <2>8, <2>9, <4>2
      <4>6. c + Left' = mem_access.size \div 2
        <5> DEFINE x == mam.flits
                   y == mem_access.size \div 2
        <5>1. x \in Nat /\ a + x = y /\ Left' = x - n
          BY <2>4, <2>8, <4>3
        <5> HIDE DEF x, y
        <5>2. c + Left' = y
          BY <2>2, <2>9, <5>1
        <5> QED BY <5>2 DEF y
      <4> QED BY <4>4, <4>5, <4>6
    <3> QED BY <3>1, <3>2
  <2> HIDE DEF c
  <2>16. Flow(U)'
    BY <2>1, <2>5, <2>8, <2>14, <2>15 DEF Flow, SameFetch
  <2>17. Waiting("fetch")' /\ ~Pending' /\ ~AtStep("fetch", "woken")' /\ ~AtStep("fetch", "locked")'
    <3>1. ~AtStep("fetch", "woken") /\ ~AtStep("fetch", "locked")
      BY <2>4 DEF Waiting, AtStep
    <3>2. ~Pending'
      BY <1>d, <1>e, <2>1, <2>4
    <3> QED BY <2>4, <2>5, <3>1, <3>2 DEF SameFetch
  <2>18. \A i \in 1 .. Len(D') : ~IsGet(D'[i])
    BY <1>e, <2>17
  <2>19. (InFetch' => mem_access'.size = Step'.n) /\ rx'.at # "signal"
    BY <2>1, <2>4, <2>5 DEF SameFetch
  <2> QED BY <1>a, <1>g, <2>1, <2>6, <2>15, <2>16, <2>17, <2>18, <2>19
<1> QED BY <1>3, <1>4, <1>5, <1>6, <1>7, <1>8, <1>9, <1>13, <1>14, <1>15, <1>17, <1>18, <1>20, <1>21,
           <1>22, <1>23, <1>26, <1>27, <1>28 DEF Next, ApiStep, RxStep, ModuleStep

(***************************************************************************)
(* The invariant.                                                          *)
(***************************************************************************)

\* The invariant holds when osd_connect starts.
LEMMA IInvInit == Init => IInv
<1> SUFFICES ASSUME Init PROVE IInv
  OBVIOUS
<1> USE DEF Init
<1>1. /\ osd_system_enumerate \in Seq(RegStep) /\ osd_system_enumerate # <<>>
      /\ Len(osd_system_enumerate) = 2
      /\ \A i \in 1 .. 2 : osd_system_enumerate[i].k = "reg" /\ osd_system_enumerate[i].r \in ReadReg
      /\ osd_system_enumerate \in Seq(AnyStep)
  <2>1. osd_reg_read16(Scm, "id") \in RegStep /\ osd_reg_read16(Scm, "num") \in RegStep
    BY Constants DEF RegStep, ReadReg, osd_reg_read16
  <2>2. osd_system_enumerate = <<osd_reg_read16(Scm, "id"), osd_reg_read16(Scm, "num")>>
    BY DEF osd_system_enumerate
  <2>3. /\ osd_system_enumerate \in Seq(RegStep) /\ osd_system_enumerate # <<>>
        /\ Len(osd_system_enumerate) = 2
        /\ osd_system_enumerate[1] = osd_reg_read16(Scm, "id")
        /\ osd_system_enumerate[2] = osd_reg_read16(Scm, "num")
    BY <2>1, <2>2
  <2>4. RegStep \subseteq AnyStep
    BY DEF AnyStep
  <2>5. osd_system_enumerate \in Seq(AnyStep)
    BY <2>3, <2>4, SeqMonotonic
  <2> QED BY <2>3, <2>5 DEF ReadReg, osd_reg_read16
<1> HIDE DEF Init
<1>2. ApiShape
  BY <1>1 DEF Init, ApiShape
<1>3. HostShape
  BY DEF Init, HostShape
<1>4. LinkShape
  BY Sizes DEF Init, LinkShape
<1>5. memory \in Bytes /\ written \in Bytes
  BY Sizes DEF Init, Bytes
<1>6. DeviceShape
  BY <1>5, Sizes DEF Init, DeviceShape, MamIdle
<1>7. Inbox = <<>> /\ Len(Inbox) = 0
  BY DEF Init, Inbox
<1>8. \A m \in Module : down[m] = <<>> /\ Len(down[m]) = 0
  BY DEF Init
<1>9. api.pc = "next" /\ \A k : ~Waiting(k) /\ ~AtStep(k, "woken") /\ ~AtStep(k, "locked")
  BY DEF Init, Waiting, AtStep
<1>10. OneAccess
  BY <1>7, <1>8, <1>9 DEF OneAccess
<1>11. Enumeration
  BY DEF Init, Enumeration
<1>12. HandlersFirst
  <2>1. Len(api.todo) = 2 /\ \A i \in 1 .. 2 : api.todo[i].k = "reg" /\ api.todo[i].r \in ReadReg
    BY <1>1 DEF Init
  <2>2. stall = TRUE /\ stm.ov = 0 /\ stm.fifo = <<>>
    BY DEF Init
  <2>3. \A i \in 1 .. Len(api.todo) : ~Unstall(api.todo[i])
    BY <2>1 DEF Unstall, ReadReg
  <2> QED BY <1>7, <1>8, <1>9, <2>1, <2>2, <2>3 DEF HandlersFirst
<1>13. OneFetch
  <2>1. mam.state = "INACTIVE" /\ rx.at = "read" /\ mem_access.count = 0 /\ mem_access.size = 0
    BY DEF Init, MamIdle
  <2>2. Quiet /\ ~Reading
    BY <1>7, <2>1 DEF Quiet, Reading
  <2>3. Len(down[Mam]) = 0
    BY <1>8, Constants
  <2>4. ~Pending
    BY <2>3 DEF Pending
  <2>5. mem_access.count <= mem_access.size \div 2
    BY <2>1
  <2> QED BY <1>9, <2>1, <2>2, <2>3, <2>4, <2>5 DEF OneFetch
<1>14. NoGap
  <2>1. /\ stm.sampled = 0 /\ stm.ov = 0 /\ stm.fifo = <<>>
        /\ log.lines = 0 /\ log.missed = 0 /\ log.misscount = 0
    BY DEF Init
  <2>2. Chained(0, <<>>, 0)
    BY ChainNil
  <2>3. Chained(log.lines + log.missed + log.misscount, Inbox, 0)
    BY <1>7, <2>1, <2>2
  <2>4. Chained(0, stm.fifo, stm.sampled - stm.ov)
    BY <2>1, <2>2
  <2> QED BY <2>1, <2>3, <2>4, Sizes DEF NoGap
<1> QED BY <1>2, <1>3, <1>4, <1>6, <1>10, <1>11, <1>12, <1>13, <1>14 DEF IInv, Shape

\* Every step keeps the invariant, if the MAM is not out of step.
LEMMA IInvStep == IInv /\ MamFraming /\ [Next]_vars => IInv'
<1>1. CASE IInv /\ MamFraming /\ Next
  <2>1. Shape'
    BY <1>1, ApiShapeInv, HostShapeInv, LinkShapeInv, DeviceShapeInv DEF Shape
  <2> QED BY <1>1, <2>1, OneAccessInv, EnumerationInv, HandlersFirstInv, OneFetchInv, NoGapInv DEF IInv
<1>2. CASE IInv /\ UNCHANGED vars
  <2> USE <1>2 DEF IInv, vars, host, device
  <2>1. Shape'
    BY DEF Shape, ApiShape, HostShape, LinkShape, DeviceShape, Step
  <2>2. Inbox' = Inbox /\ Step' = Step
    BY DEF Inbox, Step
  <2>3. OneAccess'
    <3>1. /\ Waiting("reg")' <=> Waiting("reg")
          /\ AtStep("reg", "woken")' <=> AtStep("reg", "woken")
      BY <2>2 DEF Waiting, AtStep
    <3>2. Request' = Request
      BY <2>2 DEF Request
    <3>3. RegValue(Step.m, Step.r)' = RegValue(Step.m, Step.r)
      BY <2>2 DEF RegValue
    <3>4. Answer' = Answer
      BY <2>2, <3>3 DEF Answer
    <3>5. down' = down /\ reg_access' = reg_access
      OBVIOUS
    <3>6. OneAccess
      OBVIOUS
    <3> QED BY ONLY <2>2, <3>1, <3>2, <3>4, <3>5, <3>6 DEF OneAccess
  <2>4. Enumeration'
    BY DEF Enumeration, Enumerating
  <2>5. HandlersFirst'
    BY <2>2 DEF HandlersFirst, StmReady
  <2>6. OneFetch'
    BY <2>2 DEF OneFetch, Waiting, AtStep, Quiet, Reading, Pending, Flow, Left
  <2>7. NoGap'
    BY <2>2 DEF NoGap
  <2> QED BY <2>1, <2>3, <2>4, <2>5, <2>6, <2>7
<1> QED BY <1>1, <1>2

(***************************************************************************)
(* What it implies.                                                        *)
(***************************************************************************)

\* When the receiver can take the lock to signal, the caller waits.
LEMMA WakeupHolds == IInv => WakeupMeetsWaiter
<1> SUFFICES ASSUME IInv PROVE WakeupMeetsWaiter
  OBVIOUS
<1>1. ASSUME rx.at = "handle", rx.pkt.kind = "reg", ~Holds("reg") PROVE AtStep("reg", "wait")
  <2>1. Len(Inbox) \in Nat /\ Len(Inbox) > 0 /\ Inbox[1] = rx.pkt
    BY <1>1, InboxType DEF IInv, Shape
  <2>2. 1 \in 1 .. Len(Inbox) /\ Inbox[1] = rx.pkt
    BY <2>1
  <2>3. Waiting("reg")
    BY <1>1, <2>2 DEF IInv, OneAccess, IsReg
  <2> QED BY <1>1, <2>3 DEF Waiting, Holds
<1>2. ASSUME rx.at = "signal", ~Holds("fetch") PROVE AtStep("fetch", "wait")
  <2>1. ~Quiet
    BY <1>2 DEF Quiet
  <2>2. Waiting("fetch")
    BY <2>1 DEF IInv, OneFetch
  <2> QED BY <1>2, <2>2 DEF Waiting, Holds
<1> QED BY <1>1, <1>2 DEF WakeupMeetsWaiter

\* The caller wakes to the answer to its own request.
LEMMA ReplyHolds == IInv => ReplyMatches
<1> SUFFICES ASSUME IInv, AtStep("reg", "woken")
             PROVE  /\ reg_access.mod = Step.m
                    /\ reg_access.size = IF Step.write THEN 2 ELSE 3
                    /\ ~Step.write => reg_access.v = RegValue(Step.m, Step.r)
  BY DEF ReplyMatches
<1>1. reg_access = Answer
  BY DEF IInv, OneAccess
<1> QED BY <1>1 DEF Answer

\* The enumeration is over.
LEMMA EnumerationHolds == IInv => EnumerationComplete
BY DEF IInv, Enumeration, EnumerationComplete

\* Event packets find their handlers.
LEMMA EventHolds == IInv => EventHandled
<1> SUFFICES ASSUME IInv, rx.at = "handle", rx.pkt.kind = "event"
             PROVE  /\ rx.pkt.mod \in DOMAIN handler
                    /\ handler[rx.pkt.mod] = IF rx.pkt.mod = Mam THEN "memory_read_cb"
                                                                 ELSE "stm_log_handler"
  BY DEF EventHandled
<1>1. \/ IsMam(rx.pkt) /\ handler[rx.pkt.mod] = "memory_read_cb"
      \/ IsStm(rx.pkt) /\ handler[rx.pkt.mod] = "stm_log_handler"
  BY HandlerFits DEF IInv
<1>2. rx.pkt.mod \in DOMAIN handler
  BY HandlerFits DEF IInv
<1> QED BY <1>1, <1>2, Constants DEF IsMam, IsStm

\* The next event in the log is the next that was sampled.
LEMMA TraceHolds == OvMax >= MaxEvents /\ IInv => TraceGapsReported
<1> SUFFICES ASSUME OvMax >= MaxEvents, IInv, rx.at = "handle", rx.pkt.kind = "event",
                    rx.pkt.mod = Stm, ~rx.pkt.overflow
             PROVE  rx.pkt.v = log.lines + log.missed + log.misscount + 1
  BY DEF TraceGapsReported
<1> DEFINE a == log.lines + log.missed + log.misscount
<1>1. PICK n \in Nat : Chained(a, Inbox, n)
  BY DEF IInv, NoGap
<1>2. /\ Len(Inbox) \in Nat /\ Len(Inbox) > 0 /\ Inbox[1] = rx.pkt
  BY InboxType DEF IInv, Shape
<1>3. 1 \in 1 .. Len(Inbox) /\ Inbox[1] = rx.pkt
  BY <1>2
<1> HIDE DEF a
<1>4. PICK T : Gapless(T, Inbox) /\ T[1] = a
  BY <1>1 DEF Chained
<1>5. Inbox[1].v = T[1] + 1
  BY <1>3, <1>4 DEF Gapless, IsStm
<1> QED BY <1>3, <1>4, <1>5 DEF a

=============================================================================
