-------------------------- MODULE OsdHostDataProofs --------------------------
(***************************************************************************)
(* Proofs that the bytes are right: what the library has sent, what it     *)
(* still has to send and what the memory access module has not stored yet  *)
(* together turn the memory into what the calls have written, and a read   *)
(* returns just that.                                                      *)
(***************************************************************************)
EXTENDS OsdHostProofs

(***************************************************************************)
(* The stream of packets to the memory access module, from the module to   *)
(* the steps left of the call: the words it expects next, where they go,   *)
(* and the memory so far.                                                  *)
(***************************************************************************)
StreamState == [flits : Nat, addr : Nat, mem : Bytes]

Settled(mem) == [flits |-> 0, addr |-> 0, mem |-> mem]

MamView == [flits |-> IF mam.state = "WRITE" THEN mam.flits ELSE 0,
            addr |-> IF mam.state = "WRITE" THEN mam.addr ELSE 0,
            mem |-> memory]

WithWords(mem, a, words) == [b \in 0 .. MemSize - 1 |->
    IF b >= a /\ b < a + 2 * Len(words)
    THEN words[(b - a) \div 2 + 1][((b - a) % 2) + 1] ELSE mem[b]]

WithStrobe(mem, q) == [b \in 0 .. MemSize - 1 |->
    IF b - q.addr \in q.strb THEN WithWords(mem, q.addr, q.words)[b] ELSE mem[b]]

WithBytes(mem, a, bytes) == [b \in 0 .. MemSize - 1 |->
    IF b - a + 1 \in 1 .. Len(bytes) THEN bytes[b - a + 1] ELSE mem[b]]

\* What the module does with packet q.
Takes(s, q, u) ==
    \/ ~IsPlain(q) /\ u = s
    \/ IsPlain(q) /\ q.cmd = "get" /\ s.flits = 0 /\ u = s
    \/ IsPlain(q) /\ q.cmd = "single" /\ s.flits = 0 /\ u = [s EXCEPT !.mem = WithStrobe(s.mem, q)]
    \/ /\ IsPlain(q) /\ q.cmd = "burst" /\ s.flits = 0 /\ q.beats > 0
       /\ u = [flits |-> q.beats * (BlockSize \div 2), addr |-> q.addr, mem |-> s.mem]
    \/ /\ IsPlain(q) /\ q.cmd = "data" /\ Len(q.words) \in 1 .. s.flits
       /\ u = [flits |-> s.flits - Len(q.words),
               addr |-> IF Len(q.words) = s.flits THEN 0 ELSE s.addr + 2 * Len(q.words),
               mem |-> WithWords(s.mem, s.addr, q.words)]

\* What a step of the call sends it; w is what has been written.
Sends(w, s, x, u) ==
    \/ x.k = "send" /\ Takes(s, x.pkt, u)
    \/ /\ x.k = "bulk" /\ s.flits = 0
       /\ Len(x.bytes) \in 1 .. BULK_MAX /\ Len(x.bytes) % BlockSize = 0
       /\ u = Settled(WithBytes(s.mem, x.addr, x.bytes))
    \/ x.k \in {"fetch", "result"} /\ s.flits = 0 /\ s.mem = w /\ u = s
    \/ x.k \in {"reg", "handler"} /\ s.flits = 0 /\ u = s

\* The same, as sets of state, packet or step, and next state.
Taking == {t \in StreamState \X DownPacket \X StreamState : Takes(t[1], t[2], t[3])}
Sending(w) == {t \in StreamState \X AnyStep \X StreamState : Sends(w, t[1], t[2], t[3])}

\* The queue q leads from state a to state b.
Path(R, a, q, b) ==
    \E T : /\ T \in [1 .. Len(q) + 1 -> StreamState]
           /\ T[1] = a /\ T[Len(q) + 1] = b
           /\ \A i \in 1 .. Len(q) : <<T[i], q[i], T[i + 1]>> \in R

Streaming(s) ==
    /\ Path(Taking, MamView, down[Mam], s)
    /\ Path(Sending(written), s, api.todo, Settled(written))
    /\ ~connected => s = Settled(written)

Stream == /\ mam.state = "WRITE" => mam.flits > 0
          /\ \E s \in StreamState : Streaming(s)

(***************************************************************************)
(* The buffer of a fetch, and the caller's buffer.                         *)
(***************************************************************************)
\* The words of the fetch are on their way to the host, or with it.
Fetching == AtStep("fetch", "woken") \/ (Waiting("fetch") /\ ~Pending)

Swap(i) == IF i % 2 = 0 THEN i + 1 ELSE i - 1

Buffer ==
    /\ api.todo # <<>> /\ Step.k = "fetch" /\ api.pc # "next" =>
          mem_access.data \in [0 .. Step.n - 1 -> Nat]
    /\ Fetching => \A i \in 0 .. 2 * mem_access.count - 1 :
              mem_access.data[i] = memory[Step.addr + Swap(i)]

\* Fetch f brings byte i of the range that starts at `base`.
Brings(f, i) == f.k = "fetch" /\ f.off <= i /\ i < f.off + f.keep
InPlace(f, base) == f.k = "fetch" /\ f.addr + f.skip - f.off = base

\* Before the buffer is there, its fetches follow the step that allocates it, are
\* in place and bring all of it.
Reads(q) ==
    \A j \in 1 .. Len(q) : q[j].k = "result" =>
        /\ q[j].size > 0
        /\ \A f \in j + 1 .. Len(q) : InPlace(q[f], q[j].addr)
        /\ \A i \in 0 .. q[j].size - 1 : \E f \in j + 1 .. Len(q) : Brings(q[f], i)

Led(q) == \A f \in 1 .. Len(q) : q[f].k = "fetch" => \E j \in 1 .. f - 1 : q[j].k = "result"

\* Then each of its bytes is there or still to come.
Collected ==
    /\ api.result = [addr |-> api.result.addr, data |-> api.result.data]
    /\ api.result.addr \in Nat
    /\ \E n \in Nat \ {0} : api.result.data \in [0 .. n - 1 -> Nat]
    /\ \A f \in 1 .. Len(api.todo) : InPlace(api.todo[f], api.result.addr)
    /\ \A i \in DOMAIN api.result.data :
          \/ api.result.data[i] = written[api.result.addr + i]
          \/ \E f \in 1 .. Len(api.todo) : Brings(api.todo[f], i)
    /\ api.todo = <<>> => /\ mam.state # "WRITE"
                          /\ \A i \in 1 .. Len(down[Mam]) : ~IsPlain(down[Mam][i])

Results == /\ api.result = NoResult => Reads(api.todo) /\ Led(api.todo)
           /\ api.result # NoResult => Collected

DataInv == Stream /\ Buffer /\ Results

-----------------------------------------------------------------------------
(***************************************************************************)
(* Paths.                                                                  *)
(***************************************************************************)

\* The ends of a path are states of the stream.
LEMMA PathEnds ==
  ASSUME NEW R, NEW a, NEW q, NEW b, Len(q) \in Nat, Path(R, a, q, b)
  PROVE  /\ a \in StreamState /\ b \in StreamState
         /\ Len(q) = 0 => a = b
<1>1. PICK T : /\ T \in [1 .. Len(q) + 1 -> StreamState] /\ T[1] = a /\ T[Len(q) + 1] = b
  BY DEF Path
<1>2. 1 \in 1 .. Len(q) + 1 /\ Len(q) + 1 \in 1 .. Len(q) + 1 /\ (Len(q) = 0 => Len(q) + 1 = 1)
  OBVIOUS
<1>3. T[1] \in StreamState /\ T[Len(q) + 1] \in StreamState
  BY <1>1, <1>2
<1> QED BY <1>1, <1>2, <1>3

\* A queue of which no element changes the state is a path from it to itself.
LEMMA PathConst ==
  ASSUME NEW R, NEW a \in StreamState, NEW q, Len(q) \in Nat,
         \A i \in 1 .. Len(q) : <<a, q[i], a>> \in R
  PROVE  Path(R, a, q, a)
<1> DEFINE T == [i \in 1 .. Len(q) + 1 |-> a]
<1>1. T \in [1 .. Len(q) + 1 -> StreamState] /\ \A i \in 1 .. Len(q) + 1 : T[i] = a
  OBVIOUS
<1> HIDE DEF T
<1>2. T[1] = a /\ T[Len(q) + 1] = a
  BY <1>1
<1>3. ASSUME NEW i \in 1 .. Len(q) PROVE <<T[i], q[i], T[i + 1]>> \in R
  <2>1. T[i] = a /\ T[i + 1] = a
    BY <1>1
  <2>2. <<a, q[i], a>> \in R
    OBVIOUS
  <2> QED BY <2>1, <2>2
<1> QED BY <1>1, <1>2, <1>3 DEF Path

\* The empty path.
LEMMA PathNil ==
  ASSUME NEW R, NEW a \in StreamState
  PROVE  Path(R, a, <<>>, a)
<1>1. Len(<<>>) = 0
  OBVIOUS
<1> QED BY <1>1, PathConst

\* A path without its first element starts in the state after it.
LEMMA PathPop ==
  ASSUME NEW R, NEW a, NEW q, NEW t, NEW b, Popped(q, t), Path(R, a, q, b)
  PROVE  \E u \in StreamState : a \in StreamState /\ <<a, q[1], u>> \in R /\ Path(R, u, t, b)
<1>1. Len(q) \in Nat \ {0} /\ Len(t) = Len(q) - 1 /\ \A i \in 1 .. Len(t) : t[i] = q[i + 1]
  BY DEF Popped
<1>2. PICK T : /\ T \in [1 .. Len(q) + 1 -> StreamState] /\ T[1] = a /\ T[Len(q) + 1] = b
               /\ \A i \in 1 .. Len(q) : <<T[i], q[i], T[i + 1]>> \in R
  BY DEF Path
<1> DEFINE U == [i \in 1 .. Len(t) + 1 |-> T[i + 1]]
<1>3. U \in [1 .. Len(t) + 1 -> StreamState] /\ \A i \in 1 .. Len(t) + 1 : U[i] = T[i + 1]
  BY <1>1, <1>2
<1> HIDE DEF U
<1>4. /\ 1 \in 1 .. Len(t) + 1 /\ Len(t) + 1 \in 1 .. Len(t) + 1 /\ (Len(t) + 1) + 1 = Len(q) + 1
      /\ 1 + 1 = 2 /\ 2 \in 1 .. Len(q) + 1 /\ 1 \in 1 .. Len(q) + 1 /\ 1 \in 1 .. Len(q)
  BY <1>1
<1>5. U[1] = T[2] /\ U[Len(t) + 1] = b
  <2>1. U[1] = T[1 + 1] /\ U[Len(t) + 1] = T[(Len(t) + 1) + 1]
    BY <1>3, <1>4
  <2> QED BY <1>2, <1>4, <2>1
<1>6. ASSUME NEW i \in 1 .. Len(t) PROVE <<U[i], t[i], U[i + 1]>> \in R
  <2>1. i + 1 \in 1 .. Len(q) /\ i \in 1 .. Len(t) + 1 /\ i + 1 \in 1 .. Len(t) + 1
    BY <1>1
  <2>2. U[i] = T[i + 1] /\ U[i + 1] = T[(i + 1) + 1] /\ t[i] = q[i + 1]
    BY <1>1, <1>3, <2>1
  <2>3. <<T[i + 1], q[i + 1], T[(i + 1) + 1]>> \in R
    BY <1>2, <2>1
  <2> QED BY <2>2, <2>3
<1>7. Path(R, T[2], t, b)
  BY <1>3, <1>5, <1>6 DEF Path
<1>8. <<T[1], q[1], T[1 + 1]>> \in R
  BY <1>2, <1>4
<1>9. T[2] \in StreamState /\ a \in StreamState
  BY <1>2, <1>4
<1> QED BY <1>2, <1>4, <1>7, <1>8, <1>9

\* A path is extended by a step from its end.
LEMMA PathPush ==
  ASSUME NEW R, NEW a, NEW q, NEW p, NEW t, NEW b, NEW c \in StreamState,
         Pushed(q, p, t), Path(R, a, q, b), <<b, p, c>> \in R
  PROVE  Path(R, a, t, c)
<1>1. Len(q) \in Nat /\ Len(t) = Len(q) + 1 /\ t[Len(q) + 1] = p /\ \A i \in 1 .. Len(q) : t[i] = q[i]
  BY DEF Pushed
<1>2. PICK T : /\ T \in [1 .. Len(q) + 1 -> StreamState] /\ T[1] = a /\ T[Len(q) + 1] = b
               /\ \A i \in 1 .. Len(q) : <<T[i], q[i], T[i + 1]>> \in R
  BY DEF Path
<1> DEFINE U == [i \in 1 .. Len(t) + 1 |-> IF i = Len(t) + 1 THEN c ELSE T[i]]
<1>3. /\ U \in [1 .. Len(t) + 1 -> StreamState]
      /\ \A i \in 1 .. Len(q) + 1 : U[i] = T[i]
      /\ U[Len(t) + 1] = c
  BY <1>1, <1>2
<1> HIDE DEF U
<1>4. ASSUME NEW i \in 1 .. Len(t) PROVE <<U[i], t[i], U[i + 1]>> \in R
  <2>1. CASE i \in 1 .. Len(q)
    <3>1. i \in 1 .. Len(q) + 1 /\ i + 1 \in 1 .. Len(q) + 1
      BY <1>1, <2>1
    <3>2. U[i] = T[i] /\ U[i + 1] = T[i + 1] /\ t[i] = q[i]
      BY <1>1, <1>3, <2>1, <3>1
    <3>3. <<T[i], q[i], T[i + 1]>> \in R
      BY <1>2, <2>1
    <3> QED BY <3>2, <3>3
  <2>2. CASE i = Len(q) + 1
    <3>1. i \in 1 .. Len(q) + 1 /\ i + 1 = Len(t) + 1
      BY <1>1, <2>2
    <3>2. U[i] = b /\ U[i + 1] = c /\ t[i] = p
      BY <1>1, <1>2, <1>3, <2>2, <3>1
    <3> QED BY <3>2
  <2> QED BY <1>1, <2>1, <2>2
<1>5. U[1] = a
  <2>1. 1 \in 1 .. Len(q) + 1
    BY <1>1
  <2> QED BY <1>2, <1>3, <2>1
<1> QED BY <1>3, <1>4, <1>5 DEF Path

\* Two paths that meet are one.
LEMMA PathConcat ==
  ASSUME NEW R, NEW S, NEW q \in Seq(S), NEW t \in Seq(S), NEW a, NEW b, NEW c,
         Path(R, a, q, b), Path(R, b, t, c)
  PROVE  Path(R, a, q \o t, c)
<1> DEFINE m == Len(q)
           n == Len(t)
           x == q \o t
<1>1. /\ m \in Nat /\ n \in Nat /\ Len(x) = m + n
      /\ \A i \in 1 .. m + n : x[i] = IF i <= m THEN q[i] ELSE t[i - m]
  BY ConcatProperties
<1>2. PICK T : /\ T \in [1 .. m + 1 -> StreamState] /\ T[1] = a /\ T[m + 1] = b
               /\ \A i \in 1 .. m : <<T[i], q[i], T[i + 1]>> \in R
  BY DEF Path
<1>3. PICK V : /\ V \in [1 .. n + 1 -> StreamState] /\ V[1] = b /\ V[n + 1] = c
               /\ \A i \in 1 .. n : <<V[i], t[i], V[i + 1]>> \in R
  BY DEF Path
<1> HIDE DEF m, n, x
<1> DEFINE U == [i \in 1 .. (m + n) + 1 |-> IF i <= m THEN T[i] ELSE V[i - m]]
<1>4. /\ U \in [1 .. (m + n) + 1 -> StreamState]
      /\ \A i \in 1 .. m : U[i] = T[i]
      /\ \A i \in 1 .. n + 1 : U[m + i] = V[i]
  BY <1>1, <1>2, <1>3
<1> HIDE DEF U
<1>5. U[m + 1] = b
  <2>1. 1 \in 1 .. n + 1
    BY <1>1
  <2> QED BY <1>3, <1>4, <2>1
<1>6. U[1] = a
  <2>1. CASE m = 0
    <3>1. m + 1 = 1
      BY <2>1
    <3> QED BY <1>2, <1>5, <3>1
  <2>2. CASE m # 0
    <3>1. 1 \in 1 .. m
      BY <1>1, <2>2
    <3> QED BY <1>2, <1>4, <3>1
  <2> QED BY <2>1, <2>2
<1>7. U[(m + n) + 1] = c
  <2>1. n + 1 \in 1 .. n + 1 /\ m + (n + 1) = (m + n) + 1
    BY <1>1
  <2>2. U[m + (n + 1)] = V[n + 1]
    BY <1>4, <2>1
  <2> QED BY <1>3, <2>1, <2>2
<1>8. ASSUME NEW i \in 1 .. m + n PROVE <<U[i], x[i], U[i + 1]>> \in R
  <2>1. CASE i < m
    <3>1. i \in 1 .. m /\ i + 1 \in 1 .. m
      BY <1>1, <2>1
    <3>2. U[i] = T[i] /\ U[i + 1] = T[i + 1] /\ x[i] = q[i]
      BY <1>1, <1>4, <2>1, <3>1
    <3>3. <<T[i], q[i], T[i + 1]>> \in R
      BY <1>2, <3>1
    <3> QED BY <3>2, <3>3
  <2>2. CASE i = m
    <3>1. m \in 1 .. m
      BY <1>1, <2>2
    <3>2. U[m] = T[m] /\ x[m] = q[m]
      BY <1>1, <1>4, <2>2, <3>1
    <3>3. <<T[m], q[m], T[m + 1]>> \in R
      BY <1>2, <3>1
    <3> QED BY <1>2, <1>5, <2>2, <3>2, <3>3
  <2>3. CASE i > m
    <3> DEFINE j == i - m
    <3>1. j \in 1 .. n /\ j \in 1 .. n + 1 /\ j + 1 \in 1 .. n + 1 /\ m + j = i /\ m + (j + 1) = i + 1
      BY <1>1, <2>3
    <3>2. x[i] = t[j]
      BY <1>1, <2>3
    <3> HIDE DEF j
    <3>3. U[m + j] = V[j] /\ U[m + (j + 1)] = V[j + 1]
      BY <1>4, <3>1
    <3>4. <<V[j], t[j], V[j + 1]>> \in R
      BY <1>3, <3>1
    <3> QED BY <3>1, <3>2, <3>3, <3>4
  <2> QED BY <1>1, <2>1, <2>2, <2>3
<1>9. Path(R, a, x, c)
  BY <1>1, <1>4, <1>6, <1>7, <1>8 DEF Path
<1> QED BY <1>9 DEF x

\* A step is a path.
LEMMA PathOne ==
  ASSUME NEW R, NEW a \in StreamState, NEW b \in StreamState, NEW x, <<a, x, b>> \in R
  PROVE  Path(R, a, <<x>>, b)
<1>1. Path(R, a, <<>>, a)
  BY PathNil
<1>2. Pushed(<<>>, x, <<x>>)
  BY DEF Pushed
<1> QED BY <1>1, <1>2, PathPush

(***************************************************************************)
(* Memories.                                                               *)
(***************************************************************************)

\* The memory after the first c of these bytes.
Upto(mem, a, bytes, c) == [b \in 0 .. MemSize - 1 |->
    IF b - a + 1 \in 1 .. c THEN bytes[b - a + 1] ELSE mem[b]]

\* A memory into which none, or all, of the bytes have been written.
LEMMA UptoFacts ==
  ASSUME NEW mem \in Bytes, NEW a \in Nat, NEW bytes \in Seq(Nat)
  PROVE  /\ \A c \in 0 .. Len(bytes) : Upto(mem, a, bytes, c) \in Bytes
         /\ Upto(mem, a, bytes, 0) = mem
         /\ Upto(mem, a, bytes, Len(bytes)) = WithBytes(mem, a, bytes)
         /\ WithBytes(mem, a, bytes) \in Bytes
<1>1. MemSize \in Nat /\ Len(bytes) \in Nat
  BY Sizes
<1>2. \A b \in 0 .. MemSize - 1 : mem[b] \in Nat
  BY DEF Bytes
<1>3. ASSUME NEW c \in 0 .. Len(bytes) PROVE Upto(mem, a, bytes, c) \in Bytes
  <2>1. \A b \in 0 .. MemSize - 1 :
           (IF b - a + 1 \in 1 .. c THEN bytes[b - a + 1] ELSE mem[b]) \in Nat
    <3> SUFFICES ASSUME NEW b \in 0 .. MemSize - 1, b - a + 1 \in 1 .. c PROVE bytes[b - a + 1] \in Nat
      BY <1>2
    <3>1. b - a + 1 \in 1 .. Len(bytes)
      BY <1>1
    <3> QED BY <3>1, ElementOfSeq
  <2> QED BY <2>1 DEF Upto, Bytes
<1>4. Upto(mem, a, bytes, 0) = mem
  <2>1. \A b \in 0 .. MemSize - 1 : ~(b - a + 1 \in 1 .. 0)
    BY <1>1
  <2>2. mem = [b \in 0 .. MemSize - 1 |-> mem[b]]
    BY DEF Bytes
  <2> QED BY <2>1, <2>2 DEF Upto
<1>5. Upto(mem, a, bytes, Len(bytes)) = WithBytes(mem, a, bytes)
  BY Zenon DEF Upto, WithBytes
<1>6. Len(bytes) \in 0 .. Len(bytes)
  BY <1>1
<1> QED BY <1>3, <1>4, <1>5, <1>6

\* Writing the next bytes to a memory that has the first c gives one that has d.
LEMMA UptoBytes ==
  ASSUME NEW mem \in Bytes, NEW a \in Nat, NEW bytes \in Seq(Nat), NEW c \in Nat, NEW d \in Nat,
         c <= d, d <= Len(bytes)
  PROVE  WithBytes(Upto(mem, a, bytes, c), a + c, SubSeq(bytes, c + 1, d)) = Upto(mem, a, bytes, d)
<1> DEFINE m == c + 1
           v == SubSeq(bytes, m, d)
           u == Upto(mem, a, bytes, c)
<1>1. m \in Nat /\ 1 <= m /\ m <= d + 1 /\ MemSize \in Nat /\ d - m + 1 = d - c
  BY Sizes
<1>2. Len(v) = d - c /\ \A i \in 1 .. d - c : v[i] = bytes[c + i]
  <2>1. Len(v) = d - m + 1 /\ \A i \in 1 .. d - m + 1 : v[i] = bytes[m + i - 1]
    <3> HIDE DEF m
    <3> QED BY <1>1, PartType
  <2>2. \A i \in 1 .. d - c : m + i - 1 = c + i
    OBVIOUS
  <2> HIDE DEF v
  <2> QED BY <1>1, <2>1, <2>2
<1> HIDE DEF v
<1>3. ASSUME NEW b \in 0 .. MemSize - 1
      PROVE  (IF b - (a + c) + 1 \in 1 .. Len(v) THEN v[b - (a + c) + 1] ELSE u[b])
               = IF b - a + 1 \in 1 .. d THEN bytes[b - a + 1] ELSE mem[b]
  <2> DEFINE x == b - a + 1
             y == b - (a + c) + 1
  <2>1. x \in Int /\ y = x - c /\ y \in Int
    OBVIOUS
  <2>2. u[b] = IF x \in 1 .. c THEN bytes[x] ELSE mem[b]
    BY DEF Upto
  <2> HIDE DEF x, y, u
  <2>3. CASE y \in 1 .. Len(v)
    <3>1. y \in 1 .. d - c /\ x = c + y /\ x \in 1 .. d
      BY <1>2, <2>1, <2>3
    <3>2. v[y] = bytes[c + y]
      BY <1>2, <3>1
    <3>3. v[y] = bytes[x]
      BY <3>1, <3>2
    <3>4. (IF y \in 1 .. Len(v) THEN v[y] ELSE u[b]) = IF x \in 1 .. d THEN bytes[x] ELSE mem[b]
      BY <2>3, <3>1, <3>3
    <3> QED BY <3>4 DEF x, y
  <2>4. CASE ~(y \in 1 .. Len(v))
    <3>1. x \in 1 .. d <=> x \in 1 .. c
      BY <1>2, <2>1, <2>4
    <3>2. (IF y \in 1 .. Len(v) THEN v[y] ELSE u[b]) = IF x \in 1 .. d THEN bytes[x] ELSE mem[b]
      BY <2>2, <2>4, <3>1
    <3> QED BY <3>2 DEF x, y
  <2> QED BY <2>3, <2>4
<1>4. WithBytes(u, a + c, v) = Upto(mem, a, bytes, d)
  BY <1>3, Zenon DEF WithBytes, Upto
<1> QED BY <1>4 DEF v, m

\* A byte of a word.
LEMMA WordAt ==
  ASSUME NEW bytes \in Seq(Nat), NEW c \in Nat, NEW d \in Nat, c <= d, 2 * d <= Len(bytes),
         NEW x \in 0 .. 2 * (d - c) - 1
  PROVE  /\ Len(SubSeq(Words(bytes), c + 1, d)) = d - c
         /\ SubSeq(Words(bytes), c + 1, d)[x \div 2 + 1][(x % 2) + 1] = bytes[2 * c + x + 1]
<1> DEFINE w == Words(bytes)
           m == c + 1
           v == SubSeq(w, m, d)
           h == x \div 2
           l == x % 2
<1>1. w \in Seq(Word) /\ Len(w) = Len(bytes) \div 2
      /\ \A i \in 1 .. Len(bytes) \div 2 : w[i] = <<bytes[2 * i - 1], bytes[2 * i]>>
  BY WordsType
<1>2. d <= Len(bytes) \div 2 /\ Len(bytes) \div 2 \in Nat
  OBVIOUS
<1>3. m \in Nat /\ 1 <= m /\ m <= d + 1 /\ d - m + 1 = d - c /\ d <= Len(w)
  BY <1>1, <1>2
<1> HIDE DEF w
<1>4. Len(v) = d - c /\ \A i \in 1 .. d - c : v[i] = w[c + i]
  <2>1. Len(v) = d - m + 1 /\ \A i \in 1 .. d - m + 1 : v[i] = w[m + i - 1]
    <3> HIDE DEF m
    <3> QED BY <1>1, <1>3, PartType
  <2>2. \A i \in 1 .. d - c : m + i - 1 = c + i
    OBVIOUS
  <2> HIDE DEF v
  <2> QED BY <1>3, <2>1, <2>2
<1> HIDE DEF v
<1>5. h \in Nat /\ l \in {0, 1} /\ x = 2 * h + l
  OBVIOUS
<1> HIDE DEF h, l
<1>6. h + 1 \in 1 .. d - c /\ c + (h + 1) \in 1 .. Len(bytes) \div 2
  <2>1. h + 1 <= d - c
    BY <1>5
  <2> QED BY <1>2, <1>5, <2>1
<1>7. v[h + 1] = w[c + (h + 1)]
  BY <1>4, <1>6
<1> DEFINE k == c + (h + 1)
<1>8. w[k] = <<bytes[2 * k - 1], bytes[2 * k]>>
  BY <1>1, <1>6
<1>9. k \in Int /\ 2 * k - 1 = 2 * c + 2 * h + 1 /\ 2 * k = 2 * c + 2 * h + 2
  BY <1>5
<1> HIDE DEF k
<1>10. v[h + 1] = <<bytes[2 * k - 1], bytes[2 * k]>>
  BY <1>7, <1>8 DEF k
<1>11. v[h + 1][l + 1] = bytes[2 * c + x + 1]
  <2>1. CASE l = 0
    <3>1. 2 * k - 1 = 2 * c + x + 1 /\ l + 1 = 1
      BY <1>5, <1>9, <2>1
    <3>2. v[h + 1][1] = bytes[2 * k - 1]
      BY <1>10
    <3> QED BY <3>1, <3>2
  <2>2. CASE l = 1
    <3>1. 2 * k = 2 * c + x + 1 /\ l + 1 = 2
      BY <1>5, <1>9, <2>2
    <3>2. v[h + 1][2] = bytes[2 * k]
      BY <1>10
    <3> QED BY <3>1, <3>2
  <2> QED BY <1>5, <2>1, <2>2
<1> QED BY <1>4, <1>11 DEF v, w, h, l

\* The same for the words of a packet.
LEMMA UptoWords ==
  ASSUME NEW mem \in Bytes, NEW a \in Nat, NEW bytes \in Seq(Nat), NEW c \in Nat, NEW d \in Nat,
         c < d, 2 * d <= Len(bytes)
  PROVE  /\ WithWords(Upto(mem, a, bytes, 2 * c), a + 2 * c, SubSeq(Words(bytes), c + 1, d))
              = Upto(mem, a, bytes, 2 * d)
         /\ Len(SubSeq(Words(bytes), c + 1, d)) = d - c
<1> DEFINE v == SubSeq(Words(bytes), c + 1, d)
           u == Upto(mem, a, bytes, 2 * c)
<1>1. MemSize \in Nat /\ 2 * c \in Nat /\ 2 * d \in Nat /\ 0 \in 0 .. 2 * (d - c) - 1
  BY Sizes
<1>2. Len(v) = d - c
  BY <1>1, WordAt
<1>3. ASSUME NEW x \in 0 .. 2 * (d - c) - 1
      PROVE  v[x \div 2 + 1][(x % 2) + 1] = bytes[2 * c + x + 1]
  <2>1. c <= d
    OBVIOUS
  <2> QED BY <2>1, WordAt
<1> HIDE DEF v
<1>4. ASSUME NEW b \in 0 .. MemSize - 1
      PROVE  (IF b >= a + 2 * c /\ b < (a + 2 * c) + 2 * Len(v)
              THEN v[(b - (a + 2 * c)) \div 2 + 1][((b - (a + 2 * c)) % 2) + 1] ELSE u[b])
               = IF b - a + 1 \in 1 .. 2 * d THEN bytes[b - a + 1] ELSE mem[b]
  <2> DEFINE y == b - (a + 2 * c)
             z == b - a + 1
  <2>1. y \in Int /\ z \in Int /\ z = 2 * c + y + 1
    OBVIOUS
  <2>2. u[b] = IF z \in 1 .. 2 * c THEN bytes[z] ELSE mem[b]
    BY DEF Upto
  <2>3. (b >= a + 2 * c /\ b < (a + 2 * c) + 2 * Len(v)) <=> y \in 0 .. 2 * (d - c) - 1
    BY <1>1, <1>2
  <2> HIDE DEF y, z, u
  <2>4. CASE y \in 0 .. 2 * (d - c) - 1
    <3>1. v[y \div 2 + 1][(y % 2) + 1] = bytes[2 * c + y + 1]
      BY <1>3, <2>4
    <3>2. z \in 1 .. 2 * d
      BY <2>1, <2>4
    <3>3. v[y \div 2 + 1][(y % 2) + 1] = bytes[z]
      BY <2>1, <3>1
    <3> QED BY <2>3, <2>4, <3>2, <3>3, Zenon DEF y, z
  <2>5. CASE ~(y \in 0 .. 2 * (d - c) - 1)
    <3>1. z \in 1 .. 2 * d <=> z \in 1 .. 2 * c
      BY <2>1, <2>5
    <3>2. u[b] = IF z \in 1 .. 2 * d THEN bytes[z] ELSE mem[b]
      BY <2>2, <3>1
    <3> QED BY <2>3, <2>5, <3>2, Zenon DEF y, z
  <2> QED BY <2>4, <2>5
<1>5. WithWords(u, a + 2 * c, v) = Upto(mem, a, bytes, 2 * d)
  BY <1>4, Zenon DEF WithWords, Upto
<1> QED BY <1>2, <1>5 DEF v

\* The steps of the two relations.
LEMMA TakingStep ==
  ASSUME NEW s, NEW q, NEW u
  PROVE  <<s, q, u>> \in Taking <=> /\ s \in StreamState /\ q \in DownPacket /\ u \in StreamState
                                    /\ Takes(s, q, u)
<1> DEFINE t == <<s, q, u>>
<1>1. t[1] = s /\ t[2] = q /\ t[3] = u
  OBVIOUS
<1>2. t \in StreamState \X DownPacket \X StreamState <=>
         s \in StreamState /\ q \in DownPacket /\ u \in StreamState
  OBVIOUS
<1> HIDE DEF t
<1>3. t \in Taking <=> t \in StreamState \X DownPacket \X StreamState /\ Takes(t[1], t[2], t[3])
  BY Zenon DEF Taking
<1>4. Takes(t[1], t[2], t[3]) <=> Takes(s, q, u)
  BY <1>1
<1> QED BY <1>2, <1>3, <1>4 DEF t

\* A step of the call as a step of a path.
LEMMA SendingStep ==
  ASSUME NEW w, NEW s, NEW x, NEW u
  PROVE  <<s, x, u>> \in Sending(w) <=> /\ s \in StreamState /\ x \in AnyStep /\ u \in StreamState
                                        /\ Sends(w, s, x, u)
<1> DEFINE t == <<s, x, u>>
<1>1. t[1] = s /\ t[2] = x /\ t[3] = u
  OBVIOUS
<1>2. t \in StreamState \X AnyStep \X StreamState <=>
         s \in StreamState /\ x \in AnyStep /\ u \in StreamState
  OBVIOUS
<1> HIDE DEF t
<1>3. t \in Sending(w) <=> t \in StreamState \X AnyStep \X StreamState /\ Sends(w, t[1], t[2], t[3])
  BY Zenon DEF Sending
<1>4. Sends(w, t[1], t[2], t[3]) <=> Sends(w, s, x, u)
  BY <1>1
<1> QED BY <1>2, <1>3, <1>4 DEF t

\* The state of the stream between accesses.
LEMMA SettledType ==
  ASSUME NEW mem \in Bytes
  PROVE  Settled(mem) \in StreamState /\ Settled(mem).flits = 0 /\ Settled(mem).addr = 0 /\ Settled(mem).mem = mem
BY DEF Settled, StreamState

\* A single access writes its bytes.
LEMMA SingleEffect ==
  ASSUME NEW w, NEW mem \in Bytes, NEW a \in Nat, NEW bytes \in Seq(Nat),
         (a % BlockSize) + Len(bytes) <= BlockSize
  PROVE  Path(Sending(w), Settled(mem), memory_write_single(a, bytes), Settled(WithBytes(mem, a, bytes)))
<1> DEFINE B == BlockSize
           r == a % B
           block == [i \in 1 .. B |-> IF i - r \in DOMAIN bytes THEN bytes[i - r] ELSE 0]
           strb == {i \in 0 .. B - 1 : i >= r /\ i < r + Len(bytes)}
           x == ToMam("single", a - r, strb, 1, Words(block))
           base == a - r
<1>1. B \in Nat \ {0} /\ B = 2 * (B \div 2) /\ B \div 2 \in Nat /\ MemSize \in Nat
  BY Sizes
<1>2. r \in 0 .. B - 1 /\ base \in Nat
  <2> DEFINE d == a \div B
  <2>1. d \in Nat /\ r \in 0 .. B - 1 /\ a = B * d + r
    BY <1>1, NatDivMod
  <2> HIDE DEF d, r
  <2>2. B * d \in Nat
    BY <1>1, <2>1
  <2> QED BY <2>1, <2>2
<1>3. Len(bytes) \in Nat /\ DOMAIN bytes = 1 .. Len(bytes) /\ r + Len(bytes) <= B
  OBVIOUS
<1> HIDE DEF r
<1>4. block \in Seq(Nat) /\ Len(block) = B /\ \A i \in 1 .. B : block[i] = IF i - r \in 1 .. Len(bytes) THEN bytes[i - r] ELSE 0
  <2>1. \A i \in 1 .. B : (IF i - r \in DOMAIN bytes THEN bytes[i - r] ELSE 0) \in Nat
    OBVIOUS
  <2>2. block \in Seq(Nat) /\ Len(block) = B
    BY <1>1, <2>1
  <2> QED BY <1>3, <2>2
<1>5. memory_write_single(a, bytes) = <<x>>
  BY Zenon DEF memory_write_single, x, strb, block, r
<1>6. x \in SendStep
  <2>1. memory_write_single(a, bytes) \in Seq(SendStep)
    BY SingleType
  <2>2. <<x>> \in Seq(SendStep) /\ Len(<<x>>) = 1 /\ <<x>>[1] = x
    BY <1>5, <2>1, Zenon
  <2> HIDE DEF x
  <2> QED BY <2>2, ElementOfSeq
<1> HIDE DEF block, base
<1>7. \A y \in 0 .. B - 1 : Words(block)[y \div 2 + 1][(y % 2) + 1] = block[y + 1]
  <2> SUFFICES ASSUME NEW y \in 0 .. B - 1
               PROVE  Words(block)[y \div 2 + 1][(y % 2) + 1] = block[y + 1]
    OBVIOUS
  <2> DEFINE H == B \div 2
  <2>1. H \in Nat /\ 0 \in Nat /\ 0 <= H /\ 2 * H <= Len(block) /\ 2 * (H - 0) - 1 = B - 1
    BY <1>1, <1>4
  <2>2. Words(block) \in Seq(Word) /\ Len(Words(block)) = H
    BY <1>4, WordsType
  <2> HIDE DEF H
  <2>3. y \in 0 .. 2 * (H - 0) - 1
    BY <2>1
  <2>4. SubSeq(Words(block), 0 + 1, H)[y \div 2 + 1][(y % 2) + 1] = block[2 * 0 + y + 1]
    <3> HIDE DEF B
    <3>1. block \in Seq(Nat) /\ H \in Nat /\ 0 \in Nat /\ 0 <= H /\ 2 * H <= Len(block)
      BY <1>4, <2>1
    <3> QED BY ONLY <2>3, <3>1, WordAt
  <2>5. 0 + 1 = 1 /\ 2 * 0 + y + 1 = y + 1
    OBVIOUS
  <2>6. SubSeq(Words(block), 1, H) = Words(block)
    <3> DEFINE v == Words(block)
    <3>1. v \in Seq(Word) /\ Len(v) = H
      BY <2>2
    <3> HIDE DEF v
    <3>2. 1 \in Nat /\ 1 <= 1 /\ H <= Len(v) /\ 1 <= H + 1 /\ H - 1 + 1 = H
      BY <2>1, <3>1
    <3> DEFINE t == SubSeq(v, 1, H)
    <3>3. t \in Seq(Word) /\ Len(t) = H - 1 + 1 /\ \A i \in 1 .. H - 1 + 1 : t[i] = v[1 + i - 1]
      BY <2>1, <3>1, <3>2, PartType
    <3> HIDE DEF t
    <3>4. \A i \in 1 .. H : 1 + i - 1 = i
      OBVIOUS
    <3>5. Len(t) = Len(v) /\ \A i \in 1 .. Len(t) : t[i] = v[i]
      BY <3>1, <3>2, <3>3, <3>4
    <3>6. t = v
      BY <3>1, <3>3, <3>5, SeqEqual
    <3> QED BY <3>6 DEF t, v
  <2> QED BY <2>4, <2>5, <2>6
<1>8. Len(Words(block)) = B \div 2
  BY <1>4, WordsType
<1>9. ASSUME NEW b \in 0 .. MemSize - 1
      PROVE  (IF b - base \in strb THEN WithWords(mem, base, Words(block))[b] ELSE mem[b])
               = IF b - a + 1 \in 1 .. Len(bytes) THEN bytes[b - a + 1] ELSE mem[b]
  <2> DEFINE y == b - base
             z == b - a + 1
  <2>1. y \in Int /\ z \in Int /\ z = y + 1 - r
    BY <1>2 DEF base
  <2>2. y \in strb <=> y \in 0 .. B - 1 /\ y >= r /\ y < r + Len(bytes)
    OBVIOUS
  <2>3. y \in strb <=> z \in 1 .. Len(bytes)
    <3> HIDE DEF y, z, strb
    <3> QED BY <1>1, <1>2, <1>3, <2>1, <2>2
  <2>4. CASE y \in strb
    <3>1. y \in 0 .. B - 1 /\ y + 1 \in 1 .. B /\ (y + 1) - r = z
      <4> HIDE DEF y, z, strb
      <4>1. y \in 0 .. B - 1
        BY <2>2, <2>4
      <4> QED BY <1>1, <1>2, <2>1, <4>1
    <3>2. WithWords(mem, base, Words(block))[b]
            = IF b >= base /\ b < base + 2 * Len(Words(block))
              THEN Words(block)[y \div 2 + 1][(y % 2) + 1] ELSE mem[b]
      BY DEF WithWords
    <3>3. b >= base /\ b < base + 2 * Len(Words(block))
      BY <1>1, <1>2, <1>8, <3>1
    <3>4. block[y + 1] = bytes[z]
      <4> HIDE DEF y, z, strb
      <4> QED BY <1>4, <2>3, <2>4, <3>1
    <3>5. WithWords(mem, base, Words(block))[b] = bytes[z]
      BY <1>7, <3>1, <3>2, <3>3, <3>4
    <3> QED BY <2>3, <2>4, <3>5
  <2>5. CASE y \notin strb
    BY <2>3, <2>5
  <2> QED BY <2>4, <2>5
<1> HIDE DEF strb
<1> DEFINE q == x.pkt
<1>10. q = [mod |-> Mam, kind |-> "plain", cmd |-> "single", addr |-> base, strb |-> strb, beats |-> 1, words |-> Words(block)]
       /\ x.k = "send"
  BY DEF ToMam, base
<1> HIDE DEF x
<1>11. q.kind = "plain" /\ q.cmd = "single" /\ q.addr = base /\ q.strb = strb /\ q.words = Words(block)
  BY <1>10
<1> HIDE DEF q
<1>12. WithStrobe(mem, q) = WithBytes(mem, a, bytes)
  <2>1. WithStrobe(mem, q) = [b \in 0 .. MemSize - 1 |->
           IF b - base \in strb THEN WithWords(mem, base, Words(block))[b] ELSE mem[b]]
    BY <1>11 DEF WithStrobe
  <2>2. WithBytes(mem, a, bytes) = [b \in 0 .. MemSize - 1 |->
           IF b - a + 1 \in 1 .. Len(bytes) THEN bytes[b - a + 1] ELSE mem[b]]
    BY DEF WithBytes
  <2> QED BY <1>9, <2>1, <2>2, Zenon
<1> DEFINE s == Settled(mem)
           n == WithBytes(mem, a, bytes)
           u == Settled(n)
<1>13. n \in Bytes
  BY UptoFacts
<1>14. Takes(s, q, u)
  <2>1. s.flits = 0 /\ s.mem = mem /\ s = [flits |-> 0, addr |-> 0, mem |-> mem]
    BY DEF Settled
  <2>2. u = [s EXCEPT !.mem = WithStrobe(s.mem, q)]
    <3>1. u = [flits |-> 0, addr |-> 0, mem |-> n]
      BY DEF Settled
    <3>2. WithStrobe(s.mem, q) = n
      BY <1>12, <2>1
    <3> HIDE DEF s, u, n
    <3> QED BY <2>1, <3>1, <3>2
  <2> HIDE DEF s, u
  <2> QED BY <1>11, <2>1, <2>2 DEF Takes, IsPlain
<1>15. s \in StreamState /\ u \in StreamState
  <2> HIDE DEF n
  <2> QED BY <1>13, SettledType
<1> HIDE DEF s, u
<1>16. Sends(w, s, x, u)
  BY <1>10, <1>14 DEF Sends, q
<1>17. x \in AnyStep
  BY <1>6 DEF AnyStep
<1>18. <<s, x, u>> \in Sending(w)
  BY <1>15, <1>16, <1>17, SendingStep
<1>19. Path(Sending(w), s, <<x>>, u)
  BY <1>15, <1>18, PathOne
<1> QED BY <1>5, <1>19 DEF s, u

\* In the middle of a burst of these bytes, after c words.
Mid(mem, a, bytes, c) ==
    [flits |-> (Len(bytes) \div 2) - c,
     addr |-> IF c = Len(bytes) \div 2 THEN 0 ELSE a + 2 * c,
     mem |-> Upto(mem, a, bytes, 2 * c)]

\* The states of the stream in the middle of a burst, and at its ends.
LEMMA MidFacts ==
  ASSUME NEW mem \in Bytes, NEW a \in Nat, NEW bytes \in Seq(Nat), NEW L \in Nat, Len(bytes) = 2 * L
  PROVE  /\ \A c \in 0 .. L : Mid(mem, a, bytes, c) \in StreamState
         /\ Mid(mem, a, bytes, L) = Settled(WithBytes(mem, a, bytes))
         /\ L > 0 => Mid(mem, a, bytes, 0) = [flits |-> L, addr |-> a, mem |-> mem]
<1>1. Len(bytes) \div 2 = L
  OBVIOUS
<1>2. ASSUME NEW c \in 0 .. L PROVE Mid(mem, a, bytes, c) \in StreamState
  <2> DEFINE u == Upto(mem, a, bytes, 2 * c)
             d == IF c = L THEN 0 ELSE a + 2 * c
  <2>1. 2 * c \in 0 .. Len(bytes)
    OBVIOUS
  <2>2. u \in Bytes
    BY <2>1, UptoFacts
  <2>3. d \in Nat /\ L - c \in Nat
    OBVIOUS
  <2>4. Mid(mem, a, bytes, c) = [flits |-> L - c, addr |-> d, mem |-> u]
    BY <1>1, Zenon DEF Mid
  <2> HIDE DEF u, d
  <2> QED BY <2>2, <2>3, <2>4 DEF StreamState
<1>3. Mid(mem, a, bytes, L) = Settled(WithBytes(mem, a, bytes))
  <2>1. L - L = 0 /\ 2 * L = Len(bytes)
    OBVIOUS
  <2>2. Upto(mem, a, bytes, 2 * L) = WithBytes(mem, a, bytes)
    BY <2>1, UptoFacts
  <2>3. Mid(mem, a, bytes, L) = [flits |-> L - L, addr |-> 0, mem |-> Upto(mem, a, bytes, 2 * L)]
    BY <1>1, Zenon DEF Mid
  <2> QED BY <2>1, <2>2, <2>3 DEF Settled
<1>4. ASSUME L > 0 PROVE Mid(mem, a, bytes, 0) = [flits |-> L, addr |-> a, mem |-> mem]
  <2>1. L - 0 = L /\ 2 * 0 = 0 /\ a + 2 * 0 = a /\ 0 # L
    BY <1>4
  <2>2. Upto(mem, a, bytes, 2 * 0) = mem
    BY <2>1, UptoFacts
  <2>3. Mid(mem, a, bytes, 0) = [flits |-> L - 0, addr |-> IF 0 = L THEN 0 ELSE a + 2 * 0, mem |-> Upto(mem, a, bytes, 2 * 0)]
    BY <1>1, Zenon DEF Mid
  <2> QED BY <2>1, <2>2, <2>3
<1> QED BY <1>2, <1>3, <1>4

\* A packet of data from word c on to word d.
LEMMA DataEffect ==
  ASSUME NEW w, NEW mem \in Bytes, NEW a \in Nat, NEW bytes \in Seq(Nat), NEW L \in Nat, Len(bytes) = 2 * L,
         NEW c \in Nat, NEW d \in Nat, c < d, d <= L
  PROVE  <<Mid(mem, a, bytes, c), ToMam("data", 0, {}, 0, SubSeq(Words(bytes), c + 1, d)), Mid(mem, a, bytes, d)>>
            \in Sending(w)
<1> DEFINE v == SubSeq(Words(bytes), c + 1, d)
           x == ToMam("data", 0, {}, 0, v)
           s == Mid(mem, a, bytes, c)
           u == Mid(mem, a, bytes, d)
           mc == Upto(mem, a, bytes, 2 * c)
           md == Upto(mem, a, bytes, 2 * d)
<1>1. Len(bytes) \div 2 = L /\ 2 * d <= Len(bytes) /\ c # L /\ L - c \in Nat /\ L - d \in Nat
  OBVIOUS
<1>2. WithWords(mc, a + 2 * c, v) = md /\ Len(v) = d - c
  BY <1>1, UptoWords
<1>3. v \in Seq(Word)
  <2> DEFINE z == Words(bytes)
  <2>1. z \in Seq(Word) /\ Len(z) = L
    BY <1>1, WordsType
  <2> HIDE DEF z
  <2>2. c + 1 \in Nat /\ 1 <= c + 1 /\ d <= Len(z) /\ c + 1 <= d + 1
    BY <2>1
  <2>3. SubSeq(z, c + 1, d) \in Seq(Word)
    BY <2>1, <2>2, PartType
  <2> QED BY <2>3 DEF z
<1>4. s \in StreamState /\ u \in StreamState
  <2>1. c \in 0 .. L /\ d \in 0 .. L
    OBVIOUS
  <2> QED BY <2>1, MidFacts
<1>5. s = [flits |-> L - c, addr |-> a + 2 * c, mem |-> mc]
  BY <1>1, Zenon DEF Mid
<1>6. u = [flits |-> L - d, addr |-> IF d = L THEN 0 ELSE a + 2 * d, mem |-> md]
  BY <1>1, Zenon DEF Mid
<1> HIDE DEF v, s, u, mc, md
<1> DEFINE q == x.pkt
<1>7. q = [mod |-> Mam, kind |-> "plain", cmd |-> "data", addr |-> 0, strb |-> {}, beats |-> 0, words |-> v]
      /\ x.k = "send" /\ x = [k |-> "send", pkt |-> q]
  BY DEF ToMam
<1>8. x \in AnyStep
  <2>1. q \in MamPacket /\ q.cmd = "data"
    BY <1>3, <1>7 DEF MamPacket
  <2> HIDE DEF x, q
  <2>2. x \in SendStep
    BY <1>7, <2>1 DEF SendStep
  <2> QED BY <2>2 DEF AnyStep
<1> HIDE DEF x, q
<1>9. q.kind = "plain" /\ q.cmd = "data" /\ q.words = v
  BY <1>7
<1>10. Takes(s, q, u)
  <2>1. s.flits = L - c /\ s.addr = a + 2 * c /\ s.mem = mc
    BY <1>5
  <2>2. Len(q.words) = d - c /\ Len(q.words) \in 1 .. s.flits
    BY <1>2, <1>9, <2>1
  <2>3. s.flits - Len(q.words) = L - d /\ s.addr + 2 * Len(q.words) = a + 2 * d
    BY <2>1, <2>2
  <2>4. Len(q.words) = s.flits <=> d = L
    BY <2>1, <2>2
  <2>5. WithWords(s.mem, s.addr, q.words) = md
    BY <1>2, <1>9, <2>1
  <2>6. u = [flits |-> s.flits - Len(q.words),
             addr |-> IF Len(q.words) = s.flits THEN 0 ELSE s.addr + 2 * Len(q.words),
             mem |-> WithWords(s.mem, s.addr, q.words)]
    BY <1>6, <2>3, <2>4, <2>5
  <2> QED BY <1>9, <2>2, <2>6 DEF Takes, IsPlain
<1>11. Sends(w, s, x, u)
  BY <1>7, <1>10 DEF Sends, q
<1>12. <<s, x, u>> \in Sending(w)
  BY <1>4, <1>8, <1>11, SendingStep
<1> QED BY <1>12 DEF s, x, u, v

\* A burst writes its bytes.
LEMMA BurstEffect ==
  ASSUME NEW w, NEW s \in StreamState, s.flits = 0, NEW a \in Nat, NEW bytes \in Seq(Nat),
         Len(bytes) \in 1 .. BULK_MAX, Len(bytes) % BlockSize = 0
  PROVE  Path(Sending(w), s, memory_write_bulk(a, bytes), Settled(WithBytes(s.mem, a, bytes)))
<1> DEFINE mem == s.mem
           v == Words(bytes)
           P == WordsPerPacket
           B == BlockSize
           n == Len(bytes)
           L == n \div 2
           full == Len(v) \div P
           pkt(j) == ToMam("data", 0, {}, 0, SubSeq(v, (j - 1) * P + 1, j * P))
           data == [j \in 1 .. full |-> pkt(j)]
           rest == SubSeq(v, full * P + 1, Len(v))
           last == IF rest = <<>> THEN <<>> ELSE <<ToMam("data", 0, {}, 0, rest)>>
           h == ToMam("burst", a, {}, n \div B, <<>>)
           M(c) == Mid(mem, a, bytes, c)
<1>1. P \in Nat \ {0} /\ B \in Nat \ {0} /\ B = 2 * (B \div 2) /\ B \div 2 \in Nat \ {0} /\ BULK_MAX \in Nat
  BY Sizes
<1>2. mem \in Bytes
  BY DEF StreamState
<1>3. /\ n \in Nat \ {0} /\ n = 2 * L /\ L \in Nat \ {0}
      /\ n \div B \in Nat \ {0} /\ (n \div B) * (B \div 2) = L
  <2> DEFINE H == B \div 2
             k == n \div B
  <2>1. n \in Nat \ {0}
    BY <1>1
  <2>2. k \in Nat /\ n % B \in 0 .. B - 1 /\ n = B * k + (n % B)
    <3>1. n \in Nat
      BY <2>1
    <3> HIDE DEF n
    <3> QED BY <1>1, <3>1, NatDivMod
  <2>3. B = 2 * H /\ H \in Nat \ {0}
    BY <1>1
  <2> HIDE DEF H, k
  <2>4. n = B * k
    <3> DEFINE y == B * k
    <3>1. y \in Int
      BY <1>1, <2>2
    <3> HIDE DEF y
    <3>2. n = y
      BY <2>1, <2>2, <3>1 DEF y
    <3> QED BY <3>2 DEF y
  <2> DEFINE g == k * H
  <2>5. n = 2 * g /\ g \in Nat
    BY <2>2, <2>3, <2>4
  <2> HIDE DEF g
  <2>6. L = g
    BY <2>5
  <2>7. k # 0 /\ g # 0
    BY <1>1, <2>1, <2>4, <2>5
  <2> QED BY <2>1, <2>2, <2>5, <2>6, <2>7 DEF g, k, H
<1>4. v \in Seq(Word) /\ Len(v) = L
  BY WordsType
<1> HIDE DEF L
<1>5. full \in Nat /\ P * full <= L /\ L - P * full < P
  <2> DEFINE r == Len(v) % P
             f == Len(v) \div P
  <2>1. f \in Nat /\ r \in 0 .. P - 1 /\ L = P * f + r
    <3>1. Len(v) \in Nat
      BY <1>3, <1>4
    <3> HIDE DEF v
    <3> QED BY <1>1, <1>4, <3>1, NatDivMod
  <2> HIDE DEF r, f
  <2>2. f \in Nat /\ P * f <= L /\ L - P * f < P
    <3> DEFINE y == P * f
    <3>1. y \in Int
      BY <1>1, <2>1
    <3> HIDE DEF y
    <3>2. y <= L /\ L - y < P
      BY <1>1, <1>3, <2>1, <3>1 DEF y
    <3> QED BY <2>1, <3>2 DEF y
  <2> QED BY <2>2 DEF f
<1> HIDE DEF full, v, mem
<1>6. /\ \A c \in 0 .. L : M(c) \in StreamState
      /\ M(L) = Settled(WithBytes(mem, a, bytes))
      /\ M(0) = [flits |-> L, addr |-> a, mem |-> mem]
  BY <1>2, <1>3, MidFacts
<1>7. \A c, d \in Nat : c < d /\ d <= L =>
         <<M(c), ToMam("data", 0, {}, 0, SubSeq(v, c + 1, d)), M(d)>> \in Sending(w)
  BY <1>2, <1>3, DataEffect DEF v
<1> HIDE DEF M
\* The header.
<1>8. <<s, h, M(0)>> \in Sending(w) /\ h \in SendStep
  <2> DEFINE q == h.pkt
             k == n \div B
  <2>1. /\ q = [mod |-> Mam, kind |-> "plain", cmd |-> "burst", addr |-> a, strb |-> {}, beats |-> k, words |-> <<>>]
        /\ h = [k |-> "send", pkt |-> q]
    BY DEF ToMam
  <2>2. k \in Nat \ {0} /\ k * (B \div 2) = L
    BY <1>3
  <2> HIDE DEF h, q, k
  <2>3. q \in MamPacket /\ q.kind = "plain" /\ q.cmd = "burst" /\ q.addr = a /\ q.beats = k
    <3>1. <<>> \in Seq(Word)
      OBVIOUS
    <3> QED BY <2>1, <2>2, <3>1 DEF MamPacket
  <2>4. h \in SendStep /\ h.k = "send" /\ h.pkt = q
    BY <2>1, <2>3 DEF SendStep
  <2>5. M(0) = [flits |-> q.beats * (BlockSize \div 2), addr |-> q.addr, mem |-> s.mem]
    BY <1>6, <2>2, <2>3 DEF mem
  <2>6. Takes(s, q, M(0))
    BY <2>2, <2>3, <2>5 DEF Takes, IsPlain
  <2>7. Sends(w, s, h, M(0))
    BY <2>4, <2>6 DEF Sends
  <2>8. h \in AnyStep
    BY <2>4 DEF AnyStep
  <2>9. M(0) \in StreamState
    BY <1>3, <1>6
  <2> QED BY <2>4, <2>7, <2>8, <2>9, SendingStep
<1>9. M(0) \in StreamState
  BY <1>3, <1>6
<1>10. Path(Sending(w), s, <<h>>, M(0))
  <2> HIDE DEF h
  <2> QED BY <1>8, <1>9, PathOne
\* The full packets.
<1>11. \A j \in 0 .. full : P * j \in 0 .. L /\ P * j \in Nat
  <2> SUFFICES ASSUME NEW j \in 0 .. full PROVE P * j \in 0 .. L /\ P * j \in Nat
    OBVIOUS
  <2>1. P * j <= P * full /\ P * j \in Nat
    BY <1>1, <1>5
  <2> QED BY <1>1, <1>3, <1>5, <2>1
<1>12. \A j \in 1 .. full : <<M(P * (j - 1)), pkt(j), M(P * j)>> \in Sending(w)
  <2> SUFFICES ASSUME NEW j \in 1 .. full PROVE <<M(P * (j - 1)), pkt(j), M(P * j)>> \in Sending(w)
    OBVIOUS
  <2> DEFINE c == P * (j - 1)
             d == P * j
  <2>1. c \in Nat /\ d \in Nat /\ d <= L
    <3>1. j - 1 \in 0 .. full /\ j \in 0 .. full
      BY <1>5
    <3> QED BY <1>3, <1>11, <3>1
  <2>2. d = c + P /\ (j - 1) * P + 1 = c + 1 /\ j * P = d
    BY <1>1, <1>5
  <2>3. pkt(j) = ToMam("data", 0, {}, 0, SubSeq(v, c + 1, d))
    BY <2>2
  <2> HIDE DEF c, d, pkt
  <2>4. c < d
    BY <1>1, <2>1, <2>2
  <2>5. <<M(c), pkt(j), M(d)>> \in Sending(w)
    BY <1>7, <2>1, <2>3, <2>4
  <2> QED BY <2>5 DEF c, d
<1>13. \A j \in 1 .. full : pkt(j) \in AnyStep
  <2> HIDE DEF pkt
  <2> QED BY <1>12, SendingStep
<1> HIDE DEF pkt
<1>14. data \in Seq(AnyStep) /\ Len(data) = full /\ \A j \in 1 .. full : data[j] = pkt(j)
  BY <1>5, <1>13
<1> HIDE DEF data
<1>15. Path(Sending(w), M(0), data, M(P * full))
  <2> DEFINE T == [i \in 1 .. full + 1 |-> M(P * (i - 1))]
  <2>1. \A i \in 1 .. full + 1 : T[i] = M(P * (i - 1)) /\ T[i] \in StreamState
    <3> SUFFICES ASSUME NEW i \in 1 .. full + 1 PROVE M(P * (i - 1)) \in StreamState
      OBVIOUS
    <3>1. i - 1 \in 0 .. full
      BY <1>5
    <3>2. P * (i - 1) \in 0 .. L
      BY <1>11, <3>1
    <3> DEFINE y == P * (i - 1)
    <3> HIDE DEF y
    <3>3. M(y) \in StreamState
      BY <1>6, <3>2 DEF y
    <3> QED BY <3>3 DEF y
  <2>2. T \in [1 .. full + 1 -> StreamState]
    BY <2>1
  <2> HIDE DEF T
  <2>3. T[1] = M(0) /\ T[full + 1] = M(P * full)
    <3>1. 1 \in 1 .. full + 1 /\ full + 1 \in 1 .. full + 1 /\ P * (1 - 1) = 0 /\ (full + 1) - 1 = full
      BY <1>1, <1>5
    <3>2. T[1] = M(P * (1 - 1)) /\ T[full + 1] = M(P * ((full + 1) - 1))
      BY <2>1, <3>1
    <3> QED BY <3>1, <3>2
  <2>4. ASSUME NEW i \in 1 .. Len(data) PROVE <<T[i], data[i], T[i + 1]>> \in Sending(w)
    <3>1. i \in 1 .. full /\ i \in 1 .. full + 1 /\ i + 1 \in 1 .. full + 1 /\ (i + 1) - 1 = i
      BY <1>5, <1>14
    <3>2. T[i] = M(P * (i - 1)) /\ T[i + 1] = M(P * ((i + 1) - 1)) /\ data[i] = pkt(i)
      BY <1>14, <2>1, <3>1
    <3>3. T[i + 1] = M(P * i)
      BY <3>1, <3>2
    <3>4. <<M(P * (i - 1)), pkt(i), M(P * i)>> \in Sending(w)
      BY <1>12, <3>1
    <3> QED BY <3>2, <3>3, <3>4
  <2> QED BY <1>14, <2>2, <2>3, <2>4 DEF Path
\* The rest.
<1> DEFINE z == P * full
           m == full * P + 1
<1>16. z \in Nat /\ z <= L /\ m = z + 1 /\ Len(v) = L
  <2>1. full \in 0 .. full
    BY <1>5
  <2> QED BY <1>1, <1>4, <1>5, <1>11, <2>1
<1> HIDE DEF z, m
<1>17. rest \in Seq(Word) /\ Len(rest) = L - z
  <2>1. m \in Nat /\ 1 <= m /\ L <= Len(v) /\ m <= L + 1 /\ L - m + 1 = L - z
    BY <1>3, <1>16
  <2>2. SubSeq(v, m, L) \in Seq(Word) /\ Len(SubSeq(v, m, L)) = L - m + 1
    BY <1>3, <1>4, <2>1, PartType
  <2> QED BY <1>16, <2>1, <2>2 DEF m
<1>18. rest = SubSeq(v, z + 1, L)
  BY <1>16 DEF m
<1> HIDE DEF rest
<1>19. last \in Seq(AnyStep) /\ Path(Sending(w), M(z), last, M(L))
  <2>1. CASE rest = <<>>
    <3>1. z = L /\ last = <<>>
      BY <1>3, <1>16, <1>17, <2>1
    <3>2. M(L) \in StreamState
      BY <1>3, <1>6
    <3>3. Path(Sending(w), M(L), <<>>, M(L)) /\ <<>> \in Seq(AnyStep)
      BY <3>2, PathNil
    <3> HIDE DEF last
    <3> QED BY <3>1, <3>3
  <2>2. CASE rest # <<>>
    <3> DEFINE x == ToMam("data", 0, {}, 0, rest)
    <3>1. z < L /\ last = <<x>>
      <4>1. Len(rest) # 0
        BY <1>17, <2>2, EmptySeq
      <4> QED BY <1>3, <1>16, <1>17, <2>2, <4>1
    <3>2. <<M(z), x, M(L)>> \in Sending(w)
      BY <1>3, <1>7, <1>16, <1>18, <3>1
    <3> HIDE DEF x, last
    <3>3. x \in AnyStep /\ M(z) \in StreamState /\ M(L) \in StreamState
      BY <3>2, SendingStep
    <3>4. Path(Sending(w), M(z), <<x>>, M(L)) /\ <<x>> \in Seq(AnyStep)
      BY <3>2, <3>3, PathOne
    <3> QED BY <3>1, <3>4
  <2> QED BY <2>1, <2>2
<1>20. memory_write_bulk(a, bytes) = (<<h>> \o data) \o last
  <2>1. ~(Len(bytes) > BULK_MAX)
    BY <1>1
  <2> QED BY <2>1, Zenon DEF memory_write_bulk, h, data, pkt, last, rest, full, v
<1> HIDE DEF h, last
<1>21. h \in AnyStep /\ <<h>> \in Seq(AnyStep)
  BY <1>8 DEF AnyStep
<1>22. Path(Sending(w), s, <<h>> \o data, M(z)) /\ <<h>> \o data \in Seq(AnyStep)
  BY <1>10, <1>14, <1>15, <1>21, PathConcat, ConcatProperties DEF z
<1>23. Path(Sending(w), s, (<<h>> \o data) \o last, M(L))
  <2> DEFINE y == <<h>> \o data
  <2> HIDE DEF y
  <2> QED BY <1>19, <1>22, PathConcat DEF y
<1> QED BY <1>6, <1>20, <1>23 DEF mem

\* A part of a write, bytes c + 1 to d of the buffer: what it is, and that writing
\* it after the first c leaves the first d written.
PartsOf(mem, a, bytes) ==
    \A c \in Nat, d \in Nat : c <= d /\ d <= Len(bytes) =>
        /\ Upto(mem, a, bytes, c) \in Bytes /\ Upto(mem, a, bytes, d) \in Bytes
        /\ SubSeq(bytes, c + 1, d) \in Seq(Nat) /\ Len(SubSeq(bytes, c + 1, d)) = d - c
        /\ WithBytes(Upto(mem, a, bytes, c), a + c, SubSeq(bytes, c + 1, d)) = Upto(mem, a, bytes, d)

\* Every part of a write has its effect.
LEMMA PartEffect ==
  ASSUME NEW mem \in Bytes, NEW a \in Nat, NEW bytes \in Seq(Nat)
  PROVE  PartsOf(mem, a, bytes)
<1> SUFFICES ASSUME NEW c \in Nat, NEW d \in Nat, c <= d, d <= Len(bytes)
             PROVE  /\ Upto(mem, a, bytes, c) \in Bytes /\ Upto(mem, a, bytes, d) \in Bytes
                    /\ SubSeq(bytes, c + 1, d) \in Seq(Nat) /\ Len(SubSeq(bytes, c + 1, d)) = d - c
                    /\ WithBytes(Upto(mem, a, bytes, c), a + c, SubSeq(bytes, c + 1, d))
                         = Upto(mem, a, bytes, d)
  BY Zenon DEF PartsOf
<1>1. c \in 0 .. Len(bytes) /\ d \in 0 .. Len(bytes)
  OBVIOUS
<1>2. Upto(mem, a, bytes, c) \in Bytes /\ Upto(mem, a, bytes, d) \in Bytes
  BY <1>1, UptoFacts
<1> DEFINE m == c + 1
<1>3. m \in Nat /\ 1 <= m /\ m <= d + 1 /\ d - m + 1 = d - c
  OBVIOUS
<1> HIDE DEF m
<1>4. SubSeq(bytes, m, d) \in Seq(Nat) /\ Len(SubSeq(bytes, m, d)) = d - m + 1
  BY <1>3, PartType
<1> QED BY <1>2, <1>3, <1>4, UptoBytes DEF m

\* The bursts of a write.
LEMMA BulkStepsEffect ==
  ASSUME NEW w, NEW mem \in Bytes, NEW a \in Nat, NEW bytes \in Seq(Nat), NEW b,
         NEW p \in Nat, NEW z \in Nat, Tile(b, p, z), p <= z, z <= Len(bytes)
  PROVE  Path(Sending(w), Settled(Upto(mem, a, bytes, p)), BulkSteps(a, bytes, b),
              Settled(Upto(mem, a, bytes, z)))
<1> DEFINE q == BulkSteps(a, bytes, b)
           N == Len(b)
           F(c) == Settled(Upto(mem, a, bytes, c))
           O(j) == IF j <= N THEN b[j].off ELSE z
<1>0. \A cc \in Nat, dd \in Nat : cc <= dd /\ dd <= Len(bytes) =>
          /\ Upto(mem, a, bytes, cc) \in Bytes /\ Upto(mem, a, bytes, dd) \in Bytes
          /\ SubSeq(bytes, cc + 1, dd) \in Seq(Nat) /\ Len(SubSeq(bytes, cc + 1, dd)) = dd - cc
          /\ WithBytes(Upto(mem, a, bytes, cc), a + cc, SubSeq(bytes, cc + 1, dd)) = Upto(mem, a, bytes, dd)
  <2>1. PartsOf(mem, a, bytes)
    BY PartEffect
  <2> QED BY <2>1, Zenon DEF PartsOf
<1>1. /\ q \in Seq(BulkStep) /\ Len(q) = N
      /\ \A j \in 1 .. N : q[j] = [k |-> "bulk", addr |-> a + b[j].off,
                                   bytes |-> SubSeq(bytes, b[j].off + 1, b[j].off + b[j].n)]
  BY BulkStepsType
<1>2. /\ b \in Seq([off : Nat, n : Nat]) /\ N \in Nat /\ (N = 0 <=> p = z) /\ (N > 0 => b[1].off = p)
      /\ \A j \in 1 .. N :
            /\ b[j].n \in 1 .. BULK_MAX /\ b[j].n % BlockSize = 0
            /\ p <= b[j].off /\ b[j].off + b[j].n <= z
            /\ b[j].off + b[j].n = IF j = N THEN z ELSE b[j + 1].off
  BY Zenon DEF Tile
<1>3. \A j \in 1 .. N : b[j].off \in Nat /\ b[j].n \in Nat
  <2>1. \A j \in 1 .. N : b[j] \in [off : Nat, n : Nat]
    BY <1>2, ElementOfSeq
  <2> QED BY <2>1
<1> HIDE DEF N, q
<1>4. \A j \in 1 .. N : O(j) = b[j].off /\ O(j + 1) = b[j].off + b[j].n
  <2> SUFFICES ASSUME NEW j \in 1 .. N PROVE O(j) = b[j].off /\ O(j + 1) = b[j].off + b[j].n
    OBVIOUS
  <2>1. CASE j = N
    <3>1. j <= N /\ ~(j + 1 <= N)
      BY <1>2, <2>1
    <3> QED BY <1>2, <2>1, <3>1
  <2>2. CASE j # N
    <3>1. j <= N /\ j + 1 <= N
      BY <1>2, <2>2
    <3> QED BY <1>2, <2>2, <3>1
  <2> QED BY <2>1, <2>2
<1>5. \A j \in 1 .. N + 1 : O(j) \in 0 .. Len(bytes)
  <2> SUFFICES ASSUME NEW j \in 1 .. N + 1 PROVE O(j) \in 0 .. Len(bytes)
    OBVIOUS
  <2>1. CASE j <= N
    <3>1. j \in 1 .. N
      BY <1>2, <2>1
    <3>2. b[j].off \in Nat /\ b[j].n \in Nat /\ b[j].off + b[j].n <= z
      BY <1>2, <1>3, <3>1
    <3>3. b[j].off \in 0 .. Len(bytes)
      BY <3>2
    <3> QED BY <2>1, <3>3
  <2>2. CASE ~(j <= N)
    BY <2>2
  <2> QED BY <2>1, <2>2
<1>6. O(1) = p /\ O(N + 1) = z
  <2>1. CASE N = 0
    <3>1. ~(1 <= N) /\ ~(N + 1 <= N)
      BY <2>1
    <3> QED BY <1>2, <2>1, <3>1
  <2>2. CASE N # 0
    <3>1. 1 <= N /\ ~(N + 1 <= N)
      BY <1>2, <2>2
    <3> QED BY <1>2, <3>1
  <2> QED BY <2>1, <2>2
<1> HIDE DEF O
<1>7. ASSUME NEW j \in 1 .. N PROVE <<F(O(j)), q[j], F(O(j + 1))>> \in Sending(w)
  <2> DEFINE c == b[j].off
             n == b[j].n
             d == c + n
             v == SubSeq(bytes, c + 1, d)
             x == q[j]
  <2>1. c \in Nat /\ n \in Nat /\ d <= z /\ n \in 1 .. BULK_MAX /\ n % BlockSize = 0
    BY <1>2, <1>3
  <2>2. O(j) = c /\ O(j + 1) = d
    BY <1>4
  <2>3. x = [k |-> "bulk", addr |-> a + c, bytes |-> v] /\ x \in BulkStep
    <3>1. x = [k |-> "bulk", addr |-> a + c, bytes |-> v]
      BY <1>1
    <3>2. x \in BulkStep
      BY <1>1, ElementOfSeq
    <3> QED BY <3>1, <3>2
  <2> HIDE DEF c, n, x
  <2>4. d \in Nat /\ c <= d /\ d <= Len(bytes) /\ d - c = n
    BY <2>1
  <2> HIDE DEF d
  <2>5. /\ Upto(mem, a, bytes, c) \in Bytes /\ Upto(mem, a, bytes, d) \in Bytes
        /\ Len(v) = d - c
        /\ WithBytes(Upto(mem, a, bytes, c), a + c, v) = Upto(mem, a, bytes, d)
    BY <1>0, <2>1, <2>4, Zenon DEF v
  <2> HIDE DEF v
  <2>6. F(c) \in StreamState /\ F(c).flits = 0 /\ F(c).mem = Upto(mem, a, bytes, c) /\ F(d) \in StreamState
    BY <2>5, SettledType
  <2>7. x.k = "bulk" /\ x.addr = a + c /\ x.bytes = v
    BY <2>3
  <2>8. Len(x.bytes) \in 1 .. BULK_MAX /\ Len(x.bytes) % BlockSize = 0
    BY <2>1, <2>4, <2>5, <2>7
  <2>9. F(d) = Settled(WithBytes(F(c).mem, x.addr, x.bytes))
    BY <2>5, <2>6, <2>7
  <2> HIDE DEF F
  <2>10. Sends(w, F(c), x, F(d))
    BY <2>6, <2>7, <2>8, <2>9 DEF Sends
  <2>11. x \in AnyStep
    BY <2>3 DEF AnyStep
  <2>12. <<F(c), x, F(d)>> \in Sending(w)
    BY <2>6, <2>10, <2>11, SendingStep
  <2> QED BY <2>2, <2>12 DEF x
<1> DEFINE T == [j \in 1 .. N + 1 |-> F(O(j))]
<1>8. \A j \in 1 .. N + 1 : F(O(j)) \in StreamState
  BY <1>5, UptoFacts, SettledType
<1> HIDE DEF F
<1>9. T \in [1 .. N + 1 -> StreamState] /\ \A j \in 1 .. N + 1 : T[j] = F(O(j))
  BY <1>8
<1> HIDE DEF T
<1>10. T[1] = F(p) /\ T[N + 1] = F(z)
  <2>1. 1 \in 1 .. N + 1 /\ N + 1 \in 1 .. N + 1
    BY <1>2
  <2>2. T[1] = F(O(1)) /\ T[N + 1] = F(O(N + 1))
    BY <1>9, <2>1
  <2> QED BY <1>6, <2>2
<1>11. ASSUME NEW j \in 1 .. N PROVE <<T[j], q[j], T[j + 1]>> \in Sending(w)
  <2>1. j \in 1 .. N + 1 /\ j + 1 \in 1 .. N + 1
    BY <1>2
  <2>2. T[j] = F(O(j)) /\ T[j + 1] = F(O(j + 1))
    BY <1>9, <2>1
  <2> QED BY <1>7, <2>2
<1>12. Path(Sending(w), F(p), q, F(z))
  BY <1>1, <1>9, <1>10, <1>11 DEF Path
<1> QED BY <1>12 DEF F, q

\* A write of the library writes its bytes.
LEMMA WriteEffect ==
  ASSUME NEW w, NEW mem \in Bytes, NEW a \in Nat, NEW bytes \in Seq(Nat), CanWrite(a, Len(bytes))
  PROVE  Path(Sending(w), Settled(mem), osd_memory_write(a, bytes), Settled(WithBytes(mem, a, bytes)))
<1> DEFINE size == Len(bytes)
           B == BlockSize
           p == Prolog(a, size)
           e == Epilog(a, size)
           k == Bulk(a, size)
           F(c) == Settled(Upto(mem, a, bytes, c))
<1>0. \A cc \in Nat, dd \in Nat : cc <= dd /\ dd <= Len(bytes) =>
          /\ Upto(mem, a, bytes, cc) \in Bytes /\ Upto(mem, a, bytes, dd) \in Bytes
          /\ SubSeq(bytes, cc + 1, dd) \in Seq(Nat) /\ Len(SubSeq(bytes, cc + 1, dd)) = dd - cc
          /\ WithBytes(Upto(mem, a, bytes, cc), a + cc, SubSeq(bytes, cc + 1, dd)) = Upto(mem, a, bytes, dd)
  <2>1. PartsOf(mem, a, bytes)
    BY PartEffect
  <2> QED BY <2>1, Zenon DEF PartsOf
<1>1. /\ size \in Nat \ {0} /\ Tiled(a, size) /\ B \in Nat \ {0}
      /\ size >= B \/ (a % B) + size <= B
  BY Sizes DEF CanWrite
<1>2. /\ p \in Nat /\ e \in Nat /\ k \in Nat /\ p + k + e = size /\ e < B
      /\ size < B => p = size
      /\ size >= B => p < B /\ (a + p) % B = 0 /\ (a + size - e) % B = 0
  BY <1>1, Parts
<1>3. Tile(Bursts(a, size), p, p + k)
  BY <1>1, BurstFacts
<1> HIDE DEF p, e, k, size
<1>4. F(0) = Settled(mem) /\ F(size) = Settled(WithBytes(mem, a, bytes))
  BY UptoFacts DEF size
<1>5. \A c \in 0 .. size : F(c) \in StreamState
  <2> SUFFICES ASSUME NEW c \in 0 .. size PROVE F(c) \in StreamState
    OBVIOUS
  <2>1. Upto(mem, a, bytes, c) \in Bytes
    BY UptoFacts DEF size
  <2> QED BY <2>1, SettledType
\* The unaligned start.
<1>6. (a % B) + p <= B
  <2>1. CASE size < B
    BY <1>1, <1>2, <2>1
  <2>2. CASE size >= B
    <3> DEFINE r == a % B
               d == a \div B
    <3>1. d \in Nat /\ r \in 0 .. B - 1 /\ a = B * d + r
      BY <1>1, NatDivMod
    <3>2. a + p \in Int /\ p < B
      BY <1>2, <2>2
    <3>3. PICK q \in Int : a + p = B * q
      BY <1>1, <1>2, <2>2, <3>2, Multiple
    <3> HIDE DEF r, d
    <3>4. B * (q - d) = r + p
      BY <1>1, <1>2, <3>1, <3>3
    <3>5. q - d <= 1
      <4> SUFFICES ASSUME q - d >= 2 PROVE FALSE
        BY <3>1
      <4>1. B * (q - d) >= B * 2
        BY <1>1, <3>1
      <4> QED BY <1>1, <1>2, <3>1, <3>2, <3>4, <4>1
    <3>6. B * (q - d) <= B
      BY <1>1, <3>1, <3>5
    <3> QED BY <1>1, <1>2, <3>1, <3>4, <3>6 DEF r
  <2> QED BY <1>1, <2>1, <2>2
<1>7. WriteHead(a, bytes) \in Seq(AnyStep) /\ Path(Sending(w), F(0), WriteHead(a, bytes), F(p))
  <2>1. CASE p > 0
    <3> DEFINE v == SubSeq(bytes, 0 + 1, p)
               x == memory_write_single(a, v)
    <3>1. WriteHead(a, bytes) = x
      <4>1. 0 + 1 = 1
        OBVIOUS
      <4>2. WriteHead(a, bytes) = memory_write_single(a, SubSeq(bytes, 1, p))
        BY <2>1, Zenon DEF WriteHead, p, size
      <4> QED BY <4>1, <4>2
    <3>2. 0 \in Nat /\ 0 <= p /\ p <= Len(bytes) /\ a + 0 = a /\ p - 0 = p
      BY <1>1, <1>2 DEF size
    <3>3. /\ v \in Seq(Nat) /\ Len(v) = p
          /\ WithBytes(mem, a, v) = Upto(mem, a, bytes, p)
      <4>1. /\ v \in Seq(Nat) /\ Len(v) = p - 0
            /\ WithBytes(Upto(mem, a, bytes, 0), a + 0, v) = Upto(mem, a, bytes, p)
        BY <1>0, <1>2, <3>2, Zenon DEF v
      <4>2. Upto(mem, a, bytes, 0) = mem
        BY UptoFacts
      <4> HIDE DEF v
      <4> QED BY <3>2, <4>1, <4>2
    <3> HIDE DEF v
    <3>4. Path(Sending(w), Settled(mem), x, Settled(WithBytes(mem, a, v)))
      BY <1>6, <3>3, SingleEffect
    <3>5. x \in Seq(SendStep)
      BY <3>3, SingleType
    <3> HIDE DEF x
    <3>6. x \in Seq(AnyStep)
      <4>1. SendStep \subseteq AnyStep
        BY DEF AnyStep
      <4> QED BY <3>5, <4>1, SeqMonotonic
    <3> QED BY <1>4, <3>1, <3>3, <3>4, <3>6
  <2>2. CASE ~(p > 0)
    <3>1. WriteHead(a, bytes) = <<>>
      BY <2>2, Zenon DEF WriteHead, p, size
    <3>2. p = 0 /\ 0 \in 0 .. size
      BY <1>1, <1>2, <2>2
    <3>3. Path(Sending(w), F(0), <<>>, F(0)) /\ <<>> \in Seq(AnyStep)
      BY <1>5, <3>2, PathNil
    <3> HIDE DEF F
    <3> QED BY <3>1, <3>2, <3>3
  <2> QED BY <2>1, <2>2
\* The bursts.
<1> DEFINE z == p + k
           bs == BulkSteps(a, bytes, Bursts(a, size))
<1>8. bs \in Seq(AnyStep) /\ Path(Sending(w), F(p), bs, F(z))
  <2>1. z \in Nat /\ z <= Len(bytes) /\ p <= z
    BY <1>1, <1>2 DEF size
  <2>2. bs \in Seq(BulkStep)
    BY <1>2, <1>3, <2>1, BulkStepsType
  <2>3. Path(Sending(w), F(p), bs, F(z))
    BY <1>2, <1>3, <2>1, BulkStepsEffect
  <2>4. BulkStep \subseteq AnyStep
    BY DEF AnyStep
  <2> HIDE DEF bs
  <2> QED BY <2>2, <2>3, <2>4, SeqMonotonic
\* The unaligned end.
<1>9. WriteLast(a, bytes) \in Seq(AnyStep) /\ Path(Sending(w), F(z), WriteLast(a, bytes), F(size))
  <2>1. CASE e > 0
    <3>0. z \in Nat /\ z <= size /\ size - e = z /\ a + size - e = a + z /\ size - z = e /\ a + z \in Nat
          /\ size - e + 1 = z + 1
      BY <1>1, <1>2
    <3> DEFINE v == SubSeq(bytes, z + 1, size)
               x == memory_write_single(a + z, v)
    <3>1. WriteLast(a, bytes) = x
      <4>1. WriteLast(a, bytes) = memory_write_single(a + size - e, SubSeq(bytes, size - e + 1, size))
        BY <2>1, Zenon DEF WriteLast, e, size
      <4> HIDE DEF z
      <4> QED BY <3>0, <4>1
    <3> HIDE DEF z
    <3>2. /\ v \in Seq(Nat) /\ Len(v) = size - z /\ Upto(mem, a, bytes, z) \in Bytes
          /\ WithBytes(Upto(mem, a, bytes, z), a + z, v) = Upto(mem, a, bytes, size)
      <4>1. size \in Nat /\ size <= Len(bytes)
        BY <1>1 DEF size
      <4>2. Len(bytes) = size
        BY DEF size
      <4> QED BY <1>0, <3>0, <4>1, <4>2, Zenon DEF v
    <3>3. (a + z) % B = 0
      <4>1. size >= B
        BY <1>1, <1>2, <2>1
      <4> QED BY <1>2, <3>0, <4>1
    <3> HIDE DEF v
    <3>4. ((a + z) % B) + Len(v) <= B
      BY <1>1, <1>2, <3>0, <3>2, <3>3
    <3>5. Path(Sending(w), F(z), x, Settled(WithBytes(Upto(mem, a, bytes, z), a + z, v)))
      <4> DEFINE m == Upto(mem, a, bytes, z)
                 y == a + z
      <4>1. m \in Bytes /\ y \in Nat /\ (y % BlockSize) + Len(v) <= BlockSize /\ v \in Seq(Nat)
        BY <3>0, <3>2, <3>4
      <4> HIDE DEF m, y
      <4>2. Path(Sending(w), Settled(m), memory_write_single(y, v), Settled(WithBytes(m, y, v)))
        BY <4>1, SingleEffect
      <4> QED BY <4>2 DEF m, y
    <3>6. x \in Seq(SendStep)
      BY <3>0, <3>2, SingleType
    <3> HIDE DEF x
    <3>7. x \in Seq(AnyStep)
      <4>1. SendStep \subseteq AnyStep
        BY DEF AnyStep
      <4> QED BY <3>6, <4>1, SeqMonotonic
    <3> QED BY <3>1, <3>2, <3>5, <3>7
  <2>2. CASE ~(e > 0)
    <3>1. WriteLast(a, bytes) = <<>>
      BY <2>2, Zenon DEF WriteLast, e, size
    <3>2. z = size /\ size \in 0 .. size
      BY <1>1, <1>2, <2>2
    <3>3. Path(Sending(w), F(size), <<>>, F(size)) /\ <<>> \in Seq(AnyStep)
      BY <1>5, <3>2, PathNil
    <3> HIDE DEF F, z
    <3> QED BY <3>1, <3>2, <3>3
  <2> QED BY <2>1, <2>2
<1> DEFINE hd == WriteHead(a, bytes)
           lt == WriteLast(a, bytes)
<1>10. osd_memory_write(a, bytes) = (hd \o bs) \o lt
  BY WriteParts DEF size
<1> HIDE DEF F, z, bs, hd, lt
<1>11. Path(Sending(w), F(0), hd \o bs, F(z)) /\ hd \o bs \in Seq(AnyStep)
  <2>1. hd \in Seq(AnyStep) /\ bs \in Seq(AnyStep) /\ Path(Sending(w), F(0), hd, F(p)) /\ Path(Sending(w), F(p), bs, F(z))
    BY <1>7, <1>8 DEF hd
  <2> QED BY <2>1, PathConcat, ConcatProperties
<1>12. Path(Sending(w), F(0), (hd \o bs) \o lt, F(size))
  <2> DEFINE y == hd \o bs
  <2>1. y \in Seq(AnyStep) /\ lt \in Seq(AnyStep) /\ Path(Sending(w), F(0), y, F(z)) /\ Path(Sending(w), F(z), lt, F(size))
    BY <1>9, <1>11 DEF lt
  <2> HIDE DEF y
  <2>2. Path(Sending(w), F(0), y \o lt, F(size))
    BY <2>1, PathConcat
  <2> QED BY <2>2 DEF y
<1> QED BY <1>4, <1>10, <1>12


(***************************************************************************)
(* The stream is kept by every step.                                       *)
(***************************************************************************)

\* The parts of what the MAM has done so far.
LEMMA ViewFacts ==
  /\ MamView.flits = IF mam.state = "WRITE" THEN mam.flits ELSE 0
  /\ MamView.addr = IF mam.state = "WRITE" THEN mam.addr ELSE 0
  /\ MamView.mem = memory
BY DEF MamView

\* A step that leaves write access and memory alone leaves the start of the stream.
LEMMA NextView ==
  /\ mam' = mam /\ memory' = memory => MamView' = MamView
  /\ mam.state # "WRITE" /\ mam'.state # "WRITE" /\ memory' = memory => MamView' = MamView
BY DEF MamView

\* The two paths of the next state are its stream.
LEMMA StreamNext ==
  ASSUME NEW s \in StreamState, Path(Taking, MamView', down'[Mam], s),
         Path(Sending(written'), s, api'.todo, Settled(written')),
         connected' \/ s = Settled(written'),
         mam'.state = "WRITE" => mam'.flits > 0
  PROVE  Stream'
BY DEF Stream, Streaming

\* The module takes the packet in front.
LEMMA TakeHead ==
  ASSUME LinkShape, NEW s, Path(Taking, MamView, down[Mam], s), down[Mam] # <<>>
  PROVE  \E u \in StreamState : /\ Takes(MamView, Head(down[Mam]), u)
                                /\ Path(Taking, u, Tail(down[Mam]), s)
<1>1. down[Mam] \in Seq(DownPacket)
  BY Constants DEF LinkShape
<1>2. Popped(down[Mam], Tail(down[Mam])) /\ Head(down[Mam]) = down[Mam][1]
  BY <1>1, TailPopped
<1>3. PICK u \in StreamState : /\ <<MamView, down[Mam][1], u>> \in Taking
                               /\ Path(Taking, u, Tail(down[Mam]), s)
  BY <1>2, PathPop
<1> QED BY <1>2, <1>3, TakingStep

\* The call makes the step in front.
LEMMA SendHead ==
  ASSUME ApiShape, NEW s, Path(Sending(written), s, api.todo, Settled(written)), api.todo # <<>>
  PROVE  \E u \in StreamState : /\ s \in StreamState /\ Step \in AnyStep
                                /\ Sends(written, s, Step, u)
                                /\ Path(Sending(written), u, Tail(api.todo), Settled(written))
<1>1. Step \in AnyStep /\ Step = api.todo[1] /\ Popped(api.todo, Tail(api.todo))
  BY StepType
<1>2. PICK u \in StreamState : /\ s \in StreamState /\ <<s, api.todo[1], u>> \in Sending(written)
                               /\ Path(Sending(written), u, Tail(api.todo), Settled(written))
  BY <1>1, PathPop
<1> QED BY <1>1, <1>2, SendingStep

\* A step that sends the module nothing.
LEMMA StepNeutral ==
  ASSUME ApiShape, NEW s, Path(Sending(written), s, api.todo, Settled(written)), api.todo # <<>>,
         Step.k \in {"reg", "handler", "result", "fetch"}
  PROVE  /\ s.flits = 0 /\ Path(Sending(written), s, Tail(api.todo), Settled(written))
         /\ Step.k = "fetch" => s.mem = written
<1>1. PICK u \in StreamState : /\ Sends(written, s, Step, u)
                               /\ Path(Sending(written), u, Tail(api.todo), Settled(written))
  BY SendHead
<1>2. u = s /\ s.flits = 0 /\ (Step.k = "fetch" => s.mem = written)
  BY <1>1 DEF Sends
<1> QED BY <1>1, <1>2

\* Only an application that is connected sends or writes.
LEMMA SendConnected ==
  ASSUME ApiShape, HandlersFirst, api.todo # <<>>, Step.k # "reg"
  PROVE  connected
<1>1. Step = api.todo[1] /\ Len(api.todo) \in Nat \ {0}
  BY StepType
<1>2. 1 \in 1 .. Len(api.todo)
  BY <1>1
<1> QED BY <1>1, <1>2 DEF HandlersFirst

\* A step of the application keeps the stream: what it sends is what the list of
\* steps said it would.
LEMMA StreamApi ==
  ASSUME IInv, Stream, ApiStep, Enumeration'
  PROVE  Stream'
<1>0. ApiShape /\ LinkShape /\ Shape /\ OneAccess /\ Enumeration /\ HandlersFirst /\ DeviceShape
  BY DEF IInv, Shape
<1>1. PICK s \in StreamState : Streaming(s)
  BY DEF Stream
<1>2. /\ Path(Taking, MamView, down[Mam], s)
      /\ Path(Sending(written), s, api.todo, Settled(written))
      /\ connected \/ s = Settled(written)
      /\ mam.state = "WRITE" => mam.flits > 0
  BY <1>1 DEF Stream, Streaming
<1>3. mam' = mam /\ memory' = memory /\ written' = written
  BY DEF ApiStep, RegLock, RegSend, CondWait, RegReturn, Send, WriteBulk, osd_module_register_handler,
         Result, FetchLock, FetchSend, FetchReturn, device
<1>4. MamView' = MamView /\ (mam'.state = "WRITE" => mam'.flits > 0)
  BY <1>2, <1>3, NextView
<1>5. CASE RegLock \/ CondWait \/ FetchLock
  <2>1. down' = down /\ connected' = connected /\ \E pc : Goto(pc)
    BY <1>5, Zenon DEF RegLock, CondWait, FetchLock
  <2>2. api'.todo = api.todo
    BY <1>0, <2>1, GotoFacts
  <2> QED BY <1>2, <1>3, <1>4, <2>1, <2>2, StreamNext
<1>6. CASE RegSend
  <2>1. /\ connected' = connected /\ Goto("sent") /\ api.todo # <<>> /\ Step.k = "reg"
        /\ Request \in DownPacket /\ Step.m \in Module /\ Put(Step.m, Request)
    BY <1>0, <1>6, SendFacts DEF RegSend, AtStep
  <2>2. api'.todo = api.todo
    BY <1>0, <2>1, GotoFacts
  <2>3. Pushed(down[Step.m], Request, down'[Step.m]) /\ \A x \in Module \ {Step.m} : down'[x] = down[x]
    BY <1>0, <2>1, PutFacts
  <2>4. Path(Taking, MamView, down'[Mam], s)
    <3>1. CASE Step.m = Mam
      <4>1. ~IsPlain(Request)
        BY DEF IsPlain, Request
      <4>2. Takes(s, Request, s)
        BY <4>1 DEF Takes
      <4>3. <<s, Request, s>> \in Taking
        BY <2>1, <4>2, TakingStep
      <4> QED BY <1>2, <2>3, <3>1, <4>3, PathPush
    <3>2. CASE Step.m # Mam
      BY <1>2, <2>3, <3>2, Constants
    <3> QED BY <3>1, <3>2
  <2> QED BY <1>2, <1>3, <1>4, <2>1, <2>2, <2>4, StreamNext
<1>7. CASE FetchSend
  <2>1. connected' = connected /\ Goto("sent") /\ api.todo # <<>> /\ Step.k = "fetch"
    BY <1>7 DEF FetchSend, AtStep
  <2>2. PICK p \in MamPacket : Put(Mam, p) /\ IsGet(p) /\ p \in DownPacket
    BY <1>0, <1>7, SendFacts
  <2>3. api'.todo = api.todo
    BY <1>0, <2>1, GotoFacts
  <2>4. Pushed(down[Mam], p, down'[Mam])
    BY <1>0, <2>2, PutFacts, Constants
  <2>5. s.flits = 0
    BY <1>0, <1>2, <2>1, StepNeutral
  <2>6. Takes(s, p, s)
    BY <2>2, <2>5 DEF Takes, IsGet
  <2>7. <<s, p, s>> \in Taking
    BY <2>2, <2>6, TakingStep
  <2>8. Path(Taking, MamView, down'[Mam], s)
    BY <1>2, <2>4, <2>7, PathPush
  <2> QED BY <1>2, <1>3, <1>4, <2>1, <2>3, <2>8, StreamNext
<1>8. CASE RegReturn /\ ~connected
  <2>1. down' = down /\ s = Settled(written) /\ s.flits = 0
    <3>1. written \in Bytes
      BY <1>0 DEF DeviceShape
    <3> QED BY <1>2, <1>8, <3>1, SettledType DEF RegReturn
  <2>2. connected' \in BOOLEAN /\ (connected' => api'.todo = <<>>)
    BY <1>0, <1>8, EnumReturn
  <2>3. Path(Sending(written), s, api'.todo, s)
    <3>1. CASE connected'
      BY <2>2, <3>1, PathNil
    <3>2. CASE ~connected'
      <4>1. api'.todo \in Seq(ReadStep)
        <5>1. \/ api'.todo \in {osd_system_enumerate, Tail(osd_system_enumerate)}
              \/ \E k \in 1 .. Len(Type) + 1 :
                    \/ api'.todo = Remaining(k) /\ k <= Len(Type)
                    \/ k > 1 /\ api'.todo = <<osd_reg_read16(k - 1, "desc")>> \o Remaining(k)
          BY <3>2, Zenon DEF Enumeration, Enumerating, Remaining, osd_system_enumerate, osd_reg_read16
        <5> QED BY <5>1, EnumTodo
      <4>2. ASSUME NEW i \in 1 .. Len(api'.todo) PROVE <<s, api'.todo[i], s>> \in Sending(written)
        <5>1. api'.todo[i] \in ReadStep
          BY <4>1, ElementOfSeq
        <5>2. api'.todo[i] \in AnyStep /\ api'.todo[i].k = "reg"
          BY <5>1 DEF ReadStep, AnyStep, RegStep
        <5>3. Sends(written, s, api'.todo[i], s)
          BY <2>1, <5>2 DEF Sends
        <5> QED BY <5>2, <5>3, SendingStep
      <4>3. Len(api'.todo) \in Nat
        BY <4>1
      <4> QED BY <4>2, <4>3, PathConst
    <3> QED BY <3>1, <3>2
  <2> QED BY <1>2, <1>3, <1>4, <2>1, <2>3, StreamNext
<1>9. CASE (RegReturn /\ connected) \/ osd_module_register_handler \/ Result \/ FetchReturn
  <2>1. /\ down' = down /\ connected' = connected /\ api'.todo = Tail(api.todo) /\ api.todo # <<>>
        /\ Step.k \in {"reg", "handler", "result", "fetch"}
    <3>1. CASE RegReturn /\ connected
      <4>1. StepDone /\ down' = down /\ connected' = connected /\ api.todo # <<>> /\ Step.k = "reg"
        BY <3>1 DEF RegReturn, AtStep
      <4> QED BY <1>0, <4>1, DoneFacts
    <3>2. CASE osd_module_register_handler
      <4>1. StepDone /\ down' = down /\ connected' = connected /\ api.todo # <<>> /\ Step.k = "handler"
        BY <3>2 DEF osd_module_register_handler, AtStep
      <4> QED BY <1>0, <4>1, DoneFacts
    <3>3. CASE Result
      BY <1>0, <3>3 DEF Result, AtStep, ApiShape
    <3>4. CASE FetchReturn
      BY <1>0, <3>4 DEF FetchReturn, AtStep, ApiShape
    <3> QED BY <1>9, <3>1, <3>2, <3>3, <3>4
  <2>2. Path(Sending(written), s, Tail(api.todo), Settled(written))
    BY <1>0, <1>2, <2>1, StepNeutral
  <2> QED BY <1>2, <1>3, <1>4, <2>1, <2>2, StreamNext
<1>10. CASE Send
  <2>1. /\ down' \in [Module -> Seq(DownPacket)] /\ connected' = connected
        /\ api.todo # <<>> /\ Step.k = "send" /\ StepDone
        /\ Step.pkt \in DownPacket /\ Pushed(down[Mam], Step.pkt, down'[Mam])
    BY <1>0, <1>10, SendFacts, PutFacts, Constants DEF Send, AtStep
  <2>2. api'.todo = Tail(api.todo)
    BY <1>0, <2>1, DoneFacts
  <2>3. PICK u \in StreamState : /\ Sends(written, s, Step, u)
                                 /\ Path(Sending(written), u, Tail(api.todo), Settled(written))
    BY <1>0, <1>2, <2>1, SendHead
  <2>4. Takes(s, Step.pkt, u)
    BY <2>1, <2>3 DEF Sends
  <2>5. <<s, Step.pkt, u>> \in Taking
    BY <2>1, <2>4, TakingStep
  <2>6. Path(Taking, MamView, down'[Mam], u)
    BY <1>2, <2>1, <2>5, PathPush
  <2>7. connected
    BY <1>0, <2>1, SendConnected
  <2> QED BY <1>3, <1>4, <2>1, <2>2, <2>3, <2>6, <2>7, StreamNext
<1>11. CASE WriteBulk
  <2>1. down' = down /\ connected' = connected /\ api.todo # <<>> /\ Step.k = "bulk"
    BY <1>11 DEF WriteBulk, AtStep
  <2>2. /\ Step \in BulkStep /\ api'.todo = memory_write_bulk(Step.addr, Step.bytes) \o Tail(api.todo)
        /\ memory_write_bulk(Step.addr, Step.bytes) \in Seq(SendStep)
        /\ Tail(api.todo) \in Seq(AnyStep)
    BY <1>0, <1>11, BulkEffect
  <2>3. PICK u \in StreamState : /\ Sends(written, s, Step, u)
                                 /\ Path(Sending(written), u, Tail(api.todo), Settled(written))
    BY <1>0, <1>2, <2>1, SendHead
  <2>4. /\ s.flits = 0 /\ Len(Step.bytes) \in 1 .. BULK_MAX /\ Len(Step.bytes) % BlockSize = 0
        /\ u = Settled(WithBytes(s.mem, Step.addr, Step.bytes))
    BY <2>1, <2>3 DEF Sends
  <2>5. Step.addr \in Nat /\ Step.bytes \in Seq(Nat)
    BY <2>2 DEF BulkStep
  <2>6. Path(Sending(written), s, memory_write_bulk(Step.addr, Step.bytes), u)
    BY <2>4, <2>5, BurstEffect
  <2>7. memory_write_bulk(Step.addr, Step.bytes) \in Seq(AnyStep)
    <3>1. SendStep \subseteq AnyStep
      BY DEF AnyStep
    <3> QED BY <2>2, <3>1, SeqMonotonic
  <2>8. Path(Sending(written), s, api'.todo, Settled(written))
    BY <2>2, <2>3, <2>6, <2>7, PathConcat
  <2>9. connected
    BY <1>0, <2>1, SendConnected
  <2> QED BY <1>2, <1>3, <1>4, <2>1, <2>8, <2>9, StreamNext
<1> QED BY <1>5, <1>6, <1>7, <1>8, <1>9, <1>10, <1>11 DEF ApiStep

\* The threads other than the caller's leave the stream alone; the modules take
\* what is in front.
LEMMA StreamOthers ==
  ASSUME IInv, Stream, RxStep \/ ModuleStep \/ Sample
  PROVE  Stream'
<1>0. ApiShape /\ LinkShape /\ Shape /\ OneAccess /\ DeviceShape /\ OneFetch
  BY DEF IInv, Shape
<1>1. PICK s \in StreamState : Streaming(s)
  BY DEF Stream
<1>2. /\ Path(Taking, MamView, down[Mam], s)
      /\ Path(Sending(written), s, api.todo, Settled(written))
      /\ connected \/ s = Settled(written)
      /\ mam.state = "WRITE" => mam.flits > 0
  BY <1>1 DEF Stream, Streaming
<1>3. api'.todo = api.todo /\ connected' = connected /\ written' = written
  BY <1>0, OthersKeepSteps
<1>4. /\ mam \in [state : {"INACTIVE", "WRITE", "READ"}, addr : Nat, flits : Int]
      /\ memory \in Bytes /\ DOMAIN memory = 0 .. MemSize - 1
  BY <1>0 DEF DeviceShape, Bytes
<1> SUFFICES /\ Path(Taking, MamView', down'[Mam], s)
             /\ mam'.state = "WRITE" => mam'.flits > 0
  BY <1>2, <1>3, StreamNext
<1>5. CASE RxStep \/ Sample \/ OverflowComplete \/ Packetize
  <2>1. down' = down /\ mam' = mam /\ memory' = memory
    BY <1>5 DEF RxStep, Receive, HandleRegister, memory_read_cb, SignalRead, stm_log_handler,
                Sample, OverflowComplete, Packetize, device
  <2> QED BY <1>2, <2>1, NextView
<1>6. CASE \E m \in Module : RegAccess(m)
  <2>1. PICK m \in Module : RegAccess(m)
    BY <1>6
  <2>2. mam' = mam /\ memory' = memory
    BY <2>1 DEF RegAccess
  <2>3. down[m] # <<>> /\ IsReg(down[m][1]) /\ Head(down[m]) = Request /\ Head(down[m]) = down[m][1]
        /\ down' = [down EXCEPT ![m] = Tail(down[m])]
    BY <1>0, <2>1, AccessFacts
  <2>4. Path(Taking, MamView, down'[Mam], s)
    <3>1. CASE m = Mam
      <4>1. PICK u \in StreamState : /\ Takes(MamView, Head(down[Mam]), u)
                                     /\ Path(Taking, u, Tail(down[Mam]), s)
        BY <1>0, <1>2, <2>3, <3>1, TakeHead
      <4>2. ~IsPlain(Head(down[Mam]))
        BY <2>3, <3>1 DEF IsReg, IsPlain
      <4>3. u = MamView
        BY <4>1, <4>2 DEF Takes
      <4>4. down'[Mam] = Tail(down[Mam])
        BY <1>0, <2>3, <3>1, Constants DEF LinkShape
      <4> QED BY <4>1, <4>3, <4>4
    <3>2. CASE m # Mam
      <4>1. down'[Mam] = down[Mam]
        BY <1>0, <2>3, <3>2, Constants DEF LinkShape
      <4> QED BY <1>2, <4>1
    <3> QED BY <3>1, <3>2
  <2> QED BY <1>2, <2>2, <2>4, NextView
<1>7. CASE MamCommand
  <2> DEFINE q == Head(down[Mam])
  <2>1. /\ down[Mam] # <<>> /\ IsPlain(q) /\ mam.state = "INACTIVE" /\ Take(Mam)
        /\ IF q.cmd = "single"
           THEN /\ memory' = [b \in DOMAIN memory |->
                                 IF b - q.addr \in q.strb THEN Stored(q.addr, q.words)[b] ELSE memory[b]]
                /\ mam' = mam
           ELSE /\ mam' = [state |-> IF q.cmd = "get" THEN "READ" ELSE "WRITE",
                           addr |-> q.addr, flits |-> q.beats * (BlockSize \div 2)]
                /\ memory' = memory
    BY <1>7 DEF MamCommand, AtModule, IsPlain
  <2>2. PICK u \in StreamState : /\ Takes(MamView, q, u)
                                 /\ Path(Taking, u, Tail(down[Mam]), s)
    BY <1>0, <1>2, <2>1, TakeHead
  <2>3. down'[Mam] = Tail(down[Mam])
    BY <1>0, <2>1, Constants DEF LinkShape, Take
  <2>4. q \in MamPacket
    <3>1. q \in DownPacket
      BY <1>0, <2>1, TakeFacts, Constants
    <3> QED BY <2>1, <3>1, DownKinds
  <2>5. MamView = [flits |-> 0, addr |-> 0, mem |-> memory] /\ MamView.flits = 0 /\ MamView.mem = memory
    BY <2>1 DEF MamView
  <2>6. /\ q.cmd \in {"single", "burst", "data", "get"} /\ q.words \in Seq(Word)
        /\ q.addr \in Nat /\ q.beats \in Nat
    BY <2>4 DEF MamPacket
  <2> HIDE DEF q
  <2>7. q.cmd # "data"
    <3>1. q.cmd = "data" => Len(q.words) \in 1 .. 0
      BY <2>1, <2>2, <2>5 DEF Takes
    <3> QED BY <2>6, <3>1
  <2>8. MamView' = u /\ (mam'.state = "WRITE" => mam'.flits > 0)
    <3>1. CASE q.cmd = "single"
      <4>1. Stored(q.addr, q.words) = WithWords(memory, q.addr, q.words)
        BY <1>4 DEF Stored, WithWords
      <4>2. memory' = WithStrobe(memory, q)
        BY <1>4, <2>1, <3>1, <4>1 DEF WithStrobe
      <4>3. u = [MamView EXCEPT !.mem = WithStrobe(MamView.mem, q)]
        BY <2>1, <2>2, <3>1 DEF Takes
      <4>4. u = [flits |-> 0, addr |-> 0, mem |-> WithStrobe(memory, q)]
        BY <2>5, <4>3
      <4>5. mam' = mam
        BY <2>1, <3>1
      <4> QED BY <2>1, <4>2, <4>4, <4>5 DEF MamView
    <3>2. CASE q.cmd = "get"
      <4>1. mam'.state = "READ" /\ memory' = memory
        BY <2>1, <3>2
      <4>2. u = MamView
        BY <2>1, <2>2, <3>2 DEF Takes
      <4> QED BY <2>1, <4>1, <4>2, NextView
    <3>3. CASE q.cmd = "burst"
      <4>1. q.beats > 0 /\ u = [flits |-> q.beats * (BlockSize \div 2), addr |-> q.addr, mem |-> memory]
        BY <2>1, <2>2, <2>5, <3>3 DEF Takes
      <4>2. /\ mam' = [state |-> "WRITE", addr |-> q.addr, flits |-> q.beats * (BlockSize \div 2)]
            /\ memory' = memory
        BY <2>1, <3>3
      <4> DEFINE L == q.beats * (BlockSize \div 2)
      <4>3. L > 0
        <5> DEFINE h == BlockSize \div 2
        <5>1. h \in Nat \ {0}
          BY Sizes
        <5> HIDE DEF h
        <5>2. q.beats * h > 0
          BY <2>6, <4>1, <5>1
        <5> QED BY <5>2 DEF h
      <4> HIDE DEF L
      <4>4. mam'.state = "WRITE" /\ mam'.addr = q.addr /\ mam'.flits = L
        BY <4>2 DEF L
      <4>5. u = [flits |-> L, addr |-> q.addr, mem |-> memory]
        BY <4>1 DEF L
      <4> QED BY <4>2, <4>3, <4>4, <4>5 DEF MamView
    <3> QED BY <2>6, <2>7, <3>1, <3>2, <3>3
  <2> QED BY <2>2, <2>3, <2>8
<1>8. CASE MamWrite
  <2> DEFINE q == Head(down[Mam])
  <2>1. /\ down[Mam] # <<>> /\ IsPlain(q) /\ mam.state = "WRITE" /\ Take(Mam)
        /\ memory' = Stored(mam.addr, q.words) /\ Advance(Len(q.words))
    BY <1>8 DEF MamWrite, AtModule, IsPlain
  <2>2. PICK u \in StreamState : /\ Takes(MamView, q, u)
                                 /\ Path(Taking, u, Tail(down[Mam]), s)
    BY <1>0, <1>2, <2>1, TakeHead
  <2>3. down'[Mam] = Tail(down[Mam])
    BY <1>0, <2>1, Constants DEF LinkShape, Take
  <2>4. MamView.flits = mam.flits /\ MamView.addr = mam.addr /\ MamView.mem = memory /\ mam.flits > 0
    BY <1>2, <2>1 DEF MamView
  <2> HIDE DEF q
  <2> DEFINE n == Len(q.words)
  <2>5. mam.flits \in Int /\ mam.flits # 0
    BY <1>4, <2>4
  <2>6. /\ n \in 1 .. mam.flits
        /\ u = [flits |-> mam.flits - n,
                addr |-> IF n = mam.flits THEN 0 ELSE mam.addr + 2 * n,
                mem |-> WithWords(memory, mam.addr, q.words)]
    BY <2>1, <2>2, <2>4, <2>5 DEF Takes
  <2>7. memory' = WithWords(memory, mam.addr, q.words)
    BY <1>4, <2>1 DEF Stored, WithWords
  <2> HIDE DEF n
  <2>8. mam' = IF n = mam.flits THEN MamIdle ELSE [mam EXCEPT !.addr = @ + 2 * n, !.flits = @ - n]
    BY <2>1 DEF Advance, n
  <2>9. MamView' = u /\ (mam'.state = "WRITE" => mam'.flits > 0)
    <3>1. CASE n = mam.flits
      <4>1. mam'.state = "INACTIVE"
        BY <2>8, <3>1 DEF MamIdle
      <4>2. u = [flits |-> 0, addr |-> 0, mem |-> WithWords(memory, mam.addr, q.words)]
        BY <2>5, <2>6, <3>1
      <4> QED BY <2>7, <4>1, <4>2 DEF MamView
    <3>2. CASE n # mam.flits
      <4>1. mam' = [mam EXCEPT !.addr = @ + 2 * n, !.flits = @ - n]
        BY <2>8, <3>2
      <4>2. mam'.state = "WRITE" /\ mam'.addr = mam.addr + 2 * n /\ mam'.flits = mam.flits - n
        BY <1>4, <2>1, <4>1
      <4>3. u = [flits |-> mam.flits - n, addr |-> mam.addr + 2 * n,
                 mem |-> WithWords(memory, mam.addr, q.words)]
        BY <2>6, <3>2
      <4>4. mam'.flits > 0
        BY <2>5, <2>6, <3>2, <4>2
      <4> QED BY <2>7, <4>2, <4>3, <4>4 DEF MamView
    <3> QED BY <3>1, <3>2
  <2> QED BY <2>2, <2>3, <2>9
<1>9. CASE MamRead
  <2>1. mam.state = "READ" /\ memory' = memory /\ down' = down /\ \E n : Advance(n)
    BY <1>9, Zenon DEF MamRead
  <2>2. mam'.state # "WRITE"
    BY <1>4, <2>1 DEF Advance, MamIdle
  <2> QED BY <1>2, <2>1, <2>2, NextView
<1> QED BY <1>5, <1>6, <1>7, <1>8, <1>9 DEF ModuleStep

\* Steps that send the module nothing.
LEMMA NeutralEffect ==
  ASSUME NEW w \in Bytes, NEW q \in Seq(AnyStep),
         \A i \in 1 .. Len(q) : q[i].k \in {"reg", "handler", "result", "fetch"}
  PROVE  Path(Sending(w), Settled(w), q, Settled(w))
<1>1. Settled(w) \in StreamState /\ Settled(w).flits = 0 /\ Settled(w).mem = w
  BY SettledType
<1>2. ASSUME NEW i \in 1 .. Len(q) PROVE <<Settled(w), q[i], Settled(w)>> \in Sending(w)
  <2>1. q[i] \in AnyStep
    BY ElementOfSeq
  <2>2. Sends(w, Settled(w), q[i], Settled(w))
    <3>1. q[i].k \in {"reg", "handler", "result", "fetch"}
      OBVIOUS
    <3> HIDE DEF Settled
    <3> QED BY <1>1, <3>1 DEF Sends
  <2> QED BY <1>1, <2>1, <2>2, SendingStep
<1>3. Len(q) \in Nat
  OBVIOUS
<1> QED BY <1>1, <1>2, <1>3, PathConst

\* Two writes side by side.
LEMMA BytesConcat ==
  ASSUME NEW mem \in Bytes, NEW a \in Nat, NEW x \in Seq(Nat), NEW y \in Seq(Nat)
  PROVE  WithBytes(WithBytes(mem, a, x), a + Len(x), y) = WithBytes(mem, a, x \o y)
<1> DEFINE m == Len(x)
           n == Len(y)
           z == x \o y
<1>1. /\ m \in Nat /\ n \in Nat /\ Len(z) = m + n
      /\ \A i \in 1 .. m + n : z[i] = IF i <= m THEN x[i] ELSE y[i - m]
  BY ConcatProperties
<1> HIDE DEF m, n, z
<1>2. ASSUME NEW b \in 0 .. MemSize - 1
      PROVE  (IF b - (a + m) + 1 \in 1 .. n THEN y[b - (a + m) + 1] ELSE WithBytes(mem, a, x)[b])
               = (IF b - a + 1 \in 1 .. m + n THEN z[b - a + 1] ELSE mem[b])
  <2>1. WithBytes(mem, a, x)[b] = IF b - a + 1 \in 1 .. m THEN x[b - a + 1] ELSE mem[b]
    BY DEF WithBytes, m
  <2> DEFINE i == b - a + 1
  <2>2. i \in Int /\ b - (a + m) + 1 = i - m
    BY <1>1, Sizes
  <2>3. CASE i \in 1 .. m
    <3>1. ~(i - m \in 1 .. n) /\ i \in 1 .. m + n /\ i <= m
      BY <1>1, <2>2, <2>3
    <3>2. z[i] = x[i]
      BY <1>1, <3>1
    <3> HIDE DEF i
    <3> QED BY <2>1, <2>2, <2>3, <3>1, <3>2 DEF i
  <2>4. CASE i \in m + 1 .. m + n
    <3>1. i - m \in 1 .. n /\ i \in 1 .. m + n /\ ~(i <= m)
      BY <1>1, <2>2, <2>4
    <3>2. z[i] = y[i - m]
      BY <1>1, <3>1
    <3> QED BY <2>2, <3>1, <3>2
  <2>5. CASE ~(i \in 1 .. m + n)
    <3>1. ~(i - m \in 1 .. n) /\ ~(i \in 1 .. m)
      BY <1>1, <2>2, <2>5
    <3> QED BY <2>1, <2>2, <2>5, <3>1
  <2>6. i \in 1 .. m \/ i \in m + 1 .. m + n \/ ~(i \in 1 .. m + n)
    BY <1>1, <2>2
  <2> QED BY <2>3, <2>4, <2>5, <2>6
<1>3. WithBytes(WithBytes(mem, a, x), a + m, y)
         = [b \in 0 .. MemSize - 1 |->
              IF b - (a + m) + 1 \in 1 .. n THEN y[b - (a + m) + 1] ELSE WithBytes(mem, a, x)[b]]
  BY Zenon DEF WithBytes, n
<1>4. WithBytes(mem, a, z) = [b \in 0 .. MemSize - 1 |->
                                IF b - a + 1 \in 1 .. m + n THEN z[b - a + 1] ELSE mem[b]]
  BY <1>1 DEF WithBytes
<1>5. WithBytes(WithBytes(mem, a, x), a + m, y) = WithBytes(mem, a, z)
  BY <1>2, <1>3, <1>4
<1> QED BY <1>5 DEF m, z

\* A read sends nothing that writes.
LEMMA ReadEffect ==
  ASSUME NEW w \in Bytes, NEW a \in Nat, NEW size \in Nat \ {0}, CanRead(a, size)
  PROVE  /\ osd_memory_read(a, size) \in Seq(AnyStep)
         /\ Path(Sending(w), Settled(w), osd_memory_read(a, size), Settled(w))
<1> DEFINE q == osd_memory_read(a, size)
<1>1. q \in Seq(ResultStep \cup FetchStep)
  BY ReadType
<1>2. ResultStep \cup FetchStep \subseteq AnyStep
  BY DEF AnyStep
<1> HIDE DEF q
<1>3. q \in Seq(AnyStep)
  BY <1>1, <1>2, SeqMonotonic
<1>4. \A i \in 1 .. Len(q) : q[i].k \in {"reg", "handler", "result", "fetch"}
  <2>1. \A i \in 1 .. Len(q) : q[i] \in ResultStep \cup FetchStep
    BY <1>1, ElementOfSeq
  <2>2. \A f \in ResultStep \cup FetchStep : f.k \in {"result", "fetch"}
    BY DEF ResultStep, FetchStep
  <2> QED BY <2>1, <2>2
<1>5. Path(Sending(w), Settled(w), q, Settled(w))
  BY <1>3, <1>4, NeutralEffect
<1> QED BY <1>3, <1>5 DEF q

\* osd_memory_loadelf writes the file and the zeros after it.
LEMMA LoadEffect ==
  ASSUME NEW mem \in Bytes, NEW e \in Load, NEW verify \in BOOLEAN, NEW w,
         w = WithBytes(mem, e.addr, Data(e.filesz) \o Zeros(e.memsz - e.filesz))
  PROVE  Path(Sending(w), Settled(mem), osd_memory_loadelf(e, verify), Settled(w))
<1> DEFINE n == e.memsz - e.filesz
           x == Data(e.filesz)
           y == Zeros(n)
           m == WithBytes(mem, e.addr, x)
           a == osd_memory_write(e.addr, x)
           b == IF e.memsz > e.filesz THEN osd_memory_write(e.addr + e.filesz, y) ELSE <<>>
           c == IF verify THEN osd_memory_read(e.addr, e.filesz) ELSE <<>>
<1>1. /\ e.addr \in Nat /\ e.filesz \in Nat \ {0} /\ e.memsz \in Nat
      /\ CanWrite(e.addr, e.filesz) /\ CanRead(e.addr, e.filesz) /\ e.memsz >= e.filesz
      /\ e.memsz # e.filesz => CanWrite(e.addr + e.filesz, n)
  BY RangeFacts
<1>2. n \in Nat /\ (e.memsz > e.filesz <=> n > 0) /\ e.addr + e.filesz \in Nat
  BY <1>1
<1>3. x \in Seq(Nat) /\ Len(x) = e.filesz /\ y \in Seq(Nat) /\ Len(y) = n
  BY <1>1, <1>2, BufferTypes
<1> HIDE DEF n, x, y
<1>4. m \in Bytes
  BY <1>1, <1>3, UptoFacts
<1>5. w = WithBytes(m, e.addr + e.filesz, y)
  <2>1. WithBytes(m, e.addr + Len(x), y) = WithBytes(mem, e.addr, x \o y)
    BY <1>1, <1>3, BytesConcat
  <2> QED BY <1>3, <2>1 DEF x, y, n
<1>6. w \in Bytes
  BY <1>2, <1>3, <1>4, <1>5, UptoFacts
<1>7. a \in Seq(AnyStep) /\ Path(Sending(w), Settled(mem), a, Settled(m))
  <2>1. Tiled(e.addr, Len(x)) /\ Len(x) # 0 /\ CanWrite(e.addr, Len(x))
    BY <1>1, <1>3 DEF CanWrite
  <2>2. a \in Seq(AnyStep)
    BY <1>1, <1>3, <2>1, WriteType
  <2> QED BY <1>1, <1>3, <2>1, <2>2, WriteEffect
<1> HIDE DEF m, a
<1>8. b \in Seq(AnyStep) /\ Path(Sending(w), Settled(m), b, Settled(w))
  <2>1. CASE n > 0
    <3>1. b = osd_memory_write(e.addr + e.filesz, y)
      BY <1>2, <2>1
    <3>2. CanWrite(e.addr + e.filesz, Len(y)) /\ Len(y) # 0
      BY <1>1, <1>2, <1>3, <2>1
    <3>3. Tiled(e.addr + e.filesz, Len(y))
      BY <3>2 DEF CanWrite
    <3>4. b \in Seq(AnyStep)
      BY <1>2, <1>3, <3>1, <3>2, <3>3, WriteType
    <3>5. Path(Sending(w), Settled(m), osd_memory_write(e.addr + e.filesz, y),
               Settled(WithBytes(m, e.addr + e.filesz, y)))
      BY <1>2, <1>3, <1>4, <3>2, WriteEffect
    <3> QED BY <1>5, <3>1, <3>4, <3>5
  <2>2. CASE ~(n > 0)
    <3>1. b = <<>>
      BY <1>2, <2>2
    <3>2. y \in Seq(Nat) /\ Len(y) = 0
      BY <1>2, <1>3, <2>2
    <3>3. w = m
      <4>1. WithBytes(m, e.addr + e.filesz, y) = Upto(m, e.addr + e.filesz, y, 0)
        <5>1. Upto(m, e.addr + e.filesz, y, Len(y)) = WithBytes(m, e.addr + e.filesz, y)
          BY <1>2, <1>3, <1>4, UptoFacts
        <5> QED BY <3>2, <5>1
      <4>2. Upto(m, e.addr + e.filesz, y, 0) = m
        BY <1>2, <1>3, <1>4, UptoFacts
      <4> QED BY <1>5, <4>1, <4>2
    <3>4. Settled(m) \in StreamState
      BY <1>4, SettledType
    <3>5. Path(Sending(w), Settled(m), <<>>, Settled(m))
      BY <3>4, PathNil
    <3>6. <<>> \in Seq(AnyStep)
      OBVIOUS
    <3> HIDE DEF b
    <3> QED BY <3>1, <3>3, <3>5, <3>6, Zenon
  <2> QED BY <2>1, <2>2
<1> HIDE DEF b
<1>9. c \in Seq(AnyStep) /\ Path(Sending(w), Settled(w), c, Settled(w))
  <2>1. CASE verify
    BY <1>1, <1>6, <2>1, ReadEffect
  <2>2. CASE ~verify
    <3>1. c = <<>>
      BY <2>2
    <3>2. Path(Sending(w), Settled(w), <<>>, Settled(w))
      BY <1>6, SettledType, PathNil
    <3>3. <<>> \in Seq(AnyStep)
      OBVIOUS
    <3> HIDE DEF c
    <3> QED BY <3>1, <3>2, <3>3, Zenon
  <2> QED BY <2>1, <2>2
<1> HIDE DEF c
<1>10. a \o b \in Seq(AnyStep) /\ Path(Sending(w), Settled(mem), a \o b, Settled(w))
  BY <1>7, <1>8, PathConcat, ConcatProperties
<1>11. Path(Sending(w), Settled(mem), (a \o b) \o c, Settled(w))
  BY <1>9, <1>10, PathConcat
<1>12. osd_memory_loadelf(e, verify) = (a \o b) \o c
  BY Zenon DEF osd_memory_loadelf, a, b, c, n, x, y
<1> QED BY <1>11, <1>12

\* The history variable is written like a memory.
LEMMA WroteBytes ==
  ASSUME written \in Bytes, NEW a \in Nat, NEW bytes \in Seq(Nat), Wrote(a, bytes)
  PROVE  written' = WithBytes(written, a, bytes)
<1>1. DOMAIN bytes = 1 .. Len(bytes) /\ DOMAIN written = 0 .. MemSize - 1
  BY DEF Bytes
<1> QED BY <1>1 DEF Wrote, WithBytes

\* A call starts where everything the calls before it wrote is in the stream.
LEMMA StreamCall ==
  ASSUME IInv, Stream, Call
  PROVE  Stream'
<1>0. ApiShape /\ DeviceShape /\ written \in Bytes
  BY DEF IInv, Shape, DeviceShape
<1>1. PICK s \in StreamState : Streaming(s)
  BY DEF Stream
<1>2. /\ Path(Taking, MamView, down[Mam], s)
      /\ Path(Sending(written), s, api.todo, Settled(written))
      /\ mam.state = "WRITE" => mam.flits > 0
  BY <1>1 DEF Stream, Streaming
<1>3. connected /\ api.todo = <<>> /\ connected' = connected /\ down' = down /\ mam' = mam /\ memory' = memory
  BY DEF Call, Idle, device
<1>4. s = Settled(written)
  <2>1. Len(api.todo) = 0
    BY <1>3
  <2> QED BY <1>2, <2>1, PathEnds
<1>5. MamView' = MamView
  BY <1>3, NextView
<1> SUFFICES Path(Sending(written'), Settled(written), api'.todo, Settled(written'))
  BY <1>2, <1>3, <1>4, <1>5, StreamNext
<1>6. CASE CallWrite
  <2>1. PICK w \in Write : /\ Enter(osd_memory_write(w.addr, Data(w.size)))
                           /\ Wrote(w.addr, Data(w.size))
    BY <1>6 DEF CallWrite
  <2>2. w.addr \in Nat /\ w.size \in Nat \ {0} /\ CanWrite(w.addr, w.size)
    BY RangeFacts
  <2>3. Data(w.size) \in Seq(Nat) /\ Len(Data(w.size)) = w.size
    BY <2>2, BufferTypes
  <2>4. written' = WithBytes(written, w.addr, Data(w.size))
    BY <1>0, <2>1, <2>2, <2>3, WroteBytes
  <2>5. api'.todo = osd_memory_write(w.addr, Data(w.size))
    BY <2>1 DEF Enter
  <2>6. Path(Sending(written'), Settled(written), osd_memory_write(w.addr, Data(w.size)),
             Settled(WithBytes(written, w.addr, Data(w.size))))
    BY <1>0, <2>2, <2>3, WriteEffect
  <2> QED BY <2>4, <2>5, <2>6
<1>7. CASE CallLoad
  <2>1. PICK e \in Load, verify \in BOOLEAN :
           /\ Enter(osd_memory_loadelf(e, verify))
           /\ Wrote(e.addr, Data(e.filesz) \o Zeros(e.memsz - e.filesz))
    BY <1>7 DEF CallLoad
  <2>2. e.addr \in Nat /\ e.filesz \in Nat /\ e.memsz - e.filesz \in Nat
    BY RangeFacts
  <2>3. Data(e.filesz) \o Zeros(e.memsz - e.filesz) \in Seq(Nat)
    BY <2>2, BufferTypes, ConcatProperties
  <2>4. written' = WithBytes(written, e.addr, Data(e.filesz) \o Zeros(e.memsz - e.filesz))
    BY <1>0, <2>1, <2>2, <2>3, WroteBytes
  <2>5. api'.todo = osd_memory_loadelf(e, verify)
    BY <2>1 DEF Enter
  <2>6. Path(Sending(written'), Settled(written), osd_memory_loadelf(e, verify), Settled(written'))
    BY <1>0, <2>4, LoadEffect
  <2> QED BY <2>5, <2>6
<1>8. CASE CallRead
  <2>1. written' = written /\ \E r \in Read : Enter(osd_memory_read(r.addr, r.size))
    BY <1>8 DEF CallRead
  <2>2. PICK r \in Read : Enter(osd_memory_read(r.addr, r.size))
    BY <2>1
  <2>3. r.addr \in Nat /\ r.size \in Nat \ {0} /\ CanRead(r.addr, r.size)
    BY RangeFacts
  <2>4. api'.todo = osd_memory_read(r.addr, r.size)
    BY <2>2 DEF Enter
  <2>5. Path(Sending(written), Settled(written), osd_memory_read(r.addr, r.size), Settled(written))
    BY <1>0, <2>3, ReadEffect
  <2> QED BY <2>1, <2>4, <2>5
<1>9. CASE CallControl
  <2>1. written' = written
    BY <1>9 DEF CallControl
  <2>2. /\ api'.todo \in Seq(AnyStep)
        /\ \A i \in 1 .. Len(api'.todo) : api'.todo[i].k \in {"reg", "handler", "result", "fetch"}
    <3>1. ASSUME NEW q, Enter(q) PROVE api'.todo = q
      BY <3>1 DEF Enter
    <3>2. CASE Enter(osd_stm_log(Stm))
      <4>1. api'.todo = osd_stm_log(Stm)
        BY <3>1, <3>2
      <4>2. \A i \in 1 .. 2 : osd_stm_log(Stm)[i].k \in {"reg", "handler"}
        <5>1. \A i \in 1 .. 2 : i = 1 \/ i = 2
          OBVIOUS
        <5> QED BY <5>1, ControlType
      <4> QED BY <4>1, <4>2, ControlType
    <3>3. CASE Enter(osd_start_cores)
      <4>1. api'.todo = osd_start_cores
        BY <3>1, <3>3
      <4>2. \A i \in 1 .. 1 : osd_start_cores[i].k = "reg"
        <5>1. \A i \in 1 .. 1 : i = 1
          OBVIOUS
        <5> QED BY <5>1, ControlType
      <4> QED BY <4>1, <4>2, ControlType
    <3>4. CASE \E halt \in BOOLEAN : Enter(osd_reset_system(halt))
      <4>1. PICK halt \in BOOLEAN : Enter(osd_reset_system(halt))
        BY <3>4
      <4>2. api'.todo = osd_reset_system(halt)
        BY <3>1, <4>1
      <4> QED BY <4>2, ControlType
    <3> QED BY <1>9, <3>2, <3>3, <3>4 DEF CallControl
  <2>3. ASSUME NEW w \in Bytes, NEW q \in Seq(AnyStep),
               \A i \in 1 .. Len(q) : q[i].k \in {"reg", "handler", "result", "fetch"}
        PROVE  Path(Sending(w), Settled(w), q, Settled(w))
    BY <2>3, NeutralEffect
  <2>4. Path(Sending(written), Settled(written), api'.todo, Settled(written))
    BY <1>0, <2>2, <2>3
  <2> QED BY <2>1, <2>4
<1> QED BY <1>6, <1>7, <1>8, <1>9 DEF Call

\* At the start there is nothing to write.
LEMMA StreamInit == Init => Stream
<1> SUFFICES ASSUME Init PROVE Stream
  OBVIOUS
<1>1. /\ mam.state = "INACTIVE" /\ memory = written /\ memory \in Bytes /\ ~connected
      /\ api.todo = osd_system_enumerate
  BY Sizes DEF Init, MamIdle, Bytes
<1>2. down[Mam] = <<>>
  BY Constants DEF Init
<1> DEFINE s == Settled(written)
<1>3. s \in StreamState /\ s.flits = 0 /\ s = MamView
  BY <1>1, SettledType DEF MamView, Settled
<1> HIDE DEF s
<1>4. Path(Taking, MamView, down[Mam], s)
  BY <1>2, <1>3, PathNil
<1>5. Path(Sending(written), s, api.todo, s)
  <2>1. api.todo \in Seq(ReadStep)
    BY <1>1, EnumerateFacts
  <2>2. ASSUME NEW i \in 1 .. Len(api.todo) PROVE <<s, api.todo[i], s>> \in Sending(written)
    <3>1. api.todo[i] \in ReadStep
      BY <2>1, ElementOfSeq
    <3>2. api.todo[i] \in AnyStep /\ api.todo[i].k = "reg"
      BY <3>1 DEF ReadStep, AnyStep, RegStep
    <3>3. Sends(written, s, api.todo[i], s)
      BY <1>3, <3>2 DEF Sends
    <3> QED BY <1>3, <3>2, <3>3, SendingStep
  <2>3. Len(api.todo) \in Nat
    BY <2>1
  <2> QED BY <1>3, <2>2, <2>3, PathConst
<1>6. Streaming(s)
  BY <1>4, <1>5 DEF Streaming, s
<1> QED BY <1>1, <1>3, <1>6 DEF Stream

\* Every step keeps the stream.
LEMMA StreamStep == IInv /\ Stream /\ [Next]_vars => Stream'
<1> SUFFICES ASSUME IInv, Stream, [Next]_vars PROVE Stream'
  OBVIOUS
<1>1. CASE Next
  <2>1. Enumeration'
    BY <1>1, EnumerationInv
  <2> QED BY <1>1, <2>1, StreamCall, StreamApi, StreamOthers DEF Next
<1>2. CASE UNCHANGED vars
  <2>1. api' = api /\ connected' = connected /\ down' = down /\ mam' = mam /\ memory' = memory /\ written' = written
    BY <1>2 DEF vars, host, device
  <2>2. MamView' = MamView
    BY <2>1, NextView
  <2>3. PICK s \in StreamState : Streaming(s)
    BY DEF Stream
  <2>4. /\ Path(Taking, MamView, down[Mam], s)
        /\ Path(Sending(written), s, api.todo, Settled(written))
        /\ connected \/ s = Settled(written)
        /\ mam.state = "WRITE" => mam.flits > 0
    BY <2>3 DEF Stream, Streaming
  <2> QED BY <2>1, <2>2, <2>4, StreamNext
<1> QED BY <1>1, <1>2

\* The module can take what is in front of it.
LEMMA FramingHolds == IInv /\ Stream => MamFraming
<1> SUFFICES ASSUME IInv, Stream, AtModule(Mam, "plain")
             PROVE  /\ mam.state = "INACTIVE" => Head(down[Mam]).cmd # "data"
                    /\ mam.state = "WRITE" => /\ Head(down[Mam]).cmd = "data"
                                              /\ Len(Head(down[Mam]).words) <= mam.flits
  BY Zenon DEF MamFraming
<1> DEFINE q == Head(down[Mam])
<1>1. LinkShape /\ DeviceShape /\ down[Mam] # <<>> /\ IsPlain(q)
  BY DEF IInv, Shape, AtModule, IsPlain
<1>2. PICK s \in StreamState : Path(Taking, MamView, down[Mam], s)
  BY DEF Stream, Streaming
<1>3. PICK u \in StreamState : Takes(MamView, q, u)
  BY <1>1, <1>2, TakeHead
<1>4. mam.flits \in Int /\ (mam.state = "WRITE" => mam.flits > 0)
  BY <1>1 DEF DeviceShape, Stream
<1> HIDE DEF q
<1>5. MamView.flits = IF mam.state = "WRITE" THEN mam.flits ELSE 0
  BY ViewFacts
<1>6. mam.state = "INACTIVE" => q.cmd # "data"
  <2> SUFFICES ASSUME mam.state = "INACTIVE", q.cmd = "data" PROVE FALSE
    OBVIOUS
  <2>1. MamView.flits = 0
    BY <1>5
  <2>2. Len(q.words) \in 1 .. 0
    BY <1>1, <1>3, <2>1 DEF Takes
  <2> QED BY <2>2
<1>7. mam.state = "WRITE" => q.cmd = "data" /\ Len(q.words) <= mam.flits
  <2> SUFFICES ASSUME mam.state = "WRITE" PROVE q.cmd = "data" /\ Len(q.words) <= mam.flits
    OBVIOUS
  <2>1. MamView.flits = mam.flits /\ MamView.flits # 0
    BY <1>4, <1>5
  <2>2. q.cmd = "data" /\ Len(q.words) \in 1 .. mam.flits
    BY <1>1, <1>3, <2>1 DEF Takes
  <2> QED BY <1>4, <2>2
<1> QED BY <1>6, <1>7 DEF q

\* The invariant implies the types.
LEMMA TypeHolds == IInv /\ Stream => TypeOK
<1> SUFFICES ASSUME IInv, Stream PROVE TypeOK
  OBVIOUS
<1>1. /\ api.pc \in {"next", "locked", "sent", "wait", "woken"}
      /\ connected \in BOOLEAN /\ stall \in BOOLEAN /\ rst_vector \in 0 .. 3
      /\ rx.at \in {"read", "handle", "signal"}
      /\ \A m \in Module : Len(down[m]) <= Depth
      /\ Len(up) <= Depth /\ Len(stm.fifo) <= FifoDepth /\ stm.ov \in 0 .. OvMax
      /\ mam.state \in {"INACTIVE", "WRITE", "READ"} /\ mam.flits \in Int
      /\ mam.state # "WRITE" => mam.flits \in Nat
      /\ DOMAIN memory = 0 .. MemSize - 1 /\ DOMAIN written = DOMAIN memory
  BY DEF IInv, Shape, ApiShape, LinkShape, DeviceShape, Bytes
<1>2. DOMAIN info = DOMAIN handler \/ ~connected
  BY Constants DEF IInv, Enumeration
<1>3. mem_access.count <= mem_access.size \div 2
  BY DEF IInv, OneFetch
<1>4. mam.flits \in Nat
  BY <1>1 DEF Stream
<1> QED BY <1>1, <1>2, <1>3, <1>4 DEF TypeOK

(***************************************************************************)
(* The buffer of a fetch.                                                  *)
(***************************************************************************)

\* Byte i of a buffer of n words, and its neighbour in the word.
LEMMA SwapFacts ==
  ASSUME NEW n \in Nat, NEW i \in 0 .. 2 * n - 1
  PROVE  /\ Swap(i) \in 0 .. 2 * n - 1 /\ Swap(Swap(i)) = i
         /\ i \div 2 \in 0 .. n - 1
         /\ i % 2 = 0 => i = 2 * (i \div 2) /\ Swap(i) = 2 * (i \div 2) + 1
         /\ i % 2 # 0 => i = 2 * (i \div 2) + 1 /\ Swap(i) = 2 * (i \div 2)
<1> DEFINE d == i \div 2
           r == i % 2
<1>1. i \in Nat /\ 2 \in Nat \ {0}
  OBVIOUS
<1>2. d \in Nat /\ r \in 0 .. 1 /\ i = 2 * d + r
  BY <1>1, NatDivMod
<1>3. Swap(i) = IF r = 0 THEN i + 1 ELSE i - 1
  BY DEF Swap
<1> HIDE DEF d, r
<1>4. Swap(i) = (2 * d + 1) - r /\ d \in 0 .. n - 1
  BY <1>1, <1>2, <1>3
<1>5. Swap(i) \in 0 .. 2 * n - 1 /\ Swap(i) \in Nat
  BY <1>1, <1>2, <1>4
<1>6. Swap(Swap(i)) = i
  <2> DEFINE j == Swap(i)
             c == j \div 2
             q == j % 2
  <2>1. j \in Nat
    BY <1>5
  <2>2. c \in Nat /\ q \in 0 .. 1 /\ j = 2 * c + q
    <3>1. 2 \in Nat \ {0}
      OBVIOUS
    <3> HIDE DEF j
    <3> QED BY <2>1, <3>1, NatDivMod
  <2>3. Swap(j) = IF q = 0 THEN j + 1 ELSE j - 1
    BY DEF Swap
  <2>4. j = (2 * d + 1) - r
    BY <1>4
  <2> HIDE DEF j, c, q
  <2>5. q = 1 - r
    BY <1>2, <2>2, <2>4
  <2>6. Swap(j) = i
    BY <1>2, <2>2, <2>3, <2>4, <2>5
  <2> QED BY <2>6 DEF j
<1>7. /\ r = 0 => i = 2 * d /\ Swap(i) = 2 * d + 1
      /\ r # 0 => i = 2 * d + 1 /\ Swap(i) = 2 * d
  BY <1>2, <1>4
<1> QED BY <1>4, <1>5, <1>6, <1>7 DEF d, r

\* The size of a fetch is a number of 16-bit words.
LEMMA FetchSize ==
  ASSUME NEW f \in FetchStep
  PROVE  /\ f.n \in Nat \ {0} /\ f.n \div 2 \in Nat /\ f.n = 2 * (f.n \div 2)
         /\ f.addr \in Nat /\ f.addr + f.n <= MemSize /\ f.off \in Nat /\ f.skip \in Nat /\ f.keep \in Nat
         /\ f.skip + f.keep <= f.n /\ f.k = "fetch"
<1>1. /\ f.n \in Nat /\ f.n > 0 /\ f.n % BlockSize = 0 /\ f.addr \in Nat /\ f.addr + f.n <= MemSize
      /\ f.off \in Nat /\ f.skip \in Nat /\ f.keep \in Nat /\ f.skip + f.keep <= f.n /\ f.k = "fetch"
  BY DEF FetchStep
<1> DEFINE n == f.n
           h == BlockSize \div 2
<1>2. h \in Nat \ {0} /\ BlockSize = 2 * h /\ BlockSize \in Nat \ {0}
  BY Sizes
<1>3. n \in Int /\ n \in Nat /\ n % BlockSize = 0
  BY <1>1
<1> HIDE DEF n, h
<1>4. PICK q \in Int : n = BlockSize * q
  BY <1>2, <1>3, Multiple
<1>5. h * q \in Int /\ n = 2 * (h * q)
  BY <1>2, <1>4
<1> DEFINE z == h * q
<1>6. z \in Int /\ n = 2 * z
  BY <1>5
<1> HIDE DEF z
<1>7. n \div 2 = z
  BY <1>6, Exact
<1>8. n \div 2 \in Nat /\ n = 2 * (n \div 2)
  BY <1>3, <1>6, <1>7
<1> QED BY <1>1, <1>8 DEF n

\* Nothing is on its way to the module while it answers a fetch, so that the memory
\* is what has been written.
LEMMA FetchedMemory ==
  ASSUME IInv, Stream, Fetching
  PROVE  /\ Step \in FetchStep /\ mam.state # "WRITE"
         /\ \A i \in 1 .. Len(down[Mam]) : ~IsPlain(down[Mam][i])
         /\ memory = written
<1>1. ApiShape /\ LinkShape /\ OneAccess /\ OneFetch
  BY DEF IInv, Shape
<1>2. api.todo # <<>> /\ Step.k = "fetch" /\ ~Waiting("reg")
  BY DEF Fetching, Waiting, AtStep
<1>3. Step \in FetchStep
  BY <1>1, <1>2, StepType, StepKinds
<1>4. mam.state # "WRITE" /\ \A i \in 1 .. Len(down[Mam]) : ~IsPlain(down[Mam][i])
  BY <1>1 DEF OneFetch, Fetching
<1>5. down[Mam] \in Seq(DownPacket) /\ Len(down[Mam]) \in Nat
  BY <1>1, Constants DEF LinkShape
<1>6. Len(down[Mam]) = 0
  <2> SUFFICES ASSUME Len(down[Mam]) # 0 PROVE FALSE
    OBVIOUS
  <2>1. 1 \in 1 .. Len(down[Mam])
    BY <1>5
  <2>2. down[Mam][1] \in DownPacket
    BY <1>5, <2>1, ElementOfSeq
  <2>3. IsReg(down[Mam][1])
    BY <1>4, <2>1, <2>2, DownKinds
  <2> QED BY <1>1, <1>2, <2>1, <2>3, Constants DEF OneAccess
<1>7. PICK s \in StreamState : /\ Path(Taking, MamView, down[Mam], s)
                               /\ Path(Sending(written), s, api.todo, Settled(written))
  BY DEF Stream, Streaming
<1>8. MamView = s
  BY <1>5, <1>6, <1>7, PathEnds
<1>9. s.mem = written
  BY <1>1, <1>2, <1>7, StepNeutral
<1> QED BY <1>3, <1>4, <1>8, <1>9, ViewFacts

\* Buffer, for a given step and a given buffer.
Filled(f, mem, m) == \A i \in 0 .. 2 * m.count - 1 : m.data[i] = mem[f.addr + Swap(i)]
Sized(f, m) == m.data \in [0 .. f.n - 1 -> Nat]

\* The buffer of a fetch: its size, and what is filled.
LEMMA BufferParts ==
  /\ Buffer <=> /\ (api.todo # <<>> /\ Step.k = "fetch" /\ api.pc # "next" => Sized(Step, mem_access))
                /\ (Fetching => Filled(Step, memory, mem_access))
BY Zenon DEF Buffer, Filled, Sized

\* What memory_read_cb does to the buffer.
LEMMA CallbackData ==
  ASSUME memory_read_cb
  PROVE  LET w == rx.pkt.words
             at == mem_access.count
             count == at + Len(w)
         IN  mem_access' = [mem_access EXCEPT !.count = count,
                               !.data = [i \in DOMAIN @ |->
                                   IF i \div 2 \in at .. count - 1
                                   THEN w[i \div 2 - at + 1][IF i % 2 = 0 THEN 2 ELSE 1]
                                   ELSE @[i]]]
BY Zenon DEF memory_read_cb

\* memory_read_cb puts the words of the packet where the fetch wants them.
LEMMA CallbackFills ==
  ASSUME IInv, Buffer, memory_read_cb
  PROVE  Fetching /\ Sized(Step, mem_access') /\ Filled(Step, memory, mem_access')
<1>0. ApiShape /\ LinkShape /\ HostShape /\ Shape /\ Enumeration /\ HandlersFirst /\ OneFetch /\ DeviceShape
  BY DEF IInv, Shape
<1>1. /\ rx.at = "handle" /\ rx.pkt.kind = "event" /\ rx.pkt.mod \in DOMAIN handler
      /\ handler[rx.pkt.mod] = "memory_read_cb"
  BY DEF memory_read_cb, HasHandler
<1>2. IsMam(rx.pkt) /\ rx.pkt \in MamEvent /\ Waiting("fetch")
  BY <1>0, <1>1, HandlerFits
<1>3. Len(Inbox) > 0 /\ Inbox[1] = rx.pkt /\ Len(Inbox) \in Nat
  BY <1>0, <1>1, InboxType
<1>4. 1 \in 1 .. Len(Inbox) /\ 1 \in 1 .. Len(Inbox) + 1 /\ 1 + 1 = 2
  BY <1>3
<1>5. ~Pending
  BY <1>0, <1>2, <1>3, <1>4 DEF Pending, OneFetch, Quiet
<1>6. Fetching
  BY <1>2, <1>5 DEF Fetching
<1>7. PICK T : Flow(T)
  BY <1>0, <1>2, <1>5 DEF OneFetch
<1> DEFINE w == rx.pkt.words
           at == mem_access.count
           n == Step.n \div 2
           base == Step.addr
           d == mem_access.data
           e == mem_access'.data
<1>8. api.todo # <<>> /\ Step.k = "fetch" /\ api.pc # "next"
  BY <1>2 DEF Waiting, AtStep
<1>9. Step \in FetchStep
  BY <1>0, <1>8, StepType, StepKinds
<1>10. n \in Nat /\ Step.n = 2 * n /\ base \in Nat
  BY <1>9, FetchSize
<1>11. w \in Seq(Word) /\ Len(w) \in Nat /\ at \in Nat
  BY <1>0, <1>2 DEF MamEvent, HostShape
<1>12. T[1] = at /\ Adds(T[1], Inbox[1], T[1 + 1], base, memory)
  BY <1>4, <1>7 DEF Flow, Brought
<1>13. \A k \in 1 .. Len(w) :
          w[k] = <<memory[base + 2 * (at + k - 1)], memory[base + 2 * (at + k - 1) + 1]>>
  BY <1>2, <1>3, <1>12 DEF Adds
<1>14. d \in [0 .. Step.n - 1 -> Nat] /\ \A i \in 0 .. 2 * at - 1 : d[i] = memory[base + Swap(i)]
  BY <1>6, <1>8, BufferParts DEF Filled, Sized
<1>15. /\ mem_access'.count = at + Len(w)
       /\ e = [i \in DOMAIN d |-> IF i \div 2 \in at .. (at + Len(w)) - 1
                                  THEN w[i \div 2 - at + 1][IF i % 2 = 0 THEN 2 ELSE 1]
                                  ELSE d[i]]
  <2>1. mem_access = [size |-> mem_access.size, count |-> mem_access.count, data |-> mem_access.data]
    BY <1>0 DEF HostShape
  <2>2. mem_access' = [mem_access EXCEPT !.count = at + Len(w),
                                !.data = [i \in DOMAIN @ |->
                                    IF i \div 2 \in at .. (at + Len(w)) - 1
                                    THEN w[i \div 2 - at + 1][IF i % 2 = 0 THEN 2 ELSE 1]
                                    ELSE @[i]]]
    BY CallbackData DEF w, at
  <2> HIDE DEF w, at
  <2> QED BY <2>1, <2>2 DEF d, e
\* The module never sends more than the buffer holds.
<1>16. at + Len(w) <= n
  <2>1. Inbox # <<>> /\ T[2] \in Nat /\ T[Len(Inbox) + 1] \in Nat /\ T[2] <= T[Len(Inbox) + 1]
    <3>1. 2 \in 1 .. Len(Inbox) + 1 /\ Len(Inbox) + 1 \in 1 .. Len(Inbox) + 1 /\ 2 <= Len(Inbox) + 1
      BY <1>3
    <3>2. T \in [1 .. Len(Inbox) + 1 -> Nat] /\ \A i, j \in 1 .. Len(Inbox) + 1 : i <= j => T[i] <= T[j]
      BY <1>7 DEF Flow, Brought
    <3> QED BY <1>3, <3>1, <3>2
  <2>2. T[2] = at + Len(w)
    BY <1>2, <1>3, <1>4, <1>12 DEF Adds
  <2>3. T[Len(Inbox) + 1] + Left = mem_access.size \div 2 /\ mem_access.size = Step.n
    BY <1>0, <1>7, <1>8 DEF Flow, OneFetch
  <2>4. Left \in Nat
    BY <1>0 DEF Left, Reading, DeviceShape
  <2> HIDE DEF w
  <2> QED BY <1>10, <1>11, <2>1, <2>2, <2>3, <2>4
<1> HIDE DEF w, at, n, base, d, e
<1>17. ASSUME NEW i \in 0 .. Step.n - 1, i \div 2 \in at .. (at + Len(w)) - 1
       PROVE  e[i] = memory[base + Swap(i)] /\ e[i] \in Nat
  <2> DEFINE h == i \div 2
             k == h - at + 1
             A == memory[base + 2 * h]
             B == memory[base + 2 * h + 1]
  <2>1. i \in 0 .. 2 * n - 1
    BY <1>10
  <2>2. /\ h \in 0 .. n - 1
        /\ i % 2 = 0 => Swap(i) = 2 * h + 1
        /\ i % 2 # 0 => Swap(i) = 2 * h
    BY <1>10, <2>1, SwapFacts
  <2>3. h \in at .. (at + Len(w)) - 1
    BY <1>17
  <2>4. e[i] = w[k][IF i % 2 = 0 THEN 2 ELSE 1]
    BY <1>14, <1>15, <1>17 DEF d
  <2> HIDE DEF h
  <2>5. k \in 1 .. Len(w) /\ at + k - 1 = h
    BY <1>10, <1>11, <2>2, <2>3
  <2>6. w[k] = <<A, B>>
    <3> HIDE DEF k
    <3>1. w[k] = <<memory[base + 2 * (at + k - 1)], memory[base + 2 * (at + k - 1) + 1]>>
      BY <1>13, <2>5
    <3> QED BY <2>5, <3>1
  <2>7. base + 2 * h \in 0 .. MemSize - 1 /\ base + 2 * h + 1 \in 0 .. MemSize - 1
    <3>1. base + Step.n <= MemSize
      BY <1>9, FetchSize DEF base
    <3> QED BY <1>10, <2>2, <3>1, Sizes
  <2>8. A \in Nat /\ B \in Nat
    BY <1>0, <2>7 DEF DeviceShape, Bytes
  <2> HIDE DEF k
  <2>9. CASE i % 2 = 0
    <3>1. e[i] = B
      BY <2>4, <2>6, <2>9
    <3>2. base + Swap(i) = base + 2 * h + 1
      BY <1>10, <2>2, <2>9
    <3> QED BY <2>8, <3>1, <3>2
  <2>10. CASE i % 2 # 0
    <3>1. e[i] = A
      BY <2>4, <2>6, <2>10
    <3>2. Swap(i) = 2 * h
      BY <2>2, <2>10
    <3> QED BY <2>8, <3>1, <3>2
  <2> QED BY <2>9, <2>10
<1>18. ASSUME NEW i \in 0 .. Step.n - 1, ~(i \div 2 \in at .. (at + Len(w)) - 1)
       PROVE  e[i] = d[i] /\ e[i] \in Nat
  BY <1>14, <1>15, <1>18
<1>19. e \in [0 .. Step.n - 1 -> Nat]
  <2>1. DOMAIN d = 0 .. Step.n - 1
    BY <1>14
  <2>2. e = [i \in 0 .. Step.n - 1 |-> e[i]]
    BY <1>15, <2>1
  <2>3. \A i \in 0 .. Step.n - 1 : e[i] \in Nat
    BY <1>17, <1>18
  <2> HIDE DEF d
  <2> QED BY <2>2, <2>3
<1>20. ASSUME NEW i \in 0 .. 2 * (at + Len(w)) - 1 PROVE e[i] = memory[base + Swap(i)]
  <2>1. i \in 0 .. Step.n - 1
    BY <1>10, <1>11, <1>16
  <2>2. at + Len(w) \in Nat
    BY <1>11
  <2> DEFINE h == i \div 2
  <2>3. h \in 0 .. (at + Len(w)) - 1
    <3> DEFINE z == at + Len(w)
    <3>1. z \in Nat /\ i \in 0 .. 2 * z - 1
      BY <2>2
    <3> HIDE DEF z
    <3>2. h \in 0 .. z - 1
      BY <3>1, SwapFacts
    <3> HIDE DEF h
    <3> QED BY <1>11, <2>2, <3>2 DEF z
  <2>4. CASE h \in at .. (at + Len(w)) - 1
    BY <1>17, <2>1, <2>4
  <2>5. CASE ~(h \in at .. (at + Len(w)) - 1)
    <3>1. e[i] = d[i]
      BY <1>18, <2>1, <2>5
    <3>2. i \in 0 .. 2 * at - 1
      <4>1. i = 2 * h \/ i = 2 * h + 1
        <5>1. i \in Nat /\ 2 \in Nat \ {0}
          BY <2>1
        <5> DEFINE r == i % 2
        <5>2. h \in Nat /\ r \in 0 .. 1 /\ i = 2 * h + r
          BY <5>1, NatDivMod
        <5> HIDE DEF h, r
        <5> QED BY <5>2
      <4> HIDE DEF h
      <4> QED BY <1>11, <2>2, <2>3, <2>5, <4>1
    <3> QED BY <1>14, <3>1, <3>2
  <2> QED BY <2>4, <2>5
<1>21. Filled(Step, memory, mem_access')
  <2>1. 2 * mem_access'.count - 1 = 2 * (at + Len(w)) - 1
    BY <1>15
  <2> QED BY <1>20, <2>1 DEF Filled, e, base
<1> QED BY <1>6, <1>19, <1>21 DEF Sized, e

\* A module in the middle of a fetch leaves the memory alone.
LEMMA BufferInv ==
  ASSUME IInv, Stream, Buffer, Next
  PROVE  Buffer'
<1>0. ApiShape /\ LinkShape /\ HostShape /\ Shape /\ OneAccess /\ Enumeration /\ OneFetch /\ DeviceShape
  BY DEF IInv, Shape
<1>1. /\ (api.todo # <<>> /\ Step.k = "fetch" /\ api.pc # "next" => Sized(Step, mem_access))
      /\ (Fetching => Filled(Step, memory, mem_access))
  BY BufferParts
<1> SUFFICES /\ (api'.todo # <<>> /\ Step'.k = "fetch" /\ api'.pc # "next" => Sized(Step', mem_access'))
             /\ (Fetching' => Filled(Step', memory', mem_access'))
  BY Zenon DEF Buffer, Filled, Sized
<1>2. ASSUME api'.pc = "next" \/ Step'.k # "fetch"
      PROVE  ~(api'.todo # <<>> /\ Step'.k = "fetch" /\ api'.pc # "next") /\ ~Fetching'
  BY <1>2 DEF Fetching, Waiting, AtStep
<1>3. ASSUME api' = api, mem_access' = mem_access, down' = down, memory' = memory
      PROVE  /\ (api'.todo # <<>> /\ Step'.k = "fetch" /\ api'.pc # "next" => Sized(Step', mem_access'))
             /\ (Fetching' => Filled(Step', memory', mem_access'))
  BY <1>1, <1>3 DEF Fetching, Waiting, AtStep, Pending, Step
<1>4. CASE Call
  <2>1. api'.pc = "next"
    BY <1>0, <1>4, CallEffect
  <2> QED BY <1>2, <2>1
<1>5. CASE RegLock \/ RegSend
  <2>1. Step.k = "reg" /\ \E pc : Goto(pc)
    BY <1>5, Zenon DEF RegLock, RegSend, AtStep
  <2>2. Step' = Step
    BY <1>0, <2>1, GotoFacts
  <2> QED BY <1>2, <2>1, <2>2
<1>6. CASE RegReturn \/ Send \/ WriteBulk \/ osd_module_register_handler \/ Result \/ FetchReturn
  <2>1. api'.pc = "next"
    <3>1. CASE RegReturn /\ ~connected
      BY <1>0, <3>1, EnumReturn
    <3>2. CASE StepDone
      BY <1>0, <3>2, DoneFacts
    <3>3. CASE WriteBulk
      BY <1>0, <3>3, BulkEffect
    <3>4. CASE Result
      BY <1>0, <3>4 DEF Result, AtStep, ApiShape
    <3>5. CASE FetchReturn
      BY <1>0, <3>5 DEF FetchReturn, AtStep, ApiShape
    <3>6. (RegReturn /\ connected) \/ Send \/ osd_module_register_handler => StepDone
      BY DEF RegReturn, Send, osd_module_register_handler
    <3> QED BY <1>6, <3>1, <3>2, <3>3, <3>4, <3>5, <3>6
  <2> QED BY <1>2, <2>1
<1>7. CASE CondWait
  <2>1. /\ Goto("wait") /\ mem_access' = mem_access /\ down' = down /\ memory' = memory
        /\ api.todo # <<>> /\ api.pc = "sent" /\ Step.k \in {"reg", "fetch"}
    BY <1>7 DEF CondWait, AtStep, device
  <2>2. Step' = Step /\ api'.pc = "wait" /\ api'.todo = api.todo
    BY <1>0, <2>1, GotoFacts
  <2>3. Pending' <=> Pending
    BY <2>1 DEF Pending
  <2>4. Fetching' => Fetching
    BY <2>1, <2>2, <2>3 DEF Fetching, Waiting, AtStep
  <2>5. api.pc # "next"
    BY <2>1
  <2> QED BY <1>1, <2>1, <2>2, <2>4, <2>5
<1>8. CASE FetchLock
  <2>1. /\ Goto("locked") /\ api.todo # <<>> /\ Step.k = "fetch"
        /\ mem_access' = [size |-> Step.n, count |-> 0, data |-> [i \in 0 .. Step.n - 1 |-> 0]]
    BY <1>8 DEF FetchLock, AtStep
  <2>2. Step' = Step /\ api'.pc = "locked"
    BY <1>0, <2>1, GotoFacts
  <2>3. ~Fetching'
    BY <2>2 DEF Fetching, Waiting, AtStep
  <2>4. Sized(Step, mem_access')
    BY <2>1 DEF Sized
  <2> QED BY <2>2, <2>3, <2>4
<1>9. CASE FetchSend
  <2>1. /\ Goto("sent") /\ api.todo # <<>> /\ Step.k = "fetch" /\ api.pc = "locked"
        /\ mem_access' = mem_access /\ AtStep("fetch", "locked")
    BY <1>9 DEF FetchSend, AtStep
  <2>2. Step' = Step
    BY <1>0, <2>1, GotoFacts
  <2>3. mem_access.count = 0
    BY <1>0, <2>1 DEF OneFetch
  <2>4. Filled(Step', memory', mem_access')
    BY <2>1, <2>3 DEF Filled
  <2>5. api.pc # "next"
    BY <2>1
  <2> QED BY <1>1, <2>1, <2>2, <2>4, <2>5
<1>10. CASE Receive \/ stm_log_handler
  BY <1>3, <1>10 DEF Receive, stm_log_handler, device
<1>11. CASE HandleRegister
  <2>1. Signal("reg") /\ mem_access' = mem_access /\ down' = down /\ memory' = memory
    BY <1>11 DEF HandleRegister, device
  <2>2. Step' = Step /\ (IF AtStep("reg", "wait") THEN api'.pc = "woken" ELSE api' = api)
    BY <1>0, <2>1, SignalFacts
  <2>3. CASE AtStep("reg", "wait")
    <3>1. Step'.k = "reg"
      BY <2>2, <2>3 DEF AtStep
    <3> QED BY <1>2, <3>1
  <2>4. CASE ~AtStep("reg", "wait")
    BY <1>3, <2>1, <2>2, <2>4
  <2> QED BY <2>3, <2>4
<1>12. CASE SignalRead
  <2>1. Signal("fetch") /\ mem_access' = mem_access /\ down' = down /\ memory' = memory /\ rx.at = "signal"
    BY <1>12 DEF SignalRead, device
  <2>2. /\ Step' = Step /\ api'.todo = api.todo
        /\ IF AtStep("fetch", "wait") THEN api'.pc = "woken" ELSE api' = api
    BY <1>0, <2>1, SignalFacts
  <2>3. CASE AtStep("fetch", "wait")
    <3>1. ~Pending
      BY <1>0, <2>1 DEF OneFetch, Pending, Quiet
    <3>2. Fetching /\ api.todo # <<>> /\ Step.k = "fetch" /\ api.pc # "next"
      BY <2>3, <3>1 DEF Fetching, Waiting, AtStep
    <3> QED BY <1>1, <2>1, <2>2, <3>2
  <2>4. CASE ~AtStep("fetch", "wait")
    BY <1>3, <2>1, <2>2, <2>4
  <2> QED BY <2>3, <2>4
<1>13. CASE memory_read_cb
  <2>1. Fetching /\ Sized(Step, mem_access') /\ Filled(Step, memory, mem_access')
    BY <1>13, CallbackFills
  <2>2. Step' = Step /\ memory' = memory
    BY <1>13 DEF memory_read_cb, Step, device
  <2> QED BY <2>1, <2>2
<1>14. CASE \E m \in Module : RegAccess(m)
  <2>1. PICK m \in Module : RegAccess(m)
    BY <1>14
  <2>2. Waiting("reg")
    BY <1>0, <2>1, AccessFacts
  <2>3. Step' = Step /\ Step.k = "reg"
    BY <2>1, <2>2 DEF Waiting, AtStep, RegAccess, host, Step
  <2> QED BY <1>2, <2>3
<1>15. CASE MamCommand \/ MamWrite
  <2>1. api' = api /\ mem_access' = mem_access /\ Step' = Step
    BY <1>15 DEF MamCommand, MamWrite, host, Step
  <2>2. down[Mam] # <<>> /\ IsPlain(Head(down[Mam]))
    BY <1>15 DEF MamCommand, MamWrite, AtModule, IsPlain
  <2>3. ~Fetching
    <3>1. down[Mam] \in Seq(DownPacket)
      BY <1>0, Constants DEF LinkShape
    <3>2. Len(down[Mam]) \in Nat \ {0} /\ Head(down[Mam]) = down[Mam][1]
      BY <2>2, <3>1, TailFacts
    <3>3. 1 \in 1 .. Len(down[Mam])
      BY <3>2
    <3> QED BY <1>0, <2>2, <3>2, <3>3, FetchedMemory
  <2>4. Fetching' => mem_access.count = 0
    <3> SUFFICES ASSUME Fetching' PROVE mem_access.count = 0
      OBVIOUS
    <3>1. Waiting("fetch") /\ Pending
      BY <2>1, <2>3 DEF Fetching, Waiting, AtStep
    <3> QED BY <1>0, <3>1 DEF OneFetch, Pending
  <2>5. Fetching' => Filled(Step', memory', mem_access')
    BY <2>1, <2>4 DEF Filled
  <2> QED BY <1>1, <2>1, <2>5
<1>16. CASE MamRead \/ OverflowComplete \/ Packetize \/ Sample
  BY <1>3, <1>16 DEF MamRead, OverflowComplete, Packetize, Sample, host
<1> QED BY <1>4, <1>5, <1>6, <1>7, <1>8, <1>9, <1>10, <1>11, <1>12, <1>13, <1>14, <1>15, <1>16
        DEF Next, ApiStep, RxStep, ModuleStep

(***************************************************************************)
(* The caller's buffer.                                                    *)
(***************************************************************************)

\* t is q without its first n steps, after m others.
Shifted(q, t, n, m) ==
    /\ Len(q) \in Nat /\ n \in 0 .. Len(q) /\ m \in Nat /\ Len(t) = Len(q) - n + m
    /\ \A i \in m + 1 .. Len(t) : t[i] = q[i - m + n]

\* Taking steps off the front of a call, or putting packets there, leaves its
\* reads complete, as long as no allocation of a buffer is taken.
LEMMA ReadsShift ==
  ASSUME NEW q, NEW t, NEW n, NEW m, Shifted(q, t, n, m), Reads(q), Led(q),
         \A i \in 1 .. m : t[i].k \notin {"result", "fetch"},
         \A i \in 1 .. n : q[i].k # "result"
  PROVE  Reads(t) /\ Led(t)
<1>1. /\ Len(q) \in Nat /\ n \in 0 .. Len(q) /\ m \in Nat /\ Len(t) = Len(q) - n + m
      /\ \A i \in m + 1 .. Len(t) : t[i] = q[i - m + n]
  BY DEF Shifted
<1>2. \A i \in n + 1 .. Len(q) : q[i] = t[i + m - n]
  <2> SUFFICES ASSUME NEW i \in n + 1 .. Len(q) PROVE q[i] = t[i + m - n]
    OBVIOUS
  <2> DEFINE x == i + m - n
  <2>1. x \in m + 1 .. Len(t) /\ x - m + n = i
    BY <1>1
  <2> HIDE DEF x
  <2>2. t[x] = q[x - m + n]
    BY <1>1, <2>1
  <2> QED BY <2>1, <2>2 DEF x
<1>3. Reads(t)
  <2> SUFFICES ASSUME NEW j \in 1 .. Len(t), t[j].k = "result"
               PROVE  /\ t[j].size > 0
                      /\ \A f \in j + 1 .. Len(t) : InPlace(t[f], t[j].addr)
                      /\ \A i \in 0 .. t[j].size - 1 : \E f \in j + 1 .. Len(t) : Brings(t[f], i)
    BY DEF Reads
  <2>1. j \in m + 1 .. Len(t)
    BY <1>1
  <2> DEFINE z == j - m + n
  <2>2. t[j] = q[z]
    BY <1>1, <2>1
  <2>3. z \in 1 .. Len(q) /\ z \in n + 1 .. Len(q)
    BY <1>1, <2>1
  <2>4. /\ q[z].size > 0
        /\ \A f \in z + 1 .. Len(q) : InPlace(q[f], q[z].addr)
        /\ \A i \in 0 .. q[z].size - 1 : \E f \in z + 1 .. Len(q) : Brings(q[f], i)
    BY <2>2, <2>3 DEF Reads
  <2>5. ASSUME NEW f \in j + 1 .. Len(t) PROVE InPlace(t[f], q[z].addr)
    <3>1. f \in m + 1 .. Len(t) /\ f - m + n \in z + 1 .. Len(q)
      BY <1>1, <2>1
    <3>2. t[f] = q[f - m + n]
      BY <1>1, <3>1
    <3> QED BY <2>4, <3>1, <3>2
  <2>6. ASSUME NEW i \in 0 .. q[z].size - 1 PROVE \E f \in j + 1 .. Len(t) : Brings(t[f], i)
    <3>1. PICK f \in z + 1 .. Len(q) : Brings(q[f], i)
      BY <2>4
    <3>2. f \in n + 1 .. Len(q) /\ f + m - n \in j + 1 .. Len(t)
      BY <1>1, <2>1
    <3>3. q[f] = t[f + m - n]
      BY <1>2, <3>2
    <3> QED BY <3>1, <3>2, <3>3
  <2> HIDE DEF z
  <2> QED BY <2>2, <2>4, <2>5, <2>6
<1>4. Led(t)
  <2> SUFFICES ASSUME NEW f \in 1 .. Len(t), t[f].k = "fetch"
               PROVE  \E j \in 1 .. f - 1 : t[j].k = "result"
    BY DEF Led
  <2>1. f \in m + 1 .. Len(t)
    BY <1>1
  <2> DEFINE z == f - m + n
  <2>2. t[f] = q[z] /\ z \in 1 .. Len(q)
    BY <1>1, <2>1
  <2>3. PICK j \in 1 .. z - 1 : q[j].k = "result"
    BY <2>2 DEF Led
  <2>4. j \in n + 1 .. Len(q) /\ j + m - n \in 1 .. f - 1
    BY <1>1, <2>1, <2>2, <2>3
  <2>5. q[j] = t[j + m - n]
    BY <1>2, <2>4
  <2> QED BY <2>3, <2>4, <2>5
<1> QED BY <1>3, <1>4

\* A call without a read.
LEMMA NoReads ==
  ASSUME NEW q, \A i \in 1 .. Len(q) : q[i].k \notin {"result", "fetch"}
  PROVE  Reads(q) /\ Led(q)
BY DEF Reads, Led

\* The fetches of a read are in place and bring every byte.
LEMMA FetchesCover ==
  ASSUME NEW addr \in Nat, NEW size \in Nat \ {0}, CanRead(addr, size)
  PROVE  /\ \A f \in 1 .. Len(Fetches(addr, size)) : InPlace(Fetches(addr, size)[f], addr)
         /\ \A i \in 0 .. size - 1 : \E f \in 1 .. Len(Fetches(addr, size)) : Brings(Fetches(addr, size)[f], i)
<1> DEFINE B == BlockSize
           p == Prolog(addr, size)
           e == Epilog(addr, size)
           k == Bulk(addr, size)
           b == Bursts(addr, size)
           H == ReadHead(addr, size)
           M == FetchSteps(addr, b)
           L == ReadLast(addr, size)
           q == Fetches(addr, size)
<1>1. H \in Seq(FetchStep) /\ M \in Seq(FetchStep) /\ L \in Seq(FetchStep)
  BY FetchesType
<1>2. B \in Nat \ {0} /\ addr + size <= MemSize /\ Tiled(addr, size)
  BY Sizes DEF CanRead
<1>3. /\ p \in Nat /\ e \in Nat /\ k \in Nat /\ p + k + e = size
  BY Parts
<1>4. Tile(b, p, p + k)
  BY <1>2, BurstFacts
<1>5. /\ Len(M) = Len(b) /\ Len(b) \in Nat
      /\ \A j \in 1 .. Len(b) : M[j] = memory_read_bulk(addr + b[j].off, b[j].n, b[j].off, 0, b[j].n)
  <2>1. p + k \in Nat /\ addr + (p + k) <= MemSize
    BY <1>2, <1>3, Sizes
  <2> HIDE DEF p, k, b
  <2> QED BY <1>3, <1>4, <2>1, FetchStepsType DEF Tile
<1>6. \A j \in 1 .. Len(b) : b[j].off \in Nat /\ b[j].n \in Nat
  <2>1. b \in Seq([off : Nat, n : Nat])
    BY <1>4 DEF Tile
  <2>2. \A j \in 1 .. Len(b) : b[j] \in [off : Nat, n : Nat]
    BY <2>1, ElementOfSeq
  <2> HIDE DEF b
  <2> QED BY <2>2
<1>7. p > 0 => Len(H) = 1 /\ H[1] = memory_read_bulk(addr - B + p, B, 0, B - p, p)
  BY DEF ReadHead
<1>8. ~(p > 0) => H = <<>>
  BY Zenon DEF ReadHead
<1>9. e > 0 => Len(L) = 1 /\ L[1] = memory_read_bulk(addr + size - e, B, size - e, 0, e)
  BY DEF ReadLast
<1>10. ~(e > 0) => L = <<>>
  BY Zenon DEF ReadLast
<1>11. q = (H \o M) \o L
  BY DEF Fetches
<1> HIDE DEF p, e, k, b, H, M, L, q, B
<1>12. /\ Len(H) \in Nat /\ Len(M) \in Nat /\ Len(L) \in Nat
       /\ Len(q) = Len(H) + Len(M) + Len(L)
       /\ \A j \in 1 .. Len(H) : q[j] = H[j]
       /\ \A j \in 1 .. Len(M) : q[Len(H) + j] = M[j]
       /\ \A j \in 1 .. Len(L) : q[Len(H) + Len(M) + j] = L[j]
  <2> DEFINE x == H \o M
  <2>1. /\ Len(H) \in Nat /\ Len(M) \in Nat /\ Len(L) \in Nat
        /\ x \in Seq(FetchStep) /\ Len(x) = Len(H) + Len(M)
        /\ \A j \in 1 .. Len(H) + Len(M) : x[j] = IF j <= Len(H) THEN H[j] ELSE M[j - Len(H)]
    BY <1>1, ConcatProperties
  <2> HIDE DEF x
  <2>2. /\ Len(x \o L) = Len(x) + Len(L)
        /\ \A j \in 1 .. Len(x) + Len(L) : (x \o L)[j] = IF j <= Len(x) THEN x[j] ELSE L[j - Len(x)]
    BY <1>1, <2>1, ConcatProperties
  <2>3. q = x \o L
    BY <1>11 DEF x
  <2>4. \A j \in 1 .. Len(H) : q[j] = H[j]
    <3> SUFFICES ASSUME NEW j \in 1 .. Len(H) PROVE q[j] = H[j]
      OBVIOUS
    <3>1. j <= Len(x) /\ j \in 1 .. Len(x) + Len(L) /\ j \in 1 .. Len(H) + Len(M) /\ j <= Len(H)
      BY <2>1
    <3> QED BY <2>1, <2>2, <2>3, <3>1
  <2>5. \A j \in 1 .. Len(M) : q[Len(H) + j] = M[j]
    <3> SUFFICES ASSUME NEW j \in 1 .. Len(M) PROVE q[Len(H) + j] = M[j]
      OBVIOUS
    <3> DEFINE y == Len(H) + j
    <3>1. y <= Len(x) /\ y \in 1 .. Len(x) + Len(L) /\ y \in 1 .. Len(H) + Len(M) /\ ~(y <= Len(H))
          /\ y - Len(H) = j
      BY <2>1
    <3> HIDE DEF y
    <3>2. q[y] = M[j]
      BY <2>1, <2>2, <2>3, <3>1
    <3> QED BY <3>2 DEF y
  <2>6. \A j \in 1 .. Len(L) : q[Len(H) + Len(M) + j] = L[j]
    <3> SUFFICES ASSUME NEW j \in 1 .. Len(L) PROVE q[Len(H) + Len(M) + j] = L[j]
      OBVIOUS
    <3> DEFINE y == Len(H) + Len(M) + j
    <3>1. ~(y <= Len(x)) /\ y \in 1 .. Len(x) + Len(L) /\ y - Len(x) = j
      BY <2>1
    <3> HIDE DEF y
    <3>2. q[y] = L[j]
      BY <2>2, <2>3, <3>1
    <3> QED BY <3>2 DEF y
  <2> QED BY <2>1, <2>2, <2>3, <2>4, <2>5, <2>6
<1>13. ASSUME NEW f \in 1 .. Len(q) PROVE InPlace(q[f], addr)
  <2>1. CASE f \in 1 .. Len(H)
    <3>1. p > 0
      BY <1>8, <2>1
    <3>2. f = 1 /\ q[f] = memory_read_bulk(addr - B + p, B, 0, B - p, p)
      <4>0. Len(H) = 1
        BY <1>7, <3>1, Zenon
      <4>1. f = 1
        BY <2>1, <4>0
      <4>2. q[f] = H[f]
        BY <1>12, <2>1
      <4> QED BY <1>7, <3>1, <4>1, <4>2
    <3>3. (addr - B + p) + (B - p) - 0 = addr
      BY <1>2, <1>3
    <3> QED BY <3>2, <3>3 DEF InPlace, memory_read_bulk
  <2>2. CASE f - Len(H) \in 1 .. Len(M)
    <3> DEFINE j == f - Len(H)
    <3>1. j \in 1 .. Len(b) /\ Len(H) + j = f
      BY <1>5, <1>12, <2>2
    <3>2. q[f] = M[j]
      BY <1>12, <2>2, <3>1
    <3> HIDE DEF j
    <3>3. q[f] = memory_read_bulk(addr + b[j].off, b[j].n, b[j].off, 0, b[j].n)
      BY <1>5, <3>1, <3>2
    <3> DEFINE o == b[j].off
    <3>4. o \in Nat
      BY <1>6, <3>1
    <3> HIDE DEF o
    <3>5. (addr + o) + 0 - o = addr
      BY <3>4
    <3>6. q[f] = memory_read_bulk(addr + o, b[j].n, o, 0, b[j].n)
      BY <3>3 DEF o
    <3> QED BY <3>5, <3>6 DEF InPlace, memory_read_bulk
  <2>3. CASE f - Len(H) - Len(M) \in 1 .. Len(L)
    <3>1. e > 0
      BY <1>10, <2>3
    <3>2. f - Len(H) - Len(M) = 1 /\ f = Len(H) + Len(M) + 1 /\ 1 \in 1 .. Len(L)
      <4>1. Len(L) = 1
        BY <1>9, <3>1, Zenon
      <4>2. Len(H) \in Nat /\ Len(M) \in Nat
        BY <1>12
      <4> QED BY <2>3, <4>1, <4>2
    <3>3. q[f] = memory_read_bulk(addr + size - e, B, size - e, 0, e)
      <4>1. q[Len(H) + Len(M) + 1] = L[1]
        BY <1>12, <3>2
      <4> QED BY <1>9, <3>1, <3>2, <4>1
    <3>4. (addr + size - e) + 0 - (size - e) = addr
      BY <1>3
    <3> QED BY <3>3, <3>4 DEF InPlace, memory_read_bulk
  <2> QED BY <1>12, <2>1, <2>2, <2>3
<1>14. ASSUME NEW i \in 0 .. size - 1 PROVE \E f \in 1 .. Len(q) : Brings(q[f], i)
  <2>1. CASE i < p
    <3>1. p > 0 /\ 1 \in 1 .. Len(H) /\ 1 \in 1 .. Len(q)
      BY <1>3, <1>7, <1>12, <2>1
    <3>2. q[1] = memory_read_bulk(addr - B + p, B, 0, B - p, p)
      BY <1>7, <1>12, <3>1
    <3>3. 0 <= i /\ i < 0 + p
      BY <1>3, <2>1
    <3>4. Brings(q[1], i)
      BY <3>2, <3>3 DEF Brings, memory_read_bulk
    <3> QED BY <3>1, <3>4
  <2>2. CASE p <= i /\ i < p + k
    <3>1. i \in p .. (p + k) - 1
      BY <1>3, <2>2
    <3>2. PICK j \in 1 .. Len(b) : b[j].off <= i /\ i < b[j].off + b[j].n
      BY <1>4, <3>1 DEF Tile
    <3>3. M[j] = memory_read_bulk(addr + b[j].off, b[j].n, b[j].off, 0, b[j].n) /\ j \in 1 .. Len(M)
      BY <1>5
    <3>4. Brings(M[j], i)
      BY <3>2, <3>3 DEF Brings, memory_read_bulk
    <3>5. Len(H) + j \in 1 .. Len(q) /\ q[Len(H) + j] = M[j]
      BY <1>12, <3>3
    <3> QED BY <3>4, <3>5
  <2>3. CASE p + k <= i
    <3>1. e > 0 /\ 1 \in 1 .. Len(L)
      BY <1>3, <1>9, <2>3
    <3>2. L[1] = memory_read_bulk(addr + size - e, B, size - e, 0, e)
      BY <1>9, <3>1
    <3>3. size - e <= i /\ i < (size - e) + e
      BY <1>3, <2>3
    <3>4. Brings(L[1], i)
      BY <3>2, <3>3 DEF Brings, memory_read_bulk
    <3>5. Len(H) + Len(M) + 1 \in 1 .. Len(q) /\ q[Len(H) + Len(M) + 1] = L[1]
      BY <1>12, <3>1
    <3> QED BY <3>4, <3>5
  <2> QED BY <1>3, <2>1, <2>2, <2>3
<1> QED BY <1>13, <1>14 DEF q

\* The fetches of osd_memory_read bring every byte of its range.
LEMMA ReadReads ==
  ASSUME NEW addr \in Nat, NEW size \in Nat \ {0}, CanRead(addr, size)
  PROVE  Reads(osd_memory_read(addr, size)) /\ Led(osd_memory_read(addr, size))
<1> DEFINE x == [k |-> "result", addr |-> addr, size |-> size]
           y == Fetches(addr, size)
           q == <<x>> \o y
<1>1. osd_memory_read(addr, size) = q /\ y \in Seq(FetchStep)
  BY ReadType, FetchesType
<1>2. /\ \A f \in 1 .. Len(y) : InPlace(y[f], addr)
      /\ \A i \in 0 .. size - 1 : \E f \in 1 .. Len(y) : Brings(y[f], i)
  BY FetchesCover
<1>3. x \in ResultStep /\ x.k = "result" /\ x.addr = addr /\ x.size = size
  BY DEF ResultStep
<1> HIDE DEF x, y
<1>4. y \in Seq(ResultStep \cup FetchStep)
  <2>1. FetchStep \subseteq ResultStep \cup FetchStep
    OBVIOUS
  <2> QED BY <1>1, <2>1, SeqMonotonic
<1>5. /\ Len(y) \in Nat /\ Len(q) = Len(y) + 1 /\ q[1] = x /\ \A i \in 1 .. Len(y) : q[i + 1] = y[i]
  BY <1>3, <1>4, ConsFacts
<1> HIDE DEF q
<1>6. \A i \in 2 .. Len(q) : q[i] = y[i - 1] /\ i - 1 \in 1 .. Len(y) /\ q[i].k = "fetch"
  <2> SUFFICES ASSUME NEW i \in 2 .. Len(q)
               PROVE  q[i] = y[i - 1] /\ i - 1 \in 1 .. Len(y) /\ q[i].k = "fetch"
    OBVIOUS
  <2>1. i - 1 \in 1 .. Len(y) /\ (i - 1) + 1 = i
    BY <1>5
  <2>2. q[(i - 1) + 1] = y[i - 1]
    BY <1>5, <2>1
  <2>3. InPlace(y[i - 1], addr)
    BY <1>2, <2>1
  <2> QED BY <2>1, <2>2, <2>3 DEF InPlace
<1>7. ASSUME NEW j \in 1 .. Len(q), q[j].k = "result"
      PROVE  /\ q[j].size > 0
             /\ \A f \in j + 1 .. Len(q) : InPlace(q[f], q[j].addr)
             /\ \A i \in 0 .. q[j].size - 1 : \E f \in j + 1 .. Len(q) : Brings(q[f], i)
  <2>1. j = 1
    <3> SUFFICES ASSUME j # 1 PROVE FALSE
      OBVIOUS
    <3>1. j \in 2 .. Len(q)
      BY <1>5
    <3> QED BY <1>6, <1>7, <3>1
  <2>2. q[j].size = size /\ q[j].addr = addr
    BY <1>3, <1>5, <2>1
  <2>3. ASSUME NEW f \in j + 1 .. Len(q) PROVE InPlace(q[f], addr)
    <3>1. f \in 2 .. Len(q)
      BY <2>1
    <3> QED BY <1>2, <1>6, <3>1
  <2>4. ASSUME NEW i \in 0 .. size - 1 PROVE \E f \in j + 1 .. Len(q) : Brings(q[f], i)
    <3>1. PICK f \in 1 .. Len(y) : Brings(y[f], i)
      BY <1>2
    <3>2. f + 1 \in j + 1 .. Len(q) /\ q[f + 1] = y[f]
      BY <1>5, <2>1
    <3> QED BY <3>1, <3>2
  <2> QED BY <2>2, <2>3, <2>4
<1>8. ASSUME NEW f \in 1 .. Len(q), q[f].k = "fetch"
      PROVE  \E j \in 1 .. f - 1 : q[j].k = "result"
  <2>1. q[1].k = "result"
    BY <1>3, <1>5
  <2>2. 1 \in 1 .. f - 1
    <3> SUFFICES ASSUME f = 1 PROVE FALSE
      OBVIOUS
    <3> QED BY <1>8, <2>1
  <2> QED BY <2>1, <2>2
<1>9. Reads(q) /\ Led(q)
  BY <1>7, <1>8 DEF Reads, Led
<1> QED BY <1>1, <1>9 DEF q

\* A read after writes.
LEMMA ReadsAfter ==
  ASSUME NEW x \in Seq(AnyStep), NEW y \in Seq(AnyStep), Reads(y), Led(y),
         \A i \in 1 .. Len(x) : x[i].k \notin {"result", "fetch"}
  PROVE  Reads(x \o y) /\ Led(x \o y)
<1> DEFINE q == x \o y
<1>1. /\ Len(x) \in Nat /\ Len(y) \in Nat /\ Len(q) = Len(x) + Len(y)
      /\ \A i \in 1 .. Len(x) + Len(y) : q[i] = IF i <= Len(x) THEN x[i] ELSE y[i - Len(x)]
  BY ConcatProperties
<1> HIDE DEF q
<1>2. Shifted(y, q, 0, Len(x))
  <2>1. \A i \in Len(x) + 1 .. Len(q) : q[i] = y[i - Len(x) + 0]
    BY <1>1
  <2> QED BY <1>1, <2>1 DEF Shifted
<1>3. \A i \in 1 .. Len(x) : q[i].k \notin {"result", "fetch"}
  BY <1>1
<1>4. \A i \in 1 .. 0 : y[i].k # "result"
  OBVIOUS
<1>5. Reads(q) /\ Led(q)
  BY <1>2, <1>3, <1>4, ReadsShift
<1> QED BY <1>5 DEF q

\* osd_memory_write has no fetches.
LEMMA WriteNoReads ==
  ASSUME NEW a \in Nat, NEW bytes \in Seq(Nat), CanWrite(a, Len(bytes))
  PROVE  /\ osd_memory_write(a, bytes) \in Seq(AnyStep)
         /\ \A i \in 1 .. Len(osd_memory_write(a, bytes)) :
               osd_memory_write(a, bytes)[i].k \notin {"result", "fetch"}
<1>1. Len(bytes) # 0 /\ Tiled(a, Len(bytes))
  BY DEF CanWrite
<1>2. /\ osd_memory_write(a, bytes) \in Seq(AnyStep)
      /\ \A i \in 1 .. Len(osd_memory_write(a, bytes)) :
            osd_memory_write(a, bytes)[i].k \in {"send", "bulk"}
  BY <1>1, WriteType
<1> DEFINE q == osd_memory_write(a, bytes)
<1>3. q \in Seq(AnyStep) /\ \A i \in 1 .. Len(q) : q[i].k \in {"send", "bulk"}
  BY <1>2
<1> HIDE DEF q
<1>4. \A i \in 1 .. Len(q) : q[i].k \notin {"result", "fetch"}
  BY <1>3
<1> QED BY <1>3, <1>4 DEF q

\* The verification of osd_memory_loadelf brings every byte of the segment.
LEMMA LoadReads ==
  ASSUME NEW e \in Load, NEW verify \in BOOLEAN
  PROVE  Reads(osd_memory_loadelf(e, verify)) /\ Led(osd_memory_loadelf(e, verify))
<1> DEFINE n == e.memsz - e.filesz
           x == Data(e.filesz)
           y == Zeros(n)
           a == osd_memory_write(e.addr, x)
           b == IF e.memsz > e.filesz THEN osd_memory_write(e.addr + e.filesz, y) ELSE <<>>
           c == IF verify THEN osd_memory_read(e.addr, e.filesz) ELSE <<>>
<1>1. /\ e.addr \in Nat /\ e.filesz \in Nat \ {0} /\ e.memsz \in Nat
      /\ CanWrite(e.addr, e.filesz) /\ CanRead(e.addr, e.filesz) /\ e.memsz >= e.filesz
      /\ e.memsz # e.filesz => CanWrite(e.addr + e.filesz, n)
  BY RangeFacts
<1>2. n \in Nat /\ (e.memsz > e.filesz <=> n > 0) /\ e.addr + e.filesz \in Nat
  BY <1>1
<1>3. x \in Seq(Nat) /\ Len(x) = e.filesz /\ y \in Seq(Nat) /\ Len(y) = n
  BY <1>1, <1>2, BufferTypes
<1> HIDE DEF n, x, y
<1>4. a \in Seq(AnyStep) /\ \A i \in 1 .. Len(a) : a[i].k \notin {"result", "fetch"}
  BY <1>1, <1>3, WriteNoReads
<1> HIDE DEF a
<1>5. b \in Seq(AnyStep) /\ \A i \in 1 .. Len(b) : b[i].k \notin {"result", "fetch"}
  <2>1. CASE n > 0
    <3>1. b = osd_memory_write(e.addr + e.filesz, y)
      BY <1>2, <2>1
    <3>2. CanWrite(e.addr + e.filesz, Len(y))
      BY <1>1, <1>2, <1>3, <2>1
    <3> HIDE DEF b
    <3> QED BY <1>2, <1>3, <3>1, <3>2, WriteNoReads
  <2>2. CASE ~(n > 0)
    <3>1. b = <<>>
      BY <1>2, <2>2
    <3> HIDE DEF b
    <3> QED BY <3>1
  <2> QED BY <2>1, <2>2
<1> HIDE DEF b
<1>6. c \in Seq(AnyStep) /\ Reads(c) /\ Led(c)
  <2>1. CASE verify
    <3>1. c = osd_memory_read(e.addr, e.filesz)
      BY <2>1
    <3>2. osd_memory_read(e.addr, e.filesz) \in Seq(ResultStep \cup FetchStep)
      BY <1>1, ReadType
    <3>3. ResultStep \cup FetchStep \subseteq AnyStep
      BY DEF AnyStep
    <3> HIDE DEF c
    <3>4. c \in Seq(AnyStep)
      BY <3>1, <3>2, <3>3, SeqMonotonic
    <3> QED BY <1>1, <3>1, <3>4, ReadReads
  <2>2. CASE ~verify
    <3>1. c = <<>>
      BY <2>2
    <3> HIDE DEF c
    <3>2. c \in Seq(AnyStep) /\ \A i \in 1 .. Len(c) : c[i].k \notin {"result", "fetch"}
      BY <3>1
    <3> QED BY <3>2, NoReads
  <2> QED BY <2>1, <2>2
<1> HIDE DEF c
<1> DEFINE z == a \o b
<1>7. z \in Seq(AnyStep) /\ \A i \in 1 .. Len(z) : z[i].k \notin {"result", "fetch"}
  <2>1. /\ z \in Seq(AnyStep) /\ Len(a) \in Nat /\ Len(b) \in Nat /\ Len(z) = Len(a) + Len(b)
        /\ \A i \in 1 .. Len(a) + Len(b) : z[i] = IF i <= Len(a) THEN a[i] ELSE b[i - Len(a)]
    BY <1>4, <1>5, ConcatProperties
  <2> HIDE DEF z
  <2>2. ASSUME NEW i \in 1 .. Len(z) PROVE z[i].k \notin {"result", "fetch"}
    <3>1. CASE i <= Len(a)
      <4>1. i \in 1 .. Len(a) /\ z[i] = a[i]
        BY <2>1, <3>1
      <4> QED BY <1>4, <4>1
    <3>2. CASE ~(i <= Len(a))
      <4>1. i - Len(a) \in 1 .. Len(b) /\ z[i] = b[i - Len(a)]
        BY <2>1, <3>2
      <4> QED BY <1>5, <4>1
    <3> QED BY <3>1, <3>2
  <2> QED BY <2>1, <2>2
<1> HIDE DEF z
<1>8. Reads(z \o c) /\ Led(z \o c)
  BY <1>6, <1>7, ReadsAfter
<1>9. osd_memory_loadelf(e, verify) = z \o c
  BY Zenon DEF osd_memory_loadelf, a, b, c, n, x, y, z
<1> QED BY <1>8, <1>9

\* Every call starts without a result, with reads that are complete.
LEMMA CallReads ==
  ASSUME Call
  PROVE  api'.result = NoResult /\ Reads(api'.todo) /\ Led(api'.todo)
<1>1. ASSUME NEW q, Enter(q) PROVE api'.todo = q /\ api'.result = NoResult
  BY <1>1 DEF Enter
<1>2. CASE CallWrite
  <2>1. PICK w \in Write : Enter(osd_memory_write(w.addr, Data(w.size)))
    BY <1>2 DEF CallWrite
  <2>2. w.addr \in Nat /\ w.size \in Nat \ {0} /\ CanWrite(w.addr, w.size)
    BY RangeFacts
  <2>3. Data(w.size) \in Seq(Nat) /\ Len(Data(w.size)) = w.size
    BY <2>2, BufferTypes
  <2>4. \A i \in 1 .. Len(osd_memory_write(w.addr, Data(w.size))) :
           osd_memory_write(w.addr, Data(w.size))[i].k \notin {"result", "fetch"}
    BY <2>2, <2>3, WriteNoReads
  <2>5. Reads(osd_memory_write(w.addr, Data(w.size))) /\ Led(osd_memory_write(w.addr, Data(w.size)))
    BY <2>4, NoReads
  <2> QED BY <1>1, <2>1, <2>5
<1>3. CASE CallLoad
  <2>1. PICK e \in Load, verify \in BOOLEAN : Enter(osd_memory_loadelf(e, verify))
    BY <1>3 DEF CallLoad
  <2> QED BY <1>1, <2>1, LoadReads
<1>4. CASE CallRead
  <2>1. PICK r \in Read : Enter(osd_memory_read(r.addr, r.size))
    BY <1>4 DEF CallRead
  <2>2. r.addr \in Nat /\ r.size \in Nat \ {0} /\ CanRead(r.addr, r.size)
    BY RangeFacts
  <2> QED BY <1>1, <2>1, <2>2, ReadReads
<1>5. CASE CallControl
  <2>1. ASSUME NEW q, \A i \in 1 .. Len(q) : q[i].k \in {"reg", "handler"}
        PROVE  Reads(q) /\ Led(q)
    <3>1. \A i \in 1 .. Len(q) : q[i].k \notin {"result", "fetch"}
      BY <2>1
    <3> QED BY <3>1, NoReads
  <2>2. CASE Enter(osd_stm_log(Stm))
    <3>1. \A i \in 1 .. 2 : i = 1 \/ i = 2
      OBVIOUS
    <3>2. \A i \in 1 .. Len(osd_stm_log(Stm)) : osd_stm_log(Stm)[i].k \in {"reg", "handler"}
      BY <3>1, ControlType
    <3> QED BY <1>1, <2>1, <2>2, <3>2
  <2>3. CASE Enter(osd_start_cores)
    <3>1. \A i \in 1 .. 1 : i = 1
      OBVIOUS
    <3>2. \A i \in 1 .. Len(osd_start_cores) : osd_start_cores[i].k \in {"reg", "handler"}
      BY <3>1, ControlType
    <3> QED BY <1>1, <2>1, <2>3, <3>2
  <2>4. CASE \E halt \in BOOLEAN : Enter(osd_reset_system(halt))
    <3>1. PICK halt \in BOOLEAN : Enter(osd_reset_system(halt))
      BY <2>4
    <3>2. \A i \in 1 .. Len(osd_reset_system(halt)) : osd_reset_system(halt)[i].k \in {"reg", "handler"}
      BY ControlType
    <3> QED BY <1>1, <2>1, <3>1, <3>2
  <2> QED BY <1>5, <2>2, <2>3, <2>4 DEF CallControl
<1> QED BY <1>2, <1>3, <1>4, <1>5 DEF Call

\* Once its words are there, the swapped buffer holds what has been written.
LEMMA FetchedBytes ==
  ASSUME IInv, Stream, Buffer, AtStep("fetch", "woken")
  PROVE  /\ Step \in FetchStep
         /\ \A x \in 0 .. Step.n - 1 : /\ mem_access.data[Swap(x)] = written[Step.addr + x]
                                       /\ mem_access.data[Swap(x)] \in Nat
<1>1. Fetching /\ api.todo # <<>> /\ Step.k = "fetch" /\ api.pc # "next"
  BY DEF Fetching, AtStep
<1>2. Step \in FetchStep /\ memory = written
  BY <1>1, FetchedMemory
<1>3. Sized(Step, mem_access) /\ Filled(Step, memory, mem_access)
  BY <1>1, BufferParts
<1>4. mem_access.count = mem_access.size \div 2 /\ mem_access.size = Step.n
  BY <1>1 DEF IInv, OneFetch
<1> DEFINE n == Step.n \div 2
<1>5. n \in Nat /\ Step.n = 2 * n /\ Step.addr \in Nat
  BY <1>2, FetchSize
<1> HIDE DEF n
<1>6. mem_access.count = n
  BY <1>4 DEF n
<1>7. ASSUME NEW x \in 0 .. Step.n - 1
      PROVE  /\ mem_access.data[Swap(x)] = written[Step.addr + x] /\ mem_access.data[Swap(x)] \in Nat
  <2>1. x \in 0 .. 2 * n - 1
    BY <1>5
  <2>2. Swap(x) \in 0 .. 2 * n - 1 /\ Swap(Swap(x)) = x
    BY <1>5, <2>1, SwapFacts
  <2>3. mem_access.data[Swap(x)] = memory[Step.addr + Swap(Swap(x))]
    BY <1>3, <1>6, <2>2 DEF Filled
  <2>4. Swap(x) \in 0 .. Step.n - 1
    BY <1>5, <2>2
  <2>5. mem_access.data[Swap(x)] \in Nat
    BY <1>3, <2>4 DEF Sized
  <2> QED BY <1>2, <2>2, <2>3, <2>5
<1> QED BY <1>2, <1>7

\* While a buffer is filled, the call has only fetches left.
LEMMA OnlyFetches ==
  ASSUME ApiShape, Results, api.todo # <<>>
  PROVE  /\ Step.k # "fetch" => api.result = NoResult
         /\ Step.k = "fetch" => api.result # NoResult
<1>1. Step = api.todo[1] /\ Len(api.todo) \in Nat \ {0}
  BY StepType
<1>2. 1 \in 1 .. Len(api.todo) /\ \A j \in 1 .. 1 - 1 : FALSE
  BY <1>1
<1>3. ASSUME api.result # NoResult PROVE Step.k = "fetch"
  <2>1. InPlace(api.todo[1], api.result.addr)
    BY <1>2, <1>3 DEF Results, Collected
  <2> QED BY <1>1, <2>1 DEF InPlace
<1>4. ASSUME Step.k = "fetch" PROVE api.result # NoResult
  BY <1>1, <1>2, <1>4 DEF Results, Led
<1> QED BY <1>3, <1>4

\* A fetch is copied to its place in the caller's buffer.
LEMMA ResultsFetch ==
  ASSUME IInv, Stream, Buffer, Results, FetchReturn
  PROVE  Results'
<1>0. ApiShape /\ LinkShape /\ OneFetch
  BY DEF IInv, Shape
<1>1. AtStep("fetch", "woken") /\ api.todo # <<>> /\ Step.k = "fetch"
  BY DEF FetchReturn, AtStep
<1>2. api.result # NoResult /\ Collected
  BY <1>0, <1>1, OnlyFetches DEF Results
<1>3. /\ Step \in FetchStep
      /\ \A x \in 0 .. Step.n - 1 : /\ mem_access.data[Swap(x)] = written[Step.addr + x]
                                    /\ mem_access.data[Swap(x)] \in Nat
  BY <1>1, FetchedBytes
<1>4. /\ Step.addr \in Nat /\ Step.off \in Nat /\ Step.skip \in Nat /\ Step.keep \in Nat /\ Step.n \in Nat
      /\ Step.skip + Step.keep <= Step.n
  BY <1>3, FetchSize
<1> DEFINE res == api.result
           d == api.result.data
           base == api.result.addr
           swap == [i \in 0 .. Step.n - 1 |-> mem_access.data[IF i % 2 = 0 THEN i + 1 ELSE i - 1]]
           g == [i \in DOMAIN d |-> IF i >= Step.off /\ i < Step.off + Step.keep
                                    THEN swap[Step.skip + i - Step.off] ELSE d[i]]
<1>5. /\ res = [addr |-> base, data |-> d] /\ base \in Nat
      /\ \A f \in 1 .. Len(api.todo) : InPlace(api.todo[f], base)
      /\ \A i \in DOMAIN d : \/ d[i] = written[base + i]
                             \/ \E f \in 1 .. Len(api.todo) : Brings(api.todo[f], i)
  BY <1>2 DEF Collected
<1>6. PICK n \in Nat \ {0} : d \in [0 .. n - 1 -> Nat]
  BY <1>2 DEF Collected
<1>7. api' = [api EXCEPT !.pc = "next", !.todo = Tail(@), !.result.data = g]
  BY Zenon DEF FetchReturn
<1>8. Step = api.todo[1] /\ Popped(api.todo, Tail(api.todo))
  BY <1>0, <1>1, StepType
<1>9. Step.addr + Step.skip - Step.off = base
  <2>1. 1 \in 1 .. Len(api.todo)
    BY <1>8 DEF Popped
  <2> QED BY <1>5, <1>8, <2>1 DEF InPlace
<1>10. \A x \in 0 .. Step.n - 1 : swap[x] = mem_access.data[Swap(x)]
  BY DEF Swap
<1> HIDE DEF swap
<1>11. \A i \in 0 .. n - 1 :
          g[i] = IF i >= Step.off /\ i < Step.off + Step.keep THEN swap[Step.skip + i - Step.off] ELSE d[i]
  BY <1>6
<1>12. DOMAIN g = 0 .. n - 1
  BY <1>6
<1> HIDE DEF g
<1>13. ASSUME NEW i \in 0 .. n - 1, i >= Step.off, i < Step.off + Step.keep
       PROVE  g[i] = written[base + i] /\ g[i] \in Nat
  <2> DEFINE x == Step.skip + i - Step.off
  <2>1. x \in 0 .. Step.n - 1 /\ Step.addr + x = base + i
    <3> DEFINE sa == Step.addr
               so == Step.off
               ss == Step.skip
               sk == Step.keep
               sn == Step.n
               b == base
    <3>1. sa \in Nat /\ so \in Nat /\ ss \in Nat /\ sk \in Nat /\ sn \in Nat /\ ss + sk <= sn
      BY <1>4
    <3>2. i \in Nat /\ i >= so /\ i < so + sk
      BY <1>6, <1>13
    <3>3. sa + ss - so = b
      BY <1>9
    <3> HIDE DEF sa, so, ss, sk, sn, b
    <3>4. ss + i - so \in 0 .. sn - 1 /\ sa + (ss + i - so) = b + i
      BY <3>1, <3>2, <3>3
    <3> QED BY <3>4 DEF sa, so, ss, sk, sn, b
  <2>2. g[i] = swap[x]
    BY <1>11, <1>13
  <2> HIDE DEF x
  <2>3. swap[x] = written[Step.addr + x] /\ swap[x] \in Nat
    BY <1>3, <1>10, <2>1
  <2> QED BY <2>1, <2>2, <2>3
<1>14. ASSUME NEW i \in 0 .. n - 1, ~(i >= Step.off /\ i < Step.off + Step.keep)
       PROVE  g[i] = d[i] /\ g[i] \in Nat
  <2>1. g[i] = d[i]
    BY <1>11, <1>14
  <2>2. d[i] \in Nat
    BY <1>6
  <2> QED BY <2>1, <2>2
<1> HIDE DEF d, base, res
<1>15. /\ api'.todo = Tail(api.todo) /\ api'.result = [addr |-> base, data |-> g]
       /\ api'.result.addr = base /\ api'.result.data = g
  <2>1. api = [pc |-> api.pc, todo |-> api.todo, result |-> res]
    BY <1>0 DEF ApiShape, res
  <2>2. api'.todo = Tail(api.todo) /\ api'.result = [res EXCEPT !.data = g]
    BY <1>7, <2>1 DEF res
  <2> QED BY <1>5, <2>2
<1>16. written' = written /\ mam' = mam /\ down' = down
  BY DEF FetchReturn, device
<1>17. g \in [0 .. n - 1 -> Nat]
  <2>1. \A i \in 0 .. n - 1 : g[i] \in Nat
    BY <1>13, <1>14
  <2>2. g = [i \in DOMAIN g |-> g[i]]
    BY DEF g
  <2> QED BY <1>12, <2>1, <2>2
<1>18. api'.result # NoResult
  <2>1. 0 \in DOMAIN g
    BY <1>6, <1>12
  <2>2. ~(0 \in DOMAIN <<>>)
    OBVIOUS
  <2>3. g # <<>>
    BY <2>1, <2>2
  <2>4. NoResult.data = <<>>
    BY DEF NoResult
  <2> QED BY <1>15, <2>3, <2>4
<1> DEFINE t == api'.todo
<1>19. /\ Len(api.todo) \in Nat \ {0} /\ Len(t) = Len(api.todo) - 1
       /\ \A i \in 1 .. Len(t) : t[i] = api.todo[i + 1]
  BY <1>8, <1>15 DEF Popped
<1> HIDE DEF t
<1>20. \A f \in 1 .. Len(t) : InPlace(t[f], base)
  <2> SUFFICES ASSUME NEW f \in 1 .. Len(t) PROVE InPlace(t[f], base)
    OBVIOUS
  <2>1. f + 1 \in 1 .. Len(api.todo) /\ t[f] = api.todo[f + 1]
    BY <1>19
  <2> QED BY <1>5, <2>1
<1>21. ASSUME NEW i \in DOMAIN g
       PROVE  g[i] = written[base + i] \/ \E f \in 1 .. Len(t) : Brings(t[f], i)
  <2>1. i \in 0 .. n - 1
    BY <1>12
  <2>2. CASE i >= Step.off /\ i < Step.off + Step.keep
    BY <1>13, <2>1, <2>2
  <2>3. CASE ~(i >= Step.off /\ i < Step.off + Step.keep)
    <3>1. g[i] = d[i]
      BY <1>14, <2>1, <2>3
    <3>2. i \in DOMAIN d
      BY <1>6, <2>1
    <3>3. CASE d[i] = written[base + i]
      BY <3>1, <3>3
    <3>4. CASE \E f \in 1 .. Len(api.todo) : Brings(api.todo[f], i)
      <4>1. PICK f \in 1 .. Len(api.todo) : Brings(api.todo[f], i)
        BY <3>4
      <4>2. f # 1
        <5>1. ~Brings(Step, i)
          BY <1>4, <2>1, <2>3 DEF Brings
        <5> QED BY <1>8, <4>1, <5>1
      <4>3. f - 1 \in 1 .. Len(t) /\ (f - 1) + 1 = f
        BY <1>19, <4>2
      <4>4. t[f - 1] = api.todo[(f - 1) + 1]
        BY <1>19, <4>3
      <4> QED BY <4>1, <4>3, <4>4
    <3> QED BY <1>5, <3>2, <3>3, <3>4
  <2> QED BY <2>2, <2>3
<1>22. mam.state # "WRITE" /\ \A i \in 1 .. Len(down[Mam]) : ~IsPlain(down[Mam][i])
  BY <1>0, <1>1 DEF OneFetch
<1>23. Collected'
  <2>1. /\ api'.result = [addr |-> api'.result.addr, data |-> api'.result.data]
        /\ api'.result.addr \in Nat
        /\ \E m \in Nat \ {0} : api'.result.data \in [0 .. m - 1 -> Nat]
    BY <1>5, <1>15, <1>17
  <2>2. \A f \in 1 .. Len(api'.todo) : InPlace(api'.todo[f], api'.result.addr)
    BY <1>15, <1>20 DEF t
  <2>3. \A i \in DOMAIN api'.result.data :
           \/ api'.result.data[i] = written'[api'.result.addr + i]
           \/ \E f \in 1 .. Len(api'.todo) : Brings(api'.todo[f], i)
    BY <1>15, <1>16, <1>21 DEF t
  <2>4. mam'.state # "WRITE" /\ \A i \in 1 .. Len(down'[Mam]) : ~IsPlain(down'[Mam][i])
    BY <1>16, <1>22
  <2> QED BY <2>1, <2>2, <2>3, <2>4, Zenon DEF Collected, Brings, InPlace, IsPlain
<1> QED BY <1>18, <1>23 DEF Results

\* Steps before the buffer is there.
LEMMA ResultsBefore ==
  ASSUME ApiShape, Results, api.todo # <<>>, Step.k \notin {"result", "fetch"},
         api'.result = api.result, NEW m,
         Shifted(api.todo, api'.todo, 1, m),
         \A i \in 1 .. m : api'.todo[i].k \notin {"result", "fetch"}
  PROVE  Results'
<1>1. api.result = NoResult /\ Reads(api.todo) /\ Led(api.todo)
  BY OnlyFetches DEF Results
<1>2. Step = api.todo[1] /\ \A i \in 1 .. 1 : i = 1
  BY StepType
<1>3. \A i \in 1 .. 1 : api.todo[i].k # "result"
  BY <1>2
<1>4. Reads(api'.todo) /\ Led(api'.todo)
  BY <1>1, <1>3, ReadsShift
<1> QED BY <1>1, <1>4 DEF Results, Reads, Led, Brings, InPlace

\* Taking the head of a call shifts it by one.
LEMMA PoppedShifted ==
  ASSUME NEW q, NEW t, Popped(q, t)
  PROVE  Shifted(q, t, 1, 0)
<1>1. Len(q) \in Nat \ {0} /\ Len(t) = Len(q) - 1 /\ \A i \in 1 .. Len(t) : t[i] = q[i + 1]
  BY DEF Popped
<1>2. \A i \in 0 + 1 .. Len(t) : t[i] = q[i - 0 + 1]
  BY <1>1
<1> QED BY <1>1, <1>2 DEF Shifted

\* The buffer is allocated.
LEMMA ResultsResult ==
  ASSUME ApiShape, Results, Result
  PROVE  Results'
<1>1. api.todo # <<>> /\ Step.k = "result"
  BY DEF Result, AtStep
<1>2. Reads(api.todo) /\ api.result = NoResult
  BY <1>1, OnlyFetches DEF Results
<1>3. /\ Step \in AnyStep /\ Step = api.todo[1] /\ Len(api.todo) \in Nat \ {0}
      /\ Popped(api.todo, Tail(api.todo))
  BY <1>1, StepType
<1>4. Step.addr \in Nat /\ Step.size \in Nat
  <2>1. Step \in ResultStep
    BY <1>1, <1>3, StepKinds
  <2> QED BY <2>1 DEF ResultStep
<1> DEFINE base == Step.addr
           n == Step.size
           q == api.todo
           t == api'.todo
           g == [i \in 0 .. n - 1 |-> 0]
<1>5. t = Tail(api.todo) /\ api'.result = [addr |-> base, data |-> g]
  BY DEF Result, ApiShape
<1>6. /\ n > 0
      /\ \A f \in 1 + 1 .. Len(q) : InPlace(q[f], base)
      /\ \A i \in 0 .. n - 1 : \E f \in 1 + 1 .. Len(q) : Brings(q[f], i)
  <2>1. 1 \in 1 .. Len(q)
    BY <1>3
  <2> QED BY <1>1, <1>2, <1>3, <2>1 DEF Reads
<1>7. Len(q) \in Nat \ {0} /\ Len(t) = Len(q) - 1 /\ \A i \in 1 .. Len(t) : t[i] = q[i + 1]
  BY <1>3, <1>5 DEF Popped
<1>8. DOMAIN g = 0 .. n - 1 /\ g \in [0 .. n - 1 -> Nat]
  OBVIOUS
<1>9. n \in Nat \ {0} /\ base \in Nat
  BY <1>4, <1>6
<1> HIDE DEF base, n, q, t, g
<1>10. \A f \in 1 .. Len(t) : InPlace(t[f], base)
  <2> SUFFICES ASSUME NEW f \in 1 .. Len(t) PROVE InPlace(t[f], base)
    OBVIOUS
  <2>1. f + 1 \in 1 + 1 .. Len(q) /\ t[f] = q[f + 1]
    BY <1>7
  <2> QED BY <1>6, <2>1
<1>11. ASSUME NEW i \in 0 .. n - 1 PROVE \E f \in 1 .. Len(t) : Brings(t[f], i)
  <2>1. PICK f \in 1 + 1 .. Len(q) : Brings(q[f], i)
    BY <1>6
  <2>2. f - 1 \in 1 .. Len(t) /\ (f - 1) + 1 = f
    BY <1>7
  <2>3. t[f - 1] = q[(f - 1) + 1]
    BY <1>7, <2>2
  <2> QED BY <2>1, <2>2, <2>3
<1>12. 0 \in 0 .. n - 1
  BY <1>9
<1>13. t # <<>>
  <2>1. PICK f \in 1 .. Len(t) : Brings(t[f], 0)
    BY <1>11, <1>12
  <2>2. Len(<<>>) = 0
    OBVIOUS
  <2> QED BY <2>1, <2>2
<1>14. api'.result # NoResult
  <2>1. 0 \in DOMAIN g /\ ~(0 \in DOMAIN <<>>)
    BY <1>8, <1>12
  <2>2. g # <<>>
    BY <2>1
  <2>3. NoResult.data = <<>>
    BY DEF NoResult
  <2>4. api'.result.data = g
    BY <1>5
  <2> QED BY <2>2, <2>3, <2>4
<1>15. api'.result.addr = base /\ api'.result.data = g
  BY <1>5
<1>16. Collected'
  <2>1. /\ api'.result = [addr |-> api'.result.addr, data |-> api'.result.data]
        /\ api'.result.addr \in Nat
        /\ \E m \in Nat \ {0} : api'.result.data \in [0 .. m - 1 -> Nat]
    BY <1>5, <1>8, <1>9, <1>15
  <2>2. \A f \in 1 .. Len(api'.todo) : InPlace(api'.todo[f], api'.result.addr)
    BY <1>10, <1>15 DEF t
  <2>3. \A i \in DOMAIN api'.result.data : \E f \in 1 .. Len(api'.todo) : Brings(api'.todo[f], i)
    BY <1>8, <1>11, <1>15 DEF t
  <2>4. api'.todo # <<>>
    BY <1>13 DEF t
  <2> QED BY <2>1, <2>2, <2>3, <2>4, Zenon DEF Collected, Brings, InPlace
<1> QED BY <1>14, <1>16 DEF Results

\* Nothing else touches the buffer, and no write reaches the module after the
\* last fetch.
LEMMA ResultsKeep ==
  ASSUME Results, api'.todo = api.todo, api'.result = api.result, written' = written,
         api.todo = <<>> /\ mam.state # "WRITE" /\ (\A i \in 1 .. Len(down[Mam]) : ~IsPlain(down[Mam][i])) =>
             mam'.state # "WRITE" /\ \A i \in 1 .. Len(down'[Mam]) : ~IsPlain(down'[Mam][i])
  PROVE  Results'
<1>1. ASSUME Collected PROVE Collected'
  <2>1. /\ api'.result = [addr |-> api'.result.addr, data |-> api'.result.data]
        /\ api'.result.addr \in Nat
        /\ \E m \in Nat \ {0} : api'.result.data \in [0 .. m - 1 -> Nat]
    BY <1>1 DEF Collected
  <2>2. \A f \in 1 .. Len(api'.todo) : InPlace(api'.todo[f], api'.result.addr)
    BY <1>1 DEF Collected
  <2>3. \A i \in DOMAIN api'.result.data :
           \/ api'.result.data[i] = written'[api'.result.addr + i]
           \/ \E f \in 1 .. Len(api'.todo) : Brings(api'.todo[f], i)
    BY <1>1 DEF Collected
  <2>4. api'.todo = <<>> => mam'.state # "WRITE" /\ \A i \in 1 .. Len(down'[Mam]) : ~IsPlain(down'[Mam][i])
    BY <1>1 DEF Collected
  <2> QED BY <2>1, <2>2, <2>3, <2>4, Zenon DEF Collected, Brings, InPlace, IsPlain
<1>2. ASSUME Reads(api.todo), Led(api.todo) PROVE (Reads(api.todo) /\ Led(api.todo))'
  BY <1>2 DEF Reads, Led, Brings, InPlace
<1> QED BY <1>1, <1>2 DEF Results

\* A step of the application keeps the bytes of the caller's buffer right or
\* still to come.
LEMMA ResultsApi ==
  ASSUME IInv, Stream, Buffer, Results, ApiStep, Enumeration'
  PROVE  Results'
<1>0. ApiShape /\ LinkShape /\ OneAccess /\ Enumeration
  BY DEF IInv, Shape
<1>1. ASSUME api.todo # <<>>, api'.todo = api.todo, api'.result = api.result, written' = written
      PROVE  Results'
  BY <1>1, ResultsKeep
<1>2. ASSUME api.todo # <<>>, api'.todo = Tail(api.todo), api'.result = api.result,
             Step.k \notin {"result", "fetch"}
      PROVE  Results'
  <2>1. Shifted(api.todo, api'.todo, 1, 0)
    BY <1>0, <1>2, StepType, PoppedShifted
  <2>2. \A i \in 1 .. 0 : api'.todo[i].k \notin {"result", "fetch"}
    OBVIOUS
  <2> QED BY <1>0, <1>2, <2>1, <2>2, ResultsBefore
<1>3. CASE RegLock \/ RegSend \/ CondWait \/ FetchLock \/ FetchSend
  <2>1. api.todo # <<>> /\ written' = written /\ \E pc : Goto(pc)
    BY <1>3, Zenon DEF RegLock, RegSend, CondWait, FetchLock, FetchSend, AtStep
  <2>2. api'.todo = api.todo /\ api'.result = api.result
    BY <1>0, <2>1, GotoFacts
  <2> QED BY <1>1, <2>1, <2>2
<1>4. CASE RegReturn /\ ~connected
  <2>1. Step.k = "reg" /\ api.todo # <<>>
    BY <1>4 DEF RegReturn, AtStep
  <2>2. api'.result = api.result /\ connected' \in BOOLEAN /\ (connected' => api'.todo = <<>>)
    BY <1>0, <1>4, EnumReturn
  <2>3. \A i \in 1 .. Len(api'.todo) : api'.todo[i].k \notin {"result", "fetch"}
    <3>1. CASE connected'
      <4>1. api'.todo = <<>>
        BY <2>2, <3>1
      <4> QED BY <4>1
    <3>2. CASE ~connected'
      <4>1. \/ api'.todo \in {osd_system_enumerate, Tail(osd_system_enumerate)}
            \/ \E k \in 1 .. Len(Type) + 1 :
                  \/ api'.todo = Remaining(k) /\ k <= Len(Type)
                  \/ k > 1 /\ api'.todo = <<osd_reg_read16(k - 1, "desc")>> \o Remaining(k)
        BY <3>2, Zenon DEF Enumeration, Enumerating, Remaining, osd_system_enumerate, osd_reg_read16
      <4>2. api'.todo \in Seq(ReadStep)
        BY <4>1, EnumTodo
      <4>3. \A i \in 1 .. Len(api'.todo) : api'.todo[i] \in ReadStep
        BY <4>2, ElementOfSeq
      <4>4. \A x \in ReadStep : x.k = "reg"
        BY DEF ReadStep, RegStep
      <4> QED BY <4>3, <4>4
    <3> QED BY <3>1, <3>2
  <2>4. api.result = NoResult
    BY <1>0, <2>1, OnlyFetches
  <2>5. Reads(api'.todo) /\ Led(api'.todo)
    BY <2>3, NoReads
  <2> QED BY <2>2, <2>4, <2>5 DEF Results, Reads, Led, Brings, InPlace
<1>5. CASE (RegReturn /\ connected) \/ Send \/ osd_module_register_handler
  <2>1. StepDone /\ api.todo # <<>> /\ Step.k \notin {"result", "fetch"}
    <3>1. RegReturn /\ connected => StepDone /\ api.todo # <<>> /\ Step.k = "reg"
      BY DEF RegReturn, AtStep
    <3>2. Send => StepDone /\ api.todo # <<>> /\ Step.k = "send"
      BY DEF Send, AtStep
    <3>3. osd_module_register_handler => StepDone /\ api.todo # <<>> /\ Step.k = "handler"
      BY DEF osd_module_register_handler, AtStep
    <3> QED BY <1>5, <3>1, <3>2, <3>3
  <2>2. api'.todo = Tail(api.todo) /\ api'.result = api.result
    BY <1>0, <2>1, DoneFacts
  <2> QED BY <1>2, <2>1, <2>2
<1>6. CASE WriteBulk
  <2>1. api.todo # <<>> /\ Step.k = "bulk"
    BY <1>6 DEF WriteBulk, AtStep
  <2> DEFINE x == memory_write_bulk(Step.addr, Step.bytes)
             y == Tail(api.todo)
  <2>2. api'.todo = x \o y /\ x \in Seq(SendStep) /\ y \in Seq(AnyStep) /\ api'.result = api.result
    <3>1. /\ api'.todo = memory_write_bulk(Step.addr, Step.bytes) \o Tail(api.todo)
          /\ memory_write_bulk(Step.addr, Step.bytes) \in Seq(SendStep)
          /\ Tail(api.todo) \in Seq(AnyStep)
          /\ api' = [pc |-> "next", todo |-> api'.todo, result |-> api.result]
      BY <1>0, <1>6, BulkEffect
    <3> HIDE DEF x, y
    <3>2. api'.result = api.result
      BY ONLY <3>1
    <3> QED BY ONLY <3>1, <3>2, Zenon DEF x, y
  <2>3. Popped(api.todo, y)
    BY <1>0, <2>1, StepType
  <2> HIDE DEF x, y
  <2>4. x \in Seq(AnyStep)
    <3>1. SendStep \subseteq AnyStep
      BY DEF AnyStep
    <3> QED BY <2>2, <3>1, SeqMonotonic
  <2> DEFINE t == x \o y
  <2>5. /\ Len(x) \in Nat /\ Len(y) \in Nat /\ Len(t) = Len(x) + Len(y)
        /\ \A i \in 1 .. Len(x) + Len(y) : t[i] = IF i <= Len(x) THEN x[i] ELSE y[i - Len(x)]
    BY <2>2, <2>4, ConcatProperties
  <2>6. /\ Len(api.todo) \in Nat \ {0} /\ Len(y) = Len(api.todo) - 1
        /\ \A i \in 1 .. Len(y) : y[i] = api.todo[i + 1]
    BY <2>3 DEF Popped
  <2> HIDE DEF t
  <2>7. Shifted(api.todo, t, 1, Len(x))
    <3>1. ASSUME NEW i \in Len(x) + 1 .. Len(t) PROVE t[i] = api.todo[i - Len(x) + 1]
      <4>1. i \in 1 .. Len(x) + Len(y) /\ ~(i <= Len(x)) /\ i - Len(x) \in 1 .. Len(y)
        BY <2>5
      <4>2. t[i] = y[i - Len(x)]
        BY <2>5, <4>1
      <4>3. y[i - Len(x)] = api.todo[(i - Len(x)) + 1]
        BY <2>6, <4>1
      <4> QED BY <4>2, <4>3
    <3> QED BY <2>5, <2>6, <3>1 DEF Shifted
  <2>8. \A i \in 1 .. Len(x) : t[i].k \notin {"result", "fetch"}
    <3> SUFFICES ASSUME NEW i \in 1 .. Len(x) PROVE t[i].k \notin {"result", "fetch"}
      OBVIOUS
    <3>1. t[i] = x[i]
      BY <2>5
    <3>2. x[i] \in SendStep
      BY <2>2, ElementOfSeq
    <3> QED BY <3>1, <3>2 DEF SendStep
  <2>9. api'.todo = t
    BY <2>2 DEF t
  <2>10. Step.k \notin {"result", "fetch"}
    BY <2>1
  <2> QED BY <1>0, <2>1, <2>2, <2>7, <2>8, <2>9, <2>10, ResultsBefore
<1>7. CASE Result
  BY <1>0, <1>7, ResultsResult
<1>8. CASE FetchReturn
  BY <1>8, ResultsFetch
<1> QED BY <1>3, <1>4, <1>5, <1>6, <1>7, <1>8 DEF ApiStep

\* Receiver and modules leave the caller's buffer alone, and a finished read
\* leaves nothing on its way to the memory.
LEMMA ResultsOthers ==
  ASSUME IInv, Results, RxStep \/ ModuleStep \/ Sample
  PROVE  Results'
<1>0. ApiShape /\ LinkShape /\ Shape /\ OneAccess /\ DeviceShape
  BY DEF IInv, Shape
<1>1. api'.todo = api.todo /\ api'.result = api.result /\ written' = written
  BY <1>0, OthersKeepSteps
<1>2. CASE RxStep \/ Sample \/ OverflowComplete \/ Packetize
  <2>1. down' = down /\ mam' = mam
    BY <1>2 DEF RxStep, Receive, HandleRegister, memory_read_cb, SignalRead, stm_log_handler,
                Sample, OverflowComplete, Packetize, device
  <2> QED BY <1>1, <2>1, ResultsKeep
<1>3. CASE \E m \in Module : RegAccess(m)
  <2>1. Waiting("reg")
    BY <1>0, <1>3, AccessFacts
  <2>2. api.todo # <<>>
    BY <2>1 DEF Waiting, AtStep
  <2> QED BY <1>1, <2>2, ResultsKeep
<1>4. CASE MamCommand \/ MamWrite
  <2>1. down[Mam] # <<>> /\ IsPlain(Head(down[Mam]))
    BY <1>4 DEF MamCommand, MamWrite, AtModule, IsPlain
  <2>2. down[Mam] \in Seq(DownPacket)
    BY <1>0, Constants DEF LinkShape
  <2>3. Len(down[Mam]) \in Nat \ {0} /\ Head(down[Mam]) = down[Mam][1]
    BY <2>1, <2>2, TailFacts
  <2>4. 1 \in 1 .. Len(down[Mam]) /\ IsPlain(down[Mam][1])
    BY <2>1, <2>3
  <2> QED BY <1>1, <2>4, ResultsKeep
<1>5. CASE MamRead
  <2>1. down' = down /\ mam.state = "READ" /\ \E n : Advance(n)
    BY <1>5, Zenon DEF MamRead
  <2>2. mam \in [state : {"INACTIVE", "WRITE", "READ"}, addr : Nat, flits : Int]
    BY <1>0 DEF DeviceShape
  <2>3. mam'.state # "WRITE"
    BY <2>1, <2>2 DEF Advance, MamIdle
  <2> QED BY <1>1, <2>1, <2>3, ResultsKeep
<1> QED BY <1>2, <1>3, <1>4, <1>5 DEF ModuleStep

\* Every step keeps the results.
LEMMA ResultsInv ==
  ASSUME IInv, Stream, Buffer, Results, Next
  PROVE  Results'
<1>1. CASE Call
  <2>1. api'.result = NoResult /\ Reads(api'.todo) /\ Led(api'.todo)
    BY <1>1, CallReads
  <2> QED BY <2>1 DEF Results, Reads, Led, Brings, InPlace
<1>2. CASE ApiStep
  <2>1. Enumeration'
    BY EnumerationInv
  <2> QED BY <1>2, <2>1, ResultsApi
<1>3. CASE RxStep \/ ModuleStep \/ Sample
  BY <1>3, ResultsOthers
<1> QED BY <1>1, <1>2, <1>3 DEF Next

\* When no fetch is left, every byte is right and all writes are in the memory.
LEMMA ExactHolds == IInv /\ Stream /\ Results => ReadExact
<1> SUFFICES ASSUME IInv, Stream, Results, api.todo = <<>>, api.result # NoResult
             PROVE  /\ \A i \in DOMAIN api.result.data :
                          api.result.data[i] = written[api.result.addr + i]
                    /\ memory = written
  BY DEF ReadExact, Idle
<1>1. Collected /\ LinkShape /\ OneAccess
  BY DEF Results, IInv, Shape
<1>2. Len(api.todo) = 0 /\ \A f \in 1 .. Len(api.todo) : FALSE
  OBVIOUS
<1>3. \A i \in DOMAIN api.result.data : api.result.data[i] = written[api.result.addr + i]
  BY <1>1, <1>2 DEF Collected
<1>4. memory = written
  <2>1. down[Mam] \in Seq(DownPacket) /\ Len(down[Mam]) \in Nat
    BY <1>1, Constants DEF LinkShape
  <2>2. Len(down[Mam]) = 0
    <3> SUFFICES ASSUME Len(down[Mam]) # 0 PROVE FALSE
      OBVIOUS
    <3>1. 1 \in 1 .. Len(down[Mam])
      BY <2>1
    <3>2. down[Mam][1] \in DownPacket
      BY <2>1, <3>1, ElementOfSeq
    <3>3. IsReg(down[Mam][1])
      BY <1>1, <3>1, <3>2, DownKinds DEF Collected
    <3>4. ~Waiting("reg")
      BY DEF Waiting, AtStep
    <3> QED BY <1>1, <3>1, <3>3, <3>4, Constants DEF OneAccess
  <2>3. PICK s \in StreamState : /\ Path(Taking, MamView, down[Mam], s)
                                 /\ Path(Sending(written), s, api.todo, Settled(written))
    BY DEF Stream, Streaming
  <2>4. MamView = s
    BY <2>1, <2>2, <2>3, PathEnds
  <2>5. s = Settled(written)
    BY <1>2, <2>3, PathEnds
  <2>6. MamView.mem = memory /\ Settled(written).mem = written
    BY ViewFacts DEF Settled
  <2> QED BY <2>4, <2>5, <2>6
<1> QED BY <1>3, <1>4

-----------------------------------------------------------------------------
(***************************************************************************)
(* The theorems.                                                           *)
(***************************************************************************)

\* The data invariant holds at the start.
LEMMA DataInit == Init => DataInv
<1> SUFFICES ASSUME Init PROVE DataInv
  OBVIOUS
<1>1. Stream
  BY StreamInit
<1>2. api.pc = "next" /\ api.result = NoResult /\ api.todo = osd_system_enumerate
  BY DEF Init
<1>3. Buffer
  BY <1>2 DEF Buffer, Fetching, Waiting, AtStep
<1>4. \A i \in 1 .. Len(api.todo) : api.todo[i].k \notin {"result", "fetch"}
  <2>1. \A i \in 1 .. Len(api.todo) : api.todo[i] \in ReadStep
    BY <1>2, EnumerateFacts, ElementOfSeq
  <2>2. \A x \in ReadStep : x.k = "reg"
    BY DEF ReadStep, RegStep
  <2> QED BY <2>1, <2>2
<1>5. Results
  BY <1>2, <1>4, NoReads DEF Results
<1> QED BY <1>1, <1>3, <1>5 DEF DataInv

\* Every step keeps the data invariant.
LEMMA DataStep == IInv /\ DataInv /\ [Next]_vars => DataInv'
<1> SUFFICES ASSUME IInv, Stream, Buffer, Results, [Next]_vars PROVE DataInv'
  BY DEF DataInv
<1>1. Stream'
  BY StreamStep
<1>2. CASE Next
  BY <1>1, <1>2, BufferInv, ResultsInv DEF DataInv
<1>3. CASE UNCHANGED vars
  <2>1. /\ api' = api /\ mem_access' = mem_access /\ down' = down /\ mam' = mam /\ memory' = memory
        /\ written' = written
    BY <1>3 DEF vars, host, device
  <2>2. Buffer'
    BY <2>1 DEF Buffer, Fetching, Waiting, AtStep, Pending, Step, IsGet, IsPlain
  <2>3. Results'
    BY <2>1, ResultsKeep
  <2> QED BY <1>1, <2>2, <2>3 DEF DataInv
<1> QED BY <1>2, <1>3

\* The inductive invariant of the library and the modules, in every behaviour.
THEOREM HostInvariant == Spec => [](IInv /\ DataInv)
<1>1. Init => IInv /\ DataInv
  BY IInvInit, DataInit
<1>2. IInv /\ DataInv /\ [Next]_vars => (IInv /\ DataInv)'
  <2>1. IInv /\ DataInv => MamFraming
    BY FramingHolds DEF DataInv
  <2>2. IInv /\ MamFraming /\ [Next]_vars => IInv'
    BY IInvStep
  <2>3. IInv /\ DataInv /\ [Next]_vars => DataInv'
    BY DataStep
  <2> QED BY <2>1, <2>2, <2>3
<1> QED BY <1>1, <1>2, PTL DEF Spec

\* The threads, the links and the modules keep their types, and memory_read_cb
\* never gets more words than its buffer holds, although it does not look.
THEOREM HostTypes == Spec => []TypeOK
<1>1. IInv /\ DataInv => TypeOK
  BY TypeHolds DEF DataInv
<1> QED BY <1>1, HostInvariant, PTL

\* osd_reg_access and memory_read_bulk never miss the signal they wait for, with
\* a condition variable and no predicate.
THEOREM WakeupNeverLost == Spec => []WakeupMeetsWaiter
<1>1. IInv /\ DataInv => WakeupMeetsWaiter
  BY WakeupHolds
<1> QED BY <1>1, HostInvariant, PTL

\* The answer osd_reg_access finds when it wakes is the answer to its request.
THEOREM ReplyIsOwn == Spec => []ReplyMatches
<1>1. IInv /\ DataInv => ReplyMatches
  BY ReplyHolds
<1> QED BY <1>1, HostInvariant, PTL

\* osd_connect returns with the type of every module of the chip.
THEOREM EnumerationFindsAll == Spec => []EnumerationComplete
<1>1. IInv /\ DataInv => EnumerationComplete
  BY EnumerationHolds
<1> QED BY <1>1, HostInvariant, PTL

\* osd_handle_packet never meets an event packet before its handler is there.
THEOREM HandlerBeforeEvent == Spec => []EventHandled
<1>1. IInv /\ DataInv => EventHandled
  BY EventHolds
<1> QED BY <1>1, HostInvariant, PTL

\* memory_write_bulk and the memory access module agree on which packets are
\* headers and which are data, whatever the sizes of bursts and packets.
THEOREM FramingKept == Spec => []MamFraming
<1>1. IInv /\ DataInv => MamFraming
  BY FramingHolds DEF DataInv
<1> QED BY <1>1, HostInvariant, PTL

\* osd_memory_read returns what was written before, byte for byte, and when it
\* returns all of it is in the memory.
THEOREM ReadsAreExact == Spec => []ReadExact
<1>1. IInv /\ DataInv => ReadExact
  BY ExactHolds DEF DataInv
<1> QED BY <1>1, HostInvariant, PTL

\* stm_log_handler reports every gap of the trace, as long as the module's overflow
\* counter does not saturate.
THEOREM NoSilentGap == OvMax >= MaxEvents => (Spec => []TraceGapsReported)
<1> SUFFICES ASSUME OvMax >= MaxEvents PROVE Spec => []TraceGapsReported
  OBVIOUS
<1>1. IInv /\ DataInv => TraceGapsReported
  BY TraceHolds
<1> QED BY <1>1, HostInvariant, PTL
=============================================================================
