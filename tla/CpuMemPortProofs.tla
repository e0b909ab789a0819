--------------------------- MODULE CpuMemPortProofs ---------------------------
(***************************************************************************)
(* Theorems about CpuMemPort, for any map of the memory, any row length,   *)
(* each speed and a bridge of any latency.                                 *)
(*                                                                         *)
(* The port is coherent because what the memory will hold after the        *)
(* transaction in flight (Coming), with the deferred write on top of it    *)
(* (Deferred), is what the strobes that have ended asked for: WantInv says *)
(* so between strobes and during a write, ReadInv that nothing changes     *)
(* while a read is in flight.                                              *)
(***************************************************************************)
EXTENDS CpuMemPort, TLAPS

(***************************************************************************)
(* The invariant                                                           *)
(***************************************************************************)
Parts == UNION { [be -> Byte] : be \in SUBSET Lanes }   \* the data of a write

BusOK ==
  \/ bus = Idle
  \/ /\ bus.kind \in {"early", "latched", "read", "write"}
     /\ bus.place \in Places /\ bus.lane \in Lanes /\ bus.wide \in BOOLEAN
     /\ bus.wide => bus.lane = 0
     /\ DOMAIN bus = {"kind", "place", "lane", "wide"} \cup
                     (IF bus.kind = "write" THEN {"data"} ELSE {})
     /\ bus.kind = "write" => bus.data \in [Enabled(bus) -> Byte]

\* A write that the CPU may make: not into words of the loader.
Target(x) == x \in Words \ LoaderWords

WaitingOK(d) ==
  \/ d = NoWrite
  \/ /\ d \in [pending: {TRUE}, ended: BOOLEAN, stage: BOOLEAN, two: BOOLEAN,
               w: Words, w2: Words, data: Parts, be: SUBSET Lanes]
     /\ d.data \in [d.be -> Byte] /\ d.w # d.w2
     /\ Target(d.w) /\ (d.two => Target(d.w2))
     /\ d.stage => d.two

DwOK == WaitingOK(dw)

Fetched(t) == t.w .. t.w + t.n - 1

TxnOK(t) ==
  /\ t.we \in BOOLEAN
  /\ t.we => t.w \in Words /\ Target(t.w) /\ t.n = 1 /\ t.be \subseteq Lanes
             /\ t.data \in [t.be -> Byte]
  /\ ~t.we => t.n \in 1 .. 4 /\ t.w \in Words /\ Fetched(t) \subseteq Words
  /\ (t.w % ROW) + t.n <= ROW

PortOK ==
  \/ port = [phase |-> "free"]
  \/ /\ port.phase \in {"asked", "served", "done"}
     /\ TxnOK(port.txn)
     /\ DOMAIN port = {"phase", "txn"} \cup
                      (IF port.phase = "asked" \/ port.txn.we THEN {} ELSE {"rdata"})

LinesOK ==
  /\ DOMAIN la = 0 .. 1
  /\ \A e \in 0 .. 1 : DOMAIN la[e] \subseteq Words /\ \A x \in DOMAIN la[e] : la[e][x] \in Word

TypeInv == TypeOK /\ BusOK /\ DwOK /\ PortOK /\ LinesOK

\* A read at the bridge belongs to the bus cycle, and its words stay what they were.
ReadInFlight == port.phase # "free" /\ ~port.txn.we

ReadInv ==
  /\ xfer_read <=> ReadInFlight
  /\ flush => bus.kind = "none"
  /\ bus.kind \in {"early", "latched"} => ~owned /\ ~rd_valid
  /\ rd_owner => read_command /\ owned /\ ~rd_valid /\ ReadInFlight /\ xfer_lane = Odd
  /\ read_command => (owned <=> rd_valid \/ rd_owner)
  /\ bus.kind = "write" => ~rd_valid
  /\ ReadInFlight =>
       /\ bus.kind \in {"early", "latched", "read"} /\ port.txn.w = w /\ ~dw.pending /\ ~hit
       /\ bus.kind = "read" => ~rd_valid
       /\ port.phase # "asked" => port.rdata = [x \in Fetched(port.txn) |-> mem[x]]

\* A memory m after the write d that waits for the bridge.
Deferred(d, m) ==
  IF ~d.pending THEN m
  ELSE LET first == IF d.stage THEN m ELSE Put(m, d.w, d.data, d.be)
       IN  IF d.two THEN Put(first, d.w2, d.data, d.be) ELSE first

WriteTaken == write_command /\ owned

WantInv ==
  /\ ~WriteTaken => want = Deferred(dw, Coming)
  /\ WriteTaken /\ ~defer => ~dw.pending /\ Coming = Put(want, w, bus.data, Enabled(bus))
  /\ WriteTaken /\ defer =>
       /\ Coming = want
       /\ dw.pending /\ ~dw.ended /\ ~dw.stage
       /\ dw.w = w /\ dw.w2 = bus.place.w2 /\ dw.two = bus.place.two /\ dw.be = Enabled(bus)
  /\ dw.pending /\ ~dw.ended => WriteTaken \/ bus.kind = "none"

IInv == TypeInv /\ ReadInv /\ WantInv /\ LookaheadCoherent /\ ReadsLatest

(***************************************************************************)
(* Operators                                                               *)
(***************************************************************************)
LEMMA LaneFacts == 0 \in Lanes /\ Lanes \subseteq {0, 1} /\ ZeroByte \in Byte
BY PlacesAssumption

LEMMA MergeWord ==
  ASSUME NEW old \in Word, NEW be \in SUBSET Lanes, NEW d \in [be -> Byte]
  PROVE  Merge(old, d, be) \in Word
BY DEF Merge, Word

LEMMA PutMemory ==
  ASSUME NEW m \in [Words -> Word], NEW x \in Words,
         NEW be \in SUBSET Lanes, NEW d \in [be -> Byte]
  PROVE  Put(m, x, d, be) \in [Words -> Word]
<1>1. Merge(m[x], d, be) \in Word
  BY MergeWord
<1> QED
  BY <1>1 DEF Put

LEMMA SteerWord ==
  ASSUME NEW word \in Word, NEW odd \in BOOLEAN, odd => 1 \in Lanes
  PROVE  Steer(word, odd) \in Word
BY LaneFacts DEF Steer, Word

LEMMA RowOffset ==
  ASSUME NEW a \in Words
  PROVE  a \in Nat /\ ROW \in Nat /\ a % ROW \in Nat /\ a % ROW < ROW
<1>1. a \in Nat /\ ROW \in Nat /\ ROW > 0
  BY PlacesAssumption
<1> QED
  BY <1>1

\* A read miss fetches words of one row, and of the memory.
LEMMA ReadLength ==
  ASSUME NEW a \in Words, NEW s \in 0 .. 3
  PROVE  /\ RdLen(a, s) \in 1 .. 4
         /\ (a % ROW) + RdLen(a, s) <= ROW
         /\ a .. a + RdLen(a, s) - 1 \subseteq Words
<1>1. a \in Nat /\ ROW \in Nat /\ a % ROW \in Nat /\ a % ROW < ROW
  BY RowOffset
<1>3. RdLen(a, s) \in {1, 2, 4} /\ (a % ROW) + RdLen(a, s) <= ROW
  BY <1>1 DEF RdLen
<1>4. ASSUME NEW x \in a .. a + RdLen(a, s) - 1
      PROVE  x \in Words
  <2>1. x - a \in 0 .. 3 /\ (a % ROW) + (x - a) < ROW /\ a + (x - a) = x
    BY <1>1, <1>3
  <2> QED
    BY <2>1, RowsAssumption
<1> QED
  BY <1>3, <1>4

(***************************************************************************)
(* The bus cycle                                                           *)
(***************************************************************************)
LEMMA PlaceFacts ==
  ASSUME NEW p \in Places
  PROVE  /\ p.w \in Words /\ p.w2 \in Words /\ p.w # p.w2
         /\ p.protect \in BOOLEAN /\ p.two \in BOOLEAN /\ (p.two => p.video = "cga")
         /\ ~p.protect => Target(p.w) /\ (p.two => Target(p.w2))
BY PlacesAssumption, LoaderAssumption DEF Target

\* What a command on the bus is made of.
LEMMA CommandFields ==
  ASSUME BusOK, bus.kind # "none"
  PROVE  /\ bus.kind \in {"early", "latched", "read", "write"}
         /\ bus.place \in Places /\ w \in Words /\ bus.lane \in Lanes /\ bus.wide \in BOOLEAN
         /\ bus.wide => bus.lane = 0
         /\ Enabled(bus) \subseteq Lanes
         /\ bus.kind = "write" => bus.data \in [Enabled(bus) -> Byte]
         /\ Odd \in BOOLEAN /\ (Odd => 1 \in Lanes)
BY PlaceFacts, LaneFacts DEF BusOK, Idle, Enabled, Odd, w

\* The cycle stays what it is until it is answered.
SameCycle ==
  /\ bus'.place = bus.place /\ bus'.lane = bus.lane /\ bus'.wide = bus.wide
  /\ bus'.kind # "early"
  /\ bus.kind = "write" <=> bus'.kind = "write"
  /\ bus.kind = "read" => bus'.kind = "read"
  /\ bus.kind = "write" /\ ~defer => bus'.data = bus.data

LEMMA BusStarted ==
  ASSUME BusStarts
  PROVE  BusOK' /\ bus'.kind \in {"early", "read", "write"}
<1>1. CASE \E c \in Cycles("early") \cup Cycles("read") : Aligned(c) /\ bus' = c
  BY <1>1, LaneFacts DEF Cycles, Aligned, BusOK
<1>2. CASE \E c \in Cycles("write") : Aligned(c) /\ bus' \in WithData(c)
  <2>1. PICK c \in Cycles("write") : Aligned(c) /\ bus' \in WithData(c)
    BY <1>2
  <2>2. PICK p \in Places, l \in Lanes, b \in BOOLEAN :
          c = [kind |-> "write", place |-> p, lane |-> l, wide |-> b]
    BY <2>1 DEF Cycles
  <2>3. PICK d \in [Enabled(c) -> Byte] :
          bus' = [kind |-> "write", place |-> p, lane |-> l, wide |-> b, data |-> d]
    BY <2>1, <2>2 DEF WithData
  <2>4. Enabled(bus') = Enabled(c)
    BY <2>2, <2>3 DEF Enabled
  <2> QED
    BY <2>1, <2>2, <2>3, <2>4 DEF BusOK, Aligned, Enabled
<1> QED
  BY <1>1, <1>2 DEF BusStarts

LEMMA BusContinued ==
  ASSUME BusOK, BusGoesOn, bus.kind # "none"
  PROVE  BusOK' /\ SameCycle /\ bus'.kind # "none"
<1>1. bus # Idle
  BY DEF Idle
<1>2. CASE bus.kind \in {"early", "latched"}
  <2>1. PICK k \in {"latched", "read"} : bus' = [bus EXCEPT !.kind = k]
    BY <1>2 DEF BusGoesOn
  <2>2. /\ bus'.kind = k /\ bus'.place = bus.place /\ bus'.lane = bus.lane /\ bus'.wide = bus.wide
        /\ DOMAIN bus' = DOMAIN bus
    BY <1>1, <2>1 DEF BusOK
  <2> QED
    BY <1>1, <1>2, <2>2 DEF BusOK, SameCycle
<1>3. CASE bus.kind = "read"
  BY <1>3 DEF BusGoesOn, SameCycle, BusOK, Enabled
<1>4. CASE bus.kind = "write"
  <2>1. CASE defer
    <3>1. PICK d \in [Enabled(bus) -> Byte] :
            bus' = [kind |-> "write", place |-> bus.place, lane |-> bus.lane,
                    wide |-> bus.wide, data |-> d]
      BY <1>4, <2>1 DEF BusGoesOn, WithData
    <3>2. Enabled(bus') = Enabled(bus)
      BY <3>1 DEF Enabled
    <3> QED
      BY <1>1, <1>4, <2>1, <3>1, <3>2 DEF BusOK, SameCycle, Enabled
  <2>2. CASE ~defer
    BY <1>1, <1>4, <2>2 DEF BusGoesOn, SameCycle, BusOK, Enabled
  <2> QED
    BY <2>1, <2>2
<1> QED
  BY <1>1, <1>2, <1>3, <1>4 DEF BusOK

LEMMA BusStep ==
  ASSUME BusOK, BusNext
  PROVE  /\ BusOK'
         /\ bus.kind # "none" /\ bus'.kind # "none" => SameCycle
         /\ bus.kind # "none" /\ bus'.kind = "none" =>
              bus.kind \in {"read", "write"} /\ answered /\ bus' = Idle
         /\ bus.kind = "none" /\ bus'.kind # "none" =>
              ~flush /\ bus'.kind \in {"early", "read", "write"}
<1>1. CASE BusStarts
  BY <1>1, BusStarted DEF BusStarts
<1>2. CASE BusGoesOn
  BY <1>2, BusContinued DEF BusGoesOn
<1>3. CASE BusEnds
  BY <1>3 DEF BusEnds, BusOK, Idle
<1>4. CASE BusRests
  BY <1>4 DEF BusRests, BusOK, Idle, Enabled
<1> QED
  BY <1>1, <1>2, <1>3, <1>4 DEF BusNext

(***************************************************************************)
(* The bridge                                                              *)
(***************************************************************************)
LEMMA DwFields ==
  ASSUME DwOK, dw.pending
  PROVE  /\ dw \in [pending: {TRUE}, ended: BOOLEAN, stage: BOOLEAN, two: BOOLEAN,
                    w: Words, w2: Words, data: Parts, be: SUBSET Lanes]
         /\ dw.data \in [dw.be -> Byte] /\ dw.w # dw.w2
         /\ Target(dw.w) /\ (dw.two => Target(dw.w2)) /\ (dw.stage => dw.two)
<1>1. dw # NoWrite
  BY DEF NoWrite
<1> QED
  BY <1>1 DEF DwOK, WaitingOK

LEMMA PostedFacts ==
  ASSUME BusOK, DwOK, post_now
  PROVE  /\ Target(Posted.w) /\ Posted.w \in Words
         /\ Posted.be \in SUBSET Lanes /\ Posted.data \in [Posted.be -> Byte]
<1>1. CASE accept_write
  BY <1>1, CommandFields, PlaceFacts DEF accept_write, write_command, Posted, Target, w
<1>2. CASE post_dw /\ ~accept_write
  BY <1>2, DwFields DEF post_dw, Posted, Target
<1> QED
  BY <1>1, <1>2 DEF post_now

\* A clock starts a read or posts a write, not both.
LEMMA OneStart ==
  ASSUME m_start, ~post_now
  PROVE  /\ accept_read \/ accept_early
         /\ bus.kind \in {"early", "read"} /\ ~dw.pending
BY DEF m_start, accept_read, accept_early, read_command, early_read

LEMMA StartedTxn ==
  ASSUME BusOK, DwOK, m_start
  PROVE  TxnOK(Txn) /\ (Txn.we <=> post_now)
<1>1. CASE post_now
  <2>1. Posted.w \in Words /\ Posted.w % ROW \in Nat /\ ROW \in Nat /\ Posted.w % ROW < ROW
    BY <1>1, PostedFacts, RowOffset
  <2> QED
    BY <1>1, <2>1, PostedFacts DEF Txn, TxnOK
<1>2. CASE ~post_now
  <2>1. w \in Words
    BY <1>2, OneStart, CommandFields
  <2>2. rd_len \in 1 .. 4 /\ (w % ROW) + rd_len <= ROW /\ w .. w + rd_len - 1 \subseteq Words
    BY <2>1, ReadLength, PlacesAssumption DEF rd_len
  <2> QED
    BY <1>2, <2>1, <2>2 DEF Txn, TxnOK, Fetched
<1> QED
  BY <1>1, <1>2

LEMMA PortFields ==
  ASSUME PortOK, port.phase # "free"
  PROVE  /\ port.phase \in {"asked", "served", "done"} /\ TxnOK(port.txn)
         /\ DOMAIN port = {"phase", "txn"} \cup
                          (IF port.phase = "asked" \/ port.txn.we THEN {} ELSE {"rdata"})
BY DEF PortOK

\* What a clock does to the transaction.
Asks   == port.phase = "free" /\ m_start /\ port'.phase = "asked" /\ port'.txn = Txn
Serves == /\ port.phase = "asked" /\ port'.phase = "served" /\ port'.txn = port.txn
          /\ ~port.txn.we => port'.rdata = [x \in Fetched(port.txn) |-> mem[x]]
Ends   == /\ port.phase = "served" /\ port'.phase = "done" /\ port'.txn = port.txn
          /\ ~port.txn.we => port'.rdata = port.rdata
Frees  == port.phase = "done" /\ port'.phase = "free"
Stays  == port' = port /\ (port.phase \in {"asked", "served"} \/ (port.phase = "free" /\ ~m_start))

LEMMA PortStep ==
  ASSUME BusOK, DwOK, PortOK, Bridge
  PROVE  PortOK' /\ (Asks \/ Serves \/ Ends \/ Frees \/ Stays)
<1>1. CASE Start
  BY <1>1, StartedTxn DEF Start, PortOK, bridge_free, Asks
<1>2. CASE Serve
  <2>1. port.txn.we \in BOOLEAN /\ TxnOK(port.txn)
    BY <1>2, PortFields DEF Serve, TxnOK
  <2> QED
    BY <1>2, <2>1 DEF Serve, PortOK, Serves, Fetched
<1>3. CASE Finish
  <2>1. port' = [port EXCEPT !.phase = "done"] /\ port.phase = "served"
    BY <1>3 DEF Finish
  <2>2. TxnOK(port.txn) /\ port.txn.we \in BOOLEAN
        /\ DOMAIN port = {"phase", "txn"} \cup (IF port.txn.we THEN {} ELSE {"rdata"})
    BY <2>1, PortFields DEF TxnOK
  <2>3. port'.phase = "done" /\ port'.txn = port.txn /\ DOMAIN port' = DOMAIN port
    BY <2>1, <2>2
  <2>4. ~port.txn.we => port'.rdata = port.rdata
    BY <2>1, <2>2
  <2> QED
    BY <2>1, <2>2, <2>3, <2>4 DEF PortOK, Ends
<1>4. CASE Free
  BY <1>4 DEF Free, PortOK, Frees
<1>5. CASE (port.phase \in {"asked", "served"} \/ (bridge_free /\ ~m_start)) /\ UNCHANGED port
  BY <1>5 DEF PortOK, bridge_free, Stays
<1> QED
  BY <1>1, <1>2, <1>3, <1>4, <1>5 DEF Bridge

(***************************************************************************)
(* The memory                                                              *)
(***************************************************************************)
MemOK == mem \in [Words -> Word] /\ want \in [Words -> Word]

LEMMA ComingType ==
  ASSUME MemOK, PortOK
  PROVE  Coming \in [Words -> Word]
<1>1. CASE port.phase = "asked" /\ port.txn.we
  BY <1>1, PortFields, PutMemory DEF Coming, TxnOK, MemOK
<1> QED
  BY <1>1 DEF Coming, MemOK

\* The memory after this clock's post.
AfterPost ==
  IF post_now THEN Put(Coming, Posted.w, Posted.data, Posted.be) ELSE Coming

LEMMA MemoryIs ==
  ASSUME PortOK, BusOK, DwOK, Bridge
  PROVE  Memory = IF Serves THEN Coming ELSE mem
<1>1. Serve => Serves
  BY PortStep DEF Serve, Serves, Fetched
<1>2. Serves => Serve
  BY DEF Bridge, Start, Finish, Free, Serves, bridge_free
<1> QED
  BY <1>1, <1>2 DEF Memory, Serve, Serves, Coming

\* What comes is what came with this clock's post, and what the loader writes.
LEMMA ComingStep ==
  ASSUME BusOK, DwOK, PortOK, MemOK, Bridge, MemoryNext
  PROVE  \/ Coming' = AfterPost /\ want' = Wanted
         \/ \E x \in LoaderWords, d \in Word :
              flush /\ Coming' = [AfterPost EXCEPT ![x] = d] /\ want' = [Wanted EXCEPT ![x] = d]
<1>1. \/ mem' = Memory /\ want' = Wanted
      \/ \E x \in LoaderWords, d \in Word :
           flush /\ mem' = [Memory EXCEPT ![x] = d] /\ want' = [Wanted EXCEPT ![x] = d]
  BY DEF MemoryNext, LoaderWrites
<1>2. LoaderWords \subseteq Words
  BY PlacesAssumption
<1>3. post_now => port.phase = "free" /\ m_start
  BY DEF post_now, accept_write, post_dw, bridge_free, m_start
\* A write is asked for after this clock: the loader's words are elsewhere.
<1>4. CASE port'.phase = "asked" /\ port'.txn.we
  <2> DEFINE t == port'.txn
  <2>1. t.w \in Words /\ Target(t.w) /\ t.be \subseteq Lanes
    BY <1>4, PortStep DEF PortOK, TxnOK
  <2>2. Coming' = Put(mem', t.w, t.data, t.be)
    BY <1>4 DEF Coming, Put
  <2>3. AfterPost = Put(mem, t.w, t.data, t.be) /\ Memory = mem
    <3>1. CASE Asks
      BY <1>4, <3>1, StartedTxn, MemoryIs DEF Asks, Serves, AfterPost, Coming, Txn
    <3>2. CASE Stays
      BY <1>3, <1>4, <3>2, MemoryIs DEF Stays, Serves, AfterPost, Coming
    <3> QED
      BY <1>4, <3>1, <3>2, PortStep DEF Serves, Ends, Frees
  <2>4. \A x \in LoaderWords, d \in Word :
          Put([mem EXCEPT ![x] = d], t.w, t.data, t.be) = [Put(mem, t.w, t.data, t.be) EXCEPT ![x] = d]
    <3>1. ASSUME NEW x \in LoaderWords, NEW d \in Word
          PROVE  Put([mem EXCEPT ![x] = d], t.w, t.data, t.be) = [Put(mem, t.w, t.data, t.be) EXCEPT ![x] = d]
      <4>1. x \in Words /\ x # t.w /\ mem \in [Words -> Word]
        BY <1>2, <2>1 DEF Target, MemOK
      <4> QED
        BY <2>1, <4>1 DEF Put
    <3> QED
      BY <3>1
  <2> QED
    BY <1>1, <2>2, <2>3, <2>4
<1>5. CASE ~(port'.phase = "asked" /\ port'.txn.we)
  <2>1. Coming' = mem'
    BY <1>5 DEF Coming, Put
  <2>2. ~post_now
    BY <1>3, <1>5, StartedTxn, PortStep DEF Asks, Serves, Ends, Frees, Stays
  <2>3. AfterPost = Memory
    <3>1. CASE Serves
      BY <3>1, <2>2, MemoryIs DEF AfterPost
    <3>2. CASE ~Serves
      BY <3>2, <1>5, <2>2, MemoryIs, PortStep DEF AfterPost, Coming, Asks, Ends, Frees, Stays
    <3> QED
      BY <3>1, <3>2
  <2> QED
    BY <1>1, <2>1, <2>3
<1> QED
  BY <1>4, <1>5

(***************************************************************************)
(* Reads                                                                   *)
(***************************************************************************)

\* Which read is at the bridge after this clock.
LEMMA FlightStep ==
  ASSUME BusOK, DwOK, PortOK, Bridge
  PROVE  ReadInFlight' <=> accept_read \/ accept_early \/ (ReadInFlight /\ port.phase # "done")
<1>1. accept_read \/ accept_early => port.phase = "free" /\ m_start /\ ~post_now
  BY DEF accept_read, accept_early, bridge_free, m_start, post_now, accept_write, post_dw,
         read_command, write_command, early_read
<1>2. CASE Asks
  BY <1>1, <1>2, StartedTxn DEF Asks, ReadInFlight, m_start
<1>3. CASE ~Asks
  BY <1>1, <1>3, PortStep DEF Asks, Serves, Ends, Frees, Stays, ReadInFlight
<1> QED
  BY <1>2, <1>3

\* While a read is in flight the memory keeps still.
LEMMA MemoryStill ==
  ASSUME BusOK, DwOK, PortOK, MemOK, ReadInv, Bridge, MemoryNext, bus.kind # "none",
         port.phase # "free" => ReadInFlight
  PROVE  mem' = mem
<1>1. ~flush
  BY DEF ReadInv
<1>2. Memory = mem
  BY MemoryIs DEF Serves, Coming, ReadInFlight
<1> QED
  BY <1>1, <1>2 DEF MemoryNext, LoaderWrites

LEMMA ReadStep ==
  ASSUME TypeInv, ReadInv, Clock
  PROVE  ReadInv'
<1> USE DEF TypeInv
<1>0. Strobe /\ Lookahead /\ Defer /\ Bridge /\ BusNext /\ LoaderNext /\ MemoryNext
  BY DEF Clock
<1>m. MemOK
  BY DEF MemOK, TypeOK
<1>f. ReadInFlight' <=> accept_read \/ accept_early \/ (ReadInFlight /\ port.phase # "done")
  BY <1>0, FlightStep
<1>1. (xfer_read <=> ReadInFlight)'
  BY <1>0, <1>f DEF Strobe, ReadInv, read_back, post_now, accept_write, post_dw, bridge_free,
                    ReadInFlight
<1>2. (flush => bus.kind = "none")'
  BY <1>0 DEF LoaderNext
<1>3. (bus.kind \in {"early", "latched"} => ~owned /\ ~rd_valid)'
  BY <1>0, BusStep DEF Strobe, cmd_active, read_command, write_command, SameCycle
<1>4. (bus.kind = "write" => ~rd_valid)'
  <2>1. CASE bus.kind = "write"
    BY <1>0, <2>1 DEF Strobe, ReadInv, accept_hit, own_answer, cover_answer, read_command
  <2>2. CASE bus.kind # "write"
    BY <1>0, <2>2, BusStep DEF Strobe, cmd_active, read_command, write_command, SameCycle
  <2> QED
    BY <2>1, <2>2
\* A read of the CPU and its answer.
<1>5. (rd_owner => read_command /\ owned /\ ~rd_valid /\ ReadInFlight /\ xfer_lane = Odd)'
  <2> SUFFICES ASSUME rd_owner'
               PROVE  (read_command /\ owned /\ ~rd_valid /\ ReadInFlight /\ xfer_lane = Odd)'
    OBVIOUS
  <2>1. cmd_active /\ (accept_read \/ (rd_owner /\ ~own_answer))
    BY <1>0 DEF Strobe
  <2>2. read_command /\ ~(owned /\ rd_valid) /\ ~rd_valid
    BY <2>1 DEF ReadInv, accept_read
  <2>3. bus'.kind = "read" /\ SameCycle
    BY <1>0, <2>2, BusStep DEF answered, read_command, SameCycle
  <2>4. Odd' = Odd
    BY <2>3 DEF Odd, SameCycle
  <2>5. ~read_back \/ accept_read
    BY <2>1 DEF ReadInv, own_answer
  <2>6. ReadInFlight'
    BY <1>f, <2>1, <2>5 DEF ReadInv, read_back
  <2>7. owned' /\ ~rd_valid' /\ xfer_lane' = Odd
    BY <1>0, <2>1, <2>2, <2>5 DEF Strobe, ReadInv, accept_hit, accept_read, own_answer,
       cover_answer, read_back, bridge_free
  <2> QED
    BY <2>3, <2>4, <2>6, <2>7 DEF read_command
<1>6. (read_command => (owned <=> rd_valid \/ rd_owner))'
  BY <1>0, BusStep DEF Strobe, ReadInv, read_command, write_command, cmd_active, SameCycle,
     accept_hit, accept_read, accept_write, accept_defer, own_answer, cover_answer
<1>7. ASSUME ReadInFlight'
      PROVE  (/\ bus.kind \in {"early", "latched", "read"} /\ port.txn.w = w /\ ~dw.pending /\ ~hit
              /\ bus.kind = "read" => ~rd_valid
              /\ port.phase # "asked" => port.rdata = [x \in Fetched(port.txn) |-> mem[x]])'
  <2>1. /\ bus.kind \in {"early", "latched", "read"} /\ ~dw.pending /\ ~hit
        /\ bus.kind = "read" => ~rd_valid
        /\ port.phase # "free" => ReadInFlight /\ port.phase # "done"
    BY <1>f, <1>7 DEF ReadInv, accept_read, accept_early, read_command, early_read, bridge_free,
                      ReadInFlight, accept_hit
  <2>2. SameCycle /\ bus'.kind \in {"latched", "read"}
    BY <1>0, <2>1, BusStep DEF answered, read_command, SameCycle, BusOK, Idle
  <2>3. dw' = dw
    BY <1>0, <2>1 DEF Defer, accept_defer, write_command
  <2>4. port'.txn.w = w /\ w' = w
    BY <1>0, <1>7, <2>1, <2>2, PortStep, StartedTxn, OneStart
       DEF Asks, Serves, Ends, Frees, Stays, ReadInv, ReadInFlight, SameCycle, w, Txn
  <2>5. ~rd_valid' \/ bus'.kind # "read"
    BY <1>0, <1>7, <1>f, <2>1 DEF Strobe, ReadInv, accept_hit, own_answer, cover_answer, accept_read,
       accept_early, read_back, ReadInFlight, bridge_free
  <2>8. ~hit'
    <3>1. la' = la
      BY <1>0, <2>1 DEF Lookahead, ReadInv, read_back, post_now, accept_write, post_dw, write_command,
                        ReadInFlight
    <3> QED
      BY <2>1, <2>4, <3>1 DEF hit
  <2>6. mem' = mem
    BY <1>0, <1>m, <2>1, MemoryStill
  <2>7. port'.phase # "asked" => port'.rdata = [x \in Fetched(port'.txn) |-> mem'[x]]
    BY <1>0, <1>7, <2>1, <2>6, PortStep DEF Asks, Serves, Ends, Frees, Stays, ReadInv, ReadInFlight, Fetched
  <2> QED
    BY <2>2, <2>3, <2>1, <2>4, <2>5, <2>7, <2>8
<1> QED
  BY <1>1, <1>2, <1>3, <1>4, <1>5, <1>6, <1>7 DEF ReadInv

(***************************************************************************)
(* Writes                                                                  *)
(***************************************************************************)

\* A post takes from the deferred write what it gives to the bridge.
LEMMA DeferredStep ==
  ASSUME BusOK, DwOK, Defer, ~accept_defer, ~accept_write,
         dw.pending => ~write_command \/ dw.ended
  PROVE  /\ Deferred(dw', AfterPost) = Deferred(dw, Coming)
         /\ dw'.pending => dw.pending /\ dw'.ended
<1>1. CASE ~dw.pending
  BY <1>1 DEF Defer, Deferred, AfterPost, post_now, post_dw
<1>2. CASE dw.pending /\ post_dw /\ (~dw.two \/ dw.stage)
  <2>1. dw' = NoWrite /\ (dw.stage => dw.two) /\ ~dw'.pending
    BY <1>2, DwFields DEF Defer, NoWrite
  <2> QED
    BY <1>2, <2>1 DEF Deferred, AfterPost, post_now, Posted
<1>3. CASE dw.pending /\ ~(post_dw /\ (~dw.two \/ dw.stage))
  <2>1. dw' = [dw EXCEPT !.data = IF write_command /\ ~dw.ended THEN bus.data ELSE dw.data,
                         !.ended = dw.ended \/ ~write_command, !.stage = dw.stage \/ post_dw]
    BY <1>3 DEF Defer
  <2>2. /\ dw'.pending = dw.pending /\ dw'.two = dw.two /\ dw'.w = dw.w /\ dw'.w2 = dw.w2
        /\ dw'.be = dw.be /\ dw'.data = dw.data /\ dw'.stage = (dw.stage \/ post_dw) /\ dw'.ended
    BY <1>3, <2>1, DwFields
  <2> QED
    BY <1>3, <2>2 DEF Deferred, AfterPost, post_now, Posted
<1> QED
  BY <1>1, <1>2, <1>3

\* The loader's words are not among its targets.
Loaded(m, x, v) == [m EXCEPT ![x] = v]

LEMMA LoaderApart ==
  ASSUME NEW d, WaitingOK(d), NEW m \in [Words -> Word], NEW x \in LoaderWords, NEW v \in Word
  PROVE  Deferred(d, Loaded(m, x, v)) = Loaded(Deferred(d, m), x, v)
<1>1. CASE d.pending
  <2> DEFINE Into(n, y) == Put(n, y, d.data, d.be)
             Load(n)    == Loaded(n, x, v)
  <2>1. x # d.w /\ (d.two => x # d.w2)
    <3>1. d # NoWrite
      BY <1>1 DEF NoWrite
    <3> QED
      BY <3>1 DEF Target, WaitingOK
  <2>2. ASSUME NEW n, NEW y, y # x
        PROVE  Into(Load(n), y) = Load(Into(n, y))
    BY <2>2 DEF Put, Loaded
  <2>3. Into(Load(m), d.w) = Load(Into(m, d.w))
    BY <2>1, <2>2
  <2>4. d.two => /\ Into(Load(m), d.w2) = Load(Into(m, d.w2))
                  /\ Into(Load(Into(m, d.w)), d.w2) = Load(Into(Into(m, d.w), d.w2))
    BY <2>1, <2>2
  <2> QED
    BY <1>1, <2>3, <2>4 DEF Deferred
<1> QED
  BY <1>1 DEF Deferred

LEMMA DwStep ==
  ASSUME TypeInv, WantInv, Defer
  PROVE  DwOK'
<1> USE DEF TypeInv
<1>1. CASE accept_defer
  <2>1. bus.kind = "write" /\ ~bus.place.protect /\ bus.kind # "none"
    BY <1>1 DEF accept_defer, write_command
  <2>2. /\ w \in Words /\ bus.place.w2 \in Words /\ w # bus.place.w2 /\ bus.place.two \in BOOLEAN
        /\ Target(w) /\ (bus.place.two => Target(bus.place.w2))
        /\ Enabled(bus) \in SUBSET Lanes /\ bus.data \in [Enabled(bus) -> Byte]
    BY <2>1, CommandFields, PlaceFacts DEF w
  <2> QED
    BY <1>1, <2>2 DEF Defer, DwOK, WaitingOK, Parts
<1>2. CASE ~accept_defer /\ (~dw.pending \/ (post_dw /\ (~dw.two \/ dw.stage)))
  BY <1>2 DEF Defer, DwOK, WaitingOK
<1>3. CASE ~accept_defer /\ dw.pending /\ ~(post_dw /\ (~dw.two \/ dw.stage))
  <2> DEFINE data == IF write_command /\ ~dw.ended THEN bus.data ELSE dw.data
  <2>1. dw' = [dw EXCEPT !.data = data,
                         !.ended = dw.ended \/ ~write_command, !.stage = dw.stage \/ post_dw]
    BY <1>3 DEF Defer
  <2>2. data \in [dw.be -> Byte]
    <3>1. CASE write_command /\ ~dw.ended
      BY <1>3, <3>1, CommandFields DEF WantInv, write_command, WriteTaken
    <3> QED
      BY <1>3, <3>1, DwFields
  <2>3. data \in Parts
    BY <1>3, <2>2, DwFields DEF Parts
  <2>4. (dw.stage \/ post_dw) \in BOOLEAN /\ (dw.ended \/ ~write_command) \in BOOLEAN
        /\ (dw.stage \/ post_dw => dw.two)
    BY <1>3, DwFields
  <2> QED
    BY <1>3, <2>1, <2>2, <2>3, <2>4, DwFields DEF DwOK, WaitingOK
<1> QED
  BY <1>1, <1>2, <1>3

LEMMA WantStep ==
  ASSUME TypeInv, ReadInv, WantInv, Clock
  PROVE  WantInv'
<1> USE DEF TypeInv
<1>0. Strobe /\ Lookahead /\ Defer /\ Bridge /\ BusNext /\ LoaderNext /\ MemoryNext /\ MemOK
  BY DEF Clock, MemOK, TypeOK
<1>1. \/ Coming' = AfterPost /\ want' = Wanted
      \/ \E x \in LoaderWords, d \in Word :
           flush /\ Coming' = [AfterPost EXCEPT ![x] = d] /\ want' = [Wanted EXCEPT ![x] = d]
  BY <1>0, ComingStep
<1>2. WaitingOK(dw')
  BY <1>0, DwStep DEF DwOK, WaitingOK
\* No write on the bus: what is deferred is sent, and the loader may write.
<1>3. CASE ~write_command
  <2>1. ~accept_write /\ ~accept_defer /\ Wanted = want /\ ~WriteTaken
    BY <1>3 DEF accept_write, accept_defer, Wanted, WriteTaken
  <2>2. Deferred(dw', AfterPost) = Deferred(dw, Coming) /\ (dw'.pending => dw'.ended)
    BY <1>0, <1>3, <2>1, DeferredStep
  <2>3. want = Deferred(dw, Coming)
    BY <2>1 DEF WantInv
  <2>4. ~WriteTaken'
    BY <1>0, <1>3, BusStep DEF Strobe, cmd_active, WriteTaken, write_command, read_command, SameCycle
  <2>5. AfterPost \in [Words -> Word]
    BY <1>0, ComingType, PostedFacts, PutMemory DEF AfterPost
  <2>6. want' = Deferred(dw', Coming')
    <3>1. CASE Coming' = AfterPost /\ want' = Wanted
      BY <2>1, <2>2, <2>3, <3>1
    <3>2. ASSUME NEW x \in LoaderWords, NEW d \in Word,
                 Coming' = [AfterPost EXCEPT ![x] = d], want' = [Wanted EXCEPT ![x] = d]
          PROVE  want' = Deferred(dw', Coming')
      <4>1. Deferred(dw', Loaded(AfterPost, x, d)) = Loaded(Deferred(dw', AfterPost), x, d)
        BY <1>2, <2>5, LoaderApart
      <4> QED
        BY <2>1, <2>2, <2>3, <3>2, <4>1 DEF Loaded
    <3> QED
      BY <1>1, <3>1, <3>2
  <2> QED
    BY <2>2, <2>4, <2>6 DEF WantInv
<1>4. CASE write_command
  <2>0. bus.kind = "write" /\ bus.kind # "none" /\ ~read_command
    BY <1>4 DEF write_command, read_command
  <2>1. Coming' = AfterPost /\ want' = Wanted
    BY <1>1, <2>0 DEF ReadInv
  <2>2. bus'.kind # "none" => SameCycle /\ write_command' /\ w' = w /\ Enabled(bus') = Enabled(bus)
                              /\ (defer' <=> defer)
    BY <1>0, <1>4, <2>0, BusStep DEF SameCycle, write_command, w, Enabled, defer
  <2>3. bus'.kind = "none" => owned /\ ~WriteTaken'
    BY <1>0, <1>4, <2>0, BusStep DEF answered, WriteTaken, write_command
  <2>4. owned' <=> owned \/ accept_write \/ accept_defer
    BY <1>0, <1>4, <2>0 DEF Strobe, accept_hit, accept_read, cover_answer, cmd_active
  \* The strobe has not been taken.
  <2>5. CASE ~owned
    <3>1. bus'.kind # "none" /\ Wanted = want /\ want = Deferred(dw, Coming)
      BY <2>3, <2>5 DEF Wanted, WantInv, WriteTaken
    <3>2. CASE accept_write
      <4>1. ~dw.pending /\ ~defer /\ dw' = dw
        BY <1>0, <3>2 DEF accept_write, Defer, accept_defer
      <4>2. AfterPost = Put(want, w, bus.data, Enabled(bus))
        BY <3>1, <3>2, <4>1 DEF AfterPost, post_now, Posted, Deferred
      <4>3. bus'.data = bus.data
        BY <2>0, <2>2, <3>1, <4>1 DEF SameCycle
      <4> QED
        BY <2>1, <2>2, <2>4, <3>1, <3>2, <4>1, <4>2, <4>3 DEF WantInv, WriteTaken
    <3>3. CASE accept_defer
      <4>1. ~dw.pending /\ defer /\ ~post_now
        BY <3>3 DEF accept_defer, post_now, accept_write, post_dw
      <4>2. /\ dw'.pending /\ ~dw'.ended /\ ~dw'.stage /\ dw'.w = w /\ dw'.w2 = bus.place.w2
            /\ dw'.two = bus.place.two /\ dw'.be = Enabled(bus)
        BY <1>0, <3>3 DEF Defer
      <4>3. AfterPost = want
        BY <3>1, <4>1 DEF AfterPost, Deferred
      <4> QED
        BY <2>1, <2>2, <2>4, <3>1, <3>3, <4>1, <4>2, <4>3 DEF WantInv, WriteTaken, SameCycle
    <3>4. CASE ~accept_write /\ ~accept_defer
      <4>1. dw.pending => dw.ended
        BY <2>0, <2>5 DEF WantInv, WriteTaken
      <4>2. Deferred(dw', AfterPost) = Deferred(dw, Coming) /\ (dw'.pending => dw'.ended)
        BY <1>0, <3>4, <4>1, DeferredStep
      <4> QED
        BY <2>1, <2>4, <2>5, <3>1, <3>4, <4>2 DEF WantInv, WriteTaken
    <3> QED
      BY <3>2, <3>3, <3>4
  \* It was sent at once: nothing is deferred.
  <2>6. CASE owned /\ ~defer
    <3>1. ~dw.pending /\ Coming = Put(want, w, bus.data, Enabled(bus))
      BY <1>4, <2>6 DEF WantInv, WriteTaken
    <3>2. AfterPost = Coming /\ dw' = dw
      BY <1>0, <2>6, <3>1 DEF AfterPost, post_now, accept_write, post_dw, Defer, accept_defer
    <3>3. ~bus.place.two
      BY <2>0, <2>6, CommandFields, PlaceFacts DEF defer
    <3>4. CASE bus'.kind = "none"
      <4>1. Wanted = Coming
        BY <1>4, <3>1, <3>3, <3>4 DEF Wanted
      <4> QED
        BY <2>1, <2>3, <3>1, <3>2, <3>4, <4>1 DEF WantInv, Deferred
    <3>5. CASE bus'.kind # "none"
      <4>1. Wanted = want /\ bus'.data = bus.data
        BY <2>0, <2>2, <2>6, <3>5 DEF Wanted, SameCycle
      <4> QED
        BY <2>1, <2>2, <2>4, <2>6, <3>1, <3>2, <3>5, <4>1 DEF WantInv, WriteTaken
    <3> QED
      BY <3>4, <3>5
  \* It is deferred, with the value that was on the bus on the clock before.
  <2>7. CASE owned /\ defer
    <3>1. /\ Coming = want /\ dw.pending /\ ~dw.ended /\ ~dw.stage
          /\ dw.w = w /\ dw.w2 = bus.place.w2 /\ dw.two = bus.place.two /\ dw.be = Enabled(bus)
      BY <1>4, <2>7 DEF WantInv, WriteTaken
    <3>2. AfterPost = Coming /\ ~post_dw /\ ~accept_defer
      BY <1>4, <2>7, <3>1 DEF AfterPost, post_now, accept_write, post_dw, accept_defer
    <3>3. /\ dw'.pending /\ ~dw'.ended /\ ~dw'.stage /\ dw'.w = w /\ dw'.w2 = bus.place.w2
          /\ dw'.two = bus.place.two /\ dw'.be = Enabled(bus) /\ dw'.data = bus.data
      <4>1. dw' = [dw EXCEPT !.data = bus.data, !.ended = dw.ended \/ ~write_command,
                             !.stage = dw.stage \/ post_dw]
        BY <1>0, <1>4, <3>1, <3>2 DEF Defer
      <4> QED
        BY <1>4, <3>1, <3>2, <4>1, DwFields
    <3>4. CASE bus'.kind = "none"
      <4>1. Deferred(dw', Coming) = Wanted
        BY <1>4, <3>1, <3>3, <3>4 DEF Wanted, Deferred
      <4> QED
        BY <2>1, <2>3, <3>2, <3>4, <4>1 DEF WantInv
    <3>5. CASE bus'.kind # "none"
      <4>1. Wanted = want
        BY <3>5 DEF Wanted
      <4> QED
        BY <2>1, <2>2, <2>4, <2>7, <3>1, <3>2, <3>3, <3>5, <4>1 DEF WantInv, WriteTaken, SameCycle
    <3> QED
      BY <3>4, <3>5
  <2> QED
    BY <2>5, <2>6, <2>7
<1> QED
  BY <1>3, <1>4

(***************************************************************************)
(* The lookahead lines                                                     *)
(***************************************************************************)

\* The words that a read brings are those of the memory.
LEMMA ReadWords ==
  ASSUME TypeInv, ReadInv, read_back
  PROVE  /\ ReadInFlight /\ ~post_now /\ ~accept_write
         /\ bus.kind # "none" /\ port.txn.w = w /\ w \in DOMAIN port.rdata /\ w \in Words
         /\ DOMAIN port.rdata \subseteq Words
         /\ \A x \in DOMAIN port.rdata : port.rdata[x] = Coming[x] /\ port.rdata[x] \in Word
         /\ ~dw.pending
<1>1. ReadInFlight /\ port.phase = "done"
  BY DEF ReadInv, read_back
<1>2. TxnOK(port.txn) /\ Fetched(port.txn) \subseteq Words /\ port.txn.n \in 1 .. 4 /\ port.txn.w \in Words
  BY <1>1, PortFields DEF TxnOK, TypeInv, ReadInFlight
<1>3. port.rdata = [x \in Fetched(port.txn) |-> mem[x]] /\ port.txn.w = w /\ bus.kind # "none" /\ ~dw.pending
  BY <1>1 DEF ReadInv
<1>4. Coming = mem /\ mem \in [Words -> Word]
  BY <1>1 DEF Coming, TypeInv, TypeOK
<1>5. w \in Fetched(port.txn)
  <2>1. w \in Nat /\ port.txn.n \in Nat /\ port.txn.n >= 1 /\ port.txn.w = w
    BY <1>2, <1>3, RowOffset
  <2> QED
    BY <2>1 DEF Fetched
<1>6. ~post_now /\ ~accept_write
  BY <1>1 DEF post_now, accept_write, post_dw, bridge_free
<1> QED
  BY <1>1, <1>2, <1>3, <1>4, <1>5, <1>6

LEMMA LinesStep ==
  ASSUME TypeInv, ReadInv, LookaheadCoherent, Clock
  PROVE  LinesOK' /\ LookaheadCoherent'
<1>0. Lookahead /\ Bridge /\ MemoryNext /\ MemOK /\ BusOK /\ DwOK /\ PortOK
  BY DEF Clock, MemOK, TypeInv, TypeOK
<1>1. /\ DOMAIN la = 0 .. 1 /\ la_victim \in 0 .. 1
      /\ \A e \in 0 .. 1 : \A x \in DOMAIN la[e] : x \in Words /\ la[e][x] \in Word /\ la[e][x] = Coming[x]
  BY DEF TypeInv, TypeOK, LinesOK, LookaheadCoherent
<1>2. CASE flush
  BY <1>0, <1>2 DEF Lookahead, NoLine, LinesOK, LookaheadCoherent
<1>3. ~flush => Coming' = AfterPost
  BY <1>0, ComingStep
<1>4. CASE ~flush /\ read_back
  <2>1. la' = [la EXCEPT ![la_victim] = port.rdata] /\ Coming' = Coming
    BY <1>0, <1>3, <1>4, ReadWords DEF Lookahead, AfterPost
  <2> QED
    BY <1>1, <1>4, <2>1, ReadWords DEF LinesOK, LookaheadCoherent
<1>5. CASE ~flush /\ ~read_back /\ ~post_now
  BY <1>0, <1>1, <1>3, <1>5 DEF Lookahead, AfterPost, LinesOK, LookaheadCoherent
<1>6. CASE ~flush /\ ~read_back /\ post_now
  <2> DEFINE New(x, old) == IF x = Posted.w THEN Merge(old, Posted.data, Posted.be) ELSE old
  <2>1. la' = [e \in 0 .. 1 |-> [x \in DOMAIN la[e] |-> New(x, la[e][x])]]
    BY <1>0, <1>6 DEF Lookahead
  <2>2. Coming \in [Words -> Word]
    BY <1>0, ComingType
  <2>3. \A x \in Words : Coming'[x] = New(x, Coming[x])
    BY <1>3, <1>6, <2>2 DEF AfterPost, Put
  <2>4. \A x \in Words : \A old \in Word : New(x, old) \in Word
    BY <1>0, <1>6, PostedFacts, MergeWord
  <2> HIDE DEF New
  <2>5. /\ DOMAIN la' = 0 .. 1
        /\ \A e \in 0 .. 1 : /\ DOMAIN la'[e] = DOMAIN la[e]
                             /\ \A x \in DOMAIN la[e] : la'[e][x] = New(x, la[e][x])
    BY <2>1
  <2> QED
    BY <1>1, <2>3, <2>4, <2>5 DEF LinesOK, LookaheadCoherent
<1> QED
  BY <1>2, <1>4, <1>5, <1>6

(***************************************************************************)
(* What the CPU reads                                                      *)
(***************************************************************************)
Answers(data, word) ==
  IF bus.wide THEN data = word ELSE data[0] = word[bus.lane]

LEMMA SteerAnswers ==
  ASSUME BusOK, bus.kind # "none", NEW word \in Word
  PROVE  Steer(word, Odd) \in Word /\ Answers(Steer(word, Odd), word)
<1>1. bus.lane \in {0, 1} /\ Odd \in BOOLEAN /\ (Odd => 1 \in Lanes)
  BY CommandFields, LaneFacts
<1> QED
  BY <1>1, SteerWord, LaneFacts DEF Steer, Answers, Odd

\* The word that a strobe finds in a line, or in the line that comes.
LEMMA AnswerStep ==
  ASSUME TypeInv, ReadInv, LookaheadCoherent, Strobe, read_command
  PROVE  /\ data_reg' \in Word
         /\ rd_valid' /\ ~rd_valid => Answers(data_reg', Coming[w]) /\ ~dw.pending
         /\ rd_valid => data_reg' = data_reg
<1> USE DEF TypeInv
<1>0. bus.kind = "read" /\ bus.kind # "none"
  BY DEF read_command
<1>1. CASE own_answer
  <2>1. /\ data_reg' = Steer(port.rdata[w], Odd) /\ port.rdata[w] = Coming[w] /\ port.rdata[w] \in Word
        /\ ~rd_valid /\ ~dw.pending
    BY <1>1, ReadWords DEF Strobe, own_answer, ReadInv
  <2> QED
    BY <1>0, <2>1, SteerAnswers
<1>2. CASE ~own_answer /\ cover_answer
  <2>1. /\ data_reg' = Steer(port.rdata[w], Odd) /\ port.rdata[w] = Coming[w] /\ port.rdata[w] \in Word
        /\ ~rd_valid /\ ~dw.pending
    BY <1>2, ReadWords DEF Strobe, cover_answer, ReadInv
  <2> QED
    BY <1>0, <2>1, SteerAnswers
<1>3. CASE ~own_answer /\ ~cover_answer /\ accept_hit
  <2>1. hit_word = Coming[w] /\ hit_word \in Word
    BY <1>3 DEF accept_hit, hit, hit_word, LookaheadCoherent, LinesOK
  <2>2. data_reg' = Steer(hit_word, Odd) /\ ~rd_valid /\ ~dw.pending
    BY <1>3 DEF Strobe, accept_hit, ReadInv
  <2> QED
    BY <1>0, <2>1, <2>2, SteerAnswers
<1>4. CASE ~own_answer /\ ~cover_answer /\ ~accept_hit
  BY <1>4 DEF Strobe, TypeOK
<1> QED
  BY <1>1, <1>2, <1>3, <1>4

LEMMA ReadsStep ==
  ASSUME TypeInv, ReadInv, WantInv, LookaheadCoherent, ReadsLatest, Clock
  PROVE  ReadsLatest'
<1>0. Strobe /\ Bridge /\ BusNext /\ MemoryNext /\ MemOK /\ BusOK /\ DwOK /\ PortOK
  BY DEF Clock, MemOK, TypeInv, TypeOK
<1> SUFFICES ASSUME read_command', owned', rd_valid'
             PROVE  Answers(data_reg, want[w])'
  BY DEF ReadsLatest, Answers
<1>1. cmd_active /\ bus'.kind = "read" /\ bus'.kind # "none"
  BY <1>0 DEF Strobe, read_command
<1>2. read_command /\ ~WriteTaken /\ bus.kind # "none" /\ ~write_command
  BY <1>0, <1>1, BusStep DEF cmd_active, read_command, write_command, SameCycle, WriteTaken
<1>3. w' = w /\ bus'.wide = bus.wide /\ bus'.lane = bus.lane
  BY <1>0, <1>1, <1>2, BusStep DEF SameCycle, w
<1>4. want' = want
  BY <1>0, <1>2, ComingStep DEF ReadInv, Wanted
<1>5. Answers(data_reg', want[w])
  <2>1. CASE rd_valid
    BY <1>2, <2>1, AnswerStep, <1>0 DEF ReadsLatest, Answers, ReadInv
  <2>2. CASE ~rd_valid
    <3>1. Answers(data_reg', Coming[w]) /\ ~dw.pending
      BY <1>0, <1>2, <2>2, AnswerStep
    <3>2. want = Coming
      BY <1>2, <3>1 DEF WantInv, Deferred
    <3> QED
      BY <3>1, <3>2
  <2> QED
    BY <2>1, <2>2
<1> QED
  BY <1>3, <1>4, <1>5 DEF Answers

(***************************************************************************)
(* Types                                                                   *)
(***************************************************************************)
LEMMA MemoryTypes ==
  ASSUME TypeInv, MemoryNext, Bridge
  PROVE  MemOK'
<1> USE DEF TypeInv
<1>1. MemOK /\ LoaderWords \subseteq Words
  BY PlacesAssumption DEF TypeOK, MemOK
<1>2. Memory \in [Words -> Word]
  <2>1. Coming \in [Words -> Word]
    BY <1>1, ComingType
  <2> QED
    BY <1>1, <2>1, MemoryIs DEF MemOK
<1>3. Wanted \in [Words -> Word]
  <2>1. CASE write_command
    <3>1. /\ w \in Words /\ bus.place.w2 \in Words
          /\ Enabled(bus) \in SUBSET Lanes /\ bus.data \in [Enabled(bus) -> Byte]
      BY <2>1, CommandFields, PlaceFacts DEF write_command
    <3>2. Put(want, w, bus.data, Enabled(bus)) \in [Words -> Word]
      BY <1>1, <3>1, PutMemory DEF MemOK
    <3>3. Put(Put(want, w, bus.data, Enabled(bus)), bus.place.w2, bus.data, Enabled(bus))
            \in [Words -> Word]
      BY <3>1, <3>2, PutMemory
    <3> QED
      BY <1>1, <3>2, <3>3 DEF Wanted, MemOK
  <2>2. CASE ~write_command
    BY <1>1, <2>2 DEF Wanted, MemOK
  <2> QED
    BY <2>1, <2>2
<1> QED
  BY <1>1, <1>2, <1>3 DEF MemoryNext, MemOK

\* Nothing but a read of the CPU changes the data register.
LEMMA DataKept ==
  ASSUME ReadInv, Strobe, ~read_command
  PROVE  data_reg' = data_reg
BY DEF Strobe, ReadInv, own_answer, cover_answer, accept_hit

LEMMA TypeStep ==
  ASSUME TypeInv, ReadInv, WantInv, LookaheadCoherent, Clock
  PROVE  TypeInv'
<1>0. /\ Strobe /\ Lookahead /\ Defer /\ Bridge /\ BusNext /\ LoaderNext /\ MemoryNext
      /\ BusOK /\ DwOK /\ PortOK /\ LinesOK /\ TypeOK
  BY DEF Clock, TypeInv
<1>1. BusOK' /\ bus'.kind \in {"none", "early", "latched", "read", "write"}
  BY <1>0, BusStep DEF BusOK, Idle
<1>2. DwOK'
  BY <1>0, DwStep
<1>3. PortOK' /\ port'.phase \in {"free", "asked", "served", "done"}
  BY <1>0, PortStep DEF PortOK
<1>4. LinesOK'
  BY LinesStep
<1>5. MemOK'
  BY <1>0, MemoryTypes
<1>6. data_reg' \in Word
  BY <1>0, AnswerStep, DataKept DEF TypeOK
<1>7. la_victim' \in 0 .. 1
  BY <1>0 DEF Lookahead, TypeOK
<1>8. flush' \in BOOLEAN
  BY <1>0 DEF LoaderNext
<1>9. owned' \in BOOLEAN /\ rd_valid' \in BOOLEAN /\ rd_owner' \in BOOLEAN /\ xfer_read' \in BOOLEAN
  BY <1>0 DEF Strobe
<1>10. xfer_lane' \in BOOLEAN
  BY <1>0 DEF Strobe, TypeOK, Odd
<1> QED
  BY <1>1, <1>2, <1>3, <1>4, <1>5, <1>6, <1>7, <1>8, <1>9, <1>10 DEF TypeInv, TypeOK, MemOK

(***************************************************************************)
(* Theorems                                                                *)
(***************************************************************************)
LEMMA InvInit == Init => IInv
<1> SUFFICES ASSUME Init
             PROVE  IInv
  OBVIOUS
<1> USE DEF Init, Idle
<1>1. TypeInv
  <2>1. ZeroWord \in Word /\ mem \in [Words -> Word] /\ want \in [Words -> Word]
    BY LaneFacts DEF ZeroWord, Word
  <2>2. TypeOK
    <3>1. flush \in BOOLEAN /\ owned \in BOOLEAN /\ rd_valid \in BOOLEAN /\ rd_owner \in BOOLEAN
          /\ xfer_read \in BOOLEAN /\ xfer_lane \in BOOLEAN
      OBVIOUS
    <3>2. bus.kind = "none" /\ port.phase = "free" /\ la_victim \in 0 .. 1 /\ data_reg \in Word
      BY <2>1
    <3> QED
      BY <2>1, <3>1, <3>2 DEF TypeOK
  <2>3. BusOK /\ DwOK /\ PortOK
    BY DEF BusOK, DwOK, WaitingOK, PortOK
  <2>4. LinesOK
    BY DEF LinesOK, NoLine
  <2> QED
    BY <2>2, <2>3, <2>4 DEF TypeInv
<1>2. ReadInv
  BY DEF ReadInv, ReadInFlight, read_command
<1>3. WantInv
  BY DEF WantInv, WriteTaken, write_command, Deferred, NoWrite, Coming
<1>4. LookaheadCoherent /\ ReadsLatest
  BY DEF LookaheadCoherent, NoLine, ReadsLatest, read_command
<1> QED
  BY <1>1, <1>2, <1>3, <1>4 DEF IInv

LEMMA InvNext == IInv /\ [Next]_vars => IInv'
<1> SUFFICES ASSUME IInv, [Next]_vars
             PROVE  IInv'
  OBVIOUS
<1>1. CASE Clock
  <2>1. TypeInv' /\ ReadInv' /\ WantInv'
    BY <1>1, TypeStep, ReadStep, WantStep DEF IInv
  <2>2. LookaheadCoherent' /\ ReadsLatest'
    BY <1>1, LinesStep, ReadsStep DEF IInv
  <2> QED
    BY <2>1, <2>2 DEF IInv
<1>2. CASE UNCHANGED vars
  <2>1. /\ bus' = bus /\ flush' = flush /\ owned' = owned /\ rd_valid' = rd_valid
        /\ rd_owner' = rd_owner /\ xfer_read' = xfer_read /\ xfer_lane' = xfer_lane
        /\ data_reg' = data_reg /\ la' = la /\ la_victim' = la_victim /\ dw' = dw
        /\ port' = port /\ mem' = mem /\ want' = want
    BY <1>2 DEF vars, portRegs
  <2>2. TypeInv'
    BY <2>1 DEF IInv, TypeInv, TypeOK, BusOK, Enabled, DwOK, PortOK, LinesOK
  <2>3. ReadInv' /\ WantInv'
    BY <2>1 DEF IInv, ReadInv, WantInv, ReadInFlight, WriteTaken, Coming, Odd, hit, defer, w,
                read_command, write_command, Enabled, Deferred
  <2>4. LookaheadCoherent' /\ ReadsLatest'
    BY <2>1 DEF IInv, LookaheadCoherent, ReadsLatest, Coming, w, read_command
  <2> QED
    BY <2>2, <2>3, <2>4 DEF IInv
<1> QED
  BY <1>1, <1>2 DEF Next

LEMMA Invariant == Spec => []IInv
BY InvInit, InvNext, PTL DEF Spec

\* Every register of the port keeps to its type.
THEOREM PortTypes == Spec => []TypeOK
<1>1. IInv => TypeOK
  BY DEF IInv, TypeInv
<1> QED
  BY <1>1, Invariant, PTL

\* Whatever the bridge's latency and wherever the last writes are, a read of the
\* CPU gives it what they left in the word.
THEOREM CpuReadsLatest == Spec => []ReadsLatest
<1>1. IInv => ReadsLatest
  BY DEF IInv
<1> QED
  BY <1>1, Invariant, PTL

\* The lookahead lines never differ from what the memory holds once the
\* transaction in flight has ended.
THEOREM LinesCoherent == Spec => []LookaheadCoherent
<1>1. IInv => LookaheadCoherent
  BY DEF IInv
<1> QED
  BY <1>1, Invariant, PTL

\* At rest the memory holds every write that was accepted: the posted, the
\* deferred, both targets of a CGA write under the HGC page, and the loader's.
THEOREM NoWriteLost == Spec => []NothingLost
<1>1. IInv => NothingLost
  <2>1. ASSUME IInv, bus.kind = "none", ~dw.pending, port.phase \in {"free", "served", "done"}
        PROVE  mem = want
    <3>1. want = Deferred(dw, Coming)
      BY <2>1 DEF IInv, WantInv, WriteTaken, write_command
    <3> QED
      BY <2>1, <3>1 DEF Deferred, Coming
  <2> QED
    BY <2>1 DEF NothingLost
<1> QED
  BY <1>1, Invariant, PTL

\* No read crosses the end of a row, where the controller would wrap, for any row
\* length and at every speed.
THEOREM ReadsStayInRow == Spec => []ReadsInRow
<1>1. IInv => ReadsInRow
  BY PortFields DEF IInv, TypeInv, ReadsInRow, TxnOK
<1> QED
  BY <1>1, Invariant, PTL
===============================================================================
