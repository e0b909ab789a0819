----------------------------- MODULE CpuMemPort -----------------------------
(***************************************************************************)
(* The CPU memory port, rtl/mem/cpu_mem_port.sv (KFPC-XT's Chipset.sv),    *)
(* without its wait states: how a memory strobe is accepted, the lookahead *)
(* lines, posted and deferred writes, early reads and the ROM loader's     *)
(* flush.  A step is a chipset clock.                                      *)
(*                                                                         *)
(* The bridge is what TxnPort says of it: one transaction at a time,       *)
(* performed by the memory at some clock before its end.  Nothing is said  *)
(* of how long it takes.                                                   *)
(*                                                                         *)
(* A strobe is held until it is answered (cpu_mem_port's readiness and     *)
(* READY), and the bus rests for a clock at least before the next one.  An *)
(* early read is followed by its strobe: both belong to one bus cycle.     *)
(***************************************************************************)
EXTENDS Integers

CONSTANTS
  Words,         \* SDRAM words
  Lanes,         \* bytes of a word: {0, 1}, or {0} where bytes do not matter
  Byte, ZeroByte,
  ROW,           \* words of a row (512)
  clk_select,    \* 0 4.77 MHz, 1 7.16 MHz, 2 9.54 MHz, 3 Max
  Places,        \* what mem_map makes of the bus addresses
  LoaderWords    \* words that the ROM loader writes

Word == [Lanes -> Byte]

\* A place: its word, whether writes to it are ignored, the card whose video
\* memory it is, and the second target of a write (HGC page 1 under the CGA).
ASSUME PlacesAssumption ==
  /\ Words \subseteq Nat /\ 0 \in Lanes /\ Lanes \subseteq {0, 1} /\ ZeroByte \in Byte
  /\ clk_select \in 0 .. 3 /\ ROW \in Nat /\ ROW > 0
  /\ \A p \in Places : /\ p.w \in Words /\ p.w2 \in Words /\ p.w # p.w2
                       /\ p.protect \in BOOLEAN /\ p.two \in BOOLEAN
                       /\ p.video \in {"none", "cga", "hgc"}
                       /\ p.two => p.video = "cga"
  /\ LoaderWords \subseteq Words

\* The rows lie in the memory as a whole.
ASSUME RowsAssumption ==
  \A x \in Words : \A i \in 0 .. 3 : (x % ROW) + i < ROW => x + i \in Words

\* A word that the loader writes is ROM for the CPU.
ASSUME LoaderAssumption ==
  \A p \in Places : p.w \in LoaderWords \/ (p.two /\ p.w2 \in LoaderWords) => p.protect

VARIABLES
  bus,         \* the bus cycle: kind, place, lane, wide, data
  flush,       \* the ROM loader is writing (and the CPU is held)
  owned, rd_valid, rd_owner, xfer_read, xfer_lane, data_reg,
  la,          \* lookahead lines: functions from words to their contents
  la_victim,
  dw,          \* the deferred CGA write
  port,        \* the transaction at the bridge: phase, txn, rdata
  mem,         \* what the SDRAM holds
  want         \* history: what the strobes and the loader have written

portRegs == <<owned, rd_valid, rd_owner, xfer_read, xfer_lane, data_reg, la, la_victim, dw>>
vars == <<bus, flush, portRegs, port, mem, want>>

NoLine == [x \in {} |-> [l \in Lanes |-> ZeroByte]]
ZeroWord == [l \in Lanes |-> ZeroByte]

(***************************************************************************)
(* The strobe                                                              *)
(***************************************************************************)
w             == bus.place.w
read_command  == bus.kind = "read"
write_command == bus.kind = "write" /\ ~bus.place.protect
cmd_active    == read_command \/ write_command
early_read    == bus.kind = "early"
defer         == bus.place.video = "cga"

Enabled(cycle) == IF cycle.wide THEN Lanes ELSE {cycle.lane}     \* wr_be

Merge(old, data, be) == [l \in Lanes |-> IF l \in be THEN data[l] ELSE old[l]]

\* The byte of an odd address goes to the low half of the bus.
Steer(word, odd) ==
  IF odd THEN [l \in Lanes |-> IF l = 0 THEN word[1] ELSE ZeroByte] ELSE word

Odd == bus.lane = 1 /\ ~bus.wide

(***************************************************************************)
(* Lookahead                                                               *)
(***************************************************************************)
hit      == w \in DOMAIN la[0] \/ w \in DOMAIN la[1]
hit_word == IF w \in DOMAIN la[0] THEN la[0][w] ELSE la[1][w]

\* Words that a read miss fetches, within the row.
RdLenWide(a, speed) ==      \* mutant: an off-by-one at the end of the row
  IF speed = 3 /\ a % ROW <= ROW - 3 THEN 4
  ELSE IF speed >= 2 /\ a % ROW <= ROW - 2 THEN 2 ELSE 1

RdLen(a, speed) ==
  IF speed = 3 /\ a % ROW <= ROW - 4 THEN 4
  ELSE IF speed >= 2 /\ a % ROW <= ROW - 2 THEN 2 ELSE 1

rd_len == RdLen(w, IF bus.place.video = "none" THEN clk_select ELSE 0)

(***************************************************************************)
(* Accepting a strobe                                                      *)
(***************************************************************************)
bridge_free == port.phase = "free"

AcceptHitAny ==       \* mutant: without !dw_pending
  read_command /\ ~owned /\ hit /\ ~flush

accept_hit   == read_command /\ ~owned /\ hit /\ ~flush /\ ~dw.pending
accept_read  == read_command /\ ~owned /\ ~accept_hit /\ bridge_free /\ ~dw.pending
accept_write == write_command /\ ~owned /\ ~defer /\ bridge_free /\ ~dw.pending
accept_defer == write_command /\ ~owned /\ defer /\ ~dw.pending
accept_early == early_read /\ ~hit /\ ~flush /\ bridge_free /\ ~dw.pending

PostAtOnce == dw.pending /\ bridge_free     \* mutant: before MEMW ends

post_dw  == dw.pending /\ (dw.ended \/ ~write_command) /\ bridge_free
post_now == accept_write \/ post_dw

\* The write on its way to the bridge.
Posted ==
  IF accept_write THEN [w |-> w, data |-> bus.data, be |-> Enabled(bus)]
  ELSE [w |-> IF dw.stage THEN dw.w2 ELSE dw.w, data |-> dw.data, be |-> dw.be]

(***************************************************************************)
(* Answers                                                                 *)
(***************************************************************************)
read_back == port.phase = "done" /\ xfer_read

\* To the strobe that asked, or to one that waits for the line of an early read.
own_answer   == read_back /\ rd_owner /\ cmd_active
cover_answer == /\ read_back /\ ~(rd_owner /\ cmd_active)
                /\ read_command /\ ~owned /\ w \in DOMAIN port.rdata /\ ~flush

Strobe ==
  /\ owned' = (cmd_active /\ (\/ owned \/ accept_hit \/ accept_read \/ accept_write
                              \/ accept_defer \/ cover_answer))
  /\ rd_valid' = (cmd_active /\ (rd_valid \/ accept_hit \/ own_answer \/ cover_answer))
  /\ rd_owner' = (cmd_active /\ (accept_read \/ (rd_owner /\ ~own_answer)))
  /\ xfer_lane' = IF accept_read THEN Odd ELSE xfer_lane
  /\ xfer_read' = (accept_read \/ accept_early \/ (xfer_read /\ ~post_now /\ ~read_back))
  /\ data_reg' = IF own_answer THEN Steer(port.rdata[port.txn.w], xfer_lane)
                 ELSE IF cover_answer THEN Steer(port.rdata[w], Odd)
                 ELSE IF accept_hit THEN Steer(hit_word, Odd)
                 ELSE data_reg

LookaheadFirst ==     \* mutant: only the line that hits is updated
  /\ la' = IF flush THEN [e \in 0 .. 1 |-> NoLine]
           ELSE IF read_back THEN [la EXCEPT ![la_victim] = port.rdata]
           ELSE IF ~post_now THEN la
           ELSE LET e == IF Posted.w \in DOMAIN la[0] THEN 0 ELSE 1
                IN  [la EXCEPT ![e] = [x \in DOMAIN la[e] |->
                      IF x = Posted.w THEN Merge(la[e][x], Posted.data, Posted.be) ELSE la[e][x]]]
  /\ la_victim' = IF read_back /\ ~flush THEN 1 - la_victim ELSE la_victim

Lookahead ==
  /\ la' = IF flush THEN [e \in 0 .. 1 |-> NoLine]
           ELSE IF read_back THEN [la EXCEPT ![la_victim] = port.rdata]
           ELSE IF ~post_now THEN la
           ELSE [e \in 0 .. 1 |-> [x \in DOMAIN la[e] |->
                  IF x = Posted.w THEN Merge(la[e][x], Posted.data, Posted.be) ELSE la[e][x]]]
  /\ la_victim' = IF read_back /\ ~flush THEN 1 - la_victim ELSE la_victim

NoWrite == [pending |-> FALSE]

DeferForever ==       \* mutant: the second post does not end the write
  dw' = IF accept_defer
          THEN [pending |-> TRUE, ended |-> FALSE, stage |-> FALSE, two |-> bus.place.two,
                w |-> w, w2 |-> bus.place.w2, data |-> bus.data, be |-> Enabled(bus)]
        ELSE IF ~dw.pending THEN dw
        ELSE IF post_dw /\ ~dw.two THEN NoWrite
        ELSE [dw EXCEPT !.data = IF write_command /\ ~dw.ended THEN bus.data ELSE dw.data,
                        !.ended = dw.ended \/ ~write_command, !.stage = dw.stage \/ post_dw]

\* A CGA write keeps the last value on the bus and is sent when MEMW is over.
Defer ==
  dw' = IF accept_defer
          THEN [pending |-> TRUE, ended |-> FALSE, stage |-> FALSE, two |-> bus.place.two,
                w |-> w, w2 |-> bus.place.w2, data |-> bus.data, be |-> Enabled(bus)]
        ELSE IF ~dw.pending THEN dw
        ELSE IF post_dw /\ (~dw.two \/ dw.stage) THEN NoWrite
        ELSE [dw EXCEPT !.data = IF write_command /\ ~dw.ended THEN bus.data ELSE dw.data,
                        !.ended = dw.ended \/ ~write_command, !.stage = dw.stage \/ post_dw]

(***************************************************************************)
(* The bridge and the memory (TxnPort)                                     *)
(***************************************************************************)
Txn ==
  IF post_now THEN [we |-> TRUE, w |-> Posted.w, n |-> 1, data |-> Posted.data, be |-> Posted.be]
              ELSE [we |-> FALSE, w |-> w, n |-> rd_len]

m_start == accept_read \/ post_now \/ accept_early

Start == bridge_free /\ m_start /\ port' = [phase |-> "asked", txn |-> Txn]

Serve ==
  /\ port.phase = "asked"
  /\ port' = IF port.txn.we THEN [phase |-> "served", txn |-> port.txn]
             ELSE [phase |-> "served", txn |-> port.txn,
                   rdata |-> [x \in port.txn.w .. port.txn.w + port.txn.n - 1 |-> mem[x]]]

Finish == port.phase = "served" /\ port' = [port EXCEPT !.phase = "done"]

Free == port.phase = "done" /\ port' = [phase |-> "free"]

\* The client's ends of a transaction last one clock, the rest any time.
Bridge ==
  \/ Start \/ Serve \/ Finish \/ Free
  \/ (port.phase \in {"asked", "served"} \/ (bridge_free /\ ~m_start)) /\ UNCHANGED port

(***************************************************************************)
(* The bus and the ROM loader                                              *)
(***************************************************************************)
Cycles(kind) ==
  { [kind |-> kind, place |-> p, lane |-> l, wide |-> d] : p \in Places, l \in Lanes, d \in BOOLEAN }

Aligned(cycle) == cycle.wide => cycle.lane = 0

WithData(cycle) ==
  { [kind |-> "write", place |-> cycle.place, lane |-> cycle.lane, wide |-> cycle.wide,
     data |-> d] : d \in [Enabled(cycle) -> Byte] }

Idle == [kind |-> "none"]

answered == IF read_command THEN owned /\ rd_valid ELSE write_command => owned

BusStarts ==
  /\ bus.kind = "none" /\ ~flush
  /\ \/ \E c \in Cycles("early") \cup Cycles("read") : Aligned(c) /\ bus' = c
     \/ \E c \in Cycles("write") : Aligned(c) /\ bus' \in WithData(c)

BusGoesOn ==
  \/ bus.kind \in {"early", "latched"} /\ \E k \in {"latched", "read"} : bus' = [bus EXCEPT !.kind = k]
  \/ bus.kind = "read" /\ UNCHANGED bus
  \/ bus.kind = "write" /\ bus' \in (IF defer THEN WithData(bus) ELSE {bus})

BusEnds == bus.kind \in {"read", "write"} /\ answered /\ bus' = Idle

BusRests == bus.kind = "none" /\ UNCHANGED bus

BusNext == BusStarts \/ BusGoesOn \/ BusEnds \/ BusRests

\* HOLD is granted between bus cycles and lasts for the whole write.
LoaderNext ==
  flush' \in IF bus.kind = "none" /\ bus'.kind = "none" THEN BOOLEAN ELSE {FALSE}

LoaderWrites(x, d) == flush /\ x \in LoaderWords /\ d \in Word

(***************************************************************************)
(* Memory                                                                  *)
(***************************************************************************)
Put(memory, x, data, be) == [memory EXCEPT ![x] = Merge(memory[x], data, be)]

\* What a strobe asks for, on its last clock.
Wanted ==
  IF ~(write_command /\ bus'.kind = "none") THEN want
  ELSE LET once == Put(want, w, bus.data, Enabled(bus))
       IN  IF bus.place.two THEN Put(once, bus.place.w2, bus.data, Enabled(bus)) ELSE once

Memory ==
  IF Serve /\ port.txn.we THEN Put(mem, port.txn.w, port.txn.data, port.txn.be) ELSE mem

MemoryNext ==
  \/ mem' = Memory /\ want' = Wanted
  \/ \E x \in LoaderWords, d \in Word :
       /\ LoaderWrites(x, d)
       /\ mem' = [Memory EXCEPT ![x] = d] /\ want' = [Wanted EXCEPT ![x] = d]

Clock == Strobe /\ Lookahead /\ Defer /\ Bridge /\ BusNext /\ LoaderNext /\ MemoryNext

Init ==
  /\ bus = Idle /\ flush = FALSE
  /\ owned = FALSE /\ rd_valid = FALSE /\ rd_owner = FALSE
  /\ xfer_read = FALSE /\ xfer_lane = FALSE /\ data_reg = ZeroWord
  /\ la = [e \in 0 .. 1 |-> NoLine] /\ la_victim = 0 /\ dw = NoWrite
  /\ port = [phase |-> "free"]
  /\ mem = [x \in Words |-> ZeroWord] /\ want = mem

Next == Clock
Spec == Init /\ [][Next]_vars

\* The chipset clock runs and the bridge ends every transaction (EveryTxnEnds).
FairSpec == Spec /\ WF_vars(Clock) /\ WF_vars(Clock /\ Serve) /\ WF_vars(Clock /\ Finish)

(***************************************************************************)
(* Properties                                                              *)
(***************************************************************************)
TypeOK ==
  /\ bus.kind \in {"none", "early", "latched", "read", "write"}
  /\ flush \in BOOLEAN
  /\ owned \in BOOLEAN /\ rd_valid \in BOOLEAN /\ rd_owner \in BOOLEAN
  /\ xfer_read \in BOOLEAN /\ xfer_lane \in BOOLEAN /\ data_reg \in Word
  /\ la_victim \in 0 .. 1
  /\ port.phase \in {"free", "asked", "served", "done"}
  /\ mem \in [Words -> Word] /\ want \in [Words -> Word]

\* A read that is answered gives the CPU what the last writes to the word left
\* there, wherever they are: in the memory, in a line, at the bridge or held
\* back until the end of their strobe.
ReadsLatest ==
  read_command /\ owned /\ rd_valid =>
    IF bus.wide THEN data_reg = want[w] ELSE data_reg[0] = want[w][bus.lane]

\* Every write that was accepted reaches the memory, and both targets of a CGA
\* write under the HGC page do: once the port is at rest nothing is missing.
NothingLost ==
  bus.kind = "none" /\ ~dw.pending /\ port.phase \in {"free", "served", "done"} => mem = want

\* The memory as it will be after the transaction in flight.
Coming ==
  IF port.phase = "asked" /\ port.txn.we THEN Put(mem, port.txn.w, port.txn.data, port.txn.be)
                                         ELSE mem

\* Both lines hold what the memory holds or is about to hold.
LookaheadCoherent == \A e \in 0 .. 1 : \A x \in DOMAIN la[e] : la[e][x] = Coming[x]

\* "Clipped at the end of the 512-word row": the controller wraps at the end of a
\* row, so no read may cross it.
ReadsInRow == port.phase # "free" => (port.txn.w % ROW) + port.txn.n <= ROW

\* Every strobe is answered, and a deferred write is sent once its strobe ended.
StrobesAnswered ==
  /\ cmd_active ~> answered
  /\ dw.pending /\ dw.ended ~> ~dw.pending
===============================================================================
