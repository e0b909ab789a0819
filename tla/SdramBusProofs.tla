---------------------------- MODULE SdramBusProofs ----------------------------
(***************************************************************************)
(* Theorems about SdramBus, for every geometry, every timing that meets    *)
(* the assumptions and every sequence of operations.                       *)
(*                                                                         *)
(* The bus is safe because rd_busy marks, for every read on its way, the   *)
(* edges on which its word would meet a write, and wr_drv marks every      *)
(* booked write: the two never share an edge.  DqInv says what the marks   *)
(* mean for a read that is booked, on the pins, or inside the chip.        *)
(***************************************************************************)
EXTENDS SdramBus, TLAPS

(***************************************************************************)
(* Operations, and the members of the tables                               *)
(***************************************************************************)

\* What an operation in the holding register is made of.
LEMMA OpFields ==
  ASSUME op \in Offered \cup {NoOp}, IsAccess(op)
  PROVE  /\ op.kind \in {"read", "write"} /\ op.bank \in Banks /\ op.row \in Rows
         /\ op.n \in 1 .. 4 /\ op.n \in Lengths /\ op.tag \in Tags
         /\ \A i \in Burst(op.n) : op.col + i \in Cols
         /\ op.kind = "write" =>
              op.data \in [Burst(op.n) -> Word] /\ op.be \in [Burst(op.n) -> SUBSET Lanes]
<1>1. IsRequest(op)
  BY OfferedAssumption DEF NoOp, Refresh, IsAccess
<1>2. CASE op \in Reads
  BY <1>1, <1>2, GeometryAssumption DEF IsRequest, Reads, InRow
<1>3. CASE \E n \in Lengths : op \in Writes(n)
  BY <1>1, <1>3, GeometryAssumption DEF IsRequest, Writes, InRow
<1>4. QED
  BY <1>1, <1>2, <1>3 DEF IsRequest

\* A slot that has been shifted was one edge further away.
LEMMA ShiftedColumn ==
  ASSUME NEW S, S \subseteq ColumnSlots, NEW s \in ShiftSlots(S)
  PROVE  \E x \in S : /\ x.at > 0 /\ s.at = x.at - 1 /\ s.we = x.we /\ s.ap = x.ap
                      /\ s.ba = x.ba /\ s.col = x.col /\ s.d = x.d /\ s.mask = x.mask
                      /\ s \in ColumnSlots
<1>1. PICK x \in S : x.at > 0 /\ s = [x EXCEPT !.at = x.at - 1]
  BY DEF ShiftSlots
<1>2. x \in ColumnSlots
  OBVIOUS
<1>3. x.at \in 0 .. COLS - 1 /\ COLS \in Nat
  BY <1>2, TimingAssumption DEF ColumnSlots, COLS
<1>4. QED
  BY <1>1, <1>2, <1>3 DEF ColumnSlots

LEMMA ShiftedEdge ==
  ASSUME NEW E, E \subseteq Nat, NEW t
  PROVE  t \in ShiftEdges(E) <=> t \in Nat /\ t + 1 \in E
BY DEF ShiftEdges

\* The columns that an operation books lie inside the table.
LEMMA BookedColumns ==
  ASSUME op \in Offered \cup {NoOp}, IsAccess(op), NEW i \in Burst(op.n)
  PROVE  /\ Column(i) \in ColumnSlots
         /\ Column(i).at = T_RCD + i
         /\ Column(i).we <=> op.kind = "write"
         /\ op.kind = "write" => Column(i).d \in Word
         /\ op.kind = "read" => Column(i).mask = {}
<1>1. i \in 0 .. 3 /\ op.n \in 1 .. 4 /\ op.col + i \in Cols /\ op.bank \in Banks
      /\ T_RCD + i \in 0 .. COLS - 1
  BY OpFields, TimingAssumption DEF Burst, COLS
<1>2. CASE op.kind = "write"
  <2>1. op.data[i] \in Word /\ op.be[i] \subseteq Lanes
    BY <1>2, OpFields
  <2>2. op.data[i] \in [Lanes -> Byte \cup {Z}]
    BY <2>1 DEF Word
  <2>3. QED
    BY <1>1, <1>2, <2>1, <2>2 DEF Column, ColumnAt, ColumnSlots
<1>3. CASE op.kind = "read"
  BY <1>1, <1>3 DEF Column, ColumnAt, ColumnSlots, Undriven
<1>4. QED
  BY <1>2, <1>3, OpFields

\* The captures and the marks that an operation books lie inside their tables.
LEMMA BookedEdges ==
  ASSUME op \in Offered \cup {NoOp}, IsAccess(op), NEW i \in Burst(op.n)
  PROVE  /\ ReadSlot(i) \in CaptureSlots
         /\ ColumnAt(i) \in MarkedEdges
         /\ ReadWindow(ColumnAt(i)) \subseteq MarkedEdges
<1>1. i \in 0 .. 3 /\ op.tag \in Tags /\ T_RCD \in Nat /\ CL \in Nat /\ CL >= 2 /\ RDD \in Nat
  BY OpFields, TimingAssumption, CtrlAssumption DEF Burst
<1>2. ColumnAt(i) + RDD \in 0 .. RDQ - 1
  BY <1>1 DEF ColumnAt, RDQ
<1>3. QED
  BY <1>1, <1>2 DEF ReadSlot, CaptureSlots, ColumnAt, ReadWindow, MASK, MarkedEdges

LEMMA ShiftedCaptures ==
  ASSUME NEW S, S \subseteq CaptureSlots
  PROVE  ShiftSlots(S) \subseteq CaptureSlots
<1>1. SUFFICES ASSUME NEW s \in ShiftSlots(S) PROVE s \in CaptureSlots
  OBVIOUS
<1>2. PICK x \in S : x.at > 0 /\ s = [x EXCEPT !.at = x.at - 1]
  BY DEF ShiftSlots
<1>3. x \in CaptureSlots /\ RDQ \in Nat
  BY TimingAssumption, CtrlAssumption DEF RDQ
<1>4. QED
  BY <1>2, <1>3 DEF CaptureSlots

LEMMA ShiftedMarks ==
  ASSUME NEW E, E \subseteq MarkedEdges
  PROVE  ShiftEdges(E) \subseteq MarkedEdges
<1>1. MASK \in Nat
  BY TimingAssumption DEF MASK
<1>2. QED
  BY <1>1 DEF ShiftEdges, MarkedEdges

\* bank_wait holds every occupation of a bank.
LEMMA BusyFits ==
  ASSUME op \in Offered \cup {NoOp}, IsAccess(op)
  PROVE  BankBusy(op) - 1 \in 0 .. 15
<1>1. op.n \in Lengths /\ op.n \in 1 .. 4 /\ op.kind \in {"read", "write"}
  BY OpFields
<1>2. DEFINE o == [kind |-> op.kind, n |-> op.n]
<1>3. BankBusy(o) <= 16
  BY <1>1, WidthAssumption
<1>4. BankBusy(op) = BankBusy(o)
  BY DEF BankBusy
<1>5. BankBusy(op) \in Nat /\ BankBusy(op) >= 1
  BY <1>1, TimingAssumption DEF BankBusy, Max2
<1>6. QED
  BY <1>3, <1>4, <1>5

(***************************************************************************)
(* Types                                                                   *)
(***************************************************************************)
CtrlTypeOK ==
  /\ init_state \in {"WAIT", "PALL", "REF", "MRS", "DONE"}
  /\ init_cnt \in Nat /\ init_cnt <= 65535 /\ init_refs \in 0 .. 8
  /\ col \subseteq ColumnSlots
  /\ wr_drv \subseteq MarkedEdges /\ rd_busy \subseteq MarkedEdges
  /\ rdq \subseteq CaptureSlots
  /\ bank_wait \in [Banks -> 0 .. 15] /\ act_wait \in 0 .. 3

ChipTypeOK ==
  /\ open \in [Banks -> Rows \cup {Closed}]
  /\ array \in [Locations -> Word]

\* The data that is on its way to the chip, and its addresses.
PinsOK ==
  /\ pins.cmd = "ACT" => pins.row \in Rows
  /\ pins.cmd = "WRITE" => pins.d \in Word
  /\ \A c \in col : c.we => c.d \in Word

\* The eight refreshes of the power-up sequence are counted once each.
PowerUpOK ==
  /\ init_state \in {"WAIT", "PALL"} => init_refs = 0
  /\ init_state = "REF" /\ init_cnt = 0 => init_refs < 8

TypeInv ==
  op \in Offered \cup {NoOp} /\ CtrlTypeOK /\ ChipTypeOK /\ PinsOK /\ PowerUpOK

LEMMA TypeInit == ASSUME BusInit PROVE TypeInv
<1>1. CtrlTypeOK
  BY CtrlAssumption, WidthAssumption DEF BusInit, CtrlInit, CtrlTypeOK
<1>2. ChipTypeOK
  BY DEF BusInit, ChipInit, ChipTypeOK
<1>3. PinsOK /\ PowerUpOK
  BY DEF BusInit, CtrlInit, PinsOK, PowerUpOK, Nop
<1>4. QED
  BY <1>1, <1>2, <1>3 DEF BusInit, TypeInv

\* The tables when nothing is inserted.
LEMMA TablesShift ==
  ASSUME TypeInv, ShiftTables
  PROVE  /\ col' \subseteq ColumnSlots /\ \A c \in col' : c.we => c.d \in Word
         /\ wr_drv' \subseteq MarkedEdges /\ rd_busy' \subseteq MarkedEdges
         /\ rdq' \subseteq CaptureSlots
<1>1. \A c \in col' : c \in ColumnSlots /\ (c.we => c.d \in Word)
  BY ShiftedColumn DEF TypeInv, CtrlTypeOK, PinsOK, ShiftTables
<1>2. QED
  BY <1>1, ShiftedMarks, ShiftedCaptures DEF TypeInv, CtrlTypeOK, ShiftTables

\* The tables when an access is inserted.
LEMMA TablesInsert ==
  ASSUME TypeInv, IssueAccess
  PROVE  /\ col' \subseteq ColumnSlots /\ \A c \in col' : c.we => c.d \in Word
         /\ wr_drv' \subseteq MarkedEdges /\ rd_busy' \subseteq MarkedEdges
         /\ rdq' \subseteq CaptureSlots
<1>1. op \in Offered \cup {NoOp} /\ IsAccess(op)
  BY DEF TypeInv, IssueAccess, AccessIssue
<1>2. \A c \in col' : c \in ColumnSlots /\ (c.we => c.d \in Word)
  <2>1. \A c \in col : c \in ColumnSlots /\ (c.we => c.d \in Word)
    BY DEF TypeInv, CtrlTypeOK, PinsOK
  <2>2. ASSUME NEW i \in Burst(op.n)
        PROVE  Column(i) \in ColumnSlots /\ (Column(i).we => Column(i).d \in Word)
    BY <1>1, BookedColumns
  <2>3. \A c \in NewColumns : c \in ColumnSlots /\ (c.we => c.d \in Word)
    BY <2>2 DEF NewColumns
  <2>4. QED
    BY <2>1, <2>3, ShiftedColumn DEF IssueAccess
<1>3. wr_drv' \subseteq MarkedEdges
  <2>1. wr_drv \subseteq MarkedEdges
    BY DEF TypeInv, CtrlTypeOK
  <2>2. \A i \in Burst(op.n) : ColumnAt(i) \in MarkedEdges
    BY <1>1, BookedEdges
  <2>3. wr_drv \cup (IF op.kind = "write" THEN { ColumnAt(i) : i \in Burst(op.n) } ELSE {})
          \subseteq MarkedEdges
    BY <2>1, <2>2
  <2>4. QED
    BY <2>3, ShiftedMarks DEF IssueAccess
<1>4. rd_busy' \subseteq MarkedEdges
  <2>1. rd_busy \subseteq MarkedEdges
    BY DEF TypeInv, CtrlTypeOK
  <2>2. \A i \in Burst(op.n) : ReadWindow(ColumnAt(i)) \subseteq MarkedEdges
    BY <1>1, BookedEdges
  <2>3. rd_busy \cup (IF op.kind = "read"
                        THEN UNION { ReadWindow(ColumnAt(i)) : i \in Burst(op.n) } ELSE {})
          \subseteq MarkedEdges
    BY <2>1, <2>2
  <2>4. QED
    BY <2>3, ShiftedMarks DEF IssueAccess
<1>5. rdq' \subseteq CaptureSlots
  <2>1. rdq \cup (IF op.kind = "read" THEN { ReadSlot(i) : i \in Burst(op.n) } ELSE {})
          \subseteq CaptureSlots
    BY <1>1, BookedEdges DEF TypeInv, CtrlTypeOK
  <2>2. QED
    BY <2>1, ShiftedCaptures DEF IssueAccess
<1>6. QED
  BY <1>2, <1>3, <1>4, <1>5

LEMMA TimersCountDown ==
  ASSUME TypeInv, CountDownTimers
  PROVE  bank_wait' \in [Banks -> 0 .. 15] /\ act_wait' \in 0 .. 3
BY DEF TypeInv, CtrlTypeOK, CountDownTimers, CountDown

\* The power-up counters.
LEMMA PowerUpTypes ==
  ASSUME TypeInv, PowerUp
  PROVE  /\ init_state' \in {"WAIT", "PALL", "REF", "MRS", "DONE"}
         /\ init_cnt' \in Nat /\ init_cnt' <= 65535 /\ init_refs' \in 0 .. 8
         /\ PowerUpOK'
         /\ pins'.cmd \notin {"ACT", "READ", "WRITE"} /\ pins'.mask = InitMask
<1>1. CASE PowerUpWait
  BY <1>1 DEF TypeInv, CtrlTypeOK, PowerUpOK, PowerUpWait, Nop
<1>2. CASE PowerUpCommand
  <2>1. InitDelay \in Nat /\ InitDelay >= 1 /\ InitDelay <= 65535
    BY <1>2, TimingAssumption, CtrlAssumption, WidthAssumption DEF InitDelay, PowerUpCommand
  <2>2. /\ InitNext \in {"REF", "MRS", "DONE"}
        /\ InitNext = "REF" => init_refs # 8 \/ init_state = "PALL"
    BY <1>2 DEF InitNext, PowerUpCommand
  <2>3. init_refs \in 0 .. 8 /\ init_cnt \in Nat /\ init_cnt <= 65535 /\ PowerUpOK
    BY DEF TypeInv, CtrlTypeOK
  <2>4. /\ init_state' \in {"WAIT", "PALL", "REF", "MRS", "DONE"}
        /\ init_cnt' \in Nat /\ init_cnt' <= 65535 /\ init_refs' \in 0 .. 8
        /\ PowerUpOK'
    BY <1>2, <2>1, <2>2, <2>3 DEF PowerUpCommand, PowerUpOK
  <2>5. pins'.cmd \notin {"ACT", "READ", "WRITE"} /\ pins'.mask = InitMask
    BY <1>2 DEF PowerUpCommand, InitCommand, Nop
  <2>6. QED
    BY <2>4, <2>5
<1>3. QED
  BY <1>1, <1>2 DEF PowerUp

LEMMA CtrlTypes ==
  ASSUME TypeInv, CtrlClock
  PROVE  CtrlTypeOK' /\ PinsOK' /\ PowerUpOK'
<1>1. CASE PowerUp
  <2>1. ShiftTables /\ CountDownTimers
    BY <1>1 DEF PowerUp
  <2>2. QED
    BY <1>1, <2>1, PowerUpTypes, TablesShift, TimersCountDown DEF CtrlTypeOK, PinsOK
<1>2. CASE IssueAccess
  <2>1. /\ pins'.cmd = "ACT" /\ pins'.row \in Rows /\ BankBusy(op) - 1 \in 0 .. 15
    BY <1>2, OpFields, BusyFits DEF IssueAccess, AccessIssue, TypeInv
  <2>2. bank_wait' \in [Banks -> 0 .. 15]
    BY <1>2, <2>1 DEF IssueAccess, TypeInv, CtrlTypeOK, CountDown
  <2>3. act_wait' \in 0 .. 3
    BY <1>2, TimingAssumption, WidthAssumption DEF IssueAccess
  <2>4. UNCHANGED <<init_state, init_cnt, init_refs>>
    BY <1>2 DEF IssueAccess
  <2>5. CtrlTypeOK'
    BY <1>2, <2>2, <2>3, <2>4, TablesInsert DEF CtrlTypeOK, TypeInv
  <2>6. PinsOK' /\ PowerUpOK'
    BY <1>2, <2>1, <2>4, TablesInsert DEF PinsOK, PowerUpOK, TypeInv
  <2>7. QED
    BY <2>5, <2>6
<1>3. CASE IssueRefresh
  <2>1. ShiftTables /\ pins'.cmd = "REF" /\ UNCHANGED <<init_state, init_cnt, init_refs>>
    BY <1>3 DEF IssueRefresh
  <2>2. bank_wait' \in [Banks -> 0 .. 15]
    BY <1>3, TimingAssumption, WidthAssumption DEF IssueRefresh
  <2>3. act_wait' \in 0 .. 3
    BY <1>3 DEF IssueRefresh, TypeInv, CtrlTypeOK, CountDown
  <2>4. QED
    BY <2>1, <2>2, <2>3, TablesShift DEF CtrlTypeOK, PinsOK, PowerUpOK, TypeInv
<1>4. CASE SendColumn
  <2>1. PICK c \in col : /\ pins'.cmd = (IF c.we THEN "WRITE" ELSE "READ")
                         /\ pins'.d = c.d
    BY <1>4 DEF SendColumn, col_due
  <2>2. ShiftTables /\ CountDownTimers /\ UNCHANGED <<init_state, init_cnt, init_refs>>
    BY <1>4 DEF SendColumn
  <2>3. c.we => c.d \in Word
    BY DEF TypeInv, PinsOK
  <2>4. CtrlTypeOK' /\ PowerUpOK'
    BY <2>2, TablesShift, TimersCountDown DEF CtrlTypeOK, PowerUpOK, TypeInv
  <2>5. PinsOK'
    BY <2>1, <2>2, <2>3, TablesShift DEF PinsOK
  <2>6. QED
    BY <2>4, <2>5
<1>5. CASE Wait
  <2>1. ShiftTables /\ CountDownTimers /\ pins'.cmd = "NOP"
        /\ UNCHANGED <<init_state, init_cnt, init_refs>>
    BY <1>5 DEF Wait, Nop
  <2>2. QED
    BY <2>1, TablesShift, TimersCountDown DEF CtrlTypeOK, PinsOK, PowerUpOK, TypeInv
<1>6. QED
  BY <1>1, <1>2, <1>3, <1>4, <1>5 DEF CtrlClock

LEMMA ChipTypes ==
  ASSUME TypeInv, ChipClock
  PROVE  ChipTypeOK'
<1>1. ChipTypeOK /\ PinsOK
  BY DEF TypeInv
<1>2. CASE Activate
  BY <1>1, <1>2 DEF Activate, ChipTypeOK, PinsOK
<1>3. CASE ReadColumn
  BY <1>1, <1>3 DEF ReadColumn, AutoPrecharge, ChipTypeOK
<1>4. CASE WriteColumn
  <2>1. open' \in [Banks -> Rows \cup {Closed}]
    BY <1>1, <1>4 DEF WriteColumn, AutoPrecharge, ChipTypeOK
  <2>2. pins.d \in Word
    BY <1>1, <1>4 DEF WriteColumn, PinsOK
  <2>3. \A w \in Word : Merge(w, pins.d, Lanes \ pins.mask) \in Word
    BY <2>2 DEF Word, Merge
  <2>4. array' \in [Locations -> Word]
    <3>1. array \in [Locations -> Word]
      BY <1>1 DEF ChipTypeOK
    <3>2. array' = (IF open[pins.ba] = Closed THEN array
             ELSE [array EXCEPT ![Addressed] = Merge(array[Addressed], pins.d, Lanes \ pins.mask)])
      BY <1>4 DEF WriteColumn
    <3>3. QED
      BY <2>3, <3>1, <3>2
  <2>5. QED
    BY <2>1, <2>4 DEF ChipTypeOK
<1>5. CASE AutoRefresh
  BY <1>1, <1>5 DEF AutoRefresh, ChipTypeOK
<1>6. CASE PrechargeAll
  BY <1>1, <1>6 DEF PrechargeAll, ChipTypeOK
<1>7. CASE NoCommand
  BY <1>1, <1>7 DEF NoCommand, ChipTypeOK
<1>8. QED
  BY <1>2, <1>3, <1>4, <1>5, <1>6, <1>7 DEF ChipClock

LEMMA TypeNext == TypeInv /\ [BusNext]_busVars => TypeInv'
<1>1. CASE TypeInv /\ BusNext
  <2>1. CtrlClock /\ ChipClock /\ NextOp
    BY <1>1 DEF BusNext
  <2>2. op' \in Offered \cup {NoOp}
    BY <1>1, <2>1 DEF NextOp, TypeInv
  <2>3. QED
    BY <1>1, <2>1, <2>2, CtrlTypes, ChipTypes DEF TypeInv
<1>2. CASE TypeInv /\ UNCHANGED busVars
  BY <1>2 DEF TypeInv, CtrlTypeOK, ChipTypeOK, PinsOK, PowerUpOK, busVars, ctrlVars, chipVars
<1>3. QED
  BY <1>1, <1>2

LEMMA TypeInvariant == BusSpec => []TypeInv
BY TypeInit, TypeNext, PTL DEF BusSpec

\* The registers and the tables of sdram_ctrl.sv hold what they are wide and
\* deep enough for.
THEOREM TypeCorrect == BusSpec => []BusTypeOK
<1>1. TypeInv => BusTypeOK
  BY DEF TypeInv, CtrlTypeOK, ChipTypeOK, BusTypeOK
<1>2. QED
  BY <1>1, TypeInvariant, PTL

(***************************************************************************)
(* DQ                                                                      *)
(***************************************************************************)

\* Every edge of the read window of a READ sent t edges from now (t < 0: sent
\* -t edges ago) that is still to come is marked in rd_busy.
MarkedIn(t, R) == \A e \in ReadWindow(t) : e >= 0 => e \in R

Marked(t) == MarkedIn(t, rd_busy)

Reading(p) ==
  /\ p.age \in 1 .. CL + 1 /\ p.mask = {}
  /\ Marked(-1 - p.age)

\* No read inside the chip is where a WRITE or a mask on this edge harms it.
Clear == \A p \in rpipe : p.age \notin (CL - 2) .. (CL + 1)

\* The marks that a booked column command has left in the tables W and R.
BookedIn(c, W, R) == IF c.we THEN c.at \in W ELSE MarkedIn(c.at, R) /\ c.mask = {}

Booked(c) == BookedIn(c, wr_drv, rd_busy)

DqInv ==
  /\ wr_drv \cap rd_busy = {}
  /\ \A c \in col : Booked(c)
  /\ pins.cmd = "READ" => Marked(-1) /\ pins.mask = {}
  /\ \A p \in rpipe : Reading(p)
  /\ pins.cmd = "WRITE" \/ pins.mask # {} => Clear
  /\ ~init_done => col = {} /\ rpipe = {} /\ pins.cmd # "READ"

LEMMA EdgesAreNat == TypeInv => wr_drv \subseteq Nat /\ rd_busy \subseteq Nat
BY TimingAssumption DEF TypeInv, CtrlTypeOK, MarkedEdges, MASK

\* A mark moves with the command that it belongs to.
LEMMA MarkedShifts ==
  ASSUME TypeInv, NEW t \in Int, Marked(t), ShiftEdges(rd_busy) \subseteq rd_busy'
  PROVE  Marked(t - 1)'
<1>1. SUFFICES ASSUME NEW e \in ReadWindow(t - 1), e >= 0
               PROVE  e \in rd_busy'
  BY DEF Marked, MarkedIn, ReadWindow
<1>2. e \in Nat /\ e + 1 \in ReadWindow(t)
  BY <1>1, TimingAssumption DEF ReadWindow
<1>3. e + 1 \in rd_busy
  BY <1>2 DEF Marked, MarkedIn
<1>4. e \in ShiftEdges(rd_busy)
  BY <1>2, <1>3, EdgesAreNat, ShiftedEdge
<1>5. QED
  BY <1>4

\* No mark is lost on any clock.
LEMMA MarksStay ==
  ASSUME TypeInv, CtrlClock
  PROVE  ShiftEdges(rd_busy) \subseteq rd_busy'
<1>1. ShiftTables => rd_busy' = ShiftEdges(rd_busy)
  BY DEF ShiftTables
<1>2. CASE IssueAccess
  BY <1>2 DEF IssueAccess, ShiftEdges
<1>3. CASE ~IssueAccess
  BY <1>1, <1>3 DEF CtrlClock, PowerUp, IssueRefresh, SendColumn, Wait
<1>4. QED
  BY <1>2, <1>3

\* The reads inside the chip after a clock: one edge older, not masked, their
\* marks in place; and if one of them is where it can be harmed, this edge was
\* marked.
LEMMA PipeNext ==
  ASSUME TypeInv, DqInv, CtrlClock, ChipClock, NEW q \in rpipe'
  PROVE  Reading(q)' /\ (q.age \in (CL - 2) .. (CL + 1) => 0 \in rd_busy)
<1> DEFINE Entering == [age |-> 0, mask |-> {},
                        data |-> IF open[pins.ba] = Closed THEN Undriven
                                                           ELSE array[Addressed]]
<1>1. PICK p : /\ p \in rpipe \/ (pins.cmd = "READ" /\ p = Entering)
               /\ p.age <= CL
               /\ q = [age |-> p.age + 1, data |-> p.data,
                       mask |-> IF p.age = CL - 2 THEN pins.mask ELSE p.mask]
  <2>1. CASE pins.cmd = "READ"
    <3>1. rpipe' = Travel(rpipe \cup {Entering})
      BY <2>1 DEF ChipClock, Activate, ReadColumn, WriteColumn, AutoRefresh, PrechargeAll,
                  NoCommand
    <3>2. QED
      BY <2>1, <3>1 DEF Travel
  <2>2. CASE pins.cmd # "READ"
    <3>1. rpipe' = Travel(rpipe)
      BY <2>2 DEF ChipClock, Activate, ReadColumn, WriteColumn, AutoRefresh, PrechargeAll,
                  NoCommand, ReadsTravel
    <3>2. QED
      BY <3>1 DEF Travel
  <2>3. QED
    BY <2>1, <2>2
<1>2. p.age \in 0 .. CL /\ p.mask = {} /\ Marked(-1 - p.age)
  <2>1. CASE p \in rpipe
    BY <1>1, <2>1, TimingAssumption DEF DqInv, Reading
  <2>2. CASE pins.cmd = "READ" /\ p = Entering
    <3>1. p.age = 0 /\ p.mask = {} /\ -1 - p.age = -1
      BY <2>2
    <3>2. QED
      BY <2>2, <3>1, TimingAssumption DEF DqInv
  <2>3. QED
    BY <1>1, <2>1, <2>2
\* A command with a mask finds no read in the clock in which DQM is sampled.
<1>3. p.age = CL - 2 => pins.mask = {}
  <2>1. CASE p \in rpipe
    BY <2>1, TimingAssumption DEF DqInv, Clear
  <2>2. QED
    BY <1>1, <2>1 DEF DqInv
<1>4. q.mask = {} /\ q.age = p.age + 1 /\ q.age \in 1 .. CL + 1
  BY <1>1, <1>2, <1>3, TimingAssumption
<1>6. Marked(-1 - q.age)'
  <2>1. (-1 - p.age) - 1 = -1 - q.age /\ -1 - p.age \in Int
    BY <1>2, <1>4, TimingAssumption
  <2>2. Marked((-1 - p.age) - 1)'
    BY <1>2, <2>1, MarkedShifts, MarksStay
  <2>3. QED
    BY <2>1, <2>2
<1>7. q.age \in (CL - 2) .. (CL + 1) => 0 \in rd_busy
  <2>1. q.age \in (CL - 2) .. (CL + 1) => 0 \in ReadWindow(-1 - p.age)
    BY <1>2, <1>4, TimingAssumption DEF ReadWindow
  <2>2. QED
    BY <1>2, <2>1 DEF Marked, MarkedIn
<1>8. QED
  BY <1>4, <1>6, <1>7 DEF Reading

(***************************************************************************)
(* The tables                                                              *)
(***************************************************************************)

\* The marks that an operation books are where its commands will need them,
\* and no edge is marked twice.
LEMMA MarksBooked ==
  ASSUME TypeInv, DqInv, NEW W, NEW R,
         W = wr_drv \cup (IF op.kind = "write" THEN { ColumnAt(i) : i \in Burst(op.n) }
                                               ELSE {}),
         R = rd_busy \cup (IF op.kind = "read"
                             THEN UNION { ReadWindow(ColumnAt(i)) : i \in Burst(op.n) }
                             ELSE {}),
         IsAccess(op), SlotsFree
  PROVE  W \cap R = {} /\ \A c \in col \cup NewColumns : BookedIn(c, W, R)
<1>1. wr_drv \cap rd_busy = {} /\ \A c \in col : BookedIn(c, wr_drv, rd_busy)
  BY DEF DqInv, Booked
<1>2. CASE op.kind = "write"
  <2>1. R = rd_busy /\ W = wr_drv \cup { ColumnAt(i) : i \in Burst(op.n) }
    BY <1>2
  <2>2. \A i \in Burst(op.n) : ColumnAt(i) \notin rd_busy
    BY <1>2 DEF SlotsFree
  <2>3. \A c \in NewColumns : c.we /\ c.at \in W
    BY <1>2, <2>1, BookedColumns DEF TypeInv, NewColumns, ColumnAt
  <2>4. QED
    BY <1>1, <2>1, <2>2, <2>3 DEF BookedIn, MarkedIn
<1>3. CASE op.kind = "read"
  <2>1. W = wr_drv /\ R = rd_busy \cup UNION { ReadWindow(ColumnAt(i)) : i \in Burst(op.n) }
    BY <1>3
  <2>2. \A i \in Burst(op.n) : ReadWindow(ColumnAt(i)) \cap wr_drv = {}
    BY <1>3 DEF SlotsFree
  <2>3. \A c \in NewColumns : ~c.we /\ c.mask = {} /\ ReadWindow(c.at) \subseteq R
    BY <1>3, <2>1, BookedColumns DEF TypeInv, NewColumns, ColumnAt
  <2>4. QED
    BY <1>1, <2>1, <2>2, <2>3 DEF BookedIn, MarkedIn
<1>4. QED
  BY <1>2, <1>3 DEF IsAccess

LEMMA ShiftKeepsMarks ==
  ASSUME NEW C, NEW W, NEW R,
         C \subseteq ColumnSlots, W \subseteq Nat, R \subseteq Nat,
         W \cap R = {}, \A c \in C : BookedIn(c, W, R)
  PROVE  /\ ShiftEdges(W) \cap ShiftEdges(R) = {}
         /\ \A c \in ShiftSlots(C) : BookedIn(c, ShiftEdges(W), ShiftEdges(R))
<1>1. ShiftEdges(W) \cap ShiftEdges(R) = {}
  BY ShiftedEdge
<1>2. ASSUME NEW s \in ShiftSlots(C)
      PROVE  BookedIn(s, ShiftEdges(W), ShiftEdges(R))
  <2>1. PICK x \in C : /\ x.at > 0 /\ s.at = x.at - 1 /\ s.we = x.we /\ s.mask = x.mask
                       /\ s \in ColumnSlots
    BY ShiftedColumn
  <2>2. x.at \in Nat /\ BookedIn(x, W, R)
    <3>1. x.at \in 0 .. COLS - 1
      BY DEF ColumnSlots
    <3>2. QED
      BY <3>1, TimingAssumption DEF COLS
  <2>3. CASE s.we
    <3>1. x.at \in W
      BY <2>1, <2>2, <2>3 DEF BookedIn
    <3>2. s.at \in Nat /\ s.at + 1 \in W
      <4>1. s.at + 1 = x.at /\ s.at \in Nat
        BY <2>1, <2>2
      <4>2. QED
        BY <3>1, <4>1
    <3>3. s.at \in ShiftEdges(W)
      BY <3>2, ShiftedEdge
    <3>4. QED
      BY <2>3, <3>3 DEF BookedIn
  <2>4. CASE ~s.we
    <3>1. MarkedIn(x.at, R) /\ s.mask = {}
      BY <2>1, <2>2, <2>4 DEF BookedIn
    <3>2. ASSUME NEW e \in ReadWindow(s.at), e >= 0
          PROVE  e \in ShiftEdges(R)
      <4>1. e \in Nat /\ e + 1 \in ReadWindow(x.at)
        BY <2>1, <2>2, <3>2, TimingAssumption DEF ReadWindow
      <4>2. e + 1 \in R
        BY <3>1, <4>1 DEF MarkedIn
      <4>3. QED
        BY <4>1, <4>2, ShiftedEdge
    <3>3. QED
      BY <2>4, <3>1, <3>2 DEF BookedIn, MarkedIn
  <2>5. QED
    BY <2>3, <2>4
<1>3. QED
  BY <1>1, <1>2

LEMMA TablesNext ==
  ASSUME TypeInv, DqInv, CtrlClock
  PROVE  (wr_drv \cap rd_busy = {})' /\ (\A c \in col : Booked(c))'
<1>1. /\ col \subseteq ColumnSlots /\ wr_drv \subseteq Nat /\ rd_busy \subseteq Nat
      /\ op \in Offered \cup {NoOp}
  BY EdgesAreNat DEF TypeInv, CtrlTypeOK
<1>2. wr_drv \cap rd_busy = {} /\ \A c \in col : BookedIn(c, wr_drv, rd_busy)
  BY DEF DqInv, Booked
<1>3. CASE IssueAccess
  <2> DEFINE C == col \cup NewColumns
             W == wr_drv \cup (IF op.kind = "write" THEN { ColumnAt(i) : i \in Burst(op.n) }
                                                     ELSE {})
             R == rd_busy \cup (IF op.kind = "read"
                                  THEN UNION { ReadWindow(ColumnAt(i)) : i \in Burst(op.n) }
                                  ELSE {})
  <2>1. IsAccess(op) /\ SlotsFree
    BY <1>3 DEF IssueAccess, AccessIssue, CanAccess
  <2>2. \A i \in Burst(op.n) : /\ Column(i) \in ColumnSlots /\ ColumnAt(i) \in Nat
                               /\ ReadWindow(ColumnAt(i)) \subseteq Nat
    BY <1>1, <2>1, BookedColumns, BookedEdges, TimingAssumption DEF MarkedEdges, MASK
  <2>3. C \subseteq ColumnSlots /\ W \subseteq Nat /\ R \subseteq Nat
    BY <1>1, <2>2 DEF NewColumns
  <2>4. W \cap R = {} /\ \A c \in C : BookedIn(c, W, R)
    BY <2>1, MarksBooked
  <2>5. col' = ShiftSlots(C) /\ wr_drv' = ShiftEdges(W) /\ rd_busy' = ShiftEdges(R)
    BY <1>3 DEF IssueAccess
  <2>6. QED
    BY <2>3, <2>4, <2>5, ShiftKeepsMarks DEF Booked
<1>4. CASE ~IssueAccess
  <2>1. ShiftTables
    BY <1>4 DEF CtrlClock, PowerUp, IssueRefresh, SendColumn, Wait
  <2>2. QED
    BY <1>1, <1>2, <2>1, ShiftKeepsMarks DEF ShiftTables, Booked
<1>5. QED
  BY <1>3, <1>4

(***************************************************************************)
(* The invariant                                                           *)
(***************************************************************************)
LEMMA DqInit == BusInit => DqInv
BY DEF BusInit, CtrlInit, ChipInit, DqInv, Nop, Clear, init_done

\* What the command that is sent on this clock may harm.
LEMMA CommandSafe ==
  ASSUME TypeInv, DqInv, CtrlClock, init_done
  PROVE  /\ pins'.cmd = "WRITE" \/ pins'.mask # {} => 0 \notin rd_busy
         /\ pins'.cmd = "READ" => Marked(0) /\ pins'.mask = {}
<1>1. wr_drv \cap rd_busy = {} /\ \A c \in col : Booked(c)
  BY DEF DqInv
<1>2. CASE IssueAccess
  BY <1>2 DEF IssueAccess, AccessIssue, CanAccess, SlotsFree
<1>3. CASE SendColumn
  <2>1. PICK c \in col : /\ c.at = 0 /\ pins'.mask = c.mask
                         /\ pins'.cmd = (IF c.we THEN "WRITE" ELSE "READ")
    BY <1>3 DEF SendColumn, col_due
  <2>2. CASE c.we
    BY <1>1, <2>1, <2>2 DEF Booked, BookedIn
  <2>3. CASE ~c.we
    BY <1>1, <2>1, <2>3 DEF Booked, BookedIn, Marked
  <2>4. QED
    BY <2>2, <2>3
<1>4. CASE IssueRefresh
  BY <1>4 DEF IssueRefresh
<1>5. CASE Wait
  BY <1>5 DEF Wait, Nop
<1>6. QED
  BY <1>2, <1>3, <1>4, <1>5 DEF CtrlClock, PowerUp, PowerUpWait, PowerUpCommand, init_done

LEMMA DqNext ==
  ASSUME TypeInv, DqInv, CtrlClock, ChipClock
  PROVE  DqInv'
<1>1. (wr_drv \cap rd_busy = {})' /\ (\A c \in col : Booked(c))'
  BY TablesNext
<1>2. (\A p \in rpipe : Reading(p))'
  BY PipeNext
<1>3. CASE init_done
  <2>1. 0 \notin rd_busy => Clear'
    BY PipeNext DEF Clear
  <2>2. (pins.cmd = "WRITE" \/ pins.mask # {} => Clear)'
    BY <1>3, <2>1, CommandSafe
  <2>3. (pins.cmd = "READ" => Marked(-1) /\ pins.mask = {})'
    <3>1. Marked(0) => Marked(-1)'
      <4>1. 0 - 1 = -1 /\ 0 \in Int
        OBVIOUS
      <4>2. Marked(0) => Marked(0 - 1)'
        BY <4>1, MarkedShifts, MarksStay
      <4>3. QED
        BY <4>1, <4>2
    <3>2. QED
      BY <1>3, <3>1, CommandSafe
  <2>4. init_done'
    BY <1>3 DEF init_done, CtrlClock, PowerUp, PowerUpWait, PowerUpCommand, IssueAccess,
                IssueRefresh, SendColumn, Wait
  <2>5. QED
    BY <1>1, <1>2, <2>2, <2>3, <2>4 DEF DqInv
\* Nothing has been read, and nothing is booked, before the chip is ready.
<1>4. CASE ~init_done
  <2>1. col = {} /\ rpipe = {} /\ pins.cmd # "READ"
    BY <1>4 DEF DqInv
  <2>2. PowerUp
    BY <1>4 DEF CtrlClock, IssueAccess, AccessIssue, IssueRefresh, RefreshIssue, SendColumn,
                Wait
  <2>3. col' = {}
    BY <2>1, <2>2 DEF PowerUp, ShiftTables, ShiftSlots
  <2>4. rpipe' = {}
    BY <2>1 DEF ChipClock, Activate, ReadColumn, WriteColumn, AutoRefresh, PrechargeAll,
                NoCommand, ReadsTravel, Travel
  <2>5. pins'.cmd # "READ"
    BY <2>2, PowerUpTypes
  <2>6. QED
    BY <1>1, <2>3, <2>4, <2>5 DEF DqInv, Clear
<1>5. QED
  BY <1>3, <1>4

LEMMA DqInvariant == BusSpec => []DqInv
<1>1. TypeInv /\ DqInv /\ [BusNext]_busVars => DqInv'
  <2>1. CASE TypeInv /\ DqInv /\ BusNext
    BY <2>1, DqNext DEF BusNext
  <2>2. CASE DqInv /\ UNCHANGED busVars
    BY <2>2 DEF busVars, ctrlVars, chipVars, DqInv, Booked, Marked, Reading, Clear, init_done
  <2>3. QED
    BY <2>1, <2>2
<1>2. QED
  BY <1>1, DqInit, TypeInvariant, PTL DEF BusSpec

\* The controller and the chip never drive DQ together, whatever operations
\* follow each other and however far apart.
THEOREM ContentionFree == BusSpec => []NoContention
<1>1. DqInv => NoContention
  BY TimingAssumption DEF DqInv, Clear, Reading, NoContention
<1>2. QED
  BY <1>1, DqInvariant, PTL

\* No write and no ACTIVE of a high row ever masks a byte that a read returns.
THEOREM ReadsUnmasked == BusSpec => []NoMaskedRead
<1>1. DqInv => NoMaskedRead
  BY DEF DqInv, Reading, NoMaskedRead
<1>2. QED
  BY <1>1, DqInvariant, PTL

(***************************************************************************)
(* The timing of the commands                                              *)
(*                                                                         *)
(* bank_wait and act_wait run ahead of the chip's own clocks: a bank whose *)
(* wait is over has been closed and precharged, tRC after its ACTIVE.      *)
(* TimingInv says so of the banks (BankInv), of the columns still to be    *)
(* sent (ColumnInv) and of the power-up sequence (ColdInv), always of the  *)
(* chip as it will be once it has decoded the command on the pins.         *)
(***************************************************************************)

\* What the command on the pins is going to do to a bank.
Opens(b)  == pins.cmd = "ACT" /\ pins.ba = b
Closes(b) == pins.cmd \in {"READ", "WRITE"} /\ pins.ba = b /\ pins.ap

\* The chip's clocks as it decodes the command: ages from the ACTIVE on the pins
\* itself, and the bank's precharge as it leaves it.
AgeOf(b) == IF Opens(b) THEN 0 ELSE act_age[b]
AnyAge   == IF pins.cmd = "ACT" THEN 0 ELSE any_age

Recovery(we)   == IF we THEN T_WR ELSE 1
Pre(we, since) == Max2(Recovery(we), T_RAS - since)     \* to the precharge

ReadyNext(b) ==
  IF pins.cmd = "REF" THEN T_RFC - 1
  ELSE IF pins.cmd = "PRE" THEN Max2(ready[b], T_RP) - 1
  ELSE IF Closes(b) THEN Pre(pins.cmd = "WRITE", act_age[b]) + T_RP - 1
  ELSE CountDown(ready[b])

RefsNext == IF pins.cmd = "REF" /\ mrs_age = 0 THEN Older(ref_seen, 2) ELSE ref_seen

\* A bank with a row open, or with an ACTIVE on the pins.
InUse(b) == Opens(b) \/ open[b] # Closed

TimerTypeOK ==
  /\ act_age \in [Banks -> 0 .. T_RC] /\ any_age \in Nat /\ ready \in [Banks -> Nat]
  /\ mrs_age \in 0 .. 2 /\ ref_seen \in 0 .. 2 /\ pall_seen \in BOOLEAN
  /\ pins.cmd \in {"NOP", "ACT", "READ", "WRITE", "REF", "PRE", "MRS"}
  /\ pins.cmd \in {"ACT", "READ", "WRITE"} => pins.ba \in Banks
  /\ pins.cmd \in {"READ", "WRITE"} => pins.ap \in BOOLEAN

BankInv(b) ==
  /\ ReadyNext(b) <= bank_wait[b]
  /\ AgeOf(b) + bank_wait[b] + 1 >= T_RC
  /\ InUse(b) => Closes(b) \/ \E c \in col : c.ba = b /\ c.ap

\* A column finds its bank open, and the one that closes it leaves the bank the
\* time to be precharged.
ColumnInv(c) ==
  /\ InUse(c.ba) /\ ~Closes(c.ba)
  /\ AgeOf(c.ba) + c.at + 1 >= T_RCD
  /\ c.ap => bank_wait[c.ba] >= c.at + Pre(c.we, AgeOf(c.ba) + c.at + 1) + T_RP

\* No two share an edge, and the one that closes a bank is the bank's last.
Ordered(C) ==
  \A c, d \in C : (c.at = d.at => c = d) /\ (c.ap /\ c.ba = d.ba => d.at <= c.at)

WarmInv ==
  /\ pall_seen /\ mrs_age >= 1 /\ pins.cmd # "PRE"
  /\ AnyAge + act_wait + 1 >= T_RRD
  /\ \A b \in Banks : BankInv(b)
  /\ Ordered(col) /\ \A c \in col : ColumnInv(c)

\* Power-up: every bank has been closed for ever; each command has been counted
\* down before the next one.
ColdInv ==
  /\ col = {} /\ act_wait = 0 /\ any_age >= T_RRD
  /\ pins.cmd \in {"NOP", "PRE", "REF", "MRS"}
  /\ \A b \in Banks : /\ bank_wait[b] = 0 /\ open[b] = Closed /\ act_age[b] = T_RC
                      /\ ReadyNext(b) <= IF init_state = "WAIT" THEN 0 ELSE CountDown(init_cnt)
  /\ init_state \in {"REF", "MRS"} => pall_seen
  /\ init_state = "PALL" /\ init_cnt > 0 => pall_seen \/ pins.cmd = "PRE"
  /\ init_state # "MRS" => mrs_age = 0 /\ pins.cmd # "MRS"
  /\ init_state = "MRS" => init_refs = 8
  /\ init_state = "MRS" /\ init_cnt > 0 => mrs_age >= 1 \/ pins.cmd = "MRS"
  /\ init_refs >= 1 => RefsNext >= 1
  /\ init_refs >= 2 => RefsNext >= 2

TimingInv ==
  /\ TimerTypeOK
  /\ CommandsLegal
  /\ IF init_done THEN WarmInv ELSE ColdInv

LEMMA Times ==
  /\ T_RCD \in Nat /\ T_RP \in Nat /\ T_WR \in Nat /\ T_RRD \in Nat /\ T_RFC \in Nat
  /\ T_RAS \in Nat /\ T_RC \in Nat /\ T_RCD >= 1 /\ T_RP >= 1 /\ T_WR >= 1 /\ T_RRD >= 1
  /\ T_RFC >= 1 /\ T_RAS >= T_RCD /\ T_RC >= T_RAS
BY TimingAssumption

LEMMA PreFacts ==
  ASSUME NEW we \in BOOLEAN, NEW since \in Nat
  PROVE  Pre(we, since) \in Nat /\ Pre(we, since) >= 1
BY Times DEF Pre, Recovery, Max2

\* An age that has stopped at tRC is as good as the real one.
LEMMA PreSaturates ==
  ASSUME NEW we \in BOOLEAN, NEW a \in 0 .. T_RC, NEW k \in Nat
  PROVE  Pre(we, Older(a, T_RC) + k) = Pre(we, a + 1 + k)
BY Times DEF Pre, Recovery, Max2, Older

\* bank_busy covers the row cycle, and the precharge after the last column.
LEMMA BusyCovers ==
  ASSUME op \in Offered \cup {NoOp}, IsAccess(op)
  PROVE  /\ BankBusy(op) \in Nat /\ BankBusy(op) >= T_RC
         /\ BankBusy(op) >= T_RCD + op.n - 1 + Pre(op.kind = "write", T_RCD + op.n - 1) + T_RP
<1>1. op.n \in 1 .. 4 /\ op.kind \in {"read", "write"}
  BY OpFields
<1>2. CASE op.kind = "write"
  BY <1>1, <1>2, Times DEF BankBusy, Pre, Recovery, Max2
<1>3. CASE op.kind = "read"
  BY <1>1, <1>3, Times DEF BankBusy, Pre, Recovery, Max2
<1> QED
  BY <1>1, <1>2, <1>3

(***************************************************************************)
(* What the chip makes of a command                                        *)
(***************************************************************************)
OpenNext(b) ==
  IF Opens(b) THEN pins.row
  ELSE IF Closes(b) \/ pins.cmd = "PRE" THEN Closed ELSE open[b]

LEMMA ChipTimes ==
  ASSUME TypeInv, TimerTypeOK, ChipClock
  PROVE  /\ \A b \in Banks : /\ open'[b] = OpenNext(b) /\ ready'[b] = ReadyNext(b)
                             /\ act_age'[b] = Older(AgeOf(b), T_RC)
         /\ any_age' = Older(AnyAge, T_RRD)
         /\ pall_seen' = (pall_seen \/ pins.cmd = "PRE") /\ ref_seen' = RefsNext
         /\ mrs_age' = IF mrs_age > 0 THEN Older(mrs_age, 2) ELSE IF pins.cmd = "MRS" THEN 1 ELSE 0
<1>0. open \in [Banks -> Rows \cup {Closed}] /\ TimerTypeOK
  BY DEF TypeInv, ChipTypeOK
<1>t. /\ \A b \in Banks : act_age'[b] = Older(AgeOf(b), T_RC)
      /\ any_age' = Older(AnyAge, T_RRD)
      /\ mrs_age' = IF mrs_age > 0 THEN Older(mrs_age, 2) ELSE IF pins.cmd = "MRS" THEN 1 ELSE 0
  <2>1. CASE pins.cmd = "ACT"
    <3>1. Age({pins.ba})
      BY <2>1 DEF ChipClock, Activate, ReadColumn, WriteColumn, AutoRefresh, PrechargeAll, NoCommand
    <3> QED
      BY <1>0, <2>1, <3>1, Times DEF Age, AgeOf, AnyAge, Opens, Older, TimerTypeOK
  <2>2. CASE pins.cmd # "ACT"
    <3>1. Age({})
      BY <2>2 DEF ChipClock, Activate, ReadColumn, WriteColumn, AutoRefresh, PrechargeAll, NoCommand
    <3> QED
      BY <1>0, <2>2, <3>1 DEF Age, AgeOf, AnyAge, Opens
  <2> QED
    BY <2>1, <2>2
<1>1. CASE Activate
  BY <1>0, <1>t, <1>1 DEF Activate, PrechargeTimers, OpenNext, ReadyNext, RefsNext, Opens, Closes, TimerTypeOK
<1>2. CASE ReadColumn
  BY <1>0, <1>t, <1>2 DEF ReadColumn, AutoPrecharge, Precharged, PrechargeTimers, OpenNext, ReadyNext,
     RefsNext, Opens, Closes, Pre, Recovery, TimerTypeOK
<1>3. CASE WriteColumn
  BY <1>0, <1>t, <1>3 DEF WriteColumn, AutoPrecharge, Precharged, PrechargeTimers, OpenNext, ReadyNext,
     RefsNext, Opens, Closes, Pre, Recovery, TimerTypeOK
<1>4. CASE AutoRefresh
  BY <1>0, <1>t, <1>4 DEF AutoRefresh, OpenNext, ReadyNext, RefsNext, Opens, Closes, TimerTypeOK
<1>5. CASE PrechargeAll
  BY <1>0, <1>t, <1>5 DEF PrechargeAll, OpenNext, ReadyNext, RefsNext, Opens, Closes, TimerTypeOK
<1>6. CASE NoCommand
  BY <1>0, <1>t, <1>6 DEF NoCommand, PrechargeTimers, OpenNext, ReadyNext, RefsNext, Opens, Closes, TimerTypeOK
<1> QED
  BY <1>1, <1>2, <1>3, <1>4, <1>5, <1>6 DEF ChipClock

LEMMA ReadyType ==
  ASSUME TimerTypeOK, NEW b \in Banks
  PROVE  ReadyNext(b) \in Nat
<1>1. ready[b] \in Nat /\ act_age[b] \in Nat
  BY Times DEF TimerTypeOK
<1>2. Pre(pins.cmd = "WRITE", act_age[b]) \in Nat /\ Pre(pins.cmd = "WRITE", act_age[b]) >= 1
  BY <1>1, PreFacts
<1> QED
  BY <1>1, <1>2, Times DEF ReadyNext, CountDown, Max2

LEMMA AgeTypes ==
  ASSUME TimerTypeOK, NEW b \in Banks
  PROVE  AgeOf(b) \in 0 .. T_RC /\ AnyAge \in Nat /\ AgeOf(b) \in Nat
BY Times DEF TimerTypeOK, AgeOf, AnyAge

LEMMA ChipTimerTypes ==
  ASSUME TypeInv, TimerTypeOK, ChipClock
  PROVE  /\ act_age' \in [Banks -> 0 .. T_RC] /\ any_age' \in Nat /\ ready' \in [Banks -> Nat]
         /\ mrs_age' \in 0 .. 2 /\ ref_seen' \in 0 .. 2 /\ pall_seen' \in BOOLEAN
<1>1. DOMAIN act_age' = Banks /\ DOMAIN ready' = Banks
      /\ act_age' = [b \in Banks |-> act_age'[b]] /\ ready' = [b \in Banks |-> ready'[b]]
  BY DEF ChipClock, Activate, ReadColumn, WriteColumn, AutoRefresh, PrechargeAll, NoCommand,
     Age, PrechargeTimers, AutoPrecharge, Precharged
<1>2. \A b \in Banks : act_age'[b] \in 0 .. T_RC
  BY ChipTimes, AgeTypes, Times DEF Older
<1>3. \A b \in Banks : ready'[b] \in Nat
  BY ChipTimes, ReadyType
<1>4. any_age' \in Nat /\ mrs_age' \in 0 .. 2 /\ ref_seen' \in 0 .. 2
  BY ChipTimes, Times DEF Older, TimerTypeOK, RefsNext, AnyAge
<1>5. pall_seen' \in BOOLEAN
  BY ChipTimes DEF TimerTypeOK
<1> QED
  BY <1>1, <1>2, <1>3, <1>4, <1>5

(***************************************************************************)
(* What the controller sends                                               *)
(***************************************************************************)
LEMMA SlotTypes ==
  ASSUME TypeInv, NEW c \in col
  PROVE  c \in ColumnSlots /\ c.at \in Nat /\ c.we \in BOOLEAN /\ c.ap \in BOOLEAN /\ c.ba \in Banks
<1>1. c \in ColumnSlots
  BY DEF TypeInv, CtrlTypeOK
<1>2. \A k \in 0 .. COLS - 1 : k \in Nat
  BY Times DEF COLS
<1> QED
  BY <1>1, <1>2 DEF ColumnSlots

\* No slot that is not due is lost.
LEMMA KeptColumn ==
  ASSUME NEW S, S \subseteq ColumnSlots, NEW x \in S, x.at > 0
  PROVE  \E s \in ShiftSlots(S) : s.at = x.at - 1 /\ s.we = x.we /\ s.ap = x.ap /\ s.ba = x.ba
<1>1. [x EXCEPT !.at = x.at - 1] \in ShiftSlots(S)
  BY DEF ShiftSlots
<1> QED
  BY <1>1 DEF ColumnSlots

LEMMA ShiftKeepsOrder ==
  ASSUME NEW C, C \subseteq ColumnSlots, Ordered(C)
  PROVE  Ordered(ShiftSlots(C))
<1> SUFFICES ASSUME NEW c \in ShiftSlots(C), NEW d \in ShiftSlots(C)
             PROVE  (c.at = d.at => c = d) /\ (c.ap /\ c.ba = d.ba => d.at <= c.at)
  BY DEF Ordered
<1>1. PICK x \in C : x.at > 0 /\ c = [x EXCEPT !.at = x.at - 1]
  BY DEF ShiftSlots
<1>2. PICK y \in C : y.at > 0 /\ d = [y EXCEPT !.at = y.at - 1]
  BY DEF ShiftSlots
<1>3. \A k \in 0 .. COLS - 1 : k \in Nat
  BY Times DEF COLS
<1>4. /\ c.at = x.at - 1 /\ c.ap = x.ap /\ c.ba = x.ba /\ x.at \in Nat
      /\ d.at = y.at - 1 /\ d.ba = y.ba /\ y.at \in Nat
  BY <1>1, <1>2, <1>3 DEF ColumnSlots
<1>5. (x.at = y.at => x = y) /\ (x.ap /\ x.ba = y.ba => y.at <= x.at)
  BY DEF Ordered
<1>6. c.at = d.at => x = y
  BY <1>4, <1>5
<1> QED
  BY <1>1, <1>2, <1>4, <1>5, <1>6

\* A due column is the one that is sent: no two share an edge.
LEMMA ColumnSent ==
  ASSUME TypeInv, WarmInv, SendColumn
  PROVE  \E c \in col : /\ c.at = 0 /\ \A d \in col : d.at = 0 => d = c
                        /\ pins'.cmd = (IF c.we THEN "WRITE" ELSE "READ")
                        /\ pins'.ba = c.ba /\ pins'.ap = c.ap
<1>1. PICK c \in col : /\ c.at = 0
                       /\ pins' = [cmd |-> IF c.we THEN "WRITE" ELSE "READ", ba |-> c.ba,
                                   col |-> c.col, ap |-> c.ap, mask |-> c.mask, d |-> c.d]
  BY DEF SendColumn, col_due
<1>2. \A d \in col : d.at = 0 => d = c
  BY <1>1 DEF WarmInv, Ordered
<1> QED
  BY <1>1, <1>2

LEMMA PinTypes ==
  ASSUME TypeInv, CtrlClock, init_done => WarmInv
  PROVE  /\ pins'.cmd \in {"NOP", "ACT", "READ", "WRITE", "REF", "PRE", "MRS"}
         /\ pins'.cmd \in {"ACT", "READ", "WRITE"} => pins'.ba \in Banks
         /\ pins'.cmd \in {"READ", "WRITE"} => pins'.ap \in BOOLEAN
<1>1. CASE PowerUp
  BY <1>1 DEF PowerUp, PowerUpWait, PowerUpCommand, InitCommand, Nop
<1>2. CASE IssueAccess
  BY <1>2, OpFields DEF IssueAccess, AccessIssue, TypeInv
<1>3. CASE IssueRefresh \/ Wait
  BY <1>3 DEF IssueRefresh, Wait, Nop
<1>4. CASE SendColumn
  <2>1. WarmInv
    BY <1>4 DEF SendColumn
  <2> QED
    BY <1>4, <2>1, ColumnSent, SlotTypes
<1> QED
  BY <1>1, <1>2, <1>3, <1>4 DEF CtrlClock

(***************************************************************************)
(* The banks                                                               *)
(***************************************************************************)

\* A bank whose wait is over may be activated, or refreshed.
LEMMA IdleBank ==
  ASSUME TypeInv, TimerTypeOK, WarmInv, ChipClock, NEW b \in Banks, bank_wait[b] = 0
  PROVE  /\ ~InUse(b) /\ \A c \in col : c.ba # b
         /\ open'[b] = Closed /\ ready'[b] = 0 /\ act_age'[b] = T_RC
<1>1. BankInv(b) /\ AgeOf(b) \in 0 .. T_RC /\ ReadyNext(b) \in Nat
  BY ReadyType, AgeTypes DEF WarmInv
<1>2. ~Closes(b)
  <2>1. SUFFICES ASSUME Closes(b) PROVE FALSE
    OBVIOUS
  <2>2. act_age[b] \in Nat
    BY Times DEF TimerTypeOK
  <2>3. ReadyNext(b) >= 1
    <3>1. ReadyNext(b) = Pre(pins.cmd = "WRITE", act_age[b]) + T_RP - 1
      BY <2>1 DEF ReadyNext, Closes
    <3>2. Pre(pins.cmd = "WRITE", act_age[b]) \in Nat /\ Pre(pins.cmd = "WRITE", act_age[b]) >= 1
      BY <2>2, PreFacts
    <3> QED
      BY <3>1, <3>2, Times
  <2> QED
    BY <1>1, <2>3 DEF BankInv
<1>3. \A c \in col : c.ba = b => ~c.ap
  <2>1. SUFFICES ASSUME NEW c \in col, c.ba = b, c.ap PROVE FALSE
    OBVIOUS
  <2>2. c.at \in Nat /\ c.we \in BOOLEAN
    BY SlotTypes
  <2>3. Pre(c.we, AgeOf(b) + c.at + 1) >= 1 /\ Pre(c.we, AgeOf(b) + c.at + 1) \in Nat
    BY <1>1, <2>2, PreFacts
  <2>4. 0 >= c.at + Pre(c.we, AgeOf(b) + c.at + 1) + T_RP
    BY <2>1 DEF WarmInv, ColumnInv
  <2> QED
    BY <2>2, <2>3, <2>4, Times
<1>4. ~InUse(b)
  BY <1>1, <1>2, <1>3 DEF BankInv
<1>5. \A c \in col : c.ba # b
  BY <1>4 DEF WarmInv, ColumnInv
<1>6. AgeOf(b) + 1 >= T_RC /\ ReadyNext(b) = 0
  BY <1>1 DEF BankInv
<1>7. open'[b] = Closed
  BY <1>2, <1>4, ChipTimes DEF OpenNext, InUse
<1> QED
  BY <1>1, <1>4, <1>5, <1>6, <1>7, ChipTimes, Times DEF Older

\* A bank that no new command concerns goes on as it was.
LEMMA BankGoesOn ==
  ASSUME TypeInv, TimerTypeOK, WarmInv, ChipClock, NEW b \in Banks,
         bank_wait'[b] = CountDown(bank_wait[b]), ~Opens(b)', ~Closes(b)',
         pins'.cmd \notin {"REF", "PRE"},
         \A c \in col : c.ba = b /\ c.ap => \E d \in col' : d.ba = b /\ d.ap
  PROVE  BankInv(b)'
<1>0. /\ BankInv(b) /\ AgeOf(b) \in 0 .. T_RC /\ ReadyNext(b) \in Nat /\ bank_wait[b] \in Nat
      /\ ready'[b] = ReadyNext(b) /\ act_age'[b] = Older(AgeOf(b), T_RC) /\ open'[b] = OpenNext(b)
  BY ReadyType, AgeTypes, ChipTimes DEF WarmInv, TypeInv, CtrlTypeOK
<1>1. (ReadyNext(b) <= bank_wait[b])'
  <2>1. ReadyNext(b)' = CountDown(ready'[b])
    BY DEF ReadyNext
  <2> QED
    BY <1>0, <2>1 DEF BankInv, CountDown
<1>2. (AgeOf(b) + bank_wait[b] + 1 >= T_RC)'
  <2>1. AgeOf(b)' = act_age'[b]
    BY DEF AgeOf
  <2> QED
    BY <1>0, <2>1, Times DEF BankInv, CountDown, Older
<1>3. (InUse(b) => Closes(b) \/ \E c \in col : c.ba = b /\ c.ap)'
  <2>1. SUFFICES ASSUME open'[b] # Closed
                 PROVE  \E c \in col' : c.ba = b /\ c.ap
    BY DEF InUse
  <2>2. InUse(b) /\ ~Closes(b)
    BY <1>0, <2>1 DEF OpenNext, InUse, Opens, Closes
  <2> QED
    BY <1>0, <2>2 DEF BankInv
<1> QED
  BY <1>1, <1>2, <1>3 DEF BankInv

\* And so does a column that is not due.
LEMMA ColumnGoesOn ==
  ASSUME TypeInv, TimerTypeOK, WarmInv, ChipClock, NEW x \in col, x.at > 0,
         bank_wait'[x.ba] = CountDown(bank_wait[x.ba]), ~Opens(x.ba)',
         NEW s, s.at = x.at - 1, s.we = x.we, s.ap = x.ap, s.ba = x.ba
  PROVE  /\ InUse(s.ba)' /\ (AgeOf(s.ba) + s.at + 1 >= T_RCD)'
         /\ (s.ap => bank_wait[s.ba] >= s.at + Pre(s.we, AgeOf(s.ba) + s.at + 1) + T_RP)'
<1> DEFINE b == x.ba
<1>0. /\ ColumnInv(x) /\ x.at \in Nat /\ x.we \in BOOLEAN /\ b \in Banks
      /\ AgeOf(b) \in 0 .. T_RC /\ bank_wait[b] \in Nat
      /\ act_age'[b] = Older(AgeOf(b), T_RC) /\ open'[b] = OpenNext(b)
  BY SlotTypes, AgeTypes, ChipTimes DEF WarmInv, TypeInv, CtrlTypeOK
<1>1. AgeOf(b)' = Older(AgeOf(b), T_RC) /\ s.at \in Nat /\ s.at + 1 = x.at
  BY <1>0 DEF AgeOf
<1>2. InUse(b)'
  <2>1. pins.cmd = "ACT" => pins.row # Closed
    BY GeometryAssumption DEF TypeInv, PinsOK
  <2>2. pins.cmd # "PRE"
    BY DEF WarmInv
  <2> QED
    BY <1>0, <2>1, <2>2 DEF ColumnInv, OpenNext, InUse, Opens
<1>3. AgeOf(b)' + s.at + 1 >= T_RCD
  BY <1>0, <1>1, Times DEF ColumnInv, Older
<1>4. ASSUME x.ap
      PROVE  bank_wait'[b] >= s.at + Pre(s.we, AgeOf(b)' + s.at + 1) + T_RP
  <2>1. Pre(x.we, AgeOf(b)' + s.at + 1) = Pre(x.we, AgeOf(b) + x.at + 1)
    <3>1. Pre(x.we, Older(AgeOf(b), T_RC) + x.at) = Pre(x.we, AgeOf(b) + 1 + x.at)
      BY <1>0, PreSaturates
    <3>2. AgeOf(b) + 1 + x.at = AgeOf(b) + x.at + 1
      BY <1>0
    <3>3. AgeOf(b)' + s.at + 1 = Older(AgeOf(b), T_RC) + x.at
      BY <1>0, <1>1, Times DEF Older
    <3> QED
      BY <3>1, <3>2, <3>3
  <2>2. Pre(x.we, AgeOf(b) + x.at + 1) \in Nat
    BY <1>0, PreFacts
  <2>3. bank_wait[b] >= x.at + Pre(x.we, AgeOf(b) + x.at + 1) + T_RP
    BY <1>0, <1>4 DEF ColumnInv
  <2>4. bank_wait'[b] = bank_wait[b] - 1
    BY <1>0, <2>2, <2>3, Times DEF CountDown
  <2> QED
    BY <1>0, <1>1, <2>1, <2>2, <2>3, <2>4, Times
<1> QED
  BY <1>1, <1>2, <1>3, <1>4

(***************************************************************************)
(* The clocks after power-up                                               *)
(***************************************************************************)

\* What the chip has seen, after any clock.
LEMMA StayWarm ==
  ASSUME TypeInv, TimerTypeOK, WarmInv, CtrlClock, ChipClock, init_done
  PROVE  /\ init_done' /\ ~PowerUp
         /\ pall_seen' /\ mrs_age' >= 1 /\ pins'.cmd \notin {"PRE", "MRS"}
         /\ act_wait = 0 => any_age' >= T_RRD
         /\ pins'.cmd # "ACT" => AnyAge' = any_age'
         /\ any_age' + CountDown(act_wait) + 1 >= T_RRD
         /\ mrs_age' = 2
<1>1. ~PowerUp
  BY DEF PowerUp, PowerUpWait, PowerUpCommand, init_done
<1>2. init_done' /\ pins'.cmd \notin {"PRE", "MRS"}
  BY <1>1 DEF CtrlClock, IssueAccess, IssueRefresh, SendColumn, Wait, Nop, init_done
<1>3. pall_seen' /\ mrs_age' = 2
  <2>1. pall_seen'
    BY ChipTimes DEF WarmInv
  <2>2. mrs_age' = 2
    BY ChipTimes DEF WarmInv, TimerTypeOK, Older
  <2> QED
    BY <2>1, <2>2
<1>4. any_age' = Older(AnyAge, T_RRD) /\ AnyAge \in Nat /\ act_wait \in Nat
      /\ AnyAge + act_wait + 1 >= T_RRD
  BY ChipTimes DEF WarmInv, TypeInv, CtrlTypeOK, AnyAge, TimerTypeOK
<1> QED
  BY <1>1, <1>2, <1>3, <1>4, Times DEF Older, CountDown, AnyAge

\* The columns still to be sent, after a clock that books none.
LEMMA ColumnsGoOn ==
  ASSUME TypeInv, TimerTypeOK, WarmInv, ChipClock, CountDownTimers, ShiftTables,
         pins'.cmd \notin {"ACT", "REF", "PRE"},
         pins'.cmd \in {"READ", "WRITE"} =>
           \E d \in col : d.at = 0 /\ pins'.ba = d.ba /\ pins'.ap = d.ap
  PROVE  \A c \in col' : ColumnInv(c)'
<1> SUFFICES ASSUME NEW s \in col'
             PROVE  ColumnInv(s)'
  OBVIOUS
<1>1. col' = ShiftSlots(col) /\ col \subseteq ColumnSlots
  BY DEF ShiftTables, TypeInv, CtrlTypeOK
<1>2. PICK x \in col : x.at > 0 /\ s = [x EXCEPT !.at = x.at - 1]
  BY <1>1 DEF ShiftSlots
<1>3. s.at = x.at - 1 /\ s.we = x.we /\ s.ap = x.ap /\ s.ba = x.ba
  BY <1>1, <1>2 DEF ColumnSlots
<1>4. x.ba \in Banks /\ x.at \in Nat
  BY SlotTypes
<1>5. bank_wait'[x.ba] = CountDown(bank_wait[x.ba]) /\ ~Opens(x.ba)'
  BY <1>4 DEF CountDownTimers, Opens
<1>6. /\ InUse(s.ba)' /\ (AgeOf(s.ba) + s.at + 1 >= T_RCD)'
      /\ (s.ap => bank_wait[s.ba] >= s.at + Pre(s.we, AgeOf(s.ba) + s.at + 1) + T_RP)'
  BY <1>2, <1>3, <1>5, ColumnGoesOn
\* The column that closes the bank is the last one of it.
<1>7. ~Closes(s.ba)'
  <2>1. \A d \in col : d.ap /\ d.ba = x.ba => x.at <= d.at
    BY DEF WarmInv, Ordered
  <2> QED
    BY <1>2, <1>3, <1>4, <2>1 DEF Closes
<1> QED
  BY <1>6, <1>7 DEF ColumnInv

LEMMA OrderShifts ==
  ASSUME TypeInv, WarmInv, ShiftTables
  PROVE  Ordered(col')
BY ShiftKeepsOrder DEF ShiftTables, WarmInv, TypeInv, CtrlTypeOK

LEMMA WaitStep ==
  ASSUME TypeInv, TimerTypeOK, WarmInv, CtrlClock, ChipClock, Wait
  PROVE  CommandsLegal' /\ WarmInv'
<1>0. init_done /\ pins' = Nop /\ ShiftTables /\ CountDownTimers /\ ~col_due
  BY DEF Wait
<1>1. pins'.cmd = "NOP"
  BY <1>0 DEF Nop
<1>2. CommandsLegal'
  BY <1>1 DEF CommandsLegal, ActiveLegal, ColumnLegal, RefreshLegal
<1>3. ASSUME NEW b \in Banks
      PROVE  BankInv(b)'
  <2>1. bank_wait'[b] = CountDown(bank_wait[b]) /\ ~Opens(b)' /\ ~Closes(b)'
    BY <1>0, <1>1 DEF CountDownTimers, Opens, Closes
  <2>2. \A c \in col : c.ba = b /\ c.ap => \E d \in col' : d.ba = b /\ d.ap
    <3> SUFFICES ASSUME NEW c \in col, c.ba = b, c.ap
                 PROVE  \E d \in col' : d.ba = b /\ d.ap
      OBVIOUS
    <3>1. c.at > 0 /\ col \subseteq ColumnSlots /\ col' = ShiftSlots(col)
      BY <1>0, SlotTypes DEF col_due, TypeInv, CtrlTypeOK, ShiftTables
    <3> QED
      BY <3>1, KeptColumn
  <2> QED
    BY <1>1, <2>1, <2>2, BankGoesOn
<1>4. Ordered(col') /\ \A c \in col' : ColumnInv(c)'
  BY <1>0, <1>1, ColumnsGoOn, OrderShifts
<1>5. (AnyAge + act_wait + 1 >= T_RRD)'
  BY <1>0, <1>1, StayWarm DEF CountDownTimers
<1> QED
  BY <1>0, <1>2, <1>3, <1>4, <1>5, StayWarm DEF WarmInv

LEMMA ColumnStep ==
  ASSUME TypeInv, TimerTypeOK, WarmInv, CtrlClock, ChipClock, SendColumn
  PROVE  CommandsLegal' /\ WarmInv'
<1>0. init_done /\ ShiftTables /\ CountDownTimers
  BY DEF SendColumn
<1>1. PICK c \in col : /\ c.at = 0 /\ \A d \in col : d.at = 0 => d = c
                       /\ pins'.cmd = (IF c.we THEN "WRITE" ELSE "READ")
                       /\ pins'.ba = c.ba /\ pins'.ap = c.ap
  BY ColumnSent
<1>2. c.ba \in Banks /\ c.we \in BOOLEAN /\ c.ap \in BOOLEAN /\ ColumnInv(c)
      /\ AgeOf(c.ba) \in 0 .. T_RC /\ bank_wait[c.ba] \in Nat
  BY SlotTypes, AgeTypes DEF WarmInv, TypeInv, CtrlTypeOK
<1>3. pins.cmd = "ACT" => pins.row # Closed
  BY GeometryAssumption DEF TypeInv, PinsOK
<1>4. open'[c.ba] # Closed /\ act_age'[c.ba] >= T_RCD
  <2>1. open'[c.ba] = OpenNext(c.ba) /\ act_age'[c.ba] = Older(AgeOf(c.ba), T_RC)
    BY <1>2, ChipTimes
  <2>2. pins.cmd # "PRE" /\ AgeOf(c.ba) + 1 >= T_RCD
    BY <1>1, <1>2 DEF WarmInv, ColumnInv
  <2> QED
    BY <1>2, <1>3, <2>1, <2>2, Times DEF ColumnInv, OpenNext, InUse, Opens, Older
<1>5. CommandsLegal'
  BY <1>1, <1>4 DEF CommandsLegal, ActiveLegal, ColumnLegal, RefreshLegal
\* The bank of a column that closes it: its precharge ends in time.
<1>6. ASSUME c.ap
      PROVE  BankInv(c.ba)'
  <2> DEFINE b == c.ba
  <2>1. Pre(c.we, AgeOf(b) + 1) \in Nat /\ Pre(c.we, AgeOf(b) + 1) >= 1
        /\ bank_wait[b] >= Pre(c.we, AgeOf(b) + 1) + T_RP
    BY <1>1, <1>2, <1>6, PreFacts, Times DEF ColumnInv
  <2>2. bank_wait'[b] = bank_wait[b] - 1
    BY <1>0, <1>2, <2>1, Times DEF CountDownTimers, CountDown
  <2>3. act_age'[b] = Older(AgeOf(b), T_RC)
    BY <1>2, ChipTimes
  <2>4. Pre(c.we, act_age'[b]) = Pre(c.we, AgeOf(b) + 1)
    <3>1. Pre(c.we, Older(AgeOf(b), T_RC) + 0) = Pre(c.we, AgeOf(b) + 1 + 0)
      BY <1>2, PreSaturates
    <3> QED
      BY <1>2, <2>3, <3>1, Times DEF Older
  <2>5. ReadyNext(b)' = Pre(c.we, act_age'[b]) + T_RP - 1
    <3>1. pins'.cmd = "WRITE" <=> c.we
      BY <1>1, <1>2
    <3>2. Closes(b)' /\ pins'.cmd \notin {"REF", "PRE"}
      BY <1>1, <1>6 DEF Closes
    <3> QED
      BY <3>1, <3>2 DEF ReadyNext, Pre, Recovery
  <2>6. AgeOf(b)' = act_age'[b]
    BY <1>1 DEF AgeOf, Opens
  <2>7. BankInv(b)
    BY <1>2 DEF WarmInv
  <2>8. Closes(b)'
    BY <1>1, <1>6 DEF Closes
  <2>9. (AgeOf(b) + bank_wait[b] + 1 >= T_RC)'
    BY <1>2, <2>1, <2>2, <2>3, <2>6, <2>7, Times DEF BankInv, Older
  <2>10. (ReadyNext(b) <= bank_wait[b])'
    BY <1>2, <2>1, <2>2, <2>4, <2>5, Times
  <2> QED
    BY <2>8, <2>9, <2>10 DEF BankInv
<1>7. ASSUME NEW b \in Banks, ~(c.ap /\ b = c.ba)
      PROVE  BankInv(b)'
  <2>1. bank_wait'[b] = CountDown(bank_wait[b]) /\ ~Opens(b)' /\ ~Closes(b)'
        /\ pins'.cmd \notin {"REF", "PRE"}
    BY <1>0, <1>1, <1>7 DEF CountDownTimers, Opens, Closes
  <2>2. \A x \in col : x.ba = b /\ x.ap => \E d \in col' : d.ba = b /\ d.ap
    <3> SUFFICES ASSUME NEW x \in col, x.ba = b, x.ap
                 PROVE  \E d \in col' : d.ba = b /\ d.ap
      OBVIOUS
    <3>1. x.at > 0 /\ col \subseteq ColumnSlots /\ col' = ShiftSlots(col)
      BY <1>0, <1>1, <1>7, SlotTypes DEF TypeInv, CtrlTypeOK, ShiftTables
    <3> QED
      BY <3>1, KeptColumn
  <2> QED
    BY <2>1, <2>2, BankGoesOn
<1>8. Ordered(col') /\ \A x \in col' : ColumnInv(x)'
  BY <1>0, <1>1, ColumnsGoOn, OrderShifts
<1>9. (AnyAge + act_wait + 1 >= T_RRD)'
  BY <1>0, <1>1, StayWarm DEF CountDownTimers
<1> QED
  BY <1>0, <1>5, <1>6, <1>7, <1>8, <1>9, StayWarm DEF WarmInv

LEMMA RefreshStep ==
  ASSUME TypeInv, TimerTypeOK, WarmInv, CtrlClock, ChipClock, IssueRefresh
  PROVE  CommandsLegal' /\ WarmInv'
<1>0. /\ init_done /\ pins'.cmd = "REF" /\ ShiftTables /\ act_wait' = CountDown(act_wait)
      /\ \A b \in Banks : bank_wait[b] = 0 /\ bank_wait'[b] = T_RFC - 1
  BY DEF IssueRefresh, RefreshIssue, CanRefresh, bank_idle
<1>1. \A b \in Banks : /\ open'[b] = Closed /\ ready'[b] = 0 /\ act_age'[b] = T_RC
                       /\ \A c \in col : c.ba # b
  BY <1>0, IdleBank
<1>2. CommandsLegal'
  BY <1>0, <1>1, StayWarm DEF CommandsLegal, ActiveLegal, ColumnLegal, RefreshLegal
<1>3. col' = {}
  <2>1. col = {}
    BY <1>1, SlotTypes
  <2> QED
    BY <1>0, <2>1 DEF ShiftTables, ShiftSlots
<1>4. ASSUME NEW b \in Banks
      PROVE  BankInv(b)'
  BY <1>0, <1>1, Times DEF BankInv, ReadyNext, AgeOf, Opens, InUse
<1>5. (AnyAge + act_wait + 1 >= T_RRD)'
  BY <1>0, StayWarm
<1> QED
  BY <1>0, <1>2, <1>3, <1>4, <1>5, StayWarm DEF WarmInv, Ordered

LEMMA AccessStep ==
  ASSUME TypeInv, TimerTypeOK, WarmInv, CtrlClock, ChipClock, IssueAccess
  PROVE  CommandsLegal' /\ WarmInv'
<1>0. /\ op \in Offered \cup {NoOp} /\ IsAccess(op) /\ op.bank \in Banks /\ op.n \in 1 .. 4
      /\ (op.kind = "write") \in BOOLEAN
  BY OpFields DEF TypeInv, IssueAccess, AccessIssue
<1>b. PICK B \in Banks : B = op.bank
  BY <1>0
<1>n. PICK last \in 0 .. 3 : last = op.n - 1
  BY <1>0
<1>k. PICK we \in BOOLEAN : we = (op.kind = "write")
  BY <1>0
<1>1. /\ init_done /\ ~col_due /\ SlotsFree /\ bank_wait[B] = 0 /\ act_wait = 0
      /\ pins'.cmd = "ACT" /\ pins'.ba = B /\ pins'.row = op.row
      /\ act_wait' = T_RRD - 1 /\ col' = ShiftSlots(col \cup NewColumns)
  BY <1>b DEF IssueAccess, AccessIssue, CanAccess, bank_idle
<1>2. /\ bank_wait'[B] = BankBusy(op) - 1
      /\ \A b \in Banks \ {B} : bank_wait'[b] = CountDown(bank_wait[b])
  BY <1>b DEF IssueAccess
<1>3. /\ open'[B] = Closed /\ ready'[B] = 0 /\ act_age'[B] = T_RC
      /\ \A c \in col : c.ba # B
  BY <1>0, <1>1, IdleBank
<1>4. CommandsLegal'
  <2>1. mrs_age' = 2 /\ any_age' >= T_RRD
    BY <1>1, StayWarm
  <2> QED
    BY <1>1, <1>3, <2>1, Times DEF CommandsLegal, ActiveLegal, ColumnLegal, RefreshLegal
<1>5. /\ BankBusy(op) \in Nat /\ BankBusy(op) >= T_RC
      /\ BankBusy(op) >= T_RCD + last + Pre(we, T_RCD + last) + T_RP
  <2>1. T_RCD + op.n - 1 = T_RCD + last
    BY <1>0, <1>n, Times
  <2> QED
    BY <1>0, <1>k, <2>1, BusyCovers
\* The columns that are booked.
<1>6. ASSUME NEW i \in Burst(op.n)
      PROVE  /\ Column(i) \in ColumnSlots /\ Column(i).at = T_RCD + i /\ Column(i).ba = B
             /\ Column(i).we = we /\ (Column(i).ap <=> i = last) /\ i \in 0 .. last
  BY <1>0, <1>b, <1>n, <1>k, BookedColumns DEF Column, Burst
<1>7. col \cup NewColumns \subseteq ColumnSlots
  BY <1>6 DEF NewColumns, TypeInv, CtrlTypeOK
<1>8. Ordered(col \cup NewColumns)
  <2> SUFFICES ASSUME NEW c \in col \cup NewColumns, NEW d \in col \cup NewColumns
               PROVE  (c.at = d.at => c = d) /\ (c.ap /\ c.ba = d.ba => d.at <= c.at)
    BY DEF Ordered
  <2>1. CASE c \in col /\ d \in col
    BY <2>1 DEF WarmInv, Ordered
  <2>2. ASSUME NEW x \in col, NEW i \in Burst(op.n)
        PROVE  x.at # Column(i).at /\ x.ba # Column(i).ba
    BY <1>1, <1>3, <1>6 DEF SlotsFree, ColumnAt
  <2>3. CASE c \in NewColumns /\ d \in NewColumns
    <3>1. PICK i, j \in Burst(op.n) : c = Column(i) /\ d = Column(j)
      BY <2>3 DEF NewColumns
    <3>2. /\ c.at = T_RCD + i /\ d.at = T_RCD + j /\ (c.ap <=> i = last)
          /\ i \in 0 .. last /\ j \in 0 .. last
      BY <1>6, <3>1
    <3>3. c.at = d.at => i = j
      BY <3>2, Times
    <3> QED
      BY <3>1, <3>2, <3>3, Times
  <2> QED
    BY <2>1, <2>2, <2>3 DEF NewColumns
<1>9. Ordered(col')
  BY <1>1, <1>7, <1>8, ShiftKeepsOrder
<1>10. AgeOf(B)' = 0 /\ Opens(B)' /\ \A b \in Banks : ~Closes(b)'
  BY <1>1 DEF AgeOf, Opens, Closes
<1>11. BankInv(B)'
  <2>1. PICK c \in ShiftSlots(col \cup NewColumns) : c.ap /\ c.ba = B
    <3>1. last \in Burst(op.n)
      BY <1>0, <1>n DEF Burst
    <3>2. /\ Column(last) \in col \cup NewColumns /\ Column(last).at > 0
          /\ Column(last).ap /\ Column(last).ba = B
      BY <1>6, <3>1, Times DEF NewColumns
    <3> QED
      BY <1>7, <3>2, KeptColumn
  <2>2. ReadyNext(B)' = 0
    BY <1>1, <1>3, <1>10 DEF ReadyNext, CountDown, Closes
  <2> QED
    BY <1>1, <1>2, <1>5, <1>10, <2>1, <2>2, Times DEF BankInv
<1>12. ASSUME NEW b \in Banks \ {B}
       PROVE  BankInv(b)'
  <2>1. \A c \in col : c.ba = b /\ c.ap => \E d \in col' : d.ba = b /\ d.ap
    <3> SUFFICES ASSUME NEW c \in col, c.ba = b, c.ap
                 PROVE  \E d \in col' : d.ba = b /\ d.ap
      OBVIOUS
    <3>1. c.at > 0 /\ c \in col \cup NewColumns
      BY <1>1, SlotTypes DEF col_due
    <3> QED
      BY <1>1, <1>7, <3>1, KeptColumn
  <2>2. ~Opens(b)' /\ ~Closes(b)' /\ pins'.cmd \notin {"REF", "PRE"}
    BY <1>1 DEF Opens, Closes
  <2> QED
    BY <1>2, <2>1, <2>2, BankGoesOn
<1>13. ASSUME NEW s \in col'
       PROVE  ColumnInv(s)'
  <2>1. PICK x \in col \cup NewColumns : x.at > 0 /\ s = [x EXCEPT !.at = x.at - 1]
    BY <1>1 DEF ShiftSlots
  <2>2. s.at = x.at - 1 /\ s.we = x.we /\ s.ap = x.ap /\ s.ba = x.ba
    BY <1>7, <2>1 DEF ColumnSlots
  <2>3. CASE x \in col
    <3>1. x.ba # B /\ x.ba \in Banks
      BY <1>3, <2>3, SlotTypes
    <3>2. bank_wait'[x.ba] = CountDown(bank_wait[x.ba]) /\ ~Opens(x.ba)'
      BY <1>1, <1>2, <3>1 DEF Opens
    <3>3. /\ InUse(s.ba)' /\ (AgeOf(s.ba) + s.at + 1 >= T_RCD)'
          /\ (s.ap => bank_wait[s.ba] >= s.at + Pre(s.we, AgeOf(s.ba) + s.at + 1) + T_RP)'
      BY <2>1, <2>2, <2>3, <3>2, ColumnGoesOn
    <3> QED
      BY <1>10, <2>2, <3>1, <3>3 DEF ColumnInv
  <2>4. CASE x \in NewColumns
    <3>1. PICK i \in Burst(op.n) : x = Column(i)
      BY <2>4 DEF NewColumns
    <3>2. /\ s.at = T_RCD + i - 1 /\ s.ba = B /\ s.we = we
          /\ (s.ap <=> i = last) /\ i \in 0 .. last
      <4>1. /\ x.at = T_RCD + i /\ x.ba = B /\ x.we = we
            /\ (x.ap <=> i = last) /\ i \in 0 .. last
        BY <1>6, <3>1
      <4> QED
        BY <2>2, <4>1, Times
    <3>3. s.ap => bank_wait'[B] >= s.at + Pre(s.we, 0 + s.at + 1) + T_RP
      <4>1. s.ap => s.at = T_RCD + last - 1 /\ 0 + s.at + 1 = T_RCD + last
        BY <3>2, Times
      <4>2. Pre(we, T_RCD + last) \in Nat
        BY PreFacts, Times
      <4> QED
        BY <1>2, <1>5, <3>2, <4>1, <4>2, Times
    <3>4. InUse(s.ba)'
      BY <1>10, <3>2 DEF InUse
    <3> QED
      BY <1>0, <1>10, <3>2, <3>3, <3>4, Times DEF ColumnInv
  <2> QED
    BY <2>3, <2>4
<1>14. (AnyAge + act_wait + 1 >= T_RRD)'
  BY <1>1, Times DEF AnyAge
<1>15. \A b \in Banks : BankInv(b)'
  BY <1>11, <1>12
<1>16. pall_seen' /\ mrs_age' >= 1 /\ pins'.cmd # "PRE"
  BY <1>1, StayWarm
<1> QED
  BY <1>4, <1>9, <1>13, <1>14, <1>15, <1>16 DEF WarmInv

(***************************************************************************)
(* Power-up                                                                *)
(***************************************************************************)
LEMMA TimingInit == ASSUME BusInit PROVE TimingInv
<1>1. /\ pins = Nop /\ init_state = "WAIT" /\ init_refs = 0 /\ col = {} /\ act_wait = 0
      /\ bank_wait = [b \in Banks |-> 0] /\ open = [b \in Banks |-> Closed]
      /\ act_age = [b \in Banks |-> T_RC] /\ any_age = T_RRD /\ ready = [b \in Banks |-> 0]
      /\ pall_seen = FALSE /\ ref_seen = 0 /\ mrs_age = 0
  BY DEF BusInit, CtrlInit, ChipInit
<1>2. TimerTypeOK
  <2>1. pall_seen \in BOOLEAN
    BY <1>1
  <2>2. pins.cmd = "NOP"
    BY <1>1 DEF Nop
  <2> QED
    BY <1>1, <2>1, <2>2, Times DEF TimerTypeOK
<1>3. CommandsLegal
  BY <1>1 DEF CommandsLegal, ActiveLegal, ColumnLegal, RefreshLegal, Nop
<1>4. \A b \in Banks : ReadyNext(b) = 0
  BY <1>1 DEF ReadyNext, CountDown, Closes, Nop
<1>5. ColdInv
  BY <1>1, <1>4, Times DEF ColdInv, Nop, RefsNext
<1> QED
  BY <1>1, <1>2, <1>3, <1>5 DEF TimingInv, init_done

\* Before power-up is over no bank is opened.
LEMMA ColdBanks ==
  ASSUME TypeInv, TimerTypeOK, ColdInv, PowerUp, ChipClock, NEW b \in Banks
  PROVE  /\ open'[b] = Closed /\ act_age'[b] = T_RC /\ bank_wait'[b] = 0
         /\ ready'[b] = ReadyNext(b) /\ ReadyNext(b) \in Nat
         /\ ~Opens(b)' /\ ~Closes(b)' /\ AgeOf(b)' = T_RC /\ ~InUse(b)'
<1>1. /\ open[b] = Closed /\ act_age[b] = T_RC /\ bank_wait[b] = 0 /\ ~Opens(b) /\ ~Closes(b)
  BY DEF ColdInv, Opens, Closes
<1>2. open'[b] = Closed /\ act_age'[b] = T_RC
  BY <1>1, ChipTimes, Times DEF OpenNext, AgeOf, Older
<1>3. bank_wait'[b] = 0
  BY <1>1 DEF PowerUp, CountDownTimers, CountDown
<1>4. ~Opens(b)' /\ ~Closes(b)'
  BY PowerUpTypes DEF Opens, Closes
<1> QED
  BY <1>2, <1>3, <1>4, ChipTimes, ReadyType DEF AgeOf, InUse

\* The counter covers the precharge and the refresh before the next command.
LEMMA ColdReady ==
  ASSUME TypeInv, TimerTypeOK, ColdInv, PowerUp, ChipClock, NEW b \in Banks
  PROVE  /\ ReadyNext(b)' <= IF init_state' = "WAIT" THEN 0 ELSE CountDown(init_cnt')
         /\ init_state' = "DONE" => ReadyNext(b)' = 0
         /\ init_state # "WAIT" /\ init_cnt = 0 => ready'[b] = 0
<1>0. /\ ready'[b] = ReadyNext(b) /\ ReadyNext(b) \in Nat /\ ~Closes(b)' /\ init_cnt \in Nat
      /\ ReadyNext(b) <= IF init_state = "WAIT" THEN 0 ELSE CountDown(init_cnt)
  BY ColdBanks DEF ColdInv, TypeInv, CtrlTypeOK
<1>1. CASE PowerUpWait
  <2>1. ready'[b] = 0 /\ pins'.cmd = "NOP"
    BY <1>0, <1>1 DEF PowerUpWait, Nop
  <2>2. ReadyNext(b)' = 0
    BY <1>0, <2>1 DEF ReadyNext, CountDown
  <2>3. init_cnt' \in Nat /\ init_state' \in {"WAIT", "PALL"}
    BY <1>0, <1>1 DEF PowerUpWait
  <2> QED
    BY <1>0, <1>1, <2>2, <2>3 DEF CountDown, PowerUpWait
<1>2. CASE PowerUpCommand /\ init_cnt = 0
  <2>1. ready'[b] = 0 /\ init_cnt' = InitDelay /\ init_state' = init_state /\ pins' = InitCommand
        /\ init_state \in {"PALL", "REF", "MRS"}
    BY <1>0, <1>2 DEF PowerUpCommand, CountDown
  <2>2. CASE init_state = "PALL"
    <3>1. pins'.cmd = "PRE" /\ init_cnt' = T_RP
      BY <2>1, <2>2 DEF InitCommand, InitDelay
    <3> QED
      BY <2>1, <2>2, <3>1, Times DEF ReadyNext, CountDown, Max2
  <2>3. CASE init_state = "REF"
    <3>1. pins'.cmd = "REF" /\ init_cnt' = T_RFC
      BY <2>1, <2>3 DEF InitCommand, InitDelay
    <3> QED
      BY <2>1, <2>3, <3>1, Times DEF ReadyNext, CountDown
  <2>4. CASE init_state = "MRS"
    <3>1. ReadyNext(b)' = 0
      BY <1>0, <2>1, <2>4 DEF InitCommand, ReadyNext, CountDown
    <3>2. init_cnt' \in Nat
      BY <2>1, <2>4, CtrlAssumption DEF InitDelay
    <3> QED
      BY <2>1, <2>4, <3>1, <3>2 DEF CountDown
  <2> QED
    BY <2>1, <2>2, <2>3, <2>4
<1>3. CASE PowerUpCommand /\ init_cnt # 0
  <2>1. init_cnt' = init_cnt - 1 /\ pins'.cmd = "NOP" /\ init_state' # "WAIT"
        /\ (init_state' = "DONE" => init_cnt = 1)
    BY <1>0, <1>3 DEF PowerUpCommand, Nop, InitNext
  <2>2. ReadyNext(b)' = CountDown(ready'[b]) /\ ready'[b] <= init_cnt - 1
    BY <1>0, <1>3, <2>1 DEF ReadyNext, CountDown, PowerUpCommand
  <2> QED
    BY <1>0, <1>3, <2>1, <2>2 DEF CountDown
<1> QED
  BY <1>1, <1>2, <1>3 DEF PowerUp

\* The power-up sequence, and the clock on which it ends.
LEMMA PowerUpStep ==
  ASSUME TypeInv, TimerTypeOK, ColdInv, CtrlClock, ChipClock, ~init_done
  PROVE  CommandsLegal' /\ (init_done' => WarmInv') /\ (~init_done' => ColdInv')
<1>1. PowerUp /\ init_cnt \in Nat /\ init_refs \in 0 .. 8
      /\ init_state \in {"WAIT", "PALL", "REF", "MRS"}
  BY DEF CtrlClock, IssueAccess, AccessIssue, IssueRefresh, RefreshIssue, SendColumn, Wait,
     TypeInv, CtrlTypeOK, init_done
<1>2. ShiftTables /\ CountDownTimers /\ col' = {} /\ act_wait' = 0
  BY <1>1 DEF PowerUp, ShiftTables, ShiftSlots, ColdInv, CountDownTimers, CountDown
<1>3. any_age' >= T_RRD /\ any_age' + 0 + 1 >= T_RRD
  <2>1. any_age' = Older(AnyAge, T_RRD) /\ AnyAge \in Nat /\ AnyAge >= T_RRD
    BY ChipTimes DEF ColdInv, AnyAge, TimerTypeOK
  <2> QED
    BY <2>1, Times DEF Older
<1>4. /\ pall_seen' <=> pall_seen \/ pins.cmd = "PRE"
      /\ ref_seen' = RefsNext /\ RefsNext \in 0 .. 2
      /\ mrs_age' = IF mrs_age > 0 THEN Older(mrs_age, 2) ELSE IF pins.cmd = "MRS" THEN 1 ELSE 0
  <2>1. pall_seen' <=> pall_seen \/ pins.cmd = "PRE"
    BY ChipTimes, Zenon
  <2> QED
    BY <2>1, ChipTimes DEF RefsNext, Older, TimerTypeOK
\* What is on the pins after this clock.
<1>5. /\ pins'.cmd \in {"NOP", "PRE", "REF", "MRS"}
      /\ pins'.cmd = "PRE" <=> init_state = "PALL" /\ init_cnt = 0
      /\ pins'.cmd = "REF" <=> init_state = "REF" /\ init_cnt = 0
      /\ pins'.cmd = "MRS" <=> init_state = "MRS" /\ init_cnt = 0
  BY <1>1 DEF PowerUp, PowerUpWait, PowerUpCommand, InitCommand, Nop
\* How far the sequence is after it.
<1>6. /\ init_state' = "WAIT" => init_state = "WAIT"
      /\ init_state' = "PALL" => (init_state = "WAIT" /\ init_cnt' = 0) \/ init_state = "PALL"
      /\ init_state' = "REF"  => init_state = "REF" \/ (init_state = "PALL" /\ init_cnt = 1)
      /\ init_state' = "MRS"  => init_state = "MRS" \/ (init_state = "REF" /\ init_cnt = 1 /\ init_refs = 8)
      /\ init_state' = "DONE" => init_state = "MRS" /\ init_cnt = 1
      /\ init_cnt' > 0 => init_cnt = 0 \/ init_cnt > 1
      /\ init_refs' = IF init_state = "REF" /\ init_cnt = 0 THEN init_refs + 1 ELSE init_refs
      /\ init_state' \in {"WAIT", "PALL", "REF", "MRS", "DONE"}
  <2>1. CASE PowerUpWait
    BY <1>1, <2>1 DEF PowerUpWait
  <2>2. CASE PowerUpCommand /\ init_cnt = 0
    BY <1>1, <2>2 DEF PowerUpCommand
  <2>3. CASE PowerUpCommand /\ init_cnt # 0
    BY <1>1, <2>3 DEF PowerUpCommand, InitNext
  <2> QED
    BY <1>1, <2>1, <2>2, <2>3 DEF PowerUp
<1>7. CommandsLegal'
  <2>1. \A b \in Banks : open'[b] = Closed /\ (init_state # "WAIT" /\ init_cnt = 0 => ready'[b] = 0)
    BY <1>1, ColdBanks, ColdReady
  <2>2. init_state = "REF" => pall_seen'
    BY <1>4 DEF ColdInv
  <2>3. init_state = "MRS" => ref_seen' >= 2
    BY <1>4 DEF ColdInv
  <2> QED
    BY <1>5, <2>1, <2>2, <2>3 DEF CommandsLegal, ActiveLegal, ColumnLegal, RefreshLegal
<1>8. ASSUME init_done'
      PROVE  WarmInv'
  <2>1. init_state = "MRS" /\ init_cnt = 1 /\ pins'.cmd = "NOP"
    BY <1>5, <1>6, <1>8 DEF init_done
  <2>2. pall_seen' /\ mrs_age' >= 1
    BY <1>4, <2>1 DEF ColdInv, Older, TimerTypeOK
  <2>3. (AnyAge + act_wait + 1 >= T_RRD)'
    <3>1. AnyAge' = any_age' /\ act_wait' = 0
      BY <1>2, <2>1 DEF AnyAge
    <3> QED
      BY <1>3, <3>1
  <2>4. \A b \in Banks : BankInv(b)'
    BY <1>1, <1>8, ColdBanks, ColdReady, Times DEF BankInv, init_done
  <2> QED
    BY <1>2, <2>1, <2>2, <2>3, <2>4 DEF WarmInv, Ordered
<1>9. ASSUME ~init_done'
      PROVE  ColdInv'
  <2>1. \A b \in Banks : /\ bank_wait'[b] = 0 /\ open'[b] = Closed /\ act_age'[b] = T_RC
                         /\ ReadyNext(b)' <= IF init_state' = "WAIT" THEN 0 ELSE CountDown(init_cnt')
    BY <1>1, ColdBanks, ColdReady
  <2>2. init_state' \in {"REF", "MRS"} => pall_seen'
    BY <1>4, <1>6 DEF ColdInv
  <2>3. init_state' = "PALL" /\ init_cnt' > 0 => pall_seen' \/ pins'.cmd = "PRE"
    BY <1>1, <1>4, <1>5, <1>6 DEF ColdInv
  <2>4. init_state' # "MRS" => mrs_age' = 0 /\ pins'.cmd # "MRS"
    <3>1. init_state' # "MRS" => init_state # "MRS"
      BY <1>1, <1>6, <1>9 DEF init_done
    <3> QED
      BY <1>4, <1>5, <3>1 DEF ColdInv
  <2>5. init_state' = "MRS" => init_refs' = 8
    BY <1>6 DEF ColdInv
  <2>6. init_state' = "MRS" /\ init_cnt' > 0 => mrs_age' >= 1 \/ pins'.cmd = "MRS"
    BY <1>1, <1>4, <1>5, <1>6 DEF ColdInv, Older, TimerTypeOK
  <2>7. (init_refs' >= 1 => RefsNext' >= 1) /\ (init_refs' >= 2 => RefsNext' >= 2)
    <3>1. CASE init_state = "REF" /\ init_cnt = 0
      <4>1. mrs_age' = 0 /\ pins'.cmd = "REF" /\ init_refs' = init_refs + 1
        BY <1>4, <1>5, <1>6, <3>1 DEF ColdInv
      <4>2. RefsNext' = Older(ref_seen', 2)
        BY <4>1 DEF RefsNext
      <4> QED
        BY <1>1, <1>4, <4>1, <4>2 DEF ColdInv, Older
    <3>2. CASE ~(init_state = "REF" /\ init_cnt = 0)
      <4>1. RefsNext' = ref_seen' /\ init_refs' = init_refs
        BY <1>5, <1>6, <3>2 DEF RefsNext
      <4> QED
        BY <1>4, <4>1 DEF ColdInv
    <3> QED
      BY <3>1, <3>2
  <2> QED
    BY <1>2, <1>3, <1>5, <2>1, <2>2, <2>3, <2>4, <2>5, <2>6, <2>7 DEF ColdInv
<1> QED
  BY <1>7, <1>8, <1>9

LEMMA TimingNext ==
  ASSUME TypeInv, TimingInv, CtrlClock, ChipClock
  PROVE  TimingInv'
<1> USE DEF TimingInv
<1>1. TimerTypeOK'
  BY ChipTimerTypes, PinTypes DEF TimerTypeOK
<1>2. CASE ~init_done
  BY <1>1, <1>2, PowerUpStep
<1>3. CASE init_done
  <2>1. IssueAccess \/ IssueRefresh \/ SendColumn \/ Wait
    BY <1>3, StayWarm DEF CtrlClock
  <2>2. CommandsLegal' /\ WarmInv'
    BY <1>3, <2>1, AccessStep, RefreshStep, ColumnStep, WaitStep
  <2> QED
    BY <1>1, <1>3, <2>2, StayWarm
<1> QED
  BY <1>2, <1>3

LEMMA TimingInvariant == BusSpec => []TimingInv
<1>1. TypeInv /\ TimingInv /\ [BusNext]_busVars => TimingInv'
  <2>1. CASE TypeInv /\ TimingInv /\ BusNext
    BY <2>1, TimingNext DEF BusNext
  <2>2. CASE TimingInv /\ UNCHANGED busVars
    BY <2>2 DEF busVars, ctrlVars, chipVars, TimingInv, TimerTypeOK, CommandsLegal, ActiveLegal,
       ColumnLegal, RefreshLegal, WarmInv, ColdInv, BankInv, ColumnInv, Ordered, InUse, Opens, Closes,
       AgeOf, AnyAge, ReadyNext, RefsNext, init_done
  <2> QED
    BY <2>1, <2>2
<1>2. BusInit => TimingInv
  BY TimingInit
<1> QED
  BY <1>1, <1>2, TypeInvariant, PTL DEF BusSpec

\* Every command reaches the chip when the chip allows it (sdram_model.sv's
\* checks of tRCD, tRAS, tRC, tRP, tRRD, tWR, tRFC and of the power-up sequence),
\* for every timing that fits the counters and any order of the operations.
THEOREM CommandsAllowed == BusSpec => []CommandsLegal
<1>1. TimingInv => CommandsLegal
  BY DEF TimingInv
<1> QED
  BY <1>1, TimingInvariant, PTL
===============================================================================
