------------------------------ MODULE SdramCtrl ------------------------------
(***************************************************************************)
(* The SDRAM controller, platform/mister/sdram_ctrl.sv.                    *)
(*                                                                         *)
(* Issuing an operation fixes the clock of every command it will need; the *)
(* commands wait in small tables indexed by "edges from now" that shift    *)
(* down by one on every clock.  A table is modelled as the set of its      *)
(* occupied slots, each with its distance `at' (or only the distance).     *)
(*                                                                         *)
(* The controller is given an operation in `op' and consumes it on the     *)
(* clock on which OpIssue holds.  Who fills `op' is said by the modules    *)
(* that build on this one.                                                 *)
(***************************************************************************)
EXTENDS SdramWires

CONSTANTS
  RDD,           \* edges from a READ to the edge its word is captured on
  INIT_CYCLES,   \* the power-up wait
  T_MRD,
  DQM_FROM_A     \* XS/XSDS boards: the chip's DQM pins hang from A[12:11]

ASSUME CtrlAssumption ==
  /\ RDD \in Nat /\ T_MRD \in Nat \ {0}
  /\ INIT_CYCLES \in Nat
  /\ DQM_FROM_A \in BOOLEAN

VARIABLES
  init_state,  \* power-up sequence: WAIT, PALL, REF, MRS, DONE
  init_cnt,
  init_refs,
  col,         \* column commands to send            (col_v, col_we, ...)
  wr_drv,      \* edges on which the FPGA drives DQ
  rd_busy,     \* edges on which no write may be sent
  rdq,         \* who owns the word captured on that edge (rdq_v, ...)
  bank_wait,   \* clocks until a bank may be activated again
  act_wait,    \* clocks until any bank may be activated
  rd           \* rd_valid, rd_tag, rd_last

ctrlVars == <<pins, init_state, init_cnt, init_refs, col, wr_drv, rd_busy,
              rdq, bank_wait, act_wait, rd>>

NoRead == [valid |-> FALSE]

init_done == init_state = "DONE"

(***************************************************************************)
(* Timing of one operation                                                 *)
(***************************************************************************)
\* Clocks from the ACTIVE to the next one of the same bank: auto-precharge
\* after the last column (or tWR after it), never before tRAS, then tRP.
BankBusy(o) ==
  LET pre == IF o.kind = "write" THEN Max2(T_RCD + o.n - 1 + T_WR, T_RAS)
                                 ELSE Max2(T_RCD + o.n, T_RAS)
  IN  Max2(pre + T_RP, T_RC)

\* The casts 4'(bank_busy(..) - 1), 4'(T_RFC - 1), 2'(T_RRD - 1) and those of
\* the power-up delays, 16'(..), lose nothing.
ASSUME WidthAssumption ==
  /\ \A o \in [kind: {"read", "write"}, n: Lengths] : BankBusy(o) <= 16
  /\ T_RFC <= 16 /\ T_RRD <= 4
  /\ INIT_CYCLES <= 65535 /\ T_RP <= 65535 /\ T_MRD <= 65535

ReadWindowShort(t) == (t + CL - 2) .. (t + CL)     \* mutant: the last edge is free

\* The edges around a read column at edge t on which a write would meet the
\* chip's data on DQ, or mask it (DQM read latency is two clocks).
ReadWindow(t) == (t + CL - 2) .. (t + CL + 1)

ColumnAtEarly(i) == T_RCD + i - 1      \* mutant: off by one

ColumnAt(i) == T_RCD + i

(***************************************************************************)
(* Can the held operation go now?                                          *)
(***************************************************************************)
col_due == \E c \in col : c.at = 0

bank_idle == { b \in Banks : bank_wait[b] = 0 }

SlotsFreeAnyRow ==      \* mutant: a high row does not wait for the reads
  \A i \in Burst(op.n) :
    /\ \A c \in col : c.at # ColumnAt(i)
    /\ op.kind = "write" => ColumnAt(i) \notin rd_busy
    /\ op.kind = "read"  => ReadWindow(ColumnAt(i)) \cap wr_drv = {}

SlotsFreeCollide ==     \* mutant: a column slot may be taken twice
  /\ op.row \in HighRows => 0 \notin rd_busy
  /\ \A i \in Burst(op.n) :
       /\ op.kind = "write" => ColumnAt(i) \notin rd_busy
       /\ op.kind = "read"  => ReadWindow(ColumnAt(i)) \cap wr_drv = {}

SlotsFree ==
  /\ op.row \in HighRows => 0 \notin rd_busy
  /\ \A i \in Burst(op.n) :
       /\ \A c \in col : c.at # ColumnAt(i)
       /\ op.kind = "write" => ColumnAt(i) \notin rd_busy
       /\ op.kind = "read"  => ReadWindow(ColumnAt(i)) \cap wr_drv = {}

CanAccess  == SlotsFree /\ op.bank \in bank_idle /\ act_wait = 0
CanRefresh == bank_idle = Banks

AccessIssue  == init_done /\ ~col_due /\ IsAccess(op) /\ CanAccess
RefreshIssue == init_done /\ ~col_due /\ op.kind = "ref" /\ CanRefresh
OpIssue      == AccessIssue \/ RefreshIssue

(***************************************************************************)
(* The schedule tables: insert, then shift by one edge.                    *)
(***************************************************************************)
ColumnEnables(i) ==     \* mutant: the enables are sent as the mask
  [at |-> ColumnAt(i), we |-> op.kind = "write", ap |-> i = op.n - 1,
   ba |-> op.bank, col |-> op.col + i,
   d |-> IF op.kind = "write" THEN op.data[i] ELSE Undriven,
   mask |-> IF op.kind = "write" THEN op.be[i] ELSE {}]

Column(i) ==
  [at |-> ColumnAt(i), we |-> op.kind = "write", ap |-> i = op.n - 1,
   ba |-> op.bank, col |-> op.col + i,
   d |-> IF op.kind = "write" THEN op.data[i] ELSE Undriven,
   mask |-> IF op.kind = "write" THEN Lanes \ op.be[i] ELSE {}]

NewColumns == { Column(i) : i \in Burst(op.n) }

ReadSlot(i) == [at |-> ColumnAt(i) + RDD, tag |-> op.tag, last |-> i = op.n - 1]

ShiftSlots(S) == { [s EXCEPT !.at = @ - 1] : s \in { x \in S : x.at > 0 } }
ShiftEdges(E) == { t - 1 : t \in E \ {0} }

ShiftTables ==
  /\ col'     = ShiftSlots(col)
  /\ wr_drv'  = ShiftEdges(wr_drv)
  /\ rd_busy' = ShiftEdges(rd_busy)
  /\ rdq'     = ShiftSlots(rdq)

\* Read capture: the input register holds the word of the slot that is due.
CaptureRead ==
  rd' = IF \E q \in rdq : q.at = 0
          THEN LET q == CHOOSE x \in rdq : x.at = 0
               IN  [valid |-> TRUE, tag |-> q.tag, last |-> q.last]
          ELSE NoRead

(***************************************************************************)
(* One clock                                                               *)
(***************************************************************************)
CtrlInit ==
  /\ init_state = "WAIT" /\ init_cnt = INIT_CYCLES /\ init_refs = 0
  /\ col = {} /\ wr_drv = {} /\ rd_busy = {} /\ rdq = {}
  /\ bank_wait = [b \in Banks |-> 0] /\ act_wait = 0
  /\ pins = Nop /\ rd = NoRead

\* ACTIVE now, the column commands and the captures are booked.
IssueAccess ==
  /\ AccessIssue
  /\ pins' = [cmd |-> "ACT", ba |-> op.bank, row |-> op.row,
              mask |-> IF DQM_FROM_A /\ op.row \in HighRows THEN Lanes ELSE {}]
  /\ col' = ShiftSlots(col \cup NewColumns)
  /\ wr_drv' = ShiftEdges(wr_drv \cup
       IF op.kind = "write" THEN { ColumnAt(i) : i \in Burst(op.n) } ELSE {})
  /\ rd_busy' = ShiftEdges(rd_busy \cup
       IF op.kind = "read" THEN UNION { ReadWindow(ColumnAt(i)) : i \in Burst(op.n) }
                           ELSE {})
  /\ rdq' = ShiftSlots(rdq \cup
       IF op.kind = "read" THEN { ReadSlot(i) : i \in Burst(op.n) } ELSE {})
  /\ bank_wait' = [b \in Banks |-> IF b = op.bank THEN BankBusy(op) - 1
                                                  ELSE CountDown(bank_wait[b])]
  /\ act_wait' = T_RRD - 1
  /\ CaptureRead
  /\ UNCHANGED <<init_state, init_cnt, init_refs>>

IssueRefresh ==
  /\ RefreshIssue
  /\ pins' = [cmd |-> "REF", mask |-> {}]
  /\ bank_wait' = [b \in Banks |-> T_RFC - 1]
  /\ act_wait' = CountDown(act_wait)
  /\ ShiftTables
  /\ CaptureRead
  /\ UNCHANGED <<init_state, init_cnt, init_refs>>

CountDownTimers ==
  /\ bank_wait' = [b \in Banks |-> CountDown(bank_wait[b])]
  /\ act_wait' = CountDown(act_wait)

\* The column command that is due owns the command bus on this clock.
SendColumn ==
  /\ init_done /\ col_due
  /\ LET c == CHOOSE x \in col : x.at = 0
     IN  pins' = [cmd |-> IF c.we THEN "WRITE" ELSE "READ", ba |-> c.ba,
                  col |-> c.col, ap |-> c.ap, mask |-> c.mask, d |-> c.d]
  /\ ShiftTables
  /\ CountDownTimers
  /\ CaptureRead
  /\ UNCHANGED <<init_state, init_cnt, init_refs>>

\* Nothing to send: no operation held, or it has to wait.
Wait ==
  /\ init_done /\ ~col_due /\ ~OpIssue
  /\ pins' = Nop
  /\ ShiftTables
  /\ CountDownTimers
  /\ CaptureRead
  /\ UNCHANGED <<init_state, init_cnt, init_refs>>

(***************************************************************************)
(* Power-up: wait, PRECHARGE ALL, eight AUTO REFRESH, MODE REGISTER SET.   *)
(* Each command is sent with the counter at 0, which then counts the time  *)
(* to the next one down to 1.                                              *)
(***************************************************************************)
\* The DQM outputs are high until the chip is ready; A[12:11] are not.
InitMask == IF DQM_FROM_A THEN {} ELSE Lanes

InitCommand == [cmd |-> CASE init_state = "PALL" -> "PRE"
                          [] init_state = "REF"  -> "REF"
                          [] init_state = "MRS"  -> "MRS",
                mask |-> InitMask]

InitDelay == CASE init_state = "PALL" -> T_RP
               [] init_state = "REF"  -> T_RFC
               [] init_state = "MRS"  -> T_MRD

InitNext == CASE init_state = "PALL" -> "REF"
              [] init_state = "REF"  -> IF init_refs = 8 THEN "MRS" ELSE "REF"
              [] init_state = "MRS"  -> "DONE"

PowerUpWait ==
  /\ init_state = "WAIT"
  /\ IF init_cnt > 0 THEN init_cnt' = init_cnt - 1 /\ UNCHANGED init_state
                     ELSE init_state' = "PALL" /\ UNCHANGED init_cnt
  /\ pins' = [Nop EXCEPT !.mask = InitMask]
  /\ UNCHANGED init_refs

PowerUpCommand ==
  /\ init_state \in {"PALL", "REF", "MRS"}
  /\ pins' = IF init_cnt = 0 THEN InitCommand ELSE [Nop EXCEPT !.mask = InitMask]
  /\ init_cnt' = IF init_cnt = 0 THEN InitDelay ELSE init_cnt - 1
  /\ init_refs' = IF init_state = "REF" /\ init_cnt = 0 THEN init_refs + 1
                                                        ELSE init_refs
  /\ init_state' = IF init_cnt = 1 THEN InitNext ELSE init_state

PowerUp ==
  /\ PowerUpWait \/ PowerUpCommand
  /\ ShiftTables
  /\ CountDownTimers
  /\ CaptureRead

CtrlClock == PowerUp \/ IssueAccess \/ IssueRefresh \/ SendColumn \/ Wait
===============================================================================
