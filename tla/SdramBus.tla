------------------------------- MODULE SdramBus -------------------------------
(***************************************************************************)
(* The controller and the chip on one clock, fed with every sequence of    *)
(* operations that an arbiter could hold for it: an operation stays in     *)
(* `op' until it is issued, except that a refresh may give its place up    *)
(* (`swap' in rtl/mem/sdram_arbiter.sv).                                   *)
(***************************************************************************)
EXTENDS SdramCtrl, SdramChip

CONSTANT Offered      \* the operations that the arbiter holds for the controller

ASSUME OfferedAssumption == \A o \in Offered : o = Refresh \/ IsRequest(o)

busVars == <<op, ctrlVars, chipVars>>

\* free: empty, going out on this clock, or a refresh that can be put back.
OpFree == op = NoOp \/ OpIssue \/ op = Refresh

NextOp ==
  IF init_done /\ OpFree THEN op' \in Offered \cup {NoOp} ELSE UNCHANGED op

BusInit == op = NoOp /\ CtrlInit /\ ChipInit

BusNext == CtrlClock /\ ChipClock /\ NextOp

BusSpec == BusInit /\ [][BusNext]_busVars

(***************************************************************************)
(* Types.  The depths are those of the tables: a slot is always inside.    *)
(***************************************************************************)
COLS == T_RCD + 4
MASK == T_RCD + 3 + CL + 2
RDQ  == T_RCD + 3 + RDD + 1

ColumnSlots == [at: 0 .. COLS - 1, we: BOOLEAN, ap: BOOLEAN, ba: Banks, col: Cols,
                d: [Lanes -> Byte \cup {Z}], mask: SUBSET Lanes]

MarkedEdges  == 0 .. MASK - 1
CaptureSlots == [at: 0 .. RDQ - 1, tag: Tags, last: BOOLEAN]

\* Every register holds a value of its width and every table entry lies
\* inside its table (the 4'(), 2'() and 16'() casts of sdram_ctrl.sv).
BusTypeOK ==
  /\ op \in Offered \cup {NoOp}
  /\ init_state \in {"WAIT", "PALL", "REF", "MRS", "DONE"}
  /\ init_cnt \in Nat /\ init_cnt <= 65535 /\ init_refs \in 0 .. 8
  /\ col \subseteq ColumnSlots
  /\ wr_drv \subseteq MarkedEdges /\ rd_busy \subseteq MarkedEdges
  /\ rdq \subseteq CaptureSlots
  /\ bank_wait \in [Banks -> 0 .. 15] /\ act_wait \in 0 .. 3
  /\ open \in [Banks -> Rows \cup {Closed}]
  /\ array \in [Locations -> Word]
===============================================================================
