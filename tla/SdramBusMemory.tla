---------------------------- MODULE SdramBusMemory ----------------------------
(***************************************************************************)
(* The controller and the chip implement SerialMemory: however the column  *)
(* commands of different banks, refreshes and read words overlap, a client *)
(* sees the operations performed one after the other, each at the moment   *)
(* it entered the holding register.                                        *)
(*                                                                         *)
(* mem and due are history variables: they record the operations as they   *)
(* are captured and never influence a step of SdramBus.                    *)
(***************************************************************************)
EXTENDS SdramBus, Sequences

\* RD_DELAY is 0 wherever sdram_ctrl.sv is instantiated: a word is captured CL
\* clocks after the chip has registered its READ.
ASSUME ReadDelayAssumption == RDD = CL + 1

VARIABLES
  mem,    \* what the operations captured so far have written
  due     \* the words promised to the reads captured so far, not returned yet

\* The word that the controller returns on this clock (rd_valid, rd_data, ...).
Returned ==
  IF rd.valid THEN [valid |-> TRUE, tag |-> rd.tag, last |-> rd.last, data |-> dq_in_q]
              ELSE [valid |-> FALSE]

Memory == INSTANCE SerialMemory WITH out <- Returned

MemInit == BusInit /\ mem = array /\ due = <<>>

\* The operation that enters the holding register on this clock.
Captured == IF OpFree /\ IsAccess(op') THEN op' ELSE NoOp

Record ==
  /\ mem' = Memory!Written(Captured, mem)
  /\ due' = (IF rd'.valid /\ due # <<>> THEN Tail(due) ELSE due)
            \o Memory!ReadWords(Captured, mem)

MemNext == BusNext /\ Record

MemSpec == MemInit /\ [][MemNext]_<<busVars, mem, due>>

\* The words that come back, their order, tags and last flags are those of
\* operations performed one at a time when they are captured (sdram_pkg.sv:
\* "nothing issued later, by any client, can overtake it").
ImplementsSerialMemory == Memory!Spec

Quiet == col = {} /\ ~IsAccess(op) /\ pins.cmd \notin {"READ", "WRITE"}

\* Nothing promised is lost: as many captures are booked as words are due, and
\* with no command on its way every write is in the array, and nowhere else.
NothingLost ==
  /\ Len(due) = Cardinality(rdq) + (IF op.kind = "read" THEN op.n ELSE 0)
  /\ Quiet => array = mem
===============================================================================
