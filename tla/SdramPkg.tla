------------------------------- MODULE SdramPkg -------------------------------
(***************************************************************************)
(* Shared definitions of the SDRAM subsystem: the geometry and the timing  *)
(* of the chip (rtl/mem/sdram_pkg.sv, localparams of sdram_ctrl.sv), the   *)
(* operation that the arbiter hands to the controller, and the command     *)
(* that the controller puts on the pins.                                   *)
(*                                                                         *)
(* One step of every module built on this one is one edge of clk_sdram.    *)
(***************************************************************************)
EXTENDS Integers, FiniteSets

CONSTANTS
  Banks,      \* bank numbers
  Rows,       \* row numbers
  HighRows,   \* the rows whose bits 12:11 are not 00
  Cols,       \* column numbers, an interval of the naturals from 0
  Byte,       \* the values of one byte lane
  Lengths,    \* burst lengths in words, of 1, 2, 4 (len_words)
  Closed,     \* in place of the row of a bank with no open row
  Z,          \* in place of a byte of DQ that nobody drives
  CL, T_RCD, T_RP, T_RAS, T_RC, T_WR, T_RRD, T_RFC   \* timing, in clocks

ASSUME GeometryAssumption ==
  /\ IsFiniteSet(Banks) /\ Banks # {}
  /\ HighRows \subseteq Rows
  /\ Cols \subseteq Nat
  /\ Lengths \subseteq 1 .. 4
  /\ Closed \notin Rows /\ Z \notin Byte

\* A read word may not be sampled before it exists, and the chip has no zero
\* delays; T_RAS, T_RC bound T_RCD in any chip.
ASSUME TimingAssumption ==
  /\ CL \in Nat /\ CL >= 2
  /\ T_RCD \in Nat \ {0} /\ T_RP \in Nat \ {0} /\ T_WR \in Nat \ {0}
  /\ T_RRD \in Nat \ {0} /\ T_RFC \in Nat \ {0}
  /\ T_RAS \in Nat /\ T_RAS >= T_RCD
  /\ T_RC  \in Nat /\ T_RC  >= T_RAS

CountDown(n) == IF n > 0 THEN n - 1 ELSE 0
Max2(a, b)   == IF a > b THEN a ELSE b

Tags == {"VID", "CPU", "LDR", "AUX"}   \* client tags, the arbiter's ports

Lanes    == {"lo", "hi"}               \* the two byte lanes of a 16-bit word
Word     == [Lanes -> Byte]
Undriven == [l \in Lanes |-> Z]

(***************************************************************************)
(* Operations.  Word i of a burst is data[i], with byte enables be[i].     *)
(* The fields a kind of operation does not use are left out.               *)
(***************************************************************************)
NoOp    == [kind |-> "none"]
Refresh == [kind |-> "ref"]

Burst(n) == 0 .. n - 1

Reads ==
  [kind: {"read"}, bank: Banks, row: Rows, col: Cols, n: Lengths, tag: Tags]

Writes(n) ==
  [kind: {"write"}, bank: Banks, row: Rows, col: Cols, n: {n}, tag: Tags,
   data: [Burst(n) -> Word], be: [Burst(n) -> SUBSET Lanes]]

\* A burst must not cross the end of its row (sdram_pkg.sv, "len").
InRow(o) == \A i \in Burst(o.n) : o.col + i \in Cols

IsRequest(o) == (o \in Reads \/ \E n \in Lengths : o \in Writes(n)) /\ InRow(o)

IsAccess(o) == o.kind \in {"read", "write"}

\* The new value of a word of which only the lanes in be are written.
Merge(old, new, be) == [l \in Lanes |-> IF l \in be THEN new[l] ELSE old[l]]

(***************************************************************************)
(* Commands on the pins.  mask is the set of byte lanes that DQM masks, as *)
(* the chip's own DQM pins see it.                                         *)
(***************************************************************************)
Nop == [cmd |-> "NOP", mask |-> {}]
===============================================================================
