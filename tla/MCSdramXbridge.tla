---------------------------- MODULE MCSdramXbridge ----------------------------
(***************************************************************************)
(* Instance of the bridge under its two masters for TLC: a write and a     *)
(* read of one word by the CPU memory port (up to 7.16 MHz), of two words  *)
(* by the EGA front end.                                                   *)
(***************************************************************************)
EXTENDS SdramTxnMux

MCPortTxns == [we: BOOLEAN, n: {1}, at: {"ram"}]
MCEgaTxns  == [we: BOOLEAN, n: {2}, at: {"plane"}]

MCTxns == MCPortTxns \cup MCEgaTxns

MCZeroTxn == [we |-> FALSE, n |-> 1, at |-> "ram"]
===============================================================================
