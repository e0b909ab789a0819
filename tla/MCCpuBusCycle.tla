---------------------------- MODULE MCCpuBusCycle ----------------------------
(***************************************************************************)
(* Instances of CpuBusCycle for TLC.                                       *)
(***************************************************************************)
EXTENDS CpuBusCycle
===============================================================================
