---------------------------- MODULE MCSdramArbiter ----------------------------
(***************************************************************************)
(* Instance of SdramArbiter for TLC.  The contents of the writes do not    *)
(* matter to the arbiter.                                                  *)
(***************************************************************************)
EXTENDS SdramArbiter

CONSTANTS VidBanks, CpuReads, CpuWrites, LdrBanks, AuxBanks   \* the banks they use

TheWord == [l \in Lanes |-> CHOOSE v \in Byte : TRUE]

Read(t, b, k) == [kind |-> "read", bank |-> b, row |-> 0, col |-> 0, n |-> k, tag |-> t]

Write(t, b, k) ==
  [kind |-> "write", bank |-> b, row |-> 0, col |-> 0, n |-> k, tag |-> t,
   data |-> [i \in Burst(k) |-> TheWord], be |-> [i \in Burst(k) |-> Lanes]]

MCRequests ==
  { Read("VID", b, 1) : b \in VidBanks }
  \cup { Read("CPU", b, 1) : b \in CpuReads }
  \cup { Write("CPU", b, 1) : b \in CpuWrites }
  \cup { Write("LDR", b, 1) : b \in LdrBanks }
  \cup { Read("AUX", b, 2) : b \in AuxBanks }
===============================================================================
