--------------------------- MODULE MCSdramBusMemory ---------------------------
(***************************************************************************)
(* Instance of SdramBusMemory for TLC.  Two banks, of two words each; the  *)
(* first is the CPU's and is written with both values, in whole and in     *)
(* part; the other is read by VID and written by the loader.               *)
(***************************************************************************)
EXTENDS SdramBusMemory

CONSTANTS x, y

MCWord(v) == [l \in Lanes |-> v]

Read(t, b, r, k) ==
  [kind |-> "read", bank |-> b, row |-> r, col |-> 0, n |-> k, tag |-> t]

Write(t, b, r, k, v, be) ==
  [kind |-> "write", bank |-> b, row |-> r, col |-> 0, n |-> k, tag |-> t,
   data |-> [i \in Burst(k) |-> MCWord(v)], be |-> be]

Whole(k)   == [i \in Burst(k) |-> Lanes]
LowFirst   == [i \in Burst(2) |-> IF i = 0 THEN {"lo"} ELSE Lanes]

MCOps ==
  {Refresh}
  \cup { Read("CPU", 0, r, 1) : r \in Rows } \cup { Read("CPU", 0, 0, 2), Read("VID", 1, 0, 4) }
  \cup { Write("CPU", 0, r, 1, y, Whole(1)) : r \in Rows }
  \cup { Write("CPU", 0, 0, 1, x, Whole(1)), Write("CPU", 0, 0, 2, y, LowFirst),
         Write("LDR", 1, 0, 2, y, Whole(2)) }
===============================================================================
