---------------------------- MODULE MCSdramSystem ----------------------------
(***************************************************************************)
(* Instance of SdramSystem for TLC: the video port reads bank 1, the CPU   *)
(* reads bank 0.                                                           *)
(***************************************************************************)
EXTENDS SdramSystem

Read(t, b) == [kind |-> "read", bank |-> b, row |-> 0, col |-> 0, n |-> 1, tag |-> t]

MCRequests == { Read("VID", 1), Read("CPU", 0) }

MCOffered == MCRequests \cup {Refresh}
===============================================================================
