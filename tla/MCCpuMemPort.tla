----------------------------- MODULE MCCpuMemPort -----------------------------
(***************************************************************************)
(* Instances of CpuMemPort for TLC.                                        *)
(***************************************************************************)
EXTENDS CpuMemPort

\* A word of RAM and one of CGA memory that is also a third one, of HGC memory.
VideoPlaces ==
  { [w |-> 0, protect |-> FALSE, video |-> "none", two |-> FALSE, w2 |-> 1],
    [w |-> 1, protect |-> FALSE, video |-> "cga",  two |-> TRUE,  w2 |-> 2] }

\* The first word of a row is ROM and the second RAM; reads at either fetch the
\* second, and the rest of the row.
RomPlaces ==
  { [w |-> 0, protect |-> TRUE,  video |-> "none", two |-> FALSE, w2 |-> 1],
    [w |-> 1, protect |-> FALSE, video |-> "none", two |-> FALSE, w2 |-> 0] }
===============================================================================
