----------------------------- MODULE SdramSystem -----------------------------
(***************************************************************************)
(* The arbiter, the controller and the chip on one clock, as PCXT.sv wires *)
(* them: the SDRAM subsystem as its clients see it.                        *)
(*                                                                         *)
(* SdramBus lets any sequence of operations into the holding register; the *)
(* arbiter's are among them, so what holds of SdramBus holds here.         *)
(***************************************************************************)
EXTENDS SdramArbiter, SdramBus

\* What the arbiter can put into the holding register.
ASSUME RequestsOffered == Offered = Requests \cup {Refresh}

\* The clients without a deadline that the CPU may find in front of it, once each
\* if they have waited for T_STARVE clocks.
LowRivals == { t \in LowClients : \E r \in Requests : r.tag = t }

\* A video read has left nothing in the tables and timers e clocks after it was sent.
VidDrainsIn(e) ==
  /\ \A r \in Requests : r.tag = "VID" => T_RCD + r.n + CL <= e /\ BankBusy(r) <= e + 1
  /\ T_RRD <= e + 1

\* The clocks that the CPU's access is from being held and nothing before it in the
\* controller's tables, at most: the access sent last, the held one, each low rival
\* and a forced refresh, and the video reads, an urgent one, those whose credits are
\* there and n whose credits come while the CPU waits.
Turn(d, e, n) ==
  d + (d + 1) * (Cardinality(LowRivals) + 2) + (e + 1) * (1 + VID_BURST + n)

\* No more than n credits come before the CPU's turn, no client becomes old twice
\* and no refresh is forced twice.
TurnsIn(d, e, n) ==
  /\ DrainsIn(d) /\ VidDrainsIn(e) /\ e <= d
  /\ Turn(d, e, n) < (n + 1) * VID_PERIOD
  /\ Turn(d, e, n) < T_STARVE
  /\ Turn(d, e, n) < T_REFI

\* In the code d is 10, e 8, T_STARVE 255 and T_REFI 894.  Turn is 97 for the EGA (two
\* reads in a character of 56 clocks, n = 3) and 250 for EGA and HGC on one port
\* (VID_BURST 6 and VID_PERIOD 15, n = 16).
ASSUME TurnAssumption ==
  \E d \in 0 .. T_REFI : \E e \in 0 .. d : \E n \in 0 .. T_REFI : TurnsIn(d, e, n)

\* The clocks from the CPU's request to its first word at most: its turn and the
\* word's way.
Longest(d, e, n) == Turn(d, e, n) + T_RCD + RDD + 1

sysVars == <<vars, chipVars>>

SysInit == Init /\ ChipInit

SysNext == Next /\ ChipClock

SysSpec == SysInit /\ [][SysNext]_sysVars

\* The arbiter feeds the controller only as SdramBus allows: it never takes an
\* access back, nor replaces an operation that is not going out, except for a
\* refresh.
ImplementsBus == BusSpec
===============================================================================
