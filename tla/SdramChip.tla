------------------------------ MODULE SdramChip ------------------------------
(***************************************************************************)
(* The SDRAM chip as rtl/mem/TESTBENCH/sdram_model.sv describes it: four   *)
(* banks with one open row each, the array, reads that put their word on   *)
(* DQ CL clocks after the command, DQM, and the timing rules.  Times are   *)
(* kept as saturating ages and countdowns, in clocks.                      *)
(*                                                                         *)
(* The chip decodes the command that was registered on the last edge, so   *)
(* one step of ChipClock reads the unprimed `pins'.                        *)
(***************************************************************************)
EXTENDS SdramWires

VARIABLES
  open,      \* the open row of each bank, or Closed   (bstate, brow)
  act_age,   \* clocks since the bank's ACTIVE          (t_act)
  any_age,   \* clocks since the last ACTIVE            (t_last_act_any)
  ready,     \* clocks until the bank is precharged     (t_ready, t_ref_busy)
  pall_seen, \* there has been a PRECHARGE ALL
  ref_seen,  \* AUTO REFRESH commands before the mode is set, at most 2 (init_refs)
  mrs_age,   \* clocks since MODE REGISTER SET, 0: never (mode_set, t_mrs)
  array,     \* the contents                            (mem)
  rpipe,     \* reads on their way to DQ                (pend, r_drive, r_out)
  dq_in_q    \* the controller's input register

chipVars == <<open, act_age, any_age, ready, pall_seen, ref_seen, mrs_age,
              array, rpipe, dq_in_q>>

Locations == Banks \X Rows \X Cols

Older(n, limit) == IF n < limit THEN n + 1 ELSE limit

ChipInit ==
  /\ open = [b \in Banks |-> Closed]
  /\ act_age = [b \in Banks |-> T_RC] /\ any_age = T_RRD
  /\ ready = [b \in Banks |-> 0]
  /\ pall_seen = FALSE /\ ref_seen = 0 /\ mrs_age = 0
  /\ \E w \in Word : array = [a \in Locations |-> w]
  /\ rpipe = {} /\ dq_in_q = Undriven

(***************************************************************************)
(* Reads travel to the pins; DQM is sampled CL - 2 clocks after the READ,  *)
(* the controller's register takes the word CL clocks after it.            *)
(***************************************************************************)
Travel(reads) ==
  { [age |-> p.age + 1, data |-> p.data,
     mask |-> IF p.age = CL - 2 THEN pins.mask ELSE p.mask] :
    p \in { r \in reads : r.age <= CL } }

OnPins(p) == [l \in Lanes |-> IF l \in p.mask THEN Z ELSE p.data[l]]

SampleDq ==
  dq_in_q' = IF \E p \in rpipe : p.age = CL
               THEN OnPins(CHOOSE p \in rpipe : p.age = CL) ELSE Undriven

ReadsTravel == rpipe' = Travel(rpipe)

\* One more clock since every event; the banks in B are activated on this one.
Age(B) ==
  /\ act_age' = [b \in Banks |-> IF b \in B THEN 1 ELSE Older(act_age[b], T_RC)]
  /\ any_age' = IF B # {} THEN 1 ELSE Older(any_age, T_RRD)
  /\ mrs_age' = IF mrs_age > 0 THEN Older(mrs_age, 2)
                 ELSE IF pins.cmd = "MRS" THEN 1 ELSE 0

PrechargeTimers == ready' = [b \in Banks |-> CountDown(ready[b])]

(***************************************************************************)
(* Command decode                                                          *)
(***************************************************************************)
Activate ==
  /\ pins.cmd = "ACT"
  /\ open' = [open EXCEPT ![pins.ba] = pins.row]
  /\ Age({pins.ba}) /\ PrechargeTimers /\ ReadsTravel
  /\ UNCHANGED <<pall_seen, ref_seen, array>>

\* Auto-precharge of the bank: one clock after a READ, tWR after a WRITE, and
\* never before tRAS (tRAS lock-out); ready tRP later.
Precharged(delay) ==
  [b \in Banks |-> IF b = pins.ba
                     THEN Max2(delay, T_RAS - act_age[b]) + T_RP - 1
                     ELSE CountDown(ready[b])]

AutoPrecharge(delay) ==
  \/ /\ pins.ap
     /\ open' = [open EXCEPT ![pins.ba] = Closed]
     /\ ready' = Precharged(delay)
  \/ ~pins.ap /\ PrechargeTimers /\ UNCHANGED open

Addressed == <<pins.ba, open[pins.ba], pins.col>>

ReadColumn ==
  /\ pins.cmd = "READ"
  /\ rpipe' = Travel(rpipe \cup
       {[age |-> 0, mask |-> {},
         data |-> IF open[pins.ba] = Closed THEN Undriven ELSE array[Addressed]]})
  /\ AutoPrecharge(1) /\ Age({})
  /\ UNCHANGED <<pall_seen, ref_seen, array>>

WriteColumn ==
  /\ pins.cmd = "WRITE"
  /\ array' = IF open[pins.ba] = Closed THEN array
              ELSE [array EXCEPT ![Addressed] = Merge(@, pins.d, Lanes \ pins.mask)]
  /\ AutoPrecharge(T_WR) /\ Age({}) /\ ReadsTravel
  /\ UNCHANGED <<pall_seen, ref_seen>>

AutoRefresh ==
  /\ pins.cmd = "REF"
  /\ ready' = [b \in Banks |-> T_RFC - 1]
  /\ ref_seen' = IF mrs_age > 0 THEN ref_seen ELSE Older(ref_seen, 2)
  /\ Age({}) /\ ReadsTravel
  /\ UNCHANGED <<open, pall_seen, array>>

PrechargeAll ==
  /\ pins.cmd = "PRE"
  /\ open' = [b \in Banks |-> Closed]
  /\ ready' = [b \in Banks |-> Max2(ready[b], T_RP) - 1]
  /\ pall_seen' = TRUE
  /\ Age({}) /\ ReadsTravel
  /\ UNCHANGED <<ref_seen, array>>

\* NOP, and MODE REGISTER SET, of which Age keeps the time.
NoCommand ==
  /\ pins.cmd \in {"NOP", "MRS"}
  /\ Age({}) /\ PrechargeTimers /\ ReadsTravel
  /\ UNCHANGED <<open, pall_seen, ref_seen, array>>

ChipClock ==
  /\ SampleDq
  /\ \/ Activate \/ ReadColumn \/ WriteColumn
     \/ AutoRefresh \/ PrechargeAll \/ NoCommand

(***************************************************************************)
(* The chip's rules, as predicates on the command it is about to decode.   *)
(* Each is a check that sdram_model.sv makes with fail().                  *)
(***************************************************************************)

\* ACTIVE only to a precharged bank, tRC after its last ACTIVE and tRRD after
\* anyone's, and only tMRD after MODE REGISTER SET.
ActiveLegal ==
  pins.cmd = "ACT" =>
    /\ mrs_age >= 2
    /\ open[pins.ba] = Closed /\ ready[pins.ba] = 0
    /\ act_age[pins.ba] >= T_RC /\ any_age >= T_RRD

\* READ and WRITE only to an open bank, tRCD after its ACTIVE.
ColumnLegal ==
  pins.cmd \in {"READ", "WRITE"} =>
    open[pins.ba] # Closed /\ act_age[pins.ba] >= T_RCD

\* AUTO REFRESH only after PRECHARGE ALL and with every bank precharged;
\* MODE REGISTER SET only after two refreshes, with every bank closed.
RefreshLegal ==
  /\ pins.cmd = "REF" =>
       pall_seen /\ \A b \in Banks : open[b] = Closed /\ ready[b] = 0
  /\ pins.cmd = "MRS" =>
       ref_seen >= 2 /\ \A b \in Banks : open[b] = Closed

\* Whatever the order of the accesses and refreshes asked for, each command reaches the
\* chip when the chip allows it.
CommandsLegal == ActiveLegal /\ ColumnLegal /\ RefreshLegal

\* The chip drives DQ from CL - 1 to CL + 1 clocks after a READ was registered;
\* the FPGA may not drive it then.
NoContention ==
  pins.cmd = "WRITE" =>
    \A p \in rpipe : p.age \notin (CL - 1) .. (CL + 1)

\* No byte of a word that a client waits for is masked by another command.
NoMaskedRead == \A p \in rpipe : p.mask = {}
===============================================================================
