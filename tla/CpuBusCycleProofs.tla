-------------------------- MODULE CpuBusCycleProofs --------------------------
(***************************************************************************)
(* A bus cycle of the CPU keeps its promises at every speed, for any       *)
(* answer times of memory and I/O, any downloads and pauses.               *)
(*                                                                         *)
(* None of the properties is inductive: what a command, HOLD or READY does *)
(* on an edge of the CPU clock depends on the bus state and on whether the *)
(* clock is high or low, and the BIU, the 8288, the arbiter and the port   *)
(* each see that edge at their own moment.  clk_d2 is the level the BIU    *)
(* has seen last; the invariant says, for each bus state and each level,   *)
(* what the other parts hold (CycleInv), where a grant of the bus may come *)
(* (HoldInv), and what the port has answered or made wait (ReadyInv,       *)
(* PortInv).  After a reset the arbiter takes two rising edges to sort     *)
(* itself out; BootInv counts them.                                        *)
(***************************************************************************)
EXTENDS CpuBusCycle, TLAPS

\* The bus states with the status lines driven, those after the answer, those between cycles.
Active == {"02", "03", "04", "05"}
Ending == {"07", "08", "09", "0A"}
Rest   == {"D0", "00", "01", "0B", "0C", "50"}
Status == Kinds \cup {"passive"}
Memory == {"fetch", "read", "write"}

TypeInv ==
  /\ half \in BOOLEAN
  /\ speed \in 0 .. 3 /\ cpu_phase_acc \in 0 .. edge_den(speed) - 1
  /\ cpu_clk_pin \in BOOLEAN /\ cpu_ce_posedge \in BOOLEAN /\ cpu_ce_negedge \in BOOLEAN
  /\ biu_state \in Rest \cup Active \cup {"06"} \cup Ending
  /\ start \in 0 .. START /\ clk_d1 \in BOOLEAN /\ clk_d2 \in BOOLEAN
  /\ s_bits \in Kinds \cup {"jump"}
  /\ word_cycle \in BOOLEAN /\ byte_num \in BOOLEAN /\ place \in Places
  /\ S2_S0_OUT \in Status /\ strobed \in Status /\ ad_in_int \in BOOLEAN
  /\ machine_cycle_period \in BOOLEAN /\ machine_cycle \in BOOLEAN
  /\ hold_request \in BOOLEAN /\ armed \in BOOLEAN
  /\ hold_request_ff_1 \in BOOLEAN /\ hold_request_ff_2 \in BOOLEAN
  /\ address_enable_n \in BOOLEAN /\ dma_wait \in BOOLEAN
  /\ prev_bus_state \in BOOLEAN /\ ready_n_or_wait \in BOOLEAN
  /\ prev_ready_n_or_wait \in BOOLEAN
  /\ processor_ready_ff_1 \in BOOLEAN /\ processor_ready_ff_2 \in BOOLEAN
  /\ pos_seen \in BOOLEAN /\ dip_ok \in BOOLEAN /\ read_wait_count \in 0 .. 1
  /\ answered \in BOOLEAN /\ cause \in BOOLEAN

\* The two clock enables say in which direction the clock moved, and the BIU sees
\* it move one chipset clock later; below Max an edge is not followed by another at once.
ClockInv ==
  /\ cpu_ce_posedge => cpu_clk_pin
  /\ cpu_ce_negedge => ~cpu_clk_pin
  /\ half => clk_d1 = cpu_clk_pin
  /\ ~half => clk_d1 = clk_d2
  /\ clk_d2 = (IF cpu_ce_posedge \/ cpu_ce_negedge THEN ~cpu_clk_pin ELSE cpu_clk_pin)
  /\ speed # 3 /\ (cpu_ce_posedge \/ cpu_ce_negedge) => ~cpu_edge

\* The status lines, the 8288's strobe and its command in each bus state.
CycleInv ==
  /\ s2_s0_out_int = IF biu_state \in Active THEN s_bits ELSE "passive"
  /\ biu_state \in {"01", "50"} \cup Active \cup {"06"} \cup Ending => s_bits \in Kinds
  /\ biu_state \in Rest => S2_S0_OUT = "passive" /\ strobed = "passive" /\ ~machine_cycle
  /\ biu_state = "02" => /\ clk_d2 /\ machine_cycle_period /\ ~machine_cycle
                         /\ strobed = "passive" /\ S2_S0_OUT \in {"passive", s_bits}
                         /\ half => S2_S0_OUT = s_bits
  /\ biu_state = "03" => /\ S2_S0_OUT = s_bits /\ strobed = s_bits /\ ~machine_cycle
                         /\ machine_cycle_period <=> ~clk_d2
  /\ biu_state \in {"04", "05"} => /\ S2_S0_OUT = s_bits /\ strobed = s_bits
                                   /\ machine_cycle /\ ~machine_cycle_period
  /\ biu_state = "05" => ~half /\ ~clk_d2
  /\ biu_state = "06" => /\ strobed = s_bits /\ machine_cycle /\ ~machine_cycle_period
                         /\ \/ S2_S0_OUT = "passive"
                            \/ S2_S0_OUT = s_bits /\ half /\ ~clk_d2
                         /\ ~shift_read_timing => ~clk_d2
  /\ biu_state \in Ending =>
       /\ S2_S0_OUT = "passive"
       /\ machine_cycle => strobed = s_bits /\ clk_d2 /\ ~shift_read_timing
       /\ ~machine_cycle => strobed = "passive"

\* Before the first rising edge after reset.
early == biu_state = "D0" /\ START - start <= 13

\* Where the BIU may be when the arbiter is about to take the bus.
GrantSafe ==
  \/ s_bits = "halt"
  \/ biu_state \in Rest
  \/ /\ clk_d2
     /\ \/ biu_state = "02"
        \/ biu_state \in {"06"} \cup Ending /\ S2_S0_OUT = "passive"
  \/ ~clk_d2 /\ (biu_state = "03" \/ biu_state \in Ending)

\* The falling-edge copy of HOLD follows the other; AEN tells them apart.
HoldInv ==
  /\ hold_request_ff_1 /\ hold_request /\ ~clk_d2 => hold_request_ff_2
  /\ address_enable_n /\ hold_request => hold_request_ff_2 \/ early
  /\ address_enable_n /\ ~hold_request => dma_wait \/ early
  /\ hold_acknowledge /\ ~address_enable_n => GrantSafe

\* Before the second rising edge after reset is used: the CPU clock counts from
\* reset, so each clock of this time has one known state.
booting == biu_state = "D0" /\ START - start <= 33

Boot(n) ==
  /\ START - start = 2 * n + (IF half THEN 1 ELSE 0)
  /\ speed = 0
  /\ cpu_phase_acc = 21 * n - (IF n <= 5 THEN 0 ELSE IF n <= 10 THEN 110 ELSE IF n <= 15 THEN 220 ELSE 330)
  /\ cpu_clk_pin = (n \in 6 .. 10 \/ n = 16)
  /\ cpu_ce_posedge = (n = 6 \/ n = 16)
  /\ cpu_ce_negedge = (n = 11)
  /\ n <= 6 => address_enable_n /\ ~dma_wait /\ ~hold_request_ff_1 /\ ~hold_request_ff_2
  /\ n > 6 => ~address_enable_n /\ dma_wait

BootInv == booting => \E n \in 0 .. 16 : Boot(n)

\* A loader that writes holds the bus, or is about to between two cycles, or the
\* CPU has not started.
LoaderInv ==
  armed => /\ hold_request
           /\ \/ booting
              \/ address_enable_n /\ hold_request_ff_2
              \/ ~address_enable_n /\ hold_acknowledge /\ biu_state \in Rest

\* READY is not low from the cycle before when a cycle starts to look at it.
ReadyInv ==
  /\ biu_state = "02" => (ready_n_or_wait => prev_ready_n_or_wait)
  /\ biu_state = "03" => ~ready_n_or_wait /\ (clk_d2 /\ ~cause => processor_ready_ff_1)
  /\ biu_state = "04" /\ ~cause => processor_ready_ff_1 /\ ~ready_n_or_wait
  /\ biu_state = "05" /\ ~cause => processor_ready_ff_1 /\ ~ready_n_or_wait /\ processor_ready_ff_2

\* A cycle of memory; an access that could still dip READY.
memK == s_bits \in Memory
dipped == dip_ok \/ (strict /\ pos_seen)

\* At the end of its wait a memory cycle is answered: the port saw a rising edge (pos_seen)
\* and then dipped READY or had answered; the EGA's front end holds READY low from the first
\* clock of the strobe.
PortInv ==
  /\ biu_state \in {"04", "05"} /\ dipped /\ ~ready_n_or_wait => answered
  /\ biu_state = "04" /\ memK /\ clk_d2 /\ ~dma_wait =>
       /\ ~address_enable_n
       /\ IF place = "ega" THEN ready_n_or_wait \/ answered ELSE pos_seen
  /\ biu_state = "04" /\ memK /\ cpu_ce_negedge /\ ~dma_wait =>
       ~address_enable_n /\ (dipped \/ place = "ega")
  /\ biu_state = "05" /\ processor_ready_ff_2 /\ memK => ~address_enable_n /\ answered
  /\ biu_state = "06" /\ memK => ~address_enable_n /\ answered /\ (s_bits \in {"fetch", "read"} => ad_in_int)
  /\ biu_state \in Ending /\ machine_cycle /\ memK => ~address_enable_n /\ answered

IInv == TypeInv /\ ClockInv /\ CycleInv /\ HoldInv /\ BootInv /\ LoaderInv /\ ReadyInv /\ PortInv

(***************************************************************************)
(* The edges of the CPU clock                                              *)
(***************************************************************************)

\* The BIU sees an edge of the CPU clock exactly on the chipset clocks that carry
\* its clock enable.
LEMMA EdgesSeen ==
  ASSUME TypeInv, ClockInv
  PROVE  /\ ~half => ~clk_posedge /\ ~clk_negedge
         /\ half => (clk_posedge <=> cpu_ce_posedge) /\ (clk_negedge <=> cpu_ce_negedge)
         /\ cpu_ce_posedge => ~clk_d2 /\ cpu_clk_pin /\ ~cpu_ce_negedge
         /\ cpu_ce_negedge => clk_d2 /\ ~cpu_clk_pin
         /\ ~cpu_ce_posedge /\ ~cpu_ce_negedge => (clk_d2 <=> cpu_clk_pin)
BY DEF TypeInv, ClockInv, clk_posedge, clk_negedge

\* Where the bus states come from, with the edges they wait for.
Moves ==
  /\ biu_state' \in Rest \cup Active \cup {"06"} \cup Ending
  /\ biu_state' = "02" => \/ biu_state = "02" /\ ~clk_negedge
                          \/ biu_state = "01" /\ clk_posedge
  /\ biu_state' = "03" => \/ biu_state = "03" /\ ~clk_negedge
                          \/ biu_state = "02" /\ clk_negedge
  /\ biu_state' = "04" => \/ biu_state = "04" /\ ~clk_negedge
                          \/ biu_state = "03" /\ clk_negedge
                          \/ biu_state = "05"
  /\ biu_state' = "05" => biu_state = "04" /\ clk_negedge
  /\ biu_state' = "06" => \/ biu_state = "06" /\ ~sample_edge
                          \/ biu_state = "05" /\ processor_ready_ff_2
  /\ biu_state' \in Ending =>
       \/ biu_state = "06" /\ sample_edge
       \/ biu_state = "0A" /\ ~shift_read_timing /\ ~clk_negedge
       \/ biu_state \in Ending \ {"0A"}
  /\ biu_state' \in Rest => \/ biu_state \in Rest
                            \/ biu_state = "0A" /\ (shift_read_timing \/ clk_negedge)
  /\ biu_state' = "D0" => biu_state = "D0"
  /\ biu_state = "D0" => biu_state' = IF start = 0 THEN "00" ELSE "D0"
  /\ biu_state = "01" /\ ~clk_posedge => biu_state' = "01"
  /\ s_bits' = s_bits \/ biu_state' \in Rest
  /\ place' = place \/ biu_state' \in Rest
  /\ s_bits' \in Kinds \cup {"jump"}
  /\ biu_state' \in {"01", "50"} \cup Active \cup {"06"} \cup Ending => s_bits' \in Kinds
  /\ start' = IF biu_state = "D0" /\ start > 0 THEN start - 1 ELSE start
  /\ s2_s0_out_int' = IF biu_state' \in Active THEN s_bits' ELSE "passive"
  /\ S2_S0_OUT' = IF biu_state \in Active THEN s_bits ELSE "passive"
  /\ clk_d1' = cpu_clk_pin /\ clk_d2' = clk_d1
  /\ word_cycle' \in BOOLEAN /\ byte_num' \in BOOLEAN /\ place' \in Places

LEMMA BusMoves ==
  ASSUME TypeInv, CycleInv, NEW pause, BusStates(pause)
  PROVE  Moves
<1> USE DEF Rest, Active, Ending
<1>1. CASE biu_state \in {"D0", "0B", "0C", "50"}
  BY <1>1 DEF TypeInv, CycleInv, Moves, BusStates, Go, Await, Kinds
<1>2. CASE biu_state = "00"
  BY <1>2 DEF TypeInv, CycleInv, Moves, BusStates, Go, Await, Dispatch, Kinds, Places
<1>3. CASE biu_state \in {"01", "02", "03", "04"}
  BY <1>3 DEF TypeInv, CycleInv, Moves, BusStates, Go, Await
<1>4. CASE biu_state = "05"
  BY <1>4 DEF TypeInv, CycleInv, Moves, BusStates, Go, Await
<1>5. CASE biu_state = "06"
  BY <1>5 DEF TypeInv, CycleInv, Moves, BusStates, Go, Await
<1>6. CASE biu_state \in {"07", "08", "09"}
  BY <1>6 DEF TypeInv, CycleInv, Moves, BusStates, Go, Await
<1>7. CASE biu_state = "0A"
  BY <1>7 DEF TypeInv, CycleInv, Moves, BusStates, Go, Await
<1> QED
  BY <1>1, <1>2, <1>3, <1>4, <1>5, <1>6, <1>7 DEF TypeInv

(***************************************************************************)
(* The clock                                                               *)
(***************************************************************************)

LEMMA RatioBelowOne ==
  ASSUME NEW s \in 0 .. 3
  PROVE  /\ edge_num(s) \in Nat /\ edge_den(s) \in Nat
         /\ 1 <= edge_num(s) /\ edge_num(s) <= edge_den(s)
         /\ s # 3 => 2 * edge_num(s) - 1 < edge_den(s)
BY DEF edge_num, edge_den

LEMMA ClockMoves ==
  ASSUME TypeInv, ClockInv, half, NEW next \in 0 .. 3, CpuClock(next)
  PROVE  /\ speed' \in 0 .. 3 /\ cpu_phase_acc' \in 0 .. edge_den(speed') - 1
         /\ cpu_clk_pin' \in BOOLEAN /\ cpu_ce_posedge' \in BOOLEAN /\ cpu_ce_negedge' \in BOOLEAN
         /\ cpu_ce_posedge' => cpu_clk_pin' /\ ~cpu_clk_pin
         /\ cpu_ce_negedge' => ~cpu_clk_pin' /\ cpu_clk_pin /\ cpu_ce_negedge_next(next)
         /\ ~cpu_ce_posedge' /\ ~cpu_ce_negedge' => cpu_clk_pin' = cpu_clk_pin
         /\ cpu_ce_posedge' \/ cpu_ce_negedge' => cpu_edge
         /\ speed' # 3 /\ (cpu_ce_posedge' \/ cpu_ce_negedge') => ~cpu_edge'
         /\ biu_state # "0B" => speed' = speed
<1> DEFINE change == biu_done /\ next # speed
           edge   == ~change /\ cpu_edge
<1>1. speed \in 0 .. 3 /\ cpu_phase_acc \in 0 .. edge_den(speed) - 1 /\ cpu_clk_pin \in BOOLEAN
  BY DEF TypeInv
<1>2. /\ speed' = IF change THEN next ELSE speed
      /\ cpu_phase_acc' = IF change THEN 0
                          ELSE cpu_phase_acc + edge_num(speed) - (IF edge THEN edge_den(speed) ELSE 0)
      /\ cpu_clk_pin' = IF edge THEN ~cpu_clk_pin ELSE cpu_clk_pin
      /\ cpu_ce_posedge' <=> edge /\ ~cpu_clk_pin
      /\ cpu_ce_negedge' <=> edge /\ cpu_clk_pin
      /\ cpu_ce_posedge' \in BOOLEAN /\ cpu_ce_negedge' \in BOOLEAN
  BY DEF CpuClock
<1>3. CASE change
  <2>1. speed' \in 0 .. 3 /\ cpu_phase_acc' = 0 /\ cpu_clk_pin' = cpu_clk_pin
        /\ ~cpu_ce_posedge' /\ ~cpu_ce_negedge' /\ biu_state = "0B"
    BY <1>2, <1>3 DEF biu_done
  <2>2. cpu_phase_acc' \in 0 .. edge_den(speed') - 1
    BY <2>1, RatioBelowOne
  <2> QED
    BY <1>1, <1>2, <2>1, <2>2
<1>4. CASE ~change
  <2>1. speed' = speed
    BY <1>2, <1>4
  <2>2. edge <=> cpu_phase_acc + edge_num(speed) >= edge_den(speed)
    BY <1>4 DEF cpu_edge
  <2>3. cpu_phase_acc' = cpu_phase_acc + edge_num(speed) - (IF edge THEN edge_den(speed) ELSE 0)
    BY <1>2, <1>4
  <2>4. \A a, n, d \in Nat : 1 <= n /\ n <= d /\ a <= d - 1 =>
          /\ a + n >= d => a + n - d \in 0 .. d - 1 /\ (2 * n - 1 < d => a + n - d + n < d)
          /\ ~(a + n >= d) => a + n - 0 \in 0 .. d - 1
    OBVIOUS
  <2>5. cpu_phase_acc \in Nat /\ cpu_phase_acc <= edge_den(speed) - 1
    BY <1>1, RatioBelowOne
  <2>6. cpu_phase_acc' \in 0 .. edge_den(speed) - 1
    BY <1>1, <2>2, <2>3, <2>4, <2>5, RatioBelowOne
  <2>7. speed # 3 /\ edge => ~(cpu_phase_acc' + edge_num(speed) >= edge_den(speed))
    <3>1. ASSUME speed # 3, edge PROVE cpu_phase_acc + edge_num(speed) - edge_den(speed) + edge_num(speed) < edge_den(speed)
      BY <1>1, <2>2, <2>4, <2>5, <3>1, RatioBelowOne
    <3>2. ASSUME edge PROVE cpu_phase_acc' = cpu_phase_acc + edge_num(speed) - edge_den(speed)
      BY <2>3, <3>2
    <3> QED
      BY <1>1, <2>5, <3>1, <3>2, RatioBelowOne
  <2>8. cpu_edge' <=> cpu_phase_acc' + edge_num(speed) >= edge_den(speed)
    BY <2>1 DEF cpu_edge
  <2>9. edge => cpu_edge /\ ~(biu_done /\ next # speed)
    BY <1>4
  <2> HIDE DEF edge
  <2> QED
    BY <1>1, <1>2, <2>1, <2>6, <2>7, <2>8, <2>9 DEF cpu_ce_negedge_next
<1> QED
  BY <1>3, <1>4

LEMMA ClockChipset ==
  ASSUME TypeInv, ClockInv, half, half' = ~half, Moves, NEW next \in 0 .. 3, CpuClock(next)
  PROVE  ClockInv'
<1>1. clk_d1 = cpu_clk_pin /\ clk_d1' = cpu_clk_pin /\ clk_d2' = clk_d1 /\ ~half'
  BY DEF ClockInv, Moves
<1>2. cpu_clk_pin \in BOOLEAN
  BY DEF TypeInv
<1> QED
  BY <1>1, <1>2, ClockMoves DEF ClockInv

LEMMA ClockCore ==
  ASSUME TypeInv, ClockInv, ~half, half' = ~half, Moves, UNCHANGED clock
  PROVE  ClockInv'
<1>1. clk_d1 = clk_d2 /\ clk_d1' = cpu_clk_pin /\ clk_d2' = clk_d1 /\ half'
  BY DEF ClockInv, Moves
<1>2. cpu_edge' = cpu_edge
  BY DEF cpu_edge, clock
<1> QED
  BY <1>1, <1>2 DEF ClockInv, clock

(***************************************************************************)
(* The bus cycle                                                           *)
(***************************************************************************)

LEMMA CycleCore ==
  ASSUME TypeInv, ClockInv, CycleInv, ~half, half' = ~half, Moves, UNCHANGED <<clock, bc>>
  PROVE  CycleInv'
<1>1. ~clk_posedge /\ ~clk_negedge /\ clk_d2' = clk_d2 /\ half'
  BY EdgesSeen DEF ClockInv, Moves
<1>2. shift_read_timing' = shift_read_timing /\ (~shift_read_timing => ~sample_edge)
      /\ (shift_read_timing => ~sample_edge)
  BY <1>1 DEF shift_read_timing, sample_edge, clock
<1> QED
  BY <1>1, <1>2 DEF CycleInv, Moves, Rest, Active, Ending, bc, Kinds

LEMMA CycleChipset ==
  ASSUME TypeInv, ClockInv, CycleInv, half, half' = ~half, Moves, BusController,
         NEW next \in 0 .. 3, CpuClock(next)
  PROVE  CycleInv'
<1>1. /\ clk_posedge <=> cpu_ce_posedge
      /\ clk_negedge <=> cpu_ce_negedge
      /\ cpu_ce_posedge => ~clk_d2 /\ clk_d2' /\ ~cpu_ce_negedge
      /\ cpu_ce_negedge => clk_d2 /\ ~clk_d2'
      /\ ~cpu_ce_posedge /\ ~cpu_ce_negedge => (clk_d2' <=> clk_d2)
      /\ ~half'
  <2>1. clk_d1 = cpu_clk_pin /\ clk_d2' = clk_d1 /\ ~half'
    BY DEF ClockInv, Moves
  <2> QED
    BY <2>1, EdgesSeen
<1>2. biu_state # "0B" => (shift_read_timing' <=> shift_read_timing)
  BY ClockMoves DEF shift_read_timing
<1>3. /\ strobed' = IF cpu_ce_negedge THEN S2_S0_OUT ELSE strobed
      /\ machine_cycle_period' <=> IF cpu_ce_posedge THEN ~machine_cycle /\ passive ELSE machine_cycle_period
      /\ machine_cycle' <=> IF cpu_ce_negedge THEN ~passive /\ ~machine_cycle_period ELSE machine_cycle
  BY DEF BusController, TypeInv
<1>4. sample_edge <=> IF shift_read_timing THEN cpu_ce_negedge ELSE cpu_ce_posedge
  BY <1>1 DEF sample_edge
<1>5. machine_cycle \in BOOLEAN /\ machine_cycle_period \in BOOLEAN
  BY DEF TypeInv
<1>6. /\ s2_s0_out_int' = IF biu_state' \in Active THEN s_bits' ELSE "passive"
      /\ biu_state' \in {"01", "50"} \cup Active \cup {"06"} \cup Ending => s_bits' \in Kinds
  BY DEF Moves
<1>7. biu_state' \in Rest => S2_S0_OUT' = "passive" /\ strobed' = "passive" /\ ~machine_cycle'
  BY <1>1, <1>3, <1>5 DEF CycleInv, Moves, Rest, Active, Ending, passive
<1>8. biu_state' = "02" =>
        /\ clk_d2' /\ machine_cycle_period' /\ ~machine_cycle'
        /\ strobed' = "passive" /\ S2_S0_OUT' \in {"passive", s_bits'}
  BY <1>1, <1>3, <1>5 DEF CycleInv, Moves, Rest, Active, Ending, passive
<1>9. biu_state' = "03" =>
        /\ S2_S0_OUT' = s_bits' /\ strobed' = s_bits' /\ ~machine_cycle'
        /\ machine_cycle_period' <=> ~clk_d2'
  BY <1>1, <1>3, <1>5 DEF CycleInv, Moves, Rest, Active, Ending, passive, Kinds
<1>10. biu_state' \in {"04", "05"} =>
        /\ S2_S0_OUT' = s_bits' /\ strobed' = s_bits'
        /\ machine_cycle' /\ ~machine_cycle_period'
        /\ biu_state' = "05" => ~clk_d2'
  BY <1>1, <1>3, <1>5 DEF CycleInv, Moves, Rest, Active, Ending, passive, Kinds
<1>11. biu_state' = "06" =>
        /\ strobed' = s_bits' /\ machine_cycle' /\ ~machine_cycle_period'
        /\ S2_S0_OUT' = "passive"
        /\ ~shift_read_timing' => ~clk_d2'
  BY <1>1, <1>2, <1>3, <1>4, <1>5 DEF CycleInv, Moves, Rest, Active, Ending, passive, Kinds
<1>12. biu_state' \in Ending =>
        /\ S2_S0_OUT' = "passive"
        /\ machine_cycle' => strobed' = s_bits' /\ clk_d2' /\ ~shift_read_timing'
        /\ ~machine_cycle' => strobed' = "passive"
  BY <1>1, <1>2, <1>3, <1>4, <1>5 DEF CycleInv, Moves, Rest, Active, Ending, passive, Kinds
<1> QED
  BY <1>1, <1>6, <1>7, <1>8, <1>9, <1>10, <1>11, <1>12 DEF CycleInv

(***************************************************************************)
(* HOLD                                                                    *)
(***************************************************************************)

\* In the time of the power-up the clock's edges come when they always do, and
\* the rising edge that lets go of the bus is the end of the early part.
LEMMA BootBits ==
  ASSUME TypeInv, BootInv
  PROVE  /\ early => booting
         /\ early /\ half /\ cpu_ce_posedge => START - start = 13
         /\ booting /\ ~early => ~address_enable_n
         /\ early /\ START - start = 13 => half /\ cpu_ce_posedge
         /\ early => ~hold_request_ff_1 /\ ~hold_request_ff_2
         /\ booting => start > 0
         /\ booting /\ START - start = 33 => half /\ cpu_ce_posedge
<1>1. ASSUME early PROVE booting
  <2>1. START - start \in Int
    BY InputsAssumption DEF TypeInv
  <2> QED
    BY <1>1, <2>1 DEF early, booting
<1>2. booting => start > 0
  BY InputsAssumption DEF TypeInv, booting
<1>3. ASSUME booting
      PROVE  /\ early /\ half /\ cpu_ce_posedge => START - start = 13
             /\ ~early => ~address_enable_n
             /\ START - start = 13 => half /\ cpu_ce_posedge
             /\ early => ~hold_request_ff_1 /\ ~hold_request_ff_2
             /\ START - start = 33 => half /\ cpu_ce_posedge
  <2>1. PICK n \in 0 .. 16 : Boot(n)
    BY <1>3 DEF BootInv
  <2>2. /\ START - start = 2 * n + (IF half THEN 1 ELSE 0) /\ n \in Int
        /\ cpu_ce_posedge <=> (n = 6 \/ n = 16)
        /\ n <= 6 => address_enable_n /\ ~hold_request_ff_1 /\ ~hold_request_ff_2
        /\ n > 6 => ~address_enable_n
    BY <2>1 DEF Boot, TypeInv
  <2>3. early <=> START - start <= 13
    BY <1>3 DEF early, booting
  <2>4. half \in BOOLEAN
    BY DEF TypeInv
  <2> QED
    BY <2>2, <2>3, <2>4
<1> QED
  BY <1>1, <1>2, <1>3

\* How the time of the power-up goes on.
LEMMA BootGoesOn ==
  ASSUME TypeInv, BootInv, Moves
  PROVE  /\ booting' => booting /\ START - start' = START - start + 1 /\ START - start <= 32
         /\ booting /\ START - start <= 32 => booting' /\ biu_state' = "D0"
         /\ early /\ START - start <= 12 => early'
         /\ early' => early
<1>1. START \in Int /\ start \in Int /\ start \in 0 .. START /\ START >= 34
  BY InputsAssumption DEF TypeInv
<1>2. booting => start > 0
  BY BootBits
<1>3. /\ start' = IF biu_state = "D0" /\ start > 0 THEN start - 1 ELSE start
      /\ biu_state' = "D0" => biu_state = "D0"
      /\ biu_state = "D0" => biu_state' = IF start = 0 THEN "00" ELSE "D0"
  BY DEF Moves
<1>4. booting => biu_state' = "D0" /\ START - start' = START - start + 1
  BY <1>1, <1>2, <1>3 DEF booting
<1>5. ASSUME booting' PROVE booting /\ START - start <= 32
  <2>1. biu_state = "D0" /\ START - start' <= 33
    BY <1>3, <1>5 DEF booting
  <2>2. start > 0
    BY <1>1, <1>3, <2>1
  <2> QED
    BY <1>1, <1>3, <2>1, <2>2 DEF booting
<1>6. booting /\ START - start <= 32 => booting'
  BY <1>1, <1>4 DEF booting
<1>7. early => booting
  BY <1>1 DEF early, booting
<1>8. early /\ START - start <= 12 => early'
  BY <1>1, <1>4, <1>7 DEF early
<1>9. ASSUME early' PROVE early
  <2>1. biu_state = "D0" /\ START - start' <= 13
    BY <1>3, <1>9 DEF early
  <2>2. start > 0
    BY <1>1, <1>3, <2>1
  <2> QED
    BY <1>1, <1>3, <2>1, <2>2 DEF early
<1> QED
  BY <1>4, <1>5, <1>6, <1>8, <1>9

LEMMA BootCore ==
  ASSUME TypeInv, BootInv, ~half, half' = ~half, Moves, UNCHANGED <<clock, arbiter>>
  PROVE  BootInv'
<1> SUFFICES ASSUME booting' PROVE (\E n \in 0 .. 16 : Boot(n))'
  BY DEF BootInv
<1>1. booting /\ START - start' = START - start + 1
  BY BootGoesOn
<1>2. PICK n \in 0 .. 16 : Boot(n)
  BY <1>1 DEF BootInv
<1>3. START - start = 2 * n /\ n \in Int
  BY <1>2 DEF Boot
<1>4. START - start' = 2 * n + (IF half' THEN 1 ELSE 0)
  BY <1>1, <1>3
<1>5. Boot(n)'
  BY <1>2, <1>4 DEF Boot, clock, arbiter
<1> QED
  BY <1>5

LEMMA BootChipset ==
  ASSUME TypeInv, ClockInv, BootInv, half, half' = ~half, Moves,
         NEW next \in 0 .. 3, CpuClock(next), NEW lock_n, BusArbiter(lock_n)
  PROVE  BootInv'
<1> SUFFICES ASSUME booting' PROVE (\E n \in 0 .. 16 : Boot(n))'
  BY DEF BootInv
<1>1. booting /\ START - start' = START - start + 1 /\ START - start <= 32 /\ biu_state = "D0"
  BY BootGoesOn DEF booting
<1>2. PICK n \in 0 .. 16 : Boot(n)
  BY <1>1 DEF BootInv
<1>3. n \in 0 .. 15 /\ START - start = 2 * n + 1 /\ START - start' = 2 * (n + 1)
  BY <1>1, <1>2 DEF Boot
<1>4. n + 1 \in 0 .. 16 /\ n \in Int
  BY <1>3
<1>5. START - start' = 2 * (n + 1) + (IF half' THEN 1 ELSE 0)
  <2>1. ~half'
    OBVIOUS
  <2> QED
    BY <1>3, <1>4, <2>1
<1>6. /\ speed = 0
      /\ cpu_phase_acc = 21 * n - (IF n <= 5 THEN 0 ELSE IF n <= 10 THEN 110 ELSE IF n <= 15 THEN 220 ELSE 330)
      /\ cpu_clk_pin <=> n \in 6 .. 10 \/ n = 16
      /\ cpu_ce_posedge <=> n = 6 \/ n = 16
      /\ n <= 6 => address_enable_n /\ ~dma_wait /\ ~hold_request_ff_1 /\ ~hold_request_ff_2
      /\ n > 6 => ~address_enable_n /\ dma_wait
  BY <1>2 DEF Boot, TypeInv
<1>7. cpu_edge <=> n \in {5, 10, 15}
  BY <1>3, <1>6 DEF cpu_edge, edge_num, edge_den
<1>8. /\ speed' = 0
      /\ cpu_phase_acc' = cpu_phase_acc + 21 - (IF cpu_edge THEN 110 ELSE 0)
      /\ cpu_clk_pin' <=> IF cpu_edge THEN ~cpu_clk_pin ELSE cpu_clk_pin
      /\ cpu_ce_posedge' <=> cpu_edge /\ ~cpu_clk_pin
      /\ cpu_ce_negedge' <=> cpu_edge /\ cpu_clk_pin
      /\ cpu_clk_pin' \in BOOLEAN /\ cpu_ce_posedge' \in BOOLEAN /\ cpu_ce_negedge' \in BOOLEAN
  BY <1>1, <1>6 DEF CpuClock, biu_done, edge_num, edge_den, TypeInv
<1>9. cpu_phase_acc' = 21 * (n + 1) - (IF n + 1 <= 5 THEN 0 ELSE IF n + 1 <= 10 THEN 110
                                       ELSE IF n + 1 <= 15 THEN 220 ELSE 330)
  BY <1>3, <1>6, <1>7, <1>8
<1>10. /\ cpu_clk_pin' = (n + 1 \in 6 .. 10 \/ n + 1 = 16)
       /\ cpu_ce_posedge' = (n + 1 = 6 \/ n + 1 = 16)
       /\ cpu_ce_negedge' = (n + 1 = 11)
  BY <1>3, <1>6, <1>7, <1>8
<1>11. /\ address_enable_n' <=> IF cpu_ce_posedge THEN hold_acknowledge ELSE address_enable_n
       /\ dma_wait' <=> IF cpu_ce_posedge THEN address_enable_n ELSE dma_wait
       /\ ~cpu_ce_posedge => hold_request_ff_1' = hold_request_ff_1
       /\ hold_request_ff_2' <=> IF cpu_ce_negedge
                                   THEN hold_request /\ (hold_request_ff_2 \/ hold_request_ff_1)
                                   ELSE hold_request_ff_2
  BY DEF BusArbiter, TypeInv
<1>12. n + 1 <= 6 => address_enable_n' /\ ~dma_wait' /\ ~hold_request_ff_1' /\ ~hold_request_ff_2'
  BY <1>3, <1>6, <1>11
<1>13. n + 1 > 6 => ~address_enable_n' /\ dma_wait'
  BY <1>3, <1>6, <1>11 DEF hold_acknowledge
<1>14. Boot(n + 1)'
  BY <1>5, <1>8, <1>9, <1>10, <1>12, <1>13 DEF Boot
<1> QED
  BY <1>4, <1>14

\* Where the BIU is when READY and HOLD could disturb it: with the status lines
\* passive between the edges of the clock.
LEMMA PassiveAtRise ==
  ASSUME TypeInv, ClockInv, CycleInv, half, cpu_ce_posedge, S2_S0_OUT \in {"passive", "halt"}
  PROVE  \/ s_bits = "halt"
         \/ biu_state \in Rest
         \/ biu_state \in {"06"} \cup Ending /\ S2_S0_OUT = "passive"
BY EdgesSeen DEF TypeInv, CycleInv, Rest, Active, Ending, Kinds

\* A step of the BIU without a rising edge keeps to these places.
LEMMA GrantStays ==
  ASSUME TypeInv, ClockInv, CycleInv, Moves, GrantSafe, ~clk_posedge,
         half => (clk_d2' <=> clk_d2 /\ ~clk_negedge),
         ~half => ~clk_negedge /\ clk_d2' = clk_d2
  PROVE  GrantSafe'
<1>1. CASE s_bits = "halt"
  BY <1>1 DEF GrantSafe, Moves
<1>2. CASE biu_state \in Rest
  BY <1>2 DEF GrantSafe, Moves, Rest, Active, Ending
<1>3. CASE clk_d2 /\ biu_state = "02"
  BY <1>3 DEF GrantSafe, Moves, Rest, Active, Ending, TypeInv
<1>4. CASE clk_d2 /\ biu_state \in {"06"} \cup Ending /\ S2_S0_OUT = "passive"
  <2>1. S2_S0_OUT' = "passive"
    BY <1>4 DEF Moves, Active, Ending
  <2>2. biu_state' \in {"06"} \cup Ending \cup Rest
    BY <1>4 DEF Moves, Rest, Active, Ending
  <2>3. clk_d2' \/ biu_state' \in Ending \cup Rest
    BY <1>4, <2>2 DEF Moves, Rest, Active, Ending, CycleInv, TypeInv, sample_edge
  <2> QED
    BY <2>1, <2>2, <2>3 DEF GrantSafe, Moves, TypeInv
<1>5. CASE ~clk_d2 /\ (biu_state = "03" \/ biu_state \in Ending)
  <2>1. ~clk_negedge
    BY <1>5 DEF clk_negedge
  <2>2. ~clk_d2'
    BY <1>5, <2>1 DEF TypeInv
  <2> QED
    BY <1>5, <2>1, <2>2 DEF GrantSafe, Moves, Rest, Active, Ending
<1> QED
  BY <1>1, <1>2, <1>3, <1>4, <1>5 DEF GrantSafe

\* What a chipset clock does to the arbiter and the loader.
LEMMA HoldMoves ==
  ASSUME TypeInv, NEW lock_n \in BOOLEAN, BusArbiter(lock_n), RomLoader
  PROVE  /\ hold_request' \in BOOLEAN /\ armed' \in BOOLEAN
         /\ hold_request_ff_1' \in BOOLEAN /\ hold_request_ff_2' \in BOOLEAN
         /\ address_enable_n' \in BOOLEAN /\ dma_wait' \in BOOLEAN
         /\ hold_request_ff_1' <=> IF cpu_ce_posedge
                                     THEN S2_S0_OUT \in {"passive", "halt"} /\ lock_n /\ hold_request
                                     ELSE hold_request_ff_1
         /\ hold_request_ff_2' <=> IF cpu_ce_negedge
                                     THEN hold_request /\ (hold_request_ff_2 \/ hold_request_ff_1)
                                     ELSE hold_request_ff_2
         /\ address_enable_n' <=> IF cpu_ce_posedge THEN hold_acknowledge ELSE address_enable_n
         /\ dma_wait' <=> IF cpu_ce_posedge THEN address_enable_n ELSE dma_wait
         /\ hold_request /\ ~hold_request' =>
              armed /\ hold_request_ff_2 /\ address_enable_n /\ dma_wait
         /\ ~hold_request /\ hold_request' =>
              ~hold_request_ff_1 /\ ~hold_request_ff_2 /\ ~(address_enable_n /\ dma_wait)
         /\ armed' => hold_request' /\ (armed \/ (~processor_ready_ff_2 /\ address_enable_n))
<1>1. /\ hold_request_ff_1' = IF cpu_ce_posedge
                                THEN S2_S0_OUT \in {"passive", "halt"} /\ lock_n /\ hold_request
                                ELSE hold_request_ff_1
      /\ hold_request_ff_2' = IF cpu_ce_negedge
                                THEN hold_request /\ (hold_request_ff_2 \/ hold_request_ff_1)
                                ELSE hold_request_ff_2
      /\ address_enable_n' = IF cpu_ce_posedge THEN hold_acknowledge ELSE address_enable_n
      /\ dma_wait' = IF cpu_ce_posedge THEN address_enable_n ELSE dma_wait
      /\ hold_acknowledge \in BOOLEAN
  BY DEF BusArbiter, hold_acknowledge
<1>2. PICK ioctl_download \in BOOLEAN :
         /\ hold_request /\ ~ioctl_download =>
              armed /\ hold_request_ff_2 /\ address_enable_n /\ dma_wait
         /\ ~hold_request /\ ioctl_download =>
              ~hold_request_ff_1 /\ ~hold_request_ff_2 /\ ~(address_enable_n /\ dma_wait)
         /\ hold_request' = ioctl_download
         /\ armed' = (ioctl_download /\ (armed \/ hold_granted))
  BY InputsAssumption DEF RomLoader
<1>3. hold_granted <=> ~processor_ready_ff_2 /\ address_enable_n
  BY DEF hold_granted
<1> QED
  BY <1>1, <1>2, <1>3 DEF TypeInv

LEMMA HoldCore ==
  ASSUME TypeInv, ClockInv, CycleInv, HoldInv, BootInv, ~half, half' = ~half, Moves,
         UNCHANGED <<clock, arbiter>>
  PROVE  HoldInv'
<1>1. clk_d2' = clk_d2 /\ ~clk_posedge /\ ~clk_negedge
  BY EdgesSeen DEF ClockInv, Moves
<1>2. early => early'
  <2>1. ASSUME early PROVE START - start <= 12
    <3>1. START - start # 13 /\ START - start <= 13 /\ START - start \in Int
      BY <2>1, BootBits, InputsAssumption DEF early, TypeInv
    <3> QED
      BY <3>1
  <2> QED
    BY <2>1, BootGoesOn
<1>3. hold_acknowledge /\ ~address_enable_n => GrantSafe'
  BY <1>1, GrantStays DEF HoldInv
<1> QED
  BY <1>1, <1>2, <1>3 DEF HoldInv, arbiter, hold_acknowledge

LEMMA HoldChipset ==
  ASSUME TypeInv, ClockInv, CycleInv, HoldInv, BootInv, half, half' = ~half, Moves,
         NEW lock_n \in BOOLEAN, BusArbiter(lock_n), RomLoader
  PROVE  HoldInv'
<1>1. /\ clk_posedge <=> cpu_ce_posedge
      /\ clk_negedge <=> cpu_ce_negedge
      /\ cpu_ce_posedge => ~clk_d2 /\ clk_d2' /\ ~cpu_ce_negedge
      /\ cpu_ce_negedge => clk_d2 /\ ~clk_d2'
      /\ ~cpu_ce_posedge /\ ~cpu_ce_negedge => (clk_d2' <=> clk_d2)
  <2>1. clk_d1 = cpu_clk_pin /\ clk_d2' = clk_d1
    BY DEF ClockInv, Moves
  <2> QED
    BY <2>1, EdgesSeen
<1>2. early /\ ~cpu_ce_posedge => early'
  <2>1. ASSUME early, ~cpu_ce_posedge PROVE START - start <= 12
    <3>1. START - start # 13 /\ START - start <= 13 /\ START - start \in Int
      BY <2>1, BootBits, InputsAssumption DEF early, TypeInv
    <3> QED
      BY <3>1
  <2> QED
    BY <2>1, BootGoesOn
<1>3. hold_acknowledge <=> hold_request /\ (hold_request_ff_1 \/ hold_request_ff_2)
  BY DEF hold_acknowledge
<1>4. /\ hold_request_ff_1 /\ hold_request /\ ~clk_d2 => hold_request_ff_2
      /\ address_enable_n /\ hold_request => hold_request_ff_2 \/ early
      /\ address_enable_n /\ ~hold_request => dma_wait \/ early
      /\ hold_acknowledge /\ ~address_enable_n => GrantSafe
  BY DEF HoldInv
<1>5. early => ~hold_request_ff_1 /\ ~hold_request_ff_2
  BY BootBits
<1> USE <1>1, <1>2, <1>3, <1>4, <1>5, HoldMoves
<1>6. hold_request_ff_1' /\ hold_request' /\ ~clk_d2' => hold_request_ff_2'
  OBVIOUS
<1>7. address_enable_n' /\ hold_request' => hold_request_ff_2' \/ early'
  OBVIOUS
<1>8. address_enable_n' /\ ~hold_request' => dma_wait' \/ early'
  OBVIOUS
<1>9. ASSUME hold_acknowledge', ~address_enable_n' PROVE GrantSafe'
  <2>0. hold_request' /\ (hold_request_ff_1' \/ hold_request_ff_2')
    BY <1>9 DEF hold_acknowledge
  <2>1. CASE cpu_ce_posedge
    <3>1. ~hold_acknowledge /\ hold_request /\ S2_S0_OUT \in {"passive", "halt"}
      BY <1>9, <2>0, <2>1
    <3>2. \/ s_bits = "halt"
          \/ biu_state \in Rest
          \/ biu_state \in {"06"} \cup Ending /\ S2_S0_OUT = "passive"
      BY <2>1, <3>1, PassiveAtRise
    <3>3. biu_state' \in Rest \cup {"02"} \/ s_bits' = "halt"
          \/ (biu_state' \in {"06"} \cup Ending /\ S2_S0_OUT' = "passive")
      BY <3>2 DEF Moves, Rest, Active, Ending
    <3> QED
      BY <2>1, <3>3 DEF GrantSafe
  <2>2. CASE ~cpu_ce_posedge
    <3>1. hold_acknowledge /\ ~address_enable_n
      BY <1>9, <2>0, <2>2 DEF TypeInv
    <3>2. GrantSafe
      BY <3>1
    <3> QED
      BY <2>2, <3>2, GrantStays DEF TypeInv
  <2> QED
    BY <2>1, <2>2
<1> QED
  BY <1>6, <1>7, <1>8, <1>9 DEF HoldInv

(***************************************************************************)
(* The loader                                                              *)
(***************************************************************************)

LEMMA LoaderCore ==
  ASSUME TypeInv, ClockInv, BootInv, LoaderInv, ~half, Moves, UNCHANGED arbiter
  PROVE  LoaderInv'
<1>1. ~clk_posedge /\ ~clk_negedge
  BY EdgesSeen
<1>2. booting => booting'
  <2>1. ASSUME booting PROVE START - start <= 32
    <3>1. START - start # 33 /\ START - start <= 33 /\ START - start \in Int
      BY <2>1, BootBits, InputsAssumption DEF booting, TypeInv
    <3> QED
      BY <3>1
  <2> QED
    BY <2>1, BootGoesOn
<1>3. biu_state \in Rest => biu_state' \in Rest
  BY <1>1 DEF Moves, Rest, Active, Ending
<1> QED
  BY <1>2, <1>3 DEF LoaderInv, arbiter, hold_acknowledge

LEMMA LoaderChipset ==
  ASSUME TypeInv, ClockInv, HoldInv, HoldInv', CycleInv, BootInv, LoaderInv, half, Moves,
         NEW lock_n \in BOOLEAN, BusArbiter(lock_n), RomLoader, biu_state = "D0" => lock_n
  PROVE  LoaderInv'
<1> SUFFICES ASSUME armed' PROVE LoaderInv'
  BY DEF LoaderInv
<1>1. /\ hold_request' /\ (armed \/ address_enable_n)
      /\ armed => hold_request
  BY HoldMoves DEF LoaderInv
<1>2. booting /\ (early \/ ~cpu_ce_posedge) => booting'
  <2>1. ASSUME booting, early \/ ~cpu_ce_posedge PROVE START - start <= 32
    <3>1. START - start # 33 /\ START - start <= 33 /\ START - start \in Int
      BY <2>1, BootBits, InputsAssumption DEF booting, early, TypeInv
    <3> QED
      BY <3>1
  <2> QED
    BY <2>1, BootGoesOn
<1>3. early => booting
  BY BootBits
<1>4. CASE address_enable_n'
  <2>1. hold_request_ff_2' \/ early'
    BY <1>1, <1>4 DEF HoldInv
  <2>2. early' => booting'
    BY InputsAssumption, BootGoesOn, <1>2, <1>3
  <2> QED
    BY <1>1, <1>4, <2>1, <2>2 DEF LoaderInv
<1>5. CASE ~address_enable_n' /\ cpu_ce_posedge
  <2>1. ~hold_acknowledge
    BY <1>5, HoldMoves
  <2>2. CASE address_enable_n
    <3>1. early
      BY <1>1, <2>1, <2>2, HoldMoves DEF HoldInv, hold_acknowledge
    <3> QED
      BY <1>1, <1>2, <1>3, <3>1 DEF LoaderInv
  <2>3. CASE ~address_enable_n
    <3>1. armed /\ booting /\ hold_request
      BY <1>1, <2>1, <2>3 DEF LoaderInv
    <3>2. S2_S0_OUT = "passive" /\ lock_n /\ biu_state' \in Rest
      BY <3>1 DEF booting, CycleInv, Rest, Moves
    <3>3. hold_acknowledge'
      BY <1>1, <1>5, <3>1, <3>2, HoldMoves DEF hold_acknowledge
    <3> QED
      BY <1>1, <1>5, <3>2, <3>3 DEF LoaderInv
  <2> QED
    BY <2>2, <2>3
<1>6. CASE ~address_enable_n' /\ ~cpu_ce_posedge
  <2>1. ~address_enable_n /\ armed /\ hold_request
    BY <1>1, <1>6, HoldMoves
  <2>2. CASE booting
    BY <1>1, <1>2, <1>6, <2>2 DEF LoaderInv
  <2>3. CASE hold_acknowledge /\ biu_state \in Rest
    <3>1. hold_acknowledge'
      BY <1>1, <1>6, <2>3, HoldMoves DEF hold_acknowledge
    <3>2. biu_state' \in Rest
      BY <1>6, <2>3, EdgesSeen DEF Moves, Rest, Active, Ending
    <3> QED
      BY <1>1, <1>6, <3>1, <3>2 DEF LoaderInv
  <2> QED
    BY <2>1, <2>2, <2>3 DEF LoaderInv
<1> QED
  BY <1>4, <1>5, <1>6

(***************************************************************************)
(* READY                                                                   *)
(***************************************************************************)

\* What a chipset clock does to READY and to the history of this cycle's waits.
Waits(ready) ==
  cause' = (dma_wait \/ (biu_state # "01" /\ (cause \/ ~ready \/ (~prev_bus_state /\ io_command))))

\* AEN is low while a command stands: only I/O arms the wait state.
LEMMA OnlyIoArms == bus_state <=> io_command
BY DEF bus_state, memory_read, memory_write, command

LEMMA NoCommandYet ==
  ASSUME TypeInv, CycleInv, biu_state \in Rest \cup {"02", "03"}
  PROVE  ~machine_cycle /\ ~command /\ ~memory_strobe /\ ~io_command /\ ~bus_state
BY OnlyIoArms DEF CycleInv, Rest, command, memory_strobe, memory_read, memory_write, io_command

LEMMA ReadyCore ==
  ASSUME TypeInv, ClockInv, ReadyInv, ~half, Moves, UNCHANGED readies,
         cause' = (biu_state # "01" /\ cause)
  PROVE  ReadyInv'
<1>1. clk_d2' = clk_d2 /\ ~clk_posedge /\ ~clk_negedge
  BY EdgesSeen DEF ClockInv, Moves
<1> QED
  BY <1>1 DEF ReadyInv, Moves, readies, TypeInv

LEMMA ReadyChipset ==
  ASSUME TypeInv, ClockInv, CycleInv, ReadyInv, half, Moves, NEW ready \in BOOLEAN, READY(ready),
         Waits(ready), ~memory_strobe /\ ~io_command => ready
  PROVE  ReadyInv'
<1>1. /\ clk_posedge <=> cpu_ce_posedge
      /\ clk_negedge <=> cpu_ce_negedge
      /\ cpu_ce_posedge => ~clk_d2 /\ clk_d2' /\ ~cpu_ce_negedge
      /\ cpu_ce_negedge => clk_d2 /\ ~clk_d2'
      /\ ~cpu_ce_posedge /\ ~cpu_ce_negedge => (clk_d2' <=> clk_d2)
  <2>1. clk_d1 = cpu_clk_pin /\ clk_d2' = clk_d1
    BY DEF ClockInv, Moves
  <2> QED
    BY <2>1, EdgesSeen
<1>2. /\ ready_n_or_wait' <=> IF ~ready THEN TRUE
                              ELSE IF prev_ready_n_or_wait THEN FALSE
                              ELSE IF ~prev_bus_state /\ bus_state THEN TRUE
                              ELSE ready_n_or_wait
      /\ prev_ready_n_or_wait' <=> IF cpu_ce_posedge THEN ready_n_or_wait ELSE prev_ready_n_or_wait
      /\ processor_ready_ff_1' <=> IF cpu_ce_posedge THEN ~dma_wait /\ ~ready_n_or_wait
                                   ELSE processor_ready_ff_1
      /\ processor_ready_ff_2' <=> IF cpu_ce_negedge
                                     THEN processor_ready_ff_1 /\ ~dma_wait /\ ~ready_n_or_wait
                                     ELSE processor_ready_ff_2
  BY DEF READY, dma_wait_n, TypeInv
<1>3. cause' <=> dma_wait \/ (biu_state # "01" /\ (cause \/ ~ready \/ (~prev_bus_state /\ bus_state)))
  BY OnlyIoArms DEF Waits
<1>4. biu_state \in Rest \cup {"02", "03"} => ready /\ ~bus_state
  BY NoCommandYet
<1>5. biu_state # "05"
  BY DEF CycleInv
<1>6. biu_state' = "02" => (ready_n_or_wait' => prev_ready_n_or_wait')
  BY <1>1, <1>2, <1>4 DEF Moves, ReadyInv, Rest
<1>7. biu_state' = "03" => ~ready_n_or_wait' /\ (clk_d2' /\ ~cause' => processor_ready_ff_1')
  BY <1>1, <1>2, <1>3, <1>4 DEF Moves, ReadyInv
<1>8. biu_state' = "04" /\ ~cause' => processor_ready_ff_1' /\ ~ready_n_or_wait'
  BY <1>1, <1>2, <1>3, <1>4, <1>5 DEF Moves, ReadyInv
<1>9. biu_state' = "05" /\ ~cause' =>
        processor_ready_ff_1' /\ ~ready_n_or_wait' /\ processor_ready_ff_2'
  BY <1>1, <1>2, <1>3, <1>5 DEF Moves, ReadyInv
<1> QED
  BY <1>6, <1>7, <1>8, <1>9 DEF ReadyInv

(***************************************************************************)
(* The memory port                                                         *)
(***************************************************************************)

\* A strobe of memory stands exactly while the CPU has the bus.
LEMMA MemoryStrobe ==
  ASSUME TypeInv, CycleInv
  PROVE  /\ biu_state \in {"04", "05", "06"} => (memory_strobe <=> memK /\ ~address_enable_n)
         /\ biu_state \in {"04", "05", "06"} =>
              (memory_read <=> s_bits \in {"fetch", "read"} /\ ~address_enable_n)
         /\ biu_state \in {"04", "05", "06"} => (io_command <=> s_bits = "io" /\ ~address_enable_n)
         /\ biu_state \in Ending =>
              (memory_strobe <=> machine_cycle /\ memK /\ ~address_enable_n)
         /\ biu_state \in Rest \cup {"02", "03"} => ~memory_strobe
         /\ memory_strobe => command /\ machine_cycle /\ strobed \in Memory
         /\ command => machine_cycle /\ ~address_enable_n
         /\ cmd_active <=> memory_strobe /\ place # "ega"
         /\ memory_strobe \in BOOLEAN
<1> USE DEF memory_strobe, memory_read, memory_write, io_command, command, memK, Memory, cmd_active,
           read_command, write_command
<1>1. biu_state \in {"04", "05", "06"} => strobed = s_bits /\ machine_cycle
  BY DEF CycleInv
<1>2. biu_state \in Ending => IF machine_cycle THEN strobed = s_bits ELSE strobed = "passive"
  BY DEF CycleInv
<1>3. biu_state \in Rest \cup {"02", "03"} => ~machine_cycle
  BY DEF CycleInv
<1> QED
  BY <1>1, <1>2, <1>3

\* The bus is not taken away in the middle of an access of memory.
LEMMA BusKept ==
  ASSUME TypeInv, ClockInv, CycleInv, HoldInv, half, cpu_ce_posedge, ~address_enable_n, memK,
         biu_state \in {"04", "06"} \/ (biu_state \in Ending /\ machine_cycle)
  PROVE  ~hold_acknowledge
<1>1. ~clk_d2
  BY EdgesSeen
<1>2. ~GrantSafe
  BY <1>1 DEF GrantSafe, memK, Memory, Rest, Ending, CycleInv
<1> QED
  BY <1>2 DEF HoldInv

LEMMA PortCore ==
  ASSUME TypeInv, ClockInv, CycleInv, PortInv, ~half, Moves, UNCHANGED <<clock, bc, arbiter, readies, mem>>,
         DataIn
  PROVE  PortInv'
<1>1. clk_d2' = clk_d2 /\ ~clk_posedge /\ ~clk_negedge
  BY EdgesSeen DEF ClockInv, Moves
<1>2. dipped' = dipped
  BY DEF dipped, strict, clock, mem
<1>3. /\ address_enable_n' = address_enable_n /\ dma_wait' = dma_wait /\ machine_cycle' = machine_cycle
      /\ answered' = answered /\ pos_seen' = pos_seen /\ ready_n_or_wait' = ready_n_or_wait
      /\ processor_ready_ff_2' = processor_ready_ff_2 /\ cpu_ce_negedge' = cpu_ce_negedge
  BY DEF clock, bc, arbiter, readies, mem
<1>4. biu_state' \in {"04", "05"} => biu_state \in {"04", "05"} /\ s_bits' = s_bits /\ place' = place
  BY <1>1 DEF Moves, Rest
<1>5. biu_state = "05" => ~clk_d2 /\ ~cpu_ce_negedge
  BY EdgesSeen DEF CycleInv
<1>6. biu_state' = "05" => FALSE
  BY <1>1 DEF Moves
<1>7. biu_state' = "06" => /\ s_bits' = s_bits
                           /\ \/ biu_state = "06"
                              \/ biu_state = "05" /\ processor_ready_ff_2
  BY DEF Moves, Rest
<1>8. biu_state' = "06" /\ memK' => memK /\ ~address_enable_n /\ answered
  BY <1>7 DEF PortInv, memK
<1>9. ad_in_int' = (memory_read /\ answered)
  BY DEF DataIn
<1>10. biu_state' = "06" /\ memK' /\ s_bits' \in {"fetch", "read"} => ad_in_int'
  BY <1>7, <1>8, <1>9, MemoryStrobe
<1>11. biu_state' \in Ending /\ machine_cycle' /\ memK' => ~address_enable_n /\ answered
  <2>1. biu_state' \in Ending => biu_state \in {"06"} \cup Ending /\ s_bits' = s_bits
    BY DEF Moves, Rest, Ending
  <2> QED
    BY <1>3, <2>1 DEF PortInv, memK
<1> QED
  BY <1>1, <1>2, <1>3, <1>4, <1>5, <1>6, <1>8, <1>10, <1>11 DEF PortInv, memK

\* An access that could still dip READY and has not been told to wait is answered.
LEMMA AnsweredWhenDipped ==
  ASSUME TypeInv, CycleInv, biu_state = "04", speed' = speed,
         NEW next, NEW taken \in BOOLEAN, NEW back \in BOOLEAN, NEW device \in BOOLEAN, MemoryPort(next, taken, back),
         READY(memory_access_ready(next, taken) /\ video_memory_access_ready /\ device),
         dipped', ~ready_n_or_wait'
  PROVE  answered'
<1>1. pos_seen' = (cmd_active /\ (pos_seen \/ cpu_ce_posedge)) /\ dip_ok' = (cmd_active /\ dip_now(next))
      /\ answered' = (memory_strobe /\ (answered \/ taken \/ back))
  BY DEF MemoryPort
<1>2. cmd_active
  BY <1>1 DEF dipped
<1>3. dip_now(next) \/ strict
  BY <1>1 DEF dipped, strict
<1>4. memory_access_ready(next, taken)
  BY DEF READY
<1>5. may_dip(next)
  BY <1>3 DEF may_dip
<1>6. access_ready(next, taken)
  BY <1>2, <1>4 DEF memory_access_ready
<1>7. answered \/ taken
  BY <1>5, <1>6 DEF access_ready
<1> QED
  BY <1>1, <1>2, <1>7 DEF cmd_active, read_command, write_command, memory_strobe

LEMMA PortChipset ==
  ASSUME TypeInv, ClockInv, CycleInv, HoldInv, PortInv, half, Moves, DataIn, BusController,
         CycleInv', NEW next \in 0 .. 3, CpuClock(next), NEW lock_n \in BOOLEAN, BusArbiter(lock_n), RomLoader,
         NEW taken \in BOOLEAN, NEW back \in BOOLEAN, NEW device \in BOOLEAN, MemoryPort(next, taken, back),
         READY(memory_access_ready(next, taken) /\ video_memory_access_ready /\ device)
  PROVE  PortInv'
<1>1. /\ clk_posedge <=> cpu_ce_posedge
      /\ clk_negedge <=> cpu_ce_negedge
      /\ cpu_ce_posedge => ~clk_d2 /\ clk_d2' /\ ~cpu_ce_negedge
      /\ cpu_ce_negedge => clk_d2 /\ ~clk_d2' /\ ~cpu_clk_pin
      /\ ~cpu_ce_posedge /\ ~cpu_ce_negedge => (clk_d2' <=> clk_d2) /\ (clk_d2 <=> cpu_clk_pin)
  <2>1. clk_d1 = cpu_clk_pin /\ clk_d2' = clk_d1
    BY DEF ClockInv, Moves
  <2> QED
    BY <2>1, EdgesSeen
<1>2. /\ pos_seen' <=> cmd_active /\ (pos_seen \/ cpu_ce_posedge)
      /\ dip_ok' <=> cmd_active /\ dip_now(next)
      /\ answered' <=> memory_strobe /\ (answered \/ taken \/ back)
      /\ ad_in_int' <=> memory_read /\ answered
  BY DEF MemoryPort, DataIn, TypeInv
<1>3. biu_state # "05"
  BY DEF CycleInv
<1>4. /\ address_enable_n' <=> IF cpu_ce_posedge THEN hold_acknowledge ELSE address_enable_n
      /\ dma_wait' <=> IF cpu_ce_posedge THEN address_enable_n ELSE dma_wait
  BY HoldMoves
<1>5. ASSUME biu_state' \in {"04", "05"}, dipped', ~ready_n_or_wait' PROVE answered'
  <2>1. cmd_active
    BY <1>2, <1>5 DEF dipped
  <2>2. biu_state = "04"
    BY <1>3, <1>5, <2>1, MemoryStrobe DEF Moves, Rest
  <2>3. speed' = speed
    BY <2>2, ClockMoves
  <2> QED
    BY <1>5, <2>2, <2>3, AnsweredWhenDipped
<1>6. ASSUME biu_state' = "04", memK', clk_d2', ~dma_wait'
      PROVE  /\ ~address_enable_n /\ ~address_enable_n'
             /\ IF place' = "ega" THEN ready_n_or_wait' \/ answered' ELSE pos_seen'
  <2>1. biu_state = "04" /\ memK /\ ~cpu_ce_negedge /\ place' = place
    BY <1>1, <1>3, <1>6 DEF Moves, Rest, memK
  <2>2. ~address_enable_n /\ ~address_enable_n'
    <3>1. CASE cpu_ce_posedge
      BY <1>4, <1>6, <2>1, <3>1, BusKept
    <3>2. CASE ~cpu_ce_posedge
      BY <1>1, <1>4, <1>6, <2>1, <3>2 DEF PortInv
    <3> QED
      BY <3>1, <3>2
  <2>3. memory_strobe /\ (cmd_active <=> place # "ega")
    BY <2>1, <2>2, MemoryStrobe
  <2>4. CASE place = "ega"
    <3>1. ~ready_n_or_wait' => answered
      BY <2>3, <2>4 DEF READY, video_memory_access_ready, ega_vram_cpu_cycle
    <3> QED
      BY <1>2, <2>1, <2>2, <2>3, <2>4, <3>1
  <2>5. CASE place # "ega"
    <3>1. pos_seen \/ cpu_ce_posedge
      BY <1>1, <1>4, <1>6, <2>1, <2>5 DEF PortInv
    <3> QED
      BY <1>2, <2>1, <2>2, <2>3, <2>5, <3>1
  <2> QED
    BY <2>4, <2>5
<1>7. ASSUME biu_state' = "04", memK', cpu_ce_negedge', ~dma_wait'
      PROVE  ~address_enable_n' /\ (dipped' \/ place' = "ega")
  <2>1. cpu_clk_pin /\ cpu_edge /\ cpu_ce_negedge_next(next)
    BY <1>7, ClockMoves
  <2>2. ~cpu_ce_negedge
    BY <1>1, <2>1
  <2>3. biu_state = "04" /\ memK /\ speed' = speed /\ place' = place
    BY <1>1, <1>3, <1>7, <2>2, ClockMoves DEF Moves, Rest, memK
  <2>4. CASE cpu_ce_posedge
    <3>1. ~address_enable_n /\ clk_d2'
      BY <1>1, <1>4, <1>7, <2>4
    <3>2. ~address_enable_n' /\ (pos_seen' \/ place' = "ega")
      BY <1>6, <1>7, <3>1
    <3>3. strict'
      BY <2>1, <2>3, <2>4 DEF ClockInv, strict
    <3> QED
      BY <3>2, <3>3 DEF dipped
  <2>5. CASE ~cpu_ce_posedge
    <3>1. ~address_enable_n /\ (pos_seen \/ place = "ega")
      BY <1>1, <1>4, <1>7, <2>1, <2>2, <2>3, <2>5 DEF PortInv
    <3>2. dip_now(next) \/ place = "ega"
      BY <2>1, <3>1 DEF dip_now
    <3>3. (dip_ok' \/ place' = "ega") /\ ~address_enable_n'
      BY <1>2, <1>4, <2>3, <2>5, <3>1, <3>2, MemoryStrobe
    <3> QED
      BY <3>3 DEF dipped
  <2> QED
    BY <2>4, <2>5
<1>8. ASSUME biu_state' = "05", processor_ready_ff_2', memK' PROVE ~address_enable_n' /\ answered'
  <2>1. biu_state = "04" /\ cpu_ce_negedge /\ ~cpu_ce_posedge /\ memK
    BY <1>1, <1>8 DEF Moves, Rest, memK
  <2>2. ~dma_wait /\ ~ready_n_or_wait
    BY <1>8, <2>1 DEF READY, dma_wait_n
  <2>3. ~address_enable_n /\ (dipped \/ place = "ega")
    BY <2>1, <2>2 DEF PortInv
  <2>4. answered
    BY <1>1, <2>1, <2>2, <2>3 DEF PortInv
  <2> QED
    BY <1>2, <1>4, <2>1, <2>3, <2>4, MemoryStrobe
<1>9. ASSUME biu_state' = "06", memK'
      PROVE  ~address_enable_n' /\ answered' /\ (s_bits' \in {"fetch", "read"} => ad_in_int')
  <2>1. biu_state = "06" /\ memK /\ s_bits' = s_bits
    BY <1>3, <1>9 DEF Moves, Rest, memK
  <2>2. ~address_enable_n /\ answered
    BY <2>1 DEF PortInv
  <2>3. ~address_enable_n'
    BY <1>4, <2>1, <2>2, BusKept
  <2> QED
    BY <1>2, <2>1, <2>2, <2>3, MemoryStrobe
<1>10. ASSUME biu_state' \in Ending, machine_cycle', memK' PROVE ~address_enable_n' /\ answered'
  <2>1. biu_state \in {"06"} \cup Ending /\ memK
    BY <1>10 DEF Moves, Rest, Ending, memK
  <2>2. machine_cycle
    BY <1>10, <2>1 DEF BusController, CycleInv, passive, Ending
  <2>3. ~address_enable_n /\ answered
    BY <2>1, <2>2 DEF PortInv
  <2>4. ~address_enable_n'
    BY <1>4, <2>1, <2>2, <2>3, BusKept
  <2> QED
    BY <1>2, <2>1, <2>2, <2>3, <2>4, MemoryStrobe
<1> QED
  BY <1>5, <1>6, <1>7, <1>8, <1>9, <1>10 DEF PortInv

(***************************************************************************)
(* The invariant                                                           *)
(***************************************************************************)

LEMMA Beginning == Init => IInv
<1> SUFFICES ASSUME Init PROVE IInv
  OBVIOUS
<1> USE DEF Init
<1>0. edge_den(speed) = 110 /\ 0 \in 0 .. 110 - 1 /\ start \in 0 .. START
  BY InputsAssumption DEF edge_den
<1>1. TypeInv
  <2>1. /\ speed \in 0 .. 3 /\ cpu_phase_acc \in 0 .. edge_den(speed) - 1
        /\ read_wait_count \in 0 .. 1
    BY <1>0
  <2>2. hold_request \in BOOLEAN /\ armed \in BOOLEAN
    BY InputsAssumption
  <2>3. /\ biu_state \in Rest \cup Active \cup {"06"} \cup Ending
        /\ s_bits \in Kinds \cup {"jump"} /\ S2_S0_OUT \in Status /\ strobed \in Status
    BY DEF Rest, Status, Kinds
  <2> QED
    BY <1>0, <2>1, <2>2, <2>3 DEF TypeInv, Places
<1>2. ClockInv
  BY DEF ClockInv
<1>3. CycleInv
  BY DEF CycleInv, Rest, Active, Ending
<1>4. START - start = 0
  BY InputsAssumption
<1>5. booting /\ early
  BY <1>4 DEF booting, early
<1>6. HoldInv
  BY <1>5 DEF HoldInv, hold_acknowledge
<1>7. Boot(0)
  <2>1. START - start = 2 * 0 + 0 /\ 0 = 21 * 0 - 0 /\ 0 \notin 6 .. 10
    BY <1>4
  <2>2. cpu_clk_pin = (0 \in 6 .. 10 \/ 0 = 16) /\ cpu_ce_posedge = (0 = 6 \/ 0 = 16) /\ cpu_ce_negedge = (0 = 11)
    <3>1. (0 \in 6 .. 10 \/ 0 = 16) = FALSE /\ (0 = 6 \/ 0 = 16) = FALSE /\ (0 = 11) = FALSE
      BY <2>1
    <3>2. cpu_clk_pin = FALSE /\ cpu_ce_posedge = FALSE /\ cpu_ce_negedge = FALSE
      OBVIOUS
    <3> QED
      BY <3>1, <3>2, Zenon
  <2>3. cpu_phase_acc = 21 * 0 - (IF 0 <= 5 THEN 0 ELSE IF 0 <= 10 THEN 110
                                  ELSE IF 0 <= 15 THEN 220 ELSE 330)
    BY <2>1
  <2> QED
    BY <2>1, <2>2, <2>3 DEF Boot
<1>8. BootInv
  BY <1>7 DEF BootInv
<1>9. LoaderInv
  BY <1>5 DEF LoaderInv
<1>10. ReadyInv /\ PortInv
  BY DEF ReadyInv, PortInv, Ending
<1> QED
  BY <1>1, <1>2, <1>3, <1>6, <1>8, <1>9, <1>10 DEF IInv

LEMMA CoreStep ==
  ASSUME IInv, CoreEdge, DataIn, half' = ~half
  PROVE  IInv'
<1> USE DEF IInv
<1>1. ~half /\ UNCHANGED <<clock, bc, arbiter, readies, mem>> /\ cause' = (biu_state # "01" /\ cause)
  BY DEF CoreEdge
<1>2. PICK pause \in When(biu_state = "05", Pauses, FALSE) : BusStates(pause)
  BY DEF CoreEdge
<1>3. Moves
  BY <1>2, BusMoves
<1>4. ClockInv' /\ CycleInv'
  BY <1>1, <1>3, ClockCore, CycleCore
<1>5. HoldInv' /\ BootInv' /\ LoaderInv'
  BY <1>1, <1>3, HoldCore, BootCore, LoaderCore
<1>6. ReadyInv' /\ PortInv'
  BY <1>1, <1>3, ReadyCore, PortCore
<1>7. TypeInv'
  <2>1. edge_den(speed') = edge_den(speed)
    BY <1>1 DEF clock
  <2>2. start' \in 0 .. START
    BY <1>3, InputsAssumption DEF TypeInv, Moves
  <2>3. S2_S0_OUT' \in Status
    BY <1>3 DEF Moves, CycleInv, Status
  <2>4. ad_in_int' \in BOOLEAN
    BY DEF DataIn
  <2> QED
    BY <1>1, <1>3, <2>1, <2>2, <2>3, <2>4 DEF TypeInv, Moves, clock, bc, arbiter, readies, mem
<1> QED
  BY <1>4, <1>5, <1>6, <1>7

LEMMA ChipsetStep ==
  ASSUME IInv, ChipsetEdge, DataIn, half' = ~half
  PROVE  IInv'
<1> USE DEF IInv
<1>1. half
  BY DEF ChipsetEdge
<1>2. PICK pause \in When(biu_state = "05", Pauses, FALSE) : BusStates(pause)
  BY DEF ChipsetEdge
<1>3. Moves
  BY <1>2, BusMoves
<1>4. PICK next   \in When(biu_done, Speeds, speed),
           lock_n \in When(cpu_ce_posedge /\ biu_state # "D0", BOOLEAN, TRUE),
           taken  \in When(cmd_active /\ ~answered, BOOLEAN, FALSE),
           back   \in When((read_command \/ ega_vram_cpu_cycle) /\ ~answered, BOOLEAN, FALSE),
           device \in When(io_command \/ (cmd_active /\ place = "video"), DeviceReady, TRUE) :
        LET ready == memory_access_ready(next, taken) /\ video_memory_access_ready /\ device
        IN  /\ CpuClock(next) /\ BusController /\ BusArbiter(lock_n) /\ RomLoader
            /\ MemoryPort(next, taken, back) /\ READY(ready) /\ Waits(ready)
  BY DEF ChipsetEdge, Waits
<1>5. /\ next \in 0 .. 3 /\ lock_n \in BOOLEAN /\ taken \in BOOLEAN /\ back \in BOOLEAN
      /\ device \in BOOLEAN
      /\ biu_state = "D0" => lock_n
      /\ ~cmd_active /\ ~io_command => device
  BY SpeedsAssumption, InputsAssumption DEF When, TypeInv
<1>6. /\ (memory_access_ready(next, taken) /\ video_memory_access_ready /\ device) \in BOOLEAN
      /\ ~memory_strobe /\ ~io_command =>
           memory_access_ready(next, taken) /\ video_memory_access_ready /\ device
  BY <1>5 DEF memory_access_ready, video_memory_access_ready, ega_vram_cpu_cycle, memory_strobe,
              cmd_active, read_command, write_command
<1>7. ClockInv'
  BY <1>1, <1>3, <1>4, <1>5, ClockChipset
<1>8. CycleInv'
  BY <1>1, <1>3, <1>4, <1>5, CycleChipset
<1>9. HoldInv'
  BY <1>1, <1>3, <1>4, <1>5, HoldChipset
<1>10. BootInv'
  BY <1>1, <1>3, <1>4, <1>5, BootChipset
<1>11. LoaderInv'
  BY <1>1, <1>3, <1>4, <1>5, <1>9, LoaderChipset
<1>12. ReadyInv'
  BY <1>1, <1>3, <1>4, <1>6, ReadyChipset
<1>13. PortInv'
  BY <1>1, <1>3, <1>4, <1>5, <1>8, PortChipset
<1>14. TypeInv'
  <2>1. speed' \in 0 .. 3 /\ cpu_phase_acc' \in 0 .. edge_den(speed') - 1
        /\ cpu_clk_pin' \in BOOLEAN /\ cpu_ce_posedge' \in BOOLEAN /\ cpu_ce_negedge' \in BOOLEAN
    BY <1>1, <1>4, <1>5, ClockMoves
  <2>2. /\ biu_state' \in Rest \cup Active \cup {"06"} \cup Ending
        /\ clk_d1' \in BOOLEAN /\ clk_d2' \in BOOLEAN /\ s_bits' \in Kinds \cup {"jump"}
        /\ word_cycle' \in BOOLEAN /\ byte_num' \in BOOLEAN /\ place' \in Places
    BY <1>3 DEF TypeInv, Moves
  <2>3. start' \in 0 .. START
    BY <1>3, InputsAssumption DEF TypeInv, Moves
  <2>4. S2_S0_OUT' \in Status
    BY <1>3 DEF Moves, CycleInv, Status
  <2>5. strobed' \in Status /\ machine_cycle_period' \in BOOLEAN /\ machine_cycle' \in BOOLEAN
    BY <1>4 DEF BusController, TypeInv
  <2>6. /\ hold_request' \in BOOLEAN /\ armed' \in BOOLEAN
        /\ hold_request_ff_1' \in BOOLEAN /\ hold_request_ff_2' \in BOOLEAN
        /\ address_enable_n' \in BOOLEAN /\ dma_wait' \in BOOLEAN
    BY <1>4, <1>5, HoldMoves
  <2>7. /\ prev_bus_state' \in BOOLEAN /\ ready_n_or_wait' \in BOOLEAN
        /\ prev_ready_n_or_wait' \in BOOLEAN
        /\ processor_ready_ff_1' \in BOOLEAN /\ processor_ready_ff_2' \in BOOLEAN
    BY <1>4, OnlyIoArms DEF READY, TypeInv, io_command, dma_wait_n
  <2>8. /\ pos_seen' \in BOOLEAN /\ dip_ok' \in BOOLEAN /\ read_wait_count' \in 0 .. 1
        /\ answered' \in BOOLEAN
    BY <1>4 DEF MemoryPort, TypeInv, memory_strobe
  <2>9. ad_in_int' \in BOOLEAN /\ cause' \in BOOLEAN /\ half' \in BOOLEAN
    BY <1>4 DEF DataIn, Waits
  <2> QED
    BY <2>1, <2>2, <2>3, <2>4, <2>5, <2>6, <2>7, <2>8, <2>9 DEF TypeInv
<1> QED
  BY <1>7, <1>8, <1>9, <1>10, <1>11, <1>12, <1>13, <1>14

LEMMA Stutter ==
  ASSUME IInv, UNCHANGED vars
  PROVE  IInv'
<1>1. UNCHANGED <<half, clock, biu, bc, arbiter, readies, mem, cause>>
  BY DEF vars
<1> USE <1>1 DEF clock, biu, bc, arbiter, readies, mem
<1>2. cpu_edge' = cpu_edge /\ shift_read_timing' = shift_read_timing /\ strict' = strict
  BY DEF cpu_edge, shift_read_timing, strict
<1>3. TypeInv' /\ ClockInv' /\ CycleInv'
  BY <1>2 DEF IInv, TypeInv, ClockInv, CycleInv
<1>4. HoldInv' /\ BootInv' /\ LoaderInv'
  BY DEF IInv, HoldInv, GrantSafe, BootInv, Boot, LoaderInv, early, booting, hold_acknowledge
<1>5. ReadyInv' /\ PortInv'
  BY <1>2 DEF IInv, ReadyInv, PortInv, dipped, memK
<1> QED
  BY <1>3, <1>4, <1>5 DEF IInv

LEMMA Invariant == Spec => []IInv
<1>1. IInv /\ [Next]_vars => IInv'
  <2> SUFFICES ASSUME IInv, [Next]_vars PROVE IInv'
    OBVIOUS
  <2>1. CASE Next
    BY <2>1, CoreStep, ChipsetStep DEF Next, Edge
  <2>2. CASE UNCHANGED vars
    BY <2>2, Stutter
  <2> QED
    BY <2>1, <2>2
<1> QED
  BY Beginning, <1>1, PTL DEF Spec

(***************************************************************************)
(* Theorems                                                                *)
(***************************************************************************)

\* A strobe of memory that ends was answered.
LEMMA StrobeAnswered ==
  ASSUME TypeInv, ClockInv, CycleInv, HoldInv, PortInv, half, BusController,
         NEW lock_n \in BOOLEAN, BusArbiter(lock_n), RomLoader,
         NEW next, NEW taken, NEW back, MemoryPort(next, taken, back), memory_strobe, ~memory_strobe'
  PROVE  answered'
<1>1. answered => answered'
  BY DEF MemoryPort
<1>2. biu_state \in {"04", "06"} \cup Ending /\ memK /\ ~address_enable_n
  BY MemoryStrobe DEF CycleInv, TypeInv, Active
<1>3. CASE biu_state = "04"
  <2>1. strobed' = s_bits /\ machine_cycle'
    BY <1>2, <1>3 DEF BusController, CycleInv, passive, memK, Memory
  <2>2. ~address_enable_n'
    BY <1>2, <1>3, BusKept, HoldMoves
  <2> QED
    BY <1>2, <2>1, <2>2 DEF memory_strobe, memory_read, memory_write, command, memK, Memory
<1>4. CASE biu_state \in {"06"} \cup Ending
  BY <1>1, <1>2, <1>4, MemoryStrobe DEF PortInv
<1> QED
  BY <1>2, <1>3, <1>4

\* The bus states are those of the code and the phase of the CPU clock stays below
\* its divisor, through every change of speed (mcl86_biu_max.sv, XT_CE_Generator.sv).
THEOREM CycleTypes == Spec => []TypeOK
<1>1. IInv => TypeOK
  BY DEF IInv, TypeInv, TypeOK, Rest, Active, Ending, Status
<1> QED
  BY Invariant, <1>1, PTL

\* The loader never writes while a command of the CPU is on the bus, although it
\* looks at the grant once (rom_loader.sv, Bus_Arbiter.sv).
THEOREM LoaderWritesAlone == Spec => []LoaderAlone
<1>1. IInv => LoaderAlone
  BY DEF IInv, LoaderInv, CycleInv, LoaderAlone, command, booting, Rest
<1> QED
  BY Invariant, <1>1, PTL

\* No cycle has a wait state that nothing in this cycle caused (Ready.sv).
THEOREM NoIdleWaits == Spec => []WaitsHaveCause
<1>1. IInv => WaitsHaveCause
  BY DEF IInv, ReadyInv, WaitsHaveCause
<1> QED
  BY Invariant, <1>1, PTL

\* The arbiter never takes the bus from a command (Bus_Arbiter.sv).
THEOREM HoldSpares == Spec => HoldsBetweenCycles
<1>1. IInv /\ [Next]_vars =>
        [~address_enable_n /\ address_enable_n' =>
           ~(machine_cycle /\ strobed \notin {"halt", "passive"})]_vars
  <2> SUFFICES ASSUME IInv, Next, ~address_enable_n, address_enable_n'
               PROVE  ~(machine_cycle /\ strobed \notin {"halt", "passive"})
    OBVIOUS
  <2>1. ChipsetEdge
    BY DEF Next, Edge, CoreEdge, arbiter
  <2>2. half /\ cpu_ce_posedge /\ hold_acknowledge
    BY <2>1 DEF ChipsetEdge, BusArbiter
  <2>3. GrantSafe /\ ~clk_d2
    BY <2>2, EdgesSeen DEF IInv, HoldInv
  <2> QED
    BY <2>3 DEF GrantSafe, IInv, CycleInv, TypeInv, Rest, Active, Ending
<1> QED
  BY Invariant, <1>1, PTL DEF Spec, HoldsBetweenCycles

\* The CPU takes no byte and ends no strobe of memory before the port has
\* answered, at any speed (mcl86_biu_max.sv, Ready.sv, cpu_mem_port.sv).
THEOREM DataIsAnswered == Spec => AnswersAwaited
<1>1. IInv /\ [Next]_vars =>
        [(TakesData => ad_in_int) /\ (memory_strobe /\ ~memory_strobe' => answered')]_vars
  <2> SUFFICES ASSUME IInv, Next
               PROVE  (TakesData => ad_in_int) /\ (memory_strobe /\ ~memory_strobe' => answered')
    OBVIOUS
  <2>1. TakesData => ad_in_int
    BY DEF TakesData, IInv, PortInv, memK, Memory
  <2>2. CASE CoreEdge
    <3>1. memory_strobe' = memory_strobe
      BY <2>2 DEF CoreEdge, bc, arbiter, memory_strobe, memory_read, memory_write, command
    <3> QED
      BY <2>1, <3>1
  <2>3. CASE ChipsetEdge
    <3>1. half
      BY <2>3 DEF ChipsetEdge
    <3>2. PICK next   \in When(biu_done, Speeds, speed),
               lock_n \in When(cpu_ce_posedge /\ biu_state # "D0", BOOLEAN, TRUE),
               taken  \in When(cmd_active /\ ~answered, BOOLEAN, FALSE),
               back   \in When((read_command \/ ega_vram_cpu_cycle) /\ ~answered, BOOLEAN, FALSE) :
            BusController /\ BusArbiter(lock_n) /\ RomLoader /\ MemoryPort(next, taken, back)
      BY <2>3 DEF ChipsetEdge
    <3>3. lock_n \in BOOLEAN
      BY DEF When
    <3>4. memory_strobe /\ ~memory_strobe' => answered'
      BY <3>1, <3>2, <3>3, StrobeAnswered DEF IInv
    <3> QED
      BY <2>1, <3>4
  <2> QED
    BY <2>2, <2>3 DEF Next, Edge
<1> QED
  BY Invariant, <1>1, PTL DEF Spec, AnswersAwaited
===============================================================================
