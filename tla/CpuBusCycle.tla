----------------------------- MODULE CpuBusCycle -----------------------------
(***************************************************************************)
(* A bus cycle of the CPU and its wait states: the bus states of the 8088  *)
(* (mcl86_biu_max.sv), the 8288 (KF8288.sv), HOLD (Bus_Arbiter.sv), READY  *)
(* (Ready.sv), the readiness of cpu_mem_port.sv and the CPU clock that     *)
(* XT_CE_Generator.sv divides out of the chipset clock.                    *)
(*                                                                         *)
(* A step is an edge of the 100 MHz core clock; every other one is also an *)
(* edge of the chipset clock.  When the memory answers is left open: it    *)
(* may be late by any time.  DMA cycles are not modelled: HOLD is the ROM  *)
(* loader's, and reset may end in the middle of a download.                *)
(***************************************************************************)
EXTENDS Integers

CONSTANTS
  Speeds,       \* speeds in use: 0 4.77 MHz, 1 7.16 MHz, 2 9.54 MHz, 3 Max
  Downloads,    \* values of ioctl_download: {FALSE}, or BOOLEAN
  DeviceReady,  \* values of the readiness of I/O devices and the CGA: {TRUE}, or BOOLEAN
  Pauses,       \* values of pause_core: {FALSE}, or BOOLEAN
  START         \* core clocks from the end of reset to the first bus cycle (48)

\* The machine starts at 4.77 MHz.
ASSUME SpeedsAssumption == 0 \in Speeds /\ Speeds \subseteq 0 .. 3

\* The first bus cycle comes after the second rising edge of the CPU clock, which is
\* the time Bus_Arbiter takes after reset to know who has the bus.
ASSUME InputsAssumption ==
  /\ FALSE \in Downloads /\ Downloads \subseteq BOOLEAN
  /\ TRUE \in DeviceReady /\ DeviceReady \subseteq BOOLEAN
  /\ FALSE \in Pauses /\ Pauses \subseteq BOOLEAN
  /\ START \in Nat /\ START >= 34

Kinds == {"fetch", "read", "write", "io", "inta", "halt"}

\* Who has the memory of a cycle: cpu_mem_port (RAM and ROM, or the CGA's and the HGC's
\* memory), or the EGA's front end.
Places == {"ram", "video", "ega"}

VARIABLES
  half,                                                     \* the next edge is the chipset clock's too
  speed, cpu_phase_acc, cpu_clk_pin, cpu_ce_posedge, cpu_ce_negedge,   \* XT_CE_Generator
  biu_state, start, clk_d1, clk_d2, s_bits, word_cycle, byte_num, place,
  s2_s0_out_int, S2_S0_OUT, ad_in_int,                      \* the BIU; ad_in_int: it holds the answer
  strobed, machine_cycle_period, machine_cycle,             \* KF8288
  hold_request, armed,                                      \* rom_loader; armed: L_ARMED or L_WRITE
  hold_request_ff_1, hold_request_ff_2, address_enable_n, dma_wait,   \* Bus_Arbiter
  prev_bus_state, ready_n_or_wait, prev_ready_n_or_wait,
  processor_ready_ff_1, processor_ready_ff_2,               \* READY
  pos_seen, dip_ok, read_wait_count, answered,              \* cpu_mem_port
  cause                                                     \* history: this cycle was told to wait

clock   == <<speed, cpu_phase_acc, cpu_clk_pin, cpu_ce_posedge, cpu_ce_negedge>>
biu     == <<biu_state, start, clk_d1, clk_d2, s_bits, word_cycle, byte_num, place,
             s2_s0_out_int, S2_S0_OUT, ad_in_int>>
bc      == <<strobed, machine_cycle_period, machine_cycle>>
arbiter == <<hold_request, armed, hold_request_ff_1, hold_request_ff_2, address_enable_n, dma_wait>>
readies == <<prev_bus_state, ready_n_or_wait, prev_ready_n_or_wait,
             processor_ready_ff_1, processor_ready_ff_2>>
mem     == <<pos_seen, dip_ok, read_wait_count, answered>>
vars    == <<half, clock, biu, bc, arbiter, readies, mem, cause>>

(***************************************************************************)
(* The CPU clock: edge_num / edge_den edges per chipset clock              *)
(***************************************************************************)
edge_num(s) == CASE s = 1 -> 63 [] s = 3 -> 1 [] OTHER -> 21
edge_den(s) == CASE s = 0 -> 110 [] s = 1 -> 220 [] s = 2 -> 55 [] s = 3 -> 1

shift_read_timing == speed >= 2
strict            == speed = 3

biu_done     == biu_state = "0B" /\ s_bits # "fetch"
cpu_edge     == cpu_phase_acc + edge_num(speed) >= edge_den(speed)

CpuClockKeepsPhase(next) ==     \* mutant: the phase survives a change of speed
  LET speed_change == biu_done /\ next # speed
      edge == ~speed_change /\ cpu_edge
  IN  /\ speed' = IF speed_change THEN next ELSE speed
      /\ cpu_phase_acc' = IF speed_change THEN cpu_phase_acc
                          ELSE cpu_phase_acc + edge_num(speed) - (IF edge THEN edge_den(speed) ELSE 0)
      /\ cpu_clk_pin' = IF edge THEN ~cpu_clk_pin ELSE cpu_clk_pin
      /\ cpu_ce_posedge' = (edge /\ ~cpu_clk_pin)
      /\ cpu_ce_negedge' = (edge /\ cpu_clk_pin)

\* clk_select_next is loaded when the BIU is done.
CpuClock(next) ==
  LET speed_change == biu_done /\ next # speed
      edge == ~speed_change /\ cpu_edge
  IN  /\ speed' = IF speed_change THEN next ELSE speed
      /\ cpu_phase_acc' = IF speed_change THEN 0
                          ELSE cpu_phase_acc + edge_num(speed) - (IF edge THEN edge_den(speed) ELSE 0)
      /\ cpu_clk_pin' = IF edge THEN ~cpu_clk_pin ELSE cpu_clk_pin
      /\ cpu_ce_posedge' = (edge /\ ~cpu_clk_pin)
      /\ cpu_ce_negedge' = (edge /\ cpu_clk_pin)

cpu_ce_negedge_next(next) == ~(biu_done /\ next # speed) /\ cpu_clk_pin /\ cpu_edge

(***************************************************************************)
(* The BIU's bus states                                                    *)
(***************************************************************************)
clk_posedge == clk_d1 /\ ~clk_d2
clk_negedge == ~clk_d1 /\ clk_d2

sample_edge == IF shift_read_timing THEN clk_negedge ELSE clk_posedge

Go(state) == biu_state' = state

Await(edge, state) == Go(IF edge THEN state ELSE biu_state)

\* 00: a bus cycle for the EU or a prefetch, a jump, or nothing (the status bits of the
\* last cycle are put away: nothing looks at them before they are set again).
Dispatch ==
  \/ Go("00") /\ s_bits' = "halt" /\ word_cycle' = FALSE /\ UNCHANGED place
  \/ Go("0B") /\ s_bits' = "jump" /\ word_cycle' = FALSE /\ UNCHANGED place     \* without a bus cycle
  \/ /\ Go("01") /\ s_bits' \in Kinds
     /\ word_cycle' \in (IF s_bits' \in {"fetch", "halt"} THEN {FALSE}
                         ELSE IF s_bits' = "inta" THEN {TRUE} ELSE BOOLEAN)
     /\ place' \in (IF s_bits' \in {"fetch", "read", "write"} THEN Places ELSE {"ram"})

BusStates(pause) ==
  /\ CASE biu_state = "D0" -> Go(IF start = 0 THEN "00" ELSE "D0")
       [] biu_state = "01" -> Await(clk_posedge, "02")
       [] biu_state = "02" -> Await(clk_negedge, "03")
       [] biu_state = "03" -> Await(clk_negedge, "04")
       [] biu_state = "04" -> Await(clk_negedge, "05")
       [] biu_state = "05" -> Go(IF processor_ready_ff_2 /\ ~pause THEN "06" ELSE "04")
       [] biu_state = "06" -> Await(sample_edge, "07")
       [] biu_state = "07" -> Go("08")
       [] biu_state = "08" -> Go("09")
       [] biu_state = "09" -> Go("0A")
       [] biu_state = "0A" -> Await(shift_read_timing \/ clk_negedge,
                                    IF word_cycle /\ ~byte_num THEN "50" ELSE "0B")
       [] biu_state = "0B" -> Go("0C")
       [] biu_state = "0C" -> Go("00")
       [] biu_state = "50" -> Go("01")
       [] OTHER -> Dispatch
  /\ biu_state # "00" => UNCHANGED <<s_bits, word_cycle, place>>
  /\ start' = IF biu_state = "D0" /\ start > 0 THEN start - 1 ELSE start
  /\ byte_num' = (biu_state # "00" /\ (byte_num \/ (biu_state = "0A" /\ biu_state' = "50")))
  /\ s2_s0_out_int' = IF biu_state = "01" /\ clk_posedge THEN s_bits
                      ELSE IF biu_state = "05" /\ biu_state' = "06" THEN "passive"
                      ELSE s2_s0_out_int
  /\ S2_S0_OUT' = s2_s0_out_int
  /\ clk_d1' = cpu_clk_pin /\ clk_d2' = clk_d1

(***************************************************************************)
(* The 8288                                                                *)
(***************************************************************************)
passive == S2_S0_OUT = "passive"

BusController ==
  /\ strobed' = IF cpu_ce_negedge THEN S2_S0_OUT ELSE strobed
  /\ machine_cycle_period' = IF cpu_ce_posedge THEN ~machine_cycle /\ passive
                             ELSE machine_cycle_period
  /\ machine_cycle' = IF cpu_ce_negedge THEN ~passive /\ ~machine_cycle_period ELSE machine_cycle

command      == machine_cycle /\ ~address_enable_n
memory_read  == command /\ strobed \in {"fetch", "read"}
memory_write == command /\ strobed = "write"
io_command   == command /\ strobed = "io"
memory_strobe == memory_read \/ memory_write

\* The strobes of cpu_mem_port, and those of the EGA's front end.
read_command  == memory_read /\ place # "ega"
write_command == memory_write /\ place # "ega"
cmd_active    == read_command \/ write_command
ega_vram_cpu_cycle == memory_strobe /\ place = "ega"

(***************************************************************************)
(* HOLD                                                                    *)
(***************************************************************************)
hold_acknowledge == hold_request /\ (hold_request_ff_1 \/ hold_request_ff_2)

BusArbiterAnyTime(lock_n) ==     \* mutant: HOLD without looking at the status
  /\ hold_request_ff_1' = IF cpu_ce_posedge THEN lock_n /\ hold_request ELSE hold_request_ff_1
  /\ hold_request_ff_2' = IF cpu_ce_negedge
                            THEN hold_request /\ (hold_request_ff_2 \/ hold_request_ff_1)
                            ELSE hold_request_ff_2
  /\ address_enable_n' = IF cpu_ce_posedge THEN hold_acknowledge ELSE address_enable_n
  /\ dma_wait' = IF cpu_ce_posedge THEN address_enable_n ELSE dma_wait

BusArbiterForgets(lock_n) ==     \* mutant: the falling-edge copy does not keep HOLD
  /\ hold_request_ff_1' = IF cpu_ce_posedge
                            THEN S2_S0_OUT \in {"passive", "halt"} /\ lock_n /\ hold_request
                            ELSE hold_request_ff_1
  /\ hold_request_ff_2' = IF cpu_ce_negedge THEN hold_request /\ hold_request_ff_1
                            ELSE hold_request_ff_2
  /\ address_enable_n' = IF cpu_ce_posedge THEN hold_acknowledge ELSE address_enable_n
  /\ dma_wait' = IF cpu_ce_posedge THEN address_enable_n ELSE dma_wait

BusArbiter(lock_n) ==
  /\ hold_request_ff_1' = IF cpu_ce_posedge
                            THEN S2_S0_OUT \in {"passive", "halt"} /\ lock_n /\ hold_request
                            ELSE hold_request_ff_1
  /\ hold_request_ff_2' = IF cpu_ce_negedge
                            THEN hold_request /\ (hold_request_ff_2 \/ hold_request_ff_1)
                            ELSE hold_request_ff_2
  /\ address_enable_n' = IF cpu_ce_posedge THEN hold_acknowledge ELSE address_enable_n
  /\ dma_wait' = IF cpu_ce_posedge THEN address_enable_n ELSE dma_wait

hold_granted == ~processor_ready_ff_2 /\ address_enable_n

\* The loader asks for HOLD as long as the download lasts, and looks at the grant
\* once.  A download (the HPS sends it over SPI, in microseconds) lasts until the
\* bus is really held, and there are CPU clocks between two.
RomLoader ==
  \E ioctl_download \in Downloads :
    /\ hold_request /\ ~ioctl_download => armed /\ hold_request_ff_2 /\ address_enable_n /\ dma_wait
    /\ ~hold_request /\ ioctl_download =>
         ~hold_request_ff_1 /\ ~hold_request_ff_2 /\ ~(address_enable_n /\ dma_wait)
    /\ hold_request' = ioctl_download
    /\ armed' = (ioctl_download /\ (armed \/ hold_granted))

(***************************************************************************)
(* Readiness of the memory port and of the EGA's front end                 *)
(***************************************************************************)
DipLate(next) == dip_ok     \* mutant: a clock after the last one

dip_now(next) == dip_ok \/ (pos_seen /\ cpu_ce_negedge_next(next))

may_dip(next) == strict \/ dip_now(next)

\* taken: the access is accepted in this clock and needs no answer (a hit, a write).
access_ready(next, taken) ==
  IF read_command THEN (taken /\ ~strict) \/ answered \/ ~may_dip(next)
                  ELSE answered \/ taken \/ ~may_dip(next)

memory_access_ready(next, taken) ==
  cmd_active => access_ready(next, taken) /\ (read_command => read_wait_count = 0 \/ place = "video")

\* The front end lets every access wait until it has performed it.
video_memory_access_ready == ega_vram_cpu_cycle => answered

MemoryPort(next, taken, back) ==
  /\ pos_seen' = (cmd_active /\ (pos_seen \/ cpu_ce_posedge))
  /\ dip_ok' = (cmd_active /\ dip_now(next))
  /\ read_wait_count' = IF ~read_command THEN (IF strict THEN 1 ELSE 0)
                        ELSE IF cpu_ce_negedge /\ read_wait_count # 0 THEN read_wait_count - 1
                        ELSE read_wait_count
  /\ answered' = (memory_strobe /\ (answered \/ taken \/ back))

(***************************************************************************)
(* READY                                                                   *)
(***************************************************************************)
\* The wait state of a cycle by itself.  AEN is low in the CPU's cycles, so only
\* their I/O has one.
bus_state ==
  \/ io_command
  \/ memory_read /\ address_enable_n
  \/ (strict \/ place = "video") /\ memory_write /\ address_enable_n

dma_wait_n == ~dma_wait

ReadyStays(io_channel_ready) ==     \* mutant: the wait state is not cleared
  /\ prev_bus_state' = bus_state
  /\ ready_n_or_wait' = (~io_channel_ready \/ ready_n_or_wait \/ (~prev_bus_state /\ bus_state))
  /\ prev_ready_n_or_wait' = IF cpu_ce_posedge THEN ready_n_or_wait ELSE prev_ready_n_or_wait
  /\ processor_ready_ff_1' = IF cpu_ce_posedge THEN dma_wait_n /\ ~ready_n_or_wait
                             ELSE processor_ready_ff_1
  /\ processor_ready_ff_2' = IF cpu_ce_negedge
                               THEN processor_ready_ff_1 /\ dma_wait_n /\ ~ready_n_or_wait
                               ELSE processor_ready_ff_2

READY(io_channel_ready) ==
  /\ prev_bus_state' = bus_state
  /\ ready_n_or_wait' = IF ~io_channel_ready THEN TRUE
                        ELSE IF prev_ready_n_or_wait THEN FALSE
                        ELSE IF ~prev_bus_state /\ bus_state THEN TRUE
                        ELSE ready_n_or_wait
  /\ prev_ready_n_or_wait' = IF cpu_ce_posedge THEN ready_n_or_wait ELSE prev_ready_n_or_wait
  /\ processor_ready_ff_1' = IF cpu_ce_posedge THEN dma_wait_n /\ ~ready_n_or_wait
                             ELSE processor_ready_ff_1
  /\ processor_ready_ff_2' = IF cpu_ce_negedge
                               THEN processor_ready_ff_1 /\ dma_wait_n /\ ~ready_n_or_wait
                               ELSE processor_ready_ff_2

(***************************************************************************)
(* Edges                                                                   *)
(***************************************************************************)
\* The data on the bus is the answer of the port or of the front end.
DataIn == ad_in_int' = (memory_read /\ answered)

\* Inputs are only chosen where the circuit looks at them; there is no LOCK before the
\* first instruction.
When(looks, values, other) == IF looks THEN values ELSE {other}

CoreEdge ==
  /\ ~half
  /\ \E pause \in When(biu_state = "05", Pauses, FALSE) : BusStates(pause)
  /\ UNCHANGED <<clock, bc, arbiter, readies, mem>>
  /\ cause' = (biu_state # "01" /\ cause)

ChipsetEdge ==
  /\ half
  /\ \E pause \in When(biu_state = "05", Pauses, FALSE) : BusStates(pause)
  /\ \E next   \in When(biu_done, Speeds, speed),
        lock_n \in When(cpu_ce_posedge /\ biu_state # "D0", BOOLEAN, TRUE),
        taken  \in When(cmd_active /\ ~answered, BOOLEAN, FALSE),
        back   \in When((read_command \/ ega_vram_cpu_cycle) /\ ~answered, BOOLEAN, FALSE),
        device \in When(io_command \/ (cmd_active /\ place = "video"), DeviceReady, TRUE) :
       LET ready == memory_access_ready(next, taken) /\ video_memory_access_ready /\ device
           told  == cause \/ ~ready \/ (~prev_bus_state /\ io_command)
       IN  /\ CpuClock(next) /\ BusController /\ BusArbiter(lock_n) /\ RomLoader
           /\ MemoryPort(next, taken, back) /\ READY(ready)
           /\ cause' = (dma_wait \/ (biu_state # "01" /\ told))

Edge == (CoreEdge \/ ChipsetEdge) /\ DataIn /\ half' = ~half

Init ==
  /\ half = FALSE
  /\ speed = 0 /\ cpu_phase_acc = 0 /\ cpu_clk_pin = FALSE
  /\ cpu_ce_posedge = FALSE /\ cpu_ce_negedge = FALSE
  /\ biu_state = "D0" /\ start = START /\ clk_d1 = FALSE /\ clk_d2 = FALSE
  /\ s_bits = "halt" /\ word_cycle = FALSE /\ byte_num = FALSE /\ place = "ram"
  /\ s2_s0_out_int = "passive" /\ S2_S0_OUT = "passive" /\ ad_in_int = FALSE
  /\ strobed = "passive" /\ machine_cycle_period = TRUE /\ machine_cycle = FALSE
  /\ hold_request \in Downloads /\ armed \in {FALSE, hold_request}
  /\ hold_request_ff_1 = FALSE /\ hold_request_ff_2 = FALSE
  /\ address_enable_n = TRUE /\ dma_wait = FALSE
  /\ prev_bus_state = TRUE /\ ready_n_or_wait = TRUE /\ prev_ready_n_or_wait = FALSE
  /\ processor_ready_ff_1 = FALSE /\ processor_ready_ff_2 = FALSE
  /\ pos_seen = FALSE /\ dip_ok = FALSE /\ read_wait_count = 0 /\ answered = FALSE
  /\ cause = FALSE

Next == Edge
Spec == Init /\ [][Next]_vars

\* The clocks run, and the memory answers in the end (StrobesAnswered, EveryTxnEnds).
FairSpec == Spec /\ WF_vars(Edge) /\ SF_vars(Edge /\ half /\ memory_strobe /\ answered')

(***************************************************************************)
(* Properties                                                              *)
(***************************************************************************)
TypeOK ==
  /\ biu_state \in {"D0", "00", "01", "02", "03", "04", "05", "06", "07", "08", "09", "0A", "0B", "0C", "50"}
  /\ cpu_phase_acc \in 0 .. edge_den(speed) - 1
  /\ s_bits \in Kinds \cup {"jump"} /\ S2_S0_OUT \in Kinds \cup {"passive"} /\ strobed \in Kinds \cup {"passive"}
  /\ place \in Places /\ read_wait_count \in 0 .. 1

\* The CPU never takes a byte of memory before the port or the EGA's front end has
\* answered, and ends no strobe before the write is taken or the read answered: an answer
\* that is late by any time is waited for.  CpuMemPort takes it for granted of the bus.
TakesData == biu_state = "06" /\ sample_edge /\ s_bits \in {"fetch", "read"}
AnswersAwaited ==
  [][(TakesData => ad_in_int) /\ (memory_strobe /\ ~memory_strobe' => answered')]_vars

\* A memory cycle that neither the port nor the video told to wait has no wait state, a
\* write at Max neither: none is left over from the cycle before, and none is armed at
\* its start.  The comment at Ready.sv:37-47 wants that of writes at Max; the code
\* cannot, since its term asks for AEN, which no cycle of the CPU has.
WaitsHaveCause == biu_state = "05" /\ ~processor_ready_ff_2 => cause

\* Every bus cycle comes to its end: wait states do not go on by themselves.
BusCyclesEnd == biu_state = "01" ~> biu_state = "0B"

\* While the loader writes, no command of the CPU is on the bus, although the loader
\* looks at the grant once, and after a reset in the middle of a download too.
LoaderAlone == armed => ~command

\* HOLD never cuts a command off: the bus goes to the loader between bus cycles.
HoldsBetweenCycles ==
  [][~address_enable_n /\ address_enable_n' => ~(machine_cycle /\ strobed \notin {"halt", "passive"})]_vars
===============================================================================
