# PCXT core: a verification development in TLA+

The repository holds an FPGA core of the IBM PC/XT, the Tandy 1000 and the PCjr for the MiSTer
board: a microcoded 8088, its chipset, peripherals, video and sound cards, and the memory
system that puts all of them on one SDRAM chip. With it come two programs: a server that
gives the machine a disk over a serial line, and the software model of the OPL3 that its sound
chip was developed against. This directory models the parts in which several actors meet (clock
domains, bus masters, bursts that overlap inside the SDRAM, a server and its client on a bad
line) or in which the order of calls decides what happens (a sound chip's registers),
checks them with TLC on small instances and proves theorems about them with TLAPS for every
value of their parameters.

1. [The system](#1-the-system) – inventory of the components
2. [The modules](#2-the-modules) – what models what, and how the models fit together
3. [The runs](#3-the-runs) – what TLC checks, bounds and fairness
4. [The proofs](#4-the-proofs)
5. [Findings](#5-findings)
6. [Limits](#6-limits) – what is assumed, abstracted and left out
7. [Plan](#7-plan)

## 1. The system

```
 clk_chipset 50 MHz (CPU core 100 MHz)                    clk_sdram 114.5 MHz

 8088 --status--> 8288 --strobes--> cpu_mem_port --+
   ^ READY: Ready.sv <-- readiness --+      ^      +--> txn_mux --> xbridge ==> CPU --+
   | HOLD:  Bus_Arbiter              |      |      |                                  |
   |          ^     ^                EGA front end-+                                  v
   |          |     8237 (DMA)              | flush                 sdram_arbiter --op--> sdram_ctrl --> chip
   |          |                             |                                         ^ ^
   +----- rom_loader -----------------------+----------------> xbridge ==> LDR -------+ |
              ^                                  ram_clear (after power-up) => LDR      |
          HPS (ioctl)                     vram_fetch (CGA, HGC), EGA -> vid_mux => VID -+
```

`==>` and `=>` are ports of the arbiter (`sdram_port` in `sdram_pkg.sv`). The fourth one, AUX, is
implemented but tied to 0 in `PCXT.sv`.

Memory side (`src/rtl/mem`, `src/platform/mister`)

| Component | State | Operations and partners | What is hard, and what must hold |
|---|---|---|---|
| `sdram_ctrl.sv` | power-up state, tables of booked column commands, DQ drive and captures, bank/tRRD/tRFC timers | takes the operation in the arbiter's holding register when all its commands have free slots; sends ACTIVE, READ/WRITE with auto-precharge, REFRESH; returns words with tag and last flag | accesses of different banks overlap: no two commands on one edge, DQ never driven from both sides, no read masked, all timing rules of the chip; every word to its owner, in order |
| `sdram_arbiter.sv` | holding register, refresh timer and debt, ages of LDR and AUX | chooses among VID, CPU, LDR, AUX and refresh; acknowledges by capturing; swaps an optional refresh for an access | no refresh lost or sent twice, bounded debt, bounded latency of the CPU, nobody starves |
| `sdram_xbridge.sv` | request/answer toggles, synchronizers, read buffer | carries one transaction at a time from a client's clock to clk_sdram and back | two unrelated clocks, metastability, unsynchronized fields, reset of the two sides at different clocks: each transaction exactly once, with its own fields |
| `cpu_mem_port.sv` | owner of the strobe, two lookahead lines, a deferred CGA write, readiness timers | accepts strobes of the 8288, posts writes, starts reads early, answers from a line, tells READY to wait | a read must see every earlier write wherever it is; the loader's flush; an answer that is late at one CPU speed |
| `mem_map(_ega).sv` | none | address to SDRAM word, write protection, video | pure data |
| `sdram_txn_mux.sv`, CPU side of `ega_vram_sdram_frontend.sv` | owner of the transaction; the front end's access | put the CPU memory port and the EGA's front end on one bridge | the owner is known at the start only; masters are reset at different times: every answer to who asked |
| `rom_loader.sv`, `ram_clear.sv` | download state, clear counter | write ROMs from the HPS while the CPU is held; clear memory at reset | HOLD is looked at once; switching from one to the other |
| `vid_mux.sv`, `vram_fetch.sv` | reads in flight, line buffers | fetch video lines against a deadline, snoop CPU writes | stale choice, FIFO of four owners, a write during a fetch |

CPU and bus (`src/rtl/8088`, `src/rtl/KFPC-XT/HDL`)

| Component | State | Operations and partners | What is hard, and what must hold |
|---|---|---|---|
| `XT_CE_Generator.sv` | phase accumulator, CPU clock level, enables | divides the chipset clock by the ratio of the chosen speed; the speed changes between bus cycles | a phase left over from another speed |
| `mcl86_biu_max.sv` | bus state, prefetch queue, second byte of a word | runs bus cycles on edges of the CPU clock, waits for READY and for a pause | data must be there at the sample; every cycle ends |
| `KF8288.sv` | strobed status, machine cycle | turns the status into commands | strobes must last until the port has answered |
| `Ready.sv` | wait state and two flip-flops | lets the BIU wait for memory, I/O, DMA | waits neither lost nor left over |
| `Bus_Arbiter.sv` | HOLD flip-flops, AEN, DMA's wait | HOLD for the 8237 and the ROM loader | never under a command; two requesters |
| `mcl86_eu_core.sv`, microcode | registers, microprogram | asks the BIU for bus cycles | data path, little concurrency |
| `KF8237`, `KF8259`, `KF8253`, `KF8255`, `KFPS2KB`, `CGA_Bus_Wait.sv` | registers of the PC's chips | I/O cycles of the CPU, DREQ/DACK, IRQ/INTA, PS/2 | spurious interrupts, EOI, DMA against the loader, a key dropped while another waits |
| `rom_presence_latch.sv`, `bios_hold_notice.sv`, `keyboard_warm_reset.sv`, `pcjr_cold_boot.sv`, `splash_f12_pause.sv`, … | latches and timers in `PCXT.sv` | hold the machine in reset until a BIOS is there; notices; pause | partial downloads, a pause inside a bus cycle |
| Floppy, IDE, SD card, UART, MPU-401, sound, video cards | their registers | behind the I/O decoder, partly run by the HPS | FIFOs, HPS handshakes; mostly derived from other projects |
| `sys/`, the rest of `SW/`, `hdd/`, `vendor/` | – | framework of all MiSTer cores, DOS tools, BIOS sources | not this core's logic |

Programs

| Component | State | Operations and partners | What is hard, and what must hold |
|---|---|---|---|
| Serial server (`SW/Serial_Server`) | command line, images, the command or sector being collected, the work under way, the time of the last bytes | creates and opens images, connects a port or a pipe, answers inquiries, reads and writes sector by sector | options and sizes that make a wrong disk; bytes lost, damaged or late, a client that gives up, a pipe closed at any moment: no sector is written but the one the client asked for, and no confirmation is false |
| OPL3 model (`jtopl/doc/opl3.c`) | 36 operators, 18 channels, a ring of timed writes | register writes at once or through the ring, samples | routing, keys and pitch are changed write by write while channels are joined and parted: what the chip plays must not depend on what it was before; a ring that is full; keys too short for a sample |

`PROJECT.json` lists every component with its files, whether it is modelled, and why not; and
under "hazards" each line at which something can go wrong that a test bench would hardly reach,
with the properties that would notice.

## 2. The modules

```
   SdramPkg  SdramWires
       |         |
   SdramCtrl   SdramChip          SerialMemory        TxnPort
       |    \   /                      ^                 ^
 SdramArbiter SdramBus  <- - - - SdramBusMemory      SdramXbridge
        \     /                                          ^
       SdramSystem  - - - - implements SdramBus     SdramTxnMux
                                                         . (EveryTxnEnds, exactly once, AnswersOwn)
                                                     CpuMemPort
                                                         . (AnswersAwaited, StrobesAnswered)
                                                     CpuBusCycle

   SerialImage                    Opl3Envelope
    /       \                         |
 SerialSetup SerialServer         Opl3Channels
                 .                    |
              SerialDisk            Opl3
```

| Module | Source | State and actions |
|---|---|---|
| `SdramPkg` | `sdram_pkg.sv`, localparams of `sdram_ctrl.sv` | Geometry, timing, operations. A payload is a value of `Byte` per lane. |
| `SdramWires` | `sdram_ctrl.sv` | The two registers everyone shares: `op`, the holding register, and `pins`, the command on the pins. |
| `SdramCtrl` | `sdram_ctrl.sv` | One step is an edge of clk_sdram. A table of the code ("what happens n edges from now", a shift register) is the set of its occupied slots with their distance `at`. `CtrlClock` is `PowerUp`, `IssueAccess`, `IssueRefresh`, `SendColumn` or `Wait`; each books into the tables, shifts them and counts the timers down. `OpIssue` is the code's `op_issue`. |
| `SdramChip` | `TESTBENCH/sdram_model.sv` | The chip: open rows, time since each command, its read pipeline, DQM delay, array. What the test bench calls `fail()` for is stated as `CommandsLegal` (of a row's opening, of a column and of a refresh), `NoContention` and `NoMaskedRead`. |
| `SdramBus` | both | Controller and chip, with any operation the arbiter might hold: `op` changes only when free, or away from a refresh. |
| `SerialMemory` | the protocol in `sdram_pkg.sv` | Abstract: a memory that performs operations one at a time and returns the words later, in order. |
| `SdramBusMemory` | – | `SdramBus` with two history variables that make the refinement to `SerialMemory` a mapping. |
| `SdramArbiter` | `sdram_arbiter.sv` | `Sel` is the priority list, `Grant` what is captured, `Swap` the exchange of an optional refresh, one operator per counter. Clients hold a request until it is captured. History: refreshes owed, refreshes in front of the CPU, whether `op` was a low-priority choice. |
| `SdramSystem` | `PCXT.sv` wiring | Arbiter, controller and chip; shown to implement `SdramBus`. |
| `TxnPort` | `sdram_xbridge.sv`, client side | Abstract: one transaction at a time, captured once, answered once. |
| `SdramXbridge` | `sdram_xbridge.sv`, reset in `PCXT.sv` | A step is an edge of either clock or of both. A flip-flop that samples a signal on the edge on which it changes takes either value. Resets come at any moment and end in the order of `PCXT.sv` (the client's side after 65536 of its clocks, then two more of clk_s). |
| `SdramTxnMux` | `sdram_txn_mux.sv`, the transactions of `cpu_mem_port.sv`, the CPU side of `ega_vram_sdram_frontend.sv`, resets in `PCXT.sv` | The bridge with its two masters and the bus cycle they serve. Whether a read is answered from a lookahead line is left open (`hit`); `CpuMemPort` knows. |
| `CpuMemPort` | `cpu_mem_port.sv` | A step is a chipset clock. `accept_*`, `post_dw`, `own_answer`, `cover_answer` have the code's names; the bridge is a port of one transaction; `want` is what a memory without any buffering would hold. |
| `CpuBusCycle` | BIU, 8288, READY, Bus_Arbiter, XT_CE_Generator, readiness part of `cpu_mem_port.sv`, HOLD of `rom_loader.sv` | A step is an edge of the 100 MHz clock, every other one also of the chipset clock. Bus states have the code's hexadecimal names. The EU asks for any legal sequence of cycles; a memory cycle goes to RAM, to the CGA's or HGC's memory or to the EGA's (`place`); port and EGA answer at any time, I/O and the CGA are ready at any time. |
| `SerialImage` | `FlatImage.h`, `Image.cpp`, `LinuxFile.h`, `Win32File.h`, the option loops of `Linux.cpp` and `Win32.cpp` | No state: what each argument does to the variables of `main`, which files and options make an image, with which geometry, which sector an address means. The platform is a parameter where the two builds differ. |
| `SerialSetup` | `main` on both platforms | An action is an argument, a creation that breaks off, the end of the command line, another start over the same files. |
| `SerialServer` | `processRequests`, `Serial.cpp`, `LinuxSerial.h`, `Win32Serial.h` | A step of the server is a `readCharacters` that returned and what the loop makes of it; the branches of the loop are actions (`LookAtCharacter`, `BadSector`, `WriteSector`, `ContinueFault`, `BadCommand`, `Continue`, `NewCommand`, …). The line loses and changes bytes; a pipe can be closed. The client is a BIOS outside `src/`: it sends a command, sectors and acknowledgements and gives up when a reply is wrong or does not come. A byte is its value and the message it belongs to, so a checksum is right exactly when one whole message is there. `Whole`: the COMMTIMEOUTS of a Windows port are zero (`Win32Serial.h:74-105`), so a read of it returns when all bytes it asked for are there, and fewer stay in the port; on Linux and on a pipe it returns what has come. |
| `SerialDisk` | – | Abstract: a disk whose requests are performed sector by sector; a confirmed sector is there. |
| `Opl3Envelope` | `opl3.c`, envelope generator and slot registers | No state: one operator's level and phase of its envelope, before and after a sample, at any counts of the shared counters. |
| `Opl3Channels` | `opl3.c`, channels | No state: the chip as a record and what each register write makes of it. A `mod` pointer is the number of the slot it points into. |
| `Opl3` | `opl3.c`, `OPL3_WriteReg`, `OPL3_WriteRegBuffered`, `OPL3_Generate`, `OPL3_Reset` | An action is a call. Times count from `writebuf_samplecnt`, so that no counter grows. |
| `*Proofs` | – | Theorems, see section 4. |
| `MC*` | – | Instances for TLC. |

A definition whose comment says "mutant:" is a plausible bug: the form the definition below it
could have had. For each property of each run one of them, put in the place of the real one, makes TLC
find a violation; `PROJECT.json` says which.

How the assumptions of one module are discharged by another:

- `SdramBus` accepts any sequence of operations; `SdramSystem` shows (proved) that the arbiter's
  are among them, so the chip's rules, contention freedom and unmasked reads hold of the whole.
- `SdramXbridge` assumes of the arbiter that it acknowledges and returns words in the end
  (`WF_muxVars(MuxServe)`): `NobodyStarves`, and `SerialMemory` (proved) for the words.
- `SdramArbiter` assumes that a client holds its request unchanged until acknowledged: in
  `SdramXbridge` this is part of `Handshake` (a request stands until it is captured) and
  `CrossingsSettled` (its fields do not move meanwhile), both proved.
- `CpuMemPort` assumes a port of one transaction performed once (`ImplementsTxnPort`, proved)
  that ends (`EveryTxnEnds`) and whose answers are its own although it shares the bridge
  (`AnswersOwn`, proved); that strobes are held until answered (`AnswersAwaited`
  in `CpuBusCycle`, proved); and that the ROM loader writes only between bus
  cycles (`LoaderAlone`, `HoldsBetweenCycles`, proved).
- `SerialServer` starts with every image that its command lines make, by `SerialImage`'s `Main`, and assumes of them
  that they have a geometry that fits their file (`Fits` in `StartsAssumption`): `GeometryFitsFile` in `SerialSetup`, proved.
- `CpuBusCycle` leaves open when the memory answers, and for liveness assumes that a held
  strobe is answered in the end: `StrobesAnswered` in `CpuMemPort`.

`SdramTxnMux` composes the bridge with its masters' transactions. `CpuMemPort`'s data and `SdramSystem` are not
composed with it in one state space; the contract between them is `TxnPort` on one side and "port.phase" of `CpuMemPort` on the other: free, asked,
served, done are idle, asked, answered and the clock of `a_done`. In `CpuMemPort` a client
may start again one clock after `a_done`, as `a_busy` allows.

## 3. The runs

All pass but `serial_slow`, section 5. Deadlock is checked in every run.

| Run (cfg) | Question | Instance, and why it is enough |
|---|---|---|
| `sdram_bus` (MCSdramBusMemory) | Is every command legal, DQ safe, and does the chip look like a serial memory? | The code's timing (CL 3, tRCD 3, tRP 3, tRAS 5, tRC 7, tWR 2, tRRD 2, tRFC 8; RDD 4) and DQM on A[12:11]. Two banks, because every conflict is between accesses of one bank or of two different ones; a low and a high row; bursts of 1, 2 and 4 reads and 1 and 2 writes, with partial byte enables; refreshes at any moment. Two byte values tell apart what was written when. |
| `sdram_system` (MCSdramSystem) | Arbiter, controller and chip together: are refreshes kept, is the CPU's latency bounded, and is the controller fed only as `SdramBus` allows? | VID in bank 1, CPU reads in bank 0, LDR and AUX silent. The display's rate against that of the refreshes decides here, so the timing is shorter in proportion (CL 2, tRCD 1, tRC 4, tRFC 5, T_REFI 36 for 894, DEBT_MAX 2 for 8; `sdram_bus` has the code's): forced refreshes do occur, and an urgent video read in front of them. VID_BURST 2 and VID_PERIOD 18: two reads that become urgent at once, as cell and glyph of an EGA character, and one in 18 clocks in the long run, with d = 6 the share of the EGA's 28 with d = 10. LAT_MAX 23 is tight: a video read is held when the CPU asks, an urgent one and a forced refresh pass it, and its own word comes after 22 clocks. |
| `sdram_live` (MCSdramArbiterLive) | Does a client starve? | LDR in bank 0, AUX in bank 1 (`PCXT.sv` leaves AUX unused, the arbiter has it), and a CPU that may ask on every clock; shorter timing (tRC 3) and T_STARVE 10 for 255, so that the lasso stays short. VID is silent here: while it is urgent it has the right to be first, and how often that is depends on the display; `sdram_system` has it. |
| `sdram_xbridge` (MCSdramXbridge) | Is every transaction performed once, does it end, and does its answer reach the master that asked? | Two synchronizer stages, as instantiated; a write and a read of one word by the CPU memory port, as up to 7.16 MHz, and of two words by the EGA's front end; two word values; resets of the machine, the video and the memory at any moment. Bursts longer than two words make the state space too large; what `SdramXbridgeProofs` proves holds for every length. |
| `cpu_port_video` (MCCpuMemPortVideo) | Is any write lost or overtaken, with deferred CGA writes sent to two places; is every strobe answered? | One speed with single-word reads, one byte per word, three words: RAM, a CGA word that is also written to HGC memory, that HGC word; early reads. |
| `cpu_port_rows` (MCCpuMemPortRows) | Do lookahead lines stay equal to the memory at Max, at the end of a row, under the ROM loader? | A row of 4 words instead of 512: bursts of 4, 2 and 1 all occur, and both lines can hold the same word at different starts. A ROM word the loader replaces, next to a RAM word; both lanes, byte and word accesses. |
| `cpu_bus_cycle` (MCCpuBusCycle) | Does the CPU ever take a byte too early, lose a wait state or keep one too many; is the loader alone on the bus? | 4.77 and 9.54 MHz and Max with changes between them. 7.16 MHz differs from 4.77 only in its ratio (63/220 for 21/110), which makes its period 220 chipset clocks instead of 110 and the state space too large for a run beside the others. I/O devices and, in cycles of its memory, the CGA ready or not on any clock (`CGA_Bus_Wait.sv` makes one of these sequences), an EGA that answers at any time, pauses, downloads, and resets that end inside a download. START 48: the core clocks before the first bus cycle, as the reset sequence of the microcode has at least. |
| `cpu_bus_live` (MCCpuBusLive) | Does every bus cycle end? | 4.77 MHz and Max, no download, no pause and no device that is not ready: each stops the CPU for as long as somebody outside likes. |
| `serial_setup` (MCSerialSetup) | Does any command line, over any files, make a disk that is not the file's, or change a file? | Both platforms; a file of three standard cylinders, one of half a sector more, one that is not there; `-n` of a floppy, of more cylinders than fit and beyond 28 bits of LBA; `-g` alone, the largest, the file's and one without heads; two options per image at most, two images; creations that break off at nothing and after one cylinder; starts over what the last one left. |
| `serial_server` (MCSerialServer) | What does the client get on a line that loses and damages bytes, or on a pipe that is closed? | Commands of 4 bytes and sectors of 5 instead of 8 and 514: the code compares lengths with each other only, and 1 < 4 < 5 keeps their order. Drives of two sectors, requests of one or two; two byte values, one of which (160) looks like the head of a command. Two faults. Four command lines: one disk on a line, on Linux and on Windows; a floppy and a disk, whose order the server swaps, and a read-only and a writable disk, on a pipe. |
| `serial_slow` (MCSerialSlow) | Is "timeout waiting on data" the client's fault? | One disk at 4800 baud; violated, section 5. |
| `opl3` (MCOpl3) | Do the chip's routing, keys, pitch and ring survive any order of writes and samples? | Four programs. `joining`: a pair of channels joined, parted, keyed, connected and tuned in both modes. `rhythm`: the drums' channels with the rhythm on and off. `playing`, `plucking`: one channel through the ring, with a gradual and with an instant attack. The ring has 2 places for 1024: it wraps and overflows at once; every size is the proofs' (`Opl3Proofs`). The code's delay of 2. |

### Properties worth a word

- `ImplementsSerialMemory`: whatever overlaps inside chip and controller, a client cannot tell
  the memory from one that performs operations one by one when they are captured.
- `RefreshLedger`: ticks of the timer minus refreshes on the pins is exactly the debt plus what is
  in the holding register – the swap gives refreshes back, and the four-bit counter must not lose any.
- `CpuLatencyBound`, with `OneRefreshAhead` as a part: the arbiter's comment promises the CPU at most one
  refresh in front of it; the bound is what that, an access in the holding register and an
  urgent video read add up to.
- `Handshake`: the invariant that makes the bridge work; `CrossingsSettled` is its comment that
  unsynchronized fields "are stable for at least one destination clock when they are used".
- `AnswersOwn`: the mux notes a transaction's master when it starts and only then, while a posted write or an early
  read of the other may be crossing and a reset may take one master out of its access and leave the
  other in the middle of its own.
- `ReadsLatest`, `LookaheadCoherent`, `NothingLost`: coherence of five places in which a byte
  may be (memory, two lines, the posted write, the deferred write).
- `AnswersAwaited`: `cpu_mem_port.sv` lets readiness dip only in a window that closes
  with the CPU clock's first edges; the property says that the window is wide enough at each speed:
  the CPU takes no byte, and drops no strobe, before the answer is there.
- `WaitsHaveCause`: a wait state that READY keeps from the last cycle would slow the next one. It also says that memory
  writes at Max have no wait state of their own, which a comment in `Ready.sv` says they have (section 5).
- `LoaderAlone`: `rom_loader.sv` looks at its grant once, and the grant is the level of two registers that
  reset sets as if the bus were granted; nevertheless no command of the CPU is on the bus while it writes.
- `GeometryFitsFile`, `SectorsReachable`: sizes, geometries, the two halves of a file size and the words of
  an inquiry have 16, 28, 32 bits in different places; every sector the client is told of must come out
  of the address it makes of what it was told.
- `ImplementsSerialDisk`: with faults, aborted commands, retries and closed pipes in between, disk
  and confirmations are those of a disk without a line.
- `OneRetryEnough`: a damaged sector is dropped with its command still counted as open, so the next request
  can fail although nothing disturbs it; never a second one, on Linux and on a pipe. On a Windows port it is not so (section 5).
- `EveryNoteStarts`: between samples the envelope sees nothing, so a note that is keyed off and on again at once
  would not start anew. The ring's delay sees to it, unless the ring overflows (`rushed`).
- `VoicesWhole`: after its C0 is written, each operator of a voice is either mixed, once, or modulates
  another one, whatever the voice's operators were before; and at every moment an operator
  is modulated by one that a sample works out before it.
- `NoNoteHangs`: notes may be held while channels are joined and parted, so that a key's off reaches other
  operators than its on did. When then every channel is keyed off in its present kind, nothing sounds on.

### Fairness

Hardware clocks do not stop: `[]<><<Next>>_vars` in `SdramArbiter` (the refresh counter changes
on every clock, so this excludes nothing but stopping), `WF` of `MuxClockA`, `MuxClockS`, `Clock` and `Edge`
elsewhere. What depends on another component is stated separately: `WF_muxVars(MuxServe)` in
`SdramTxnMux` (the arbiter), `WF_vars(Clock /\ Serve)` and `WF_vars(Clock /\ Finish)` in `CpuMemPort` (the bridge).
`CpuBusCycle` needs strong fairness of the answer, `SF_vars(Edge /\ half /\ memory_strobe /\ answered')`:
while the CPU waits the strobe stands and the answer is possible on every other edge only
(the chipset clock's), so weak fairness would say nothing; it is what `StrobesAnswered`
promises of a strobe that stands (`EveryTxnEnds` for the EGA's). No property relies on the CPU's or a client's asking.

The serial server and the OPL3 model state safety only: the server may be stopped and the client silent
at any time, and samples are taken when a caller asks for them.

### Resets

The SDRAM modules start at power-up, which is their only reset. `SdramXbridge` is reset at any moment.
`SdramTxnMux` has three resets: the machine's, which ends the bus cycle; the video's, which clears the front end and
leaves it alone when the reset is a cartridge's (`video_retime_reset`); the memory's (`reset_sdram`), which includes both.
The machine's lasts 65536 clocks, in which the front end comes to rest (`ResetEnds`); were it
shorter, the front end could still ask while the CPU memory port does.
`CpuBusCycle` starts where a reset of the machine ends, with a download under way or not.
`CpuMemPort` starts at rest; its reset in the middle of a transaction is not modelled. `SerialSetup` is
started again after every end, also one in the middle of a creation.

## 4. The proofs

TLAPS checks these for every value of the constants the named assumptions allow.

**`SdramBusProofs`** – every geometry, every timing, every sequence of operations, from
`GeometryAssumption`, `TimingAssumption`, `CtrlAssumption`, `WidthAssumption` (the casts fit) and `OfferedAssumption`.

- `TypeCorrect` (`BusTypeOK`, which no run repeats): `TypeInv` is inductive – slots booked by an access lie inside the tables
  because of the depth of each table, and the timers fit their registers because of `BusyFits`.
- `ContentionFree` (`NoContention`) and `ReadsUnmasked` (`NoMaskedRead`), from `DqInv`. Neither
  is inductive: that DQ is free when a write is driven was decided when both accesses were booked,
  up to a dozen clocks before. `DqInv` says that for every read that is booked, on the pins or in the chip's
  pipeline, `rd_busy` marks all the edges on which its word can be harmed, for every booked write `wr_drv`
  marks its edge, and no edge has both marks. A clock moves commands and marks
  together (`MarkedShifts`), an access books without collision (`MarksBooked`, from `SlotsFree`), and
  a command that goes out harms nothing (`CommandSafe`).
- `CommandsAllowed` (`CommandsLegal`): the chip measures times since its last commands, the controller counts
  its timers down, and the columns of an access go out by a plan made when it was issued. `TimingInv` ties each of
  the chip's counters to one of the controller's (a bank that is not idle yet may still be open, an idle one is
  not, and so on), says what the planned columns will find, and covers the power-up sequence (`ColdInv`) as well
  as all after it (`WarmInv`).

**`SdramMemoryProofs`** – the same, from `ReadDelayAssumption` as well: a word is captured CL + 1 edges after its
READ, as `RD_DELAY` is 0 in every instance (`sdram_ctrl.sv:45,97`).

- `MemoryImplemented` (`ImplementsSerialMemory`): controller and chip together are a memory that performs the
  operations in the order of their issue. The step that performs an operation is its issue, up to a dozen clocks
  before its columns reach the array, and columns of different accesses may lie between each other. The invariant
  `MemInv` therefore says that a contents of the array exists for every edge of the plan (`Runs`): the first is the
  array as it is, each planned write leads from one to the next, and the last is the abstract memory's. A read
  fetches the word of its own edge, which is the word that the abstract memory returned, since no write planned
  in between touches its location (`WordsPromised`). `Counts` does the same for the words that will have been
  returned by every edge, so that each captured word is the head of `due` (`HeadReturned`).
- `NothingPromisedLost` (`NothingLost`) follows from the same invariant; `BusRulesKept` carries the rules of the
  bus over.

**`SdramSystemProofs`** – every set of requests, every timing and period within the two assumptions named below.

- `ArbiterTypes` (`TypeOK`, likewise) and the invariant `ArbInv`: types, the debt with the refresh
  in the holding register never exceeds what is owed (`DebtOwed`), and an empty holding register until power-up is over.
- `RefreshInTime` (`RefreshPostponed`) and `LedgerExact` (`RefreshLedger`), of which neither is inductive without the
  other: the ledger says that the debt has reached its limit, so that the next operation is a refresh, and the limit says
  that the four bits of the counter suffice. With T_REFI = 1 no arbiter could keep up, so a ratio of constants is assumed
  (`RefreshRateAssumption`): an access leaves nothing in the controller's tables after d clocks, and 2d + 2 < T_REFI
  (22 < 894 in the code). `ClearIn(k)` says that everything in the tables and timers is over in k clocks; it counts
  down on every clock that issues nothing and issues whatever is held when it reaches 0 (`ClearShifts`, `ClearIssues`).
  `Underway` uses it as a clock: as soon as as much is owed as may be, refi_cnt + k never grows until the refresh is held
  for good, and again until it is sent, so the tick that would owe one more cannot come.
- `CpuBehindOneRefresh` (`OneRefreshAhead`, the promise inside `CpuLatencyBound`): between the CPU's request and its turn
  one refresh is sent at most. After the first, an access is always held, and `TurnComes` bounds the way to the CPU's
  turn: in front of it are the held operation, the low clients in a set S, a refresh that may still be forced, and the
  video reads that are urgent, those for which there is a credit and n more whose credits are still to come. `Away` is
  the time all these take, `Near` says that it is over before the next credit beyond those n, before a low client outside S becomes old
  and before another refresh is forced. A client that gets its access leaves the count, with the clocks for which its access keeps
  the next one waiting (`ComesNearer`; `VideoNext`, `LowNext`, `FreeClears`); whatever the CPU meets when it asks fits into
  Turn(d, e, max) (`TurnStarts`).
- What this takes of the constants is `TurnAssumption`. The display engines share the port and ask at rates fixed by their
  modes: EGA text reads a cell and a glyph in each character of 56 clocks, HGC text one word in 36 clocks that is urgent from
  the start, CGA one in 64. A leaky bucket of VID_BURST credits, one more every VID_PERIOD clocks, admits them whatever their
  phases are. With d = 10 and e = 8 the assumption holds for

  | Engines on the port | VID_BURST, VID_PERIOD | max | Turn | Longest |
  |---|---|---|---|---|
  | EGA text (`pcxt_ega`) | 2, 28 | 3 | 97 | 105 |
  | CGA and HGC text (`pcxt_cga`) | 4, 23 | 5 | 133 | 141 |
  | EGA and HGC text (`pcxt_full`, where the CGA is in reset while the EGA is active) | 6, 15 | 16 | 250 | 258 |

  with LDR as the only low client (`PCXT.sv:1604` leaves AUX unused). In the last case the CPU's turn
  comes 5 clocks before LDR could become old twice: another reader of this rate on the port would break the assumption.
- `CpuServedInTime` (`CpuLatencyBound`): the CPU's write is taken, or its read has its first word, within
  Longest(d, e, max) = Turn(d, e, max) + T_RCD + RDD + 1 clocks: its turn and the word's way. Its hypothesis is that the
  count of the wait does not saturate earlier. The invariant `WaitInv` is a budget: what the CPU has waited and what is still
  before it never exceed that. `TurnInTime` keeps it until the CPU's turn (`TurnNears`, `BelowLongest`);
  `WordInTime` keeps it while the read is held, then booked, then returned, for which no two captures may fall on
  one edge (`Apart`).
- `LowPrioritySafe` (`LowPriorityBankIdle`): captured with its bank idle, and the bank stays so since
  only the operation in the holding register could take it (`IdleStays`, `LowChoiceFree`).
- `SystemImplementsBus` (`ImplementsBus`): initial states map to initial states, every step of the system to a step
  of `SdramBus` or a stutter; `SystemKeepsChipRules` carries the rules of commands and data bus over.

**`SdramXbridgeProofs`** – any number of stages from 2 up, any phase of the clocks, resets at any moment.
`HandshakeHolds` (`Handshake`): a bit that was toggled travels through its synchronizer monotonically
and cannot be toggled again before it has been seen. `XbridgeImplementsTxnPort`: the bridge
implements `TxnPort`, with the invariant for the mapping. `CrossingsSettle` (`CrossingsSettled`): a toggle is sent
on the clock on which the fields are written, and needs at least one more clock of the other side to be seen.

The same module has the two masters of a bridge, for every set of their transactions (`MastersAssumption`: none is both's).
`MastersUseBridge`: under its masters the bridge behaves as its own module says, so the theorems above
hold of it. `AnswersOwnHolds` (`AnswersOwn`): the invariant is `MuxInv == MuxBits /\ OneCycle /\ RestsInReset /\
AnswersOwn`. That the masters never ask together, which the mux relies on, is `OneCycle`: the front end in the middle of
an access works for the one bus cycle there is, or for none after a reset.

**`CpuMemPortProofs`** – every set of words, rows and speeds (`PlacesAssumption`, `RowsAssumption`,
`LoaderAssumption`). The invariant is `IInv == TypeInv /\ ReadInv /\ WantInv /\ LookaheadCoherent /\ ReadsLatest`.

- `LinesCoherent` (`LookaheadCoherent`): a write of the CPU or of the loader goes into every line that holds its word
  on the clock on which it is posted, so the lines are the memory as it will be after the transaction in flight.
- `CpuReadsLatest` (`ReadsLatest`) and `NoWriteLost` (`NothingLost`) need `WantInv`: what the memory will be after the
  transaction in flight, and after the deferred write where one is pending, is what the CPU has written. `ReadInv`
  ties a read in flight to the strobe or the early read that started it, so that its answer is never taken for
  another's.
- `ReadsStayInRow` (`ReadsInRow`).

**`CpuBusCycleProofs`** – every set of speeds, any times of memory, EGA, CGA and I/O, any downloads and pauses, from
`SpeedsAssumption` and `InputsAssumption` (the first bus cycle comes after the second rising edge of the CPU clock;
the code has 48 core clocks, 34 are enough).

- `DataIsAnswered` (`AnswersAwaited`), `NoIdleWaits` (`WaitsHaveCause`), `LoaderWritesAlone` (`LoaderAlone`),
  `HoldSpares` (`HoldsBetweenCycles`), `CycleTypes` (`TypeOK`). BIU, 8288, arbiter, READY and port each see an edge of
  the CPU clock at their own moment; the invariant says for each bus state, and for the level of the clock that
  the BIU has seen last, what the others hold. `CycleInv` are status lines, strobe and command; `HoldInv` says where a
  grant may come (after a rising edge in 02 or after the command, after a falling one in 03 or later); `LoaderInv`
  that the loader holds the bus from then on; `ReadyInv` that READY carries nothing over; `PortInv` that at the
  falling edge on which a wait can end, the port has seen the rising edge before it (`pos_seen`), and so has dipped
  READY or answered. `OnlyIoArms` is why memory needs this: READY's own wait state is for I/O only, the terms for memory ask
  for `address_enable_n`, which a command of the CPU never has.
- After a reset the arbiter has the bus without having been asked. `BootInv` follows the CPU clock, whose phase
  is known then, up to its second rising edge, after which `HoldInv` and `LoaderInv` stand without it.
- Of the CPU clock the proofs use only that below Max no edge follows another on the next chipset clock
  (`ClockMoves`).

**`SerialProofs`**, first `SerialSetup` – every set of arguments (`ArgumentAssumption`), any files to begin with (`FileAssumption`), any
number of starts.

- `GeometriesFit` (`GeometryFitsFile`), `OptionsStay` (`OptionsOwnImage`), `NoFileChanged` (`FilesKept`). The invariant is
  `IInv == TypeInv /\ HistoryInv /\ GeometryFitsFile /\ OptionsOwnImage`: that an image's options are its own needs
  `HistoryInv`, which ties `main`'s flags to the options given since the last file name. The geometry rests on
  arithmetic about `Acceptable`: a total below the largest standard geometry that is divisible by 16 and 63 is the
  product of its quotients (`StandardGeometry`), and beyond it the cylinders are 65536 (`LargestGeometry`).
- `SectorsReached` (`SectorsReachable`): cylinder, head and sector of a sector number, cut to their fields, give the
  number back for every geometry in range (`ChsInverse`, `ChsReached`), and the two halves of a file position are the
  position (`Sought`).

Then `SerialServer` – commands of 4 to 8 bytes and sectors of any size above (`SerialSizes`; the code's are 8 and 514),
every number of faults, any disks and requests, any speed of the line. A command line must not switch the timeout off
and must make one or two images that fit their files and hold the sectors asked for (`StartsAssumption`); a
request is for less than 160 sectors, as a BIOS asks for 128 at most (`ClientAssumption`), because an acknowledgement is a
count whose first byte could otherwise be taken for the head of a command.

The theorems about the server are of Linux and of pipes (`~Whole`); the run has the Windows port as well.

- `ServerImplementsDisk` (`ImplementsSerialDisk`). That a step maps to a step of `SerialDisk` or a stutter is not
  inductive: what is written later depends on bytes that are still on the line and on work left from an earlier request.
  `SafeInv` ties them together. `Collected` and `Session` are the server's and the client's own states. `Stream`: wherever a
  command or a sector begins in what is collected and on its way, it is whole, the present request's, and the last
  of its kind. `Awaited`: as long as the server would still take bytes for a sector or an acknowledgement, its
  work is the rest of the present request, or what comes next is a command, whose head passes for no count.
  `Replied`: a reply on its way is damaged, or it is that of the work just done, and the sector is on the disk.
- `OneRetryServes` (`OneRetryEnough`) and `FreshServed` (`UndisturbedServed`), on lines on which the time a reply takes is
  within the timeout (`LineFast`). `FastRates` says which they are: with the code's 1000 ms, those of 5140 baud and more, so
  of the offered rates all but 2400 and 4800, for which `serial_slow` refutes them. `RunsInv` follows an undisturbed
  request: what the server is to read next is ahead of it, whole (`CommandAhead`, `SectorAhead`, `AckAhead`, `ReplyAhead`),
  or its command was taken for the rest of something older (`Missing`, `Missed`). The latter is possible for the first
  request after a disturbed one only; when it has failed, the server is without work or past its timeout (`Open`).

**`Opl3Proofs`** – every size of the ring from 1 up, every delay but none, any programs of decoded register writes
(`RingAssumption`, `DelayAssumption`; `ProgramsAssumption`: a program that joins channels uses whole pairs, one that drums
uses the drums' channels). All six properties of the run are proved.

- `WritesOrdered` (`WritesInOrder`): `RingInv` says that the write asked for m places after the oldest is m places after
  `writebuf_cur`, that no other place holds any, and that `writebuf_last` is the place after the last. Every call is then one
  of three changes of a ring, proved without the rest of the chip: a write into a free place (`PutFree`), one over the oldest
  of a full ring (`PutFull`), the first d taken out (`TakeOut`).
- `TimeInv` says that the writes in the ring are the delay apart and that no time but the oldest one's has come. A
  sample therefore makes one write at most (`DrainsOne`), and the fold by which it makes them is a single step
  (`GenerateMakes`); what folds over more compute would take induction over data.
- `WriteDoes` says of each of the eleven registers what the properties can tell (`Effects`): no write moves an envelope,
  which keys, pitches and routes it reaches, and that what is sound elsewhere stays so. `CalcDoes` does so for a
  sample: it moves levels and phases only, a level never in the wrong direction (`LevelGoes`, with the arithmetic of
  the attack, `RiseDown`), and an operator without a key is in the release after it.
- `ChipInv` is what both keep: the two halves of a joined voice know each other (`KindsFit`), only a second channel has the
  algorithm of both (`AlgsFit`), a channel without a pair has its own (`OwnAlgs`), which the rhythm relies on; and of
  the history: what is settled is wired as its connections say (`Settled`), what is tuned has one pitch (`OnePitch`), what was
  keyed off and nothing joined or keyed since is not held (`Released`).
- From these: `NotesStart` (`EveryNoteStarts`; with `StartInv`: what a sample's one write keys anew had no key, and what has
  none is in the release), `VoicesConnected` (`VoicesWhole`), `PitchFollows` (`PitchCurrent`), `NotesReleased`
  (`NoNoteHangs`), `LevelsDirected` (`LevelKeepsDirection`).

The attempt showed a fault of the model: two of the envelope's definitions had arms of a CASE that hold together (a key that is
taken off while the attack ends, for one). TLA+ leaves open which of them counts; TLC takes the first, which is what
`opl3.c` does by the order of its assignments. They now say so.

Only model-checked: liveness (`NobodyStarves`, `EveryTxnEnds`, `StrobesAnswered`, `BusCyclesEnd`), which is beyond
the prover. Every invariant, action property and refinement of the passing runs is proved; LAT_MAX 23 in `CpuLatencyBound` is exact for the run's instance,
the theorem's number is for every timing and every rate of the display.

## 5. Findings

- `serial_slow`: `Process.cpp:148` logs "Timeout waiting on data from client, aborting previous command" when more than
  1000 ms have passed since `lasttick`, which is the time at which bytes were received (line 179), not the time at which
  the reply was sent. A sector of 514 bytes takes 1070 ms at 4800 baud and twice that at 2400, both offered by the usage
  text (`Linux.cpp:76`). However prompt the client is, its acknowledgement then counts as late, and a
  read of two sectors is aborted after the first. `-t` switches the timeout off.

Comments that promise more than the code does, and with which the machine copes:

- `sdram_arbiter.sv:28-29` says that low-priority choices "go out at once and never sit in the holding register in front
  of a CPU request". `bank_free` only sees to their bank; tRRD and the column slots can keep them there for some clocks. What
  does hold is `LowPriorityBankIdle`, and the CPU's latency bound includes those clocks.
- `sdram_ctrl.sv:52` says that the operation at the controller's input is "Held, unchanged, until op_issue". The
  arbiter's swap replaces an optional refresh before that. `SdramBus` lets a refresh go for this reason, and everything
  above is shown for it.

- `Ready.sv:37-47` says that at Max "Memory writes must arm the wait/ready flip-flop at the start of the cycle exactly like reads
  and I/O do", for a wait state on every write. Both memory terms of `bus_state` ask for `address_enable_n`, which is 0 whenever
  the 8288 drives a command (`Bus_Arbiter.sv:152-153`; `Chipset.sv:460` hands the same signal to READY), so in cycles of
  the CPU neither writes nor reads arm it. The term for CGA writes that `Peripherals.sv:505-511` describes is dead in the same way.
  `WaitsHaveCause` passes because of it: no memory cycle waits on its own. The late answer the comment fears is
  caught by `strict` in `cpu_mem_port.sv:423`, which dips READY from the first clock of the strobe (`AnswersAwaited`).

Seen while modelling the server, none of which a property is about:

- On a Windows port one lost byte can be more than one failure. The read under way waits for its last byte, the first
  byte of the next request completes it, and, being late, the timeout discards it with the rest (`Process.cpp:146-176`). With CHS
  addressing the second byte of a command, drive and head, is 0xA0 and passes for the head of a command; a
  request that sends 8 bytes then leaves the server one short of the 7 more it waits for, and the next one meets the same. So
  no retry of a read is served until the client does something else. When most of a sector to be written is lost, a client that
  only reads takes up to 64 retries to fill its 514 bytes. What is on the disk stays right (`ImplementsSerialDisk`),
  and a request that meets the server listening is served (`UndisturbedServed`); `OneRetryEnough` is claimed of the other ports only, and
  fails in a few steps when the `~Whole` is taken out of it.

- `-n` with a size between what 16 × 63 × 65536 sectors hold (33 GB) and the usage text's 137438 MB creates a file that
  `Image::init` then refuses to serve; `-n 100K`, which comes to no cylinder, silently makes the default disk of 32 MB.
- 65536 cylinders are told to the client as 0, in a word of 16 bits; the message beside it says 65535.
- The usage text lists 28.8K, 76.8K and 153.6K baud, which `Serial.cpp` has in comments; on Linux it says that without
  `-c` the first port found is taken, but the program ends.
- `LinuxSerial.h:82` and 95 ask whether an unsigned length is negative, so a failed `read` or `write` goes unnoticed,
  as does a write of a part; `GetTime` wraps after 49.7 days where `long` has 32 bits.
- `Image.cpp:285` prints the file's name where its format asks for the rate.

And in `opl3.c`:

- When channels are parted, each keeps the routing it had as a part of a voice until its own C0 is written; until both are, one
  may still mix or modulate the other's operators. `VoicesWhole` speaks of channels whose C0 was written since.
- A0 written to a joined voice gives the second channel f_num, but not block; B0 gives it both.
- nts is looked at when a pitch is written only. An overflow makes writes early, and notes
  keyed within it can be missed.

## 6. Limits

- Data are members of small sets; addresses are places. `mem_map.sv`'s table is not checked.
- `LoaderAssumption`: words that the loader writes are ROM for the CPU. `RowsAssumption`: the words of
  `CpuMemPort` are whole rows.
- `CpuBusCycle` assumes that a download lasts until the bus is really held and that CPU clocks pass between two;
  the HPS sends one word over SPI in microseconds. Without it, HOLD dropped and raised within
  one CPU clock leaves `hold_request_ff_2` set; this is listed among the hazards.
- `CpuBusCycle` has no memory cycle that nobody answers (a write to ROM, an address nobody decodes): such a cycle is always
  ready. That the CGA's wait for its fetch window ends is not shown; the run for `BusCyclesEnd` takes the CGA as ready.
- DMA is not modelled: HOLD has one requester, READY no `dma_ready`. The BIU's queue and addresses are left
  out; so is the 16-bit BIU (`mcl86_biu_min.sv`). The first bus cycle
  comes 34 core clocks after reset or later.
- In `SdramArbiter` `vid_deadline` is reduced to urgent or not; `vq_*` statistics and the mean latency, which
  only feed an overlay, are left out.
- `SerialServer`: after a fault the line is undisturbed until it was silent for longer than the timeout or a request was served
  (`calm`). Without this a damaged reply followed by a retry whose first two bytes are lost makes the retry's count
  pass for an acknowledgement. A damaged message whose checksum fits by chance is left out. With `-t` nothing
  separates a new request from the rest of an old one, so its instance has no `-t`. Counts of 0 and above
  `MAX_COUNT` are not sent by the client. A sector past the end of the file ends the server and is
  not asked for.
- `library/File.h`, the C library's files, is not modelled: its platform has no serial port.
- `Opl3`: in the run register data are the few values that its programs name, in the proofs all; levels, keys, routing and pitch are worked out in
  full. Phase, waveforms, tremolo, vibrato, total level, feedback strength, panning and resampling are left out.
- `SYNC_STAGES` is at least 2. `PCXT.sv` has no bridge with less.
- The video engines (`vram_fetch`, `vid_mux`) are not modelled: that their reads keep to VID_BURST and VID_PERIOD is an assumption,
  taken from the characters at which they ask (`ega_vram_sdram_frontend.sv:484-516`, `hgc_vram_if.sv:74-85`). An engine
  that catches up after it was late for longer than that is outside it.
- Model bounds: `LAT_MAX`, `OWED_MAX` (`SdramArbiter`), the `age` counters of history variables
  (`fields_age`, `rbuf_age` stop at 2); `LAST_K`, `MAX_COUNT`, `MAX_FAULTS`, `age` and `silent` up to
  `TIMEOUT + 1` (`SerialServer`), `MAX_OPTIONS` (`SerialSetup`).

## 7. Plan

In the order of what the machine depends on most; each module would bring its properties into the
runs of the component it belongs to, so that the number of runs stays small. What each would have to settle:

1. `RomLoader`: `rom_loader.sv` with `ioctl_wait`, `rom_presence_latch.sv`, the reset hold, the pause of
   `splash_f12_pause.sv` and the notices. To settle: `rom_presence_latch.sv:3-5` speaks of the final byte but the
   latch is set by the first word; a pause inside a bus cycle keeps HOLD, hence `ioctl_wait`, hence
   the HPS, from which the end of the pause would come; `bios_hold_notice.sv:38` samples a pulse of another clock.
2. `RamClear`: the LDR port's switch from `ram_clear` to the loader in `PCXT.sv`; the EGA front end's display side and
   the data its CPU side returns.
3. `VidMux` and `VramFetch`: each word to its client with four reads in flight, the line buffer equal to the
   memory under CPU writes (two-stage snoop, `vram_fetch.sv:289`), the client chosen a clock before it is granted
   (`vid_mux.sv:62`), the FIFO of four owners (`vid_mux.sv:99`).
4. `Dma` with `Bus_Arbiter`'s other half: 8237 transfers, the loader against HLDA, READY's `dma_ready`. It
   replaces the assumption on downloads in `CpuBusCycle`.
5. `PrefetchQueue` (BIU): bytes consumed are the bytes of consecutive addresses; a jump empties the queue on
   the clock on which a byte is written to it (`mcl86_biu_max.sv:565`).
6. `Pic8259`, `Keyboard`, `CgaBusWait`, `Timer8253`, `Fifos`: one interrupt per edge and INTA, no key lost, waits that
   end, latched counts, FIFO flags (`KF8259_Interrupt_Request.sv:52`, `KFPS2KB.sv:241`, `CGA_Bus_Wait.sv:72`,
   `slib_fifo.vhd:70`).
7. Floppy, IDE and SD card command machines.

Not planned: the execution unit and its microcode (4K microinstructions of data path), sound synthesis and
raster generation, the framework, and the BIOS sources and DOS tools under `SW/`.
