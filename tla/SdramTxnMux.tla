----------------------------- MODULE SdramTxnMux -----------------------------
(***************************************************************************)
(* The two masters of the CPU's bridge on an EGA machine and the mux       *)
(* between them: rtl/mem/sdram_txn_mux.sv, cpu_mem_port.sv (master 0, its  *)
(* transactions only; see CpuMemPort) and the CPU side of                  *)
(* ega_vram_sdram_frontend.sv (master 1).                                  *)
(*                                                                         *)
(* The masters never ask at the same time, as both serve the one bus       *)
(* cycle, but a write is posted and an early read may be on its way when   *)
(* the next cycle begins.  The masters do not share a reset: a reset of    *)
(* the machine takes the strobe away at any moment and clears the front    *)
(* end, or not even that when a cartridge was loaded (video_retime_reset), *)
(* and leaves cpu_mem_port, the mux and the bridge (reset_sdram) in the    *)
(* middle of a transaction.                                                *)
(***************************************************************************)
EXTENDS SdramXbridge

CONSTANTS
  PortTxns,      \* the transactions of cpu_mem_port: bytes, words and lines
  EgaTxns        \* those of the front end: two words of the EGA's planes

ASSUME MastersAssumption ==
  PortTxns \cup EgaTxns \subseteq Txns /\ PortTxns \cap EgaTxns = {}

VARIABLES
  strobe,        \* the CPU's bus cycle: kind, and the transaction it asks for
  owned, rd_valid, rd_owner, xfer_read,   \* cpu_mem_port
  xfer,          \* xfer_w, xfer_len
  cpu_state,     \* the front end
  cpu_l,         \* cpu_addr_l, cpu_a16_l, cpu_din_l
  owner          \* sdram_txn_mux: the front end's is the transaction in flight

masterVars == <<strobe, owned, rd_valid, rd_owner, xfer_read, xfer, cpu_state, cpu_l, owner>>
muxVars == <<vars, masterVars>>

NoStrobe == [kind |-> "none"]
InReset  == [kind |-> "reset"]

StrobeOf(txns) == strobe \notin {NoStrobe, InReset} /\ strobe.txn \in txns
memory_strobe  == strobe.kind \in {"read", "write"}

a0_done == a_done /\ ~owner
a1_done == a_done /\ owner

(***************************************************************************)
(* cpu_mem_port: hit says whether the word of the strobe is there, in a    *)
(* lookahead line or in the one that a0_done brings (xfer_cover)           *)
(***************************************************************************)
cmd_active  == StrobeOf(PortTxns) /\ memory_strobe
bridge_free == ~a_busy /\ ~a0_done

accept_hit(hit)   == cmd_active /\ strobe.kind = "read" /\ ~owned /\ hit
accept_read(hit)  == cmd_active /\ strobe.kind = "read" /\ ~owned /\ ~hit /\ bridge_free
accept_write      == cmd_active /\ strobe.kind = "write" /\ ~owned /\ bridge_free
accept_early(hit) == StrobeOf(PortTxns) /\ strobe.kind = "early" /\ ~hit /\ bridge_free

a0_start(hit) == accept_read(hit) \/ accept_write \/ accept_early(hit)

MemPort(hit) ==
  LET back == a0_done /\ xfer_read
      own  == back /\ rd_owner /\ cmd_active
  IN  /\ owned' = (cmd_active /\ (owned \/ accept_hit(hit) \/ accept_read(hit) \/ accept_write))
      /\ rd_valid' = (cmd_active /\ (rd_valid \/ accept_hit(hit) \/ own))
      /\ rd_owner' = (cmd_active /\ (accept_read(hit) \/ (rd_owner /\ ~own)))
      /\ xfer_read' = (accept_read(hit) \/ accept_early(hit) \/ (xfer_read /\ ~accept_write /\ ~back))
      /\ xfer' = IF accept_read(hit) \/ accept_early(hit) THEN strobe.txn ELSE xfer

(***************************************************************************)
(* The front end's CPU side                                                *)
(***************************************************************************)
cpu_access == StrobeOf(EgaTxns) /\ memory_strobe
a1_start   == cpu_state \in {"ISSUE_RD", "ISSUE_WR"} /\ ~a_busy

FrontEnd ==
  /\ cpu_state' = CASE cpu_state = "IDLE" /\ cpu_access ->
                         IF strobe.kind = "write" THEN "ISSUE_WR" ELSE "ISSUE_RD"
                    [] cpu_state = "ISSUE_RD" /\ ~a_busy -> "WAIT_RD"
                    [] cpu_state = "ISSUE_WR" /\ ~a_busy -> "DONE"
                    [] cpu_state = "WAIT_RD" /\ a1_done  -> "DONE"
                    [] cpu_state = "DONE" /\ ~cpu_access -> "IDLE"
                    [] OTHER -> cpu_state
  /\ cpu_l' = IF cpu_state = "IDLE" /\ cpu_access THEN strobe.txn ELSE cpu_l

(***************************************************************************)
(* The mux                                                                 *)
(***************************************************************************)
m_start(hit) == a0_start(hit) \/ a1_start
m_txn        == IF a1_start THEN cpu_l ELSE strobe.txn

OwnerFollows(hit) == owner' = a1_start      \* mutant: not only when a transaction starts

Owner(hit) == owner' = IF m_start(hit) /\ ~a_busy THEN a1_start ELSE owner

\* The bridge takes what the mux gives it.
Handover(hit) ==
  ~a_busy => /\ a_busy' = m_start(hit)
             /\ m_start(hit) => fields' = m_txn

(***************************************************************************)
(* The bus cycle: a strobe is held until it is answered; an early read is  *)
(* followed by its strobe.                                                 *)
(***************************************************************************)
answered ==
  IF StrobeOf(EgaTxns) THEN cpu_state = "DONE"
  ELSE owned /\ (strobe.kind = "read" => rd_valid)

CycleStarts ==
  /\ strobe = NoStrobe
  /\ \E t \in PortTxns \cup EgaTxns :
       strobe' \in [kind : IF t.we THEN {"write"} ELSE {"early", "read"}, txn : {t}]

CycleGoesOn ==
  \/ strobe.kind = "early" /\ strobe' \in [kind : {"latched", "read"}, txn : {strobe.txn}]
  \/ strobe.kind = "latched" /\ strobe' \in [kind : {"latched", "read"}, txn : {strobe.txn}]
  \/ strobe.kind # "early" /\ UNCHANGED strobe

CycleEnds == memory_strobe /\ answered /\ strobe' = NoStrobe

\* By the end of the 65536 clocks of a reset the front end has come to rest.
ResetEnds == strobe = InReset /\ cpu_state = "IDLE" /\ strobe' = NoStrobe

BusNext == CycleStarts \/ CycleGoesOn \/ CycleEnds \/ ResetEnds

(***************************************************************************)
(* A chipset clock of the masters, and the resets                          *)
(***************************************************************************)
SdramResetMasters ==
  /\ owned' = FALSE /\ rd_valid' = FALSE /\ rd_owner' = FALSE /\ xfer_read' = FALSE
  /\ xfer' = ZeroTxn /\ owner' = FALSE
  /\ UNCHANGED <<strobe, cpu_state, cpu_l>>

MastersEdge ==
  \/ reset_a /\ SdramResetMasters
  \/ /\ ~reset_a
     /\ \E hit \in BOOLEAN : MemPort(hit) /\ Owner(hit) /\ Handover(hit)
     /\ FrontEnd /\ BusNext

EndCycle == strobe' = InReset /\ UNCHANGED <<owned, rd_valid, rd_owner, xfer_read, xfer, owner>>

ClearFrontEnd == cpu_state' = "IDLE" /\ cpu_l' = ZeroTxn

\* A reset of the machine ends the bus cycle, with or without the video's reset.
MachineReset ==
  /\ EndCycle /\ UNCHANGED vars
  /\ ClearFrontEnd \/ UNCHANGED <<cpu_state, cpu_l>>

\* What resets the memory resets the machine and the video too.
MemoryReset == AssertReset /\ EndCycle /\ ClearFrontEnd

MuxEdge(a, s) == Edge(a, s) /\ IF a THEN MastersEdge ELSE UNCHANGED masterVars

MuxClockA == \E s \in BOOLEAN : MuxEdge(TRUE, s)
MuxClockS == \E a \in BOOLEAN : MuxEdge(a, TRUE)

MuxInit ==
  /\ Init
  /\ strobe = InReset
  /\ owned = FALSE /\ rd_valid = FALSE /\ rd_owner = FALSE /\ xfer_read = FALSE
  /\ xfer = ZeroTxn /\ cpu_state = "IDLE" /\ cpu_l = ZeroTxn /\ owner = FALSE

MuxNext == MuxClockA \/ MuxClockS \/ MachineReset \/ MemoryReset

MuxSpec == MuxInit /\ [][MuxNext]_muxVars

\* An edge on which the arbiter acknowledges or returns a word.
MuxServe == MuxClockS /\ serverRegs' # serverRegs

\* Neither clock stops, and the arbiter starves nobody (SdramArbiter).
FairMuxSpec ==
  /\ MuxSpec
  /\ WF_muxVars(MuxClockA) /\ WF_muxVars(MuxClockS) /\ WF_muxVars(MuxServe)

(***************************************************************************)
(* Properties                                                              *)
(***************************************************************************)

\* "Its done is given to the master that started the transaction in flight": a
\* master that waits for a read has that very read in flight, or its words on
\* this clock, whichever master's write was still crossing when it asked and
\* whichever of them a reset has taken out of the middle of its own.
AnswersOwn ==
  ~reset_a =>
    /\ cpu_state = "WAIT_RD" => (a_busy \/ a_done) /\ owner /\ fields = cpu_l
    /\ xfer_read => (a_busy \/ a_done) /\ ~owner /\ fields = xfer
===============================================================================
