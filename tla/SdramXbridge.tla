----------------------------- MODULE SdramXbridge -----------------------------
(***************************************************************************)
(* The bridge between a client's clock and the SDRAM's,                    *)
(* rtl/mem/sdram_xbridge.sv with SYNC_STAGES >= 2, and the reset of its    *)
(* two sides (PCXT.sv, reset_sdram and sd_reset_sync).                     *)
(*                                                                         *)
(* The two clocks have no fixed relation: a step is an edge of clk_a, an   *)
(* edge of clk_s or both at once.  A flip-flop that samples a signal of    *)
(* the other clock on the edge on which it changes may take either value.  *)
(* The client may start any transaction; the arbiter may take any time to  *)
(* acknowledge and to return a word.                                       *)
(***************************************************************************)
EXTENDS Naturals

CONSTANTS
  Txns,          \* the fields of a transaction, of which only we and n are told apart
  ZeroTxn,       \* the fields after a reset
  Word, ZeroWord,
  SYNC_STAGES

ASSUME XbridgeAssumption ==
  /\ \A t \in Txns : t.we \in BOOLEAN /\ t.n \in 1 .. 4
  /\ ZeroTxn \in Txns /\ ZeroWord \in Word
  /\ SYNC_STAGES \in Nat /\ SYNC_STAGES >= 2

VARIABLES
  \* registers of clk_a
  req_t, rsp_seen, a_busy, a_done,
  fields,        \* s_we, s_addr, s_len, s_wdata, s_wbe
  rsp_sync,
  \* registers of clk_s
  req_seen, rsp_t, rd_wait, beat, rbuf,
  req_sync,
  pending,       \* words that the arbiter has yet to return
  \* resets
  reset_a, reset_s_sync,
  cleared,       \* the clocks that have had an edge in this reset (reset_sdram_count)
  \* history: edges of the reading clock since the last change
  fields_age, rbuf_age

clientRegs == <<req_t, rsp_seen, a_busy, a_done, fields>>
serverRegs == <<req_seen, rsp_t, rd_wait, beat, rbuf, pending>>
resetRegs  == <<reset_a, reset_s_sync, cleared>>
vars == <<clientRegs, serverRegs, req_sync, rsp_sync, resetRegs, fields_age, rbuf_age>>

Stages == 1 .. SYNC_STAGES

ReqSFirst == req_sync[1]       \* mutant: the first flip-flop is used

ReqS    == req_sync[SYNC_STAGES]
RspA    == rsp_sync[SYNC_STAGES]
reset_s == reset_s_sync[2]
s_req   == ReqS # req_seen /\ ~rd_wait

(***************************************************************************)
(* Client side                                                             *)
(***************************************************************************)
Start ==
  /\ ~a_busy
  /\ fields' \in Txns /\ req_t' = ~req_t /\ a_busy' = TRUE /\ a_done' = FALSE
  /\ UNCHANGED rsp_seen

Finish ==
  /\ a_busy /\ RspA # rsp_seen
  /\ rsp_seen' = RspA /\ a_busy' = FALSE /\ a_done' = TRUE
  /\ UNCHANGED <<fields, req_t>>

Rest ==
  /\ a_busy => RspA = rsp_seen
  /\ a_done' = FALSE
  /\ UNCHANGED <<req_t, rsp_seen, a_busy, fields>>

ResetClient ==
  /\ req_t' = FALSE /\ rsp_seen' = FALSE /\ a_busy' = FALSE /\ a_done' = FALSE
  /\ fields' = ZeroTxn

ClientEdge ==
  \/ reset_a /\ ResetClient
  \/ ~reset_a /\ (Start \/ Finish \/ Rest)

(***************************************************************************)
(* Arbiter side                                                            *)
(***************************************************************************)
CaptureSilent ==        \* mutant: a write is not answered
  /\ s_req /\ req_seen' = ReqS
  /\ \/ fields.we /\ UNCHANGED <<rsp_t, rd_wait, beat, pending>>
     \/ ~fields.we /\ rd_wait' = TRUE /\ beat' = 0 /\ pending' = fields.n /\ UNCHANGED rsp_t
  /\ UNCHANGED rbuf

\* s_ack: a write is over, a read waits for its words.
Capture ==
  /\ s_req /\ req_seen' = ReqS
  /\ \/ fields.we /\ rsp_t' = ~rsp_t /\ UNCHANGED <<rd_wait, beat, pending>>
     \/ ~fields.we /\ rd_wait' = TRUE /\ beat' = 0 /\ pending' = fields.n /\ UNCHANGED rsp_t
  /\ UNCHANGED rbuf

ReturnEarly ==          \* mutant: the first word answers the read
  /\ rd_wait
  /\ \E w \in Word : rbuf' = [rbuf EXCEPT ![beat] = w]
  /\ beat' = (beat + 1) % 4 /\ pending' = pending - 1
  /\ rd_wait' = (pending # 1)
  /\ rsp_t' = IF beat = 0 THEN ~rsp_t ELSE rsp_t
  /\ UNCHANGED req_seen

\* s_rvalid, with s_rlast on the last word.
Return ==
  /\ rd_wait
  /\ \E w \in Word : rbuf' = [rbuf EXCEPT ![beat] = w]
  /\ beat' = (beat + 1) % 4 /\ pending' = pending - 1
  /\ rd_wait' = (pending # 1)
  /\ rsp_t' = IF pending = 1 THEN ~rsp_t ELSE rsp_t
  /\ UNCHANGED req_seen

ResetServer ==
  /\ req_seen' = FALSE /\ rsp_t' = FALSE /\ rd_wait' = FALSE /\ beat' = 0
  /\ rbuf' = [i \in 0 .. 3 |-> ZeroWord] /\ pending' = 0

ServerEdge ==
  \/ reset_s /\ ResetServer
  \/ ~reset_s /\ (Capture \/ Return \/ UNCHANGED serverRegs)

(***************************************************************************)
(* Crossings                                                               *)
(***************************************************************************)
Shift(sync, bit) == [i \in DOMAIN sync |-> IF i = 1 THEN bit ELSE sync[i - 1]]

SyncRequest ==
  req_sync' \in IF reset_s THEN {[i \in Stages |-> FALSE]}
                           ELSE { Shift(req_sync, bit) : bit \in {req_t, req_t'} }

SyncAnswer ==
  rsp_sync' \in IF reset_a THEN {[i \in Stages |-> FALSE]}
                           ELSE { Shift(rsp_sync, bit) : bit \in {rsp_t, rsp_t'} }

(***************************************************************************)
(* Resets.  reset_sdram is set at once, whatever the clocks do, and        *)
(* released on clk_a after 65536 of its clocks, by when both clocks have   *)
(* had an edge; sd_reset is set with it and released on clk_s.             *)
(***************************************************************************)
AssertReset ==
  /\ reset_a' = TRUE /\ reset_s_sync' = [i \in 1 .. 2 |-> TRUE] /\ cleared' = {}
  /\ UNCHANGED <<clientRegs, serverRegs, req_sync, rsp_sync, fields_age, rbuf_age>>

Clear(a, s) ==
  cleared' = IF reset_a THEN cleared \cup (IF a THEN {"a"} ELSE {}) \cup (IF s THEN {"s"} ELSE {})
                        ELSE cleared

ReleaseASoon(a) ==      \* mutant: without reset_sdram_count
  \/ UNCHANGED reset_a
  \/ a /\ reset_a' = FALSE

ReleaseA(a) ==
  \/ UNCHANGED reset_a
  \/ a /\ cleared = {"a", "s"} /\ reset_a' = FALSE

SyncReset(s) ==
  reset_s_sync' \in
    IF ~s THEN {reset_s_sync}
    ELSE { IF r THEN [i \in 1 .. 2 |-> TRUE] ELSE Shift(reset_s_sync, FALSE) : r \in {reset_a, reset_a'} }

Ages(a, s) ==
  /\ fields_age' = IF fields' # fields THEN 0
                   ELSE IF s /\ fields_age < 2 THEN fields_age + 1 ELSE fields_age
  /\ rbuf_age' = IF rbuf' # rbuf THEN 0
                 ELSE IF a /\ rbuf_age < 2 THEN rbuf_age + 1 ELSE rbuf_age

(***************************************************************************)
(* An edge of clk_a, of clk_s, or of both                                  *)
(***************************************************************************)
Edge(a, s) ==
  /\ IF a THEN ClientEdge ELSE UNCHANGED clientRegs
  /\ IF s THEN ServerEdge ELSE UNCHANGED serverRegs
  /\ IF s THEN SyncRequest ELSE UNCHANGED req_sync
  /\ IF a THEN SyncAnswer ELSE UNCHANGED rsp_sync
  /\ Clear(a, s) /\ ReleaseA(a) /\ SyncReset(s) /\ Ages(a, s)

ClockA == \E s \in BOOLEAN : Edge(TRUE, s)
ClockS == \E a \in BOOLEAN : Edge(a, TRUE)

Init ==
  /\ req_t = FALSE /\ rsp_seen = FALSE /\ a_busy = FALSE /\ a_done = FALSE
  /\ fields = ZeroTxn
  /\ req_seen = FALSE /\ rsp_t = FALSE /\ rd_wait = FALSE /\ beat = 0
  /\ rbuf = [i \in 0 .. 3 |-> ZeroWord] /\ pending = 0
  /\ req_sync = [i \in Stages |-> FALSE] /\ rsp_sync = [i \in Stages |-> FALSE]
  /\ reset_a = TRUE /\ reset_s_sync = [i \in 1 .. 2 |-> TRUE] /\ cleared = {}
  /\ fields_age = 0 /\ rbuf_age = 0

Next == ClockA \/ ClockS \/ AssertReset

Spec == Init /\ [][Next]_vars

(***************************************************************************)
(* Properties                                                              *)
(***************************************************************************)

\* Every register holds a value of its width.
TypeOK ==
  /\ req_t \in BOOLEAN /\ rsp_seen \in BOOLEAN /\ a_busy \in BOOLEAN /\ a_done \in BOOLEAN
  /\ fields \in Txns
  /\ req_seen \in BOOLEAN /\ rsp_t \in BOOLEAN /\ rd_wait \in BOOLEAN
  /\ beat \in 0 .. 3 /\ rbuf \in [0 .. 3 -> Word]
  /\ req_sync \in [Stages -> BOOLEAN] /\ rsp_sync \in [Stages -> BOOLEAN]
  /\ reset_a \in BOOLEAN /\ reset_s_sync \in [1 .. 2 -> BOOLEAN]
  /\ cleared \subseteq {"a", "s"} /\ fields_age \in 0 .. 2 /\ rbuf_age \in 0 .. 2

(***************************************************************************)
(* The handshake: a toggled bit travels through the flip-flops of its      *)
(* synchronizer and cannot change again before it has been seen.           *)
(***************************************************************************)
Travels(bit, seen, sync) ==
  /\ bit = seen => \A i \in Stages : sync[i] = bit
  /\ \A i, j \in Stages : i <= j /\ sync[j] = bit => sync[i] = bit

ClientClear ==
  /\ ~req_t /\ ~rsp_seen /\ ~a_busy /\ ~a_done
  /\ \A i \in Stages : ~rsp_sync[i]

ServerClear ==
  /\ ~req_seen /\ ~rsp_t /\ ~rd_wait /\ beat = 0
  /\ rbuf = [i \in 0 .. 3 |-> ZeroWord]
  /\ \A i \in Stages : ~req_sync[i]

\* A reset reaches both sides before it ends, and leaves clk_s last.
Resets ==
  /\ reset_a => reset_s_sync[1] /\ reset_s_sync[2]
  /\ reset_s_sync[1] => reset_s_sync[2]
  /\ reset_a /\ "a" \in cleared => ClientClear
  /\ reset_a /\ "s" \in cleared => ServerClear
  /\ ~reset_a /\ reset_s => ServerClear

Asked    == req_t # req_seen /\ ~rd_wait /\ rsp_t = rsp_seen
Reading  == req_t = req_seen /\ rd_wait /\ rsp_t = rsp_seen
Answered == req_t = req_seen /\ ~rd_wait /\ rsp_t # rsp_seen

InFlight ==
  /\ a_busy => ~a_done /\ (Asked \/ Reading \/ Answered)
  /\ ~a_busy => req_t = req_seen /\ ~rd_wait /\ rsp_t = rsp_seen
  /\ rd_wait => ~fields.we /\ pending \in 1 .. 4 /\ beat + pending = fields.n

\* Between two resets, the two sides agree on the one transaction in flight:
\* it is the client's turn, or the arbiter's, or a bit is on its way, and the
\* words still owed are those still missing.
Handshake ==
  /\ Resets
  /\ ~reset_a => /\ Travels(req_t, req_seen, req_sync)
                /\ Travels(rsp_t, rsp_seen, rsp_sync)
                /\ InFlight

\* The transaction in flight, from the registers of both sides.
Phase ==
  IF reset_a \/ ~a_busy     THEN "idle"
  ELSE IF req_t # req_seen  THEN "asked"
  ELSE IF rd_wait           THEN "reading"
  ELSE                           "answered"

Port == INSTANCE TxnPort WITH
  phase <- Phase, txn <- fields, words <- rbuf,
  got <- IF Phase = "reading" THEN beat ELSE 0,
  out <- IF a_done /\ ~reset_a
           THEN [done |-> TRUE, data |-> IF fields.we THEN <<>>
                                         ELSE [i \in 0 .. fields.n - 1 |-> rbuf[i]]]
           ELSE [done |-> FALSE]

\* A transaction is captured exactly once, with its own fields, and ends once,
\* with its own words, whatever the phase of the clocks and whenever the two
\* sides are reset ("toggles once per transaction").
ImplementsTxnPort == Port!Spec

\* "They are stable for at least one destination clock when they are used": the
\* fields when the request is seen, the read buffer when its end is.
CrossingsSettled ==
  /\ s_req /\ ~reset_s => fields_age >= 1
  /\ a_done /\ ~reset_a => rbuf_age >= 1

\* Every transaction ends, if no reset comes in between.
EveryTxnEnds == a_busy ~> a_done \/ reset_a
===============================================================================
