----------------------------- MODULE SdramArbiter -----------------------------
(***************************************************************************)
(* The SDRAM arbiter, rtl/mem/sdram_arbiter.sv, driving the controller.    *)
(*                                                                         *)
(* Four clients hold a request each until it is acknowledged; capturing a  *)
(* request into the holding register `op' is its acknowledgement.  One     *)
(* step is one edge of clk_sdram.                                          *)
(***************************************************************************)
EXTENDS SdramCtrl

CONSTANTS
  Requests,   \* the accesses the clients may ask for, each with its client's tag
  LDR_HIGH,   \* the input ldr_high (PCXT.sv ties it to 0)
  T_REFI,     \* clocks between two ticks of the refresh timer
  DEBT_MAX,   \* the debt that forces a refresh (8 in the code)
  T_STARVE,   \* clocks after which LDR and AUX pass the CPU
  VID_BURST,  \* VID requests that may become urgent one right after the other
  VID_PERIOD, \* clocks per urgent VID request in the long run
  LAT_MAX     \* where the latency counter saturates (a bound of the model)

ASSUME ArbiterAssumption ==
  /\ \A r \in Requests : IsRequest(r)
  /\ LDR_HIGH \in BOOLEAN
  /\ T_REFI \in Nat \ {0} /\ T_STARVE \in Nat /\ LAT_MAX \in Nat
  /\ VID_BURST \in Nat \ {0} /\ VID_PERIOD \in Nat \ {0}
  /\ DEBT_MAX \in 1 .. 8

\* An access or a refresh has left nothing in the tables and timers of the
\* controller d clocks after it was sent.
DrainsIn(d) ==
  /\ \A r \in Requests : T_RCD + r.n + CL <= d /\ BankBusy(r) <= d + 1
  /\ T_RFC <= d + 1 /\ T_RRD <= d + 1

\* A tick leaves time for the access that is being held and for a refresh.  In
\* the code d is 10 and T_REFI 894.
ASSUME RefreshRateAssumption ==
  \E d \in 0 .. T_REFI : DrainsIn(d) /\ 2 * d + 2 < T_REFI

VARIABLES
  req,             \* each client's request, or NoOp   (vid_req, vid_addr, ...)
  urgent,          \* vid_deadline <= T_URGENT
  vid_credit,      \* VID requests that may still become urgent at once
  vid_gap,         \* clocks to the next credit
  refi_cnt,
  ref_debt,
  op_ref_optional,
  age,             \* ldr_age, aux_age
  cpu_rd_wait,     \* a read of the CPU waits for its first word
  cpu_wait,        \* now - cpu_start, saturating
  owed, refs_ahead, op_low      \* history, see below

vars == <<op, req, urgent, vid_credit, vid_gap, refi_cnt, ref_debt, op_ref_optional, age,
          cpu_rd_wait, cpu_wait, owed, refs_ahead, op_low, ctrlVars>>

LowClients == {"LDR", "AUX"}

(***************************************************************************)
(* Choice                                                                  *)
(***************************************************************************)
Asks(t) == req[t] # NoOp

BankFreeNow(b) == b \in bank_idle     \* mutant: the held operation is ignored

BankFree(b) ==
  /\ b \in bank_idle
  /\ op # NoOp => op.kind # "ref" /\ op.bank # b

Ready(t) == Asks(t) /\ BankFree(req[t].bank)

VidUrgentAny == Asks("VID")                \* mutant: every video read is urgent
VidUrgent == Asks("VID") /\ urgent
Old(t)    == Asks(t) /\ age[t] = T_STARVE
RefForced == ref_debt >= DEBT_MAX

Sel ==
  IF RefForced                        THEN "REF"
  ELSE IF VidUrgent                   THEN "VID"
  ELSE IF Old("LDR")                  THEN "LDR"
  ELSE IF Old("AUX")                  THEN "AUX"
  ELSE IF Asks("CPU")                 THEN "CPU"
  ELSE IF Asks("LDR") /\ LDR_HIGH     THEN "LDR"
  ELSE IF Ready("VID")                THEN "VID"
  ELSE IF Ready("LDR")                THEN "LDR"
  ELSE IF Ready("AUX")                THEN "AUX"
  ELSE IF ref_debt # 0 /\ ~Asks("VID") /\ ~Asks("LDR") /\ ~Asks("AUX")
                                      THEN "REF"
  ELSE "NONE"

\* The choices 5. to 7. of the list in sdram_arbiter.sv.
LowChoice ==
  /\ Sel \in {"VID", "LDR", "AUX"}
  /\ ~VidUrgent /\ ~Old("LDR") /\ ~Old("AUX")
  /\ ~(Asks("LDR") /\ LDR_HIGH)

SwapAny ==             \* mutant: without op_ref
  /\ op # NoOp /\ op_ref_optional /\ ~OpIssue /\ ~RefForced
  /\ VidUrgent \/ Asks("CPU")

\* An optional refresh that has not gone out gives its place up.
Swap ==
  /\ op.kind = "ref" /\ op_ref_optional /\ ~OpIssue /\ ~RefForced
  /\ VidUrgent \/ Asks("CPU")

Free == op = NoOp \/ OpIssue \/ Swap

\* What is captured on this clock: a client's request, which is thereby
\* acknowledged, a refresh ("REF") or nothing ("NONE").
Grant == IF init_done /\ Free THEN Sel ELSE "NONE"

(***************************************************************************)
(* The holding register.  In this and the following operators g stands for *)
(* Grant.                                                                  *)
(***************************************************************************)
Capture(g) == g \in Tags /\ op' = req[g] /\ op_ref_optional' = ~RefForced

CaptureRefresh(g) == g = "REF" /\ op' = Refresh /\ op_ref_optional' = ~RefForced

Empty(g) == g = "NONE" /\ Free /\ op' = NoOp /\ op_ref_optional' = ~RefForced

Hold(g) == g = "NONE" /\ ~Free /\ UNCHANGED <<op, op_ref_optional>>

(***************************************************************************)
(* Counters                                                                *)
(***************************************************************************)
RefiTick == refi_cnt = T_REFI - 1

One(p) == IF p THEN 1 ELSE 0

CountRefreshesNoRefund(g) ==    \* mutant: a swapped refresh is forgotten
  IF init_done
    THEN /\ refi_cnt' = IF RefiTick THEN 0 ELSE refi_cnt + 1
         /\ ref_debt' = (ref_debt + One(RefiTick) - One(g = "REF")) % 16
    ELSE refi_cnt' = 0 /\ ref_debt' = 0

CountRefreshesAllAtOnce(g) ==   \* mutant: the timer is not cleared at its end
  IF init_done
    THEN /\ refi_cnt' = IF RefiTick THEN refi_cnt ELSE refi_cnt + 1
         /\ ref_debt' = (ref_debt + One(RefiTick) + One(Swap) - One(g = "REF")) % 16
    ELSE refi_cnt' = 0 /\ ref_debt' = 0

CountRefreshes(g) ==
  IF init_done
    THEN /\ refi_cnt' = IF RefiTick THEN 0 ELSE refi_cnt + 1
         /\ ref_debt' = (ref_debt + One(RefiTick) + One(Swap) - One(g = "REF")) % 16
    ELSE refi_cnt' = 0 /\ ref_debt' = 0

CountAgesAny(g) ==              \* mutant: any acknowledgement clears the ages
  age' = [t \in LowClients |-> IF ~Asks(t) \/ g # "NONE" THEN 0
                               ELSE IF Old(t) THEN age[t] ELSE age[t] + 1]

CountAges(g) ==
  age' = [t \in LowClients |-> IF ~Asks(t) \/ g = t THEN 0
                               ELSE IF Old(t) THEN age[t] ELSE age[t] + 1]

(***************************************************************************)
(* The clients.  A request is held until its acknowledgement and may be    *)
(* followed at once by the next one, except that the CPU port has a single *)
(* access at a time: it asks again when the words of its read are back.    *)
(* The video engines share one port and read at the rates of their modes:  *)
(* VID_BURST reads may become urgent in a row, of the two reads of a text  *)
(* character and of two engines that coincide, and one in VID_PERIOD       *)
(* clocks after that.                                                      *)
(* Nobody asks during power-up: such a request would only wait for its end.*)
(***************************************************************************)
CpuReading(g) ==
  \/ g = "CPU" /\ req["CPU"].kind = "read"
  \/ op.kind = "read" /\ op.tag = "CPU"
  \/ \E q \in rdq : q.tag = "CPU"

NewRequests(t, g) ==
  IF ~init_done \/ (t = "CPU" /\ CpuReading(g)) THEN {NoOp}
  ELSE { r \in Requests : r.tag = t } \cup {NoOp}

NextRequests(t, g) == IF Asks(t) /\ g # t THEN {req[t]} ELSE NewRequests(t, g)

VidEarned == One(vid_credit < VID_BURST /\ vid_gap = 0)

VidDeadline(g) ==
  LET stays == VidUrgent /\ g # "VID"
      left  == vid_credit + VidEarned
  IN  /\ \/ urgent' = stays /\ vid_credit' = left
         \/ /\ ~stays /\ left > 0 /\ req'["VID"] # NoOp
            /\ urgent' = TRUE /\ vid_credit' = left - 1
      /\ vid_gap' = IF vid_credit = VID_BURST \/ vid_gap = 0 THEN VID_PERIOD - 1
                                                            ELSE vid_gap - 1

Clients(g) ==
  /\ \E v \in NextRequests("VID", g), c \in NextRequests("CPU", g),
        l \in NextRequests("LDR", g), a \in NextRequests("AUX", g) :
       req' = [VID |-> v, CPU |-> c, LDR |-> l, AUX |-> a]
  /\ VidDeadline(g)

(***************************************************************************)
(* Latency of the CPU, as the statistics measure it: from the request to   *)
(* the acknowledgement of a write or the first word of a read.             *)
(***************************************************************************)
CpuLatency(g) ==
  /\ cpu_rd_wait' = \/ g = "CPU" /\ req["CPU"].kind = "read"
                    \/ cpu_rd_wait /\ ~(rd.valid /\ rd.tag = "CPU")
  /\ cpu_wait' = IF cpu_rd_wait' \/ (Asks("CPU") /\ g # "CPU")
                   THEN (IF cpu_wait < LAT_MAX THEN cpu_wait + 1 ELSE LAT_MAX)
                   ELSE 0

(***************************************************************************)
(* History: what the refresh timer has asked for and what the chip has     *)
(* got, the refreshes sent while the CPU waits for its acknowledgement,    *)
(* and whether `op' was captured as one of the low-priority choices.       *)
(* owed stops counting where ref_debt and the holding register would.      *)
(***************************************************************************)
OWED_MAX == 16

Owed == owed + One(RefiTick) - One(RefreshIssue)

History(g) ==
  /\ owed' = IF ~init_done THEN 0 ELSE IF Owed > OWED_MAX THEN OWED_MAX ELSE Owed
  /\ refs_ahead' = IF Asks("CPU") /\ g # "CPU"
                     THEN (IF refs_ahead = 2 THEN 2 ELSE refs_ahead + One(RefreshIssue))
                     ELSE 0
  /\ op_low' = IF Free THEN g # "NONE" /\ LowChoice ELSE op_low

(***************************************************************************)
(* One clock                                                               *)
(***************************************************************************)
ArbInit ==
  /\ op = NoOp /\ op_ref_optional = FALSE
  /\ req = [t \in Tags |-> NoOp] /\ urgent = FALSE
  /\ vid_credit = VID_BURST /\ vid_gap = VID_PERIOD - 1
  /\ refi_cnt = 0 /\ ref_debt = 0 /\ age = [t \in LowClients |-> 0]
  /\ cpu_rd_wait = FALSE /\ cpu_wait = 0
  /\ owed = 0 /\ refs_ahead = 0 /\ op_low = FALSE

ArbClock ==
  \E g \in {Grant} :
    /\ Capture(g) \/ CaptureRefresh(g) \/ Empty(g) \/ Hold(g)
    /\ CountRefreshes(g) /\ CountAges(g)
    /\ Clients(g) /\ CpuLatency(g) /\ History(g)

Init == ArbInit /\ CtrlInit
Next == ArbClock /\ CtrlClock
Spec == Init /\ [][Next]_vars

\* clk_sdram never stops.
FairSpec == Spec /\ []<><<Next>>_vars

(***************************************************************************)
(* Properties                                                              *)
(***************************************************************************)

\* The registers keep their widths: 10'(T_REFI), ref_debt [3:0], ldr_age and
\* aux_age up to T_STARVE; a held operation is a client's request or a refresh.
TypeOK ==
  /\ op \in Requests \cup {Refresh, NoOp}
  /\ \A t \in Tags : req[t] \in { r \in Requests : r.tag = t } \cup {NoOp}
  /\ urgent \in BOOLEAN
  /\ vid_credit \in 0 .. VID_BURST /\ vid_gap \in 0 .. VID_PERIOD - 1
  /\ refi_cnt \in 0 .. T_REFI - 1 /\ ref_debt \in 0 .. 15
  /\ op_ref_optional \in BOOLEAN /\ age \in [LowClients -> 0 .. T_STARVE]
  /\ cpu_rd_wait \in BOOLEAN /\ cpu_wait \in 0 .. LAT_MAX
  /\ owed \in 0 .. OWED_MAX /\ refs_ahead \in 0 .. 2 /\ op_low \in BOOLEAN

\* "Ticks are never dropped": the refreshes that the timer has asked for and
\* the chip has not had are exactly the debt and the one in the holding
\* register, however often an optional refresh is taken and given back.
RefreshLedger == owed = ref_debt + One(op.kind = "ref")

\* "Up to eight are postponed": the chip is never owed more than DEBT_MAX.
RefreshPostponed == owed <= DEBT_MAX

\* An operation that was captured as a low-priority choice never waits for its
\* bank: no refresh and no access to that bank went out in between.
LowPriorityBankIdle == op_low => op.bank \in bank_idle

\* "The CPU can only ever find one refresh in front of it".
OneRefreshAhead == Asks("CPU") => refs_ahead + One(RefreshIssue) <= 1

\* What the CPU waits for at most, from its request to the write's
\* acknowledgement or the first word read (cpu_lat_max), with never more than that
\* one refresh in front of it.
CpuLatencyBound == OneRefreshAhead /\ cpu_wait < LAT_MAX

\* No client starves: LDR and AUX under a CPU that never lets go, the CPU under
\* the others, a video read once it is urgent.
NobodyStarves ==
  /\ VidUrgent ~> Grant = "VID"
  /\ \A t \in Tags \ {"VID"} : Asks(t) ~> Grant = t
===============================================================================
