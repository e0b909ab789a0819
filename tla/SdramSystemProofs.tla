-------------------------- MODULE SdramSystemProofs --------------------------
(***************************************************************************)
(* The arbiter, for every set of requests, every timing and every choice   *)
(* of its parameters; and the SDRAM subsystem, which implements SdramBus   *)
(* and inherits what was proved about it.                                  *)
(***************************************************************************)
EXTENDS SdramSystem, SdramBusProofs, FiniteSetTheorems

(***************************************************************************)
(* The choice                                                              *)
(***************************************************************************)

\* Only a client that asks is chosen, and a refresh only when one is owed.
LEMMA ChoiceSound ==
  ASSUME TypeOK
  PROVE  /\ Grant \in Tags \cup {"REF", "NONE"}
         /\ Grant \in Tags => Asks(Grant)
         /\ Grant = "REF" => ref_debt >= 1
         /\ Grant # "NONE" => init_done /\ Free
<1>1. /\ Sel \in Tags \cup {"REF", "NONE"}
      /\ Sel \in Tags => Asks(Sel)
  BY DEF Sel, Tags, Ready, VidUrgent, Old
<1>2. Sel = "REF" => ref_debt >= 1
  BY ArbiterAssumption DEF Sel, RefForced, TypeOK
<1>3. QED
  BY <1>1, <1>2 DEF Grant, Tags

\* A low-priority choice is a request whose bank is idle and is not about to
\* be taken by the operation in the holding register.
LEMMA LowChoiceFree ==
  ASSUME TypeOK, LowChoice
  PROVE  Sel \in Tags /\ BankFree(req[Sel].bank)
BY DEF LowChoice, Sel, Tags, Ready, VidUrgent, Old

(***************************************************************************)
(* Types                                                                   *)
(***************************************************************************)

\* The debt never counts more refreshes than are owed.
DebtOwed == owed >= ref_debt + One(op.kind = "ref")

\* Nothing is captured during power-up.
EmptyBeforeInit == ~init_done => op = NoOp

\* No credit is on its way when all are there.
FullCredit == vid_credit = VID_BURST => vid_gap = VID_PERIOD - 1

ArbInv == TypeOK /\ DebtOwed /\ EmptyBeforeInit /\ FullCredit

LEMMA InitTypes == Init => ArbInv
<1>1. ASSUME Init PROVE TypeOK
  <2>1. \A t \in Tags : req[t] = NoOp
    BY <1>1 DEF Init, ArbInit
  <2>2. /\ urgent \in BOOLEAN /\ op_ref_optional \in BOOLEAN
        /\ cpu_rd_wait \in BOOLEAN /\ op_low \in BOOLEAN
    BY <1>1 DEF Init, ArbInit
  <2>3. /\ vid_credit \in 0 .. VID_BURST /\ vid_gap \in 0 .. VID_PERIOD - 1
        /\ refi_cnt \in 0 .. T_REFI - 1 /\ ref_debt \in 0 .. 15
        /\ age \in [LowClients -> 0 .. T_STARVE]
        /\ cpu_wait \in 0 .. LAT_MAX /\ owed \in 0 .. 16 /\ refs_ahead \in 0 .. 2
        /\ op = NoOp
    BY <1>1, ArbiterAssumption DEF Init, ArbInit
  <2>4. QED
    BY <2>1, <2>2, <2>3 DEF TypeOK, OWED_MAX
<1>2. ASSUME Init PROVE DebtOwed
  BY <1>2 DEF Init, ArbInit, DebtOwed, One, NoOp
<1>3. ASSUME Init PROVE EmptyBeforeInit
  BY <1>3 DEF Init, ArbInit, EmptyBeforeInit
<1>4. ASSUME Init PROVE FullCredit
  BY <1>4 DEF Init, ArbInit, FullCredit
<1>5. QED
  BY <1>1, <1>2, <1>3, <1>4 DEF ArbInv

LEMMA HoldingTypes ==
  ASSUME TypeOK, NEW g, g = Grant,
         Capture(g) \/ CaptureRefresh(g) \/ Empty(g) \/ Hold(g)
  PROVE  op' \in Requests \cup {Refresh, NoOp} /\ op_ref_optional' \in BOOLEAN
<1>1. CASE Capture(g)
  <2>1. req[g] \in Requests
    BY <1>1, ChoiceSound DEF Capture, TypeOK, Asks
  <2>2. QED
    BY <1>1, <2>1 DEF Capture, RefForced
<1>2. CASE ~Capture(g)
  BY <1>2 DEF CaptureRefresh, Empty, Hold, RefForced, TypeOK
<1>3. QED
  BY <1>1, <1>2

LEMMA CounterTypes ==
  ASSUME TypeOK, NEW g, g = Grant, CountRefreshes(g), CountAges(g)
  PROVE  /\ refi_cnt' \in 0 .. T_REFI - 1 /\ ref_debt' \in 0 .. 15
         /\ age' \in [LowClients -> 0 .. T_STARVE]
<1>1. refi_cnt' \in 0 .. T_REFI - 1
  BY ArbiterAssumption DEF TypeOK, CountRefreshes, RefiTick
<1>2. ref_debt' \in 0 .. 15
  <2>1. ref_debt + One(RefiTick) + One(Swap) - One(g = "REF") \in Int
    BY DEF TypeOK, One
  <2>2. QED
    BY <2>1 DEF CountRefreshes
<1>3. age' \in [LowClients -> 0 .. T_STARVE]
  BY ArbiterAssumption DEF TypeOK, CountAges, Old
<1>4. QED
  BY <1>1, <1>2, <1>3

LEMMA ClientTypes ==
  ASSUME TypeOK, NEW g, Clients(g)
  PROVE  /\ \A t \in Tags : req'[t] \in { r \in Requests : r.tag = t } \cup {NoOp}
         /\ urgent' \in BOOLEAN
         /\ vid_credit' \in 0 .. VID_BURST /\ vid_gap' \in 0 .. VID_PERIOD - 1
         /\ FullCredit => FullCredit'
<1>1. \A t \in Tags : NextRequests(t, g) \subseteq { r \in Requests : r.tag = t } \cup {NoOp}
  BY DEF TypeOK, NextRequests, NewRequests
<1>2. \A t \in Tags : req'[t] \in NextRequests(t, g)
  BY DEF Clients, Tags
<1>3. urgent' \in BOOLEAN
  BY DEF Clients, VidDeadline, VidUrgent, TypeOK
<1>4. /\ vid_credit' \in 0 .. VID_BURST /\ vid_gap' \in 0 .. VID_PERIOD - 1
      /\ FullCredit => FullCredit'
  <2>1. /\ vid_credit \in 0 .. VID_BURST /\ VID_BURST \in Nat
        /\ vid_gap \in 0 .. VID_PERIOD - 1 /\ VID_PERIOD \in Nat \ {0}
    BY ArbiterAssumption DEF TypeOK
  <2>2. VidEarned \in {0, 1} /\ (VidEarned = 1 <=> vid_credit < VID_BURST /\ vid_gap = 0)
    BY DEF VidEarned, One
  <2>3. \/ vid_credit' = vid_credit + VidEarned
        \/ vid_credit + VidEarned > 0 /\ vid_credit' = (vid_credit + VidEarned) - 1
    BY DEF Clients, VidDeadline
  <2>4. vid_gap' = IF vid_credit = VID_BURST \/ vid_gap = 0 THEN VID_PERIOD - 1
                                                           ELSE vid_gap - 1
    BY DEF Clients, VidDeadline
  <2>5. vid_gap' \in 0 .. VID_PERIOD - 1
    BY <2>1, <2>4
  <2>6. vid_credit' \in 0 .. VID_BURST
    <3>1. vid_credit + VidEarned \in 0 .. VID_BURST
      BY <2>1, <2>2
    <3>2. QED
      BY <2>1, <2>3, <3>1
  <2>7. ASSUME FullCredit, vid_credit' = VID_BURST PROVE vid_gap' = VID_PERIOD - 1
    <3>1. VidEarned \in {0, 1} /\ vid_credit' <= vid_credit + VidEarned
      BY <2>1, <2>2, <2>3
    <3>2. VidEarned = 1 \/ vid_credit = VID_BURST
      BY <2>1, <2>7, <3>1
    <3>3. QED
      BY <2>2, <2>4, <3>2
  <2>8. QED
    BY <2>5, <2>6, <2>7 DEF FullCredit
<1>5. QED
  BY <1>1, <1>2, <1>3, <1>4

LEMMA LatencyTypes ==
  ASSUME TypeOK, NEW g, CpuLatency(g)
  PROVE  cpu_rd_wait' \in BOOLEAN /\ cpu_wait' \in 0 .. LAT_MAX
<1>1. cpu_rd_wait' \in BOOLEAN
  BY DEF CpuLatency, TypeOK
<1>2. cpu_wait \in 0 .. LAT_MAX /\ LAT_MAX \in Nat
  BY ArbiterAssumption DEF TypeOK
<1>3. cpu_wait' \in {0, LAT_MAX} \/ (cpu_wait < LAT_MAX /\ cpu_wait' = cpu_wait + 1)
  BY DEF CpuLatency
<1>4. QED
  BY <1>1, <1>2, <1>3

(***************************************************************************)
(* The ledger                                                              *)
(***************************************************************************)

\* The power-up sequence is run once.
LEMMA ReadyStays == ASSUME CtrlClock, init_done PROVE init_done'
BY DEF init_done, CtrlClock, PowerUp, PowerUpWait, PowerUpCommand, IssueAccess,
       IssueRefresh, SendColumn, Wait

LEMMA RequestKind == ASSUME NEW r \in Requests PROVE r.kind # "ref" /\ IsAccess(r)
BY ArbiterAssumption DEF IsRequest, Reads, Writes, IsAccess

\* A refresh leaves the holding register only by being issued or put back, and
\* enters it only by being taken from the debt.
LEMMA HoldingRefresh ==
  ASSUME TypeOK, init_done, NEW g, g = Grant,
         Capture(g) \/ CaptureRefresh(g) \/ Empty(g) \/ Hold(g)
  PROVE  One((op.kind = "ref")') = One(op.kind = "ref") - One(RefreshIssue) - One(Swap)
                                   + One(g = "REF")
<1>1. /\ RefreshIssue => op.kind = "ref" /\ OpIssue
      /\ Swap => op.kind = "ref" /\ ~OpIssue
      /\ op.kind = "ref" /\ OpIssue => RefreshIssue
  BY DEF RefreshIssue, AccessIssue, OpIssue, Swap, IsAccess
<1>2. op = NoOp => op.kind # "ref"
  BY DEF NoOp
<1>3. CASE Capture(g)
  <2>1. g # "REF" /\ g # "NONE" /\ Free
    BY <1>3, ChoiceSound DEF Capture, Tags
  <2>2. (op.kind = "ref")' = FALSE
    BY <1>3, ChoiceSound, RequestKind DEF Capture, TypeOK, Asks
  <2>3. QED
    BY <1>1, <1>2, <2>1, <2>2 DEF Free, One
<1>4. CASE CaptureRefresh(g)
  <2>1. g = "REF" /\ Free /\ (op.kind = "ref")' = TRUE
    BY <1>4, ChoiceSound DEF CaptureRefresh, Refresh
  <2>2. QED
    BY <1>1, <1>2, <2>1 DEF Free, One
<1>5. CASE Empty(g)
  <2>1. g = "NONE" /\ Free /\ (op.kind = "ref")' = FALSE
    BY <1>5 DEF Empty, NoOp
  <2>2. QED
    BY <1>1, <1>2, <2>1 DEF Free, One
<1>6. CASE Hold(g)
  <2>1. g = "NONE" /\ ~Free /\ op' = op
    BY <1>6 DEF Hold
  <2>2. QED
    BY <1>1, <2>1 DEF Free, One
<1>7. QED
  BY <1>3, <1>4, <1>5, <1>6

\* What the debt counts before it is cut to four bits.
LEMMA DebtStep ==
  ASSUME ArbInv, init_done, NEW g, g = Grant, CountRefreshes(g), History(g),
         Capture(g) \/ CaptureRefresh(g) \/ Empty(g) \/ Hold(g)
  PROVE  \E d \in Nat :
           /\ d - ref_debt - One(op.kind = "ref") = Owed - owed - One((op.kind = "ref")')
           /\ ref_debt' = d % 16
<1> DEFINE d == ref_debt + One(RefiTick) + One(Swap) - One(g = "REF")
<1>1. \A p \in BOOLEAN : One(p) \in {0, 1}
  BY DEF One
<1>2. ref_debt \in 0 .. 15 /\ owed \in 0 .. 16 /\ (g = "REF" => ref_debt >= 1)
  BY ChoiceSound DEF ArbInv, TypeOK, OWED_MAX
<1>3. d \in Nat
  BY <1>2 DEF One
<1>4. Owed = owed + One(RefiTick) - One(RefreshIssue) /\ ref_debt' = d % 16
  BY DEF Owed, CountRefreshes
<1>5. One((op.kind = "ref")') = One(op.kind = "ref") - One(RefreshIssue) - One(Swap)
                                + One(g = "REF")
  BY HoldingRefresh DEF ArbInv
<1>6. One(RefiTick) \in Int /\ One(Swap) \in Int /\ One(g = "REF") \in Int
      /\ One(RefreshIssue) \in Int /\ One(op.kind = "ref") \in Int
      /\ One((op.kind = "ref")') \in Int
  BY DEF One
<1>7. d - ref_debt - One(op.kind = "ref") = Owed - owed - One((op.kind = "ref")')
  BY <1>2, <1>4, <1>5, <1>6
<1>8. QED
  BY <1>3, <1>4, <1>7

LEMMA DebtNext ==
  ASSUME ArbInv, ArbClock, CtrlClock
  PROVE  /\ DebtOwed' /\ owed' \in 0 .. 16
         /\ RefreshLedger /\ RefreshPostponed' => RefreshLedger'
<1>1. PICK g : /\ g = Grant /\ CountRefreshes(g) /\ History(g)
               /\ Capture(g) \/ CaptureRefresh(g) \/ Empty(g) \/ Hold(g)
  BY DEF ArbClock
<1>2. /\ One(op.kind = "ref") \in {0, 1} /\ One((op.kind = "ref")') \in {0, 1}
      /\ ref_debt \in 0 .. 15 /\ owed \in 0 .. 16
  BY DEF One, ArbInv, TypeOK, OWED_MAX
<1>3. CASE init_done
  <2>1. PICK d \in Nat :
          /\ d - ref_debt - One(op.kind = "ref") = Owed - owed - One((op.kind = "ref")')
          /\ ref_debt' = d % 16
    BY <1>1, <1>3, DebtStep
  <2>2. Owed \in Int /\ owed' = (IF Owed > 16 THEN 16 ELSE Owed)
    BY <1>1, <1>2, <1>3 DEF History, Owed, One, OWED_MAX
  <2>3. owed >= ref_debt + One(op.kind = "ref")
    BY DEF ArbInv, DebtOwed
  <2>4. Owed >= d + One((op.kind = "ref")')
    BY <1>2, <2>1, <2>2, <2>3
  <2>5. d % 16 \in 0 .. 15 /\ d % 16 <= d /\ (d <= 15 => d % 16 = d)
    OBVIOUS
  <2>6. DebtOwed' /\ owed' \in 0 .. 16
    <3>1. ref_debt' \in 0 .. 15 /\ ref_debt' <= d
      BY <2>1, <2>5
    <3>2. owed' >= ref_debt' + One((op.kind = "ref")') /\ owed' \in 0 .. 16
      BY <1>2, <2>2, <2>4, <3>1
    <3>3. QED
      BY <3>2 DEF DebtOwed
  <2>7. ASSUME RefreshLedger, RefreshPostponed' PROVE RefreshLedger'
    <3>1. owed' <= 8 /\ owed' = Owed
      BY <2>2, <2>7, ArbiterAssumption DEF RefreshPostponed
    <3>2. owed' = d + One((op.kind = "ref")')
      BY <1>2, <2>1, <2>2, <2>7, <3>1 DEF RefreshLedger
    <3>3. d <= 15
      BY <1>2, <2>2, <3>1, <3>2
    <3>4. QED
      BY <2>1, <2>5, <3>2, <3>3 DEF RefreshLedger
  <2>8. QED
    BY <2>6, <2>7
<1>4. CASE ~init_done
  <2>1. owed' = 0 /\ ref_debt' = 0
    BY <1>1, <1>4 DEF History, CountRefreshes
  <2>2. op' = NoOp
    BY <1>1, <1>4 DEF Grant, Capture, CaptureRefresh, Empty, Hold, Tags, ArbInv,
                     EmptyBeforeInit
  <2>3. One((op.kind = "ref")') = 0
    BY <2>2 DEF One, NoOp
  <2>4. QED
    BY <2>1, <2>3 DEF DebtOwed, RefreshLedger
<1>5. QED
  BY <1>3, <1>4

LEMMA ArbNext == ArbInv /\ [Next]_vars => ArbInv'
<1>1. CASE ArbInv /\ Next
  <2>1. ArbClock /\ CtrlClock /\ TypeOK
    BY <1>1 DEF Next, ArbInv
  <2>2. PICK g : /\ g = Grant /\ CountRefreshes(g) /\ CountAges(g)
                 /\ Capture(g) \/ CaptureRefresh(g) \/ Empty(g) \/ Hold(g)
                 /\ Clients(g) /\ CpuLatency(g) /\ History(g)
    BY <2>1 DEF ArbClock
  <2>3. DebtOwed' /\ owed' \in 0 .. 16
    BY <1>1, <2>1, DebtNext
  <2>4. refs_ahead' \in 0 .. 2
    BY <2>1, <2>2 DEF History, TypeOK, One
  <2>5. op_low' \in BOOLEAN
    BY <2>1, <2>2 DEF History, TypeOK, LowChoice
  <2>6. TypeOK'
    <3>1. op' \in Requests \cup {Refresh, NoOp} /\ op_ref_optional' \in BOOLEAN
      BY <2>1, <2>2, HoldingTypes
    <3>2. /\ refi_cnt' \in 0 .. T_REFI - 1 /\ ref_debt' \in 0 .. 15
          /\ age' \in [LowClients -> 0 .. T_STARVE]
      BY <2>1, <2>2, CounterTypes
    <3>3. /\ \A t \in Tags : req'[t] \in { r \in Requests : r.tag = t } \cup {NoOp}
          /\ urgent' \in BOOLEAN
          /\ vid_credit' \in 0 .. VID_BURST /\ vid_gap' \in 0 .. VID_PERIOD - 1
      BY <2>1, <2>2, ClientTypes
    <3>4. cpu_rd_wait' \in BOOLEAN /\ cpu_wait' \in 0 .. LAT_MAX
      BY <2>1, <2>2, LatencyTypes
    <3>5. QED
      BY <2>3, <2>4, <2>5, <3>1, <3>2, <3>3, <3>4 DEF TypeOK, OWED_MAX
  <2>7. EmptyBeforeInit'
    <3>1. CASE init_done
      BY <2>1, <3>1, ReadyStays DEF EmptyBeforeInit
    <3>2. CASE ~init_done
      BY <1>1, <2>2, <3>2 DEF Grant, Capture, CaptureRefresh, Empty, Hold, Tags, ArbInv,
                            EmptyBeforeInit
    <3>3. QED
      BY <3>1, <3>2
  <2>8. FullCredit'
    BY <1>1, <2>1, <2>2, ClientTypes DEF ArbInv
  <2>9. QED
    BY <2>3, <2>6, <2>7, <2>8 DEF ArbInv
<1>2. CASE ArbInv /\ UNCHANGED vars
  BY <1>2 DEF ArbInv, TypeOK, DebtOwed, EmptyBeforeInit, FullCredit, init_done, vars, ctrlVars
<1>3. QED
  BY <1>1, <1>2

LEMMA ArbInvariant == Spec => []ArbInv
BY InitTypes, ArbNext, PTL DEF Spec

\* The arbiter's registers keep their widths and hold operations of the clients.
THEOREM ArbiterTypes == Spec => []TypeOK
<1>1. ArbInv => TypeOK
  BY DEF ArbInv
<1>2. QED
  BY <1>1, ArbInvariant, PTL

(***************************************************************************)
(* Refreshes in time                                                       *)
(***************************************************************************)

\* Nothing in the controller's tables or timers holds an operation back for more
\* than k clocks.
ClearIn(k) ==
  /\ \A c \in col : c.at \in Nat /\ c.at < k
  /\ \A e \in wr_drv \cup rd_busy : e \in Nat /\ e < k
  /\ \A b \in Banks : bank_wait[b] \in 0 .. k
  /\ act_wait \in 0 .. k

\* The holding register keeps a refresh that no client can put back.
RefreshHeld == op.kind = "ref" /\ ~op_ref_optional

\* A refresh that is forced is on its way: d clocks after the tick at most it is
\* held for good, and d + 1 clocks later it has been sent.
Underway(d) ==
  owed = DEBT_MAX =>
    \E k \in 0 .. d :
      ClearIn(k) /\ refi_cnt + k <= (IF RefreshHeld THEN 2 * d + 1 ELSE d)

TimelyInv(d) == ArbInv /\ RefreshLedger /\ RefreshPostponed /\ ClearIn(d) /\ Underway(d)

\* The tables shift down by one on a clock that issues nothing.
LEMMA ClearShifts ==
  ASSUME NEW k \in Nat, ClearIn(k), CtrlClock, ~IssueAccess, ~IssueRefresh
  PROVE  ClearIn(IF k = 0 THEN 0 ELSE k - 1)'
<1> DEFINE m == IF k = 0 THEN 0 ELSE k - 1
<1>1. ShiftTables /\ CountDownTimers
  BY DEF CtrlClock, PowerUp, SendColumn, Wait
<1>2. ASSUME NEW c \in col' PROVE c.at \in Nat /\ c.at < m
  <2>1. PICK x \in col : x.at > 0 /\ c = [x EXCEPT !.at = x.at - 1]
    BY <1>1, <1>2 DEF ShiftTables, ShiftSlots
  <2>2. x.at \in Nat /\ x.at < k
    BY DEF ClearIn
  <2>3. QED
    BY <2>1, <2>2
<1>3. ASSUME NEW e \in wr_drv' \cup rd_busy' PROVE e \in Nat /\ e < m
  <2>1. PICK t \in wr_drv \cup rd_busy : t # 0 /\ e = t - 1
    BY <1>1 DEF ShiftTables, ShiftEdges
  <2>2. t \in Nat /\ t < k
    BY DEF ClearIn
  <2>3. QED
    BY <2>1, <2>2
<1>4. \A n \in 0 .. k : CountDown(n) \in 0 .. m
  BY DEF CountDown
<1>5. \A b \in Banks : bank_wait'[b] \in 0 .. m
  BY <1>1, <1>4 DEF CountDownTimers, ClearIn
<1>6. act_wait' \in 0 .. m
  BY <1>1, <1>4 DEF CountDownTimers, ClearIn
<1>7. QED
  BY <1>2, <1>3, <1>5, <1>6 DEF ClearIn

\* An access that was sent has left nothing behind m clocks later, if nothing else has
\* m + 1 clocks from now.
LEMMA AccessDrains ==
  ASSUME NEW m \in Nat, ClearIn(m + 1), TypeOK, IssueAccess,
         T_RCD + op.n + CL <= m, BankBusy(op) <= m + 1, T_RRD <= m + 1
  PROVE  ClearIn(m)'
<1>1. op \in Requests
  BY DEF IssueAccess, AccessIssue, IsAccess, TypeOK, Refresh, NoOp
<1>2. op.n \in 1 .. 4 /\ T_RCD \in Nat \ {0} /\ CL \in Nat /\ CL >= 2
      /\ T_RCD + op.n + CL <= m
  BY <1>1, ArbiterAssumption, GeometryAssumption, TimingAssumption
  DEF IsRequest, Reads, Writes
<1>3. ASSUME NEW i \in Burst(op.n)
      PROVE  /\ ColumnAt(i) \in 1 .. m
             /\ \A t \in ReadWindow(ColumnAt(i)) : t \in 1 .. m
  <2>1. i \in 0 .. op.n - 1
    BY DEF Burst
  <2>2. QED
    BY <1>2, <2>1 DEF ColumnAt, ReadWindow
<1>4. ASSUME NEW c \in col' PROVE c.at \in Nat /\ c.at < m
  <2>1. PICK x \in col \cup NewColumns : x.at > 0 /\ c = [x EXCEPT !.at = x.at - 1]
    BY <1>4 DEF IssueAccess, ShiftSlots
  <2>2. CASE x \in col
    <3>1. x.at \in Nat /\ x.at < m + 1
      BY <2>2 DEF ClearIn
    <3>2. QED
      BY <2>1, <3>1
  <2>3. CASE x \in NewColumns
    <3>1. PICK i \in Burst(op.n) : x = Column(i)
      BY <2>3 DEF NewColumns
    <3>2. x.at \in 1 .. m /\ c.at = x.at - 1
      BY <1>3, <2>1, <3>1 DEF Column
    <3>3. QED
      BY <3>2
  <2>4. QED
    BY <2>1, <2>2, <2>3
<1>5. ASSUME NEW e \in wr_drv' \cup rd_busy' PROVE e \in Nat /\ e < m
  <2>1. CASE e \in wr_drv'
    <3>1. PICK t : /\ t # 0 /\ e = t - 1
                   /\ t \in wr_drv \/ \E i \in Burst(op.n) : t = ColumnAt(i)
      BY <2>1 DEF IssueAccess, ShiftEdges
    <3>2. t \in 0 .. m
      BY <1>3, <3>1 DEF ClearIn
    <3>3. QED
      BY <3>1, <3>2
  <2>2. CASE e \in rd_busy'
    <3>1. PICK t : /\ t # 0 /\ e = t - 1
                   /\ t \in rd_busy \/ \E i \in Burst(op.n) : t \in ReadWindow(ColumnAt(i))
      BY <2>2 DEF IssueAccess, ShiftEdges
    <3>2. t \in 0 .. m
      BY <1>3, <3>1 DEF ClearIn
    <3>3. QED
      BY <3>1, <3>2
  <2>3. QED
    BY <2>1, <2>2
<1>6. BankBusy(op) - 1 \in 0 .. m
  <2>1. BankBusy(op) \in Nat /\ BankBusy(op) >= 1
    BY <1>2, TimingAssumption DEF BankBusy, Max2
  <2>2. QED
    BY <2>1
<1>7. \A b \in Banks : bank_wait'[b] \in 0 .. m
  BY <1>6 DEF IssueAccess, CountDown, ClearIn
<1>8. act_wait' \in 0 .. m
  BY TimingAssumption DEF IssueAccess
<1>9. QED
  BY <1>4, <1>5, <1>7, <1>8 DEF ClearIn

\* Issuing an operation fills them up to d again.
LEMMA ClearRefills ==
  ASSUME NEW d \in Nat, DrainsIn(d), ClearIn(d), TypeOK, IssueAccess \/ IssueRefresh
  PROVE  ClearIn(d)'
<1>1. CASE IssueRefresh
  <2>1. ShiftTables /\ T_RFC - 1 \in 0 .. d
    BY <1>1, TimingAssumption DEF IssueRefresh, DrainsIn
  <2>2. ASSUME NEW c \in col' PROVE c.at \in Nat /\ c.at < d
    <3>1. PICK x \in col : x.at > 0 /\ c = [x EXCEPT !.at = x.at - 1]
      BY <2>1, <2>2 DEF ShiftTables, ShiftSlots
    <3>2. x.at \in Nat /\ x.at < d
      BY DEF ClearIn
    <3>3. QED
      BY <3>1, <3>2
  <2>3. ASSUME NEW e \in wr_drv' \cup rd_busy' PROVE e \in Nat /\ e < d
    <3>1. PICK t \in wr_drv \cup rd_busy : t # 0 /\ e = t - 1
      BY <2>1 DEF ShiftTables, ShiftEdges
    <3>2. t \in Nat /\ t < d
      BY DEF ClearIn
    <3>3. QED
      BY <3>1, <3>2
  <2>4. \A b \in Banks : bank_wait'[b] \in 0 .. d
    BY <1>1, <2>1 DEF IssueRefresh
  <2>5. act_wait' \in 0 .. d
    BY <1>1 DEF IssueRefresh, CountDown, ClearIn
  <2>6. QED
    BY <2>2, <2>3, <2>4, <2>5 DEF ClearIn
<1>2. CASE IssueAccess
  <2>1. op \in Requests
    BY <1>2 DEF IssueAccess, AccessIssue, IsAccess, TypeOK, Refresh, NoOp
  <2>2. T_RCD + op.n + CL <= d /\ BankBusy(op) <= d + 1 /\ T_RRD <= d + 1
    BY <2>1 DEF DrainsIn
  <2>3. ClearIn(d + 1)
    BY DEF ClearIn
  <2>4. QED
    BY <1>2, <2>2, <2>3, AccessDrains
<1>3. QED
  BY <1>1, <1>2

\* Nothing holds an operation back when the tables and timers are empty.
LEMMA ClearIssues ==
  ASSUME TypeOK, init_done, ClearIn(0), op # NoOp
  PROVE  OpIssue
<1>1. col = {} /\ wr_drv = {} /\ rd_busy = {} /\ bank_idle = Banks /\ act_wait = 0
  BY DEF ClearIn, bank_idle
<1>2. ~col_due
  BY <1>1 DEF col_due
<1>3. CASE op = Refresh
  BY <1>1, <1>2, <1>3 DEF OpIssue, RefreshIssue, CanRefresh, Refresh
<1>4. CASE op \in Requests
  <2>1. IsAccess(op) /\ op.bank \in Banks
    BY <1>4, ArbiterAssumption DEF IsRequest, Reads, Writes, IsAccess
  <2>2. SlotsFree
    BY <1>1 DEF SlotsFree
  <2>3. QED
    BY <1>1, <1>2, <2>1, <2>2 DEF OpIssue, AccessIssue, CanAccess
<1>5. QED
  BY <1>3, <1>4 DEF TypeOK

LEMMA ClearStays ==
  ASSUME NEW d \in Nat, DrainsIn(d), ClearIn(d), TypeOK, CtrlClock
  PROVE  ClearIn(d)'
<1>1. CASE IssueAccess \/ IssueRefresh
  BY <1>1, ClearRefills
<1>2. CASE ~IssueAccess /\ ~IssueRefresh
  <2>1. ClearIn(IF d = 0 THEN 0 ELSE d - 1)'
    BY <1>2, ClearShifts
  <2>2. QED
    BY <2>1 DEF ClearIn
<1>3. QED
  BY <1>1, <1>2

\* When the debt is as large as it may get, the operation that follows the held
\* one is a refresh.
LEMMA ForcedNext ==
  ASSUME ArbInv, RefreshLedger, owed = DEBT_MAX, init_done, ArbClock,
         op.kind # "ref", Free
  PROVE  RefreshHeld'
<1>1. RefForced
  BY ArbiterAssumption DEF RefreshLedger, One, RefForced, ArbInv, TypeOK
<1>2. Grant = "REF"
  BY <1>1 DEF Grant, Sel
<1>3. op' = Refresh /\ op_ref_optional' = FALSE
  BY <1>1, <1>2 DEF ArbClock, Capture, CaptureRefresh, Empty, Hold, Tags
<1>4. QED
  BY <1>3 DEF RefreshHeld, Refresh

\* A refresh that no client can put back stays until it is sent.
LEMMA HeldStays ==
  ASSUME RefreshHeld, ArbClock, ~OpIssue, TypeOK
  PROVE  RefreshHeld'
<1>1. ~Free
  BY DEF RefreshHeld, Free, Swap, NoOp
<1>2. op' = op /\ op_ref_optional' = op_ref_optional
  BY <1>1, ChoiceSound DEF ArbClock, Capture, CaptureRefresh, Empty, Hold, Tags
<1>3. QED
  BY <1>2 DEF RefreshHeld

LEMMA UnderwayNext ==
  ASSUME NEW d \in Nat, DrainsIn(d), 2 * d + 2 < T_REFI, TimelyInv(d), Next
  PROVE  RefreshPostponed' /\ Underway(d)'
<1>1. /\ ArbInv /\ TypeOK /\ RefreshLedger /\ RefreshPostponed /\ ClearIn(d) /\ Underway(d)
      /\ ArbClock /\ CtrlClock
  BY DEF TimelyInv, ArbInv, Next
<1>2. DEBT_MAX \in 1 .. 8 /\ owed \in 0 .. 16 /\ refi_cnt \in 0 .. T_REFI - 1
      /\ T_REFI \in Nat /\ owed <= DEBT_MAX
  BY <1>1, ArbiterAssumption DEF TypeOK, OWED_MAX, RefreshPostponed
<1>3. CASE ~init_done
  <2>1. owed' = 0
    BY <1>1, <1>3 DEF ArbClock, History
  <2>2. QED
    BY <1>2, <2>1 DEF RefreshPostponed, Underway
<1>4. CASE init_done
  <2>1. /\ owed' = IF Owed > 16 THEN 16 ELSE Owed
        /\ refi_cnt' = IF RefiTick THEN 0 ELSE refi_cnt + 1
        /\ Owed = owed + One(RefiTick) - One(RefreshIssue)
    BY <1>1, <1>4 DEF ArbClock, History, CountRefreshes, OWED_MAX, Owed
  <2>2. One(RefreshIssue) \in {0, 1} /\ One(RefiTick) \in {0, 1}
        /\ (~RefiTick => One(RefiTick) = 0)
    BY DEF One
  <2>3. ClearIn(d)'
    BY <1>1, ClearStays
  <2>4. CASE owed < DEBT_MAX
    <3>1. RefreshPostponed'
      BY <1>2, <2>1, <2>2, <2>4 DEF RefreshPostponed
    <3>2. ASSUME owed' = DEBT_MAX PROVE refi_cnt' = 0
      BY <1>2, <2>1, <2>2, <2>4, <3>2
    <3>3. QED
      BY <2>3, <3>1, <3>2 DEF Underway
  <2>5. CASE owed = DEBT_MAX
    <3>1. PICK k \in 0 .. d :
            ClearIn(k) /\ refi_cnt + k <= (IF RefreshHeld THEN 2 * d + 1 ELSE d)
      BY <1>1, <2>5 DEF Underway
    <3>2. ~RefiTick
      BY <1>2, <3>1 DEF RefiTick
    <3>3. refi_cnt' = refi_cnt + 1 /\ owed' = owed - One(RefreshIssue)
      BY <1>2, <2>1, <2>2, <3>2
    <3>4. RefreshPostponed'
      BY <1>2, <2>2, <3>3 DEF RefreshPostponed
    <3>5. CASE RefreshIssue
      <4>1. One(RefreshIssue) = 1
        BY <3>5 DEF One
      <4>2. owed' # DEBT_MAX
        BY <1>2, <2>5, <3>3, <4>1
      <4>3. QED
        BY <3>4, <4>2 DEF Underway
    <3>6. CASE AccessIssue
      <4>1. ~RefreshHeld /\ RefreshHeld'
        BY <1>1, <1>4, <2>5, <3>6, ForcedNext DEF AccessIssue, IsAccess, RefreshHeld, Free,
                                                  OpIssue
      <4>2. refi_cnt' + d <= 2 * d + 1
        BY <1>2, <3>1, <3>3, <4>1
      <4>3. QED
        BY <2>3, <3>4, <4>1, <4>2 DEF Underway
    <3>7. CASE ~OpIssue
      <4>1. ~IssueAccess /\ ~IssueRefresh
        BY <3>7 DEF IssueAccess, IssueRefresh, OpIssue
      <4>2. PICK m \in 0 .. d : m = (IF k = 0 THEN 0 ELSE k - 1)
        BY <3>1
      <4>3. ClearIn(m)'
        BY <1>1, <3>1, <4>1, <4>2, ClearShifts
      <4>4. CASE k # 0
        <5>1. refi_cnt' + m = refi_cnt + k
          BY <1>2, <3>1, <3>3, <4>2, <4>4
        <5>2. RefreshHeld => RefreshHeld'
          BY <1>1, <3>7, HeldStays
        <5>3. refi_cnt' + m <= (IF RefreshHeld' THEN 2 * d + 1 ELSE d)
          BY <1>2, <3>1, <5>1, <5>2
        <5>4. QED
          BY <3>4, <4>3, <5>3 DEF Underway
      <4>5. CASE k = 0
        <5>1. op = NoOp
          BY <1>1, <1>4, <3>1, <3>7, <4>5, ClearIssues
        <5>2. ~RefreshHeld /\ RefreshHeld'
          BY <1>1, <1>4, <2>5, <5>1, ForcedNext DEF NoOp, RefreshHeld, Free
        <5>3. refi_cnt' + d <= 2 * d + 1
          BY <1>2, <3>1, <3>3, <5>2
        <5>4. QED
          BY <2>3, <3>4, <5>2, <5>3 DEF Underway
      <4>6. QED
        BY <4>4, <4>5
    <3>8. QED
      BY <3>5, <3>6, <3>7 DEF OpIssue
  <2>6. QED
    BY <1>2, <2>4, <2>5
<1>5. QED
  BY <1>3, <1>4

LEMMA TimelyNext ==
  ASSUME NEW d \in Nat, DrainsIn(d), 2 * d + 2 < T_REFI
  PROVE  TimelyInv(d) /\ [Next]_vars => TimelyInv(d)'
<1>1. CASE TimelyInv(d) /\ Next
  <2>1. ArbInv /\ TypeOK /\ RefreshLedger /\ ClearIn(d) /\ ArbClock /\ CtrlClock
    BY <1>1 DEF TimelyInv, ArbInv, Next
  <2>2. ArbInv'
    BY <1>1, <2>1, ArbNext
  <2>3. RefreshPostponed' /\ Underway(d)'
    BY <1>1, UnderwayNext
  <2>4. RefreshLedger'
    BY <2>1, <2>3, DebtNext
  <2>5. ClearIn(d)'
    BY <2>1, ClearStays
  <2>6. QED
    BY <2>2, <2>3, <2>4, <2>5 DEF TimelyInv
<1>2. CASE TimelyInv(d) /\ UNCHANGED vars
  <2>1. ArbInv'
    BY <1>2, ArbNext DEF TimelyInv
  <2>2. RefreshLedger' /\ RefreshPostponed' /\ ClearIn(d)' /\ Underway(d)'
    BY <1>2 DEF TimelyInv, RefreshLedger, RefreshPostponed, ClearIn, Underway, RefreshHeld,
                vars, ctrlVars
  <2>3. QED
    BY <2>1, <2>2 DEF TimelyInv
<1>3. QED
  BY <1>1, <1>2

LEMMA InitTimely ==
  ASSUME NEW d \in Nat, Init
  PROVE  TimelyInv(d)
<1>1. ArbInv
  BY InitTypes
<1>2. owed = 0 /\ ref_debt = 0 /\ op = NoOp
  BY DEF Init, ArbInit
<1>3. RefreshLedger /\ RefreshPostponed /\ Underway(d)
  BY <1>2, ArbiterAssumption DEF RefreshLedger, RefreshPostponed, Underway, One, NoOp
<1>4. ClearIn(d)
  BY DEF Init, CtrlInit, ClearIn
<1>5. QED
  BY <1>1, <1>3, <1>4 DEF TimelyInv

LEMMA TimelyInvariant == Spec => [](RefreshPostponed /\ RefreshLedger)
<1>1. PICK d \in 0 .. T_REFI : DrainsIn(d) /\ 2 * d + 2 < T_REFI
  BY RefreshRateAssumption
<1>2. d \in Nat
  BY ArbiterAssumption
<1>3. Init => TimelyInv(d)
  BY <1>2, InitTimely
<1>4. TimelyInv(d) /\ [Next]_vars => TimelyInv(d)'
  BY <1>1, <1>2, TimelyNext
<1>5. TimelyInv(d) => RefreshPostponed /\ RefreshLedger
  BY DEF TimelyInv
<1>6. QED
  BY <1>3, <1>4, <1>5, PTL DEF Spec

\* However the clients ask, the chip is never owed more than DEBT_MAX refreshes:
\* one that is forced is sent before the next tick.
THEOREM RefreshInTime == Spec => []RefreshPostponed
BY TimelyInvariant, PTL

\* No refresh is lost or sent twice: the debt and the holding register account for
\* every tick of the timer.
THEOREM LedgerExact == Spec => []RefreshLedger
BY TimelyInvariant, PTL

(***************************************************************************)
(* What the CPU waits for                                                  *)
(***************************************************************************)

\* Products with a cost.
LEMMA Scales ==
  ASSUME NEW c \in Nat, NEW x \in Int, NEW y \in Int
  PROVE  /\ c * x \in Int
         /\ x >= 0 => c * x >= 0
         /\ x <= y => c * x <= c * y
         /\ x <= y - 1 => c * x <= c * y - c
<1>1. c * x \in Int /\ c * y \in Int /\ c * (y - 1) = c * y - c
  OBVIOUS
<1>2. x >= 0 => c * x >= 0
  OBVIOUS
<1>3. \A z \in Int : x <= z => c * x <= c * z
  OBVIOUS
<1>4. y - 1 \in Int
  OBVIOUS
<1>5. QED
  BY <1>1, <1>2, <1>3, <1>4

LEMMA RivalsFinite ==
  ASSUME NEW S \in SUBSET LowRivals
  PROVE  /\ IsFiniteSet(S) /\ Cardinality(S) \in Nat
         /\ Cardinality(S) <= Cardinality(LowRivals) /\ Cardinality(LowRivals) \in Nat
<1>1. IsFiniteSet(LowClients)
  <2>1. IsFiniteSet({})
    BY FS_EmptySet
  <2>2. IsFiniteSet({} \cup {"LDR"})
    BY <2>1, FS_AddElement
  <2>3. IsFiniteSet(({} \cup {"LDR"}) \cup {"AUX"})
    BY <2>2, FS_AddElement
  <2>4. LowClients = ({} \cup {"LDR"}) \cup {"AUX"}
    BY DEF LowClients
  <2>5. QED
    BY <2>3, <2>4
<1>2. IsFiniteSet(LowRivals)
  BY <1>1, FS_Subset DEF LowRivals
<1>3. QED
  BY <1>2, FS_Subset, FS_CardinalityType

\* What the bounds say in numbers.
LEMMA TurnNumbers ==
  ASSUME NEW d \in Nat, NEW e \in Nat, NEW n \in Nat, TurnsIn(d, e, n)
  PROVE  /\ Turn(d, e, n) \in Nat /\ e <= d /\ 2 * d + 2 <= Turn(d, e, n)
         /\ 2 * d + 2 < T_REFI /\ Turn(d, e, n) < T_REFI /\ Turn(d, e, n) < T_STARVE
         /\ T_REFI \in Nat /\ T_STARVE \in Nat /\ VID_PERIOD \in Nat \ {0} /\ VID_BURST \in Nat
         /\ DrainsIn(d) /\ VidDrainsIn(e)
<1>1. /\ T_REFI \in Nat /\ T_STARVE \in Nat /\ VID_PERIOD \in Nat \ {0} /\ VID_BURST \in Nat
  BY ArbiterAssumption
<1>2. Cardinality(LowRivals) \in Nat
  BY RivalsFinite
<1>3. (d + 1) * 2 <= (d + 1) * (Cardinality(LowRivals) + 2)
      /\ (d + 1) * (Cardinality(LowRivals) + 2) \in Int
  <2>1. d + 1 \in Nat /\ Cardinality(LowRivals) + 2 \in Int /\ 2 \in Int
        /\ 2 <= Cardinality(LowRivals) + 2
    BY <1>2
  <2>2. QED
    BY <2>1, Scales
<1>4. (e + 1) * (1 + VID_BURST + n) \in Int /\ (e + 1) * (1 + VID_BURST + n) >= 0
  <2>1. e + 1 \in Nat /\ 1 + VID_BURST + n \in Int /\ 1 + VID_BURST + n >= 0
    BY <1>1
  <2>2. QED
    BY <2>1, Scales
<1>5. Turn(d, e, n) \in Nat /\ 2 * d + 2 <= Turn(d, e, n)
  BY <1>3, <1>4 DEF Turn
<1>6. QED
  BY <1>1, <1>5 DEF TurnsIn

\* Who is chosen before a waiting CPU when no refresh is forced.
LEMMA RivalChosen ==
  ASSUME TypeOK, init_done, Free, Asks("CPU"), ~RefForced, Grant # "CPU"
  PROVE  /\ Grant \in Tags /\ req[Grant] \in Requests /\ req[Grant].tag = Grant
         /\ IsAccess(req[Grant])
         /\ \/ Grant = "VID" /\ VidUrgent
            \/ Grant \in LowRivals /\ Old(Grant)
<1>1. \/ Grant = "VID" /\ VidUrgent
      \/ Grant \in LowClients /\ Old(Grant)
  BY DEF Grant, Sel, LowClients
<1>2. Grant \in Tags \ {"CPU"} /\ req[Grant] # NoOp
  BY <1>1 DEF LowClients, Tags, Old, VidUrgent, Asks
<1>3. req[Grant] \in Requests /\ req[Grant].tag = Grant
  BY <1>2 DEF TypeOK
<1>4. QED
  BY <1>1, <1>2, <1>3, RequestKind DEF LowRivals

\* As long as the chip is not owed too much, a held refresh is not followed by
\* another one that is forced.
LEMMA RefreshNotForced ==
  ASSUME ArbInv, RefreshLedger, RefreshPostponed, op.kind = "ref" \/ owed < DEBT_MAX
  PROVE  ~RefForced
BY ArbiterAssumption DEF RefreshLedger, RefreshPostponed, RefForced, One, ArbInv, TypeOK,
                         OWED_MAX

(***************************************************************************)
(* The CPU's turn                                                          *)
(***************************************************************************)

\* For r clocks none of the low rivals outside S becomes old.
LowPassed(S, r) == \A t \in LowRivals \ S : age[t] + r < T_STARVE

\* For r clocks no refresh is forced.
NoneForced(r) == owed < DEBT_MAX /\ (owed = DEBT_MAX - 1 => refi_cnt + r < T_REFI)

\* The clocks for which the held operation keeps those after it waiting, once sent.
VidHeld == op \in Requests /\ op.tag = "VID"
HeldCost(d, e) == IF VidHeld THEN e + 1 ELSE d + 1

\* A refresh may still be forced before the CPU's turn.
RefreshToCome == refs_ahead = 0 /\ ~RefreshHeld

\* The video reads that are or may at once become urgent.
Video == One(VidUrgent) + vid_credit

\* The clocks to the end of what is in front of the CPU's access: the k clocks until
\* the held operation can be sent, that operation, the low clients in S, a refresh,
\* the video reads and n more whose credits are still to come.
Away(d, e, S, k, n) ==
  k + HeldCost(d, e) + (d + 1) * (Cardinality(S) + One(RefreshToCome)) + (e + 1) * (Video + n)

\* S, k and n are all that can be in front of the CPU, the last of max credits comes too
\* late; once a refresh has been in front of it an access is held, and no further
\* refresh is forced before its turn.
Near(d, e, max, S, k, n) ==
  /\ ClearIn(k)
  /\ Video + n <= 1 + VID_BURST + max
  /\ Away(d, e, S, k, n) <= vid_gap + n * VID_PERIOD
  /\ LowPassed(S, Away(d, e, S, k, n))
  /\ refs_ahead >= 1 => refs_ahead = 1 /\ IsAccess(op) /\ NoneForced(Away(d, e, S, k, n))

\* What the CPU has waited and what is before it at most are Turn(d, e, max).
TurnInTime(d, e, max) ==
  Asks("CPU") =>
    /\ init_done /\ ~cpu_rd_wait
    /\ \E S \in SUBSET LowRivals, k \in 0 .. d, n \in Nat :
         /\ Near(d, e, max, S, k, n)
         /\ cpu_wait + Away(d, e, S, k, n) <= Turn(d, e, max)

\* What Away is made of, in numbers.
LEMMA AwayNumbers ==
  ASSUME TypeOK, NEW d \in Nat, NEW e \in Nat, e <= d,
         NEW S \in SUBSET LowRivals, NEW k \in Nat, NEW n \in Nat
  PROVE  /\ HeldCost(d, e) \in 1 .. d + 1
         /\ Cardinality(S) + One(RefreshToCome) \in Nat /\ Video \in Nat
         /\ Away(d, e, S, k, n) \in Nat /\ Away(d, e, S, k, n) >= k + HeldCost(d, e)
<1>1. /\ HeldCost(d, e) \in 1 .. d + 1 /\ One(RefreshToCome) \in {0, 1}
      /\ One(VidUrgent) \in {0, 1}
  BY DEF HeldCost, One
<1>2. Cardinality(S) \in Nat /\ vid_credit \in Nat
  BY RivalsFinite, ArbiterAssumption DEF TypeOK
<1>3. Cardinality(S) + One(RefreshToCome) \in Nat /\ Video \in Nat
  BY <1>1, <1>2 DEF Video
<1>4. \A c, x \in Nat : c * x \in Nat
  BY Scales
<1>5. /\ (d + 1) * (Cardinality(S) + One(RefreshToCome)) \in Nat
      /\ (e + 1) * (Video + n) \in Nat
  <2>1. d + 1 \in Nat /\ e + 1 \in Nat /\ Video + n \in Nat
    BY <1>3
  <2>2. QED
    BY <1>3, <1>4, <2>1
<1>6. Away(d, e, S, k, n) = k + HeldCost(d, e)
        + (d + 1) * (Cardinality(S) + One(RefreshToCome)) + (e + 1) * (Video + n)
  BY DEF Away
<1>7. QED
  BY <1>1, <1>3, <1>5, <1>6

\* A clock on which the holding register is free: what was held has been sent or put
\* back, and what it leaves in the tables is worth no more than its cost.
LEMMA FreeClears ==
  ASSUME TypeOK, init_done, CtrlClock, Free,
         NEW d \in Nat, NEW e \in Nat, e <= d, DrainsIn(d), VidDrainsIn(e),
         NEW k \in 0 .. d, ClearIn(k)
  PROVE  \E m \in 0 .. d : ClearIn(m)' /\ m + 1 <= k + HeldCost(d, e)
<1>1. CASE ~OpIssue
  <2>1. ~IssueAccess /\ ~IssueRefresh
    BY <1>1 DEF IssueAccess, IssueRefresh, OpIssue
  <2>2. ClearIn(IF k = 0 THEN 0 ELSE k - 1)'
    BY <2>1, ClearShifts
  <2>3. PICK m \in 0 .. d : m = (IF k = 0 THEN 0 ELSE k - 1)
    OBVIOUS
  <2>4. HeldCost(d, e) \in 1 .. d + 1
    BY DEF HeldCost
  <2>5. m + 1 <= k + HeldCost(d, e)
    BY <2>3, <2>4
  <2>6. QED
    BY <2>2, <2>3, <2>5
<1>2. CASE OpIssue /\ ~VidHeld
  <2>1. ClearIn(d)
    BY DEF ClearIn
  <2>2. ClearIn(d)'
    BY <2>1, ClearStays
  <2>3. d + 1 <= k + HeldCost(d, e) /\ d \in 0 .. d
    BY <1>2 DEF HeldCost
  <2>4. QED
    BY <2>2, <2>3
<1>3. CASE OpIssue /\ VidHeld
  <2>1. AccessIssue
    BY <1>3, RequestKind DEF OpIssue, RefreshIssue, VidHeld
  <2>2. IssueAccess \/ (~IssueAccess /\ ~IssueRefresh)
    BY <2>1 DEF IssueRefresh, RefreshIssue, AccessIssue, IsAccess
  <2>3. PICK m \in 0 .. d : m = (IF k >= e + 1 THEN k - 1 ELSE e)
    OBVIOUS
  <2>4. m + 1 <= k + HeldCost(d, e)
    BY <1>3, <2>3 DEF HeldCost
  <2>5. CASE IssueAccess
    <3>1. ClearIn(m + 1)
      BY <2>3 DEF ClearIn
    <3>2. T_RCD + op.n + CL <= e /\ BankBusy(op) <= e + 1 /\ T_RRD <= e + 1 /\ op \in Requests
      BY <1>3 DEF VidDrainsIn, VidHeld
    <3>3. T_RCD + op.n + CL <= m /\ BankBusy(op) <= m + 1 /\ T_RRD <= m + 1
      <4>1. e <= m
        BY <2>3
      <4>2. op.n \in 1 .. 4 /\ T_RCD \in Nat /\ CL \in Nat /\ T_RRD \in Nat
        BY <3>2, ArbiterAssumption, GeometryAssumption, TimingAssumption
        DEF IsRequest, Reads, Writes
      <4>3. BankBusy(op) \in Nat
        BY <4>2, TimingAssumption DEF BankBusy, Max2
      <4>4. QED
        BY <3>2, <4>1, <4>2, <4>3
    <3>4. ClearIn(m)'
      BY <2>5, <3>1, <3>3, AccessDrains
    <3>5. QED
      BY <2>4, <3>4
  <2>6. CASE ~IssueAccess /\ ~IssueRefresh
    <3>1. ClearIn(IF k = 0 THEN 0 ELSE k - 1)'
      BY <2>6, ClearShifts
    <3>2. (IF k = 0 THEN 0 ELSE k - 1) <= m
      BY <2>3
    <3>3. ClearIn(m)'
      BY <2>3, <3>1, <3>2 DEF ClearIn
    <3>4. QED
      BY <2>4, <3>3
  <2>7. QED
    BY <2>2, <2>5, <2>6
<1>4. QED
  BY <1>1, <1>2, <1>3

\* A clock on which an operation stays held.
LEMMA HeldClears ==
  ASSUME TypeOK, init_done, ArbClock, CtrlClock, ~Free, NEW k \in Nat, ClearIn(k)
  PROVE  /\ k >= 1 /\ ClearIn(k - 1)'
         /\ op' = op /\ op_ref_optional' = op_ref_optional /\ ~RefreshIssue
<1>1. ~OpIssue /\ op # NoOp
  BY DEF Free
<1>2. op' = op /\ op_ref_optional' = op_ref_optional
  BY ChoiceSound DEF ArbClock, Capture, CaptureRefresh, Empty, Hold, Tags
<1>3. k >= 1
  BY <1>1, ClearIssues
<1>4. ~IssueAccess /\ ~IssueRefresh
  BY <1>1 DEF IssueAccess, IssueRefresh, OpIssue
<1>5. ClearIn(k - 1)'
  BY <1>3, <1>4, ClearShifts
<1>6. QED
  BY <1>1, <1>2, <1>3, <1>5 DEF OpIssue

\* A clock uses up one of the clocks to the credits to come; a credit that comes was
\* counted among them, and a video read that is captured is one less.
LEMMA VideoNext ==
  ASSUME ArbInv, NEW g, Clients(g), NEW n \in Nat, NEW r \in Nat, r >= 1,
         r <= vid_gap + n * VID_PERIOD
  PROVE  \E q \in Nat : /\ Video' + q <= Video + n - One(g = "VID" /\ VidUrgent)
                        /\ r - 1 <= vid_gap' + q * VID_PERIOD
<1>1. /\ vid_credit \in 0 .. VID_BURST /\ vid_gap \in 0 .. VID_PERIOD - 1
      /\ VID_BURST \in Nat /\ VID_PERIOD \in Nat /\ VID_PERIOD >= 1
      /\ vid_credit' \in Nat /\ FullCredit
  <2>1. vid_credit' \in 0 .. VID_BURST
    BY ClientTypes DEF ArbInv
  <2>2. QED
    BY <2>1, ArbiterAssumption DEF ArbInv, TypeOK
<1>2. VidEarned \in {0, 1} /\ (VidEarned = 1 <=> vid_credit < VID_BURST /\ vid_gap = 0)
  BY DEF VidEarned, One
<1>3. PICK stays \in BOOLEAN : stays <=> VidUrgent /\ g # "VID"
  OBVIOUS
<1>4. One(stays) = One(VidUrgent) - One(g = "VID" /\ VidUrgent)
      /\ One(stays) \in {0, 1} /\ One(VidUrgent) \in {0, 1} /\ One(VidUrgent') \in {0, 1}
      /\ One(g = "VID" /\ VidUrgent) \in {0, 1}
  BY <1>3 DEF One
<1>5. Video' <= One(stays) + vid_credit + VidEarned
  <2>1. Video' = One(VidUrgent') + vid_credit'
    BY DEF Video, One
  <2>2. CASE (urgent' <=> stays) /\ vid_credit' = vid_credit + VidEarned
    <3>1. One(VidUrgent') <= One(stays)
      BY <2>2 DEF One, VidUrgent
    <3>2. QED
      BY <1>1, <1>2, <1>4, <2>1, <2>2, <3>1
  <2>3. CASE vid_credit + VidEarned > 0 /\ vid_credit' = (vid_credit + VidEarned) - 1
    BY <1>1, <1>2, <1>4, <2>1, <2>3
  <2>4. QED
    BY <1>3, <2>2, <2>3 DEF Clients, VidDeadline
<1>6. vid_gap' = IF vid_credit = VID_BURST \/ vid_gap = 0 THEN VID_PERIOD - 1
                                                         ELSE vid_gap - 1
  BY DEF Clients, VidDeadline
<1>7. PICK p \in Int : p = n * VID_PERIOD /\ r <= vid_gap + p
  <2>1. n * VID_PERIOD \in Int
    BY <1>1
  <2>2. QED
    BY <2>1
<1>8. CASE VidEarned = 1
  <2>1. vid_gap = 0 /\ vid_gap' = VID_PERIOD - 1
    BY <1>1, <1>2, <1>6, <1>8
  <2>2. n # 0
    <3>1. 0 * VID_PERIOD = 0
      BY <1>1
    <3>2. QED
      BY <1>7, <2>1, <3>1
  <2>3. PICK q \in Nat : q = n - 1
    BY <2>2
  <2>4. q * VID_PERIOD = n * VID_PERIOD - VID_PERIOD
    BY <1>1, <2>3
  <2>5. r - 1 <= vid_gap' + q * VID_PERIOD
    BY <1>1, <1>7, <2>1, <2>4
  <2>6. Video' + q <= Video + n - One(g = "VID" /\ VidUrgent)
    BY <1>1, <1>4, <1>5, <1>8, <2>3 DEF Video
  <2>7. QED
    BY <2>5, <2>6
<1>9. CASE VidEarned = 0
  <2>1. vid_gap' >= vid_gap - 1 /\ vid_gap' \in Int
    <3>1. CASE vid_credit = VID_BURST \/ vid_gap = 0
      BY <1>1, <1>6, <3>1
    <3>2. CASE ~(vid_credit = VID_BURST \/ vid_gap = 0)
      BY <1>1, <1>6, <3>2
    <3>3. QED
      BY <3>1, <3>2
  <2>2. r - 1 <= vid_gap' + n * VID_PERIOD
    <3>1. \A a, b \in Int : r <= a + p /\ b >= a - 1 => r - 1 <= b + p
      OBVIOUS
    <3>2. vid_gap \in Int /\ r <= vid_gap + p
      BY <1>1, <1>7
    <3>3. r - 1 <= vid_gap' + p
      BY <2>1, <3>1, <3>2
    <3>4. QED
      BY <1>7, <3>3
  <2>3. Video' + n <= Video + n - One(g = "VID" /\ VidUrgent)
    BY <1>1, <1>4, <1>5, <1>9 DEF Video
  <2>4. QED
    BY <2>2, <2>3
<1>10. QED
  BY <1>2, <1>8, <1>9

\* Time passes: a low rival that does not become old for r clocks does not for q < r,
\* and the one that has its access is out of the way.
LEMMA LowNext ==
  ASSUME TypeOK, NEW S, NEW g, CountAges(g),
         NEW r \in Nat, NEW q \in Nat, q <= r - 1, LowPassed(S, r)
  PROVE  /\ LowPassed(S, q)'
         /\ g \in LowRivals /\ q < T_STARVE => LowPassed(S \ {g}, q)'
<1>1. LowRivals \subseteq LowClients /\ LowRivals' = LowRivals
  BY DEF LowRivals
<1>2. ASSUME NEW t \in LowRivals \ S PROVE age'[t] + q < T_STARVE
  <2>1. age[t] + r < T_STARVE /\ age[t] \in Nat /\ T_STARVE \in Nat
    BY <1>1, <1>2, ArbiterAssumption DEF LowPassed, TypeOK
  <2>2. age'[t] = 0 \/ age'[t] = age[t] + 1 \/ age'[t] = age[t]
    BY <1>1 DEF CountAges
  <2>3. QED
    BY <2>1, <2>2
<1>3. ASSUME g \in LowRivals, q < T_STARVE PROVE age'[g] + q < T_STARVE
  <2>1. age'[g] = 0
    BY <1>1, <1>3 DEF CountAges
  <2>2. QED
    BY <1>3, <2>1
<1>4. QED
  BY <1>1, <1>2, <1>3 DEF LowPassed


\* No refresh has become forced on this clock, and none will for q clocks.
LEMMA StillNotForced ==
  ASSUME ArbInv, init_done, ArbClock, ~RefreshIssue,
         NEW r \in Nat, r >= 1, NEW q \in Nat, q <= r - 1, q < T_REFI, NoneForced(r)
  PROVE  NoneForced(q)'
<1>1. /\ DEBT_MAX \in 1 .. 8 /\ owed \in 0 .. 16 /\ refi_cnt \in 0 .. T_REFI - 1
      /\ T_REFI \in Nat /\ owed < DEBT_MAX
  BY ArbiterAssumption DEF ArbInv, TypeOK, OWED_MAX, NoneForced
<1>2. /\ owed' = IF Owed > 16 THEN 16 ELSE Owed
      /\ refi_cnt' = IF RefiTick THEN 0 ELSE refi_cnt + 1
      /\ Owed = owed + One(RefiTick)
  BY <1>1 DEF ArbClock, History, CountRefreshes, OWED_MAX, Owed, One
<1>3. CASE RefiTick
  <2>1. owed' = owed + 1 /\ refi_cnt' = 0 /\ refi_cnt = T_REFI - 1
    BY <1>1, <1>2, <1>3 DEF RefiTick, One
  <2>2. owed # DEBT_MAX - 1
    BY <1>1, <2>1 DEF NoneForced
  <2>3. QED
    BY <1>1, <2>1, <2>2 DEF NoneForced
<1>4. CASE ~RefiTick
  <2>1. owed' = owed /\ refi_cnt' = refi_cnt + 1
    BY <1>1, <1>2, <1>4 DEF One
  <2>2. QED
    BY <1>1, <2>1 DEF NoneForced
<1>5. QED
  BY <1>3, <1>4

\* A refresh has just been sent: the next one is not forced for a long time.
LEMMA NotForcedAgain ==
  ASSUME NEW d \in Nat, 2 * d + 2 < T_REFI, TimelyInv(d), init_done, ArbClock, RefreshIssue,
         NEW q \in Nat, q + 2 * d + 2 < T_REFI
  PROVE  NoneForced(q)'
<1>1. /\ DEBT_MAX \in 1 .. 8 /\ owed \in 0 .. 16 /\ refi_cnt \in 0 .. T_REFI - 1
      /\ T_REFI \in Nat /\ owed <= DEBT_MAX
  BY ArbiterAssumption DEF TimelyInv, ArbInv, TypeOK, OWED_MAX, RefreshPostponed
<1>2. /\ owed' = IF Owed > 16 THEN 16 ELSE Owed
      /\ refi_cnt' = IF RefiTick THEN 0 ELSE refi_cnt + 1
      /\ Owed = owed + One(RefiTick) - 1
  BY <1>1 DEF ArbClock, History, CountRefreshes, OWED_MAX, Owed, One
<1>3. owed = DEBT_MAX => refi_cnt <= 2 * d + 1 /\ ~RefiTick
  <2>1. ASSUME owed = DEBT_MAX PROVE refi_cnt <= 2 * d + 1
    BY <1>1, <2>1 DEF TimelyInv, Underway
  <2>2. QED
    BY <1>1, <2>1 DEF RefiTick
<1>4. CASE RefiTick
  <2>1. owed' = owed /\ refi_cnt' = 0
    BY <1>1, <1>2, <1>4 DEF One
  <2>2. QED
    BY <1>1, <1>3, <1>4, <2>1 DEF NoneForced
<1>5. CASE ~RefiTick
  <2>1. owed' = owed - 1 /\ refi_cnt' = refi_cnt + 1
    BY <1>1, <1>2, <1>5 DEF One
  <2>2. QED
    BY <1>1, <1>3, <2>1 DEF NoneForced
<1>6. QED
  BY <1>4, <1>5

\* What is before the CPU falls by one at least if a low rival or a forced refresh is one
\* less, if a video read is one less, or if the held operation comes nearer to being sent.
LEMMA Falls ==
  ASSUME NEW d \in Nat, NEW e \in Nat, NEW k \in Nat, NEW m \in Nat,
         NEW h \in Nat, NEW i \in Nat, NEW l \in Nat, NEW j \in Nat,
         NEW v \in Nat, NEW w \in Nat,
         \/ m + 1 <= k + h /\ i = d + 1 /\ j <= l - 1 /\ w <= v
         \/ m + 1 <= k + h /\ i = e + 1 /\ j <= l /\ w <= v - 1
         \/ m + 1 <= k /\ i = h /\ j <= l /\ w <= v
  PROVE  /\ m + i + (d + 1) * j + (e + 1) * w \in Nat
         /\ m + i + (d + 1) * j + (e + 1) * w
              <= (k + h + (d + 1) * l + (e + 1) * v) - 1
<1>1. PICK x \in Nat, y \in Nat : /\ x = (d + 1) * l /\ y = (d + 1) * j
                                  /\ (j <= l => y <= x) /\ (j <= l - 1 => y <= x - (d + 1))
  <2>1. d + 1 \in Nat
    OBVIOUS
  <2>2. (d + 1) * l \in Nat /\ (d + 1) * j \in Nat
    BY <2>1, Scales
  <2>3. /\ j <= l => (d + 1) * j <= (d + 1) * l
        /\ j <= l - 1 => (d + 1) * j <= (d + 1) * l - (d + 1)
    BY <2>1, Scales
  <2>4. QED
    BY <2>2, <2>3
<1>2. PICK z \in Nat, u \in Nat : /\ z = (e + 1) * v /\ u = (e + 1) * w
                                  /\ (w <= v => u <= z) /\ (w <= v - 1 => u <= z - (e + 1))
  <2>1. e + 1 \in Nat
    OBVIOUS
  <2>2. (e + 1) * v \in Nat /\ (e + 1) * w \in Nat
    BY <2>1, Scales
  <2>3. /\ w <= v => (e + 1) * w <= (e + 1) * v
        /\ w <= v - 1 => (e + 1) * w <= (e + 1) * v - (e + 1)
    BY <2>1, Scales
  <2>4. QED
    BY <2>2, <2>3
<1>3. j <= l - 1 => j <= l
  OBVIOUS
<1>4. w <= v - 1 => w <= v
  OBVIOUS
<1>5. m + i + y + u \in Nat /\ m + i + y + u <= (k + h + x + z) - 1
  BY <1>1, <1>2, <1>3, <1>4
<1>6. QED
  BY <1>1, <1>2, <1>5

\* The three ways: a low rival or a forced refresh is captured and the operation held
\* before it is sent, a video read is captured, or the held operation stays.
Passing(d, e, g, S, k, T, m) ==
  LET left  == Cardinality(S) + One(RefreshToCome)
      left1 == Cardinality(T) + One(RefreshToCome)'
  IN  \/ m + 1 <= k + HeldCost(d, e) /\ HeldCost(d, e)' = d + 1 /\ left1 <= left - 1
      \/ /\ m + 1 <= k + HeldCost(d, e) /\ HeldCost(d, e)' = e + 1 /\ left1 <= left
         /\ g = "VID" /\ VidUrgent
      \/ m + 1 <= k /\ HeldCost(d, e)' = HeldCost(d, e) /\ left1 <= left

\* One clock nearer to the CPU's turn.
LEMMA ComesNearer ==
  ASSUME ArbInv, NEW d \in Nat, NEW e \in Nat, NEW max \in Nat, TurnsIn(d, e, max),
         NEW g, Clients(g), CountAges(g),
         NEW S \in SUBSET LowRivals, NEW k \in 0 .. d, NEW n \in Nat,
         Near(d, e, max, S, k, n), Away(d, e, S, k, n) <= Turn(d, e, max),
         NEW T, T = S \/ (g \in LowRivals /\ T = S \ {g}),
         NEW m \in 0 .. d, ClearIn(m)',
         Passing(d, e, g, S, k, T, m)
  PROVE  \E q \in Nat :
           /\ Away(d, e, T, m, q)' \in Nat /\ Away(d, e, T, m, q)' <= Away(d, e, S, k, n) - 1
           /\ Video' + q <= 1 + VID_BURST + max
           /\ g = "VID" /\ VidUrgent => Video' + q <= VID_BURST + max
           /\ Away(d, e, T, m, q)' <= vid_gap' + q * VID_PERIOD
           /\ LowPassed(T, Away(d, e, T, m, q))'
<1>1. /\ TypeOK /\ e <= d /\ Turn(d, e, max) \in Nat /\ Turn(d, e, max) < T_STARVE
      /\ T_STARVE \in Nat /\ VID_BURST \in Nat /\ vid_credit' \in Nat
  <2>1. TypeOK /\ vid_credit' \in Nat
    BY ClientTypes, ArbiterAssumption DEF ArbInv
  <2>2. QED
    BY <2>1, TurnNumbers
<1>2. T \in SUBSET LowRivals /\ LowRivals' = LowRivals
  BY DEF LowRivals
<1>. k \in Nat
  OBVIOUS
<1>0. /\ HeldCost(d, e) \in 1 .. d + 1
      /\ Cardinality(S) + One(RefreshToCome) \in Nat /\ Video \in Nat
      /\ Away(d, e, S, k, n) \in Nat /\ Away(d, e, S, k, n) >= k + HeldCost(d, e)
  BY <1>1, AwayNumbers
<1>3. PICK r \in Nat : r = Away(d, e, S, k, n) /\ r >= 1
  BY <1>0
<1>4. PICK q \in Nat : /\ Video' + q <= Video + n - One(g = "VID" /\ VidUrgent)
                       /\ r - 1 <= vid_gap' + q * VID_PERIOD
  BY <1>3, VideoNext DEF Near
<1>5. /\ Video + n \in Nat /\ Video' + q \in Nat
      /\ Video' + q <= Video + n
      /\ g = "VID" /\ VidUrgent => Video' + q <= (Video + n) - 1
  <2>1. Video \in Nat /\ Video + n \in Nat
    BY <1>0
  <2>2. Video' \in Nat
    <3>1. Video' = One(VidUrgent') + vid_credit' /\ One(VidUrgent') \in {0, 1}
      BY DEF Video, One
    <3>2. QED
      BY <1>1, <3>1
  <2>3. \A x, y \in Nat : /\ y + q \in Nat
                          /\ y + q <= x + n - 0 => y + q <= x + n
                          /\ y + q <= x + n - 1 => y + q <= (x + n) - 1 /\ y + q <= x + n
    OBVIOUS
  <2>4. CASE g = "VID" /\ VidUrgent
    <3>1. Video' + q <= Video + n - 1
      BY <1>4, <2>4 DEF One
    <3>2. /\ Video' + q <= (Video + n) - 1 /\ Video' + q <= Video + n
          /\ Video' + q \in Nat
      BY <2>1, <2>2, <2>3, <3>1
    <3>3. QED
      BY <2>1, <3>2
  <2>5. CASE ~(g = "VID" /\ VidUrgent)
    <3>1. Video' + q <= Video + n - 0
      BY <1>4, <2>5 DEF One
    <3>2. Video' + q <= Video + n /\ Video' + q \in Nat
      BY <2>1, <2>2, <2>3, <3>1
    <3>3. QED
      BY <2>1, <2>5, <3>2
  <2>6. QED
    BY <2>4, <2>5
<1>6. /\ HeldCost(d, e) \in Nat /\ HeldCost(d, e)' \in Nat
      /\ Cardinality(S) + One(RefreshToCome) \in Nat
      /\ Cardinality(T) + One(RefreshToCome)' \in Nat
  <2>1. Cardinality(T) \in Nat /\ One(RefreshToCome)' \in Nat /\ HeldCost(d, e)' \in Nat
    BY <1>2, RivalsFinite DEF One, HeldCost
  <2>2. QED
    BY <1>0, <2>1
<1>7. PICK p \in Nat : p = Away(d, e, T, m, q)' /\ p <= r - 1
  <2>1. /\ m + HeldCost(d, e)' + (d + 1) * (Cardinality(T) + One(RefreshToCome)')
             + (e + 1) * (Video' + q) \in Nat
        /\ m + HeldCost(d, e)' + (d + 1) * (Cardinality(T) + One(RefreshToCome)')
             + (e + 1) * (Video' + q)
             <= (k + HeldCost(d, e) + (d + 1) * (Cardinality(S) + One(RefreshToCome))
                  + (e + 1) * (Video + n)) - 1
    <3>1. PICK h \in Nat, i \in Nat, l \in Nat, j \in Nat, v \in Nat, w \in Nat :
            /\ h = HeldCost(d, e) /\ i = HeldCost(d, e)'
            /\ l = Cardinality(S) + One(RefreshToCome)
            /\ j = Cardinality(T) + One(RefreshToCome)'
            /\ v = Video + n /\ w = Video' + q
            /\ w <= v /\ (g = "VID" /\ VidUrgent => w <= v - 1)
      <4>1. HeldCost(d, e) \in Nat
        BY <1>0
      <4>2. QED
        BY <1>0, <1>5, <1>6, <4>1
    <3>2. \/ m + 1 <= k + h /\ i = d + 1 /\ j <= l - 1 /\ w <= v
          \/ m + 1 <= k + h /\ i = e + 1 /\ j <= l /\ w <= v - 1
          \/ m + 1 <= k /\ i = h /\ j <= l /\ w <= v
      BY <3>1 DEF Passing
    <3>3. /\ m + i + (d + 1) * j + (e + 1) * w \in Nat
          /\ m + i + (d + 1) * j + (e + 1) * w
               <= (k + h + (d + 1) * l + (e + 1) * v) - 1
      BY <3>2, Falls
    <3>4. QED
      BY <3>1, <3>3
  <2>2. Away(d, e, T, m, q)' = m + HeldCost(d, e)'
          + (d + 1) * (Cardinality(T) + One(RefreshToCome)') + (e + 1) * (Video' + q)
    BY DEF Away
  <2>3. QED
    BY <1>3, <2>1, <2>2 DEF Away
<1>8. LowPassed(T, p)'
  <2>1. p < T_STARVE /\ LowPassed(S, r)
    BY <1>1, <1>3, <1>7 DEF Near
  <2>2. QED
    BY <1>1, <1>7, <2>1, LowNext
<1>9. p <= vid_gap' + q * VID_PERIOD
  <2>1. q * VID_PERIOD \in Int /\ vid_gap' \in Int
    <3>1. vid_gap' \in 0 .. VID_PERIOD - 1 /\ VID_PERIOD \in Nat
      BY ClientTypes, ArbiterAssumption DEF ArbInv
    <3>2. QED
      BY <3>1
  <2>2. QED
    BY <1>4, <1>7, <2>1
<1>10. QED
  BY <1>1, <1>3, <1>5, <1>7, <1>8, <1>9 DEF Near

\* A refresh that was to come is no more to come when it has been sent or is held for
\* good, and none becomes due again while the CPU waits.
LEMMA ToComeFalls ==
  ASSUME TypeOK, Asks("CPU"), Grant # "CPU", ArbClock, RefreshHeld => RefreshHeld' \/ RefreshIssue
  PROVE  One(RefreshToCome)' <= One(RefreshToCome)
<1>1. refs_ahead \in 0 .. 2
      /\ refs_ahead' = IF refs_ahead = 2 THEN 2 ELSE refs_ahead + One(RefreshIssue)
  BY DEF ArbClock, History, TypeOK
<1>2. refs_ahead' = 0 => refs_ahead = 0 /\ ~RefreshIssue
  BY <1>1 DEF One
<1>3. RefreshToCome' => RefreshToCome
  BY <1>2 DEF RefreshToCome
<1>4. QED
  BY <1>3 DEF One

\* A clock on which a low rival or an urgent video read is captured.
LEMMA ServedPasses ==
  ASSUME TypeOK, init_done, Asks("CPU"), Grant # "CPU", ArbClock, CtrlClock, Free, ~RefForced,
         NEW d \in Nat, NEW e \in Nat, e <= d, DrainsIn(d), VidDrainsIn(e),
         NEW S \in SUBSET LowRivals, NEW k \in 0 .. d, ClearIn(k),
         NEW r \in Nat, LowPassed(S, r)
  PROVE  \E T \in SUBSET LowRivals, m \in 0 .. d :
           /\ ClearIn(m)' /\ Passing(d, e, Grant, S, k, T, m) /\ IsAccess(op)'
           /\ \/ /\ Grant \in LowRivals /\ T = S \ {Grant}
                 /\ Cardinality(T) = Cardinality(S) - 1 /\ HeldCost(d, e)' = d + 1
              \/ Grant = "VID" /\ VidUrgent /\ T = S /\ HeldCost(d, e)' = e + 1
<1>1. PICK g : /\ g = Grant
               /\ Capture(g) \/ CaptureRefresh(g) \/ Empty(g) \/ Hold(g)
  BY DEF ArbClock
<1>2. /\ g \in Tags /\ req[g] \in Requests /\ req[g].tag = g /\ IsAccess(req[g])
      /\ \/ g = "VID" /\ VidUrgent
         \/ g \in LowRivals /\ Old(g)
  BY <1>1, RivalChosen
<1>3. op' = req[g]
  BY <1>1, <1>2 DEF Capture, CaptureRefresh, Empty, Hold, Tags
<1>4. IsAccess(op)' /\ (VidHeld' <=> g = "VID")
  BY <1>2, <1>3 DEF IsAccess, VidHeld
<1>5. PICK m \in 0 .. d : ClearIn(m)' /\ m + 1 <= k + HeldCost(d, e)
  BY FreeClears
<1>6. One(RefreshToCome)' <= One(RefreshToCome)
      /\ One(RefreshToCome)' \in Int /\ One(RefreshToCome) \in Int
  <2>1. RefreshHeld => RefreshIssue
    BY DEF RefreshHeld, Free, NoOp, Swap, OpIssue, AccessIssue, IsAccess
  <2>2. One(RefreshToCome)' <= One(RefreshToCome)
    BY <2>1, ToComeFalls
  <2>3. QED
    BY <2>2 DEF One
<1>7. IsFiniteSet(S) /\ Cardinality(S) \in Nat
  BY RivalsFinite
<1>8. CASE g = "VID" /\ VidUrgent
  <2>1. HeldCost(d, e)' = e + 1
    BY <1>4, <1>8 DEF HeldCost
  <2>2. Cardinality(S) + One(RefreshToCome)' <= Cardinality(S) + One(RefreshToCome)
    BY <1>6, <1>7
  <2>3. Passing(d, e, g, S, k, S, m)
    BY <1>5, <1>8, <2>1, <2>2 DEF Passing
  <2>4. QED
    BY <1>1, <1>4, <1>5, <1>8, <2>1, <2>3
<1>9. CASE g \in LowRivals /\ Old(g)
  <2>1. HeldCost(d, e)' = d + 1
    BY <1>4, <1>9 DEF HeldCost, LowRivals, LowClients
  <2>2. g \in S
    <3>1. g \in LowClients /\ age[g] = T_STARVE /\ T_STARVE \in Nat
      BY <1>9, ArbiterAssumption DEF Old, LowRivals
    <3>2. QED
      BY <1>9, <3>1 DEF LowPassed
  <2>3. Cardinality(S \ {g}) = Cardinality(S) - 1
    BY <1>7, <2>2, FS_RemoveElement
  <2>4. Cardinality(S \ {g}) + One(RefreshToCome)'
          <= (Cardinality(S) + One(RefreshToCome)) - 1
    <3>1. \A a, b, x, y \in Int : a = b - 1 /\ x <= y => a + x <= (b + y) - 1
      OBVIOUS
    <3>2. Cardinality(S) \in Int /\ Cardinality(S \ {g}) \in Int
      BY <1>7, <2>3
    <3>3. QED
      BY <1>6, <2>3, <3>1, <3>2
  <2>5. Passing(d, e, g, S, k, S \ {g}, m)
    BY <1>5, <2>1, <2>4 DEF Passing
  <2>6. QED
    BY <1>1, <1>4, <1>5, <1>9, <2>1, <2>3, <2>5
<1>10. QED
  BY <1>2, <1>8, <1>9

\* A clock on which a refresh is forced into the holding register.
LEMMA RefreshPasses ==
  ASSUME ArbInv, RefreshLedger, RefreshPostponed, init_done, Asks("CPU"), Grant # "CPU",
         ArbClock, CtrlClock, Free, RefForced,
         NEW d \in Nat, NEW e \in Nat, e <= d, DrainsIn(d), VidDrainsIn(e),
         NEW S \in SUBSET LowRivals, NEW k \in 0 .. d, ClearIn(k), refs_ahead = 0
  PROVE  /\ ~RefreshIssue
         /\ \E m \in 0 .. d : ClearIn(m)' /\ Passing(d, e, Grant, S, k, S, m)
<1>1. PICK g : /\ g = Grant
               /\ Capture(g) \/ CaptureRefresh(g) \/ Empty(g) \/ Hold(g)
  BY DEF ArbClock
<1>2. g = "REF" /\ TypeOK
  BY <1>1 DEF Grant, Sel, ArbInv
<1>3. op' = Refresh /\ op_ref_optional' = FALSE
  BY <1>1, <1>2 DEF Capture, CaptureRefresh, Empty, Hold, Tags
<1>4. RefreshHeld' /\ ~VidHeld'
  BY <1>3, RequestKind DEF RefreshHeld, VidHeld, Refresh
<1>5. op.kind # "ref"
  BY RefreshNotForced
<1>6. PICK m \in 0 .. d : ClearIn(m)' /\ m + 1 <= k + HeldCost(d, e)
  BY <1>2, FreeClears
<1>7. RefreshToCome /\ ~RefreshToCome'
  BY <1>4, <1>5 DEF RefreshToCome, RefreshHeld
<1>8. Cardinality(S) + One(RefreshToCome)' <= (Cardinality(S) + One(RefreshToCome)) - 1
  <2>1. One(RefreshToCome)' = 0 /\ One(RefreshToCome) = 1
    BY <1>7 DEF One
  <2>2. Cardinality(S) \in Int
    BY RivalsFinite
  <2>3. \A a \in Int : a + 0 <= (a + 1) - 1
    OBVIOUS
  <2>4. QED
    BY <2>1, <2>2, <2>3
<1>9. HeldCost(d, e)' = d + 1
  BY <1>4 DEF HeldCost
<1>10. Passing(d, e, g, S, k, S, m)
  BY <1>6, <1>8, <1>9 DEF Passing
<1>11. QED
  BY <1>1, <1>5, <1>6, <1>10 DEF RefreshIssue

\* A clock on which the operation stays held.
LEMMA HeldPasses ==
  ASSUME TypeOK, init_done, Asks("CPU"), Grant # "CPU", ArbClock, CtrlClock, ~Free,
         NEW d \in Nat, NEW e \in Nat,
         NEW S \in SUBSET LowRivals, NEW k \in 0 .. d, ClearIn(k)
  PROVE  /\ ~RefreshIssue /\ op' = op
         /\ \E m \in 0 .. d : ClearIn(m)' /\ Passing(d, e, Grant, S, k, S, m)
<1>1. /\ k >= 1 /\ ClearIn(k - 1)'
      /\ op' = op /\ op_ref_optional' = op_ref_optional /\ ~RefreshIssue
  <2>1. k \in Nat
    OBVIOUS
  <2>2. QED
    BY <2>1, HeldClears
<1>2. PICK m \in 0 .. d : m = k - 1
  BY <1>1
<1>3. HeldCost(d, e)' = HeldCost(d, e)
  BY <1>1 DEF HeldCost, VidHeld
<1>4. Cardinality(S) + One(RefreshToCome)' <= Cardinality(S) + One(RefreshToCome)
  <2>1. One(RefreshToCome)' <= One(RefreshToCome)
    BY <1>1, ToComeFalls DEF RefreshHeld
  <2>2. One(RefreshToCome)' \in Int /\ One(RefreshToCome) \in Int /\ Cardinality(S) \in Int
    BY RivalsFinite DEF One
  <2>3. QED
    BY <2>1, <2>2
<1>5. m + 1 <= k
  BY <1>2
<1>6. Passing(d, e, Grant, S, k, S, m)
  BY <1>3, <1>4, <1>5 DEF Passing
<1>7. QED
  BY <1>1, <1>2, <1>6

\* When its refresh has been sent, the CPU is 2 * (d + 1) clocks at least below the longest
\* turn: the refresh and the access that is captured now are not before it again.
LEMMA BelowLongest ==
  ASSUME NEW d \in Nat, NEW e \in Nat, NEW max \in Nat, TurnsIn(d, e, max),
         NEW T \in SUBSET LowRivals, NEW m \in 0 .. d, NEW q \in Nat,
         ~RefreshToCome', Video' + q \in Nat, Video' + q <= 1 + VID_BURST + max,
         \/ Cardinality(T) <= Cardinality(LowRivals) - 1 /\ HeldCost(d, e)' = d + 1
         \/ Video' + q <= VID_BURST + max /\ HeldCost(d, e)' = e + 1
  PROVE  Away(d, e, T, m, q)' + 2 * d + 2 <= Turn(d, e, max)
<1>1. /\ Cardinality(T) \in Nat /\ Cardinality(LowRivals) \in Nat
      /\ Cardinality(T) <= Cardinality(LowRivals)
      /\ VID_BURST \in Nat
  BY RivalsFinite, ArbiterAssumption
<1>2. PICK l \in Nat, t \in Nat, v \in Nat, w \in Nat :
        /\ l = Cardinality(LowRivals) /\ t = Cardinality(T)
        /\ v = 1 + VID_BURST + max /\ w = Video' + q
  BY <1>1
<1>3. t <= l /\ w <= v
  BY <1>1, <1>2
<1>4. \/ t <= l - 1 /\ HeldCost(d, e)' = d + 1
      \/ w <= v - 1 /\ HeldCost(d, e)' = e + 1
  <2>1. v - 1 = VID_BURST + max
    BY <1>1, <1>2
  <2>2. QED
    BY <1>2, <2>1
<1>5. PICK x \in Nat, y \in Nat : /\ x = (d + 1) * l /\ y = (d + 1) * t
                                  /\ y <= x /\ (t <= l - 1 => y <= x - (d + 1))
  <2>1. d + 1 \in Nat
    OBVIOUS
  <2>2. (d + 1) * l \in Nat /\ (d + 1) * t \in Nat
    BY <2>1, Scales
  <2>3. /\ (d + 1) * t <= (d + 1) * l
        /\ t <= l - 1 => (d + 1) * t <= (d + 1) * l - (d + 1)
    BY <1>3, <2>1, Scales
  <2>4. QED
    BY <2>2, <2>3
<1>6. PICK z \in Nat, u \in Nat : /\ z = (e + 1) * v /\ u = (e + 1) * w
                                  /\ u <= z /\ (w <= v - 1 => u <= z - (e + 1))
  <2>1. e + 1 \in Nat
    OBVIOUS
  <2>2. (e + 1) * v \in Nat /\ (e + 1) * w \in Nat
    BY <2>1, Scales
  <2>3. /\ (e + 1) * w <= (e + 1) * v
        /\ w <= v - 1 => (e + 1) * w <= (e + 1) * v - (e + 1)
    BY <1>3, <2>1, Scales
  <2>4. QED
    BY <2>2, <2>3
<1>7. Turn(d, e, max) = d + (x + 2 * (d + 1)) + z
  <2>1. (d + 1) * (l + 2) = (d + 1) * l + 2 * (d + 1)
    OBVIOUS
  <2>2. Turn(d, e, max) = d + (d + 1) * (l + 2) + (e + 1) * v
    BY <1>2 DEF Turn
  <2>3. QED
    BY <1>5, <1>6, <2>1, <2>2
<1>8. Away(d, e, T, m, q)' = m + HeldCost(d, e)' + y + u
  <2>1. One(RefreshToCome)' = 0 /\ Cardinality(T) + 0 = Cardinality(T)
    BY <1>1 DEF One
  <2>2. Away(d, e, T, m, q)' = m + HeldCost(d, e)'
          + (d + 1) * (Cardinality(T) + One(RefreshToCome)') + (e + 1) * (Video' + q)
    BY DEF Away
  <2>3. Away(d, e, T, m, q)' = m + HeldCost(d, e)' + (d + 1) * t + (e + 1) * w
    BY <1>2, <2>1, <2>2
  <2>4. QED
    BY <1>5, <1>6, <2>3
<1>9. CASE t <= l - 1 /\ HeldCost(d, e)' = d + 1
  BY <1>5, <1>6, <1>7, <1>8, <1>9
<1>10. CASE w <= v - 1 /\ HeldCost(d, e)' = e + 1
  BY <1>5, <1>6, <1>7, <1>8, <1>10
<1>11. QED
  BY <1>4, <1>9, <1>10

\* Every clock on which the CPU waits brings its turn nearer by one at least.
LEMMA TurnNears ==
  ASSUME NEW d \in Nat, NEW e \in Nat, NEW max \in Nat, TurnsIn(d, e, max),
         TimelyInv(d), Next, init_done, Asks("CPU"), Grant # "CPU",
         NEW S \in SUBSET LowRivals, NEW k \in 0 .. d, NEW n \in Nat,
         Near(d, e, max, S, k, n), Away(d, e, S, k, n) <= Turn(d, e, max)
  PROVE  \E T \in SUBSET LowRivals, m \in 0 .. d, q \in Nat :
           /\ Near(d, e, max, T, m, q)'
           /\ Away(d, e, T, m, q)' \in Nat /\ Away(d, e, T, m, q)' <= Away(d, e, S, k, n) - 1
<1>1. /\ ArbInv /\ TypeOK /\ RefreshLedger /\ RefreshPostponed /\ ClearIn(k)
      /\ ArbClock /\ CtrlClock
  BY DEF TimelyInv, ArbInv, Next, Near
<1>2. /\ e <= d /\ DrainsIn(d) /\ VidDrainsIn(e) /\ 2 * d + 2 < T_REFI
      /\ Turn(d, e, max) \in Nat /\ Turn(d, e, max) < T_REFI /\ T_REFI \in Nat
  BY TurnNumbers
<1>3. PICK r \in Nat : r = Away(d, e, S, k, n) /\ r >= 1
  <2>1. k \in Nat
    OBVIOUS
  <2>2. /\ Away(d, e, S, k, n) \in Nat /\ Away(d, e, S, k, n) >= k + HeldCost(d, e)
        /\ HeldCost(d, e) \in 1 .. d + 1
    BY <1>1, <1>2, <2>1, AwayNumbers
  <2>3. QED
    BY <2>2
<1>4. LowPassed(S, r) /\ r <= Turn(d, e, max)
  BY <1>3 DEF Near
<1>5. PICK g : g = Grant /\ Clients(g) /\ CountAges(g)
  BY <1>1 DEF ArbClock
<1>6. /\ refs_ahead \in 0 .. 2
      /\ refs_ahead' = IF refs_ahead = 2 THEN 2 ELSE refs_ahead + One(RefreshIssue)
  BY <1>1 DEF ArbClock, History, TypeOK
<1>7. ASSUME refs_ahead >= 1
      PROVE  /\ refs_ahead = 1 /\ IsAccess(op) /\ NoneForced(r)
             /\ ~RefForced /\ ~RefreshIssue
  <2>1. refs_ahead = 1 /\ IsAccess(op) /\ NoneForced(r)
    BY <1>3, <1>7 DEF Near
  <2>2. ~RefForced
    BY <1>1, <2>1, RefreshNotForced DEF NoneForced
  <2>3. QED
    BY <2>1, <2>2 DEF RefreshIssue, IsAccess
<1>8. RefreshIssue => Free /\ ~RefForced
  <2>1. RefreshIssue => op.kind = "ref"
    BY DEF RefreshIssue
  <2>2. QED
    BY <1>1, <2>1, RefreshNotForced DEF Free, OpIssue
<1>9. PICK T \in SUBSET LowRivals, m \in 0 .. d :
        /\ ClearIn(m)' /\ Passing(d, e, g, S, k, T, m)
        /\ T = S \/ (g \in LowRivals /\ T = S \ {g})
        /\ refs_ahead >= 1 \/ RefreshIssue => IsAccess(op)'
        /\ RefreshIssue =>
             \/ Cardinality(T) <= Cardinality(S) - 1 /\ HeldCost(d, e)' = d + 1
             \/ g = "VID" /\ VidUrgent /\ HeldCost(d, e)' = e + 1
  <2>1. CASE ~Free
    <3>1. ~RefreshIssue /\ op' = op
      BY <1>1, <2>1, HeldPasses
    <3>2. PICK m \in 0 .. d : ClearIn(m)' /\ Passing(d, e, g, S, k, S, m)
      BY <1>1, <1>5, <2>1, HeldPasses
    <3>3. refs_ahead >= 1 => IsAccess(op)'
      BY <1>7, <3>1 DEF IsAccess
    <3>4. QED
      BY <3>1, <3>2, <3>3
  <2>2. CASE Free /\ RefForced
    <3>1. refs_ahead = 0 /\ ~(refs_ahead >= 1)
      BY <1>6, <1>7, <2>2
    <3>2. ~RefreshIssue
      BY <1>8, <2>2
    <3>3. PICK m \in 0 .. d : ClearIn(m)' /\ Passing(d, e, g, S, k, S, m)
      BY <1>1, <1>2, <1>5, <2>2, <3>1, RefreshPasses
    <3>4. QED
      BY <3>1, <3>2, <3>3
  <2>3. CASE Free /\ ~RefForced
    <3>1. PICK T \in SUBSET LowRivals, m \in 0 .. d :
            /\ ClearIn(m)' /\ Passing(d, e, Grant, S, k, T, m) /\ IsAccess(op)'
            /\ \/ /\ Grant \in LowRivals /\ T = S \ {Grant}
                  /\ Cardinality(T) = Cardinality(S) - 1 /\ HeldCost(d, e)' = d + 1
               \/ Grant = "VID" /\ VidUrgent /\ T = S /\ HeldCost(d, e)' = e + 1
      BY <1>1, <1>2, <1>4, <2>3, ServedPasses
    <3>2. Cardinality(T) = Cardinality(S) - 1 => Cardinality(T) <= Cardinality(S) - 1
      BY RivalsFinite
    <3>3. QED
      BY <1>5, <3>1, <3>2
  <2>4. QED
    BY <2>1, <2>2, <2>3
<1>10. PICK q \in Nat, p \in Nat :
         /\ p = Away(d, e, T, m, q)' /\ p <= r - 1
         /\ Video' + q <= 1 + VID_BURST + max
         /\ g = "VID" /\ VidUrgent => Video' + q <= VID_BURST + max
         /\ p <= vid_gap' + q * VID_PERIOD
         /\ LowPassed(T, p)'
  <2>1. PICK q \in Nat :
          /\ Away(d, e, T, m, q)' \in Nat /\ Away(d, e, T, m, q)' <= Away(d, e, S, k, n) - 1
          /\ Video' + q <= 1 + VID_BURST + max
          /\ g = "VID" /\ VidUrgent => Video' + q <= VID_BURST + max
          /\ Away(d, e, T, m, q)' <= vid_gap' + q * VID_PERIOD
          /\ LowPassed(T, Away(d, e, T, m, q))'
    BY <1>1, <1>5, <1>9, ComesNearer
  <2>2. PICK p \in Nat : p = Away(d, e, T, m, q)'
    BY <2>1
  <2>3. LowPassed(T, p)'
    BY <2>1, <2>2 DEF LowPassed
  <2>4. p <= r - 1
    BY <1>3, <2>1, <2>2
  <2>5. QED
    BY <2>1, <2>2, <2>3, <2>4
<1>11. ASSUME refs_ahead' >= 1
       PROVE  refs_ahead' = 1 /\ IsAccess(op)' /\ NoneForced(p)'
  <2>1. CASE refs_ahead >= 1
    <3>1. refs_ahead' = 1
      BY <1>6, <1>7, <2>1 DEF One
    <3>2. p <= r - 1 /\ p < T_REFI
      BY <1>2, <1>3, <1>4, <1>10
    <3>3. NoneForced(p)'
      BY <1>1, <1>3, <1>7, <2>1, <3>2, StillNotForced
    <3>4. QED
      BY <1>9, <2>1, <3>1, <3>3
  <2>2. CASE ~(refs_ahead >= 1)
    <3>1. refs_ahead = 0 /\ RefreshIssue /\ refs_ahead' = 1
      BY <1>6, <1>11, <2>2 DEF One
    <3>2. ~RefreshToCome'
      BY <3>1 DEF RefreshToCome
    <3>3. Video' + q \in Nat
      <4>1. vid_credit' \in Nat
        BY <1>1, <1>5, ClientTypes, ArbiterAssumption
      <4>2. Video' = One(VidUrgent') + vid_credit' /\ One(VidUrgent') \in {0, 1}
        BY DEF Video, One
      <4>3. QED
        BY <4>1, <4>2
    <3>4. \/ Cardinality(T) <= Cardinality(LowRivals) - 1 /\ HeldCost(d, e)' = d + 1
          \/ Video' + q <= VID_BURST + max /\ HeldCost(d, e)' = e + 1
      <4>1. /\ Cardinality(T) \in Int /\ Cardinality(S) \in Int /\ Cardinality(LowRivals) \in Int
            /\ Cardinality(S) <= Cardinality(LowRivals)
        BY RivalsFinite
      <4>2. Cardinality(T) <= Cardinality(S) - 1 => Cardinality(T) <= Cardinality(LowRivals) - 1
        BY <4>1
      <4>3. QED
        BY <1>9, <1>10, <3>1, <4>2
    <3>5. Away(d, e, T, m, q)' + 2 * d + 2 <= Turn(d, e, max)
      BY <1>10, <3>2, <3>3, <3>4, BelowLongest
    <3>6. p + 2 * d + 2 < T_REFI
      BY <1>2, <1>10, <3>5
    <3>7. NoneForced(p)'
      BY <1>1, <1>2, <3>1, <3>6, NotForcedAgain
    <3>8. QED
      BY <1>9, <3>1, <3>7
  <2>3. QED
    BY <2>1, <2>2
<1>12. Near(d, e, max, T, m, q)'
  <2>1. refs_ahead' >= 1 => refs_ahead' = 1 /\ IsAccess(op)' /\ NoneForced(p)'
    BY <1>11
  <2>2. /\ ClearIn(m)' /\ Video' + q <= 1 + VID_BURST + max
        /\ p <= vid_gap' + q * VID_PERIOD /\ LowPassed(T, p)'
    BY <1>9, <1>10
  <2>3. p = Away(d, e, T, m, q)'
    BY <1>10
  <2>4. QED
    BY <2>1, <2>2, <2>3 DEF Near, LowPassed, NoneForced, IsAccess
<1>13. Away(d, e, T, m, q)' \in Nat /\ Away(d, e, T, m, q)' <= Away(d, e, S, k, n) - 1
  BY <1>3, <1>10
<1>14. QED
  BY <1>12, <1>13

(***************************************************************************)
(* How long the CPU waits                                                  *)
(***************************************************************************)

\* The word captured on an edge has one owner, and one that is still to be asked for
\* has a column command on its way.
Apart(R, C) ==
  /\ \A q \in R : q \in [at: Nat, tag: Tags, last: BOOLEAN]
  /\ \A p, q \in R : p.at = q.at => p = q
  /\ \A q \in R : q.at >= RDD => \E c \in C : c.at = q.at - RDD

\* A read that waits for its first word is held, booked or answered on this clock.
WordInTime(d, e, max) ==
  cpu_rd_wait =>
    \/ /\ op.kind = "read" /\ op.tag = "CPU"
       /\ \E k \in 0 .. d : ClearIn(k) /\ cpu_wait + k + T_RCD + RDD + 1 <= Longest(d, e, max)
    \/ \E q \in rdq : q.tag = "CPU" /\ cpu_wait + q.at + 1 <= Longest(d, e, max)
    \/ rd.valid /\ rd.tag = "CPU" /\ cpu_wait <= Longest(d, e, max)

NoWait == ~Asks("CPU") /\ ~cpu_rd_wait => cpu_wait = 0

WaitInv(d, e, max) ==
  /\ TimelyInv(d) /\ Apart(rdq, col)
  /\ TurnInTime(d, e, max) /\ WordInTime(d, e, max) /\ NoWait

LEMMA ApartShifts ==
  ASSUME NEW R, NEW C, Apart(R, C), \A c \in C : c.at \in Nat
  PROVE  Apart(ShiftSlots(R), ShiftSlots(C))
<1>1. RDD \in Nat
  BY CtrlAssumption
<1>2. ASSUME NEW q \in ShiftSlots(R)
      PROVE  \E x \in R : /\ x.at > 0 /\ x \in [at: Nat, tag: Tags, last: BOOLEAN]
                          /\ q = [x EXCEPT !.at = x.at - 1]
  BY <1>2 DEF ShiftSlots, Apart
<1>3. ASSUME NEW q \in ShiftSlots(R) PROVE q \in [at: Nat, tag: Tags, last: BOOLEAN]
  BY <1>2, <1>3
<1>4. ASSUME NEW p \in ShiftSlots(R), NEW q \in ShiftSlots(R), p.at = q.at PROVE p = q
  <2>1. PICK x \in R : /\ x.at > 0 /\ x \in [at: Nat, tag: Tags, last: BOOLEAN]
                       /\ p = [x EXCEPT !.at = x.at - 1]
    BY <1>2
  <2>2. PICK y \in R : /\ y.at > 0 /\ y \in [at: Nat, tag: Tags, last: BOOLEAN]
                       /\ q = [y EXCEPT !.at = y.at - 1]
    BY <1>2
  <2>3. x.at = y.at
    BY <1>4, <2>1, <2>2
  <2>4. x = y
    BY <2>3 DEF Apart
  <2>5. QED
    BY <2>1, <2>2, <2>4
<1>5. ASSUME NEW q \in ShiftSlots(R), q.at >= RDD
      PROVE  \E c \in ShiftSlots(C) : c.at = q.at - RDD
  <2>1. PICK x \in R : /\ x.at > 0 /\ x \in [at: Nat, tag: Tags, last: BOOLEAN]
                       /\ q = [x EXCEPT !.at = x.at - 1]
    BY <1>2
  <2>2. q.at = x.at - 1 /\ x.at \in Nat
    BY <2>1
  <2>3. x.at >= RDD
    BY <1>1, <1>5, <2>2
  <2>4. PICK c \in C : c.at = x.at - RDD
    BY <2>3 DEF Apart
  <2>5. c.at > 0 /\ c.at \in Nat
    BY <1>1, <1>5, <2>2, <2>4
  <2>6. [c EXCEPT !.at = c.at - 1] \in ShiftSlots(C)
    BY <2>5 DEF ShiftSlots
  <2>7. [c EXCEPT !.at = c.at - 1].at = q.at - RDD
    BY <1>1, <2>2, <2>4, <2>5
  <2>8. QED
    BY <2>6, <2>7
<1>6. QED
  BY <1>3, <1>4, <1>5 DEF Apart

\* A read is only sent when its columns, and so its captures, fall between the others.
LEMMA ApartBooked ==
  ASSUME NEW d \in Nat, ClearIn(d), TypeOK, Apart(rdq, col), AccessIssue, op.kind = "read"
  PROVE  Apart(rdq \cup { ReadSlot(i) : i \in Burst(op.n) }, col \cup NewColumns)
<1> DEFINE R == rdq \cup { ReadSlot(i) : i \in Burst(op.n) }
           C == col \cup NewColumns
<1>1. RDD \in Nat /\ T_RCD \in Nat
  BY CtrlAssumption, TimingAssumption
<1>2. op.n \in 1 .. 4 /\ op.tag \in Tags
  <2>1. op \in Requests
    BY DEF TypeOK, Refresh, NoOp
  <2>2. QED
    BY <2>1, ArbiterAssumption, GeometryAssumption DEF IsRequest, Reads, Writes
<1>3. ASSUME NEW i \in Burst(op.n)
      PROVE  /\ i \in Nat /\ ReadSlot(i).at = T_RCD + i + RDD
             /\ ReadSlot(i) \in [at: Nat, tag: Tags, last: BOOLEAN]
             /\ Column(i) \in NewColumns /\ Column(i).at = T_RCD + i
             /\ \A c \in col : c.at # T_RCD + i
  <2>1. i \in Nat
    BY <1>2 DEF Burst
  <2>2. \A c \in col : c.at # T_RCD + i
    BY DEF AccessIssue, CanAccess, SlotsFree, ColumnAt
  <2>3. Column(i) \in NewColumns /\ Column(i).at = T_RCD + i
    BY DEF NewColumns, Column, ColumnAt
  <2>4. QED
    BY <1>1, <1>2, <2>1, <2>2, <2>3 DEF ReadSlot, ColumnAt
<1>4. ASSUME NEW q \in R PROVE q \in [at: Nat, tag: Tags, last: BOOLEAN]
  BY <1>3 DEF Apart
<1>5. ASSUME NEW q \in R, q.at >= RDD PROVE \E c \in C : c.at = q.at - RDD
  <2>1. CASE q \in rdq
    BY <1>5, <2>1 DEF Apart
  <2>2. CASE q \notin rdq
    <3>1. PICK i \in Burst(op.n) : q = ReadSlot(i)
      BY <2>2
    <3>2. Column(i).at = q.at - RDD
      BY <1>1, <1>3, <3>1
    <3>3. QED
      BY <1>3, <3>2
  <2>3. QED
    BY <2>1, <2>2
<1>6. ASSUME NEW p \in rdq, NEW i \in Burst(op.n) PROVE p.at # ReadSlot(i).at
  <2>1. SUFFICES ASSUME p.at = T_RCD + i + RDD PROVE FALSE
    BY <1>3
  <2>2. PICK c \in col : c.at = p.at - RDD
    BY <1>1, <1>3, <2>1 DEF Apart
  <2>3. c.at = T_RCD + i
    BY <1>1, <1>3, <2>1, <2>2
  <2>4. QED
    BY <1>3, <2>3
<1>7. ASSUME NEW p \in R, NEW q \in R, p.at = q.at PROVE p = q
  <2>1. CASE p \in rdq /\ q \in rdq
    BY <1>7, <2>1 DEF Apart
  <2>2. CASE p \in rdq /\ q \notin rdq
    BY <1>6, <1>7, <2>2
  <2>3. CASE p \notin rdq /\ q \in rdq
    BY <1>6, <1>7, <2>3
  <2>4. CASE p \notin rdq /\ q \notin rdq
    <3>1. PICK i \in Burst(op.n), j \in Burst(op.n) : p = ReadSlot(i) /\ q = ReadSlot(j)
      BY <2>4
    <3>2. i = j
      BY <1>1, <1>3, <1>7, <3>1
    <3>3. QED
      BY <3>1, <3>2
  <2>5. QED
    BY <2>1, <2>2, <2>3, <2>4
<1>8. QED
  BY <1>4, <1>5, <1>7 DEF Apart

\* The captures on a clock: what is due leaves, a read that is sent enters.
LEMMA CapturesNext ==
  ASSUME CtrlClock
  PROVE  /\ rdq' = ShiftSlots(IF AccessIssue /\ op.kind = "read"
                                THEN rdq \cup { ReadSlot(i) : i \in Burst(op.n) } ELSE rdq)
         /\ col' = ShiftSlots(IF AccessIssue THEN col \cup NewColumns ELSE col)
         /\ CaptureRead
<1>1. CASE IssueAccess
  <2>1. AccessIssue /\ CaptureRead /\ col' = ShiftSlots(col \cup NewColumns)
    BY <1>1 DEF IssueAccess
  <2>2. rdq' = ShiftSlots(rdq \cup IF op.kind = "read" THEN { ReadSlot(i) : i \in Burst(op.n) }
                                                       ELSE {})
    BY <1>1 DEF IssueAccess
  <2>3. CASE op.kind = "read"
    BY <2>1, <2>2, <2>3
  <2>4. CASE op.kind # "read"
    <3>1. rdq \cup {} = rdq
      OBVIOUS
    <3>2. QED
      BY <2>1, <2>2, <2>4, <3>1
  <2>5. QED
    BY <2>3, <2>4
<1>2. CASE ~IssueAccess
  <2>1. ~AccessIssue
    <3>1. AccessIssue => init_done /\ ~col_due /\ OpIssue /\ ~RefreshIssue
      BY DEF AccessIssue, OpIssue, RefreshIssue, IsAccess
    <3>2. PowerUp => ~init_done
      BY DEF PowerUp, PowerUpWait, PowerUpCommand, init_done
    <3>3. QED
      BY <1>2, <3>1, <3>2 DEF CtrlClock, IssueRefresh, SendColumn, Wait
  <2>2. ShiftTables /\ CaptureRead
    BY <1>2 DEF CtrlClock, PowerUp, IssueRefresh, SendColumn, Wait
  <2>3. QED
    BY <2>1, <2>2 DEF ShiftTables
<1>3. QED
  BY <1>1, <1>2

LEMMA ApartNext ==
  ASSUME NEW d \in Nat, ClearIn(d), TypeOK, Apart(rdq, col), CtrlClock
  PROVE  Apart(rdq, col)'
<1>1. \A c \in col : c.at \in Nat
  BY DEF ClearIn
<1>2. ASSUME AccessIssue PROVE \A c \in NewColumns : c.at \in Nat
  <2>1. op \in Requests
    BY <1>2 DEF AccessIssue, IsAccess, TypeOK, Refresh, NoOp
  <2>2. op.n \in 1 .. 4 /\ T_RCD \in Nat
    BY <2>1, ArbiterAssumption, GeometryAssumption, TimingAssumption DEF IsRequest, Reads, Writes
  <2>3. \A i \in Burst(op.n) : Column(i).at \in Nat
    BY <2>2 DEF Column, ColumnAt, Burst
  <2>4. QED
    BY <2>3 DEF NewColumns
<1>3. CASE AccessIssue /\ op.kind = "read"
  <2>1. Apart(rdq \cup { ReadSlot(i) : i \in Burst(op.n) }, col \cup NewColumns)
    BY <1>3, ApartBooked
  <2>2. \A c \in col \cup NewColumns : c.at \in Nat
    BY <1>1, <1>2, <1>3
  <2>3. Apart(ShiftSlots(rdq \cup { ReadSlot(i) : i \in Burst(op.n) }),
              ShiftSlots(col \cup NewColumns))
    BY <2>1, <2>2, ApartShifts
  <2>4. QED
    BY <1>3, <2>3, CapturesNext
<1>4. CASE ~(AccessIssue /\ op.kind = "read")
  <2>1. PICK C : C = IF AccessIssue THEN col \cup NewColumns ELSE col
    OBVIOUS
  <2>2. \A c \in C : c.at \in Nat
    BY <1>1, <1>2, <2>1
  <2>3. Apart(rdq, C)
    BY <2>1 DEF Apart
  <2>4. Apart(ShiftSlots(rdq), ShiftSlots(C))
    BY <2>2, <2>3, ApartShifts
  <2>5. QED
    BY <1>4, <2>1, <2>4, CapturesNext
<1>5. QED
  BY <1>3, <1>4

\* The CPU asks again only when the word that it waits for has come.
LEMMA AskNext ==
  ASSUME NEW d \in Nat, NEW e \in Nat, NEW max \in Nat, ArbInv, TurnInTime(d, e, max),
         WordInTime(d, e, max), ArbClock, Asks("CPU")'
  PROVE  /\ ~cpu_rd_wait'
         /\ Asks("CPU") /\ Grant # "CPU" => cpu_wait' <= cpu_wait + 1
         /\ ~(Asks("CPU") /\ Grant # "CPU") => cpu_wait' = 0 /\ init_done
<1>1. PICK g : g = Grant /\ Clients(g) /\ CpuLatency(g)
  BY DEF ArbClock
<1>2. /\ TypeOK /\ cpu_wait \in 0 .. LAT_MAX /\ LAT_MAX \in Nat
  BY ArbiterAssumption DEF ArbInv, TypeOK
<1>3. /\ cpu_rd_wait' <=> \/ g = "CPU" /\ req["CPU"].kind = "read"
                          \/ cpu_rd_wait /\ ~(rd.valid /\ rd.tag = "CPU")
      /\ cpu_wait' = IF cpu_rd_wait' \/ (Asks("CPU") /\ g # "CPU")
                       THEN (IF cpu_wait < LAT_MAX THEN cpu_wait + 1 ELSE LAT_MAX)
                       ELSE 0
  BY <1>1, <1>2 DEF CpuLatency, TypeOK
<1>4. req'["CPU"] \in NextRequests("CPU", g)
  BY <1>1 DEF Clients
<1>5. CASE Asks("CPU") /\ g # "CPU"
  <2>1. ~cpu_rd_wait
    BY <1>5 DEF TurnInTime
  <2>2. cpu_wait' <= cpu_wait + 1
    BY <1>2, <1>3, <1>5
  <2>3. QED
    BY <1>1, <1>3, <1>5, <2>1, <2>2
<1>6. CASE ~(Asks("CPU") /\ g # "CPU")
  <2>1. init_done /\ ~CpuReading(g)
    BY <1>4, <1>6 DEF NextRequests, NewRequests, Asks
  <2>2. ~cpu_rd_wait'
    <3>1. ~(g = "CPU" /\ req["CPU"].kind = "read")
      BY <2>1 DEF CpuReading
    <3>2. cpu_rd_wait => rd.valid /\ rd.tag = "CPU"
      BY <2>1 DEF CpuReading, WordInTime
    <3>3. QED
      BY <1>3, <3>1, <3>2
  <2>3. QED
    BY <1>1, <1>3, <1>6, <2>1, <2>2
<1>7. QED
  BY <1>5, <1>6

\* The CPU starts to ask: everything may still be in front of it.
LEMMA TurnStarts ==
  ASSUME NEW d \in Nat, NEW e \in Nat, NEW max \in Nat, TurnsIn(d, e, max), ArbInv',
         ClearIn(d)', refs_ahead' = 0
  PROVE  \E n \in Nat : /\ Near(d, e, max, LowRivals, d, n)'
                        /\ Away(d, e, LowRivals, d, n)' \in Nat
                        /\ Away(d, e, LowRivals, d, n)' <= Turn(d, e, max)
<1>1. /\ vid_credit' \in 0 .. VID_BURST /\ VID_BURST \in Nat
      /\ vid_gap' \in 0 .. VID_PERIOD - 1 /\ VID_PERIOD \in Nat \ {0}
      /\ vid_credit' = VID_BURST => vid_gap' = VID_PERIOD - 1
  BY ArbiterAssumption DEF ArbInv, TypeOK, FullCredit
<1>2. PICK n \in Nat : /\ vid_credit' = VID_BURST => n = max
                       /\ vid_credit' # VID_BURST => n = max + 1
  <2>1. max \in Nat /\ max + 1 \in Nat
    OBVIOUS
  <2>2. CASE vid_credit' = VID_BURST
    BY <2>1, <2>2
  <2>3. CASE vid_credit' # VID_BURST
    BY <2>1, <2>3
  <2>4. QED
    BY <2>2, <2>3
<1>3. /\ Video' + n \in Nat /\ Video' + n <= 1 + VID_BURST + max
  <2>1. Video' = One(VidUrgent') + vid_credit' /\ One(VidUrgent') \in {0, 1}
    BY DEF Video, One
  <2>2. PICK c \in Nat : c = vid_credit' /\ c <= VID_BURST
    BY <1>1
  <2>3. c + n \in Nat /\ c + n <= VID_BURST + max
    <3>1. CASE c = VID_BURST
      BY <1>2, <2>2, <3>1
    <3>2. CASE c # VID_BURST
      <4>1. n = max + 1
        BY <1>2, <2>2, <3>2
      <4>2. VID_BURST \in Nat
        BY ArbiterAssumption
      <4>3. c + 1 <= VID_BURST
        <5>1. \A x, y \in Nat : x <= y /\ x # y => x + 1 <= y
          OBVIOUS
        <5>2. QED
          BY <2>2, <3>2, <4>2, <5>1
      <4>4. QED
        BY <4>1, <4>2, <4>3
    <3>3. QED
      BY <3>1, <3>2
  <2>4. \A i \in {0, 1} : (i + c) + n \in Nat /\ (i + c) + n <= 1 + (VID_BURST + max)
    <3>1. VID_BURST \in Nat
      BY ArbiterAssumption
    <3>2. QED
      BY <2>3, <3>1
  <2>5. 1 + (VID_BURST + max) = 1 + VID_BURST + max
    BY ArbiterAssumption
  <2>6. QED
    BY <2>1, <2>2, <2>4, <2>5
<1>4. Turn(d, e, max) \in Nat /\ Turn(d, e, max) < (max + 1) * VID_PERIOD /\ e <= d
  BY TurnNumbers DEF TurnsIn
<1>5. Turn(d, e, max) <= vid_gap' + n * VID_PERIOD
  <2>1. PICK p \in Int : p = max * VID_PERIOD /\ (max + 1) * VID_PERIOD = p + VID_PERIOD
    BY <1>1
  <2>2. CASE vid_credit' = VID_BURST
    <3>1. n = max /\ vid_gap' = VID_PERIOD - 1
      BY <1>1, <1>2, <2>2
    <3>2. Turn(d, e, max) <= vid_gap' + p
      BY <1>1, <1>4, <2>1, <3>1
    <3>3. QED
      BY <2>1, <3>1, <3>2
  <2>3. CASE vid_credit' # VID_BURST
    <3>1. n * VID_PERIOD = p + VID_PERIOD
      BY <1>2, <2>1, <2>3
    <3>2. Turn(d, e, max) <= vid_gap' + (p + VID_PERIOD)
      BY <1>1, <1>4, <2>1
    <3>3. QED
      BY <3>1, <3>2
  <2>4. QED
    BY <2>2, <2>3
<1>6. /\ Cardinality(LowRivals) \in Nat /\ One(RefreshToCome)' \in {0, 1}
      /\ HeldCost(d, e)' \in 0 .. d + 1
  BY <1>4, RivalsFinite DEF One, HeldCost
<1>7. PICK h \in Nat, l \in Nat, j \in Nat, v \in Nat, w \in Nat :
        /\ h = HeldCost(d, e)' /\ h <= d + 1
        /\ l = Cardinality(LowRivals) + 2
        /\ j = Cardinality(LowRivals) + One(RefreshToCome)' /\ j <= l - 1
        /\ v = 1 + VID_BURST + max /\ w = Video' + n /\ w <= v
  <2>1. /\ Cardinality(LowRivals) + 2 \in Nat
        /\ Cardinality(LowRivals) + One(RefreshToCome)' \in Nat
        /\ Cardinality(LowRivals) + One(RefreshToCome)' <= (Cardinality(LowRivals) + 2) - 1
        /\ 1 + VID_BURST + max \in Nat
    <3>1. \A x \in Nat, y \in {0, 1} : x + 2 \in Nat /\ x + y \in Nat /\ x + y <= (x + 2) - 1
      OBVIOUS
    <3>2. 1 + VID_BURST + max \in Nat
      BY <1>1
    <3>3. QED
      BY <1>6, <3>1, <3>2
  <2>2. PICK w \in Nat, v \in Nat : v = 1 + VID_BURST + max /\ w = Video' + n /\ w <= v
    BY <1>3, <2>1
  <2>3. PICK h \in Nat : h = HeldCost(d, e)' /\ h <= d + 1
    BY <1>6
  <2>4. QED
    BY <2>1, <2>2, <2>3
<1>8. PICK a \in Nat : a = Away(d, e, LowRivals, d, n)' /\ a <= Turn(d, e, max)
  <2>1. /\ (d + 1) * j \in Nat /\ (d + 1) * l \in Nat
        /\ (d + 1) * j <= (d + 1) * l - (d + 1)
    <3>1. d + 1 \in Nat
      OBVIOUS
    <3>2. QED
      BY <1>7, <3>1, Scales
  <2>2. /\ (e + 1) * w \in Nat /\ (e + 1) * v \in Nat /\ (e + 1) * w <= (e + 1) * v
    <3>1. e + 1 \in Nat
      OBVIOUS
    <3>2. QED
      BY <1>7, <3>1, Scales
  <2>3. PICK x \in Nat, y \in Nat, u \in Nat, z \in Nat :
          /\ x = (d + 1) * j /\ y = (d + 1) * l /\ u = (e + 1) * w /\ z = (e + 1) * v
          /\ x <= y - (d + 1) /\ u <= z
    BY <2>1, <2>2
  <2>4. Away(d, e, LowRivals, d, n)' = d + h + x + u
    <3>1. Away(d, e, LowRivals, d, n)' = d + HeldCost(d, e)'
            + (d + 1) * (Cardinality(LowRivals) + One(RefreshToCome)') + (e + 1) * (Video' + n)
      BY DEF Away, LowRivals
    <3>2. QED
      BY <1>7, <2>3, <3>1
  <2>5. Turn(d, e, max) = d + y + z
    BY <1>7, <2>3 DEF Turn
  <2>6. d + h + x + u \in Nat /\ d + h + x + u <= d + y + z
    BY <1>7, <2>3
  <2>7. QED
    BY <2>4, <2>5, <2>6
<1>9. a <= vid_gap' + n * VID_PERIOD
  <2>1. n * VID_PERIOD \in Int /\ vid_gap' \in Int
    BY <1>1
  <2>2. QED
    BY <1>4, <1>5, <1>8, <2>1
<1>10. Near(d, e, max, LowRivals, d, n)'
  <2>1. LowPassed(LowRivals, a)'
    BY DEF LowPassed, LowRivals
  <2>2. ~(refs_ahead' >= 1)
    OBVIOUS
  <2>3. QED
    BY <1>3, <1>8, <1>9, <2>1, <2>2 DEF Near, LowPassed, LowRivals
<1>11. QED
  BY <1>8, <1>10

LEMMA TurnInTimeNext ==
  ASSUME NEW d \in Nat, NEW e \in Nat, NEW max \in Nat, TurnsIn(d, e, max),
         WaitInv(d, e, max), Next
  PROVE  TurnInTime(d, e, max)'
<1>1. /\ ArbInv /\ TypeOK /\ TimelyInv(d) /\ ClearIn(d) /\ DrainsIn(d)
      /\ TurnInTime(d, e, max) /\ WordInTime(d, e, max)
      /\ ArbClock /\ CtrlClock /\ ArbInv'
  <2>1. /\ ArbInv /\ TypeOK /\ TimelyInv(d) /\ ClearIn(d) /\ DrainsIn(d)
        /\ TurnInTime(d, e, max) /\ WordInTime(d, e, max)
        /\ ArbClock /\ CtrlClock
    BY DEF WaitInv, TimelyInv, ArbInv, Next, TurnsIn
  <2>2. QED
    BY <2>1, ArbNext
<1>2. SUFFICES ASSUME Asks("CPU")'
               PROVE  /\ init_done' /\ ~cpu_rd_wait'
                      /\ \E S \in SUBSET LowRivals, k \in 0 .. d, n \in Nat :
                           /\ Near(d, e, max, S, k, n)'
                           /\ cpu_wait' + Away(d, e, S, k, n)' <= Turn(d, e, max)
  BY DEF TurnInTime, Turn, LowRivals
<1>3. init_done /\ init_done' /\ ~cpu_rd_wait'
  <2>1. init_done
    BY <1>1, <1>2, AskNext DEF TurnInTime
  <2>2. QED
    BY <1>1, <1>2, <2>1, AskNext, ReadyStays
<1>4. /\ Turn(d, e, max) \in Nat /\ e <= d
      /\ cpu_wait \in Nat /\ cpu_wait' \in Nat
  BY <1>1, TurnNumbers, ArbiterAssumption DEF ArbInv, TypeOK
<1>5. CASE ~(Asks("CPU") /\ Grant # "CPU")
  <2>1. cpu_wait' = 0
    BY <1>1, <1>2, <1>5, AskNext
  <2>2. ClearIn(d)'
    BY <1>1, ClearStays
  <2>3. refs_ahead' = 0
    BY <1>1, <1>5 DEF ArbClock, History
  <2>4. PICK n \in Nat : /\ Near(d, e, max, LowRivals, d, n)'
                        /\ Away(d, e, LowRivals, d, n)' \in Nat
                        /\ Away(d, e, LowRivals, d, n)' <= Turn(d, e, max)
    BY <1>1, <2>2, <2>3, TurnStarts
  <2>5. cpu_wait' + Away(d, e, LowRivals, d, n)' <= Turn(d, e, max)
    BY <1>4, <2>1, <2>4
  <2>6. LowRivals \in SUBSET LowRivals /\ d \in 0 .. d
    OBVIOUS
  <2>7. QED
    BY <1>3, <2>4, <2>5, <2>6
<1>6. CASE Asks("CPU") /\ Grant # "CPU"
  <2>1. PICK S \in SUBSET LowRivals, k \in 0 .. d, n \in Nat :
          /\ Near(d, e, max, S, k, n)
          /\ cpu_wait + Away(d, e, S, k, n) <= Turn(d, e, max)
    BY <1>1, <1>6 DEF TurnInTime
  <2>2. cpu_wait' <= cpu_wait + 1
    BY <1>1, <1>2, <1>6, AskNext
  <2>3. PICK r \in Nat : r = Away(d, e, S, k, n)
    <3>1. k \in Nat
      OBVIOUS
    <3>2. QED
      BY <1>1, <1>4, <3>1, AwayNumbers
  <2>4. Away(d, e, S, k, n) <= Turn(d, e, max)
    BY <1>4, <2>1, <2>3
  <2>5. PICK T \in SUBSET LowRivals, m \in 0 .. d, q \in Nat :
          /\ Near(d, e, max, T, m, q)'
          /\ Away(d, e, T, m, q)' \in Nat
          /\ Away(d, e, T, m, q)' <= Away(d, e, S, k, n) - 1
    BY <1>1, <1>3, <1>6, <2>1, <2>4, TurnNears
  <2>6. cpu_wait' + Away(d, e, T, m, q)' <= Turn(d, e, max)
    BY <1>4, <2>1, <2>2, <2>3, <2>5
  <2>7. QED
    BY <1>3, <2>5, <2>6
<1>7. QED
  BY <1>5, <1>6

\* A read that is held, booked or answered is so on the next clock, or has gone a
\* step further.
LEMMA WordInTimeNext ==
  ASSUME NEW d \in Nat, NEW e \in Nat, NEW max \in Nat, TurnsIn(d, e, max),
         WaitInv(d, e, max), Next
  PROVE  WordInTime(d, e, max)'
<1>1. /\ ArbInv /\ TypeOK /\ ClearIn(d) /\ DrainsIn(d) /\ VidDrainsIn(e) /\ e <= d
      /\ Apart(rdq, col) /\ TurnInTime(d, e, max) /\ WordInTime(d, e, max)
      /\ ArbClock /\ CtrlClock
  BY DEF WaitInv, TimelyInv, ArbInv, Next, TurnsIn
<1>2. SUFFICES ASSUME cpu_rd_wait'
      PROVE \/ /\ op'.kind = "read" /\ op'.tag = "CPU"
               /\ \E k \in 0 .. d : ClearIn(k)' /\ cpu_wait' + k + T_RCD + RDD + 1 <= Longest(d, e, max)
            \/ \E q \in rdq' : q.tag = "CPU" /\ cpu_wait' + q.at + 1 <= Longest(d, e, max)
            \/ rd'.valid /\ rd'.tag = "CPU" /\ cpu_wait' <= Longest(d, e, max)
  BY DEF WordInTime, Longest, Turn
<1>3. /\ T_RCD \in Nat /\ RDD \in Nat /\ cpu_wait \in Nat /\ Turn(d, e, max) \in Nat
      /\ Longest(d, e, max) = Turn(d, e, max) + T_RCD + RDD + 1
      /\ Longest(d, e, max) \in Nat
  <2>1. T_RCD \in Nat /\ RDD \in Nat /\ cpu_wait \in Nat /\ Turn(d, e, max) \in Nat
    BY <1>1, CtrlAssumption, TimingAssumption, ArbiterAssumption, TurnNumbers DEF TypeOK
  <2>2. QED
    BY <2>1 DEF Longest
<1>4. PICK g : /\ g = Grant /\ CpuLatency(g)
               /\ Capture(g) \/ CaptureRefresh(g) \/ Empty(g) \/ Hold(g)
  BY <1>1 DEF ArbClock
<1>5. /\ \/ g = "CPU" /\ req["CPU"].kind = "read"
         \/ cpu_rd_wait /\ ~(rd.valid /\ rd.tag = "CPU")
      /\ cpu_wait' \in Nat /\ cpu_wait' <= cpu_wait + 1
  <2>1. cpu_wait' = IF cpu_wait < LAT_MAX THEN cpu_wait + 1 ELSE LAT_MAX
    BY <1>2, <1>4 DEF CpuLatency
  <2>2. cpu_wait \in 0 .. LAT_MAX /\ LAT_MAX \in Nat
    BY <1>1, ArbiterAssumption DEF TypeOK
  <2>3. \/ g = "CPU" /\ req["CPU"].kind = "read"
        \/ cpu_rd_wait /\ ~(rd.valid /\ rd.tag = "CPU")
    BY <1>2, <1>4 DEF CpuLatency
  <2>4. QED
    BY <2>1, <2>2, <2>3
<1>6. CASE g = "CPU"
  <2>1. Asks("CPU")
    BY <1>1, <1>4, <1>6, ChoiceSound DEF Tags
  <2>2. req["CPU"].kind = "read" /\ req["CPU"].tag = "CPU"
    <3>1. ~cpu_rd_wait
      BY <1>1, <2>1 DEF TurnInTime
    <3>2. req["CPU"] \in Requests /\ req["CPU"].tag = "CPU"
      BY <1>1, <2>1 DEF TypeOK, Asks, Tags
    <3>3. QED
      BY <1>5, <3>1, <3>2
  <2>3. op' = req["CPU"]
    BY <1>4, <1>6 DEF Capture, CaptureRefresh, Empty, Hold
  <2>4. PICK S \in SUBSET LowRivals, k \in 0 .. d, n \in Nat :
          /\ init_done /\ ClearIn(k)
          /\ cpu_wait + Away(d, e, S, k, n) <= Turn(d, e, max)
    BY <1>1, <2>1 DEF TurnInTime, Near
  <2>5. PICK m \in 0 .. d : ClearIn(m)' /\ m + 1 <= k + HeldCost(d, e)
    <3>1. Free
      BY <1>4, <1>6, <2>1 DEF Grant
    <3>2. QED
      BY <1>1, <2>4, <3>1, FreeClears
  <2>6. /\ Away(d, e, S, k, n) \in Nat /\ Away(d, e, S, k, n) >= k + HeldCost(d, e)
        /\ HeldCost(d, e) \in 1 .. d + 1
    <3>1. k \in Nat
      OBVIOUS
    <3>2. QED
      BY <1>1, <3>1, AwayNumbers
  <2>7. cpu_wait' + m + T_RCD + RDD + 1 <= Longest(d, e, max)
    BY <1>3, <1>5, <2>4, <2>5, <2>6
  <2>8. QED
    BY <2>2, <2>3, <2>5, <2>7
<1>7. CASE g # "CPU"
  <2>1. cpu_rd_wait /\ ~(rd.valid /\ rd.tag = "CPU")
    BY <1>5, <1>7
  <2>2. CASE op.kind = "read" /\ op.tag = "CPU"
             /\ \E k \in 0 .. d : ClearIn(k) /\ cpu_wait + k + T_RCD + RDD + 1 <= Longest(d, e, max)
    <3>1. PICK k \in 0 .. d : ClearIn(k) /\ cpu_wait + k + T_RCD + RDD + 1 <= Longest(d, e, max)
      BY <2>2
    <3>2. op \in Requests /\ op # NoOp /\ op.kind # "ref" /\ IsAccess(op)
      BY <1>1, <2>2 DEF TypeOK, Refresh, NoOp, IsAccess
    <3>3. op.n \in 1 .. 4 /\ op.tag \in Tags
      BY <2>2, <3>2, ArbiterAssumption, GeometryAssumption DEF IsRequest, Reads, Writes
    <3>4. CASE AccessIssue
      <4>1. 0 \in Burst(op.n) /\ ReadSlot(0).at = T_RCD + RDD /\ ReadSlot(0).tag = "CPU"
        BY <1>3, <2>2, <3>3 DEF Burst, ReadSlot, ColumnAt
      <4>2. ReadSlot(0) \in [at: Nat, tag: Tags, last: BOOLEAN] /\ ReadSlot(0).at > 0
        BY <1>3, <3>3, <4>1, TimingAssumption DEF ReadSlot, ColumnAt
      <4>3. rdq' = ShiftSlots(rdq \cup { ReadSlot(i) : i \in Burst(op.n) })
        BY <1>1, <2>2, <3>4, CapturesNext
      <4>4. PICK s \in [at: Nat, tag: Tags, last: BOOLEAN] :
              /\ s \in rdq \cup { ReadSlot(i) : i \in Burst(op.n) }
              /\ s.at = T_RCD + RDD /\ s.tag = "CPU" /\ s.at > 0
        <5>1. ReadSlot(0) \in rdq \cup { ReadSlot(i) : i \in Burst(op.n) }
          BY <4>1
        <5>2. QED
          BY <4>1, <4>2, <5>1
      <4>5. PICK q \in rdq' : q.tag = "CPU" /\ q.at = T_RCD + RDD - 1
        <5>1. [s EXCEPT !.at = s.at - 1] \in rdq'
          BY <4>3, <4>4 DEF ShiftSlots
        <5>2. /\ [s EXCEPT !.at = s.at - 1].tag = "CPU"
              /\ [s EXCEPT !.at = s.at - 1].at = T_RCD + RDD - 1
          BY <1>3, <4>4
        <5>3. QED
          BY <5>1, <5>2
      <4>6. cpu_wait' + q.at + 1 <= Longest(d, e, max)
        BY <1>3, <1>5, <3>1, <4>5
      <4>7. QED
        BY <4>5, <4>6
    <3>5. CASE ~AccessIssue
      <4>1. ~OpIssue /\ ~Free /\ init_done
        <5>1. ~OpIssue /\ ~Free
          BY <3>2, <3>5 DEF OpIssue, RefreshIssue, Free, Swap
        <5>2. init_done
          BY <1>1, <3>2 DEF ArbInv, EmptyBeforeInit
        <5>3. QED
          BY <5>1, <5>2
      <4>2. op' = op
        BY <1>1, <1>4, <4>1, ChoiceSound DEF Capture, CaptureRefresh, Empty, Hold, Tags
      <4>3. k >= 1
        BY <1>1, <3>1, <3>2, <4>1, ClearIssues
      <4>4. ~IssueAccess /\ ~IssueRefresh
        BY <4>1 DEF IssueAccess, IssueRefresh, OpIssue
      <4>5. ClearIn(k - 1)' /\ k - 1 \in 0 .. d
        BY <1>1, <3>1, <4>3, <4>4, ClearShifts
      <4>6. cpu_wait' + (k - 1) + T_RCD + RDD + 1 <= Longest(d, e, max)
        BY <1>3, <1>5, <3>1
      <4>7. QED
        BY <2>2, <4>2, <4>5, <4>6
    <3>6. QED
      BY <3>4, <3>5
  <2>3. CASE \E q \in rdq : q.tag = "CPU" /\ cpu_wait + q.at + 1 <= Longest(d, e, max)
    <3>1. PICK q \in rdq : q.tag = "CPU" /\ cpu_wait + q.at + 1 <= Longest(d, e, max)
      BY <2>3
    <3>2. q \in [at: Nat, tag: Tags, last: BOOLEAN] /\ q.at \in Nat
      BY <1>1 DEF Apart
    <3>3. CASE q.at = 0
      <4>1. \A x \in rdq : x.at = 0 => x = q
        BY <1>1, <3>3 DEF Apart
      <4>2. (CHOOSE x \in rdq : x.at = 0) = q
        BY <3>3, <4>1
      <4>3. CaptureRead
        BY <1>1, CapturesNext
      <4>4. rd' = [valid |-> TRUE, tag |-> q.tag, last |-> q.last]
        BY <3>3, <4>2, <4>3 DEF CaptureRead
      <4>5. cpu_wait' <= Longest(d, e, max)
        BY <1>3, <1>5, <3>1, <3>3
      <4>6. QED
        BY <3>1, <4>4, <4>5
    <3>4. CASE q.at # 0
      <4>1. [q EXCEPT !.at = q.at - 1] \in rdq'
        <5>1. [q EXCEPT !.at = q.at - 1] \in ShiftSlots(rdq)
          BY <3>2, <3>4 DEF ShiftSlots
        <5>2. ShiftSlots(rdq) \subseteq
                ShiftSlots(rdq \cup { ReadSlot(i) : i \in Burst(op.n) })
          BY DEF ShiftSlots
        <5>3. QED
          BY <1>1, <5>1, <5>2, CapturesNext
      <4>2. PICK x \in rdq' : x.tag = "CPU" /\ x.at = q.at - 1
        BY <3>1, <3>2, <4>1
      <4>3. cpu_wait' + x.at + 1 <= Longest(d, e, max)
        BY <1>3, <1>5, <3>1, <3>2, <4>2
      <4>4. QED
        BY <4>2, <4>3
    <3>5. QED
      BY <3>3, <3>4
  <2>4. QED
    BY <1>1, <2>1, <2>2, <2>3 DEF WordInTime
<1>8. QED
  BY <1>6, <1>7

LEMMA WaitNext ==
  ASSUME NEW d \in Nat, NEW e \in Nat, NEW max \in Nat, TurnsIn(d, e, max)
  PROVE  WaitInv(d, e, max) /\ [Next]_vars => WaitInv(d, e, max)'
<1>1. DrainsIn(d) /\ 2 * d + 2 < T_REFI
  BY TurnNumbers
<1>2. ASSUME WaitInv(d, e, max), Next PROVE WaitInv(d, e, max)'
  <2>1. TimelyInv(d) /\ TypeOK /\ ClearIn(d) /\ Apart(rdq, col) /\ ArbClock /\ CtrlClock
    BY <1>2 DEF WaitInv, TimelyInv, ArbInv, Next
  <2>2. TimelyInv(d)'
    BY <1>1, <1>2, <2>1, TimelyNext
  <2>3. Apart(rdq, col)'
    BY <2>1, ApartNext
  <2>4. TurnInTime(d, e, max)' /\ WordInTime(d, e, max)'
    BY <1>2, TurnInTimeNext, WordInTimeNext
  <2>5. NoWait'
    <3>1. ASSUME ~Asks("CPU")', ~cpu_rd_wait' PROVE cpu_wait' = 0
      <4>1. PICK g : g = Grant /\ Clients(g) /\ CpuLatency(g)
        BY <2>1 DEF ArbClock
      <4>2. ~(Asks("CPU") /\ g # "CPU")
        BY <3>1, <4>1 DEF Clients, NextRequests, Asks
      <4>3. QED
        BY <3>1, <4>1, <4>2 DEF CpuLatency
    <3>2. QED
      BY <3>1 DEF NoWait
  <2>6. QED
    BY <2>2, <2>3, <2>4, <2>5 DEF WaitInv
<1>3. ASSUME WaitInv(d, e, max), UNCHANGED vars PROVE WaitInv(d, e, max)'
  <2>1. TimelyInv(d)'
    BY <1>1, <1>3, TimelyNext DEF WaitInv
  <2>2. Apart(rdq, col)' /\ NoWait'
    BY <1>3 DEF WaitInv, Apart, NoWait, Asks, vars, ctrlVars
  <2>3. TurnInTime(d, e, max)'
    <3>1. \A S, k, n : Away(d, e, S, k, n)' = Away(d, e, S, k, n)
      BY <1>3 DEF Away, HeldCost, VidHeld, RefreshToCome, Video, VidUrgent, Asks, RefreshHeld,
                  vars, ctrlVars
    <3>2. \A k : ClearIn(k) => ClearIn(k)'
      BY <1>3 DEF ClearIn, vars, ctrlVars
    <3>3. \A S, r : LowPassed(S, r) => LowPassed(S, r)'
      BY <1>3 DEF LowPassed, LowRivals, vars
    <3>4. Video' = Video /\ (Asks("CPU")' => Asks("CPU")) /\ (init_done => init_done')
      BY <1>3 DEF Video, VidUrgent, Asks, init_done, vars, ctrlVars
    <3>5. \A S, k, n : Near(d, e, max, S, k, n) => Near(d, e, max, S, k, n)'
      BY <1>3, <3>1, <3>2, <3>3, <3>4 DEF Near, NoneForced, IsAccess, LowPassed, LowRivals, vars,
                                          ctrlVars
    <3>6. QED
      BY <1>3, <3>1, <3>4, <3>5 DEF WaitInv, TurnInTime, Turn, LowRivals, vars
  <2>4. WordInTime(d, e, max)'
    BY <1>3 DEF WaitInv, WordInTime, Longest, Turn, LowRivals, ClearIn, vars, ctrlVars
  <2>5. QED
    BY <2>1, <2>2, <2>3, <2>4 DEF WaitInv
<1>4. QED
  BY <1>2, <1>3

LEMMA WaitInit ==
  ASSUME NEW d \in Nat, NEW e \in Nat, NEW max \in Nat, Init
  PROVE  WaitInv(d, e, max)
<1>1. TimelyInv(d)
  BY InitTimely
<1>2. Apart(rdq, col)
  BY DEF Init, CtrlInit, Apart
<1>3. ~Asks("CPU") /\ ~cpu_rd_wait /\ cpu_wait = 0
  BY DEF Init, ArbInit, Asks, Tags
<1>4. QED
  BY <1>1, <1>2, <1>3 DEF WaitInv, TurnInTime, WordInTime, NoWait

\* A write waits for its turn at most, a read for its first word as well.
LEMMA WaitBounded ==
  ASSUME NEW d \in Nat, NEW e \in Nat, NEW max \in Nat, TurnsIn(d, e, max),
         WaitInv(d, e, max)
  PROVE  cpu_wait <= Longest(d, e, max)
<1>1. /\ cpu_wait \in Nat /\ Turn(d, e, max) \in Nat /\ T_RCD \in Nat /\ RDD \in Nat
      /\ Apart(rdq, col) /\ TypeOK /\ e <= d
  BY CtrlAssumption, TimingAssumption, ArbiterAssumption, TurnNumbers
  DEF WaitInv, TimelyInv, ArbInv, TypeOK
<1>2. Longest(d, e, max) = Turn(d, e, max) + T_RCD + RDD + 1
  BY DEF Longest
<1>3. CASE Asks("CPU")
  <2>1. PICK S \in SUBSET LowRivals, k \in 0 .. d, n \in Nat :
          cpu_wait + Away(d, e, S, k, n) <= Turn(d, e, max)
    BY <1>3 DEF WaitInv, TurnInTime
  <2>2. Away(d, e, S, k, n) \in Nat
    <3>1. k \in Nat
      OBVIOUS
    <3>2. QED
      BY <1>1, <3>1, AwayNumbers
  <2>3. QED
    BY <1>1, <1>2, <2>1, <2>2
<1>4. CASE cpu_rd_wait
  <2>1. PICK m \in Nat : cpu_wait + m <= Longest(d, e, max)
    <3>1. CASE \E k \in 0 .. d : cpu_wait + k + T_RCD + RDD + 1 <= Longest(d, e, max)
      <4>1. PICK k \in 0 .. d : cpu_wait + k + T_RCD + RDD + 1 <= Longest(d, e, max)
        BY <3>1
      <4>2. k + T_RCD + RDD + 1 \in Nat
            /\ cpu_wait + (k + T_RCD + RDD + 1) <= Longest(d, e, max)
        BY <1>1, <1>2, <4>1
      <4>3. QED
        BY <4>2
    <3>2. CASE \E q \in rdq : cpu_wait + q.at + 1 <= Longest(d, e, max)
      <4>1. PICK q \in rdq : cpu_wait + q.at + 1 <= Longest(d, e, max)
        BY <3>2
      <4>2. q.at \in Nat
        BY <1>1 DEF Apart
      <4>3. q.at + 1 \in Nat /\ cpu_wait + (q.at + 1) <= Longest(d, e, max)
        BY <1>1, <1>2, <4>1, <4>2
      <4>4. QED
        BY <4>3
    <3>3. CASE cpu_wait <= Longest(d, e, max)
      <4>1. 0 \in Nat /\ cpu_wait + 0 <= Longest(d, e, max)
        BY <1>1, <3>3
      <4>2. QED
        BY <4>1
    <3>4. QED
      BY <1>4, <3>1, <3>2, <3>3 DEF WaitInv, WordInTime
  <2>2. QED
    BY <1>1, <1>2, <2>1
<1>5. CASE ~Asks("CPU") /\ ~cpu_rd_wait
  BY <1>1, <1>2, <1>5 DEF WaitInv, NoWait
<1>6. QED
  BY <1>3, <1>4, <1>5

LEMMA WaitInvariant ==
  ASSUME NEW d \in Nat, NEW e \in Nat, NEW max \in Nat, TurnsIn(d, e, max)
  PROVE  Spec => []WaitInv(d, e, max)
<1>1. Init => WaitInv(d, e, max)
  BY WaitInit
<1>2. WaitInv(d, e, max) /\ [Next]_vars => WaitInv(d, e, max)'
  BY WaitNext
<1>3. QED
  BY <1>1, <1>2, PTL DEF Spec

LEMMA WaitBehindOne ==
  ASSUME NEW d \in Nat, NEW e \in Nat, NEW max \in Nat, WaitInv(d, e, max)
  PROVE  OneRefreshAhead
<1>1. SUFFICES ASSUME Asks("CPU") PROVE refs_ahead + One(RefreshIssue) <= 1
  BY DEF OneRefreshAhead
<1>2. refs_ahead \in 0 .. 2
  BY DEF WaitInv, TimelyInv, ArbInv, TypeOK
<1>3. CASE refs_ahead = 0
  BY <1>3 DEF One
<1>4. CASE refs_ahead >= 1
  <2>1. refs_ahead = 1 /\ IsAccess(op)
    BY <1>1, <1>4 DEF WaitInv, TurnInTime, Near
  <2>2. QED
    BY <2>1 DEF One, RefreshIssue, IsAccess
<1>5. QED
  BY <1>2, <1>3, <1>4

\* Whoever else asks, the video engines as often as VID_BURST and VID_PERIOD allow: from
\* its request to its turn, at most one refresh is sent in front of the CPU.
THEOREM CpuBehindOneRefresh == Spec => []OneRefreshAhead
<1>1. PICK d \in 0 .. T_REFI : \E e \in 0 .. d : \E max \in 0 .. T_REFI : TurnsIn(d, e, max)
  BY TurnAssumption
<1>2. PICK e \in 0 .. d : \E max \in 0 .. T_REFI : TurnsIn(d, e, max)
  BY <1>1
<1>3. PICK max \in 0 .. T_REFI : TurnsIn(d, e, max)
  BY <1>2
<1>4. d \in Nat /\ e \in Nat /\ max \in Nat
  BY ArbiterAssumption
<1>5. Spec => []WaitInv(d, e, max)
  BY <1>3, <1>4, WaitInvariant
<1>6. WaitInv(d, e, max) => OneRefreshAhead
  BY <1>4, WaitBehindOne
<1>7. QED
  BY <1>5, <1>6, PTL

\* Whoever else asks, the CPU's write is taken, or its read has its first word, within
\* Longest(d, e, max) clocks, and one refresh at most is in front of it.  LAT_MAX only
\* ends the count of the wait: it has to lie beyond.
THEOREM CpuServedInTime ==
  ASSUME NEW d \in Nat, NEW e \in Nat, NEW max \in Nat, TurnsIn(d, e, max),
         Longest(d, e, max) < LAT_MAX
  PROVE  Spec => []CpuLatencyBound
<1>1. Spec => []WaitInv(d, e, max)
  BY WaitInvariant
<1>2. WaitInv(d, e, max) => CpuLatencyBound
  <2>1. ASSUME WaitInv(d, e, max) PROVE OneRefreshAhead /\ cpu_wait < LAT_MAX
    <3>1. cpu_wait <= Longest(d, e, max)
      BY <2>1, WaitBounded
    <3>2. /\ cpu_wait \in Nat /\ LAT_MAX \in Nat /\ Turn(d, e, max) \in Nat
          /\ T_RCD \in Nat /\ RDD \in Nat
      BY <2>1, CtrlAssumption, TimingAssumption, ArbiterAssumption, TurnNumbers
      DEF WaitInv, TimelyInv, ArbInv, TypeOK
    <3>3. Longest(d, e, max) \in Int
      BY <3>2 DEF Longest
    <3>4. QED
      BY <2>1, <3>1, <3>2, <3>3, WaitBehindOne
  <2>2. QED
    BY <2>1 DEF CpuLatencyBound
<1>3. QED
  BY <1>1, <1>2, PTL

(***************************************************************************)
(* Low priority                                                            *)
(***************************************************************************)

\* A bank that is idle stays idle unless it is activated or refreshed.
LEMMA IdleStays ==
  ASSUME CtrlClock, NEW b \in bank_idle, ~RefreshIssue, AccessIssue => op.bank # b
  PROVE  b \in bank_idle'
<1>1. b \in Banks /\ bank_wait[b] = 0
  BY DEF bank_idle
<1>2. CASE IssueAccess
  BY <1>1, <1>2 DEF IssueAccess, bank_idle, CountDown
<1>3. CASE ~IssueAccess
  <2>1. CountDownTimers
    BY <1>3 DEF CtrlClock, PowerUp, SendColumn, Wait, IssueRefresh
  <2>2. QED
    BY <1>1, <2>1 DEF CountDownTimers, bank_idle, CountDown
<1>4. QED
  BY <1>2, <1>3

\* A low-priority operation is captured only with its bank idle, and while it
\* waits nothing takes the bank away.
THEOREM LowPrioritySafe == Spec => []LowPriorityBankIdle
<1>1. Init => LowPriorityBankIdle
  BY DEF Init, ArbInit, LowPriorityBankIdle
<1>2. ArbInv /\ LowPriorityBankIdle /\ [Next]_vars => LowPriorityBankIdle'
  <2>1. ASSUME ArbInv, LowPriorityBankIdle, Next, op_low'
        PROVE  op'.bank \in bank_idle'
    <3>1. PICK g : /\ g = Grant /\ History(g)
                   /\ Capture(g) \/ CaptureRefresh(g) \/ Empty(g) \/ Hold(g)
      BY <2>1 DEF Next, ArbClock
    <3>2. CtrlClock /\ TypeOK
      BY <2>1 DEF Next, ArbInv
    <3>3. CASE Free
      <4>1. g # "NONE" /\ LowChoice
        BY <2>1, <3>1, <3>3 DEF History
      <4>2. g = Sel /\ g \in Tags /\ BankFree(req[g].bank)
        BY <3>1, <3>2, <4>1, LowChoiceFree DEF Grant
      <4>3. op' = req[g]
        BY <3>1, <4>2 DEF Capture, CaptureRefresh, Empty, Hold, Tags
      <4>4. ~RefreshIssue /\ (AccessIssue => op.bank # req[g].bank)
        BY <4>2 DEF BankFree, RefreshIssue, AccessIssue, IsAccess, NoOp
      <4>5. req[g].bank \in bank_idle
        BY <4>2 DEF BankFree
      <4>6. QED
        BY <3>2, <4>3, <4>4, <4>5, IdleStays
    <3>4. CASE ~Free
      <4>1. op' = op /\ op_low
        BY <2>1, <3>1, <3>4, ChoiceSound DEF History, Capture, CaptureRefresh, Empty, Hold,
                                             ArbInv, Tags
      <4>2. ~OpIssue
        BY <3>4 DEF Free
      <4>3. QED
        BY <2>1, <3>2, <4>1, <4>2, IdleStays DEF LowPriorityBankIdle, OpIssue
    <3>5. QED
      BY <3>3, <3>4
  <2>2. CASE LowPriorityBankIdle /\ UNCHANGED vars
    BY <2>2 DEF LowPriorityBankIdle, bank_idle, vars, ctrlVars
  <2>3. QED
    BY <2>1, <2>2 DEF LowPriorityBankIdle
<1>3. QED
  BY <1>1, <1>2, ArbInvariant, PTL DEF Spec

(***************************************************************************)
(* The whole subsystem                                                     *)
(***************************************************************************)

\* What the arbiter does to the holding register is what SdramBus allows.
LEMMA ArbiterFeeds ==
  ASSUME ArbInv, Next
  PROVE  NextOp
<1>1. PICK g : /\ g = Grant
               /\ Capture(g) \/ CaptureRefresh(g) \/ Empty(g) \/ Hold(g)
  BY DEF Next, ArbClock
<1>2. TypeOK
  BY DEF ArbInv
<1>3. op' \in Offered \cup {NoOp}
  BY <1>1, <1>2, HoldingTypes, RequestsOffered
<1>4. CASE init_done /\ OpFree
  BY <1>3, <1>4 DEF NextOp
<1>5. CASE ~init_done
  <2>1. op = NoOp /\ g = "NONE"
    BY <1>1, <1>5 DEF ArbInv, EmptyBeforeInit, Grant
  <2>2. op' = op
    BY <1>1, <2>1 DEF Capture, CaptureRefresh, Empty, Hold, Tags
  <2>3. QED
    BY <1>5, <2>2 DEF NextOp
<1>6. CASE init_done /\ ~OpFree
  <2>1. op \in Requests /\ ~OpIssue /\ op # NoOp
    BY <1>2, <1>6 DEF OpFree, TypeOK
  <2>2. ~Free
    BY <2>1, RequestKind DEF Free, Swap
  <2>3. op' = op
    BY <1>1, <1>2, <2>2, ChoiceSound DEF Capture, CaptureRefresh, Empty, Hold, Tags
  <2>4. QED
    BY <1>6, <2>3 DEF NextOp
<1>7. QED
  BY <1>4, <1>5, <1>6

\* Every behaviour of the arbiter, the controller and the chip together is one
\* of SdramBus.
THEOREM SystemImplementsBus == SysSpec => ImplementsBus
<1>1. SysInit => BusInit
  BY DEF SysInit, Init, ArbInit, BusInit
<1>2. ArbInv /\ [SysNext]_sysVars => [BusNext]_busVars
  <2>1. CASE ArbInv /\ SysNext
    BY <2>1, ArbiterFeeds DEF SysNext, Next, BusNext
  <2>2. CASE UNCHANGED sysVars
    BY <2>2 DEF sysVars, vars, busVars, ctrlVars
  <2>3. QED
    BY <2>1, <2>2
<1>3. SysSpec => Spec
  <2>1. SysInit => Init
    BY DEF SysInit
  <2>2. [SysNext]_sysVars => [Next]_vars
    BY DEF SysNext, sysVars
  <2>3. QED
    BY <2>1, <2>2, PTL DEF SysSpec, Spec
<1>4. QED
  BY <1>1, <1>2, <1>3, ArbInvariant, PTL DEF SysSpec, BusSpec, ImplementsBus

\* Whatever the clients ask for, the chip gets each command when it allows it, no
\* read word meets a write on DQ and none is masked.
THEOREM SystemKeepsChipRules == SysSpec => [](CommandsLegal /\ NoContention /\ NoMaskedRead)
BY SystemImplementsBus, CommandsAllowed, ContentionFree, ReadsUnmasked, PTL DEF ImplementsBus
===============================================================================
