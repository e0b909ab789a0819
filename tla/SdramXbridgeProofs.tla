-------------------------- MODULE SdramXbridgeProofs --------------------------
(***************************************************************************)
(* The bridge keeps its promise for every number of synchronizer stages,   *)
(* every set of transactions and every interleaving of the two clocks.     *)
(***************************************************************************)
EXTENDS SdramTxnMux, TLAPS

(***************************************************************************)
(* Types, one group at a time.                                             *)
(***************************************************************************)
Beats == 0 .. 3

Bits ==
  /\ req_t \in BOOLEAN /\ rsp_seen \in BOOLEAN /\ a_busy \in BOOLEAN /\ a_done \in BOOLEAN
  /\ req_seen \in BOOLEAN /\ rsp_t \in BOOLEAN /\ rd_wait \in BOOLEAN
  /\ reset_a \in BOOLEAN

Syncs == req_sync \in [Stages -> BOOLEAN] /\ rsp_sync \in [Stages -> BOOLEAN]

ResetSync == reset_s_sync \in [1 .. 2 -> BOOLEAN]

Data == fields \in Txns /\ beat \in Beats /\ rbuf \in [Beats -> Word]

Types == Bits /\ Syncs /\ ResetSync /\ Data

\* What an edge does to the registers of the two sides.
ClientActs == ResetClient \/ Start \/ Finish \/ Rest \/ UNCHANGED clientRegs
ServerActs == ResetServer \/ Capture \/ Return \/ UNCHANGED serverRegs

LEMMA StagesFact == 1 \in Stages /\ SYNC_STAGES \in Stages
  BY XbridgeAssumption DEF Stages

LEMMA EdgeActs ==
  ASSUME NEW a \in BOOLEAN, NEW s \in BOOLEAN, Edge(a, s)
  PROVE  ClientActs /\ ServerActs
  BY DEF Edge, ClientEdge, ServerEdge, ClientActs, ServerActs

LEMMA BitsStep == Types /\ [Next]_vars => Bits'
<1> SUFFICES ASSUME Types, [Next]_vars PROVE Bits'
  OBVIOUS
<1>1. CASE UNCHANGED vars
  BY <1>1 DEF Types, Bits, vars, clientRegs, serverRegs, resetRegs
<1>2. CASE AssertReset
  BY <1>2 DEF Types, Bits, AssertReset, clientRegs, serverRegs
<1>3. ASSUME NEW a \in BOOLEAN, NEW s \in BOOLEAN, Edge(a, s) PROVE Bits'
  <2>0. RspA \in BOOLEAN /\ ReqS \in BOOLEAN
    BY StagesFact DEF Types, Syncs, RspA, ReqS
  <2>1. /\ req_t' \in BOOLEAN /\ rsp_seen' \in BOOLEAN
        /\ a_busy' \in BOOLEAN /\ a_done' \in BOOLEAN
    BY <1>3, <2>0, EdgeActs DEF ClientActs, ResetClient, Start, Finish, Rest, clientRegs, Types, Bits
  <2>2. /\ req_seen' \in BOOLEAN /\ rsp_t' \in BOOLEAN /\ rd_wait' \in BOOLEAN
    <3>1. ServerActs
      BY <1>3, EdgeActs
    <3>2. CASE Return
      BY <3>2 DEF Return, Types, Bits
    <3>3. CASE ResetServer \/ Capture \/ UNCHANGED serverRegs
      BY <3>3, <2>0 DEF ResetServer, Capture, serverRegs, Types, Bits
    <3> QED
      BY <3>1, <3>2, <3>3 DEF ServerActs
  <2>3. reset_a' \in BOOLEAN
    BY <1>3 DEF Edge, ReleaseA, Types, Bits
  <2> QED
    BY <2>1, <2>2, <2>3 DEF Bits
<1> QED
  BY <1>1, <1>2, <1>3 DEF Next, ClockA, ClockS

LEMMA ShiftType ==
  ASSUME NEW sync \in [Stages -> BOOLEAN], NEW bit \in BOOLEAN
  PROVE  Shift(sync, bit) \in [Stages -> BOOLEAN]
  BY XbridgeAssumption DEF Shift, Stages

LEMMA SyncsStep == Types /\ [Next]_vars => Syncs' /\ ResetSync'
<1> SUFFICES ASSUME Types, [Next]_vars PROVE Syncs' /\ ResetSync'
  OBVIOUS
<1>1. CASE UNCHANGED vars
  BY <1>1 DEF Types, Syncs, ResetSync, vars, resetRegs
<1>2. CASE AssertReset
  BY <1>2 DEF Types, Syncs, ResetSync, AssertReset
<1>3. ASSUME NEW a \in BOOLEAN, NEW s \in BOOLEAN, Edge(a, s) PROVE Syncs' /\ ResetSync'
  <2>0. /\ req_t' \in BOOLEAN /\ rsp_t' \in BOOLEAN
        /\ req_t \in BOOLEAN /\ rsp_t \in BOOLEAN /\ req_sync \in [Stages -> BOOLEAN]
        /\ rsp_sync \in [Stages -> BOOLEAN] /\ reset_s_sync \in [1 .. 2 -> BOOLEAN]
    BY <1>3, BitsStep DEF Next, ClockA, ClockS, Edge, Types, Bits, Syncs, ResetSync
  <2>1. req_sync' \in [Stages -> BOOLEAN]
    BY <1>3, <2>0, ShiftType DEF Edge, SyncRequest
  <2>2. rsp_sync' \in [Stages -> BOOLEAN]
    BY <1>3, <2>0, ShiftType DEF Edge, SyncAnswer
  <2>3. reset_s_sync' \in [1 .. 2 -> BOOLEAN]
    <3>1. [i \in 1 .. 2 |-> TRUE] \in [1 .. 2 -> BOOLEAN]
      OBVIOUS
    <3>2. Shift(reset_s_sync, FALSE) \in [1 .. 2 -> BOOLEAN]
      BY <2>0 DEF Shift
    <3> QED
      BY <1>3, <2>0, <3>1, <3>2 DEF Edge, SyncReset
  <2> QED
    BY <2>1, <2>2, <2>3 DEF Syncs, ResetSync
<1> QED
  BY <1>1, <1>2, <1>3 DEF Next, ClockA, ClockS

LEMMA DataStep == Types /\ [Next]_vars => Data'
<1> SUFFICES ASSUME Types, [Next]_vars PROVE Data'
  OBVIOUS
<1>0. fields \in Txns /\ beat \in Beats /\ rbuf \in [Beats -> Word]
  BY DEF Types, Data
<1>1. CASE UNCHANGED vars
  BY <1>0, <1>1 DEF Data, vars, clientRegs, serverRegs
<1>2. CASE AssertReset
  BY <1>2 DEF Types, Data, AssertReset, clientRegs, serverRegs
<1>3. ASSUME NEW a \in BOOLEAN, NEW s \in BOOLEAN, Edge(a, s) PROVE Data'
  <2>1. fields' \in Txns
    BY <1>3, EdgeActs, XbridgeAssumption
    DEF ClientActs, ResetClient, Start, Finish, Rest, clientRegs, Types, Data
  <2>2. beat' \in Beats /\ rbuf' \in [Beats -> Word]
    <3>1. ServerActs
      BY <1>3, EdgeActs
    <3>2. CASE Return
      <4>1. PICK w \in Word : rbuf' = [rbuf EXCEPT ![beat] = w]
        BY <3>2 DEF Return
      <4>2. beat' = (beat + 1) % 4
        BY <3>2 DEF Return
      <4> QED
        BY <1>0, <4>1, <4>2 DEF Beats
    <3>3. CASE ResetServer
      BY <3>3, XbridgeAssumption DEF ResetServer, Beats
    <3>4. CASE Capture \/ UNCHANGED serverRegs
      BY <1>0, <3>4 DEF Capture, serverRegs, Beats
    <3> QED
      BY <3>1, <3>2, <3>3, <3>4 DEF ServerActs
  <2> QED
    BY <2>1, <2>2 DEF Data
<1> QED
  BY <1>1, <1>2, <1>3 DEF Next, ClockA, ClockS

LEMMA TypesStep == Types /\ [Next]_vars => Types'
  BY BitsStep, SyncsStep, DataStep DEF Types

LEMMA TypesInit == Init => Types
<1> SUFFICES ASSUME Init PROVE Types
  OBVIOUS
<1>1. Bits
  BY DEF Init, Bits
<1>2. Syncs /\ ResetSync
  BY DEF Init, Syncs, ResetSync
<1>3. Data
  BY XbridgeAssumption DEF Init, Data, Beats
<1> QED
  BY <1>1, <1>2, <1>3 DEF Types

(***************************************************************************)
(* A bit on its way through a synchronizer.                                *)
(***************************************************************************)

\* The bit enters, or changes once it has been seen.
LEMMA ShiftTravels ==
  ASSUME NEW bit \in BOOLEAN, NEW next \in BOOLEAN, NEW seen \in BOOLEAN, NEW v \in {bit, next},
         NEW sync \in [Stages -> BOOLEAN], Travels(bit, seen, sync), next = bit \/ bit = seen
  PROVE  Travels(next, seen, Shift(sync, v))
<1> DEFINE new == Shift(sync, v)
<1>1. /\ new[1] = v
      /\ \A i \in Stages : i # 1 => i - 1 \in Stages /\ new[i] = sync[i - 1]
  BY StagesFact DEF Shift, Stages
<1>2. CASE next = bit
  <2>1. v = bit
    BY <1>2
  <2>2. ASSUME NEW i \in Stages, NEW j \in Stages, i <= j, new[j] = bit PROVE new[i] = bit
    <3>1. CASE i = 1
      BY <1>1, <2>1, <3>1
    <3>2. CASE i # 1
      <4>1. i - 1 \in Stages /\ j - 1 \in Stages /\ i - 1 <= j - 1 /\ j # 1
        BY <1>1, <2>2, <3>2 DEF Stages
      <4> QED
        BY <1>1, <2>2, <3>2, <4>1 DEF Travels
    <3> QED
      BY <3>1, <3>2
  <2>3. bit = seen => \A i \in Stages : new[i] = bit
    BY <1>1, <2>1 DEF Travels
  <2> HIDE DEF new
  <2> QED
    BY <1>2, <2>2, <2>3 DEF Travels, new
<1>3. CASE next # bit
  <2>1. \A i \in Stages : i # 1 => new[i] # next
    BY <1>1, <1>3 DEF Travels
  <2>2. ASSUME NEW i \in Stages, NEW j \in Stages, i <= j, new[j] = next PROVE new[i] = next
    BY <2>1, <2>2 DEF Stages
  <2> HIDE DEF new
  <2> QED
    BY <1>3, <2>2 DEF Travels, new
<1> QED
  BY <1>2, <1>3

\* The last flip-flop shows the bit: all of them do.
LEMMA SeenTravels ==
  ASSUME NEW bit \in BOOLEAN, NEW seen \in BOOLEAN, NEW sync \in [Stages -> BOOLEAN],
         Travels(bit, seen, sync), sync[SYNC_STAGES] # seen
  PROVE  bit # seen /\ sync[SYNC_STAGES] = bit /\ \A i \in Stages : sync[i] = bit
<1>1. bit # seen
  BY StagesFact DEF Travels
<1>2. sync[SYNC_STAGES] = bit
  BY <1>1, StagesFact
<1> QED
  BY <1>1, <1>2, StagesFact, XbridgeAssumption DEF Travels, Stages

LEMMA ShiftSeen ==
  ASSUME NEW bit \in BOOLEAN, NEW sync \in [Stages -> BOOLEAN], \A i \in Stages : sync[i] = bit
  PROVE  Travels(bit, bit, sync) /\ Travels(bit, bit, Shift(sync, bit))
<1>1. \A i \in Stages : Shift(sync, bit)[i] = bit
  BY StagesFact DEF Shift, Stages
<1> QED
  BY <1>1 DEF Travels

(***************************************************************************)
(* One edge between resets: at most one of the two sides moves.            *)
(***************************************************************************)
ServerStays ==
  /\ UNCHANGED <<req_seen, rsp_t, rd_wait, beat, rbuf>>
  /\ rd_wait => UNCHANGED pending

ClientStays ==
  /\ UNCHANGED <<req_t, rsp_seen, a_busy, fields>>
  /\ a_done' = a_done \/ ~a_done'

Turn ==
  \/ Start /\ ServerStays
  \/ Finish /\ ServerStays /\ Answered
  \/ ClientStays /\ Capture /\ Asked /\ a_busy /\ ReqS = req_t
  \/ ClientStays /\ Return /\ Reading /\ a_busy
  \/ ClientStays /\ ServerStays

LEMMA TurnTaken ==
  ASSUME Types, Handshake, ~reset_a, NEW a \in BOOLEAN, NEW s \in BOOLEAN, Edge(a, s)
  PROVE  Turn
<1>0. /\ Travels(req_t, req_seen, req_sync) /\ Travels(rsp_t, rsp_seen, rsp_sync) /\ InFlight
      /\ reset_s => ServerClear
  BY DEF Handshake, Resets
<1>1. /\ req_t \in BOOLEAN /\ req_seen \in BOOLEAN /\ rsp_t \in BOOLEAN /\ rsp_seen \in BOOLEAN
      /\ a_busy \in BOOLEAN /\ rd_wait \in BOOLEAN
      /\ req_sync \in [Stages -> BOOLEAN] /\ rsp_sync \in [Stages -> BOOLEAN]
  BY DEF Types, Bits, Syncs
<1>2. Start \/ Finish \/ ClientStays
  <2>1. Start \/ Finish \/ Rest \/ UNCHANGED clientRegs
    BY DEF Edge, ClientEdge
  <2> QED
    BY <2>1 DEF Rest, clientRegs, ClientStays
<1>3. Capture \/ Return \/ ServerStays
  <2>1. \/ reset_s /\ ResetServer
        \/ ~reset_s /\ (Capture \/ Return \/ UNCHANGED serverRegs)
        \/ UNCHANGED serverRegs
    BY DEF Edge, ServerEdge
  <2>2. reset_s /\ ResetServer => ServerStays
    BY <1>0, <1>1 DEF ResetServer, ServerClear, ServerStays
  <2> QED
    BY <2>1, <2>2 DEF serverRegs, ServerStays
<1>4. Capture => Asked /\ a_busy /\ ReqS = req_t
  <2>1. Capture => ReqS # req_seen /\ ~rd_wait
    BY DEF Capture, s_req
  <2>2. ReqS # req_seen => req_t # req_seen /\ ReqS = req_t
    BY <1>0, <1>1, SeenTravels DEF ReqS
  <2> QED
    BY <1>0, <2>1, <2>2 DEF InFlight, Asked, Reading, Answered
<1>5. Return => Reading /\ a_busy
  BY <1>0 DEF Return, InFlight, Asked, Reading, Answered
<1>6. Finish => Answered
  <2>1. RspA # rsp_seen => rsp_t # rsp_seen
    BY <1>0, <1>1, SeenTravels DEF RspA
  <2> QED
    BY <1>0, <2>1 DEF Finish, InFlight, Asked, Reading, Answered
<1>7. Start => ~a_busy
  BY DEF Start
<1>8. Finish => ~Capture /\ ~Return
  BY <1>4, <1>5, <1>6 DEF Asked, Reading, Answered
<1> QED
  BY <1>2, <1>3, <1>4, <1>5, <1>6, <1>7, <1>8 DEF Turn

LEMMA ReqMove ==
  ASSUME Types, Handshake, ~reset_a, NEW a \in BOOLEAN, NEW s \in BOOLEAN, Edge(a, s)
  PROVE  req_sync' = req_sync \/ \E v \in {req_t, req_t'} : req_sync' = Shift(req_sync, v)
<1>1. CASE s /\ reset_s
  <2>1. req_sync' = [i \in Stages |-> FALSE]
    BY <1>1 DEF Edge, SyncRequest
  <2>2. req_sync \in [Stages -> BOOLEAN] /\ \A i \in Stages : ~req_sync[i]
    BY <1>1 DEF Handshake, Resets, ServerClear, Types, Syncs
  <2> QED
    BY <2>1, <2>2
<1>2. CASE ~(s /\ reset_s)
  BY <1>2 DEF Edge, SyncRequest
<1> QED
  BY <1>1, <1>2

LEMMA RspMove ==
  ASSUME ~reset_a, NEW a \in BOOLEAN, NEW s \in BOOLEAN, Edge(a, s)
  PROVE  rsp_sync' = rsp_sync \/ \E v \in {rsp_t, rsp_t'} : rsp_sync' = Shift(rsp_sync, v)
  BY DEF Edge, SyncAnswer

\* A bit that changes has been seen; a bit that is seen is in every flip-flop.
LEMMA BitMove ==
  ASSUME NEW bit \in BOOLEAN, NEW next \in BOOLEAN, NEW seen \in BOOLEAN, NEW seenNext \in BOOLEAN,
         NEW sync \in [Stages -> BOOLEAN], NEW new,
         Travels(bit, seen, sync),
         new = sync \/ \E v \in {bit, next} : new = Shift(sync, v),
         \/ next = bit /\ seenNext = seen
         \/ bit = seen /\ seenNext = seen
         \/ next = bit /\ sync[SYNC_STAGES] # seen /\ seenNext = sync[SYNC_STAGES]
  PROVE  Travels(next, seenNext, new)
<1>1. CASE (next = bit \/ bit = seen) /\ seenNext = seen
  <2>1. CASE new = sync
    <3>1. CASE next = bit
      BY <1>1, <2>1, <3>1
    <3>2. CASE next # bit
      BY <1>1, <2>1, <3>2 DEF Travels
    <3> QED
      BY <3>1, <3>2
  <2>2. ASSUME NEW v \in {bit, next}, new = Shift(sync, v) PROVE Travels(next, seenNext, new)
    BY <1>1, <2>2, ShiftTravels
  <2> QED
    BY <2>1, <2>2
<1>2. CASE next = bit /\ sync[SYNC_STAGES] # seen /\ seenNext = sync[SYNC_STAGES]
  BY <1>2, SeenTravels, ShiftSeen
<1> QED
  BY <1>1, <1>2

LEMMA TravelsStep ==
  ASSUME Types, Types', Handshake, ~reset_a, NEW a \in BOOLEAN, NEW s \in BOOLEAN, Edge(a, s), Turn
  PROVE  Travels(req_t, req_seen, req_sync)' /\ Travels(rsp_t, rsp_seen, rsp_sync)'
<1>0. Travels(req_t, req_seen, req_sync) /\ Travels(rsp_t, rsp_seen, rsp_sync) /\ InFlight
  BY DEF Handshake
<1>1. /\ req_t \in BOOLEAN /\ req_seen \in BOOLEAN /\ rsp_t \in BOOLEAN /\ rsp_seen \in BOOLEAN
      /\ req_t' \in BOOLEAN /\ req_seen' \in BOOLEAN /\ rsp_t' \in BOOLEAN /\ rsp_seen' \in BOOLEAN
      /\ req_sync \in [Stages -> BOOLEAN] /\ rsp_sync \in [Stages -> BOOLEAN]
  BY DEF Types, Bits, Syncs
<1>2. \/ req_t' = req_t /\ req_seen' = req_seen
      \/ req_t = req_seen /\ req_seen' = req_seen
      \/ req_t' = req_t /\ req_sync[SYNC_STAGES] # req_seen /\ req_seen' = req_sync[SYNC_STAGES]
  BY <1>0 DEF Turn, Start, Finish, ClientStays, ServerStays, Capture, s_req, ReqS, Return, InFlight
<1>3. \/ rsp_t' = rsp_t /\ rsp_seen' = rsp_seen
      \/ rsp_t = rsp_seen /\ rsp_seen' = rsp_seen
      \/ rsp_t' = rsp_t /\ rsp_sync[SYNC_STAGES] # rsp_seen /\ rsp_seen' = rsp_sync[SYNC_STAGES]
  BY DEF Turn, Start, Finish, ClientStays, ServerStays, Capture, RspA, Return, Asked, Reading
<1>4. Travels(req_t, req_seen, req_sync)'
  BY <1>0, <1>1, <1>2, ReqMove, BitMove
<1>5. Travels(rsp_t, rsp_seen, rsp_sync)'
  BY <1>0, <1>1, <1>3, RspMove, BitMove
<1> QED
  BY <1>4, <1>5

LEMMA InFlightStep ==
  ASSUME Types, Types', InFlight, Turn
  PROVE  InFlight'
<1>1. /\ req_t \in BOOLEAN /\ req_seen \in BOOLEAN /\ rsp_t \in BOOLEAN /\ rsp_seen \in BOOLEAN
      /\ a_busy \in BOOLEAN /\ rd_wait \in BOOLEAN /\ a_done \in BOOLEAN /\ a_done' \in BOOLEAN
  BY DEF Types, Bits
<1>2. CASE Start /\ ServerStays
  BY <1>1, <1>2 DEF Start, ServerStays, InFlight, Asked, Reading, Answered
<1>3. CASE Finish /\ ServerStays /\ Answered
  <2>1. rsp_seen' = rsp_t
    BY <1>1, <1>3, Types' DEF Finish, Answered, Types, Bits
  <2> QED
    BY <1>1, <1>3, <2>1 DEF Finish, ServerStays, InFlight, Asked, Reading, Answered
<1>4. CASE ClientStays /\ Capture /\ Asked /\ a_busy /\ ReqS = req_t
  <2>1. fields.n \in 1 .. 4 /\ fields.we \in BOOLEAN
    BY XbridgeAssumption DEF Types, Data
  <2>2. req_seen' = req_t /\ req_t' = req_t /\ rsp_seen' = rsp_seen /\ a_busy' /\ ~a_done' /\ fields' = fields
    BY <1>1, <1>4 DEF ClientStays, Capture, InFlight
  <2>3. CASE fields.we
    BY <1>1, <1>4, <2>2, <2>3 DEF Capture, Asked, Reading, Answered, InFlight
  <2>4. CASE ~fields.we
    BY <1>1, <1>4, <2>1, <2>2, <2>4 DEF Capture, Asked, Reading, Answered, InFlight
  <2> QED
    BY <2>1, <2>3, <2>4
<1>5. CASE ClientStays /\ Return /\ Reading /\ a_busy
  <2>1. fields.n \in 1 .. 4 /\ beat \in 0 .. 3
    BY XbridgeAssumption DEF Types, Data, Beats
  <2>2. ~fields.we /\ pending \in 1 .. 4 /\ beat + pending = fields.n
    BY <1>5 DEF Return, InFlight
  <2>3. /\ req_seen' = req_t' /\ rsp_seen' = rsp_seen /\ a_busy' /\ ~a_done' /\ fields' = fields
    BY <1>1, <1>5 DEF ClientStays, Return, InFlight, Reading
  <2>4. CASE pending = 1
    BY <1>1, <1>5, <2>3, <2>4 DEF Return, InFlight, Asked, Reading, Answered
  <2>5. CASE pending # 1
    <3>1. beat' = beat + 1 /\ pending' = pending - 1 /\ rd_wait' /\ rsp_t' = rsp_t
      <4>1. /\ beat' = (beat + 1) % 4 /\ pending' = pending - 1
            /\ rd_wait' = (pending # 1) /\ rsp_t' = IF pending = 1 THEN ~rsp_t ELSE rsp_t
        BY <1>5 DEF Return
      <4>2. (beat + 1) % 4 = beat + 1
        BY <2>1, <2>2, <2>5
      <4> QED
        BY <2>5, <4>1, <4>2
    <3> QED
      BY <1>5, <2>1, <2>2, <2>3, <2>5, <3>1 DEF Reading, InFlight
  <2> QED
    BY <2>4, <2>5
<1>6. CASE ClientStays /\ ServerStays
  BY <1>1, <1>6 DEF ClientStays, ServerStays, InFlight, Asked, Reading, Answered
<1> QED
  BY <1>2, <1>3, <1>4, <1>5, <1>6 DEF Turn

(***************************************************************************)
(* Resets.                                                                 *)
(***************************************************************************)
LEMMA ClientCleared ==
  ASSUME reset_a, NEW s \in BOOLEAN, Edge(TRUE, s)
  PROVE  ClientClear'
  BY DEF Edge, ClientEdge, ResetClient, SyncAnswer, ClientClear

LEMMA ServerCleared ==
  ASSUME reset_s, NEW a \in BOOLEAN, Edge(a, TRUE)
  PROVE  ServerClear'
  BY DEF Edge, ServerEdge, ResetServer, SyncRequest, ServerClear

LEMMA ClientClearKept ==
  ASSUME ClientClear, UNCHANGED clientRegs, UNCHANGED rsp_sync
  PROVE  ClientClear'
  BY DEF ClientClear, clientRegs

LEMMA ServerClearKept ==
  ASSUME ServerClear, UNCHANGED serverRegs, UNCHANGED req_sync
  PROVE  ServerClear'
  BY DEF ServerClear, serverRegs

LEMMA ResetsStep ==
  ASSUME Types, Types', Handshake, NEW a \in BOOLEAN, NEW s \in BOOLEAN, Edge(a, s)
  PROVE  Resets' /\ (reset_a /\ ~reset_a' => ClientClear' /\ ServerClear')
<1>0. Resets
  BY DEF Handshake
<1> DEFINE Set == [i \in 1 .. 2 |-> TRUE]
            Moved == Shift(reset_s_sync, FALSE)
<1>1. /\ reset_s_sync' = reset_s_sync \/ reset_s_sync' = Set \/ reset_s_sync' = Moved
      /\ ~s => reset_s_sync' = reset_s_sync
      /\ reset_a /\ reset_a' /\ s => reset_s_sync' = Set
      /\ ~reset_a /\ ~reset_a' /\ s => reset_s_sync' = Moved
  <2>1. CASE ~s
    BY <2>1 DEF Edge, SyncReset
  <2>2. CASE s
    <3>1. PICK r \in {reset_a, reset_a'} : reset_s_sync' = IF r THEN Set ELSE Moved
      BY <2>2 DEF Edge, SyncReset
    <3> HIDE DEF Set, Moved
    <3> QED
      BY <2>2, <3>1
  <2> QED
    BY <2>1, <2>2
<1>2. reset_s_sync \in [1 .. 2 -> BOOLEAN]
  BY DEF Types, ResetSync
<1>3. Set[1] /\ Set[2] /\ ~Moved[1] /\ Moved[2] = reset_s_sync[1]
  BY <1>2 DEF Shift
<1> HIDE DEF Set, Moved
<1>4. /\ a \/ UNCHANGED <<clientRegs, rsp_sync>>
      /\ s \/ UNCHANGED <<serverRegs, req_sync>>
  BY DEF Edge
<1>5. /\ ~reset_a => ~reset_a'
      /\ reset_a /\ ~reset_a' => a /\ "a" \in cleared /\ "s" \in cleared
      /\ reset_a => /\ "a" \in cleared' => a \/ "a" \in cleared
                    /\ "s" \in cleared' => s \/ "s" \in cleared
  BY DEF Edge, ReleaseA, Clear
<1>6. CASE reset_a
  <2>1. reset_s_sync[1] /\ reset_s
    BY <1>0, <1>6 DEF Resets, reset_s
  <2>2. ("a" \in cleared' \/ ~reset_a') => ClientClear'
    BY <1>0, <1>4, <1>5, <1>6, ClientCleared, ClientClearKept DEF Resets
  <2>3. ("s" \in cleared' \/ ~reset_a') => ServerClear'
    BY <1>0, <1>4, <1>5, <1>6, <2>1, ServerCleared, ServerClearKept DEF Resets
  <2>4. reset_a' => reset_s_sync'[1] /\ reset_s_sync'[2]
    BY <1>0, <1>1, <1>3, <1>6, <2>1 DEF Resets, reset_s
  <2>5. reset_s_sync'[1] => reset_s_sync'[2]
    BY <1>1, <1>3, <2>1 DEF reset_s
  <2> QED
    BY <2>2, <2>3, <2>4, <2>5 DEF Resets
<1>7. CASE ~reset_a
  <2>1. ~reset_a'
    BY <1>5, <1>7
  <2>2. reset_s_sync'[1] => reset_s_sync'[2]
    BY <1>0, <1>1, <1>3, <1>7, <2>1 DEF Resets
  <2>3. reset_s' => reset_s
    BY <1>0, <1>1, <1>3, <1>7, <2>1 DEF Resets, reset_s
  <2>4. reset_s' => ServerClear'
    BY <1>0, <1>4, <1>7, <2>3, ServerCleared, ServerClearKept DEF Resets
  <2> QED
    BY <1>7, <2>1, <2>2, <2>4 DEF Resets
<1> QED
  BY <1>6, <1>7

(***************************************************************************)
(* The handshake.                                                          *)
(***************************************************************************)
LEMMA HandshakeStep == Types /\ Handshake /\ [Next]_vars => Handshake'
<1> SUFFICES ASSUME Types, Handshake, [Next]_vars PROVE Handshake'
  OBVIOUS
<1>0. Types'
  BY TypesStep
<1>1. CASE UNCHANGED vars
  BY <1>1 DEF Handshake, Resets, ClientClear, ServerClear, Travels, InFlight, Asked, Reading,
              Answered, reset_s, vars, clientRegs, serverRegs, resetRegs
<1>2. CASE AssertReset
  BY <1>2 DEF AssertReset, Handshake, Resets
<1>3. ASSUME NEW a \in BOOLEAN, NEW s \in BOOLEAN, Edge(a, s) PROVE Handshake'
  <2>1. Resets' /\ (reset_a /\ ~reset_a' => ClientClear' /\ ServerClear')
    BY <1>0, <1>3, ResetsStep
  <2>2. CASE reset_a
    <3>1. ClientClear' /\ ServerClear' =>
            Travels(req_t, req_seen, req_sync)' /\ Travels(rsp_t, rsp_seen, rsp_sync)' /\ InFlight'
      BY <1>0 DEF ClientClear, ServerClear, Travels, InFlight, Types, Bits, Syncs
    <3> QED
      BY <2>1, <2>2, <3>1 DEF Handshake
  <2>3. CASE ~reset_a
    <3>1. Turn
      BY <1>3, <2>3, TurnTaken
    <3>2. Travels(req_t, req_seen, req_sync)' /\ Travels(rsp_t, rsp_seen, rsp_sync)'
      BY <1>0, <1>3, <2>3, <3>1, TravelsStep
    <3>3. InFlight'
      BY <1>0, <2>3, <3>1, InFlightStep DEF Handshake
    <3> QED
      BY <2>1, <3>2, <3>3 DEF Handshake
  <2> QED
    BY <2>2, <2>3
<1> QED
  BY <1>1, <1>2, <1>3 DEF Next, ClockA, ClockS

\* Whatever the phase of the clocks and whenever a reset comes, the two sides
\* agree on the transaction in flight (the toggles of sdram_xbridge.sv).
THEOREM HandshakeHolds == Spec => []Handshake
<1>1. Init => Types /\ Handshake
  BY TypesInit DEF Init, Handshake, Resets, reset_s
<1>2. Types /\ Handshake /\ [Next]_vars => Types' /\ Handshake'
  BY TypesStep, HandshakeStep
<1> QED
  BY <1>1, <1>2, PTL DEF Spec

(***************************************************************************)
(* A value that crosses the clocks does not move while its bit travels.    *)
(***************************************************************************)
AgesOK == fields_age \in 0 .. 2 /\ rbuf_age \in 0 .. 2

\* By the time the bit reaches the last flip-flop, what it announces has been
\* still for an edge of the clock that reads it.
Settled ==
  ~reset_a => /\ req_t # req_seen /\ ReqS = req_t => fields_age >= 1
              /\ rsp_t # rsp_seen /\ RspA = rsp_t => rbuf_age >= 1
              /\ a_done => rbuf_age >= 1

LEMMA AgesStep ==
  ASSUME AgesOK, NEW a \in BOOLEAN, NEW s \in BOOLEAN, Edge(a, s)
  PROVE  /\ AgesOK'
         /\ fields' = fields => fields_age' >= fields_age /\ (s => fields_age' >= 1)
         /\ rbuf' = rbuf     => rbuf_age' >= rbuf_age /\ (a => rbuf_age' >= 1)
  BY DEF AgesOK, Edge, Ages

\* A bit that has just changed is not yet in the last flip-flop, as there are
\* two at least.
LEMMA NotYetThere ==
  ASSUME NEW bit \in BOOLEAN, NEW v, NEW sync \in [Stages -> BOOLEAN],
         NEW new, \A i \in Stages : sync[i] = bit, new = sync \/ new = Shift(sync, v)
  PROVE  new[SYNC_STAGES] = bit
<1>1. SYNC_STAGES \in Stages /\ SYNC_STAGES - 1 \in Stages /\ SYNC_STAGES # 1
  BY XbridgeAssumption DEF Stages
<1>2. DOMAIN sync = Stages
  OBVIOUS
<1>3. Shift(sync, v)[SYNC_STAGES] = sync[SYNC_STAGES - 1]
  BY <1>1, <1>2 DEF Shift
<1> QED
  BY <1>1, <1>3

LEMMA RequestSettles ==
  ASSUME Types, Types', Handshake, AgesOK, Settled, ~reset_a,
         NEW a \in BOOLEAN, NEW s \in BOOLEAN, Edge(a, s), Turn
  PROVE  (req_t # req_seen /\ ReqS = req_t => fields_age >= 1)'
<1>0. /\ Travels(req_t, req_seen, req_sync) /\ InFlight
      /\ req_t \in BOOLEAN /\ req_seen \in BOOLEAN /\ req_t' \in BOOLEAN /\ req_seen' \in BOOLEAN
      /\ req_sync \in [Stages -> BOOLEAN]
      /\ req_sync' = req_sync \/ \E v \in {req_t, req_t'} : req_sync' = Shift(req_sync, v)
      /\ fields_age \in 0 .. 2 /\ fields_age' \in 0 .. 2
  BY ReqMove, AgesStep DEF Handshake, Types, Bits, Syncs, AgesOK
<1>1. CASE Start
  <2>1. req_t = req_seen /\ req_t' = ~req_t
    BY <1>0, <1>1 DEF Start, InFlight
  <2>2. \A i \in Stages : req_sync[i] = req_t
    BY <1>0, <2>1 DEF Travels
  <2>3. req_sync'[SYNC_STAGES] = req_t
    BY <1>0, <2>2, NotYetThere
  <2> QED
    BY <1>0, <2>1, <2>3 DEF ReqS
<1>2. CASE ~Start
  <2>1. fields' = fields /\ req_t' = req_t
    BY <1>2 DEF Turn, Finish, ClientStays
  <2>2. CASE s
    BY <2>1, <2>2, AgesStep
  <2>3. CASE ~s
    <3>1. req_seen' = req_seen /\ req_sync' = req_sync
      BY <2>3 DEF Edge, serverRegs
    <3> QED
      BY <1>0, <2>1, <3>1, AgesStep DEF Settled, ReqS
  <2> QED
    BY <2>2, <2>3
<1> QED
  BY <1>1, <1>2

LEMMA AnswerSettles ==
  ASSUME Types, Types', Handshake, AgesOK, Settled, ~reset_a,
         NEW a \in BOOLEAN, NEW s \in BOOLEAN, Edge(a, s), Turn
  PROVE  /\ (rsp_t # rsp_seen /\ RspA = rsp_t => rbuf_age >= 1)'
         /\ (a_done => rbuf_age >= 1)'
<1>0. /\ Travels(rsp_t, rsp_seen, rsp_sync) /\ InFlight
      /\ rsp_t \in BOOLEAN /\ rsp_seen \in BOOLEAN /\ rsp_t' \in BOOLEAN /\ rsp_seen' \in BOOLEAN
      /\ rsp_sync \in [Stages -> BOOLEAN] /\ a_done \in BOOLEAN /\ a_done' \in BOOLEAN
      /\ rsp_sync' = rsp_sync \/ \E v \in {rsp_t, rsp_t'} : rsp_sync' = Shift(rsp_sync, v)
      /\ rbuf_age \in 0 .. 2 /\ rbuf_age' \in 0 .. 2
  BY RspMove, AgesStep DEF Handshake, Types, Bits, Syncs, AgesOK
\* The arbiter moves: the answer has not left, or leaves now.
<1>1. CASE ClientStays /\ ((Capture /\ Asked) \/ (Return /\ Reading)) /\ a_busy
  <2>1. rsp_t = rsp_seen /\ ~a_done /\ rsp_seen' = rsp_seen /\ ~a_done'
    BY <1>0, <1>1 DEF Asked, Reading, InFlight, ClientStays
  <2>2. \A i \in Stages : rsp_sync[i] = rsp_t
    BY <1>0, <2>1 DEF Travels
  <2>3. rsp_sync'[SYNC_STAGES] = rsp_t
    BY <1>0, <2>2, NotYetThere
  <2> QED
    BY <1>0, <2>1, <2>3 DEF RspA
<1>2. CASE ServerStays
  <2>1. rbuf' = rbuf /\ rsp_t' = rsp_t
    BY <1>2 DEF ServerStays
  <2>2. CASE a
    BY <2>1, <2>2, AgesStep
  <2>3. CASE ~a
    <3>1. rsp_seen' = rsp_seen /\ a_done' = a_done /\ rsp_sync' = rsp_sync
      BY <2>3 DEF Edge, clientRegs
    <3> QED
      BY <1>0, <2>1, <3>1, AgesStep DEF Settled, RspA
  <2> QED
    BY <2>2, <2>3
<1>3. \/ ClientStays /\ ((Capture /\ Asked) \/ (Return /\ Reading)) /\ a_busy
      \/ ServerStays
  BY DEF Turn
<1> QED
  BY <1>1, <1>2, <1>3

LEMMA SettledStep ==
  ASSUME Types, Types', Handshake, AgesOK, Settled, [Next]_vars
  PROVE  AgesOK' /\ Settled'
<1>1. CASE UNCHANGED vars
  BY <1>1 DEF AgesOK, Settled, ReqS, RspA, vars, clientRegs, serverRegs, resetRegs
<1>2. CASE AssertReset
  BY <1>2 DEF AssertReset, AgesOK, Settled
<1>3. ASSUME NEW a \in BOOLEAN, NEW s \in BOOLEAN, Edge(a, s) PROVE AgesOK' /\ Settled'
  <2>1. AgesOK'
    BY <1>3, AgesStep
  <2>2. CASE reset_a
    <3>1. ~reset_a' => ClientClear' /\ ServerClear'
      BY <1>3, <2>2, ResetsStep
    <3> QED
      BY <2>1, <3>1 DEF ClientClear, ServerClear, Settled, Types, Bits
  <2>3. CASE ~reset_a
    BY <1>3, <2>1, <2>3, TurnTaken, RequestSettles, AnswerSettles DEF Settled
  <2> QED
    BY <2>1, <2>2, <2>3
<1> QED
  BY <1>1, <1>2, <1>3 DEF Next, ClockA, ClockS

\* "They are stable for at least one destination clock when they are used": the
\* fields of a request when the arbiter takes it and the read buffer when the
\* client is told of it, for every number of flip-flops from two on, every phase
\* of the clocks and every reset (s_req and a_done of sdram_xbridge.sv).
THEOREM CrossingsSettle == Spec => []CrossingsSettled
<1> DEFINE Inv == Types /\ Handshake /\ AgesOK /\ Settled
<1>1. Init => Inv
  BY TypesInit DEF Init, Handshake, Resets, reset_s, AgesOK, Settled
<1>2. Inv /\ [Next]_vars => Inv'
  BY TypesStep, HandshakeStep, SettledStep
<1>3. Inv => CrossingsSettled
  <2> SUFFICES ASSUME Inv PROVE CrossingsSettled
    OBVIOUS
  <2>1. s_req /\ ~reset_s => fields_age >= 1
    <3> SUFFICES ASSUME s_req, ~reset_s PROVE fields_age >= 1
      OBVIOUS
    <3>1. ~reset_a /\ Travels(req_t, req_seen, req_sync)
      BY DEF Handshake, Resets, reset_s
    <3>2. req_t # req_seen /\ ReqS = req_t
      BY <3>1, SeenTravels DEF s_req, ReqS, Types, Bits, Syncs
    <3> QED
      BY <3>1, <3>2 DEF Settled
  <2>2. a_done /\ ~reset_a => rbuf_age >= 1
    BY DEF Settled
  <2> QED
    BY <2>1, <2>2 DEF CrossingsSettled
<1> QED
  BY <1>1, <1>2, <1>3, PTL DEF Spec

(***************************************************************************)
(* The port that the client sees.                                          *)
(***************************************************************************)
Got == IF Phase = "reading" THEN beat ELSE 0

Out == IF a_done /\ ~reset_a
         THEN [done |-> TRUE, data |-> IF fields.we THEN <<>>
                                       ELSE [i \in 0 .. fields.n - 1 |-> rbuf[i]]]
         ELSE [done |-> FALSE]

LEMMA PortInit == Init => Port!Init
<1> SUFFICES ASSUME Init PROVE Port!Init
  OBVIOUS
<1>1. Phase = "idle" /\ fields \in Txns /\ ~a_done
  BY XbridgeAssumption DEF Init, Phase
<1>2. rbuf \in Port!Buffer
  BY XbridgeAssumption DEF Init, Port!Buffer, Port!Slots
<1> QED
  BY <1>1, <1>2 DEF Port!Init, Port!NoAnswer

\* In a reset the port is idle and nothing is told to the client.
LEMMA PortReset ==
  ASSUME Types, Types', [Next]_vars, reset_a'  \/ reset_a
  PROVE  [Port!Next]_Port!portVars
<1>1. reset_a /\ ~reset_a' => ~a_busy' /\ ~a_done'
  <2>1. ASSUME NEW a \in BOOLEAN, NEW s \in BOOLEAN, Edge(a, s), reset_a, ~reset_a'
        PROVE  ~a_busy' /\ ~a_done'
    BY <2>1 DEF Edge, ReleaseA, ClientEdge, ResetClient
  <2> QED
    BY <2>1 DEF Next, ClockA, ClockS, AssertReset, vars, resetRegs
<1>2. Phase' = "idle" /\ Out' = [done |-> FALSE]
  BY <1>1 DEF Phase, Out
<1>3. Got' = 0
  BY <1>2 DEF Got
<1>4. fields' \in Txns /\ rbuf' \in Port!Buffer
  BY DEF Types, Data, Beats, Port!Buffer, Port!Slots
<1> QED
  BY <1>2, <1>3, <1>4 DEF Port!Next, Port!Reset, Port!NoAnswer, Got, Out

LEMMA PortTurn ==
  ASSUME Types, Types', Handshake, ~reset_a, ~reset_a', Turn
  PROVE  [Port!Next]_Port!portVars
<1>0. /\ InFlight /\ InFlight'
      /\ fields \in Txns /\ fields' \in Txns /\ fields.n \in 1 .. 4 /\ beat \in 0 .. 3
      /\ a_busy \in BOOLEAN /\ a_done \in BOOLEAN /\ a_done' \in BOOLEAN
      /\ a_busy' \in BOOLEAN /\ rd_wait \in BOOLEAN /\ rd_wait' \in BOOLEAN
  BY InFlightStep, XbridgeAssumption DEF Handshake, Types, Data, Beats, Bits
<1>1. CASE Start /\ ServerStays
  <2>1. Phase = "idle" /\ Got = 0 /\ Got' = 0 /\ Phase' = "asked" /\ Out' = [done |-> FALSE]
    BY <1>0, <1>1 DEF Start, ServerStays, InFlight, Asked, Reading, Answered, Phase, Got, Out
  <2> QED
    BY <1>0, <1>1, <2>1 DEF ServerStays, Port!Next, Port!Start, Port!NoAnswer, Got, Out
<1>2. CASE Finish /\ ServerStays /\ Answered
  <2>1. Phase = "answered" /\ Phase' = "idle" /\ Got = 0 /\ Got' = 0
    BY <1>0, <1>2 DEF Finish, Answered, Phase, Got
  <2>2. fields' = fields /\ rbuf' = rbuf /\ a_done'
    BY <1>2 DEF Finish, ServerStays
  <2>3. Out' = Port!Answer(fields, rbuf)
    BY <2>2 DEF Out, Port!Answer
  <2> QED
    BY <2>1, <2>2, <2>3 DEF Port!Next, Port!Finish, Got, Out
<1>3. CASE ClientStays /\ Capture /\ Asked /\ a_busy /\ ReqS = req_t
  <2>1. ~a_done /\ ~a_done' /\ a_busy' /\ fields' = fields /\ rbuf' = rbuf
    BY <1>0, <1>3 DEF ClientStays, Capture, InFlight
  <2>2. Phase = "asked" /\ Got = 0 /\ Out = [done |-> FALSE] /\ Out' = [done |-> FALSE]
    BY <1>3, <2>1 DEF Asked, Phase, Got, Out
  <2>3. Phase' = IF fields.we THEN "answered" ELSE "reading"
    BY <1>3, <2>1 DEF ClientStays, Capture, Asked, Phase
  <2>4. Got' = 0
    BY <1>3, <2>3 DEF Capture, Got
  <2> QED
    BY <2>1, <2>2, <2>3, <2>4 DEF Port!Next, Port!Capture, Got, Out
<1>4. CASE ClientStays /\ Return /\ Reading /\ a_busy
  <2>1. ~a_done /\ ~a_done' /\ a_busy' /\ fields' = fields /\ req_t' = req_seen'
    BY <1>0, <1>4 DEF ClientStays, Return, InFlight, Reading
  <2>2. Phase = "reading" /\ Got = beat /\ Out = [done |-> FALSE] /\ Out' = [done |-> FALSE]
    BY <1>4, <2>1 DEF Reading, Phase, Got, Out
  <2>3. PICK w \in Word : rbuf' = [rbuf EXCEPT ![beat] = w]
    BY <1>4 DEF Return
  <2>4. pending \in 1 .. 4 /\ beat + pending = fields.n /\ rd_wait
    BY <1>0, <1>4 DEF Return, InFlight
  <2>5. /\ beat' = (beat + 1) % 4
        /\ rd_wait' = (pending # 1)
    BY <1>4 DEF Return
  <2>6. CASE pending = 1
    <3>1. beat + 1 = fields.n /\ Phase' = "answered" /\ Got' = 0
      BY <1>0, <2>1, <2>4, <2>5, <2>6 DEF Phase, Got
    <3> QED
      BY <2>1, <2>2, <2>3, <3>1 DEF Port!Next, Port!Return, Got, Out
  <2>7. CASE pending # 1
    <3>1. beat + 1 # fields.n /\ (beat + 1) % 4 = beat + 1
      BY <1>0, <2>4, <2>7
    <3>2. Phase' = "reading" /\ Got' = beat + 1
      BY <2>1, <2>5, <2>7, <3>1 DEF Phase, Got
    <3> QED
      BY <2>1, <2>2, <2>3, <3>1, <3>2 DEF Port!Next, Port!Return, Got, Out
  <2> QED
    BY <2>6, <2>7
<1>5. CASE ClientStays /\ ServerStays
  <2>1. Phase' = Phase /\ Got' = Got /\ fields' = fields /\ rbuf' = rbuf
    BY <1>0, <1>5 DEF ClientStays, ServerStays, Phase, Got
  <2>2. CASE a_done' = a_done
    <3>1. Out' = Out
      BY <2>1, <2>2 DEF Out
    <3> QED
      BY <2>1, <3>1 DEF Port!portVars, Got, Out
  <2>3. CASE ~a_done'
    <3>1. Out' = [done |-> FALSE]
      BY <2>3 DEF Out
    <3> QED
      BY <2>1, <3>1 DEF Port!Next, Port!Rest, Port!NoAnswer, Got, Out
  <2> QED
    BY <1>5, <2>2, <2>3 DEF ClientStays
<1> QED
  BY <1>1, <1>2, <1>3, <1>4, <1>5 DEF Turn

\* "Toggles once per transaction": for every number of synchronizer stages and
\* every phase of the clocks, the bridge performs each transaction exactly once.
THEOREM XbridgeImplementsTxnPort == Spec => ImplementsTxnPort
<1>1. Init => Port!Init
  BY PortInit
<1>2. Types /\ Types' /\ Handshake /\ [Next]_vars => [Port!Next]_Port!portVars
  <2> SUFFICES ASSUME Types, Types', Handshake, [Next]_vars PROVE [Port!Next]_Port!portVars
    OBVIOUS
  <2>1. CASE reset_a \/ reset_a'
    BY <2>1, PortReset
  <2>2. CASE ~reset_a /\ ~reset_a' /\ ~UNCHANGED vars
    <3>1. PICK a \in BOOLEAN, s \in BOOLEAN : Edge(a, s)
      BY <2>2 DEF Next, ClockA, ClockS, AssertReset
    <3>2. Turn
      BY <2>2, <3>1, TurnTaken
    <3> QED
      BY <2>2, <3>2, PortTurn
  <2>3. CASE UNCHANGED vars
    BY <2>3 DEF vars, clientRegs, serverRegs, resetRegs, Port!portVars, Phase
  <2> QED
    BY <2>1, <2>2, <2>3
<1>3. Init => Types /\ Handshake
  BY TypesInit DEF Init, Handshake, Resets, reset_s
<1>4. Types /\ Handshake /\ [Next]_vars => Types' /\ Handshake'
  BY TypesStep, HandshakeStep
<1> QED
  BY <1>1, <1>2, <1>3, <1>4, PTL DEF Spec, ImplementsTxnPort, Port!Spec

(***************************************************************************)
(* The two masters of a bridge never take each other's answers: for every  *)
(* set of transactions, any phase of the clocks and any number of          *)
(* synchronizer stages, with resets of the machine, the video and the      *)
(* memory at any moment.                                                   *)
(***************************************************************************)
MuxBits == /\ a_busy \in BOOLEAN /\ a_done \in BOOLEAN /\ reset_a \in BOOLEAN
           /\ owner \in BOOLEAN /\ xfer_read \in BOOLEAN

\* The front end is in the middle of an access.
FrontBusy == cpu_state \in {"ISSUE_RD", "ISSUE_WR", "WAIT_RD"}

\* It works for the one bus cycle there is, or for none after a reset, and so
\* never asks together with cpu_mem_port.
OneCycle == FrontBusy => strobe = InReset \/ (StrobeOf(EgaTxns) /\ memory_strobe)

\* A reset of the memory finds and keeps the front end at rest.
RestsInReset == reset_a => cpu_state = "IDLE"

MuxInv == MuxBits /\ OneCycle /\ RestsInReset /\ AnswersOwn

LEMMA StrobeKinds == NoStrobe # InReset
<1>1. NoStrobe.kind = "none" /\ InReset.kind = "reset"
  BY DEF NoStrobe, InReset
<1> QED
  BY <1>1

\* The masters exclude each other.
LEMMA OneAsks ==
  ASSUME OneCycle, NEW hit \in BOOLEAN, a1_start
  PROVE  ~a0_start(hit)
<1>1. strobe = InReset \/ StrobeOf(EgaTxns)
  BY DEF OneCycle, FrontBusy, a1_start
<1>2. ~StrobeOf(PortTxns)
  BY <1>1, MastersAssumption DEF StrobeOf
<1> QED
  BY <1>2 DEF a0_start, accept_read, accept_write, accept_early, cmd_active

\* An edge outside of a reset leaves a transaction in flight, with its fields, or
\* ends it, or starts one when there is none.
LEMMA BridgeStep ==
  ASSUME MuxBits, ~reset_a, ClientEdge
  PROVE  /\ a_busy' \in BOOLEAN /\ a_done' \in BOOLEAN
         /\ a_busy => (a_busy' \/ a_done') /\ fields' = fields
         /\ ~a_busy => a_done' = FALSE
<1>1. CASE Start
  BY <1>1 DEF Start, MuxBits
<1>2. CASE Finish
  BY <1>2 DEF Finish, MuxBits
<1>3. CASE Rest
  BY <1>3 DEF Rest, MuxBits
<1> QED
  BY <1>1, <1>2, <1>3 DEF ClientEdge

(***************************************************************************)
(* A chipset clock of the masters, outside of a reset of the memory.       *)
(***************************************************************************)
LEMMA FrontEndStep ==
  ASSUME MuxBits, OneCycle, ~reset_a, FrontEnd, BusNext
  PROVE  OneCycle'
<1> SUFFICES ASSUME FrontBusy' PROVE strobe' = InReset \/ (StrobeOf(EgaTxns) /\ memory_strobe)'
  BY DEF OneCycle
<1>1. strobe = InReset \/ (StrobeOf(EgaTxns) /\ memory_strobe)
  BY DEF FrontEnd, FrontBusy, OneCycle, cpu_access
<1>2. cpu_state # "DONE" /\ ~(strobe = InReset /\ cpu_state = "IDLE")
  BY StrobeKinds DEF FrontEnd, FrontBusy, cpu_access, StrobeOf
<1>3. strobe # NoStrobe
  BY <1>1, StrobeKinds DEF StrobeOf
<1>4. ~CycleEnds /\ ~CycleStarts /\ ~ResetEnds
  BY <1>1, <1>2, <1>3, StrobeKinds DEF CycleEnds, CycleStarts, ResetEnds, answered, memory_strobe, InReset
<1>5. strobe' = strobe
  <2>1. strobe.kind \notin {"early", "latched"}
    BY <1>1 DEF memory_strobe, InReset
  <2> QED
    BY <1>4, <2>1 DEF BusNext, CycleGoesOn
<1> QED
  BY <1>1, <1>5 DEF StrobeOf, memory_strobe

\* The mux keeps the owner of the transaction in flight, and names the one that starts.
LEMMA OwnerStep ==
  ASSUME MuxBits, NEW hit \in BOOLEAN, Owner(hit)
  PROVE  /\ owner' \in BOOLEAN
         /\ a_busy => owner' = owner
         /\ a1_start => owner' = TRUE
         /\ ~a_busy /\ a0_start(hit) /\ ~a1_start => owner' = FALSE
<1>1. a1_start \in BOOLEAN /\ m_start(hit) \in BOOLEAN
  BY DEF a1_start, m_start, a0_start
<1>2. a1_start => m_start(hit) /\ ~a_busy
  BY DEF a1_start, m_start
<1> QED
  BY <1>1, <1>2 DEF Owner, MuxBits, m_start

\* The front end waits for a read that it has just handed over or waited for before.
LEMMA FrontEndAnswered ==
  ASSUME MuxBits, ~reset_a, AnswersOwn, ClientEdge, FrontEnd, cpu_state' = "WAIT_RD",
         NEW hit \in BOOLEAN, Owner(hit), Handover(hit)
  PROVE  (a_busy' \/ a_done') /\ owner' /\ fields' = cpu_l'
<1>1. cpu_l' = cpu_l
  BY DEF FrontEnd
<1>2. \/ cpu_state = "ISSUE_RD" /\ ~a_busy
      \/ cpu_state = "WAIT_RD" /\ ~a1_done
  BY DEF FrontEnd
<1>3. CASE cpu_state = "ISSUE_RD" /\ ~a_busy
  <2>1. a1_start /\ m_start(hit) /\ m_txn = cpu_l
    BY <1>3 DEF a1_start, m_start, m_txn
  <2>2. a_busy' /\ fields' = cpu_l
    BY <1>3, <2>1 DEF Handover
  <2>3. owner' = TRUE
    BY <2>1, OwnerStep
  <2> QED
    BY <1>1, <2>2, <2>3
<1>4. CASE cpu_state = "WAIT_RD" /\ ~a1_done
  <2>1. (a_busy \/ a_done) /\ owner /\ fields = cpu_l
    BY <1>4 DEF AnswersOwn
  <2>2. a_busy
    BY <1>4, <2>1 DEF a1_done
  <2>3. (a_busy' \/ a_done') /\ fields' = fields
    BY <2>2, BridgeStep
  <2>4. owner' = owner
    BY <2>2, OwnerStep
  <2> QED
    BY <1>1, <2>1, <2>3, <2>4
<1> QED
  BY <1>2, <1>3, <1>4

\* So does cpu_mem_port.
LEMMA MemPortAnswered ==
  ASSUME MuxBits, ~reset_a, OneCycle, AnswersOwn, ClientEdge,
         NEW hit \in BOOLEAN, MemPort(hit), Owner(hit), Handover(hit), xfer_read'
  PROVE  (a_busy' \/ a_done') /\ ~owner' /\ fields' = xfer'
<1>1. CASE accept_read(hit) \/ accept_early(hit)
  <2>1. a0_start(hit) /\ bridge_free /\ xfer' = strobe.txn
    BY <1>1 DEF a0_start, accept_read, accept_early, MemPort
  <2>2. ~a_busy /\ ~a1_start
    BY <2>1, OneAsks DEF bridge_free
  <2>3. a_busy' /\ fields' = strobe.txn
    BY <2>1, <2>2 DEF Handover, m_start, m_txn
  <2>4. owner' = FALSE
    BY <2>1, <2>2, OwnerStep
  <2> QED
    BY <2>1, <2>3, <2>4
<1>2. CASE ~accept_read(hit) /\ ~accept_early(hit)
  <2>1. xfer_read /\ ~(a0_done /\ xfer_read) /\ xfer' = xfer
    BY <1>2 DEF MemPort
  <2>2. (a_busy \/ a_done) /\ ~owner /\ fields = xfer
    BY <2>1 DEF AnswersOwn
  <2>3. a_busy
    BY <2>1, <2>2 DEF a0_done
  <2>4. (a_busy' \/ a_done') /\ fields' = fields
    BY <2>3, BridgeStep
  <2>5. owner' = owner
    BY <2>3, OwnerStep
  <2> QED
    BY <2>1, <2>2, <2>4, <2>5
<1> QED
  BY <1>1, <1>2

(***************************************************************************)
(* The invariant                                                           *)
(***************************************************************************)
LEMMA MastersStep ==
  ASSUME MuxInv, NEW s \in BOOLEAN, MuxEdge(TRUE, s)
  PROVE  MuxInv'
<1>1. ClientEdge /\ MastersEdge /\ ReleaseA(TRUE)
  BY DEF MuxEdge, Edge
<1>2. MuxBits /\ OneCycle /\ RestsInReset /\ AnswersOwn
  BY DEF MuxInv
<1>3. CASE reset_a
  <2>1. ResetClient /\ SdramResetMasters
    BY <1>1, <1>3 DEF ClientEdge, MastersEdge
  <2>2. reset_a' \in BOOLEAN /\ cpu_state = "IDLE"
    BY <1>1, <1>2, <1>3 DEF ReleaseA, MuxBits, RestsInReset
  <2>3. MuxBits'
    BY <2>1, <2>2 DEF MuxBits, ResetClient, SdramResetMasters
  <2>4. cpu_state' = "IDLE" /\ xfer_read' = FALSE
    BY <2>1, <2>2 DEF SdramResetMasters
  <2> QED
    BY <2>3, <2>4 DEF MuxInv, OneCycle, FrontBusy, RestsInReset, AnswersOwn
<1>4. CASE ~reset_a
  <2>1. PICK hit \in BOOLEAN : MemPort(hit) /\ Owner(hit) /\ Handover(hit)
    BY <1>1, <1>4 DEF MastersEdge
  <2>2. FrontEnd /\ BusNext
    BY <1>1, <1>4 DEF MastersEdge
  <2>3. reset_a' = FALSE
    BY <1>1, <1>2, <1>4 DEF ReleaseA, MuxBits
  <2>4. MuxBits'
    <3>1. a_busy' \in BOOLEAN /\ a_done' \in BOOLEAN
      BY <1>1, <1>2, <1>4, BridgeStep
    <3>2. owner' \in BOOLEAN
      BY <1>2, <2>1, OwnerStep
    <3>3. xfer_read' \in BOOLEAN
      BY <2>1 DEF MemPort
    <3> QED
      BY <2>3, <3>1, <3>2, <3>3 DEF MuxBits
  <2>5. OneCycle'
    BY <1>2, <1>4, <2>2, FrontEndStep
  <2>6. cpu_state' = "WAIT_RD" => (a_busy' \/ a_done') /\ owner' /\ fields' = cpu_l'
    BY <1>1, <1>2, <1>4, <2>1, <2>2, FrontEndAnswered
  <2>7. xfer_read' => (a_busy' \/ a_done') /\ ~owner' /\ fields' = xfer'
    BY <1>1, <1>2, <1>4, <2>1, MemPortAnswered
  <2> QED
    BY <2>3, <2>4, <2>5, <2>6, <2>7 DEF MuxInv, RestsInReset, AnswersOwn
<1> QED
  BY <1>3, <1>4

\* Nothing that the invariant speaks of moves on an edge of clk_s alone.
LEMMA ServerStep ==
  ASSUME MuxInv, NEW s \in BOOLEAN, MuxEdge(FALSE, s)
  PROVE  MuxInv'
<1>1. UNCHANGED <<req_t, rsp_seen, a_busy, a_done, fields>> /\ reset_a' = reset_a
  BY DEF MuxEdge, Edge, clientRegs, ReleaseA
<1>2. UNCHANGED masterVars
  BY DEF MuxEdge
<1> QED
  BY <1>1, <1>2 DEF MuxInv, MuxBits, OneCycle, FrontBusy, RestsInReset, AnswersOwn,
                    StrobeOf, memory_strobe, masterVars

LEMMA ResetStep ==
  ASSUME MuxInv, MachineReset \/ MemoryReset
  PROVE  MuxInv'
<1>1. strobe' = InReset /\ UNCHANGED <<owned, rd_valid, rd_owner, xfer_read, xfer, owner>>
  BY DEF MachineReset, MemoryReset, EndCycle
<1>2. UNCHANGED <<a_busy, a_done, fields>>
  BY DEF MachineReset, MemoryReset, AssertReset, vars, clientRegs
<1>3. CASE MachineReset
  <2>1. reset_a' = reset_a
    BY <1>3 DEF MachineReset, vars, resetRegs
  <2>2. (cpu_state' = "IDLE" /\ cpu_l' = ZeroTxn) \/ UNCHANGED <<cpu_state, cpu_l>>
    BY <1>3 DEF MachineReset, ClearFrontEnd
  <2> QED
    BY <1>1, <1>2, <2>1, <2>2 DEF MuxInv, MuxBits, OneCycle, FrontBusy, RestsInReset, AnswersOwn
<1>4. CASE MemoryReset
  <2>1. reset_a' = TRUE /\ cpu_state' = "IDLE"
    BY <1>4 DEF MemoryReset, AssertReset, ClearFrontEnd
  <2> QED
    BY <1>1, <1>2, <2>1 DEF MuxInv, MuxBits, OneCycle, FrontBusy, RestsInReset, AnswersOwn
<1> QED
  BY <1>3, <1>4

\* Whatever the masters, the clocks and the resets do, a master that waits for a
\* read has its own read in flight.
THEOREM AnswersOwnHolds == MuxSpec => []AnswersOwn
<1>1. MuxInit => MuxInv
  BY DEF MuxInit, Init, MuxInv, MuxBits, OneCycle, FrontBusy, RestsInReset, AnswersOwn
<1>2. MuxInv /\ [MuxNext]_muxVars => MuxInv'
  <2> SUFFICES ASSUME MuxInv, [MuxNext]_muxVars PROVE MuxInv'
    OBVIOUS
  <2>1. ASSUME NEW a \in BOOLEAN, NEW s \in BOOLEAN, MuxEdge(a, s) PROVE MuxInv'
    <3>1. CASE a = TRUE
      BY <2>1, <3>1, MastersStep
    <3>2. CASE a = FALSE
      BY <2>1, <3>2, ServerStep
    <3> QED
      BY <3>1, <3>2
  <2>2. CASE MachineReset \/ MemoryReset
    BY <2>2, ResetStep
  <2>3. CASE UNCHANGED muxVars
    BY <2>3 DEF muxVars, masterVars, vars, clientRegs, resetRegs, MuxInv, MuxBits, OneCycle,
                FrontBusy, RestsInReset, AnswersOwn, StrobeOf, memory_strobe
  <2> QED
    BY <2>1, <2>2, <2>3 DEF MuxNext, MuxClockA, MuxClockS
<1>3. MuxInv => AnswersOwn
  BY DEF MuxInv
<1> QED
  BY <1>1, <1>2, <1>3, PTL DEF MuxSpec

\* Under its two masters the bridge is the bridge that was proved about: they only
\* choose when it starts, and with what.
THEOREM MastersUseBridge == MuxSpec => Spec
<1>1. MuxInit => Init
  BY DEF MuxInit
<1>2. [MuxNext]_muxVars => [Next]_vars
  <2>1. ASSUME NEW a \in BOOLEAN, NEW s \in BOOLEAN, MuxEdge(a, s) PROVE Edge(a, s)
    BY <2>1 DEF MuxEdge
  <2>2. MuxClockA => ClockA
    BY <2>1 DEF MuxClockA, ClockA
  <2>3. MuxClockS => ClockS
    BY <2>1 DEF MuxClockS, ClockS
  <2> QED
    BY <2>2, <2>3 DEF MuxNext, Next, MachineReset, MemoryReset, muxVars
<1> QED
  BY <1>1, <1>2, PTL DEF MuxSpec, Spec
===============================================================================
