-------------------------- MODULE SdramMemoryProofs --------------------------
(***************************************************************************)
(* The controller and the chip implement SerialMemory, for every geometry, *)
(* every timing and every sequence of operations.                          *)
(*                                                                         *)
(* The tables of the controller are a plan: each column command has its    *)
(* edge.  So there is a contents of the array for every edge of the plan   *)
(* (Runs), the first of them the array's own, the last of them `mem' but   *)
(* for the operation that is still held; and a number of words that will   *)
(* have been returned by every edge (Counts), which is the place in `due'  *)
(* of the word captured on it.  MemInv says that both exist.               *)
(***************************************************************************)
EXTENDS SdramBusMemory, SdramBusProofs, FiniteSetTheorems, SequenceTheorems

Edges    == 0 .. COLS
Captures == 0 .. RDQ

(***************************************************************************)
(* The contents of the array at every edge of the plan                     *)
(***************************************************************************)

\* A column command of data c.d and mask c.mask writes the location a of m.
Stored(m, a, c) == [m EXCEPT ![a] = Merge(@, c.d, Lanes \ c.mask)]

\* Where the column c goes when the banks have the rows R open.
Target(c, R) == <<c.ba, R[c.ba], c.col>>

\* H[t] is what the columns in C before the edge t leave: a write changes its
\* location, and between two edges with no write nothing changes.
Runs(H, C, R) ==
  /\ H \in [Edges -> [Locations -> Word]]
  /\ \A c \in C : c.we => H[c.at + 1] = Stored(H[c.at], Target(c, R), c)
  /\ \A s, t \in Edges :
       s <= t /\ (\A c \in C : c.we => c.at < s \/ t <= c.at) => H[s] = H[t]

\* One edge later.
Later(H) == [t \in Edges |-> IF t < COLS THEN H[t + 1] ELSE H[t]]

\* Which word of o goes to a.
WordAt(o, a) == CHOOSE j \in Burst(o.n) : a = Memory!Location(o, j)

\* The contents m with the first k words of the write o in them.
Partly(o, m, k) ==
  [a \in Locations |->
     IF \E i \in Burst(o.n) : i < k /\ a = Memory!Location(o, i)
       THEN Merge(m[a], o.data[WordAt(o, a)], o.be[WordAt(o, a)])
       ELSE m[a]]

\* The plan once the write op has been booked.
Longer(H) ==
  [t \in Edges |-> IF t <= T_RCD THEN H[t] ELSE Partly(op, H[COLS], t - T_RCD)]

LEMMA Plan == COLS \in Nat /\ T_RCD + 4 = COLS /\ T_RCD \in Nat /\ T_RCD >= 1
  BY Times DEF COLS

LEMMA RunsShift ==
  ASSUME NEW H, NEW C, C \subseteq ColumnSlots, NEW R, NEW S, Runs(H, C, R),
         \A c \in C : c.at > 0 => S[c.ba] = R[c.ba]
  PROVE  Runs(Later(H), ShiftSlots(C), S)
<1> DEFINE L == Later(H)
<1>0. /\ \A t \in Edges : t < COLS => t + 1 \in Edges /\ L[t] = H[t + 1]
      /\ L[COLS] = H[COLS] /\ COLS \in Edges /\ L \in [Edges -> [Locations -> Word]]
  BY Plan DEF Runs, Later, Edges
<1>1. ASSUME NEW c \in ShiftSlots(C), c.we PROVE L[c.at + 1] = Stored(L[c.at], Target(c, S), c)
  <2>1. PICK x \in C : /\ x.at > 0 /\ c.at = x.at - 1 /\ c.we = x.we /\ c.ba = x.ba /\ c.col = x.col
                       /\ c.d = x.d /\ c.mask = x.mask
    BY <1>1, ShiftedColumn
  <2>2. x.at \in 0 .. COLS - 1
    BY DEF ColumnSlots
  <2>3. H[x.at + 1] = Stored(H[x.at], Target(x, R), x)
    BY <1>1, <2>1 DEF Runs
  <2>4. L[c.at] = H[x.at]
    BY <1>0, <2>1, <2>2, Plan DEF Edges
  <2>5. L[c.at + 1] = H[x.at + 1]
    BY <1>0, <2>1, <2>2, Plan DEF Edges
  <2>6. Target(c, S) = Target(x, R)
    BY <2>1 DEF Target
  <2> QED
    BY <2>1, <2>3, <2>4, <2>5, <2>6 DEF Stored
<1>2. ASSUME NEW s \in Edges, NEW t \in Edges, s <= t,
             \A c \in ShiftSlots(C) : c.we => c.at < s \/ t <= c.at
      PROVE  L[s] = L[t]
  <2> DEFINE u == IF t < COLS THEN t + 1 ELSE t
  <2>1. CASE s = t
    BY <2>1
  <2>2. CASE s < t
    <3>1. s + 1 \in Edges /\ u \in Edges /\ s + 1 <= u /\ L[s] = H[s + 1] /\ L[t] = H[u]
      BY <1>0, <2>2, Plan DEF Edges
    <3>2. ASSUME NEW x \in C, x.we PROVE x.at < s + 1 \/ u <= x.at
      <4>0. x.at \in 0 .. COLS - 1
        BY DEF ColumnSlots
      <4>1. CASE x.at > 0
        <5>1. PICK c \in ShiftSlots(C) : c.at = x.at - 1 /\ c.we = x.we
          BY <4>1, KeptColumn
        <5>2. x.at - 1 < s \/ t <= x.at - 1
          BY <1>2, <3>2, <5>1
        <5> QED
          BY <4>0, <5>2, Plan DEF Edges
      <4>2. CASE ~(x.at > 0)
        BY <4>0, <4>2, Plan DEF Edges
      <4> QED
        BY <4>1, <4>2
    <3> HIDE DEF L, u
    <3> QED
      BY <3>1, <3>2 DEF Runs
  <2> QED
    BY <1>2, <2>1, <2>2, Plan DEF Edges
<1> HIDE DEF L
<1> QED
  BY <1>0, <1>1, <1>2 DEF Runs, L

(***************************************************************************)
(* A write is booked                                                       *)
(***************************************************************************)

LEMMA ColsAreNat == \A c \in Cols : c \in Nat /\ c \in Int
<1>1. Cols \subseteq Nat
  BY GeometryAssumption
<1> QED
  BY <1>1

\* The locations of an operation are in the array, and no two are the same.
LEMMA OwnLocations ==
  ASSUME op \in Offered \cup {NoOp}, IsAccess(op)
  PROVE  /\ op.n \in 1 .. 4
         /\ \A i \in Burst(op.n) : i \in 0 .. 3 /\ Memory!Location(op, i) \in Locations
         /\ \A i, j \in Burst(op.n) : Memory!Location(op, i) = Memory!Location(op, j) => i = j
         /\ \A i \in Burst(op.n) : WordAt(op, Memory!Location(op, i)) = i
<1>1. /\ op.n \in 1 .. 4 /\ op.bank \in Banks /\ op.row \in Rows
      /\ \A i \in Burst(op.n) : op.col + i \in Cols
  BY OpFields
<1>2. 0 \in Burst(op.n) /\ \A i \in Burst(op.n) : i \in 0 .. 3
  BY <1>1 DEF Burst
<1>3. op.col \in Int
  <2>1. IsRequest(op)
    BY OfferedAssumption DEF NoOp, Refresh, IsAccess
  <2>2. op.col \in Cols
    BY <2>1 DEF IsRequest, Reads, Writes
  <2> QED
    BY <2>2, ColsAreNat
<1>4. \A i \in Burst(op.n) : Memory!Location(op, i) \in Locations
  BY <1>1 DEF Memory!Location, Locations
<1>5. ASSUME NEW i \in Burst(op.n), NEW j \in Burst(op.n), Memory!Location(op, i) = Memory!Location(op, j)
      PROVE  i = j
  BY <1>2, <1>3, <1>5 DEF Memory!Location
<1>6. ASSUME NEW i \in Burst(op.n) PROVE WordAt(op, Memory!Location(op, i)) = i
  BY <1>5 DEF WordAt
<1> QED
  BY <1>1, <1>2, <1>4, <1>5, <1>6

LEMMA PartlyType ==
  ASSUME op \in Offered \cup {NoOp}, op.kind = "write", NEW m \in [Locations -> Word], NEW k
  PROVE  Partly(op, m, k) \in [Locations -> Word]
<1> SUFFICES ASSUME NEW a \in Locations PROVE Partly(op, m, k)[a] \in Word
  BY DEF Partly
<1>0. IsAccess(op)
  BY DEF IsAccess
<1>1. CASE \E i \in Burst(op.n) : i < k /\ a = Memory!Location(op, i)
  <2>1. PICK i \in Burst(op.n) : a = Memory!Location(op, i)
    BY <1>1
  <2>2. WordAt(op, a) = i
    BY <1>0, <2>1, OwnLocations
  <2>3. Partly(op, m, k)[a] = Merge(m[a], op.data[i], op.be[i])
    BY <1>1, <2>2 DEF Partly
  <2>4. op.data[i] \in Word /\ m[a] \in Word
    BY <1>0, OpFields
  <2> QED
    BY <2>3, <2>4 DEF Merge, Word
<1>2. CASE ~ \E i \in Burst(op.n) : i < k /\ a = Memory!Location(op, i)
  BY <1>2 DEF Partly
<1> QED
  BY <1>1, <1>2

LEMMA PartlyWord ==
  ASSUME op \in Offered \cup {NoOp}, op.kind = "write", NEW m \in [Locations -> Word],
         NEW k \in Burst(op.n)
  PROVE  Partly(op, m, k + 1) = Stored(Partly(op, m, k), Memory!Location(op, k), Column(k))
<1> DEFINE here == Memory!Location(op, k)
<1>0. IsAccess(op)
  BY DEF IsAccess
<1>1. here \in Locations /\ k \in 0 .. 3 /\ op.n \in 1 .. 4
  BY <1>0, OwnLocations
<1>2. Column(k).d = op.data[k] /\ Lanes \ Column(k).mask = op.be[k]
  <2>1. op.be[k] \in SUBSET Lanes
    BY <1>0, OpFields
  <2> QED
    BY <2>1 DEF Column
<1>3. Partly(op, m, k)[here] = m[here]
  BY <1>0, <1>1, OwnLocations DEF Partly
<1>4. Partly(op, m, k + 1)[here] = Merge(m[here], op.data[k], op.be[k])
  <2>1. WordAt(op, here) = k
    BY <1>0, OwnLocations
  <2>2. \E i \in Burst(op.n) : i < k + 1 /\ here = Memory!Location(op, i)
    BY <1>1
  <2> HIDE DEF here
  <2> QED
    BY <1>1, <2>1, <2>2 DEF Partly
<1>5. ASSUME NEW a \in Locations, a # here
      PROVE  Partly(op, m, k + 1)[a] = Partly(op, m, k)[a]
  <2>1. \A i \in Burst(op.n) : a = Memory!Location(op, i) => (i < k + 1 <=> i < k)
    BY <1>0, <1>1, <1>5, OwnLocations
  <2> QED
    BY <2>1 DEF Partly
<1>6. Stored(Partly(op, m, k), here, Column(k)) =
        [a \in Locations |-> IF a = here THEN Merge(m[here], op.data[k], op.be[k])
                                         ELSE Partly(op, m, k)[a]]
  <2>1. Partly(op, m, k) \in [Locations -> Word]
    BY PartlyType
  <2> HIDE DEF here
  <2> QED
    BY <1>1, <1>2, <1>3, <2>1 DEF Stored
<1>7. Partly(op, m, k + 1) = [a \in Locations |-> Partly(op, m, k + 1)[a]]
  BY DEF Partly
<1> HIDE DEF here
<1> QED
  BY <1>1, <1>4, <1>5, <1>6, <1>7 DEF here

LEMMA PartlyAll ==
  ASSUME op \in Offered \cup {NoOp}, op.kind = "write", NEW m \in [Locations -> Word],
         NEW k \in Nat, k >= op.n
  PROVE  Partly(op, m, k) = Memory!Written(op, m) /\ Partly(op, m, 0) = m
<1>0. IsAccess(op)
  BY DEF IsAccess
<1>1. op.n \in 1 .. 4 /\ \A i \in Burst(op.n) : i \in 0 .. 3 /\ i < k /\ ~(i < 0)
  BY <1>0, OwnLocations DEF Burst
<1>2. Partly(op, m, 0) = m
  BY <1>1 DEF Partly
<1>3. Partly(op, m, k) = Memory!Written(op, m)
  <2>1. DOMAIN m = Locations
    OBVIOUS
  <2>2. Memory!Written(op, m) =
          [a \in Locations |-> IF \E i \in Burst(op.n) : a = Memory!Location(op, i)
                                 THEN Merge(m[a], op.data[WordAt(op, a)], op.be[WordAt(op, a)])
                                 ELSE m[a]]
    <3>1. Memory!Written(op, m) =
            [a \in DOMAIN m |->
              IF \E i \in Burst(op.n) : a = Memory!Location(op, i)
                THEN LET i == CHOOSE j \in Burst(op.n) : a = Memory!Location(op, j)
                     IN  Merge(m[a], op.data[i], op.be[i])
                ELSE m[a]]
      BY Zenon DEF Memory!Written, Memory!Burst, Burst, Memory!Merge, Merge, Memory!Lanes, Lanes
    <3> QED
      BY <2>1, <3>1, Zenon DEF WordAt
  <2> QED
    BY <1>1, <2>2 DEF Partly
<1> QED
  BY <1>2, <1>3

LEMMA RunsBooked ==
  ASSUME op \in Offered \cup {NoOp}, op.kind = "write",
         NEW H, NEW C, C \subseteq ColumnSlots, NEW R, Runs(H, C, R),
         \A c \in C : c.at < T_RCD, R[op.bank] = op.row
  PROVE  /\ Runs(Longer(H), C \cup NewColumns, R)
         /\ Longer(H)[COLS] = Memory!Written(op, H[COLS])
         /\ \A t \in 0 .. T_RCD : Longer(H)[t] = H[t]
<1> DEFINE L == Longer(H)
           M == H[COLS]
<1>0. IsAccess(op)
  BY DEF IsAccess
<1>1. op.n \in 1 .. 4 /\ T_RCD \in Edges /\ COLS \in Edges /\ 0 \in Burst(op.n)
  BY <1>0, OwnLocations, Plan DEF Edges, Burst
<1>2. H \in [Edges -> [Locations -> Word]] /\ M \in [Locations -> Word] /\ H[T_RCD] = M
  <2>1. \A c \in C : c.at < T_RCD \/ COLS <= c.at
    OBVIOUS
  <2>2. H[T_RCD] = H[COLS]
    BY <1>1, <2>1, Plan DEF Runs
  <2> QED
    BY <1>1, <2>2 DEF Runs
<1>3. \A k \in 0 .. 4 : T_RCD + k \in Edges /\ L[T_RCD + k] = Partly(op, M, k)
  <2>1. Partly(op, M, 0) = M
    BY <1>1, <1>2, PartlyAll
  <2>2. ASSUME NEW k \in 0 .. 4 PROVE T_RCD + k \in Edges /\ L[T_RCD + k] = Partly(op, M, k)
    <3>1. T_RCD + k \in Edges /\ (T_RCD + k <= T_RCD <=> k = 0) /\ (T_RCD + k) - T_RCD = k
      BY Plan DEF Edges
    <3>2. CASE k = 0
      BY <1>2, <2>1, <3>1, <3>2, Plan DEF Longer
    <3>3. CASE k # 0
      BY <3>1, <3>3 DEF Longer
    <3> QED
      BY <3>2, <3>3
  <2> QED
    BY <2>2
<1>4. \A t \in 0 .. T_RCD : t \in Edges /\ L[t] = H[t]
  BY Plan DEF Longer, Edges
<1>5. L \in [Edges -> [Locations -> Word]]
  BY <1>2, PartlyType DEF Longer
<1>6. L[COLS] = Memory!Written(op, M)
  BY <1>1, <1>2, <1>3, PartlyAll, Plan
<1>7. ASSUME NEW c \in C \cup NewColumns, c.we
      PROVE  L[c.at + 1] = Stored(L[c.at], Target(c, R), c)
  <2>1. CASE c \in C
    <3>1. c.at \in 0 .. T_RCD /\ c.at + 1 \in 0 .. T_RCD
      BY <2>1, Plan DEF ColumnSlots
    <3>2. H[c.at + 1] = Stored(H[c.at], Target(c, R), c)
      BY <1>7, <2>1 DEF Runs
    <3> QED
      BY <1>4, <3>1, <3>2
  <2>2. ASSUME NEW i \in Burst(op.n), c = Column(i)
        PROVE  L[c.at + 1] = Stored(L[c.at], Target(c, R), c)
    <3>1. i \in 0 .. 3 /\ c.at = T_RCD + i
      BY <1>0, <2>2, OwnLocations, BookedColumns
    <3>2. Target(c, R) = Memory!Location(op, i)
      BY <2>2 DEF Target, Column, Memory!Location
    <3>3. L[c.at] = Partly(op, M, i)
      BY <1>3, <3>1
    <3>4. L[c.at + 1] = Partly(op, M, i + 1)
      <4>1. i + 1 \in 0 .. 4 /\ c.at + 1 = T_RCD + (i + 1)
        BY <3>1, Plan
      <4> QED
        BY <1>3, <4>1
    <3> HIDE DEF L, M
    <3> QED
      BY <1>2, <2>2, <3>2, <3>3, <3>4, PartlyWord
  <2> QED
    BY <2>1, <2>2 DEF NewColumns
<1>8. ASSUME NEW s \in Edges, NEW t \in Edges, s <= t,
             \A c \in C \cup NewColumns : c.we => c.at < s \/ t <= c.at
      PROVE  L[s] = L[t]
  <2>1. CASE t <= T_RCD
    <3>1. s \in 0 .. T_RCD /\ t \in 0 .. T_RCD
      BY <1>8, <2>1, Plan DEF Edges
    <3>2. H[s] = H[t]
      BY <1>8 DEF Runs
    <3> QED
      BY <1>4, <3>1, <3>2
  <2>2. CASE t > T_RCD
    <3>1. \A i \in Burst(op.n) : T_RCD + i < s \/ t <= T_RCD + i
      BY <1>0, <1>8, BookedColumns DEF NewColumns
    <3>2. T_RCD < s
      BY <1>1, <2>2, <3>1, Plan DEF Edges
    <3>3. PICK j \in 1 .. 4, k \in 1 .. 4 : s = T_RCD + j /\ t = T_RCD + k /\ j <= k
      <4>1. s - T_RCD \in 1 .. 4 /\ t - T_RCD \in 1 .. 4
        BY <1>8, <2>2, <3>2, Plan DEF Edges
      <4> QED
        BY <1>8, <4>1, Plan DEF Edges
    <3>4. CASE j >= op.n
      BY <1>1, <1>2, <1>3, <3>3, <3>4, PartlyAll
    <3>5. CASE j < op.n
      <4>1. j \in Burst(op.n)
        BY <1>1, <3>5 DEF Burst
      <4>2. s = t
        BY <3>1, <3>3, <4>1, Plan
      <4> QED
        BY <4>2
    <3> QED
      BY <1>1, <3>4, <3>5
  <2> QED
    BY <2>1, <2>2, Plan DEF Edges
<1> HIDE DEF L
<1> QED
  BY <1>4, <1>5, <1>6, <1>7, <1>8 DEF Runs, L

(***************************************************************************)
(* The words returned by every edge of the plan                            *)
(***************************************************************************)

\* K[t] words come back on the edges before t: the word captured on the edge
\* q.at is the one at place K[q.at] + 1.
Counts(K, Q) ==
  /\ K \in [Captures -> Nat] /\ K[0] = 0
  /\ \A q \in Q : K[q.at + 1] = K[q.at] + 1
  /\ \A s, t \in Captures : s <= t => K[s] <= K[t]
  /\ \A s, t \in Captures :
       s <= t /\ (\A q \in Q : q.at < s \/ t <= q.at) => K[s] = K[t]

\* No two captures share an edge, and each is counted.
Sized(K, Q) ==
  /\ \A q, r \in Q : q.at = r.at => q = r
  /\ IsFiniteSet(Q) /\ Cardinality(Q) = K[RDQ]

\* One edge later.
Advance(K) == [t \in Captures |-> (IF t < RDQ THEN K[t + 1] ELSE K[t]) - K[1]]

\* The edge on which the first word of a read booked now is captured.
FirstCapture == T_RCD + RDD

Further(k) == IF k <= op.n THEN k ELSE op.n

\* The counts once the read op has been booked.
More(K) ==
  [t \in Captures |-> IF t <= FirstCapture THEN K[t]
                                           ELSE K[RDQ] + Further(t - FirstCapture)]

LEMMA CapturePlan ==
  /\ RDQ \in Nat /\ FirstCapture \in Nat /\ FirstCapture + 4 = RDQ /\ FirstCapture >= 1
  /\ RDD \in Nat /\ RDD >= 3
  BY Times, CtrlAssumption, ReadDelayAssumption, TimingAssumption DEF RDQ, FirstCapture

LEMMA KeptCapture ==
  ASSUME NEW S, S \subseteq CaptureSlots, NEW x \in S, x.at > 0
  PROVE  \E s \in ShiftSlots(S) : s.at = x.at - 1 /\ s.tag = x.tag /\ s.last = x.last
<1>1. [x EXCEPT !.at = x.at - 1] \in ShiftSlots(S)
  BY DEF ShiftSlots
<1> QED
  BY <1>1 DEF CaptureSlots

LEMMA ShiftedCapture ==
  ASSUME NEW S, S \subseteq CaptureSlots, NEW s \in ShiftSlots(S)
  PROVE  \E x \in S : x.at > 0 /\ s.at = x.at - 1 /\ s.tag = x.tag /\ s.last = x.last
<1>1. PICK x \in S : x.at > 0 /\ s = [x EXCEPT !.at = x.at - 1]
  BY DEF ShiftSlots
<1> QED
  BY <1>1 DEF CaptureSlots

\* The capture that is due, if there is one.
LEMMA CountsDue ==
  ASSUME NEW K, NEW Q, Q \subseteq CaptureSlots, Counts(K, Q)
  PROVE  K[1] = IF \E q \in Q : q.at = 0 THEN 1 ELSE 0
<1>0. 0 \in Captures /\ 1 \in Captures /\ \A q \in Q : q.at \in Nat
  BY CapturePlan DEF Captures, CaptureSlots
<1>1. CASE \E q \in Q : q.at = 0
  BY <1>0, <1>1 DEF Counts
<1>2. CASE ~ \E q \in Q : q.at = 0
  <2>1. \A q \in Q : q.at < 0 \/ 1 <= q.at
    BY <1>0, <1>2
  <2> QED
    BY <1>0, <1>2, <2>1 DEF Counts
<1> QED
  BY <1>1, <1>2

LEMMA CountsShift ==
  ASSUME NEW K, NEW Q, Q \subseteq CaptureSlots, Counts(K, Q)
  PROVE  Counts(Advance(K), ShiftSlots(Q)) /\ Advance(K)[RDQ] = K[RDQ] - K[1]
<1> DEFINE L == Advance(K)
<1>0. /\ 0 \in Captures /\ 1 \in Captures /\ RDQ \in Captures
      /\ \A t \in Captures : t < RDQ => t + 1 \in Captures /\ L[t] = K[t + 1] - K[1]
      /\ L[RDQ] = K[RDQ] - K[1]
      /\ \A t \in Captures : K[t] \in Nat
  BY CapturePlan DEF Counts, Advance, Captures
<1>1. L \in [Captures -> Nat] /\ L[0] = 0
  <2>1. ASSUME NEW t \in Captures PROVE L[t] \in Nat
    <3>1. CASE t < RDQ
      <4>1. t + 1 \in Captures /\ 1 <= t + 1
        BY <3>1, CapturePlan DEF Captures
      <4>2. K[1] <= K[t + 1]
        BY <1>0, <4>1 DEF Counts
      <4> QED
        BY <1>0, <3>1, <4>1, <4>2
    <3>2. CASE t = RDQ
      <4>1. K[1] <= K[RDQ]
        BY <1>0, CapturePlan DEF Counts
      <4> QED
        BY <1>0, <3>2, <4>1
    <3> QED
      BY <3>1, <3>2, CapturePlan DEF Captures
  <2>2. L[0] = 0
    BY <1>0, CapturePlan
  <2> QED
    BY <2>1, <2>2 DEF Advance
<1>2. ASSUME NEW s \in ShiftSlots(Q) PROVE L[s.at + 1] = L[s.at] + 1
  <2>1. PICK x \in Q : x.at > 0 /\ s.at = x.at - 1
    BY ShiftedCapture
  <2>2. x.at \in 0 .. RDQ - 1 /\ K[x.at + 1] = K[x.at] + 1
    BY DEF CaptureSlots, Counts
  <2>3. /\ s.at \in Captures /\ s.at + 1 \in Captures /\ s.at < RDQ /\ s.at + 1 = x.at
        /\ s.at + 1 < RDQ /\ (s.at + 1) + 1 = x.at + 1 /\ x.at \in Captures /\ x.at + 1 \in Captures
    BY <2>1, <2>2, CapturePlan DEF Captures
  <2>4. L[s.at] = K[x.at] - K[1] /\ L[s.at + 1] = K[x.at + 1] - K[1]
    BY <1>0, <2>3
  <2> QED
    BY <1>0, <2>2, <2>3, <2>4
<1>3. ASSUME NEW s \in Captures, NEW t \in Captures, s <= t
      PROVE  /\ L[s] <= L[t]
             /\ (\A q \in ShiftSlots(Q) : q.at < s \/ t <= q.at) => L[s] = L[t]
  <2> DEFINE u == IF t < RDQ THEN t + 1 ELSE t
  <2>1. CASE s = t
    BY <1>1, <2>1
  <2>2. CASE s < t
    <3>1. /\ s + 1 \in Captures /\ u \in Captures /\ s + 1 <= u
          /\ L[s] = K[s + 1] - K[1] /\ L[t] = K[u] - K[1]
      BY <1>0, <2>2, CapturePlan DEF Captures
    <3>2. K[s + 1] <= K[u]
      BY <3>1 DEF Counts
    <3>3. ASSUME \A q \in ShiftSlots(Q) : q.at < s \/ t <= q.at PROVE K[s + 1] = K[u]
      <4>1. ASSUME NEW x \in Q PROVE x.at < s + 1 \/ u <= x.at
        <5>0. x.at \in 0 .. RDQ - 1
          BY DEF CaptureSlots
        <5>1. CASE x.at > 0
          <6>1. PICK c \in ShiftSlots(Q) : c.at = x.at - 1
            BY <5>1, KeptCapture
          <6>2. x.at - 1 < s \/ t <= x.at - 1
            BY <3>3, <6>1
          <6> QED
            BY <5>0, <6>2, CapturePlan DEF Captures
        <5>2. CASE ~(x.at > 0)
          BY <5>0, <5>2, CapturePlan DEF Captures
        <5> QED
          BY <5>1, <5>2
      <4> HIDE DEF u
      <4> QED
        BY <3>1, <4>1 DEF Counts
    <3> HIDE DEF u
    <3> QED
      BY <1>0, <3>1, <3>2, <3>3
  <2> QED
    BY <1>3, <2>1, <2>2, CapturePlan DEF Captures
<1> HIDE DEF L
<1> QED
  BY <1>0, <1>1, <1>2, <1>3 DEF Counts, L

(***************************************************************************)
(* A read is booked                                                        *)
(***************************************************************************)
BookedReads == { ReadSlot(i) : i \in Burst(op.n) }

LEMMA SlotOf ==
  ASSUME op \in Offered \cup {NoOp}, IsAccess(op), NEW i \in Burst(op.n)
  PROVE  /\ i \in 0 .. 3 /\ ReadSlot(i) \in CaptureSlots
         /\ ReadSlot(i).at = FirstCapture + i
         /\ ReadSlot(i).tag = op.tag /\ (ReadSlot(i).last <=> i = op.n - 1)
<1>1. i \in 0 .. 3
  BY OwnLocations
<1>2. ReadSlot(i).at = (T_RCD + i) + RDD
  BY DEF ReadSlot, ColumnAt
<1>3. (T_RCD + i) + RDD = FirstCapture + i
  BY <1>1, CapturePlan, Plan DEF FirstCapture
<1> QED
  BY <1>1, <1>2, <1>3, BookedEdges DEF ReadSlot

LEMMA CountsBooked ==
  ASSUME op \in Offered \cup {NoOp}, op.kind = "read",
         NEW K, NEW Q, Q \subseteq CaptureSlots, Counts(K, Q), \A q \in Q : q.at < FirstCapture
  PROVE  /\ Counts(More(K), Q \cup BookedReads)
         /\ More(K)[RDQ] = K[RDQ] + op.n
         /\ \A t \in 0 .. FirstCapture : More(K)[t] = K[t]
         /\ \A i \in Burst(op.n) : More(K)[ReadSlot(i).at] = K[RDQ] + i
<1> DEFINE L == More(K)
           N == K[RDQ]
<1>0. IsAccess(op)
  BY DEF IsAccess
<1>1. op.n \in 1 .. 4 /\ FirstCapture \in Captures /\ RDQ \in Captures /\ 0 \in Burst(op.n)
      /\ Burst(op.n) = 0 .. op.n - 1
  BY <1>0, OwnLocations, CapturePlan DEF Captures, Burst
<1>2. K \in [Captures -> Nat] /\ N \in Nat /\ K[FirstCapture] = N
  <2>1. \A q \in Q : q.at < FirstCapture \/ RDQ <= q.at
    OBVIOUS
  <2>2. K[FirstCapture] = K[RDQ]
    BY <1>1, <2>1, CapturePlan DEF Counts
  <2> QED
    BY <1>1, <2>2 DEF Counts
<1>3. ASSUME NEW k \in 0 .. 4
      PROVE  FirstCapture + k \in Captures /\ L[FirstCapture + k] = N + Further(k)
  <2>1. /\ FirstCapture + k \in Captures /\ (FirstCapture + k <= FirstCapture <=> k = 0)
        /\ (FirstCapture + k) - FirstCapture = k
    BY CapturePlan DEF Captures
  <2>2. CASE k = 0
    BY <1>1, <1>2, <2>1, <2>2, CapturePlan DEF More, Further
  <2>3. CASE k # 0
    BY <2>1, <2>3 DEF More
  <2> QED
    BY <2>2, <2>3
<1>4. \A t \in 0 .. FirstCapture : t \in Captures /\ L[t] = K[t]
  BY CapturePlan DEF More, Captures
<1>5. \A k \in 0 .. 4 : Further(k) \in 0 .. 4 /\ (k <= op.n => Further(k) = k) /\ (k >= op.n => Further(k) = op.n)
  BY <1>1 DEF Further
<1>6. \A t \in Captures : t <= FirstCapture \/ \E k \in 1 .. 4 : t = FirstCapture + k
  <2>1. ASSUME NEW t \in Captures, t > FirstCapture PROVE \E k \in 1 .. 4 : t = FirstCapture + k
    <3>1. t - FirstCapture \in 1 .. 4 /\ t = FirstCapture + (t - FirstCapture)
      BY <2>1, CapturePlan DEF Captures
    <3> QED
      BY <3>1
  <2> QED
    BY <2>1, CapturePlan DEF Captures
<1>7. L \in [Captures -> Nat] /\ L[0] = 0
  <2>1. \A t \in Captures : L[t] \in Nat
    <3> SUFFICES ASSUME NEW t \in Captures PROVE L[t] \in Nat
      OBVIOUS
    <3>1. CASE t <= FirstCapture
      <4>1. t \in 0 .. FirstCapture
        BY <3>1, CapturePlan DEF Captures
      <4> QED
        BY <1>2, <1>4, <4>1
    <3>2. ASSUME NEW k \in 1 .. 4, t = FirstCapture + k PROVE L[t] \in Nat
      BY <1>2, <1>3, <1>5, <3>2
    <3> QED
      BY <1>6, <3>1, <3>2
  <2>2. L[0] = 0
    BY <1>4, CapturePlan DEF Counts
  <2> QED
    BY <2>1, <2>2 DEF More
<1>8. L[RDQ] = N + op.n
  BY <1>1, <1>3, <1>5, CapturePlan
<1>9. ASSUME NEW i \in Burst(op.n)
      PROVE  L[ReadSlot(i).at] = N + i /\ L[ReadSlot(i).at + 1] = L[ReadSlot(i).at] + 1
  <2>1. i \in 0 .. 3 /\ ReadSlot(i).at = FirstCapture + i /\ i + 1 \in 0 .. 4 /\ i + 1 <= op.n
    BY <1>0, <1>1, SlotOf
  <2>2. ReadSlot(i).at + 1 = FirstCapture + (i + 1)
    BY <2>1, CapturePlan
  <2>3. L[ReadSlot(i).at] = N + i /\ L[ReadSlot(i).at + 1] = N + (i + 1)
    BY <1>1, <1>3, <1>5, <2>1, <2>2
  <2> QED
    BY <1>2, <2>1, <2>3
<1>10. ASSUME NEW q \in Q \cup BookedReads PROVE L[q.at + 1] = L[q.at] + 1
  <2>1. CASE q \in Q
    <3>1. q.at \in 0 .. FirstCapture /\ q.at + 1 \in 0 .. FirstCapture
      BY <2>1, CapturePlan DEF CaptureSlots
    <3> QED
      BY <1>4, <2>1, <3>1 DEF Counts
  <2>2. CASE q \in BookedReads
    BY <1>9, <2>2 DEF BookedReads
  <2> QED
    BY <2>1, <2>2
<1>11. ASSUME NEW s \in Captures, NEW t \in Captures, s <= t
       PROVE  /\ L[s] <= L[t]
              /\ (\A q \in Q \cup BookedReads : q.at < s \/ t <= q.at) => L[s] = L[t]
  <2>1. CASE t <= FirstCapture
    <3>1. s \in 0 .. FirstCapture /\ t \in 0 .. FirstCapture
      BY <1>11, <2>1, CapturePlan DEF Captures
    <3> QED
      BY <1>4, <1>11, <3>1 DEF Counts
  <2>2. CASE s <= FirstCapture /\ t > FirstCapture
    <3>1. PICK k \in 1 .. 4 : t = FirstCapture + k
      BY <1>6, <2>2, CapturePlan DEF Captures
    <3>2. K[s] <= N /\ s \in 0 .. FirstCapture /\ K[s] \in Nat
      BY <1>1, <1>2, <2>2, CapturePlan DEF Counts, Captures
    <3>3. L[s] <= L[t]
      BY <1>2, <1>3, <1>4, <1>5, <3>1, <3>2
    <3>4. ReadSlot(0) \in BookedReads /\ ReadSlot(0).at = FirstCapture
      BY <1>0, <1>1, SlotOf, CapturePlan DEF BookedReads
    <3>5. ~ \A q \in Q \cup BookedReads : q.at < s \/ t <= q.at
      BY <2>2, <3>4, CapturePlan DEF Captures
    <3> QED
      BY <3>3, <3>5
  <2>3. CASE s > FirstCapture
    <3>1. PICK j \in 1 .. 4 : s = FirstCapture + j
      BY <1>6, <2>3, CapturePlan DEF Captures
    <3>2. PICK k \in 1 .. 4 : t = FirstCapture + k
      BY <1>6, <1>11, <2>3, CapturePlan DEF Captures
    <3>3. j <= k
      BY <1>11, <3>1, <3>2, CapturePlan
    <3>4. L[s] = N + Further(j) /\ L[t] = N + Further(k)
      BY <1>3, <3>1, <3>2
    <3>5. Further(j) <= Further(k)
      BY <1>1, <3>3 DEF Further
    <3>6. CASE j >= op.n
      BY <1>1, <1>2, <1>5, <3>3, <3>4, <3>6
    <3>7. CASE j < op.n
      <4>1. j \in Burst(op.n) /\ ReadSlot(j).at = s /\ ReadSlot(j) \in BookedReads
        BY <1>0, <1>1, <3>1, <3>7, SlotOf DEF BookedReads
      <4>2. (\A q \in Q \cup BookedReads : q.at < s \/ t <= q.at) => s = t
        BY <1>11, <4>1, CapturePlan DEF Captures
      <4> QED
        BY <1>2, <1>5, <3>4, <3>5, <4>2
    <3> QED
      BY <1>1, <3>6, <3>7
  <2> QED
    BY <2>1, <2>2, <2>3, <1>11, CapturePlan DEF Captures
<1> HIDE DEF L
<1> QED
  BY <1>4, <1>7, <1>8, <1>9, <1>10, <1>11 DEF Counts, L

(***************************************************************************)
(* As many captures as words                                               *)
(***************************************************************************)
LEMMA SizedShift ==
  ASSUME NEW K, NEW Q, Q \subseteq CaptureSlots, Counts(K, Q), Sized(K, Q)
  PROVE  Sized(Advance(K), ShiftSlots(Q))
<1> DEFINE Late == { x \in Q : x.at > 0 }
           Sooner(x) == [x EXCEPT !.at = x.at - 1]
           f == [x \in Late |-> Sooner(x)]
<1>1. \A x \in Q : x.at \in Nat
  BY CapturePlan DEF CaptureSlots
<1>2. ShiftSlots(Q) = { Sooner(x) : x \in Late }
  BY DEF ShiftSlots
<1>3. \A x, y \in Late : Sooner(x).at = Sooner(y).at => x = y
  <2>1. \A x \in Late : Sooner(x).at = x.at - 1
    BY DEF CaptureSlots
  <2> HIDE DEF Sooner
  <2> QED
    BY <1>1, <2>1 DEF Sized
<1>4. IsFiniteSet(Late) /\ Cardinality(Late) = K[RDQ] - K[1]
  <2>1. CASE \E q \in Q : q.at = 0
    <3>1. PICK q \in Q : q.at = 0
      BY <2>1
    <3>2. Late = Q \ {q}
      BY <1>1, <3>1 DEF Sized
    <3>3. K[1] = 1
      BY <2>1, CountsDue
    <3> QED
      BY <3>2, <3>3, FS_RemoveElement DEF Sized
  <2>2. CASE ~ \E q \in Q : q.at = 0
    <3>1. Late = Q
      BY <1>1, <2>2
    <3>2. K[1] = 0
      BY <2>2, CountsDue
    <3>3. K[RDQ] \in Nat
      BY CapturePlan DEF Counts, Captures
    <3> QED
      BY <3>1, <3>2, <3>3 DEF Sized
  <2> QED
    BY <2>1, <2>2
<1>5. f \in Bijection(Late, ShiftSlots(Q))
  <2> HIDE DEF Sooner, Late
  <2>1. f \in [Late -> ShiftSlots(Q)]
    BY <1>2
  <2>2. \A x, y \in Late : f[x] = f[y] => x = y
    BY <1>3
  <2>3. \A s \in ShiftSlots(Q) : \E x \in Late : f[x] = s
    BY <1>2
  <2> HIDE DEF f
  <2> QED
    BY <2>1, <2>2, <2>3 DEF Bijection, Injection, Surjection, IsInjective
<1>6. IsFiniteSet(ShiftSlots(Q)) /\ Cardinality(ShiftSlots(Q)) = Cardinality(Late)
  BY <1>4, <1>5, FS_Bijection DEF ExistsBijection
<1>7. ASSUME NEW q \in ShiftSlots(Q), NEW r \in ShiftSlots(Q), q.at = r.at PROVE q = r
  <2> HIDE DEF Sooner, Late
  <2> QED
    BY <1>2, <1>3, <1>7
<1> QED
  BY <1>4, <1>6, <1>7, CountsShift DEF Sized

LEMMA SizedBooked ==
  ASSUME op \in Offered \cup {NoOp}, op.kind = "read",
         NEW K, NEW Q, Q \subseteq CaptureSlots, Counts(K, Q), Sized(K, Q),
         \A q \in Q : q.at < FirstCapture
  PROVE  Sized(More(K), Q \cup BookedReads)
<1> DEFINE f == [i \in Burst(op.n) |-> ReadSlot(i)]
<1>0. IsAccess(op)
  BY DEF IsAccess
<1>1. op.n \in 1 .. 4 /\ Burst(op.n) = 0 .. op.n - 1
      /\ \A i \in Burst(op.n) : i \in 0 .. 3 /\ ReadSlot(i).at = FirstCapture + i
  BY <1>0, OwnLocations, SlotOf DEF Burst
<1>2. \A i, j \in Burst(op.n) : ReadSlot(i).at = ReadSlot(j).at => i = j
  BY <1>1, CapturePlan
<1>3. f \in Bijection(Burst(op.n), BookedReads)
  <2>1. f \in [Burst(op.n) -> BookedReads]
    BY DEF BookedReads
  <2>2. \A i, j \in Burst(op.n) : f[i] = f[j] => i = j
    BY <1>2
  <2>3. \A s \in BookedReads : \E i \in Burst(op.n) : f[i] = s
    BY DEF BookedReads
  <2> HIDE DEF f
  <2> QED
    BY <2>1, <2>2, <2>3 DEF Bijection, Injection, Surjection, IsInjective
<1>4. IsFiniteSet(BookedReads) /\ Cardinality(BookedReads) = op.n
  <2>1. IsFiniteSet(Burst(op.n)) /\ Cardinality(Burst(op.n)) = op.n
    BY <1>1, FS_Interval
  <2> QED
    BY <1>3, <2>1, FS_Bijection DEF ExistsBijection
<1>5. Q \cap BookedReads = {}
  <2>1. \A r \in BookedReads : ~(r.at < FirstCapture)
    BY <1>1, CapturePlan DEF BookedReads
  <2> QED
    BY <2>1
<1>6. IsFiniteSet(Q \cup BookedReads) /\ Cardinality(Q \cup BookedReads) = K[RDQ] + op.n
  <2>1. Cardinality(Q \cap BookedReads) = 0
    BY <1>5, FS_EmptySet
  <2>2. K[RDQ] \in Nat
    BY CapturePlan DEF Counts, Captures
  <2>3. IsFiniteSet(Q) /\ Cardinality(Q) = K[RDQ]
    BY DEF Sized
  <2>4. /\ IsFiniteSet(Q \cup BookedReads)
        /\ Cardinality(Q \cup BookedReads) =
             Cardinality(Q) + Cardinality(BookedReads) - Cardinality(Q \cap BookedReads)
    BY <1>4, <2>3, FS_Union
  <2> QED
    BY <1>1, <1>4, <2>1, <2>2, <2>3, <2>4
<1>7. ASSUME NEW q \in Q \cup BookedReads, NEW r \in Q \cup BookedReads, q.at = r.at PROVE q = r
  <2>1. CASE q \in Q /\ r \in Q
    BY <1>7, <2>1 DEF Sized
  <2>2. CASE q \in BookedReads /\ r \in BookedReads
    BY <1>2, <1>7, <2>2 DEF BookedReads
  <2>3. \A r1 \in BookedReads : ~(r1.at < FirstCapture)
    BY <1>1, CapturePlan DEF BookedReads
  <2> QED
    BY <1>7, <2>1, <2>2, <2>3
<1> QED
  BY <1>6, <1>7, CountsBooked DEF Sized

(***************************************************************************)
(* The invariant                                                           *)
(***************************************************************************)

\* The open rows and the array, once the chip has decoded the pins.
RowsNext  == [b \in Banks |-> OpenNext(b)]
ArrayNext == IF pins.cmd = "WRITE" THEN Stored(array, Addressed, pins) ELSE array

\* The columns booked last fill the end of the table, so what is booked next
\* comes after them; no two words share the chip's output; and nothing is held
\* before the chip is ready.
PlanInv ==
  /\ ~init_done => op = NoOp
  /\ \A c \in col : \A k \in T_RCD - 1 .. c.at : \E d \in col : d.at = k
  /\ \A p, r \in rpipe : p.age = r.age => p = r

\* The word w of the capture q, wherever its READ has got to: still booked, then
\* it will find w in the array; on the pins; or in the chip, with w.
Fetched(q, w, H) ==
  \/ /\ q.at >= RDD
     /\ \E c \in col : ~c.we /\ c.at + RDD = q.at /\ w = H[c.at][Target(c, RowsNext)]
  \/ q.at + 1 = RDD /\ pins.cmd = "READ" /\ w = array[Addressed]
  \/ q.at + 1 < RDD /\ \E p \in rpipe : p.age + q.at + 1 = RDD /\ w = p.data

Owed(q, w, H) == w.tag = q.tag /\ w.last = q.last /\ Fetched(q, w.data, H)

Words == [tag: Tags, last: BOOLEAN, data: Word]

\* The words of the read that is held, the last ones promised.
Held        == IF op.kind = "read" THEN op.n ELSE 0
Promised(i) == [tag |-> op.tag, last |-> i = op.n - 1, data |-> mem[Memory!Location(op, i)]]

WritesPlanned(H) ==
  /\ Runs(H, col, RowsNext) /\ H[0] = ArrayNext
  /\ mem = Memory!Written(op, H[COLS])

ReadsPlanned(H, K) ==
  /\ Counts(K, rdq) /\ Sized(K, rdq)
  /\ Len(due) = K[RDQ] + Held
  /\ \A q \in rdq : Owed(q, due[K[q.at] + 1], H)
  /\ op.kind = "read" => \A i \in Burst(op.n) : due[K[RDQ] + i + 1] = Promised(i)

MemInv ==
  /\ mem \in [Locations -> Word] /\ due \in Seq(Words)
  /\ \E H, K : WritesPlanned(H) /\ ReadsPlanned(H, K)

(***************************************************************************)
(* One clock                                                               *)
(***************************************************************************)

\* The tables and the rows when the operation has been inserted, if it goes now,
\* before they shift.
ColumnsNow == IF AccessIssue THEN col \cup NewColumns ELSE col
SlotsNow   == IF AccessIssue /\ op.kind = "read" THEN rdq \cup BookedReads ELSE rdq
RowsNow    == IF AccessIssue THEN [RowsNext EXCEPT ![op.bank] = op.row] ELSE RowsNext

RunsNow(H)   == IF AccessIssue /\ op.kind = "write" THEN Longer(H) ELSE H
CountsNow(K) == IF AccessIssue /\ op.kind = "read" THEN More(K) ELSE K

BusInv == TypeInv /\ DqInv /\ TimingInv

LEMMA TablesMove ==
  ASSUME TypeInv, CtrlClock
  PROVE  /\ col' = ShiftSlots(ColumnsNow) /\ ColumnsNow \subseteq ColumnSlots
         /\ rdq' = ShiftSlots(SlotsNow) /\ SlotsNow \subseteq CaptureSlots
<1>1. CASE IssueAccess
  <2>1. AccessIssue /\ IsAccess(op) /\ op \in Offered \cup {NoOp}
    BY <1>1 DEF IssueAccess, AccessIssue, TypeInv
  <2>2. col' = ShiftSlots(ColumnsNow) /\ rdq' = ShiftSlots(SlotsNow)
    BY <1>1, <2>1 DEF IssueAccess, ColumnsNow, SlotsNow, BookedReads
  <2>3. ColumnsNow \subseteq ColumnSlots
    BY <2>1, BookedColumns DEF ColumnsNow, NewColumns, TypeInv, CtrlTypeOK
  <2>4. SlotsNow \subseteq CaptureSlots
    BY <2>1, SlotOf DEF SlotsNow, BookedReads, TypeInv, CtrlTypeOK
  <2> QED
    BY <2>2, <2>3, <2>4
<1>2. CASE ~IssueAccess
  <2>1. ~AccessIssue /\ ShiftTables
    <3>1. PowerUp => ~init_done
      BY DEF PowerUp, PowerUpWait, PowerUpCommand, init_done
    <3> QED
      BY <1>2, <3>1 DEF CtrlClock, PowerUp, IssueRefresh, RefreshIssue, SendColumn, Wait, OpIssue,
                        AccessIssue, IsAccess
  <2> QED
    BY <2>1 DEF ShiftTables, ColumnsNow, SlotsNow, TypeInv, CtrlTypeOK
<1> QED
  BY <1>1, <1>2

LEMMA ColumnsBelow ==
  ASSUME TypeInv, PlanInv, AccessIssue
  PROVE  \A c \in col : c.at < T_RCD
<1>1. SUFFICES ASSUME NEW c \in col, ~(c.at < T_RCD) PROVE FALSE
  OBVIOUS
<1>2. c.at \in Nat /\ op.n \in 1 .. 4 /\ SlotsFree
  BY SlotTypes, OwnLocations DEF AccessIssue, CanAccess, TypeInv
<1>3. T_RCD \in T_RCD - 1 .. c.at
  BY <1>1, <1>2, Plan
<1>4. PICK d \in col : d.at = T_RCD
  BY <1>3 DEF PlanInv
<1>5. 0 \in Burst(op.n) /\ ColumnAt(0) = T_RCD
  BY <1>2, Plan DEF Burst, ColumnAt
<1> QED
  BY <1>2, <1>4, <1>5 DEF SlotsFree

LEMMA CapturesBelow ==
  ASSUME TypeInv, PlanInv, AccessIssue, NEW q \in rdq, NEW w, NEW H, Fetched(q, w, H)
  PROVE  q.at < FirstCapture
<1>1. q.at \in Nat
  BY CapturePlan DEF TypeInv, CtrlTypeOK, CaptureSlots
<1>2. CASE q.at >= RDD
  <2>1. PICK c \in col : c.at + RDD = q.at
    BY <1>1, <1>2, CapturePlan DEF Fetched
  <2>2. c.at < T_RCD /\ c.at \in Nat
    BY ColumnsBelow, SlotTypes
  <2> QED
    BY <2>1, <2>2, CapturePlan, Plan DEF FirstCapture
<1>3. CASE ~(q.at >= RDD)
  BY <1>1, <1>3, CapturePlan, Plan DEF FirstCapture
<1> QED
  BY <1>2, <1>3

LEMMA Decoded ==
  ASSUME BusInv, ChipClock
  PROVE  /\ array' = ArrayNext /\ \A b \in Banks : open'[b] = RowsNext[b]
         /\ pins.cmd \in {"READ", "WRITE"} => open[pins.ba] # Closed
<1>1. pins.cmd \in {"READ", "WRITE"} => open[pins.ba] # Closed
  BY DEF BusInv, TimingInv, CommandsLegal, ColumnLegal
<1>2. \A b \in Banks : open'[b] = RowsNext[b]
  BY ChipTimes DEF BusInv, TimingInv, RowsNext
<1>3. array' = ArrayNext
  BY <1>1 DEF ArrayNext, Stored, ChipClock, Activate, ReadColumn, WriteColumn, AutoRefresh,
              PrechargeAll, NoCommand
<1> QED
  BY <1>1, <1>2, <1>3

\* A column that is still to be sent finds the row that its operation opened.
LEMMA RowsStay ==
  ASSUME BusInv, BusInv', CtrlClock, ChipClock
  PROVE  /\ \A c \in ColumnsNow : c.at > 0 => RowsNext'[c.ba] = RowsNow[c.ba]
         /\ \A c \in col : RowsNow[c.ba] = RowsNext[c.ba]
         /\ AccessIssue => RowsNow[op.bank] = op.row
<1>0. TypeInv /\ TimingInv /\ TimerTypeOK /\ (init_done => WarmInv) /\ (~init_done => col = {})
  BY DEF BusInv, TimingInv, ColdInv
<1>1. \A b \in Banks : RowsNext[b] = OpenNext(b) /\ open'[b] = OpenNext(b) /\ RowsNext'[b] = OpenNext(b)'
  BY Decoded DEF RowsNext
<1>2. CASE AccessIssue
  <2>1. init_done /\ WarmInv /\ IsAccess(op) /\ op.bank \in Banks /\ bank_wait[op.bank] = 0
    BY <1>0, <1>2, OpFields DEF AccessIssue, CanAccess, bank_idle, TypeInv
  <2>2. \A c \in col : c.ba # op.bank /\ c.ba \in Banks
    BY <1>0, <2>1, IdleBank, SlotTypes
  <2>3. pins'.cmd = "ACT" /\ pins'.ba = op.bank /\ pins'.row = op.row
    BY <1>2 DEF CtrlClock, PowerUp, PowerUpWait, PowerUpCommand, IssueAccess, IssueRefresh, RefreshIssue,
                SendColumn, Wait, OpIssue, AccessIssue, IsAccess, init_done
  <2>4. \A b \in Banks : RowsNext'[b] = IF b = op.bank THEN op.row ELSE RowsNext[b]
    BY <1>1, <2>3 DEF OpenNext, Opens, Closes
  <2>5. \A b \in Banks : RowsNow[b] = IF b = op.bank THEN op.row ELSE RowsNext[b]
    BY <1>2 DEF RowsNow, RowsNext
  <2>6. \A c \in ColumnsNow : c.ba \in Banks
    BY <1>0, TablesMove DEF ColumnSlots
  <2> QED
    BY <2>1, <2>2, <2>4, <2>5, <2>6
<1>3. CASE ~AccessIssue
  <2>1. RowsNow = RowsNext /\ ColumnsNow = col
    BY <1>3 DEF RowsNow, ColumnsNow
  <2>2. ASSUME NEW c \in col, c.at > 0 PROVE RowsNext'[c.ba] = RowsNext[c.ba]
    <3>1. c.ba \in Banks /\ init_done /\ WarmInv
      BY <1>0, SlotTypes
    <3>2. PICK s \in col' : s.at = c.at - 1 /\ s.ba = c.ba
      BY <1>0, <2>1, <2>2, KeptColumn, TablesMove
    <3>3. ~Closes(c.ba)' /\ init_done'
      <4>1. init_done'
        BY <1>0, <3>1, StayWarm
      <4>2. ColumnInv(s)'
        BY <4>1, <3>2 DEF BusInv, TimingInv, WarmInv
      <4> QED
        BY <3>2, <4>1, <4>2 DEF ColumnInv, Closes
    <3>4. pins'.cmd \notin {"ACT", "PRE"}
      BY <1>3, <3>1 DEF CtrlClock, PowerUp, PowerUpWait, PowerUpCommand, IssueAccess, IssueRefresh,
                SendColumn, Wait, init_done, Nop
    <3> QED
      BY <1>1, <3>1, <3>3, <3>4 DEF OpenNext, Opens
  <2> QED
    BY <1>3, <2>1, <2>2
<1> QED
  BY <1>2, <1>3

\* The column that is due is on the pins next, alone of its edge.
LEMMA ColumnOnPins ==
  ASSUME BusInv, SendColumn
  PROVE  \E c \in col : /\ c.at = 0 /\ \A d \in col : d.at = 0 => d = c
                        /\ pins' = [cmd |-> IF c.we THEN "WRITE" ELSE "READ", ba |-> c.ba,
                                    col |-> c.col, ap |-> c.ap, mask |-> c.mask, d |-> c.d]
<1>1. PICK c \in col : /\ c.at = 0
                       /\ pins' = [cmd |-> IF c.we THEN "WRITE" ELSE "READ", ba |-> c.ba,
                                   col |-> c.col, ap |-> c.ap, mask |-> c.mask, d |-> c.d]
  BY DEF SendColumn, col_due
<1>2. \A d \in col : d.at = 0 => d = c
  BY <1>1 DEF BusInv, TimingInv, WarmInv, Ordered, SendColumn
<1> QED
  BY <1>1, <1>2

LEMMA NothingDue ==
  ASSUME BusInv, CtrlClock, ~SendColumn
  PROVE  /\ pins'.cmd \notin {"READ", "WRITE"}
         /\ \A c \in ColumnsNow : c.at >= 1
<1>1. pins'.cmd \notin {"READ", "WRITE"}
  BY DEF CtrlClock, PowerUp, PowerUpWait, PowerUpCommand, InitCommand, IssueAccess, IssueRefresh, Wait, Nop
<1>2. \A c \in col : c.at # 0
  <2>1. CASE init_done
    BY <2>1 DEF CtrlClock, PowerUp, PowerUpWait, PowerUpCommand, IssueAccess, IssueRefresh, AccessIssue,
                RefreshIssue, Wait, init_done, col_due
  <2>2. CASE ~init_done
    BY <2>2 DEF BusInv, TimingInv, ColdInv
  <2> QED
    BY <2>1, <2>2
<1>3. \A c \in col : c.at >= 1
  BY <1>2, SlotTypes DEF BusInv
<1>4. AccessIssue => \A i \in Burst(op.n) : Column(i).at >= 1
  BY BookedColumns, OwnLocations, Plan DEF AccessIssue, BusInv, TypeInv
<1> QED
  BY <1>1, <1>3, <1>4 DEF ColumnsNow, NewColumns

LEMMA NextContents ==
  ASSUME BusInv, BusInv', CtrlClock, ChipClock, NEW H, Runs(H, ColumnsNow, RowsNow), H[0] = ArrayNext
  PROVE  ArrayNext' = H[1]
<1>0. H[0] = array' /\ 0 \in Edges /\ 1 \in Edges
  BY Decoded, Plan DEF Edges
<1>1. CASE SendColumn
  <2>1. PICK c \in col :
               /\ c.at = 0 /\ \A d \in col : d.at = 0 => d = c
               /\ pins' = [cmd |-> IF c.we THEN "WRITE" ELSE "READ", ba |-> c.ba,
                           col |-> c.col, ap |-> c.ap, mask |-> c.mask, d |-> c.d]
    BY <1>1, ColumnOnPins
  <2>2. ColumnsNow = col /\ RowsNow = RowsNext /\ c.ba \in Banks
    BY <1>1, SlotTypes DEF SendColumn, ColumnsNow, RowsNow, AccessIssue, BusInv
  <2>3. CASE c.we
    <3>1. H[1] = Stored(H[0], Target(c, RowsNext), c)
      BY <2>1, <2>2, <2>3 DEF Runs
    <3>2. Addressed' = Target(c, RowsNext)
      BY <2>1, <2>2, Decoded DEF Addressed, Target
    <3>3. ArrayNext' = Stored(array', Addressed', pins')
      BY <2>1, <2>3 DEF ArrayNext, Stored
    <3>4. pins'.d = c.d /\ pins'.mask = c.mask
      BY <2>1
    <3> QED
      BY <1>0, <3>1, <3>2, <3>3, <3>4 DEF Stored
  <2>4. CASE ~c.we
    <3>1. \A d \in col : d.we => d.at < 0 \/ 1 <= d.at
      BY <2>1, <2>4, SlotTypes DEF BusInv
    <3>2. H[0] = H[1]
      BY <1>0, <2>2, <3>1 DEF Runs
    <3> QED
      BY <1>0, <2>1, <2>4, <3>2 DEF ArrayNext
  <2> QED
    BY <2>3, <2>4
<1>2. CASE ~SendColumn
  <2>1. H[0] = H[1]
    BY <1>0, <1>2, NothingDue DEF Runs
  <2> QED
    BY <1>0, <1>2, <2>1, NothingDue DEF ArrayNext
<1> QED
  BY <1>1, <1>2

\* What an operation writes, by its kind.
LEMMA WrittenType ==
  ASSUME NEW o \in Offered \cup {NoOp}, NEW m \in [Locations -> Word]
  PROVE  /\ Memory!Written(o, m) \in [Locations -> Word]
         /\ o.kind # "write" => Memory!Written(o, m) = m
<1>1. CASE o.kind # "write"
  BY <1>1 DEF Memory!Written
<1>2. CASE o.kind = "write"
  <2>1. o.n \in 1 .. 4 /\ o.data \in [Burst(o.n) -> Word] /\ o.be \in [Burst(o.n) -> SUBSET Lanes]
    <3>1. IsRequest(o)
      BY <1>2, OfferedAssumption DEF NoOp, Refresh
    <3> QED
      BY <1>2, <3>1, GeometryAssumption DEF IsRequest, Reads, Writes
  <2>2. \A a \in Locations : Memory!Written(o, m)[a] \in Word
    <3> SUFFICES ASSUME NEW a \in Locations PROVE Memory!Written(o, m)[a] \in Word
      OBVIOUS
    <3>1. CASE \E i \in Burst(o.n) : a = Memory!Location(o, i)
      <4> DEFINE i == CHOOSE k \in Burst(o.n) : a = Memory!Location(o, k)
      <4>1. i \in Burst(o.n)
        BY <3>1
      <4>2. Memory!Written(o, m)[a] = Merge(m[a], o.data[i], o.be[i])
        BY <1>2, <3>1 DEF Memory!Written, Memory!Burst, Burst, Memory!Merge, Merge, Memory!Lanes, Lanes
      <4>3. o.data[i] \in Word /\ m[a] \in Word
        BY <2>1, <4>1
      <4> HIDE DEF i
      <4> QED
        BY <4>2, <4>3 DEF Merge, Word
    <3>2. CASE ~ \E i \in Burst(o.n) : a = Memory!Location(o, i)
      BY <1>2, <3>2 DEF Memory!Written, Memory!Burst, Burst
    <3> QED
      BY <3>1, <3>2
  <2> QED
    BY <1>2, <2>2 DEF Memory!Written
<1> QED
  BY <1>1, <1>2

\* What enters the holding register: an operation leaves it before the next one.
LEMMA CapturedFacts ==
  ASSUME TypeInv, TypeInv', PlanInv, NextOp
  PROVE  /\ Captured \in Offered \cup {NoOp}
         /\ OpFree => Captured = op' \/ (Captured = NoOp /\ ~IsAccess(op)')
         /\ ~OpFree => op' = op /\ Captured = NoOp
         /\ AccessIssue => OpFree
         /\ OpFree /\ ~AccessIssue => ~IsAccess(op)
<1>1. OpFree => Captured = op' \/ (Captured = NoOp /\ ~IsAccess(op)')
  BY DEF Captured, IsAccess
<1>2. ~OpFree => op' = op /\ Captured = NoOp
  BY DEF Captured, NextOp
<1>3. OpFree /\ ~AccessIssue => ~IsAccess(op)
  BY DEF OpFree, OpIssue, RefreshIssue, IsAccess, NoOp, Refresh
<1>4. AccessIssue => OpFree
  BY DEF OpFree, OpIssue
<1>5. Captured \in Offered \cup {NoOp}
  BY <1>1, <1>2 DEF TypeInv
<1> QED
  BY <1>1, <1>2, <1>3, <1>4, <1>5

LEMMA NotWritten ==
  ASSUME NEW o \in Offered \cup {NoOp}, NEW m \in [Locations -> Word], ~(o.kind = "write")
  PROVE  Memory!Written(o, m) = m
  BY WrittenType

LEMMA RunsSameRows ==
  ASSUME NEW H, NEW C, NEW R, NEW S, Runs(H, C, R), \A c \in C : S[c.ba] = R[c.ba]
  PROVE  Runs(H, C, S)
<1>1. \A c \in C : Target(c, S) = Target(c, R)
  BY DEF Target
<1> QED
  BY <1>1 DEF Runs

\* The plan with the operation inserted, if it goes now.
LEMMA WritesBooked ==
  ASSUME BusInv, BusInv', PlanInv, CtrlClock, ChipClock,
         NEW H, WritesPlanned(H), mem \in [Locations -> Word]
  PROVE  /\ Runs(RunsNow(H), ColumnsNow, RowsNow)
         /\ RunsNow(H)[0] = ArrayNext
         /\ OpFree => mem = RunsNow(H)[COLS]
         /\ \A t \in 0 .. T_RCD : RunsNow(H)[t] = H[t]
         /\ op.kind = "read" => mem = H[COLS]
<1>0. /\ op \in Offered \cup {NoOp} /\ col \subseteq ColumnSlots
      /\ Runs(H, col, RowsNext) /\ H[0] = ArrayNext /\ mem = Memory!Written(op, H[COLS])
      /\ H[COLS] \in [Locations -> Word] /\ 0 \in 0 .. T_RCD
  BY Plan DEF BusInv, TypeInv, CtrlTypeOK, WritesPlanned, Runs, Edges
<1>1. ~(op.kind = "write") => mem = H[COLS]
  BY <1>0, NotWritten
<1>2. Runs(H, col, RowsNow)
  BY <1>0, RowsStay, RunsSameRows
<1>3. CASE AccessIssue /\ op.kind = "write"
  <2>1. RunsNow(H) = Longer(H) /\ ColumnsNow = col \cup NewColumns
    BY <1>3 DEF RunsNow, ColumnsNow
  <2>2. \A c \in col : c.at < T_RCD
    BY <1>3, ColumnsBelow DEF BusInv
  <2>3. RowsNow[op.bank] = op.row
    BY <1>3, RowsStay
  <2>4. /\ Runs(Longer(H), col \cup NewColumns, RowsNow)
        /\ Longer(H)[COLS] = Memory!Written(op, H[COLS])
        /\ \A t \in 0 .. T_RCD : Longer(H)[t] = H[t]
    BY <1>0, <1>2, <1>3, <2>2, <2>3, RunsBooked
  <2> QED
    BY <1>0, <1>3, <2>1, <2>4
<1>4. CASE AccessIssue /\ ~(op.kind = "write")
  <2>1. RunsNow(H) = H /\ ColumnsNow = col \cup NewColumns
    BY <1>4 DEF RunsNow, ColumnsNow
  <2>2. \A c \in NewColumns : ~c.we
    BY <1>0, <1>4, BookedColumns DEF NewColumns, AccessIssue
  <2>3. Runs(H, col \cup NewColumns, RowsNow)
    BY <1>2, <2>2 DEF Runs
  <2> QED
    BY <1>0, <1>1, <1>4, <2>1, <2>3
<1>5. CASE ~AccessIssue
  <2>1. RunsNow(H) = H /\ ColumnsNow = col
    BY <1>5 DEF RunsNow, ColumnsNow
  <2>2. OpFree => ~(op.kind = "write")
    BY <1>5 DEF OpFree, OpIssue, RefreshIssue, NoOp, Refresh
  <2> QED
    BY <1>0, <1>1, <1>2, <2>1, <2>2
<1> QED
  BY <1>3, <1>4, <1>5

LEMMA WritesStep ==
  ASSUME BusInv, BusInv', PlanInv, BusNext, Record,
         NEW H, WritesPlanned(H), mem \in [Locations -> Word], NEW G, G = RunsNow(H)
  PROVE  WritesPlanned(Later(G))' /\ mem' \in [Locations -> Word]
<1>0. /\ CtrlClock /\ ChipClock /\ NextOp /\ op' \in Offered \cup {NoOp} /\ op \in Offered \cup {NoOp}
      /\ TypeInv /\ TypeInv'
      /\ mem' = Memory!Written(Captured, mem)
  BY DEF BusNext, Record, BusInv, TypeInv
<1>1. Runs(G, ColumnsNow, RowsNow) /\ G[0] = ArrayNext /\ (OpFree => mem = G[COLS])
  BY <1>0, WritesBooked
<1>2. Runs(Later(G), col', RowsNext')
  <2>1. \A c \in ColumnsNow : c.at > 0 => RowsNext'[c.ba] = RowsNow[c.ba]
    BY <1>0, RowsStay
  <2>2. col' = ShiftSlots(ColumnsNow) /\ ColumnsNow \subseteq ColumnSlots
    BY <1>0, TablesMove
  <2> QED
    BY <1>1, <2>1, <2>2, RunsShift
<1>3. Later(G)[0] = ArrayNext' /\ Later(G)[COLS] = G[COLS]
  <2>1. Later(G)[0] = G[1] /\ Later(G)[COLS] = G[COLS]
    BY Plan DEF Later, Edges
  <2> QED
    BY <1>0, <1>1, <2>1, NextContents
<1>4. mem' \in [Locations -> Word] /\ mem' = Memory!Written(op', G[COLS])
  <2>0. mem' \in [Locations -> Word] /\ Captured \in Offered \cup {NoOp}
    BY <1>0, CapturedFacts, WrittenType
  <2>1. CASE OpFree
    <3>1. CASE Captured = op'
      BY <1>0, <1>1, <2>0, <2>1, <3>1
    <3>2. CASE Captured = NoOp /\ ~IsAccess(op)'
      <4>1. mem' = mem /\ Memory!Written(op', mem) = mem
        BY <1>0, <3>2, NotWritten DEF NoOp, IsAccess
      <4> QED
        BY <1>1, <2>0, <2>1, <4>1
    <3> QED
      BY <1>0, <2>1, <3>1, <3>2, CapturedFacts
  <2>2. CASE ~OpFree
    <3>1. op' = op /\ Captured = NoOp /\ ~AccessIssue
      BY <1>0, <2>2, CapturedFacts
    <3>2. mem' = mem /\ G = H
      BY <1>0, <3>1, NotWritten DEF NoOp, RunsNow
    <3> QED
      BY <2>0, <3>1, <3>2 DEF WritesPlanned
  <2> QED
    BY <2>1, <2>2
<1>5. WritesPlanned(Later(G))'
  BY <1>2, <1>3, <1>4 DEF WritesPlanned
<1> QED
  BY <1>4, <1>5

(***************************************************************************)
(* The words on their way                                                  *)
(***************************************************************************)

\* The word that the chip takes from the array as it decodes a READ.
Entering == [age |-> 0, mask |-> {}, data |-> array[Addressed]]

ReadsNow == IF pins.cmd = "READ" THEN rpipe \cup {Entering} ELSE rpipe

Aged(p) == [age |-> p.age + 1, data |-> p.data,
            mask |-> IF p.age = CL - 2 THEN pins.mask ELSE p.mask]

LEMMA PipeMoves ==
  ASSUME BusInv, ChipClock
  PROVE  /\ rpipe' = { Aged(p) : p \in { r \in ReadsNow : r.age <= CL } }
         /\ \A p \in rpipe : p.age \in 1 .. CL + 1 /\ p.mask = {}
         /\ pins.cmd = "READ" => Entering \in ReadsNow
<1>1. \A p \in rpipe : p.age \in 1 .. CL + 1 /\ p.mask = {}
  BY DEF BusInv, DqInv, Reading
<1>2. rpipe' = Travel(ReadsNow)
  <2>1. CASE pins.cmd = "READ"
    <3>1. open[pins.ba] # Closed
      BY <2>1, Decoded
    <3> QED
      BY <2>1, <3>1 DEF ChipClock, Activate, ReadColumn, WriteColumn, AutoRefresh, PrechargeAll,
                        NoCommand, ReadsNow, Entering
  <2>2. CASE pins.cmd # "READ"
    BY <2>2 DEF ChipClock, Activate, ReadColumn, WriteColumn, AutoRefresh, PrechargeAll,
                NoCommand, ReadsTravel, ReadsNow
  <2> QED
    BY <2>1, <2>2
<1> QED
  BY <1>1, <1>2 DEF Travel, Aged, ReadsNow

LEMMA PlanStep ==
  ASSUME BusInv, BusInv', PlanInv, BusNext
  PROVE  PlanInv'
<1>0. CtrlClock /\ ChipClock /\ NextOp /\ TypeInv
  BY DEF BusNext, BusInv
<1>1. ~init_done' => op' = NoOp
  <2>1. init_done => init_done'
    BY <1>0, StayWarm DEF BusInv, TimingInv
  <2> QED
    BY <1>0, <2>1 DEF NextOp, PlanInv
<1>2. ASSUME NEW c \in col', NEW k \in T_RCD - 1 .. c.at PROVE \E d \in col' : d.at = k
  <2>0. col' = ShiftSlots(ColumnsNow) /\ ColumnsNow \subseteq ColumnSlots
    BY <1>0, TablesMove
  <2>1. PICK x \in ColumnsNow : x.at > 0 /\ c.at = x.at - 1
    BY <2>0, ShiftedColumn
  <2>2. x.at \in Nat /\ k \in Nat /\ k + 1 \in T_RCD .. x.at
    BY <2>0, <2>1, Plan DEF ColumnSlots
  <2>3. PICK y \in ColumnsNow : y.at = k + 1
    <3>1. CASE AccessIssue
      <4>1. \A d \in col : d.at < T_RCD
        BY <1>0, <3>1, ColumnsBelow
      <4>2. op \in Offered \cup {NoOp} /\ IsAccess(op)
        BY <1>0, <3>1 DEF AccessIssue, TypeInv
      <4>3. x \in NewColumns
        BY <2>2, <3>1, <4>1, Plan DEF ColumnsNow
      <4>4. PICK i \in Burst(op.n) : x.at = T_RCD + i
        BY <4>2, <4>3, BookedColumns DEF NewColumns
      <4>5. op.n \in 1 .. 4 /\ i \in 0 .. 3
        BY <4>2, OwnLocations
      <4>6. k + 1 - T_RCD \in Burst(op.n) /\ T_RCD + (k + 1 - T_RCD) = k + 1
        BY <2>2, <4>4, <4>5, Plan DEF Burst
      <4>7. Column(k + 1 - T_RCD).at = k + 1
        BY <4>2, <4>6, BookedColumns
      <4> QED
        BY <3>1, <4>6, <4>7 DEF ColumnsNow, NewColumns
    <3>2. CASE ~AccessIssue
      <4>1. k + 1 \in T_RCD - 1 .. x.at
        BY <2>2, Plan
      <4> QED
        BY <3>2, <4>1 DEF ColumnsNow, PlanInv
    <3> QED
      BY <3>1, <3>2
  <2>4. y.at > 0 /\ y.at - 1 = k
    BY <2>2, <2>3, Plan
  <2> QED
    BY <2>0, <2>4, KeptColumn
<1>3. ASSUME NEW q \in rpipe', NEW r \in rpipe', q.age = r.age PROVE q = r
  <2>1. PICK x \in ReadsNow : q = Aged(x)
    BY <1>0, PipeMoves
  <2>2. PICK y \in ReadsNow : r = Aged(y)
    BY <1>0, PipeMoves
  <2>3. \A z \in ReadsNow : z.age \in Nat /\ (z \in rpipe => z.age >= 1) /\ (z \notin rpipe => z = Entering)
    BY <1>0, PipeMoves, TimingAssumption DEF ReadsNow, Entering
  <2>4. Entering.age = 0
    BY DEF Entering
  <2>5. x.age = y.age
    BY <1>3, <2>1, <2>2, <2>3 DEF Aged
  <2>6. x = y
    BY <2>3, <2>4, <2>5 DEF PlanInv
  <2> QED
    BY <2>1, <2>2, <2>6
<1> QED
  BY <1>1, <1>2, <1>3 DEF PlanInv

\* Fetched, with the operation inserted in the tables.
FetchedNow(q, w, H) ==
  \/ /\ q.at >= RDD
     /\ \E c \in ColumnsNow : ~c.we /\ c.at + RDD = q.at /\ w = H[c.at][Target(c, RowsNow)]
  \/ q.at + 1 = RDD /\ pins.cmd = "READ" /\ w = array[Addressed]
  \/ q.at + 1 < RDD /\ \E p \in rpipe : p.age + q.at + 1 = RDD /\ w = p.data

\* A word that was booked is where it was.
LEMMA FetchedBefore ==
  ASSUME BusInv, BusInv', PlanInv, CtrlClock, ChipClock, mem \in [Locations -> Word],
         NEW H, WritesPlanned(H), NEW q \in rdq, NEW w, Fetched(q, w, H)
  PROVE  FetchedNow(q, w, RunsNow(H))
<1> DEFINE G == RunsNow(H)
<1>1. CASE q.at >= RDD /\ \E c \in col : ~c.we /\ c.at + RDD = q.at /\ w = H[c.at][Target(c, RowsNext)]
  <2>1. PICK c \in col : ~c.we /\ c.at + RDD = q.at /\ w = H[c.at][Target(c, RowsNext)]
    BY <1>1
  <2>2. Target(c, RowsNow) = Target(c, RowsNext) /\ c \in ColumnsNow
    BY RowsStay DEF Target, ColumnsNow
  <2>3. G[c.at] = H[c.at]
    <3>1. CASE AccessIssue
      <4>1. c.at \in 0 .. T_RCD
        BY <3>1, ColumnsBelow, SlotTypes, Plan DEF BusInv
      <4> QED
        BY <4>1, WritesBooked
    <3>2. CASE ~AccessIssue
      BY <3>2 DEF RunsNow
    <3> QED
      BY <3>1, <3>2
  <2> HIDE DEF G
  <2>4. FetchedNow(q, w, G)
    BY <1>1, <2>1, <2>2, <2>3 DEF FetchedNow
  <2> QED
    BY <2>4 DEF G
<1>2. CASE ~(q.at >= RDD /\ \E c \in col : ~c.we /\ c.at + RDD = q.at /\ w = H[c.at][Target(c, RowsNext)])
  BY <1>2 DEF Fetched, FetchedNow
<1> QED
  BY <1>1, <1>2

\* A word that is booked now will be what `mem' holds: no write is booked later.
LEMMA FetchedBooked ==
  ASSUME BusInv, BusInv', PlanInv, CtrlClock, ChipClock, mem \in [Locations -> Word],
         NEW H, WritesPlanned(H), AccessIssue, op.kind = "read", NEW i \in Burst(op.n)
  PROVE  FetchedNow(ReadSlot(i), mem[Memory!Location(op, i)], RunsNow(H))
<1> DEFINE c == Column(i)
           q == ReadSlot(i)
<1>0. op \in Offered \cup {NoOp} /\ IsAccess(op) /\ H = RunsNow(H) /\ mem = H[COLS]
  BY WritesBooked DEF AccessIssue, BusInv, TypeInv, RunsNow
<1>1. i \in 0 .. 3 /\ c.at = T_RCD + i /\ ~c.we /\ c \in ColumnsNow /\ q.at = FirstCapture + i
  BY <1>0, SlotOf, BookedColumns DEF ColumnsNow, NewColumns
<1>2. c.at + RDD = q.at /\ q.at >= RDD
  BY <1>1, CapturePlan, Plan DEF FirstCapture
<1>3. H[c.at] = mem
  <2>1. c.at \in Edges /\ COLS \in Edges /\ c.at <= COLS
    BY <1>1, Plan DEF Edges
  <2>2. \A d \in col : d.at < c.at
    <3>1. \A d \in col : d.at < T_RCD /\ d.at \in Nat
      BY ColumnsBelow, SlotTypes DEF BusInv
    <3> QED
      BY <1>1, <3>1, Plan
  <2> HIDE DEF c
  <2> QED
    BY <1>0, <2>1, <2>2 DEF WritesPlanned, Runs
<1>4. Target(c, RowsNow) = Memory!Location(op, i)
  <2>1. RowsNow[op.bank] = op.row
    BY RowsStay
  <2> QED
    BY <2>1 DEF Target, Column, Memory!Location
<1> HIDE DEF c, q
<1>5. FetchedNow(q, mem[Memory!Location(op, i)], H)
  BY <1>1, <1>2, <1>3, <1>4 DEF FetchedNow
<1> QED
  BY <1>0, <1>5 DEF q

\* One edge later it is one stage further.
LEMMA FetchedStep ==
  ASSUME BusInv, BusInv', BusNext, NEW H, Runs(H, ColumnsNow, RowsNow), H[0] = ArrayNext,
         NEW x \in SlotsNow, x.at > 0, NEW w, FetchedNow(x, w, H), NEW q, q.at = x.at - 1
  PROVE  Fetched(q, w, Later(H))'
<1>0. /\ CtrlClock /\ ChipClock /\ x.at \in Nat
      /\ col' = ShiftSlots(ColumnsNow) /\ ColumnsNow \subseteq ColumnSlots
  BY TablesMove, CapturePlan DEF BusNext, BusInv, CaptureSlots
<1>1. CASE \E c \in ColumnsNow : ~c.we /\ c.at + RDD = x.at /\ w = H[c.at][Target(c, RowsNow)]
  <2>1. PICK c \in ColumnsNow : ~c.we /\ c.at + RDD = x.at /\ w = H[c.at][Target(c, RowsNow)]
    BY <1>1
  <2>2. c.at \in 0 .. COLS - 1 /\ c.at \in Nat
    BY <1>0, Plan DEF ColumnSlots
  <2>3. CASE c.at > 0
    <3>1. [c EXCEPT !.at = c.at - 1] \in col'
      BY <1>0, <2>3 DEF ShiftSlots
    <3>2. PICK d \in col' : d.at = c.at - 1 /\ d.we = c.we /\ d.ba = c.ba /\ d.col = c.col
      BY <1>0, <3>1 DEF ColumnSlots
    <3>3. Later(H)[d.at] = H[c.at]
      BY <2>2, <2>3, <3>2, Plan DEF Later, Edges
    <3>4. Target(d, RowsNext') = Target(c, RowsNow)
      BY <1>0, <2>3, <3>2, RowsStay DEF Target
    <3>5. q.at >= RDD /\ d.at + RDD = q.at
      BY <1>0, <2>1, <2>2, <2>3, <3>2, CapturePlan
    <3> QED
      BY <2>1, <3>2, <3>3, <3>4, <3>5 DEF Fetched
  <2>4. CASE c.at = 0
    <3>1. SendColumn
      BY <1>0, <2>4, NothingDue
    <3>2. c \in col /\ RowsNow = RowsNext
      BY <3>1 DEF SendColumn, ColumnsNow, RowsNow, AccessIssue
    <3>3. pins' = [cmd |-> "READ", ba |-> c.ba, col |-> c.col, ap |-> c.ap, mask |-> c.mask, d |-> c.d]
      BY <2>1, <2>4, <3>1, <3>2, ColumnOnPins
    <3>4. Addressed' = Target(c, RowsNow)
      BY <1>0, <3>2, <3>3, Decoded, SlotTypes DEF Addressed, Target, BusInv
    <3>5. H[0] = array'
      BY <1>0, Decoded
    <3>6. q.at + 1 = RDD
      BY <1>0, <2>1, <2>4, CapturePlan
    <3> QED
      BY <2>1, <2>4, <3>3, <3>4, <3>5, <3>6 DEF Fetched
  <2> QED
    BY <2>2, <2>3, <2>4
<1>2. CASE x.at + 1 = RDD /\ pins.cmd = "READ" /\ w = array[Addressed]
  <2>1. Aged(Entering) \in rpipe'
    BY <1>0, <1>2, PipeMoves, TimingAssumption DEF Entering
  <2>2. Aged(Entering).age = 1 /\ Aged(Entering).data = w
    BY <1>2 DEF Aged, Entering
  <2>3. q.at + 1 < RDD /\ 1 + q.at + 1 = RDD
    BY <1>0, <1>2, CapturePlan
  <2> QED
    BY <2>1, <2>2, <2>3 DEF Fetched
<1>3. CASE x.at + 1 < RDD /\ \E p \in rpipe : p.age + x.at + 1 = RDD /\ w = p.data
  <2>1. PICK p \in rpipe : p.age + x.at + 1 = RDD /\ w = p.data
    BY <1>3
  <2>2. p.age \in Nat /\ p.age <= CL
    BY <1>0, <2>1, PipeMoves, CapturePlan, ReadDelayAssumption, TimingAssumption
  <2>3. Aged(p) \in rpipe' /\ Aged(p).age = p.age + 1 /\ Aged(p).data = w
    BY <1>0, <2>1, <2>2, PipeMoves DEF ReadsNow, Aged
  <2>4. q.at + 1 < RDD /\ (p.age + 1) + q.at + 1 = RDD
    BY <1>0, <1>3, <2>1, <2>2, CapturePlan
  <2> QED
    BY <2>3, <2>4 DEF Fetched
<1> QED
  BY <1>1, <1>2, <1>3 DEF FetchedNow

\* The word that is due now is in the controller's input register next.
LEMMA WordSampled ==
  ASSUME BusInv, PlanInv, ChipClock, NEW H, NEW x, x.at = 0, NEW w \in Word, FetchedNow(x, w, H)
  PROVE  dq_in_q' = w
<1>1. PICK p \in rpipe : p.age + 1 = RDD /\ w = p.data
  <2>1. ~(x.at >= RDD) /\ ~(x.at + 1 = RDD)
    BY CapturePlan
  <2>2. PICK p \in rpipe : p.age + x.at + 1 = RDD /\ w = p.data
    BY <2>1 DEF FetchedNow
  <2>3. p.age \in 1 .. CL + 1
    BY PipeMoves
  <2>4. p.age + x.at + 1 = p.age + 1
    BY <2>3, TimingAssumption
  <2> QED
    BY <2>2, <2>4
<1>2. p.age = CL /\ p.mask = {}
  BY <1>1, PipeMoves, ReadDelayAssumption, TimingAssumption
<1>3. \A r \in rpipe : r.age = CL => r = p
  BY <1>2 DEF PlanInv
<1>4. dq_in_q' = OnPins(p)
  BY <1>2, <1>3 DEF ChipClock, SampleDq
<1>5. OnPins(p) = [l \in Lanes |-> w[l]]
  BY <1>1, <1>2 DEF OnPins
<1> QED
  BY <1>4, <1>5 DEF Word


(***************************************************************************)
(* A read is captured                                                      *)
(***************************************************************************)

LEMMA ReadFields ==
  ASSUME NEW o \in Offered \cup {NoOp}, o.kind = "read"
  PROVE  /\ o.n \in 1 .. 4 /\ o.tag \in Tags /\ Burst(o.n) = 0 .. o.n - 1
         /\ \A i \in Burst(o.n) : Memory!Location(o, i) \in Locations
<1>1. IsRequest(o) /\ o \in Reads
  BY OfferedAssumption DEF NoOp, Refresh, IsRequest, Writes
<1>2. o.n \in 1 .. 4 /\ o.tag \in Tags /\ o.bank \in Banks /\ o.row \in Rows
  BY <1>1, GeometryAssumption DEF Reads
<1> QED
  BY <1>1, <1>2 DEF IsRequest, InRow, Burst, Memory!Location, Locations

\* The words that are promised to an operation, by its kind.
LEMMA WordsPromised ==
  ASSUME NEW o \in Offered \cup {NoOp}, NEW m \in [Locations -> Word]
  PROVE  /\ Memory!ReadWords(o, m) \in Seq(Words)
         /\ o.kind # "read" => Memory!ReadWords(o, m) = <<>>
         /\ o.kind = "read" =>
              /\ Len(Memory!ReadWords(o, m)) = o.n
              /\ \A i \in Burst(o.n) :
                   Memory!ReadWords(o, m)[i + 1] =
                     [tag |-> o.tag, last |-> i = o.n - 1, data |-> m[Memory!Location(o, i)]]
<1>1. CASE o.kind # "read"
  BY <1>1 DEF Memory!ReadWords
<1>2. CASE o.kind = "read"
  <2> DEFINE W == [i \in 1 .. o.n |-> [tag |-> o.tag, last |-> i = o.n,
                                       data |-> m[Memory!Location(o, i - 1)]]]
  <2>1. Memory!ReadWords(o, m) = W
    BY <1>2 DEF Memory!ReadWords
  <2>2. o.n \in 1 .. 4 /\ o.n \in Nat /\ o.tag \in Tags /\ Burst(o.n) = 0 .. o.n - 1
    BY <1>2, ReadFields
  <2>3. \A i \in 1 .. o.n : W[i] \in Words
    <3> SUFFICES ASSUME NEW i \in 1 .. o.n PROVE W[i] \in Words
      OBVIOUS
    <3>1. i - 1 \in Burst(o.n)
      BY <2>2
    <3>2. m[Memory!Location(o, i - 1)] \in Word
      BY <1>2, <3>1, ReadFields
    <3> QED
      BY <2>2, <3>2 DEF Words
  <2>4. W \in [1 .. o.n -> Words]
    BY <2>3
  <2>5. W \in Seq(Words) /\ Len(W) = o.n
    <3> HIDE DEF W
    <3> QED
      BY <2>2, <2>4
  <2>6. ASSUME NEW i \in Burst(o.n)
        PROVE  W[i + 1] = [tag |-> o.tag, last |-> i = o.n - 1, data |-> m[Memory!Location(o, i)]]
    <3>1. i + 1 \in 1 .. o.n /\ (i + 1) - 1 = i /\ (i + 1 = o.n <=> i = o.n - 1)
      BY <2>2
    <3> QED
      BY <3>1
  <2> HIDE DEF W
  <2> QED
    BY <1>2, <2>1, <2>5, <2>6
<1> QED
  BY <1>1, <1>2

\* The capture that is due is the one that the controller announces.
LEMMA CaptureAnnounced ==
  ASSUME CtrlClock, NEW K, Sized(K, rdq)
  PROVE  /\ rd'.valid <=> \E q \in rdq : q.at = 0
         /\ \A q \in rdq : q.at = 0 => rd' = [valid |-> TRUE, tag |-> q.tag, last |-> q.last]
<1>1. CaptureRead
  BY DEF CtrlClock, PowerUp, IssueAccess, IssueRefresh, SendColumn, Wait
<1>2. CASE \E q \in rdq : q.at = 0
  <2>1. PICK q \in rdq : q.at = 0
    BY <1>2
  <2>2. \A x \in rdq : x.at = 0 => x = q
    BY <2>1 DEF Sized
  <2>3. (CHOOSE x \in rdq : x.at = 0) = q
    BY <2>1, <2>2
  <2>4. rd' = [valid |-> TRUE, tag |-> q.tag, last |-> q.last]
    BY <1>1, <1>2, <2>3 DEF CaptureRead
  <2> QED
    BY <1>2, <2>2, <2>4
<1>3. CASE ~ \E q \in rdq : q.at = 0
  BY <1>1, <1>3 DEF CaptureRead, NoRead
<1> QED
  BY <1>2, <1>3

\* The words that are due, on a clock on which d of them (none or one) returns.
LEMMA DueMoves ==
  ASSUME Record, NEW W \in Seq(Words), W = Memory!ReadWords(Captured, mem),
         due \in Seq(Words), NEW d \in {0, 1}, d <= Len(due), rd'.valid <=> d = 1
  PROVE  /\ due' \in Seq(Words) /\ Len(due') = Len(due) - d + Len(W)
         /\ \A j \in 1 .. Len(due) - d : due'[j] = due[j + d]
         /\ \A j \in 1 .. Len(W) : due'[Len(due) - d + j] = W[j]
<1> DEFINE D == IF d = 1 THEN Tail(due) ELSE due
<1>1. Len(due) \in Nat /\ Len(W) \in Nat /\ (d = 1 => due # <<>>)
  BY LenProperties, EmptySeq
<1>2. D \in Seq(Words) /\ Len(D) = Len(due) - d /\ \A j \in 1 .. Len(D) : D[j] = due[j + d]
  <2>1. CASE d = 1
    BY <1>1, <2>1, HeadTailProperties
  <2>2. CASE d = 0
    BY <1>1, <2>2, LenProperties
  <2> QED
    BY <2>1, <2>2
<1>3. due' = D \o W
  BY <1>1 DEF Record
<1> HIDE DEF D
<1>4. /\ due' \in Seq(Words) /\ Len(due') = Len(D) + Len(W)
      /\ \A j \in 1 .. Len(D) + Len(W) : due'[j] = IF j <= Len(D) THEN D[j] ELSE W[j - Len(D)]
  BY <1>2, <1>3, ConcatProperties
<1>5. Len(D) \in Nat
  BY <1>2, LenProperties
<1>6. ASSUME NEW j \in 1 .. Len(due) - d PROVE due'[j] = due[j + d]
  <2>1. j \in 1 .. Len(D) /\ j \in 1 .. Len(D) + Len(W) /\ j <= Len(D)
    BY <1>1, <1>2, <1>5
  <2> QED
    BY <1>2, <1>4, <2>1
<1>7. ASSUME NEW j \in 1 .. Len(W) PROVE due'[Len(due) - d + j] = W[j]
  <2>1. Len(D) + j \in 1 .. Len(D) + Len(W) /\ ~(Len(D) + j <= Len(D)) /\ (Len(D) + j) - Len(D) = j
    BY <1>1, <1>5
  <2> QED
    BY <1>2, <1>4, <2>1
<1> QED
  BY <1>2, <1>4, <1>6, <1>7


\* The captures with the operation inserted, if it goes now.
LEMMA CountsInserted ==
  ASSUME BusInv, PlanInv, NEW H, NEW K, ReadsPlanned(H, K)
  PROVE  /\ Counts(CountsNow(K), SlotsNow) /\ Sized(CountsNow(K), SlotsNow)
         /\ CountsNow(K)[1] = K[1] /\ K[1] \in {0, 1} /\ K[1] <= K[RDQ]
         /\ K[RDQ] \in Nat /\ CountsNow(K)[RDQ] \in Nat
         /\ AccessIssue /\ op.kind = "read" => CountsNow(K)[RDQ] = Len(due)
         /\ ~(AccessIssue /\ op.kind = "read") => CountsNow(K) = K
<1>0. /\ Counts(K, rdq) /\ Sized(K, rdq) /\ rdq \subseteq CaptureSlots /\ op \in Offered \cup {NoOp}
      /\ Len(due) = K[RDQ] + Held
  BY DEF ReadsPlanned, BusInv, TypeInv, CtrlTypeOK
<1>1. K[1] \in {0, 1} /\ K[1] <= K[RDQ] /\ K[RDQ] \in Nat
  <2>1. 1 \in Captures /\ RDQ \in Captures /\ 1 <= RDQ
    BY CapturePlan DEF Captures
  <2> QED
    BY <1>0, <2>1, CountsDue DEF Counts
<1>2. CASE AccessIssue /\ op.kind = "read"
  <2>1. CountsNow(K) = More(K) /\ SlotsNow = rdq \cup BookedReads
    BY <1>2 DEF CountsNow, SlotsNow
  <2>2. \A q \in rdq : q.at < FirstCapture
    <3>1. \A q \in rdq : Fetched(q, due[K[q.at] + 1].data, H)
      BY DEF ReadsPlanned, Owed
    <3> QED
      BY <1>2, <3>1, CapturesBelow DEF BusInv
  <2>3. /\ Counts(More(K), rdq \cup BookedReads) /\ More(K)[RDQ] = K[RDQ] + op.n
        /\ \A t \in 0 .. FirstCapture : More(K)[t] = K[t]
    BY <1>0, <1>2, <2>2, CountsBooked
  <2>4. Sized(More(K), rdq \cup BookedReads)
    BY <1>0, <1>2, <2>2, SizedBooked
  <2>5. More(K)[1] = K[1]
    BY <2>3, CapturePlan
  <2>6. op.n \in 1 .. 4
    BY <1>0, <1>2, ReadFields
  <2> QED
    BY <1>0, <1>1, <1>2, <2>1, <2>3, <2>4, <2>5, <2>6 DEF Held
<1>3. CASE ~(AccessIssue /\ op.kind = "read")
  BY <1>0, <1>1, <1>3 DEF CountsNow, SlotsNow
<1> QED
  BY <1>2, <1>3

\* The words of the captures with the operation inserted, if it goes now.
LEMMA OwedNow ==
  ASSUME BusInv, BusInv', PlanInv, BusNext, mem \in [Locations -> Word],
         NEW H, WritesPlanned(H), NEW K, ReadsPlanned(H, K),
         NEW L, L = CountsNow(K), NEW x \in SlotsNow
  PROVE  /\ L[x.at] \in Nat /\ L[x.at] + 1 <= Len(due) /\ Len(due) \in Nat
         /\ due[L[x.at] + 1].tag = x.tag /\ due[L[x.at] + 1].last = x.last
         /\ FetchedNow(x, due[L[x.at] + 1].data, RunsNow(H))
<1>0. /\ Counts(K, rdq) /\ rdq \subseteq CaptureSlots /\ op \in Offered \cup {NoOp}
      /\ Len(due) = K[RDQ] + Held /\ K[RDQ] \in Nat /\ CtrlClock /\ ChipClock
  <2>1. K[RDQ] \in Nat
    BY CountsInserted
  <2> QED
    BY <2>1 DEF ReadsPlanned, BusInv, TypeInv, CtrlTypeOK, BusNext
<1>1. Held \in 0 .. 4 /\ Len(due) \in Nat
  <2>1. Held \in 0 .. 4
    BY <1>0, ReadFields DEF Held
  <2> QED
    BY <1>0, <2>1
<1>2. CASE x \in rdq
  <2>1. Owed(x, due[K[x.at] + 1], H)
    BY <1>2 DEF ReadsPlanned
  <2>2. L[x.at] = K[x.at]
    <3>1. CASE AccessIssue /\ op.kind = "read"
      <4>1. x.at \in 0 .. FirstCapture /\ \A q \in rdq : q.at < FirstCapture
        <5>1. \A q \in rdq : Fetched(q, due[K[q.at] + 1].data, H)
          BY DEF ReadsPlanned, Owed
        <5>2. \A q \in rdq : q.at < FirstCapture
          BY <3>1, <5>1, CapturesBelow DEF BusInv
        <5> QED
          BY <1>0, <1>2, <5>2, CapturePlan DEF CaptureSlots
      <4>2. L = More(K)
        BY <3>1 DEF CountsNow
      <4>3. \A t \in 0 .. FirstCapture : More(K)[t] = K[t]
        BY <1>0, <3>1, <4>1, CountsBooked
      <4> QED
        BY <4>1, <4>2, <4>3
    <3>2. CASE ~(AccessIssue /\ op.kind = "read")
      BY <3>2 DEF CountsNow
    <3> QED
      BY <3>1, <3>2
  <2>3. K[x.at] \in Nat /\ K[x.at] + 1 <= K[RDQ]
    <3>1. x.at \in Captures /\ x.at + 1 \in Captures /\ RDQ \in Captures /\ x.at + 1 <= RDQ
      BY <1>0, <1>2, CapturePlan DEF CaptureSlots, Captures
    <3> QED
      BY <1>0, <1>2, <3>1 DEF Counts
  <2>4. FetchedNow(x, due[K[x.at] + 1].data, RunsNow(H))
    BY <1>0, <1>2, <2>1, FetchedBefore DEF Owed
  <2> QED
    BY <1>0, <1>1, <2>1, <2>2, <2>3, <2>4 DEF Owed
<1>3. CASE x \notin rdq
  <2>1. AccessIssue /\ op.kind = "read" /\ x \in BookedReads
    BY <1>3 DEF SlotsNow
  <2>2. PICK i \in Burst(op.n) : x = ReadSlot(i)
    BY <2>1 DEF BookedReads
  <2>3. i \in 0 .. 3 /\ i + 1 <= op.n /\ op.n \in 1 .. 4 /\ x.tag = op.tag /\ (x.last <=> i = op.n - 1)
    BY <1>0, <2>1, <2>2, SlotOf, ReadFields DEF IsAccess
  <2>4. L[x.at] = K[RDQ] + i
    <3>1. \A q \in rdq : Fetched(q, due[K[q.at] + 1].data, H)
      BY DEF ReadsPlanned, Owed
    <3>2. \A q \in rdq : q.at < FirstCapture
      BY <2>1, <3>1, CapturesBelow DEF BusInv
    <3>3. L = More(K)
      BY <2>1 DEF CountsNow
    <3> QED
      BY <1>0, <2>1, <2>2, <3>2, <3>3, CountsBooked
  <2>5. due[L[x.at] + 1] = Promised(i)
    BY <2>1, <2>4 DEF ReadsPlanned
  <2>6. FetchedNow(x, mem[Memory!Location(op, i)], RunsNow(H))
    BY <1>0, <2>1, <2>2, FetchedBooked
  <2>7. x.last \in BOOLEAN /\ x.last = (i = op.n - 1)
    BY <2>2 DEF ReadSlot
  <2> QED
    BY <1>0, <1>1, <2>1, <2>3, <2>4, <2>5, <2>6, <2>7 DEF Promised, Held
<1> QED
  BY <1>2, <1>3


\* One clock of the captures and of the words that they are owed.
LEMMA ReadsStep ==
  ASSUME BusInv, BusInv', PlanInv, BusNext, Record,
         mem \in [Locations -> Word], due \in Seq(Words),
         NEW H, WritesPlanned(H), NEW K, ReadsPlanned(H, K),
         NEW G, G = RunsNow(H), NEW L, L = CountsNow(K)
  PROVE  ReadsPlanned(Later(G), Advance(L))' /\ due' \in Seq(Words)
<1> DEFINE d == K[1]
           W == Memory!ReadWords(Captured, mem)
           A == Advance(L)
<1>0. /\ CtrlClock /\ ChipClock /\ NextOp /\ TypeInv /\ TypeInv'
      /\ op \in Offered \cup {NoOp} /\ op' \in Offered \cup {NoOp} /\ Captured \in Offered \cup {NoOp}
      /\ Sized(K, rdq) /\ Counts(K, rdq) /\ Len(due) = K[RDQ] + Held
      /\ mem' = Memory!Written(Captured, mem)
  <2>1. CtrlClock /\ ChipClock /\ NextOp /\ TypeInv /\ TypeInv'
    BY DEF BusNext, BusInv
  <2>2. Captured \in Offered \cup {NoOp}
    BY <2>1, CapturedFacts
  <2> QED
    BY <2>1, <2>2 DEF TypeInv, ReadsPlanned, Record
<1>1. /\ Counts(L, SlotsNow) /\ Sized(L, SlotsNow) /\ L[1] = d /\ d \in {0, 1} /\ d <= K[RDQ]
      /\ K[RDQ] \in Nat /\ L[RDQ] \in Nat
      /\ AccessIssue /\ op.kind = "read" => L[RDQ] = Len(due)
      /\ ~(AccessIssue /\ op.kind = "read") => L = K
  BY CountsInserted
<1>2. rdq' = ShiftSlots(SlotsNow) /\ SlotsNow \subseteq CaptureSlots
  BY <1>0, TablesMove
<1>3. Counts(A, rdq') /\ Sized(A, rdq') /\ A[RDQ] = L[RDQ] - d
  BY <1>1, <1>2, CountsShift, SizedShift
<1>4. Held \in 0 .. 4 /\ Len(due) \in Nat /\ d <= Len(due)
  <2>1. Held \in 0 .. 4
    BY <1>0, ReadFields DEF Held
  <2> QED
    BY <1>0, <1>1, <2>1
<1>5. /\ due' \in Seq(Words) /\ Len(due') = Len(due) - d + Len(W) /\ Len(W) \in Nat
      /\ \A j \in 1 .. Len(due) - d : due'[j] = due[j + d]
      /\ \A j \in 1 .. Len(W) : due'[Len(due) - d + j] = W[j]
  <2>1. W \in Seq(Words)
    BY <1>0, WordsPromised
  <2>2. rd'.valid <=> d = 1
    <3>1. rdq \subseteq CaptureSlots
      BY <1>0 DEF TypeInv, CtrlTypeOK
    <3> QED
      BY <1>0, <3>1, CaptureAnnounced, CountsDue
  <2>3. Len(W) \in Nat
    BY <2>1, LenProperties
  <2>4. d \in {0, 1} /\ d <= Len(due)
    BY <1>1, <1>4
  <2> QED
    BY <2>1, <2>2, <2>3, <2>4, DueMoves
<1>6. ASSUME NEW q \in rdq' PROVE Owed(q, due[A[q.at] + 1], Later(G))'
  <2>1. PICK x \in SlotsNow : x.at > 0 /\ q.at = x.at - 1 /\ q.tag = x.tag /\ q.last = x.last
    BY <1>2, ShiftedCapture
  <2>2. /\ L[x.at] \in Nat /\ L[x.at] + 1 <= Len(due)
        /\ due[L[x.at] + 1].tag = x.tag /\ due[L[x.at] + 1].last = x.last
        /\ FetchedNow(x, due[L[x.at] + 1].data, G)
    BY OwedNow
  <2>3. A[q.at] = L[x.at] - d /\ d <= L[x.at]
    <3>1. /\ x.at \in Captures /\ q.at \in Captures /\ q.at < RDQ /\ q.at + 1 = x.at
          /\ 1 \in Captures /\ 1 <= x.at
      BY <1>2, <2>1, CapturePlan DEF CaptureSlots, Captures
    <3>2. L[1] <= L[x.at]
      BY <1>1, <3>1 DEF Counts
    <3> QED
      BY <1>1, <3>1, <3>2 DEF Advance
  <2>4. due'[A[q.at] + 1] = due[L[x.at] + 1]
    <3>1. A[q.at] + 1 \in 1 .. Len(due) - d /\ (A[q.at] + 1) + d = L[x.at] + 1
      BY <1>1, <1>4, <2>2, <2>3
    <3> QED
      BY <1>5, <3>1
  <2>5. Runs(G, ColumnsNow, RowsNow) /\ G[0] = ArrayNext
    BY <1>0, WritesBooked
  <2>6. \A v : FetchedNow(x, v, G) => Fetched(q, v, Later(G))'
    BY <2>1, <2>5, FetchedStep
  <2>7. Fetched(q, due[A[q.at] + 1].data, Later(G))'
    BY <2>2, <2>4, <2>6
  <2> QED
    BY <2>1, <2>2, <2>4, <2>7 DEF Owed
<1>7. OpFree => L[RDQ] = Len(due)
  <2>1. CASE AccessIssue /\ op.kind = "read"
    BY <1>1, <2>1
  <2>2. CASE ~(AccessIssue /\ op.kind = "read")
    <3>1. OpFree => op.kind # "read"
      BY <1>0, <2>2, CapturedFacts DEF OpFree, OpIssue, RefreshIssue, NoOp, Refresh
    <3> QED
      BY <1>0, <1>1, <2>2, <3>1 DEF Held
  <2> QED
    BY <2>1, <2>2
<1>8. ~OpFree => L = K /\ op' = op /\ mem' = mem /\ W = <<>>
  <2>1. ~OpFree => op' = op /\ Captured = NoOp /\ ~AccessIssue
    BY <1>0, CapturedFacts DEF PlanInv
  <2>2. NoOp.kind # "read" /\ ~(NoOp.kind = "write")
    BY DEF NoOp
  <2> QED
    BY <1>0, <1>1, <2>1, <2>2, WordsPromised, NotWritten
<1>9. OpFree => W = Memory!ReadWords(op', mem) \/ (W = <<>> /\ ~IsAccess(op)')
  <2>1. NoOp.kind # "read"
    BY DEF NoOp
  <2> QED
    BY <1>0, <2>1, CapturedFacts, WordsPromised
<1>10. Len(due') = A[RDQ] + Held'
  <2>0. Len(<<>>) = 0
    OBVIOUS
  <2>1. CASE ~OpFree
    BY <1>0, <1>1, <1>3, <1>4, <1>5, <1>8, <2>0, <2>1 DEF Held
  <2>2. CASE OpFree
    <3>1. Len(W) = Held'
      BY <1>0, <1>9, <2>0, <2>2, WordsPromised DEF Held, IsAccess
    <3> QED
      BY <1>1, <1>3, <1>4, <1>5, <1>7, <2>2, <3>1
  <2> QED
    BY <2>1, <2>2
<1>11. ASSUME op'.kind = "read", NEW i \in Burst(op'.n)
       PROVE  due'[A[RDQ] + i + 1] = Promised(i)'
  <2>0. op'.n \in 1 .. 4 /\ i \in 0 .. 3 /\ i + 1 \in 1 .. op'.n
    BY <1>0, <1>11, ReadFields
  <2>1. CASE ~OpFree
    <3>1. A[RDQ] + i + 1 \in 1 .. Len(due) - d /\ (A[RDQ] + i + 1) + d = K[RDQ] + i + 1
      <4>1. Held = op'.n /\ A[RDQ] = K[RDQ] - d
        BY <1>1, <1>3, <1>8, <1>11, <2>1 DEF Held
      <4>2. Len(due) = K[RDQ] + op'.n
        BY <1>0, <4>1
      <4>3. d \in {0, 1} /\ d <= K[RDQ] /\ K[RDQ] \in Nat
        BY <1>1
      <4>4. \A k, n, e \in Nat : \A j \in 0 .. n - 1 :
              e <= k => (k - e) + j + 1 \in 1 .. (k + n) - e /\ ((k - e) + j + 1) + e = k + j + 1
        OBVIOUS
      <4>5. i \in 0 .. op'.n - 1 /\ op'.n \in Nat /\ d \in Nat
        BY <2>0, <4>3
      <4> HIDE DEF A, d
      <4> QED
        BY <4>1, <4>2, <4>3, <4>4, <4>5
    <3>2. due[K[RDQ] + i + 1] = Promised(i)
      BY <1>8, <1>11, <2>1 DEF ReadsPlanned
    <3>3. Promised(i)' = Promised(i)
      BY <1>8, <2>1 DEF Promised, Memory!Location
    <3> QED
      BY <1>5, <3>1, <3>2, <3>3
  <2>2. CASE OpFree
    <3>1. Captured = op' /\ W = Memory!ReadWords(op', mem)
      BY <1>0, <1>11, <2>2, CapturedFacts DEF IsAccess
    <3>2. Len(W) = op'.n /\ W[i + 1] = [tag |-> op'.tag, last |-> i = op'.n - 1,
                                        data |-> mem[Memory!Location(op', i)]]
      BY <1>0, <1>11, <3>1, WordsPromised
    <3>3. mem' = mem
      BY <1>0, <1>11, <3>1, NotWritten
    <3>4. A[RDQ] + i + 1 = Len(due) - d + (i + 1) /\ i + 1 \in 1 .. Len(W)
      BY <1>1, <1>3, <1>4, <1>7, <2>0, <2>2, <3>2
    <3>5. due'[A[RDQ] + i + 1] = W[i + 1]
      BY <1>5, <3>4
    <3> QED
      BY <3>2, <3>3, <3>5 DEF Promised, Memory!Location
  <2> QED
    BY <2>1, <2>2
<1> HIDE DEF A
<1>12. ReadsPlanned(Later(G), A)'
  BY <1>3, <1>6, <1>10, <1>11 DEF ReadsPlanned
<1> QED
  BY <1>5, <1>12 DEF A


\* The word that is due at the head is the one that comes back.
LEMMA HeadReturned ==
  ASSUME BusInv, BusInv', PlanInv, BusNext, mem \in [Locations -> Word], due \in Seq(Words),
         NEW H, WritesPlanned(H), NEW K, ReadsPlanned(H, K), rd'.valid
  PROVE  due # <<>> /\ Returned' = Memory!Return(Head(due))
<1>0. /\ CtrlClock /\ ChipClock /\ Sized(K, rdq) /\ Counts(K, rdq) /\ rdq \subseteq CaptureSlots
  BY DEF BusNext, ReadsPlanned, BusInv, TypeInv, CtrlTypeOK
<1>1. PICK q \in rdq : q.at = 0 /\ rd' = [valid |-> TRUE, tag |-> q.tag, last |-> q.last]
  BY <1>0, CaptureAnnounced
<1> DEFINE L == CountsNow(K)
<1>2. q \in SlotsNow
  BY DEF SlotsNow
<1>3. L[0] = 0
  <2>1. Counts(CountsNow(K), SlotsNow)
    BY CountsInserted
  <2> QED
    BY <2>1 DEF Counts
<1>4. /\ L[q.at] + 1 <= Len(due) /\ Len(due) \in Nat
      /\ due[L[q.at] + 1].tag = q.tag /\ due[L[q.at] + 1].last = q.last
      /\ FetchedNow(q, due[L[q.at] + 1].data, RunsNow(H))
  BY <1>2, OwedNow
<1> HIDE DEF L
<1>5. 1 <= Len(due) /\ due[1].tag = q.tag /\ due[1].last = q.last
      /\ FetchedNow(q, due[1].data, RunsNow(H))
  BY <1>1, <1>3, <1>4
<1>6. due # <<>> /\ Head(due) = due[1] /\ due[1] \in Words
  <2>1. 1 \in 1 .. Len(due)
    BY <1>4, <1>5
  <2>2. due[1] \in Words
    BY <2>1, ElementOfSeq
  <2>3. due # <<>>
    BY <1>5, EmptySeq
  <2> QED
    BY <2>2, <2>3
<1>7. dq_in_q' = due[1].data
  <2>1. due[1].data \in Word
    BY <1>6 DEF Words
  <2> QED
    BY <1>0, <1>1, <1>5, <2>1, WordSampled
<1>8. Returned' = [valid |-> TRUE, tag |-> q.tag, last |-> q.last, data |-> dq_in_q']
  BY <1>1 DEF Returned
<1> QED
  BY <1>5, <1>6, <1>7, <1>8 DEF Memory!Return

(***************************************************************************)
(* The refinement                                                          *)
(***************************************************************************)

LEMMA MemoryInit == ASSUME MemInit PROVE PlanInv /\ MemInv
<1>0. /\ BusInit /\ mem = array /\ due = <<>> /\ op = NoOp /\ col = {} /\ rdq = {} /\ pins = Nop
      /\ rpipe = {} /\ init_state = "WAIT" /\ array \in [Locations -> Word]
  BY DEF MemInit, BusInit, CtrlInit, ChipInit
<1>1. PlanInv
  BY <1>0 DEF PlanInv
<1> DEFINE H == [t \in Edges |-> array]
           K == [t \in Captures |-> 0]
<1>2. 0 \in Edges /\ COLS \in Edges /\ 0 \in Captures /\ RDQ \in Captures
  BY Plan, CapturePlan DEF Edges, Captures
<1>3. WritesPlanned(H)
  <2>1. ArrayNext = array
    BY <1>0 DEF ArrayNext, Nop
  <2>2. Memory!Written(NoOp, array) = array
    BY <1>0, NotWritten DEF NoOp
  <2> QED
    BY <1>0, <1>2, <2>1, <2>2 DEF WritesPlanned, Runs
<1>4. ReadsPlanned(H, K)
  <2>1. Counts(K, rdq)
    BY <1>0, <1>2 DEF Counts
  <2>2. Sized(K, rdq)
    BY <1>0, <1>2, FS_EmptySet DEF Sized
  <2>3. Len(due) = K[RDQ] + Held
    BY <1>0, <1>2 DEF Held, NoOp
  <2> HIDE DEF K, H
  <2> QED
    BY <1>0, <2>1, <2>2, <2>3 DEF ReadsPlanned, NoOp
<1>5. due \in Seq(Words)
  BY <1>0, EmptySeq
<1> HIDE DEF H, K
<1> QED
  BY <1>0, <1>1, <1>3, <1>4, <1>5 DEF MemInv

LEMMA MemoryStep ==
  ASSUME BusInv, BusInv', PlanInv, MemInv, MemNext
  PROVE  PlanInv' /\ MemInv'
<1>0. BusNext /\ Record /\ mem \in [Locations -> Word] /\ due \in Seq(Words)
  BY DEF MemNext, MemInv
<1>1. PICK H, K : WritesPlanned(H) /\ ReadsPlanned(H, K)
  BY DEF MemInv
<1>2. PICK G, L : G = RunsNow(H) /\ L = CountsNow(K)
  OBVIOUS
<1>3. WritesPlanned(Later(G))' /\ mem' \in [Locations -> Word]
  BY <1>0, <1>1, <1>2, WritesStep
<1>4. ReadsPlanned(Later(G), Advance(L))' /\ due' \in Seq(Words)
  BY <1>0, <1>1, <1>2, ReadsStep
<1>5. PlanInv'
  BY <1>0, PlanStep
<1> QED
  BY <1>3, <1>4, <1>5 DEF MemInv

LEMMA MemoryStutter ==
  ASSUME PlanInv, MemInv, UNCHANGED <<busVars, mem, due>>
  PROVE  PlanInv' /\ MemInv'
<1>1. UNCHANGED <<op, pins, init_state, col, rdq, open, act_age, array, rpipe, mem, due>>
  BY DEF busVars, ctrlVars, chipVars
<1>2. PlanInv'
  BY <1>1 DEF PlanInv, init_done
<1>3. RowsNext' = RowsNext /\ ArrayNext' = ArrayNext /\ Addressed' = Addressed
  BY <1>1 DEF RowsNext, OpenNext, Opens, Closes, ArrayNext, Addressed
<1>4. PICK H, K : WritesPlanned(H) /\ ReadsPlanned(H, K)
  BY DEF MemInv
<1>5. WritesPlanned(H)'
  BY <1>1, <1>3, <1>4 DEF WritesPlanned, Memory!Written, Memory!Location
<1>6. ReadsPlanned(H, K)'
  <2>1. \A q, w : Owed(q, w, H) => Owed(q, w, H)'
    BY <1>1, <1>3 DEF Owed, Fetched
  <2>2. Held' = Held /\ \A i : Promised(i)' = Promised(i)
    BY <1>1 DEF Held, Promised, Memory!Location
  <2> QED
    BY <1>1, <1>4, <2>1, <2>2 DEF ReadsPlanned
<1> QED
  BY <1>1, <1>2, <1>5, <1>6 DEF MemInv

\* The histories only watch the bus.
LEMMA HistoriesWatch == MemSpec => BusSpec
<1>1. MemInit => BusInit
  BY DEF MemInit
<1>2. [MemNext]_<<busVars, mem, due>> => [BusNext]_busVars
  BY DEF MemNext
<1> QED
  BY <1>1, <1>2, PTL DEF MemSpec, BusSpec

LEMMA BusInvariant == MemSpec => []BusInv
<1>1. TypeInv /\ DqInv /\ TimingInv => BusInv
  BY DEF BusInv
<1> QED
  BY <1>1, HistoriesWatch, TypeInvariant, DqInvariant, TimingInvariant, PTL

LEMMA MemoryInvariant == MemSpec => [](PlanInv /\ MemInv)
<1>1. MemInit => PlanInv /\ MemInv
  BY MemoryInit
<1>2. BusInv /\ BusInv' /\ (PlanInv /\ MemInv) /\ [MemNext]_<<busVars, mem, due>> =>
        (PlanInv /\ MemInv)'
  BY MemoryStep, MemoryStutter
<1> QED
  BY <1>1, <1>2, BusInvariant, PTL DEF MemSpec

\* Every clock performs the operation that it captures, and returns the oldest
\* word that is due, or none.
LEMMA StepPerforms ==
  ASSUME BusInv, BusInv', PlanInv, MemInv, MemNext
  PROVE  Memory!Next
<1>0. BusNext /\ Record /\ mem \in [Locations -> Word] /\ due \in Seq(Words)
  BY DEF MemNext, MemInv
<1>1. PICK H, K : WritesPlanned(H) /\ ReadsPlanned(H, K)
  BY DEF MemInv
<1>2. Captured \in Offered \cup {NoOp}
  BY <1>0, CapturedFacts DEF BusNext, BusInv
<1>3. mem' = Memory!Written(Captured, mem)
  BY <1>0 DEF Record
<1>4. CASE rd'.valid
  <2>1. due # <<>> /\ Returned' = Memory!Return(Head(due))
    BY <1>0, <1>1, <1>4, HeadReturned
  <2>2. due' = Tail(due) \o Memory!ReadWords(Captured, mem)
    BY <1>0, <1>4, <2>1 DEF Record
  <2> QED
    BY <1>2, <1>3, <2>1, <2>2 DEF Memory!Next, Memory!Perform, Memory!NoOp, NoOp
<1>5. CASE ~rd'.valid
  <2>1. Returned' = Memory!NoWord
    BY <1>5 DEF Returned, Memory!NoWord
  <2>2. due' = due \o Memory!ReadWords(Captured, mem)
    BY <1>0, <1>5 DEF Record
  <2> QED
    BY <1>2, <1>3, <2>1, <2>2 DEF Memory!Next, Memory!Perform, Memory!NoOp, NoOp
<1> QED
  BY <1>4, <1>5

\* The words that come back from the chip, their order, their tags and their
\* last flags are those of a memory that performs the operations one at a time,
\* at the moment each enters the controller's holding register.
THEOREM MemoryImplemented == MemSpec => ImplementsSerialMemory
<1>1. MemInit => Memory!Init
  BY DEF MemInit, BusInit, CtrlInit, ChipInit, Locations, Memory!Init, Returned, NoRead, Memory!NoWord,
         Memory!Word, Word, Memory!Lanes, Lanes
<1>2. BusInv /\ BusInv' /\ (PlanInv /\ MemInv) /\ [MemNext]_<<busVars, mem, due>> =>
        [Memory!Next]_Memory!memVars
  <2>1. UNCHANGED <<busVars, mem, due>> => UNCHANGED Memory!memVars
    BY DEF busVars, ctrlVars, chipVars, Memory!memVars, Returned
  <2> QED
    BY <2>1, StepPerforms
<1> QED
  BY <1>1, <1>2, BusInvariant, MemoryInvariant, PTL DEF MemSpec, ImplementsSerialMemory, Memory!Spec


\* Nothing promised is lost: as many captures are booked as words are due, and
\* once no column command is on its way the array is what the operations wrote.
THEOREM NothingPromisedLost == MemSpec => []NothingLost
<1>1. BusInv /\ PlanInv /\ MemInv => NothingLost
  <2> SUFFICES ASSUME BusInv, PlanInv, MemInv PROVE NothingLost
    OBVIOUS
  <2>1. PICK H, K : WritesPlanned(H) /\ ReadsPlanned(H, K)
    BY DEF MemInv
  <2>2. Len(due) = Cardinality(rdq) + Held
    BY <2>1 DEF ReadsPlanned, Sized
  <2>3. ASSUME Quiet PROVE array = mem
    <3>1. H[0] = array /\ 0 \in Edges /\ COLS \in Edges /\ 0 <= COLS
      BY <2>1, <2>3, Plan DEF WritesPlanned, ArrayNext, Quiet, Edges
    <3>2. H[0] = H[COLS]
      BY <2>1, <2>3, <3>1 DEF WritesPlanned, Runs, Quiet
    <3>3. H[COLS] \in [Locations -> Word] /\ op \in Offered \cup {NoOp}
      BY <2>1, <3>1 DEF WritesPlanned, Runs, BusInv, TypeInv
    <3>4. mem = H[COLS]
      BY <2>1, <2>3, <3>3, NotWritten DEF WritesPlanned, Quiet, IsAccess
    <3> QED
      BY <3>1, <3>2, <3>4
  <2> QED
    BY <2>2, <2>3 DEF NothingLost, Held
<1> QED
  BY <1>1, BusInvariant, MemoryInvariant, PTL

\* The rules of the chip hold of the controller that keeps this promise: its
\* commands are legal, DQ has one driver, and no read word is masked.
THEOREM BusRulesKept == MemSpec => [](CommandsLegal /\ NoContention /\ NoMaskedRead)
BY HistoriesWatch, CommandsAllowed, ContentionFree, ReadsUnmasked, PTL

===============================================================================
