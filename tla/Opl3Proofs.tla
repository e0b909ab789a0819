------------------------------ MODULE Opl3Proofs ------------------------------
(***************************************************************************)
(* The OPL3 model, for every ring and every program.                       *)
(*                                                                         *)
(* First the ring: writes are made in the order in which they were asked   *)
(* for (Fits), and so far apart that a sample makes no more than one       *)
(* (Timed).  Then the chip: what each register write does to levels, keys, *)
(* pitches and routes (Effects, WriteDoes), what a sample does             *)
(* (CalcDoes), what both keep of the chip and of the history of its writes *)
(* (History), and from that the properties.                                *)
(***************************************************************************)
EXTENDS Opl3, TLAPS, FiniteSetTheorems, WellFoundedInduction

AllWrites == UNION { Programs[p].writes : p \in DOMAIN Programs }

\* The place m places after cur.
At(cur, m) == (cur + m) % OPL_WRITEBUF_SIZE

\* The ring buf holds the writes ws, from cur on, and nothing else.
Fits(buf, cur, last, ws) ==
  /\ DOMAIN buf = Places
  /\ cur \in Places
  /\ ws \in Seq(AllWrites) /\ Len(ws) <= OPL_WRITEBUF_SIZE
  /\ last = At(cur, Len(ws))
  /\ \A m \in Places :
       /\ m < Len(ws) => buf[At(cur, m)].valid = TRUE /\ buf[At(cur, m)].write = ws[m + 1]
       /\ ~(m < Len(ws)) => buf[At(cur, m)].valid = FALSE

RingInv == program \in DOMAIN Programs /\ Fits(writebuf, writebuf_cur, writebuf_last, asked)

\* A place keeps its write.
Keeps(old, new) ==
  /\ old.valid = TRUE => new.valid = TRUE /\ new.write = old.write
  /\ old.valid = FALSE => new.valid = FALSE

(***************************************************************************)
(* Places                                                                  *)
(***************************************************************************)
LEMMA Wraps ==
  ASSUME NEW N \in Nat \ {0}, NEW a \in 0 .. 2 * N - 1
  PROVE  a % N = IF a < N THEN a ELSE a - N
OBVIOUS

LEMMA PlaceOf ==
  ASSUME NEW cur \in Places, NEW m \in 0 .. OPL_WRITEBUF_SIZE
  PROVE  /\ At(cur, m) = IF cur + m < OPL_WRITEBUF_SIZE THEN cur + m
                         ELSE cur + m - OPL_WRITEBUF_SIZE
         /\ At(cur, m) \in Places
<1>1. /\ OPL_WRITEBUF_SIZE \in Nat \ {0} /\ cur \in 0 .. OPL_WRITEBUF_SIZE - 1
      /\ cur + m \in 0 .. 2 * OPL_WRITEBUF_SIZE - 1
  BY RingAssumption DEF Places
<1>2. At(cur, m) = IF cur + m < OPL_WRITEBUF_SIZE THEN cur + m ELSE cur + m - OPL_WRITEBUF_SIZE
  <2>1. PICK a \in 0 .. 2 * OPL_WRITEBUF_SIZE - 1 : a = cur + m
    BY <1>1
  <2>2. At(cur, m) = a % OPL_WRITEBUF_SIZE
    BY <2>1 DEF At
  <2>3. a % OPL_WRITEBUF_SIZE = IF a < OPL_WRITEBUF_SIZE THEN a ELSE a - OPL_WRITEBUF_SIZE
    BY <1>1, Wraps
  <2>4. QED
    BY <1>1, <2>1, <2>2, <2>3
<1>3. At(cur, m) \in 0 .. OPL_WRITEBUF_SIZE - 1
  BY <1>1, <1>2
<1>4. QED
  BY <1>2, <1>3 DEF Places

\* Every place is the one of a single number.
LEMMA PlacesNumbered ==
  ASSUME NEW cur \in Places
  PROVE  /\ \A m, n \in Places : At(cur, m) = At(cur, n) => m = n
         /\ \A i \in Places : \E m \in Places : At(cur, m) = i
<1>1. OPL_WRITEBUF_SIZE \in Nat \ {0}
  BY RingAssumption
<1>2. \A m \in Places : At(cur, m) = IF cur + m < OPL_WRITEBUF_SIZE THEN cur + m
                                     ELSE cur + m - OPL_WRITEBUF_SIZE
  BY <1>1, PlaceOf DEF Places
<1>3. \A m, n \in Places : At(cur, m) = At(cur, n) => m = n
  BY <1>1, <1>2 DEF Places
<1>4. ASSUME NEW i \in Places PROVE \E m \in Places : At(cur, m) = i
  <2>1. CASE i >= cur
    <3>1. i - cur \in Places /\ At(cur, i - cur) = i
      BY <1>1, <1>2, <2>1 DEF Places
    <3>2. QED
      BY <3>1
  <2>2. CASE i < cur
    <3>1. i - cur + OPL_WRITEBUF_SIZE \in Places /\ At(cur, i - cur + OPL_WRITEBUF_SIZE) = i
      BY <1>1, <1>2, <2>2 DEF Places
    <3>2. QED
      BY <3>1
  <2>3. QED
    BY <2>1, <2>2 DEF Places
<1>5. QED
  BY <1>3, <1>4

\* What is counted from the place of d.
LEMMA Shifted ==
  ASSUME NEW cur \in Places, NEW d \in 0 .. OPL_WRITEBUF_SIZE, NEW m \in 0 .. OPL_WRITEBUF_SIZE
  PROVE  /\ d + m <= OPL_WRITEBUF_SIZE => At(At(cur, d), m) = At(cur, d + m)
         /\ d + m > OPL_WRITEBUF_SIZE =>
              At(At(cur, d), m) = At(cur, d + m - OPL_WRITEBUF_SIZE)
<1>1. OPL_WRITEBUF_SIZE \in Nat \ {0} /\ cur \in 0 .. OPL_WRITEBUF_SIZE - 1
  BY RingAssumption DEF Places
<1>2. PICK c \in Places : c = At(cur, d)
  BY PlaceOf
<1>3. c = IF cur + d < OPL_WRITEBUF_SIZE THEN cur + d ELSE cur + d - OPL_WRITEBUF_SIZE
  BY <1>2, PlaceOf
<1>4. At(c, m) = IF c + m < OPL_WRITEBUF_SIZE THEN c + m ELSE c + m - OPL_WRITEBUF_SIZE
  BY PlaceOf
<1>5. ASSUME NEW e \in 0 .. OPL_WRITEBUF_SIZE,
             e = d + m \/ e = d + m - OPL_WRITEBUF_SIZE
      PROVE  At(c, m) = At(cur, e)
  <2>1. At(cur, e) = IF cur + e < OPL_WRITEBUF_SIZE THEN cur + e ELSE cur + e - OPL_WRITEBUF_SIZE
    BY PlaceOf
  <2>2. CASE e = d + m
    BY <1>1, <1>2, <1>3, <1>4, <2>1, <2>2 DEF Places
  <2>3. CASE e = d + m - OPL_WRITEBUF_SIZE
    BY <1>1, <1>2, <1>3, <1>4, <2>1, <2>3 DEF Places
  <2>4. QED
    BY <1>5, <2>2, <2>3
<1>6. d + m <= OPL_WRITEBUF_SIZE => d + m \in 0 .. OPL_WRITEBUF_SIZE
  BY <1>1
<1>7. d + m > OPL_WRITEBUF_SIZE => d + m - OPL_WRITEBUF_SIZE \in 0 .. OPL_WRITEBUF_SIZE
  BY <1>1
<1>8. QED
  BY <1>2, <1>5, <1>6, <1>7

(***************************************************************************)
(* The ring                                                                *)
(***************************************************************************)
\* As many places are taken as writes are waiting.
LEMMA TakenCount ==
  ASSUME NEW buf, NEW cur, NEW last, NEW ws, Fits(buf, cur, last, ws)
  PROVE  Cardinality({i \in Places : buf[i].valid}) = Len(ws)
<1> DEFINE n == Len(ws)
           T == {i \in Places : buf[i].valid}
           f == [j \in 1 .. n |-> At(cur, j - 1)]
<1>1. n \in Nat /\ n <= OPL_WRITEBUF_SIZE /\ OPL_WRITEBUF_SIZE \in Nat \ {0} /\ cur \in Places
  BY RingAssumption DEF Fits
<1>2. \A j \in 1 .. n : j - 1 \in Places
  BY <1>1 DEF Places
<1>3. \A j \in 1 .. n : At(cur, j - 1) \in T
  <2>1. ASSUME NEW j \in 1 .. n PROVE At(cur, j - 1) \in T
    <3>1. j - 1 \in Places /\ j - 1 < n
      BY <1>1, <1>2
    <3>2. At(cur, j - 1) \in Places
      BY <1>1, <3>1, PlaceOf DEF Places
    <3>3. QED
      BY <3>1, <3>2 DEF Fits
  <2>2. QED
    BY <2>1
<1>4. ASSUME NEW i \in T PROVE \E j \in 1 .. n : At(cur, j - 1) = i
  <2>1. PICK m \in Places : At(cur, m) = i
    BY <1>1, PlacesNumbered
  <2>2. m < n
    BY <2>1 DEF Fits
  <2>3. PICK j \in 1 .. n : j - 1 = m
    BY <1>1, <2>2 DEF Places
  <2>4. QED
    BY <2>1, <2>3
<1>5. \A j, k \in 1 .. n : At(cur, j - 1) = At(cur, k - 1) => j = k
  BY <1>1, <1>2, PlacesNumbered
<1>6. f \in Bijection(1 .. n, T)
  <2>1. f \in [1 .. n -> T]
    BY <1>3
  <2>2. IsInjective(f)
    BY <1>5 DEF IsInjective
  <2>3. \A t \in T : \E j \in 1 .. n : f[j] = t
    BY <1>4
  <2>4. f \in Injection(1 .. n, T)
    BY <2>1, <2>2 DEF Injection
  <2>5. f \in Surjection(1 .. n, T)
    BY <2>1, <2>3 DEF Surjection
  <2>6. QED
    BY <2>4, <2>5 DEF Bijection
<1>7. ExistsBijection(1 .. n, T)
  BY <1>6 DEF ExistsBijection
<1>8. QED
  BY <1>1, <1>7, FS_CountingElements

\* The place after the last write is free unless the ring is full.
LEMMA LastPlace ==
  ASSUME NEW buf, NEW cur, NEW last, NEW ws, Fits(buf, cur, last, ws)
  PROVE  /\ last \in Places
         /\ buf[last].valid => Len(ws) = OPL_WRITEBUF_SIZE /\ last = cur
         /\ ~buf[last].valid => Len(ws) < OPL_WRITEBUF_SIZE
<1> DEFINE n == Len(ws)
<1>1. n \in 0 .. OPL_WRITEBUF_SIZE /\ OPL_WRITEBUF_SIZE \in Nat \ {0} /\ cur \in Places
  BY RingAssumption DEF Fits
<1>2. last = At(cur, n) /\ last \in Places
  BY <1>1, PlaceOf DEF Fits
<1>3. CASE n < OPL_WRITEBUF_SIZE
  <2>1. n \in Places
    BY <1>1, <1>3 DEF Places
  <2>2. buf[At(cur, n)].valid = FALSE
    BY <1>1, <2>1 DEF Fits
  <2>3. QED
    BY <1>2, <1>3, <2>2
<1>4. CASE n = OPL_WRITEBUF_SIZE
  <2>1. At(cur, n) = cur /\ At(cur, 0) = cur
    BY <1>1, <1>4, PlaceOf DEF Places
  <2>2. 0 \in Places /\ 0 < n
    BY <1>1, <1>4 DEF Places
  <2>3. buf[cur].valid = TRUE
    BY <2>1, <2>2 DEF Fits
  <2>4. QED
    BY <1>2, <1>4, <2>1, <2>3
<1>5. QED
  BY <1>1, <1>3, <1>4

\* A write into a free place.
LEMMA PutFree ==
  ASSUME NEW buf, NEW cur, NEW last, NEW ws, Fits(buf, cur, last, ws),
         Len(ws) < OPL_WRITEBUF_SIZE,
         NEW w \in AllWrites, NEW new, DOMAIN new = Places,
         new[last].valid = TRUE, new[last].write = w,
         \A i \in Places \ {last} : Keeps(buf[i], new[i])
  PROVE  Fits(new, cur, After(last), Append(ws, w))
<1> DEFINE n == Len(ws)
           N == OPL_WRITEBUF_SIZE
           ws1 == Append(ws, w)
<1>1. /\ N \in Nat \ {0} /\ n \in 0 .. N /\ n + 1 \in 0 .. N /\ 1 \in 0 .. N
      /\ n \in Places /\ cur \in Places /\ ws \in Seq(AllWrites) /\ last = At(cur, n)
  BY RingAssumption DEF Fits, Places
<1>2. /\ ws1 \in Seq(AllWrites) /\ Len(ws1) = n + 1 /\ ws1[n + 1] = w
      /\ \A m \in 1 .. n : ws1[m] = ws[m]
  BY <1>1
<1>3. After(last) = At(cur, n + 1)
  <2>1. After(last) = At(last, 1)
    BY DEF After, At
  <2>2. QED
    BY <1>1, <2>1, Shifted
<1>4. ASSUME NEW m \in Places
      PROVE  /\ m < n + 1 => new[At(cur, m)].valid = TRUE /\ new[At(cur, m)].write = ws1[m + 1]
             /\ ~(m < n + 1) => new[At(cur, m)].valid = FALSE
  <2>1. m \in 0 .. N - 1 /\ m \in 0 .. N
    BY <1>1 DEF Places
  <2>2. At(cur, m) \in Places
    BY <1>1, <2>1, PlaceOf
  <2>3. CASE m = n
    BY <1>1, <1>2, <2>3
  <2>4. CASE m # n
    <3>1. At(cur, m) # last
      BY <1>1, <2>4, PlacesNumbered
    <3>2. Keeps(buf[At(cur, m)], new[At(cur, m)])
      BY <2>2, <3>1
    <3>3. (m < n + 1) <=> (m < n)
      BY <1>1, <2>1, <2>4
    <3>4. m < n => ws1[m + 1] = ws[m + 1]
      BY <1>1, <1>2, <2>1
    <3>5. /\ m < n => buf[At(cur, m)].valid = TRUE /\ buf[At(cur, m)].write = ws[m + 1]
          /\ ~(m < n) => buf[At(cur, m)].valid = FALSE
      BY DEF Fits
    <3>6. QED
      BY <3>2, <3>3, <3>4, <3>5 DEF Keeps
  <2>5. QED
    BY <2>3, <2>4
<1>5. Len(ws1) <= N
  BY <1>1, <1>2
<1>6. QED
  BY <1>1, <1>2, <1>3, <1>4, <1>5 DEF Fits

\* A write into a full ring takes the place of the oldest.
LEMMA PutFull ==
  ASSUME NEW buf, NEW cur, NEW last, NEW ws, Fits(buf, cur, last, ws),
         Len(ws) = OPL_WRITEBUF_SIZE, last = cur,
         NEW w \in AllWrites, NEW new, DOMAIN new = Places,
         new[last].valid = TRUE, new[last].write = w,
         \A i \in Places \ {last} : Keeps(buf[i], new[i])
  PROVE  Fits(new, After(last), After(last), Append(Tail(ws), w))
<1> DEFINE N == OPL_WRITEBUF_SIZE
           ws1 == Append(Tail(ws), w)
           c == After(last)
<1>1. /\ N \in Nat \ {0} /\ 1 \in 0 .. N /\ N \in 0 .. N /\ 0 \in Places /\ 0 \in 0 .. N
      /\ cur \in Places /\ ws \in Seq(AllWrites) /\ Len(ws) = N
  BY RingAssumption DEF Fits, Places
<1>2. /\ ws1 \in Seq(AllWrites) /\ Len(ws1) = N /\ ws1[N] = w
      /\ \A m \in 1 .. N - 1 : ws1[m] = ws[m + 1]
  BY <1>1
<1>3. c = At(cur, 1) /\ c \in Places
  BY <1>1, PlaceOf DEF After, At
<1>4. c = At(c, N)
  BY <1>1, <1>3, PlaceOf DEF Places
<1>5. ASSUME NEW m \in Places
      PROVE  new[At(c, m)].valid = TRUE /\ new[At(c, m)].write = ws1[m + 1]
  <2>1. m \in 0 .. N - 1 /\ m \in 0 .. N /\ m + 1 \in 0 .. N
    BY <1>1 DEF Places
  <2>2. At(c, m) = At(cur, m + 1)
    <3>1. 1 + m = m + 1 /\ 1 + m <= N
      BY <1>1, <2>1
    <3>2. At(At(cur, 1), m) = At(cur, 1 + m)
      BY <1>1, <2>1, <3>1, Shifted
    <3>3. QED
      BY <1>3, <3>1, <3>2
  <2>3. CASE m = N - 1
    <3>1. m + 1 = N
      BY <1>1, <2>1, <2>3
    <3>2. At(cur, N) = cur
      BY <1>1, PlaceOf DEF Places
    <3>3. QED
      BY <1>2, <2>2, <3>1, <3>2
  <2>4. CASE m # N - 1
    <3>1. m + 1 \in Places /\ m + 1 # 0 /\ m + 1 < N /\ m + 1 \in 1 .. N - 1 /\ m + 1 + 1 = m + 2
      BY <1>1, <2>1, <2>4 DEF Places
    <3>2. At(cur, 0) = cur /\ At(cur, m + 1) \in Places
      <4>1. At(cur, 0) = cur
        BY <1>1, PlaceOf DEF Places
      <4>2. At(cur, m + 1) \in Places
        BY <1>1, <2>1, PlaceOf
      <4>3. QED
        BY <4>1, <4>2
    <3>3. At(cur, m + 1) # last
      BY <1>1, <3>1, <3>2, PlacesNumbered
    <3>4. Keeps(buf[At(cur, m + 1)], new[At(cur, m + 1)])
      BY <3>2, <3>3
    <3>5. buf[At(cur, m + 1)].valid = TRUE /\ buf[At(cur, m + 1)].write = ws[m + 1 + 1]
      BY <3>1 DEF Fits
    <3>6. ws1[m + 1] = ws[m + 1 + 1]
      BY <1>2, <3>1
    <3>7. QED
      BY <2>2, <3>4, <3>5, <3>6 DEF Keeps
  <2>5. QED
    BY <2>3, <2>4
<1>6. \A m \in Places : m < Len(ws1)
  BY <1>1, <1>2 DEF Places
<1>7. Len(ws1) <= N
  BY <1>1, <1>2
<1>8. QED
  BY <1>2, <1>3, <1>4, <1>5, <1>6, <1>7 DEF Fits

\* The first d writes taken out.
LEMMA TakeOut ==
  ASSUME NEW buf, NEW cur, NEW last, NEW ws, Fits(buf, cur, last, ws),
         NEW d \in 0 .. Len(ws), NEW new, DOMAIN new = Places,
         \A m \in 0 .. d - 1 : new[At(cur, m)].valid = FALSE,
         \A m \in Places : m >= d => Keeps(buf[At(cur, m)], new[At(cur, m)])
  PROVE  Fits(new, At(cur, d), last, SubSeq(ws, d + 1, Len(ws)))
<1> DEFINE n == Len(ws)
           N == OPL_WRITEBUF_SIZE
           ws1 == SubSeq(ws, d + 1, n)
           c == At(cur, d)
<1>1. /\ N \in Nat \ {0} /\ n \in 0 .. N /\ d \in 0 .. n /\ d \in 0 .. N /\ n - d \in 0 .. N
      /\ cur \in Places /\ ws \in Seq(AllWrites) /\ last = At(cur, n)
  BY RingAssumption DEF Fits
<1>2. c \in Places
  BY <1>1, PlaceOf
<1>3. /\ ws1 \in Seq(AllWrites) /\ Len(ws1) = n - d
      /\ \A m \in 1 .. n - d : ws1[m] = ws[d + m]
  BY <1>1
<1>4. At(c, n - d) = last
  <2>1. d + (n - d) = n /\ d + (n - d) <= N
    BY <1>1
  <2>2. At(At(cur, d), n - d) = At(cur, d + (n - d))
    BY <1>1, <2>1, Shifted
  <2>3. QED
    BY <1>1, <2>1, <2>2
<1>5. ASSUME NEW m \in Places
      PROVE  /\ m < n - d => new[At(c, m)].valid = TRUE /\ new[At(c, m)].write = ws1[m + 1]
             /\ ~(m < n - d) => new[At(c, m)].valid = FALSE
  <2>1. m \in 0 .. N - 1 /\ m \in 0 .. N
    BY <1>1 DEF Places
  <2>2. CASE d + m < N
    <3>1. PICK e \in Places : e = d + m /\ e >= d
      BY <1>1, <2>1, <2>2 DEF Places
    <3>2. At(c, m) = At(cur, e)
      <4>1. d + m <= N
        BY <1>1, <2>1, <2>2
      <4>2. QED
        BY <1>1, <2>1, <3>1, <4>1, Shifted
    <3>3. Keeps(buf[At(cur, e)], new[At(cur, e)])
      BY <3>1
    <3>4. (m < n - d) <=> (e < n)
      BY <1>1, <2>1, <3>1
    <3>5. m < n - d => ws1[m + 1] = ws[e + 1]
      <4>1. ASSUME m < n - d PROVE m + 1 \in 1 .. n - d /\ d + (m + 1) = e + 1
        BY <1>1, <2>1, <3>1, <4>1
      <4>2. QED
        BY <1>3, <4>1
    <3>6. /\ e < n => buf[At(cur, e)].valid = TRUE /\ buf[At(cur, e)].write = ws[e + 1]
          /\ ~(e < n) => buf[At(cur, e)].valid = FALSE
      BY DEF Fits
    <3>7. QED
      BY <3>2, <3>3, <3>4, <3>5, <3>6 DEF Keeps
  <2>3. CASE d + m >= N
    <3>1. PICK e \in 0 .. d - 1 : e = d + m - N
      BY <1>1, <2>1, <2>3
    <3>2. At(c, m) = At(cur, e)
      <4>1. CASE d + m > N
        BY <1>1, <2>1, <3>1, <4>1, Shifted
      <4>2. CASE d + m = N
        <5>1. e = 0 /\ d + m <= N /\ 0 \in 0 .. N /\ N \in 0 .. N
          BY <1>1, <2>1, <3>1, <4>2
        <5>2. At(cur, N) = At(cur, 0)
          BY <1>1, <5>1, PlaceOf DEF Places
        <5>3. At(At(cur, d), m) = At(cur, d + m)
          BY <1>1, <2>1, <5>1, Shifted
        <5>4. QED
          BY <4>2, <5>1, <5>2, <5>3
      <4>3. QED
        BY <1>1, <2>1, <2>3, <4>1, <4>2
    <3>3. ~(m < n - d)
      BY <1>1, <2>1, <2>3
    <3>4. new[At(cur, e)].valid = FALSE
      BY <3>1
    <3>5. new[At(c, m)].valid = FALSE
      BY <3>2, <3>4
    <3>6. QED
      BY <3>3, <3>5
  <2>4. d + m < N \/ d + m >= N
    BY <1>1, <2>1
  <2>5. QED
    BY <2>2, <2>3, <2>4
<1>6. Len(ws1) <= N
  BY <1>1, <1>3
<1>7. QED
  BY <1>2, <1>3, <1>4, <1>5, <1>6 DEF Fits

(***************************************************************************)
(* The calls                                                               *)
(***************************************************************************)
LEMMA InitRing == ASSUME Init PROVE RingInv
<1>1. 0 \in Places /\ OPL_WRITEBUF_SIZE \in Nat \ {0} /\ 0 \in 0 .. OPL_WRITEBUF_SIZE
  BY RingAssumption DEF Places
<1>2. writebuf_cur = 0 /\ writebuf_last = 0 /\ asked = <<>> /\ program \in DOMAIN Programs
  BY DEF Init
<1>3. writebuf = NoWrites
  BY DEF Init
<1>4. /\ DOMAIN writebuf = Places /\ Len(asked) = 0 /\ Len(asked) <= OPL_WRITEBUF_SIZE
      /\ asked \in Seq(AllWrites)
  BY <1>1, <1>2, <1>3 DEF NoWrites
<1>5. At(writebuf_cur, Len(asked)) = 0
  BY <1>1, <1>2, <1>4, PlaceOf DEF Places
<1>6. ASSUME NEW m \in Places
      PROVE  writebuf[At(writebuf_cur, m)].valid = FALSE /\ ~(m < Len(asked))
  <2>1. At(writebuf_cur, m) \in Places
    BY <1>1, <1>2, PlaceOf DEF Places
  <2>2. writebuf[At(writebuf_cur, m)].valid = FALSE
    BY <1>3, <2>1 DEF NoWrites, NoWrite
  <2>3. ~(m < Len(asked))
    BY <1>1, <1>4 DEF Places
  <2>4. QED
    BY <2>2, <2>3
<1>7. QED
  BY <1>1, <1>2, <1>4, <1>5, <1>6 DEF RingInv, Fits

LEMMA WriteNowRing ==
  ASSUME RingInv, NEW w \in Programs[program].writes, WriteRegNow(w)
  PROVE  RingInv'
BY DEF RingInv, Fits, At, WriteRegNow, ring

\* The place before the write is made keeps what it holds, its time apart.
LEMMA MovedKeeps ==
  ASSUME RingInv, NEW i \in Places
  PROVE  Keeps(writebuf[i], Moved[i])
<1>1. CASE writebuf[i].valid = TRUE
  <2>1. Moved[i] = [writebuf[i] EXCEPT !.time = @ - Jump]
    BY <1>1 DEF Moved
  <2>2. QED
    BY <1>1, <2>1 DEF Keeps
<1>2. CASE writebuf[i].valid = FALSE
  BY <1>2 DEF Moved, NoWrite, Keeps
<1>3. QED
  BY <1>1, <1>2 DEF Keeps

LEMMA WriteRing ==
  ASSUME RingInv, NEW w \in Programs[program].writes, WriteRegBuffered(w)
  PROVE  RingInv'
<1>1. /\ Fits(writebuf, writebuf_cur, writebuf_last, asked) /\ writebuf_last \in Places
      /\ program \in DOMAIN Programs /\ w \in AllWrites
  BY LastPlace DEF RingInv, AllWrites
<1>2. /\ writebuf' = [Moved EXCEPT ![writebuf_last] =
                        [valid |-> TRUE, time |-> WriteTime, write |-> w]]
      /\ writebuf_last' = After(writebuf_last) /\ program' = program
      /\ writebuf_cur' = CurAfterWrite
      /\ asked' = Append(IF Oldest.valid THEN Tail(asked) ELSE asked, w)
  BY DEF WriteRegBuffered
<1>3. DOMAIN Moved = Places
  BY DEF Moved
<1>4. /\ DOMAIN writebuf' = Places
      /\ writebuf'[writebuf_last].valid = TRUE /\ writebuf'[writebuf_last].write = w
  BY <1>1, <1>2, <1>3
<1>5. \A i \in Places \ {writebuf_last} : Keeps(writebuf[i], writebuf'[i])
  <2>1. ASSUME NEW i \in Places \ {writebuf_last} PROVE Keeps(writebuf[i], writebuf'[i])
    <3>1. writebuf'[i] = Moved[i]
      BY <1>2, <1>3, <2>1
    <3>2. QED
      BY <3>1, MovedKeeps
  <2>2. QED
    BY <2>1
<1>6. Fits(writebuf', writebuf_cur', writebuf_last', asked')
  <2>1. CASE Oldest.valid
    <3>1. Len(asked) = OPL_WRITEBUF_SIZE /\ writebuf_last = writebuf_cur
      BY <1>1, <2>1, LastPlace DEF Oldest
    <3>2. Fits(writebuf', After(writebuf_last), After(writebuf_last), Append(Tail(asked), w))
      BY <1>1, <1>4, <1>5, <3>1, PutFull
    <3>3. writebuf_cur' = After(writebuf_last) /\ asked' = Append(Tail(asked), w)
      BY <1>2, <2>1 DEF CurAfterWrite
    <3>4. QED
      BY <1>2, <3>2, <3>3
  <2>2. CASE ~Oldest.valid
    <3>1. Len(asked) < OPL_WRITEBUF_SIZE
      BY <1>1, <2>2, LastPlace DEF Oldest
    <3>2. Fits(writebuf', writebuf_cur, After(writebuf_last), Append(asked, w))
      BY <1>1, <1>4, <1>5, <3>1, PutFree
    <3>3. writebuf_cur' = writebuf_cur /\ asked' = Append(asked, w)
      BY <1>2, <2>2 DEF CurAfterWrite
    <3>4. QED
      BY <1>2, <3>2, <3>3
  <2>3. QED
    BY <2>1, <2>2
<1>7. QED
  BY <1>1, <1>2, <1>6 DEF RingInv, Fits, At

\* There is a first place that is not ready.
LEMMA DrainStops ==
  ASSUME RingInv
  PROVE  \E n \in 0 .. OPL_WRITEBUF_SIZE :
           /\ \A m \in 0 .. n - 1 : Ready(From(m))
           /\ n = OPL_WRITEBUF_SIZE \/ ~Ready(From(n))
<1> DEFINE N == OPL_WRITEBUF_SIZE
           Stop == {n \in 0 .. N : n = N \/ ~Ready(From(n))}
<1>1. N \in Nat \ {0} /\ N \in 0 .. N
  BY RingAssumption
<1>2. PICK n \in Stop : \A m \in Stop : ~(<<m, n>> \in OpToRel(<, Nat))
  <2>1. Stop \subseteq Nat /\ Stop # {}
    BY <1>1
  <2>2. QED
    BY <2>1, NatLessThanWellFounded, WFMin
<1>3. n \in 0 .. N /\ (n = N \/ ~Ready(From(n)))
  BY <1>2
<1>4. \A m \in 0 .. n - 1 : Ready(From(m))
  <2>1. ASSUME NEW m \in 0 .. n - 1 PROVE Ready(From(m))
    <3>1. m \in 0 .. N /\ m # N /\ m < n /\ n \in Nat /\ m \in Nat
      BY <1>1, <1>3
    <3>2. <<m, n>> \in OpToRel(<, Nat)
      BY <3>1 DEF OpToRel
    <3>3. QED
      BY <1>2, <3>1, <3>2
  <2>2. QED
    BY <2>1
<1>5. QED
  BY <1>3, <1>4

\* A sample takes out no more than was asked for.
LEMMA DrainedRange ==
  ASSUME RingInv
  PROVE  /\ Drained \in 0 .. Len(asked)
         /\ \A m \in 0 .. Drained - 1 : Ready(From(m))
<1> DEFINE N == OPL_WRITEBUF_SIZE
<1>1. /\ N \in Nat \ {0} /\ Len(asked) \in 0 .. N /\ writebuf_cur \in Places
  BY RingAssumption DEF RingInv, Fits
<1>5. /\ Drained \in 0 .. N
      /\ \A m \in 0 .. Drained - 1 : Ready(From(m))
  BY DrainStops DEF Drained
<1>6. Drained <= Len(asked)
  <2>1. SUFFICES ASSUME Drained > Len(asked) PROVE FALSE
    BY <1>1, <1>5
  <2>2. Len(asked) \in 0 .. Drained - 1 /\ Len(asked) \in Places
    BY <1>1, <1>5, <2>1 DEF Places
  <2>3. Ready(From(Len(asked)))
    BY <1>5, <2>2
  <2>4. writebuf[At(writebuf_cur, Len(asked))].valid = FALSE
    BY <1>1, <2>2 DEF RingInv, Fits
  <2>5. QED
    BY <2>3, <2>4 DEF Ready, From, At
<1>7. QED
  BY <1>1, <1>5, <1>6

LEMMA GenerateRing ==
  ASSUME RingInv, NEW clk, Generate(clk)
  PROVE  RingInv'
<1>1. PICK d \in 0 .. Len(asked) : d = Drained
  BY DrainedRange
<1>2. /\ OPL_WRITEBUF_SIZE \in Nat \ {0} /\ Len(asked) \in 0 .. OPL_WRITEBUF_SIZE
      /\ writebuf_cur \in Places /\ program \in DOMAIN Programs
      /\ Fits(writebuf, writebuf_cur, writebuf_last, asked)
  BY RingAssumption DEF RingInv, Fits
<1> DEFINE places == {From(m) : m \in 0 .. d - 1}
<1>3. /\ writebuf' = [i \in Places |-> IF i \in places \/ ~writebuf[i].valid THEN NoWrite
                                      ELSE [writebuf[i] EXCEPT !.time = @ - 1]]
      /\ writebuf_cur' = From(d) /\ writebuf_last' = writebuf_last /\ program' = program
      /\ asked' = SubSeq(asked, d + 1, Len(asked))
  BY <1>1 DEF Generate
<1>4. From(d) = At(writebuf_cur, d)
  BY DEF From, At
<1>5. DOMAIN writebuf' = Places
  BY <1>3
<1>6. \A m \in 0 .. d - 1 : writebuf'[At(writebuf_cur, m)].valid = FALSE
  <2>1. ASSUME NEW m \in 0 .. d - 1 PROVE writebuf'[At(writebuf_cur, m)].valid = FALSE
    <3>1. m \in 0 .. OPL_WRITEBUF_SIZE
      BY <1>2
    <3>2. At(writebuf_cur, m) \in Places
      BY <1>2, <3>1, PlaceOf
    <3>3. At(writebuf_cur, m) \in places
      BY DEF From, At
    <3>4. QED
      BY <1>3, <3>2, <3>3 DEF NoWrite
  <2>2. QED
    BY <2>1
<1>7. \A m \in Places : m >= d =>
        Keeps(writebuf[At(writebuf_cur, m)], writebuf'[At(writebuf_cur, m)])
  <2>1. ASSUME NEW m \in Places, m >= d
        PROVE  Keeps(writebuf[At(writebuf_cur, m)], writebuf'[At(writebuf_cur, m)])
    <3>1. m \in 0 .. OPL_WRITEBUF_SIZE
      BY <1>2 DEF Places
    <3>2. PICK i \in Places : i = At(writebuf_cur, m)
      BY <1>2, <3>1, PlaceOf
    <3>3. i \notin places
      <4>1. ASSUME NEW e \in 0 .. d - 1 PROVE From(e) # i
        <5>1. e \in Places /\ e # m
          BY <1>2, <2>1 DEF Places
        <5>2. At(writebuf_cur, e) # At(writebuf_cur, m)
          BY <1>2, <5>1, PlacesNumbered
        <5>3. QED
          BY <3>2, <5>2 DEF From, At
      <4>2. QED
        BY <4>1
    <3>4. CASE writebuf[i].valid = TRUE
      <4>1. writebuf'[i] = [writebuf[i] EXCEPT !.time = @ - 1]
        BY <1>3, <3>3, <3>4
      <4>2. QED
        BY <3>2, <3>4, <4>1 DEF Keeps
    <3>5. CASE writebuf[i].valid = FALSE
      BY <1>3, <3>2, <3>5 DEF Keeps, NoWrite
    <3>6. QED
      BY <3>2, <3>4, <3>5 DEF Keeps
  <2>2. QED
    BY <2>1
<1>8. Fits(writebuf', At(writebuf_cur, d), writebuf_last, SubSeq(asked, d + 1, Len(asked)))
  BY <1>1, <1>2, <1>5, <1>6, <1>7, TakeOut
<1>9. Fits(writebuf', writebuf_cur', writebuf_last', asked')
  BY <1>3, <1>4, <1>8
<1>10. QED
  BY <1>2, <1>3, <1>9 DEF RingInv, Fits, At

LEMMA NextRing == ASSUME RingInv, [Next]_vars PROVE RingInv'
<1>1. CASE Next
  BY <1>1, WriteNowRing, WriteRing, GenerateRing DEF Next
<1>2. CASE UNCHANGED vars
  BY <1>2 DEF RingInv, Fits, At, vars, ring, history
<1>3. QED
  BY <1>1, <1>2

(***************************************************************************)
(* What holds of every run                                                 *)
(***************************************************************************)
LEMMA RingOrdered == ASSUME RingInv PROVE WritesInOrder
<1>1. /\ Fits(writebuf, writebuf_cur, writebuf_last, asked)
      /\ Len(asked) \in Nat /\ Len(asked) <= OPL_WRITEBUF_SIZE
      /\ OPL_WRITEBUF_SIZE \in Nat \ {0}
  BY RingAssumption DEF RingInv, Fits
<1>2. Cardinality({i \in Places : writebuf[i].valid}) = Len(asked)
  BY <1>1, TakenCount
<1>3. \A m \in 0 .. Len(asked) - 1 :
        writebuf[From(m)].valid /\ writebuf[From(m)].write = asked[m + 1]
  <2>1. \A m \in 0 .. Len(asked) - 1 : m \in Places /\ m < Len(asked) /\ From(m) = At(writebuf_cur, m)
    BY <1>1 DEF Places, From, At
  <2>2. QED
    BY <1>1, <2>1 DEF Fits
<1>4. \A j \in 1 .. Len(asked) : writebuf[From(j - 1)].write = asked[j]
  <2>1. ASSUME NEW j \in 1 .. Len(asked) PROVE writebuf[From(j - 1)].write = asked[j]
    <3>1. j - 1 \in 0 .. Len(asked) - 1 /\ (j - 1) + 1 = j
      BY <1>1
    <3>2. QED
      BY <1>3, <3>1
  <2>2. QED
    BY <2>1
<1>5. asked = [j \in 1 .. Len(asked) |-> asked[j]]
  BY <1>1 DEF Fits
<1>6. Pending(Len(asked)) = asked
  BY <1>4, <1>5 DEF Pending
<1>7. QED
  BY <1>2, <1>3, <1>6 DEF WritesInOrder

\* Whatever the ring's size and delay, the programs and the samples between their writes,
\* the buffered writes are made in the order in which they were asked for, none lost and
\* none twice (OPL3_WriteRegBuffered, OPL3_Generate).
THEOREM WritesOrdered == Spec => []WritesInOrder
<1>1. Spec => []RingInv
  BY InitRing, NextRing, PTL DEF Spec
<1>2. RingInv => WritesInOrder
  BY RingOrdered
<1>3. QED
  BY <1>1, <1>2, PTL

(***************************************************************************)
(* The times                                                               *)
(***************************************************************************)
\* The n writes from cur on are DELAY apart, lt is the time of the last one.
Timed(buf, cur, n, lt) ==
  /\ lt \in Int
  /\ \A i \in Places : "time" \in DOMAIN buf[i]
  /\ \A m \in 0 .. n - 1 : buf[At(cur, m)].time \in Nat
  /\ \A m, j \in 0 .. n - 1 :
       m < j => buf[At(cur, j)].time >= buf[At(cur, m)].time + OPL_WRITEBUF_DELAY
  /\ n > 0 => lt = buf[At(cur, n - 1)].time

TimeInv == Timed(writebuf, writebuf_cur, Len(asked), writebuf_lasttime)

LEMMA InitTime == ASSUME Init PROVE TimeInv
<1>1. Len(asked) = 0 /\ writebuf_lasttime = 0
  BY DEF Init
<1>2. \A i \in Places : "time" \in DOMAIN writebuf[i]
  <2>1. \A i \in Places : writebuf[i] = NoWrite
    BY DEF Init, NoWrites
  <2>2. "time" \in DOMAIN NoWrite
    BY DEF NoWrite
  <2> QED
    BY <2>1, <2>2
<1> QED
  BY <1>1, <1>2 DEF TimeInv, Timed

\* The times of the places that keep their write, which one the new write gets.
LEMMA PutFreeTimes ==
  ASSUME NEW buf, NEW cur \in Places, NEW n \in 0 .. OPL_WRITEBUF_SIZE - 1, NEW lt, Timed(buf, cur, n, lt),
         NEW new, NEW t \in Nat, n > 0 => t >= lt + OPL_WRITEBUF_DELAY,
         \A i \in Places : "time" \in DOMAIN new[i],
         \A m \in 0 .. n - 1 : new[At(cur, m)].time = buf[At(cur, m)].time,
         new[At(cur, n)].time = t
  PROVE  Timed(new, cur, n + 1, t)
<1>1. n \in Nat /\ OPL_WRITEBUF_DELAY \in Nat /\ OPL_WRITEBUF_SIZE \in Nat
  BY RingAssumption
<1>2. ASSUME NEW m \in 0 .. n - 1 PROVE new[At(cur, m)].time \in Nat /\ new[At(cur, n)].time >= new[At(cur, m)].time + OPL_WRITEBUF_DELAY
  <2>1. new[At(cur, m)].time = buf[At(cur, m)].time /\ buf[At(cur, m)].time \in Nat
    BY DEF Timed
  <2>2. lt = buf[At(cur, n - 1)].time /\ n - 1 \in 0 .. n - 1
    BY <1>1 DEF Timed
  <2>3. lt \in Nat /\ lt >= buf[At(cur, m)].time
    <3>1. CASE m = n - 1
      BY <3>1, <2>1, <2>2
    <3>2. CASE m # n - 1
      <4>1. lt >= buf[At(cur, m)].time + OPL_WRITEBUF_DELAY /\ lt \in Nat
        BY <3>2, <2>2, <1>1 DEF Timed
      <4> QED
        BY <4>1, <2>1, <1>1
    <3> QED
      BY <3>1, <3>2
  <2>4. t >= lt + OPL_WRITEBUF_DELAY
    BY <1>1
  <2> QED
    BY <2>1, <2>3, <2>4, <1>1
<1>3. \A m \in 0 .. (n + 1) - 1 : m = n \/ m \in 0 .. n - 1
  BY <1>1
<1>4. \A m, j \in 0 .. (n + 1) - 1 : m < j => new[At(cur, j)].time >= new[At(cur, m)].time + OPL_WRITEBUF_DELAY
  <2> SUFFICES ASSUME NEW m \in 0 .. (n + 1) - 1, NEW j \in 0 .. (n + 1) - 1, m < j
               PROVE  new[At(cur, j)].time >= new[At(cur, m)].time + OPL_WRITEBUF_DELAY
    OBVIOUS
  <2>1. m \in 0 .. n - 1
    BY <1>1
  <2>2. CASE j = n
    BY <2>1, <2>2, <1>2
  <2>3. CASE j # n
    <3>1. j \in 0 .. n - 1
      BY <1>3, <2>3
    <3> QED
      BY <3>1, <2>1 DEF Timed
  <2> QED
    BY <2>2, <2>3
<1>5. \A m \in 0 .. (n + 1) - 1 : new[At(cur, m)].time \in Nat
  BY <1>2, <1>3
<1>6. (n + 1) - 1 = n
  BY <1>1
<1> QED
  BY <1>4, <1>5, <1>6 DEF Timed

\* The oldest one taken out, the time moving on to it, and a new one put in its place.
LEMMA PutFullTimes ==
  ASSUME NEW buf, NEW cur \in Places, NEW lt, Timed(buf, cur, OPL_WRITEBUF_SIZE, lt),
         NEW new, NEW t \in Nat, t >= lt - buf[cur].time + OPL_WRITEBUF_DELAY,
         \A i \in Places : "time" \in DOMAIN new[i],
         \A i \in Places \ {cur} : new[i].time = buf[i].time - buf[cur].time,
         new[cur].time = t
  PROVE  Timed(new, At(cur, 1), OPL_WRITEBUF_SIZE, t)
<1> DEFINE N == OPL_WRITEBUF_SIZE
           c == At(cur, 1)
<1>1. N \in Nat \ {0} /\ OPL_WRITEBUF_DELAY \in Nat /\ At(cur, 0) = cur /\ c \in Places
  BY RingAssumption, PlaceOf DEF Places
<1>2. \A m \in 0 .. N - 2 : At(c, m) = At(cur, m + 1) /\ At(cur, m + 1) \in Places \ {cur}
  <2> SUFFICES ASSUME NEW m \in 0 .. N - 2 PROVE At(c, m) = At(cur, m + 1) /\ At(cur, m + 1) \in Places \ {cur}
    OBVIOUS
  <2>1. 1 \in 0 .. N /\ m \in 0 .. N /\ 1 + m <= N /\ 1 + m = m + 1 /\ m + 1 \in Places /\ 0 \in Places /\ m + 1 # 0 /\ m + 1 \in 0 .. N
    BY <1>1 DEF Places
  <2>2. At(c, m) = At(cur, 1 + m)
    BY <2>1, Shifted
  <2>3. At(cur, m + 1) # At(cur, 0)
    BY <2>1, PlacesNumbered
  <2>4. At(cur, m + 1) \in Places
    BY <2>1, PlaceOf
  <2> QED
    BY <1>1, <2>1, <2>2, <2>3, <2>4
<1>3. At(c, N - 1) = cur
  <2>1. 1 \in 0 .. N /\ N - 1 \in 0 .. N /\ 1 + (N - 1) = N /\ N <= N /\ N \in 0 .. N
    BY <1>1
  <2>2. At(c, N - 1) = At(cur, 1 + (N - 1))
    BY <2>1, Shifted
  <2>3. At(cur, N) = cur
    BY <2>1, <1>1, PlaceOf DEF Places
  <2> QED
    BY <2>1, <2>2, <2>3
<1>4. \A j \in 1 .. N - 1 : buf[At(cur, j)].time \in Nat /\ buf[At(cur, j)].time >= buf[cur].time + OPL_WRITEBUF_DELAY
  <2>1. 0 \in 0 .. N - 1 /\ \A j \in 1 .. N - 1 : j \in 0 .. N - 1 /\ 0 < j
    BY <1>1
  <2> QED
    BY <2>1, <1>1 DEF Timed
<1>5. buf[cur].time \in Nat /\ lt = buf[At(cur, N - 1)].time /\ lt \in Int
  <2>1. 0 \in 0 .. N - 1 /\ N > 0
    BY <1>1
  <2> QED
    BY <2>1, <1>1 DEF Timed
<1> DEFINE x(m) == new[At(c, m)].time
<1>6. ASSUME NEW m \in 0 .. N - 2
      PROVE  x(m) = buf[At(cur, m + 1)].time - buf[cur].time /\ x(m) \in Nat
  <2>1. x(m) = buf[At(cur, m + 1)].time - buf[cur].time
    BY <1>2
  <2>2. m + 1 \in 1 .. N - 1
    BY <1>1
  <2>3. buf[At(cur, m + 1)].time \in Nat /\ buf[At(cur, m + 1)].time >= buf[cur].time + OPL_WRITEBUF_DELAY
    BY <1>4, <2>2
  <2>4. x(m) \in Nat
    <3> HIDE DEF x
    <3> QED
      BY <2>1, <2>3, <1>1, <1>5
  <2> QED
    BY <2>1, <2>4
<1>7. x(N - 1) = t
  BY <1>3
<1>8. ASSUME NEW m \in 0 .. N - 2, NEW j \in 0 .. N - 2, m < j
      PROVE  x(j) >= x(m) + OPL_WRITEBUF_DELAY
  <2>1. m + 1 \in 0 .. N - 1 /\ j + 1 \in 0 .. N - 1 /\ m + 1 < j + 1 /\ j + 1 \in 1 .. N - 1 /\ m + 1 \in 1 .. N - 1
    BY <1>1, <1>8
  <2>2. buf[At(cur, j + 1)].time >= buf[At(cur, m + 1)].time + OPL_WRITEBUF_DELAY
    BY <2>1 DEF Timed
  <2>3. buf[At(cur, j + 1)].time \in Nat /\ buf[At(cur, m + 1)].time \in Nat
    BY <2>1, <1>4
  <2>4. x(j) = buf[At(cur, j + 1)].time - buf[cur].time /\ x(m) = buf[At(cur, m + 1)].time - buf[cur].time
    BY <1>6
  <2> HIDE DEF x
  <2> QED
    BY <2>2, <2>3, <2>4, <1>1, <1>5
<1>9. ASSUME NEW m \in 0 .. N - 2 PROVE t >= x(m) + OPL_WRITEBUF_DELAY
  <2>1. x(m) = buf[At(cur, m + 1)].time - buf[cur].time
    BY <1>6
  <2>2. m + 1 \in 0 .. N - 1 /\ N - 1 \in 0 .. N - 1 /\ m + 1 \in 1 .. N - 1
    BY <1>1
  <2>3. buf[At(cur, m + 1)].time <= lt
    <3>1. CASE m + 1 = N - 1
      BY <3>1, <1>5
    <3>2. CASE m + 1 # N - 1
      <4>1. m + 1 < N - 1
        BY <3>2, <1>1
      <4>2. buf[At(cur, N - 1)].time >= buf[At(cur, m + 1)].time + OPL_WRITEBUF_DELAY
        BY <4>1, <2>2 DEF Timed
      <4>3. buf[At(cur, m + 1)].time \in Nat
        BY <2>2, <1>4
      <4> QED
        BY <4>2, <4>3, <1>1, <1>5
    <3> QED
      BY <3>1, <3>2
  <2>4. buf[At(cur, m + 1)].time \in Nat
    BY <2>2, <1>4
  <2> HIDE DEF x
  <2> QED
    BY <2>1, <2>3, <2>4, <1>1, <1>5
<1> HIDE DEF x
<1>10. \A m \in 0 .. N - 1 : m = N - 1 \/ m \in 0 .. N - 2
  BY <1>1
<1>11. \A m \in 0 .. N - 1 : x(m) \in Nat
  BY <1>6, <1>7, <1>10
<1>12. \A m, j \in 0 .. N - 1 : m < j => x(j) >= x(m) + OPL_WRITEBUF_DELAY
  <2> SUFFICES ASSUME NEW m \in 0 .. N - 1, NEW j \in 0 .. N - 1, m < j PROVE x(j) >= x(m) + OPL_WRITEBUF_DELAY
    OBVIOUS
  <2>1. m \in 0 .. N - 2
    BY <1>1
  <2>2. CASE j = N - 1
    BY <2>1, <2>2, <1>7, <1>9
  <2>3. CASE j # N - 1
    <3>1. j \in 0 .. N - 2
      BY <1>10, <2>3
    <3> QED
      BY <3>1, <2>1, <1>8
  <2> QED
    BY <2>2, <2>3
<1> QED
  BY <1>7, <1>11, <1>12 DEF Timed, x

\* A write keeps the order of the times.
LEMMA WriteTimes ==
  ASSUME RingInv, TimeInv, NEW w, WriteRegBuffered(w)
  PROVE  TimeInv'
<1> DEFINE N == OPL_WRITEBUF_SIZE
           n == Len(asked)
           lt == writebuf_lasttime
<1>1. /\ N \in Nat \ {0} /\ OPL_WRITEBUF_DELAY \in Nat /\ writebuf_cur \in Places /\ asked \in Seq(AllWrites)
      /\ n \in 0 .. N /\ writebuf_last = At(writebuf_cur, n) /\ writebuf_last \in Places
      /\ Oldest.valid => n = N /\ writebuf_last = writebuf_cur
      /\ ~Oldest.valid => n < N
  <2>1. Fits(writebuf, writebuf_cur, writebuf_last, asked)
    BY DEF RingInv
  <2>2. /\ writebuf_last \in Places
        /\ writebuf[writebuf_last].valid => n = N /\ writebuf_last = writebuf_cur
        /\ ~writebuf[writebuf_last].valid => n < N
    BY <2>1, LastPlace
  <2>3. N \in Nat \ {0} /\ OPL_WRITEBUF_DELAY \in Nat
    BY RingAssumption
  <2>4. writebuf_cur \in Places /\ asked \in Seq(AllWrites) /\ n \in 0 .. N /\ writebuf_last = At(writebuf_cur, n)
    BY <2>1, <2>3 DEF Fits
  <2> QED
    BY <2>2, <2>3, <2>4 DEF Oldest
<1>2. /\ writebuf' = [Moved EXCEPT ![writebuf_last] = [valid |-> TRUE, time |-> WriteTime, write |-> w]]
      /\ writebuf_cur' = CurAfterWrite /\ writebuf_lasttime' = WriteTime
      /\ asked' = Append(IF Oldest.valid THEN Tail(asked) ELSE asked, w)
  BY DEF WriteRegBuffered
<1>3. \A i \in Places : writebuf[i].valid => Moved[i].time = writebuf[i].time - Jump
  <2> SUFFICES ASSUME NEW i \in Places, writebuf[i].valid PROVE Moved[i].time = writebuf[i].time - Jump
    OBVIOUS
  <2>1. Moved[i] = [writebuf[i] EXCEPT !.time = @ - Jump] /\ "time" \in DOMAIN writebuf[i]
    BY DEF Moved, TimeInv, Timed
  <2> QED
    BY <2>1
<1>4. DOMAIN Moved = Places
  BY DEF Moved
<1>5. \A i \in Places : "time" \in DOMAIN writebuf'[i]
  <2> SUFFICES ASSUME NEW i \in Places PROVE "time" \in DOMAIN writebuf'[i]
    OBVIOUS
  <2>1. "time" \in DOMAIN writebuf[i] /\ "time" \in DOMAIN NoWrite
    BY DEF TimeInv, Timed, NoWrite
  <2>2. "time" \in DOMAIN Moved[i]
    <3>1. Moved[i] = [writebuf[i] EXCEPT !.time = @ - Jump] \/ Moved[i] = NoWrite
      BY DEF Moved
    <3> QED
      BY <2>1, <3>1
  <2>3. CASE i = writebuf_last
    BY <1>2, <1>4, <2>3
  <2>4. CASE i # writebuf_last
    <3>1. writebuf'[i] = Moved[i]
      BY <1>2, <1>4, <2>4
    <3> QED
      BY <2>2, <3>1
  <2> QED
    BY <2>3, <2>4
<1>6. /\ writebuf'[writebuf_last].time = WriteTime
      /\ \A i \in Places \ {writebuf_last} : writebuf[i].valid => writebuf'[i].time = writebuf[i].time - Jump
  BY <1>1, <1>2, <1>3, <1>4
<1>7. \A m \in 0 .. n - 1 : m \in Places /\ At(writebuf_cur, m) \in Places /\ writebuf[At(writebuf_cur, m)].valid
  <2> SUFFICES ASSUME NEW m \in 0 .. n - 1
               PROVE  m \in Places /\ At(writebuf_cur, m) \in Places /\ writebuf[At(writebuf_cur, m)].valid
    OBVIOUS
  <2>1. m \in Places /\ m < n /\ m \in 0 .. N
    BY <1>1 DEF Places
  <2> QED
    BY <2>1, <1>1, PlaceOf DEF RingInv, Fits
<1>8. lt \in Int
  BY DEF TimeInv, Timed
<1>9. CASE Oldest.valid
  <2>1. Jump = writebuf[writebuf_cur].time /\ Jump \in Nat
    <3>1. 0 \in 0 .. n - 1 /\ At(writebuf_cur, 0) = writebuf_cur
      BY <1>1, <1>9, PlaceOf DEF Places
    <3>2. writebuf[At(writebuf_cur, 0)].time \in Nat
      BY <3>1 DEF TimeInv, Timed
    <3> QED
      BY <1>1, <1>9, <3>1, <3>2 DEF Jump, Oldest
  <2>2. WriteTime \in Nat /\ WriteTime >= lt - writebuf[writebuf_cur].time + OPL_WRITEBUF_DELAY
    BY <1>1, <1>8, <2>1 DEF WriteTime, Later
  <2>3. \A i \in Places \ {writebuf_cur} : writebuf'[i].time = writebuf[i].time - writebuf[writebuf_cur].time
    <3> SUFFICES ASSUME NEW i \in Places \ {writebuf_cur}
                 PROVE  writebuf'[i].time = writebuf[i].time - writebuf[writebuf_cur].time
      OBVIOUS
    <3>1. PICK m \in Places : At(writebuf_cur, m) = i
      BY <1>1, PlacesNumbered
    <3>2. m \in 0 .. n - 1
      BY <1>1, <1>9 DEF Places
    <3>3. writebuf[i].valid
      BY <1>7, <3>1, <3>2
    <3> QED
      BY <1>1, <1>6, <1>9, <2>1, <3>3
  <2>4. Timed(writebuf, writebuf_cur, N, lt)
    BY <1>1, <1>9 DEF TimeInv
  <2>5. writebuf'[writebuf_cur].time = WriteTime
    BY <1>1, <1>6, <1>9
  <2>6. Timed(writebuf', At(writebuf_cur, 1), N, WriteTime)
    BY <1>1, <1>5, <2>2, <2>3, <2>4, <2>5, PutFullTimes
  <2>7. writebuf_cur' = At(writebuf_cur, 1) /\ Len(asked') = N /\ writebuf_lasttime' = WriteTime
    BY <1>1, <1>2, <1>9 DEF CurAfterWrite, After, At
  <2> QED
    BY <2>6, <2>7 DEF TimeInv
<1>10. CASE ~Oldest.valid
  <2>1. Jump = 0
    BY <1>10 DEF Jump
  <2>2. WriteTime \in Nat /\ WriteTime >= lt + OPL_WRITEBUF_DELAY
    BY <1>1, <1>8, <2>1 DEF WriteTime, Later
  <2>3. n \in 0 .. N - 1 /\ n \in Places
    BY <1>1, <1>10 DEF Places
  <2>4. \A m \in 0 .. n - 1 : writebuf'[At(writebuf_cur, m)].time = writebuf[At(writebuf_cur, m)].time
    <3> SUFFICES ASSUME NEW m \in 0 .. n - 1
                 PROVE  writebuf'[At(writebuf_cur, m)].time = writebuf[At(writebuf_cur, m)].time
      OBVIOUS
    <3>1. At(writebuf_cur, m) \in Places /\ writebuf[At(writebuf_cur, m)].valid /\ m # n
      BY <1>1, <1>7
    <3>2. At(writebuf_cur, m) # writebuf_last
      BY <1>1, <1>7, <2>3, <3>1, PlacesNumbered
    <3>3. writebuf[At(writebuf_cur, m)].time \in Nat
      BY DEF TimeInv, Timed
    <3> QED
      BY <1>6, <2>1, <3>1, <3>2, <3>3
  <2>5. writebuf'[At(writebuf_cur, n)].time = WriteTime
    BY <1>1, <1>6
  <2>6. Timed(writebuf', writebuf_cur, n + 1, WriteTime)
    BY <1>1, <1>5, <2>2, <2>3, <2>4, <2>5, PutFreeTimes DEF TimeInv
  <2>7. writebuf_cur' = writebuf_cur /\ Len(asked') = n + 1 /\ writebuf_lasttime' = WriteTime
    BY <1>1, <1>2, <1>10 DEF CurAfterWrite
  <2> QED
    BY <2>6, <2>7 DEF TimeInv
<1> QED
  BY <1>9, <1>10

\* With writes DELAY apart, a sample makes one of them at most.
LEMMA DrainsOne ==
  ASSUME RingInv, TimeInv
  PROVE  /\ Drained \in {0, 1} /\ Drained <= Len(asked)
         /\ Drained = 0 => Len(asked) = 0 \/ ~(writebuf[writebuf_cur].time <= 0)
<1> DEFINE N == OPL_WRITEBUF_SIZE
           n == Len(asked)
<1>1. N \in Nat \ {0} /\ n \in 0 .. N /\ writebuf_cur \in Places /\ At(writebuf_cur, 0) = writebuf_cur
      /\ OPL_WRITEBUF_DELAY \in Nat /\ OPL_WRITEBUF_DELAY > 0
  <2>1. N \in Nat \ {0} /\ OPL_WRITEBUF_DELAY \in Nat /\ OPL_WRITEBUF_DELAY > 0
    BY RingAssumption, DelayAssumption
  <2>2. n \in 0 .. N /\ writebuf_cur \in Places
    BY <2>1 DEF RingInv, Fits
  <2>3. At(writebuf_cur, 0) = writebuf_cur
    BY <2>1, <2>2, PlaceOf DEF Places
  <2> QED
    BY <2>1, <2>2, <2>3
<1>2. Drained \in 0 .. n /\ \A m \in 0 .. Drained - 1 : Ready(From(m))
  BY DrainedRange
<1>3. Drained < 2
  <2> SUFFICES ASSUME ~(Drained < 2) PROVE FALSE
    OBVIOUS
  <2>1. 0 \in 0 .. n - 1 /\ 1 \in 0 .. n - 1 /\ 1 \in 0 .. Drained - 1
    BY <1>1, <1>2
  <2>2. writebuf[At(writebuf_cur, 1)].time >= writebuf[At(writebuf_cur, 0)].time + OPL_WRITEBUF_DELAY
        /\ writebuf[At(writebuf_cur, 0)].time \in Nat /\ writebuf[At(writebuf_cur, 1)].time \in Nat
    BY <2>1 DEF TimeInv, Timed
  <2>3. writebuf[At(writebuf_cur, 1)].time <= 0
    BY <1>2, <2>1 DEF Ready, From, At
  <2> QED
    BY <1>1, <2>2, <2>3
<1>4. Drained = 0 => n = 0 \/ ~(writebuf[writebuf_cur].time <= 0)
  <2> SUFFICES ASSUME Drained = 0, n # 0 PROVE ~(writebuf[writebuf_cur].time <= 0)
    OBVIOUS
  <2>1. ~Ready(From(0))
    <3>1. \E d \in 0 .. N : (\A m \in 0 .. d - 1 : Ready(From(m))) /\ (d = N \/ ~Ready(From(d)))
      BY DrainStops
    <3>2. Drained = N \/ ~Ready(From(Drained))
      BY <3>1 DEF Drained
    <3> QED
      BY <3>2, <1>1
  <2>2. writebuf[writebuf_cur].valid
    <3>1. 0 \in Places /\ 0 < n
      BY <1>1 DEF Places
    <3> QED
      BY <3>1, <1>1 DEF RingInv, Fits
  <2> QED
    BY <1>1, <2>1, <2>2 DEF Ready, From, At
<1> QED
  BY <1>1, <1>2, <1>3, <1>4

\* A sample, after which every write is a sample nearer.
LEMMA GenerateTimes ==
  ASSUME RingInv, TimeInv, NEW clk, Generate(clk)
  PROVE  TimeInv'
<1> DEFINE N == OPL_WRITEBUF_SIZE
           n == Len(asked)
           cur == writebuf_cur
           lt == writebuf_lasttime
           x(m) == writebuf[At(cur, m)].time
<1>1. PICK d \in {0, 1} : d = Drained
  BY DrainsOne
<1>2. /\ N \in Nat \ {0} /\ n \in 0 .. N /\ cur \in Places /\ At(cur, 0) = cur
      /\ OPL_WRITEBUF_DELAY \in Nat /\ OPL_WRITEBUF_DELAY > 0 /\ asked \in Seq(AllWrites)
      /\ d <= n /\ d \in 0 .. N
  <2>1. d <= n
    BY <1>1, DrainsOne
  <2>2. N \in Nat \ {0} /\ OPL_WRITEBUF_DELAY \in Nat /\ OPL_WRITEBUF_DELAY > 0
    BY RingAssumption, DelayAssumption
  <2>3. n \in 0 .. N /\ cur \in Places /\ asked \in Seq(AllWrites)
    BY <2>2 DEF RingInv, Fits
  <2>4. At(cur, 0) = cur
    BY <2>2, <2>3, PlaceOf DEF Places
  <2> QED
    BY <1>1, <2>1, <2>2, <2>3, <2>4
<1>3. d = 0 => n = 0 \/ ~(writebuf[cur].time <= 0)
  BY <1>1, DrainsOne
<1> DEFINE places == {From(m) : m \in 0 .. d - 1}
<1>4. /\ writebuf' = [i \in Places |-> IF i \in places \/ ~writebuf[i].valid THEN NoWrite
                                      ELSE [writebuf[i] EXCEPT !.time = @ - 1]]
      /\ writebuf_cur' = At(cur, d)
      /\ writebuf_lasttime' = Later(lt - 1, -OPL_WRITEBUF_DELAY)
      /\ asked' = SubSeq(asked, d + 1, n)
  BY <1>1 DEF Generate, From, At
<1>5. \A i \in Places : "time" \in DOMAIN writebuf'[i]
  <2> SUFFICES ASSUME NEW i \in Places PROVE "time" \in DOMAIN writebuf'[i]
    OBVIOUS
  <2>1. "time" \in DOMAIN writebuf[i] /\ "time" \in DOMAIN NoWrite
    BY DEF TimeInv, Timed, NoWrite
  <2>2. writebuf'[i] = [writebuf[i] EXCEPT !.time = @ - 1] \/ writebuf'[i] = NoWrite
    BY <1>4
  <2> QED
    BY <2>1, <2>2
<1>6. Len(asked') = n - d
  <2>1. d + 1 \in 1 .. n + 1 /\ n \in Nat /\ d \in Nat
    BY <1>2
  <2> QED
    BY <1>2, <1>4, <2>1
<1>7. \A j \in d .. n - 1 : x(j) \in Nat /\ x(j) >= 1
  <2> SUFFICES ASSUME NEW j \in d .. n - 1 PROVE x(j) \in Nat /\ x(j) >= 1
    OBVIOUS
  <2>1. j \in 0 .. n - 1 /\ 0 \in 0 .. n - 1
    BY <1>1, <1>2
  <2>2. x(j) \in Nat /\ x(0) \in Nat
    BY <2>1 DEF TimeInv, Timed
  <2>3. CASE j = 0
    BY <1>1, <1>2, <1>3, <2>1, <2>2, <2>3
  <2>4. CASE j # 0
    <3>1. x(j) >= x(0) + OPL_WRITEBUF_DELAY
      BY <2>1, <2>4 DEF TimeInv, Timed
    <3> HIDE DEF x
    <3> QED
      BY <1>2, <2>2, <3>1
  <2> QED
    BY <2>3, <2>4
<1>8. \A m \in 0 .. (n - d) - 1 :
        m + d \in d .. n - 1 /\ writebuf'[At(writebuf_cur', m)].time = x(m + d) - 1
  <2> SUFFICES ASSUME NEW m \in 0 .. (n - d) - 1
               PROVE  m + d \in d .. n - 1 /\ writebuf'[At(writebuf_cur', m)].time = x(m + d) - 1
    OBVIOUS
  <2>1. /\ m + d \in d .. n - 1 /\ m \in 0 .. N /\ d + m <= N /\ d + m = m + d
        /\ m + d \in Places /\ m + d \in 0 .. N /\ m + d < n
    BY <1>1, <1>2 DEF Places
  <2>2. At(writebuf_cur', m) = At(cur, m + d)
    <3>1. At(At(cur, d), m) = At(cur, d + m)
      BY <1>2, <2>1, Shifted
    <3> QED
      BY <1>4, <2>1, <3>1
  <2>3. PICK i \in Places : i = At(cur, m + d)
    BY <1>2, <2>1, PlaceOf
  <2>4. i \notin places
    <3>1. ASSUME NEW e \in 0 .. d - 1 PROVE From(e) # i
      <4>1. e \in Places /\ e # m + d
        BY <1>1, <1>2, <2>1 DEF Places
      <4>2. At(cur, e) # At(cur, m + d)
        BY <1>2, <2>1, <4>1, PlacesNumbered
      <4> QED
        BY <2>3, <4>2 DEF From, At
    <3> QED
      BY <3>1
  <2>5. writebuf[i].valid = TRUE /\ "time" \in DOMAIN writebuf[i]
    BY <2>1, <2>3 DEF RingInv, Fits, TimeInv, Timed
  <2>6. writebuf'[i] = [writebuf[i] EXCEPT !.time = @ - 1]
    BY <1>4, <2>4, <2>5
  <2> QED
    BY <2>1, <2>2, <2>3, <2>5, <2>6
<1>9. lt \in Int /\ Later(lt - 1, -OPL_WRITEBUF_DELAY) \in Int
  <2>1. lt \in Int
    BY DEF TimeInv, Timed
  <2> QED
    BY <2>1, <1>2 DEF Later
<1>10. n - d > 0 => Later(lt - 1, -OPL_WRITEBUF_DELAY) = x(n - 1) - 1
  <2> SUFFICES ASSUME n - d > 0 PROVE Later(lt - 1, -OPL_WRITEBUF_DELAY) = x(n - 1) - 1
    OBVIOUS
  <2>1. n - 1 \in d .. n - 1 /\ n > 0
    BY <1>1, <1>2
  <2>2. lt = x(n - 1)
    BY <2>1 DEF TimeInv, Timed
  <2>3. x(n - 1) \in Nat /\ x(n - 1) >= 1
    BY <1>7, <2>1
  <2> HIDE DEF x
  <2> QED
    BY <1>2, <2>2, <2>3 DEF Later
<1>11. \A m, j \in 0 .. n - 1 : m < j => x(j) >= x(m) + OPL_WRITEBUF_DELAY
  BY DEF TimeInv, Timed
<1> HIDE DEF x
<1> DEFINE y(m) == writebuf'[At(writebuf_cur', m)].time
<1>12. \A m \in 0 .. (n - d) - 1 : y(m) \in Nat /\ y(m) = x(m + d) - 1 /\ m + d \in 0 .. n - 1
  <2> SUFFICES ASSUME NEW m \in 0 .. (n - d) - 1 PROVE y(m) \in Nat /\ y(m) = x(m + d) - 1 /\ m + d \in 0 .. n - 1
    OBVIOUS
  <2>1. y(m) = x(m + d) - 1 /\ m + d \in d .. n - 1
    BY <1>8
  <2>2. x(m + d) \in Nat /\ x(m + d) >= 1
    BY <2>1, <1>7
  <2> HIDE DEF y
  <2> QED
    BY <1>1, <1>2, <2>1, <2>2
<1>13. \A m, j \in 0 .. (n - d) - 1 : m < j => y(j) >= y(m) + OPL_WRITEBUF_DELAY
  <2> SUFFICES ASSUME NEW m \in 0 .. (n - d) - 1, NEW j \in 0 .. (n - d) - 1, m < j
               PROVE  y(j) >= y(m) + OPL_WRITEBUF_DELAY
    OBVIOUS
  <2>1. y(m) = x(m + d) - 1 /\ m + d \in 0 .. n - 1 /\ y(j) = x(j + d) - 1 /\ j + d \in 0 .. n - 1
        /\ y(m) \in Nat /\ y(j) \in Nat
    BY <1>12
  <2>2. m + d < j + d
    BY <1>1, <1>2
  <2>3. x(j + d) >= x(m + d) + OPL_WRITEBUF_DELAY
    BY <1>11, <2>1, <2>2
  <2>4. x(j + d) \in Nat /\ x(m + d) \in Nat
    BY <1>7, <1>8
  <2> HIDE DEF y
  <2> QED
    BY <1>2, <2>1, <2>3, <2>4
<1>14. n - d > 0 => Later(lt - 1, -OPL_WRITEBUF_DELAY) = y((n - d) - 1)
  <2> SUFFICES ASSUME n - d > 0 PROVE Later(lt - 1, -OPL_WRITEBUF_DELAY) = y((n - d) - 1)
    OBVIOUS
  <2>1. (n - d) - 1 \in 0 .. (n - d) - 1 /\ ((n - d) - 1) + d = n - 1
    BY <1>1, <1>2
  <2>2. y((n - d) - 1) = x(((n - d) - 1) + d) - 1
    BY <1>12, <2>1
  <2> HIDE DEF y
  <2> QED
    BY <1>10, <2>1, <2>2
<1>15. Timed(writebuf', writebuf_cur', n - d, writebuf_lasttime')
  <2>1. \A m \in 0 .. (n - d) - 1 : y(m) \in Nat
    BY <1>12
  <2> QED
    BY <1>4, <1>5, <1>9, <1>13, <1>14, <2>1 DEF Timed
<1> QED
  BY <1>6, <1>15 DEF TimeInv

LEMMA NextTime == ASSUME RingInv, TimeInv, [Next]_vars PROVE TimeInv'
<1>1. CASE \E w \in Programs[program].writes : WriteRegNow(w)
  BY <1>1 DEF TimeInv, Timed, At, WriteRegNow, ring
<1>2. CASE \E w \in Programs[program].writes : WriteRegBuffered(w)
  BY <1>2, WriteTimes
<1>3. CASE \E clk \in Programs[program].clocks : Generate(clk)
  BY <1>3, GenerateTimes
<1>4. CASE UNCHANGED vars
  BY <1>4 DEF TimeInv, Timed, At, vars, ring, history
<1> QED
  BY <1>1, <1>2, <1>3, <1>4 DEF Next

(***************************************************************************)
(* The writes of a sample                                                  *)
(***************************************************************************)
\* What a fold of Made is, and its value over no write and over one.
Folding(st, s, it) ==
  it = [x \in SUBSET DOMAIN s |-> IF x = {} THEN st ELSE Made(it[x \ {Max(x)}], s[Max(x)])]

LEMMA FoldIs ==
  ASSUME NEW st, NEW s
  PROVE  FoldLeft(Made, st, s) = (CHOOSE it : Folding(st, s, it))[DOMAIN s]
BY Zenon DEF FoldLeft, MapThenFoldSet, Folding

LEMMA FoldNone == ASSUME NEW st, NEW s, DOMAIN s = {} PROVE FoldLeft(Made, st, s) = st
<1> DEFINE f == [x \in {{}} |-> st]
           g == CHOOSE it : Folding(st, s, it)
<1>1. SUBSET (DOMAIN s) = {{}}
  OBVIOUS
<1>2. Folding(st, s, f)
  BY <1>1 DEF Folding
<1>3. Folding(st, s, g)
  BY <1>2, Zenon
<1> HIDE DEF g
<1>4. g[{}] = st
  BY <1>1, <1>3 DEF Folding
<1> QED
  BY <1>4, FoldIs DEF g

LEMMA FoldOne == ASSUME NEW st, NEW s, DOMAIN s = {1} PROVE FoldLeft(Made, st, s) = Made(st, s[1])
<1> DEFINE f == [x \in {{}, {1}} |-> IF x = {} THEN st ELSE Made(st, s[1])]
           g == CHOOSE it : Folding(st, s, it)
<1>1. SUBSET (DOMAIN s) = {{}, {1}} /\ {1} \ {1} = {}
  OBVIOUS
<1>2. Max({1}) = 1
  BY DEF Max
<1>3. Folding(st, s, f)
  <2>1. \A x \in {{}, {1}} : (IF x = {} THEN st ELSE Made(f[x \ {Max(x)}], s[Max(x)])) = f[x]
    BY <1>2
  <2> QED
    BY <1>1, <2>1 DEF Folding
<1>4. Folding(st, s, g)
  BY <1>3, Zenon
<1> HIDE DEF g
<1>5. g = [x \in SUBSET DOMAIN s |-> IF x = {} THEN st ELSE Made(g[x \ {Max(x)}], s[Max(x)])]
  BY <1>4 DEF Folding
<1>6. g[{}] = st
  BY <1>1, <1>5
<1>7. g[{1}] = Made(g[{1} \ {Max({1})}], s[Max({1})])
  BY <1>1, <1>5
<1>8. g[{1}] = Made(st, s[1])
  BY <1>1, <1>2, <1>6, <1>7
<1> QED
  BY <1>8, FoldIs DEF g

\* The writes that wait are the program's.
OwnWrites == asked \in Seq(Programs[program].writes)

LEMMA NextOwn == ASSUME RingInv, OwnWrites, [Next]_vars PROVE OwnWrites'
<1> DEFINE W == Programs[program].writes
<1>1. ASSUME NEW w \in W, WriteRegBuffered(w) PROVE OwnWrites'
  <2>1. program' = program /\ asked' = Append(IF Oldest.valid THEN Tail(asked) ELSE asked, w)
    BY <1>1 DEF WriteRegBuffered
  <2>2. Oldest.valid => Len(asked) > 0
    BY LastPlace, RingAssumption DEF RingInv, Oldest
  <2>3. asked \in Seq(W) /\ (Oldest.valid => Tail(asked) \in Seq(W))
    BY <2>2 DEF OwnWrites
  <2> HIDE DEF W
  <2>4. asked' \in Seq(W)
    BY <1>1, <2>1, <2>3
  <2> QED
    BY <2>1, <2>4 DEF OwnWrites, W
<1>2. ASSUME NEW clk, Generate(clk) PROVE OwnWrites'
  <2>1. program' = program /\ asked' = SubSeq(asked, Drained + 1, Len(asked))
    BY <1>2 DEF Generate
  <2>2. Drained \in 0 .. Len(asked) /\ asked \in Seq(W)
    BY DrainedRange DEF OwnWrites
  <2> HIDE DEF W
  <2>3. asked' \in Seq(W)
    <3>1. \A j \in Drained + 1 .. Len(asked) : asked[j] \in W
      BY <2>2
    <3>2. Drained + 1 \in Nat /\ Len(asked) \in Nat
      BY <2>2
    <3> QED
      BY <2>1, <3>1, <3>2
  <2> QED
    BY <2>1, <2>3 DEF OwnWrites, W
<1>3. ASSUME NEW w \in W, WriteRegNow(w) PROVE OwnWrites'
  BY <1>3 DEF OwnWrites, WriteRegNow
<1>4. CASE UNCHANGED vars
  BY <1>4 DEF OwnWrites, vars, history
<1> QED
  BY <1>1, <1>2, <1>3, <1>4 DEF Next

Sampled(clk) == [State EXCEPT !.chip = SlotsCalculated(clk), !.due = {}]

\* A sample makes no write, or the oldest one of those that wait.
LEMMA GenerateMakes ==
  ASSUME RingInv, TimeInv, OwnWrites, NEW clk, Generate(clk)
  PROVE  \/ Become(Sampled(clk))
         \/ \E w \in Programs[program].writes : Become(Made(Sampled(clk), w))
<1>1. Drained \in {0, 1} /\ Drained <= Len(asked)
  BY DrainsOne
<1> DEFINE writes == [m \in 1 .. Drained |-> writebuf[From(m - 1)].write]
<1>2. Become(FoldLeft(Made, Sampled(clk), writes))
  BY DEF Generate, Sampled
<1>3. CASE Drained = 0
  <2>1. DOMAIN writes = {}
    BY <1>3
  <2>2. FoldLeft(Made, Sampled(clk), writes) = Sampled(clk)
    BY <2>1, FoldNone
  <2> QED
    BY <1>2, <2>2
<1>4. CASE Drained = 1
  <2>1. DOMAIN writes = {1} /\ writes[1] = writebuf[From(0)].write
    BY <1>4
  <2>2. FoldLeft(Made, Sampled(clk), writes) = Made(Sampled(clk), writes[1])
    BY <2>1, FoldOne
  <2>3. 0 \in Places /\ 0 < Len(asked) /\ Len(asked) \in Nat
    BY <1>1, <1>4, RingAssumption DEF Places, RingInv, Fits
  <2>4. writes[1] = asked[1]
    BY <2>1, <2>3 DEF RingInv, Fits, From, At
  <2>5. asked[1] \in Programs[program].writes
    BY <2>3 DEF OwnWrites
  <2> QED
    BY <1>2, <2>2, <2>4, <2>5
<1> QED
  BY <1>1, <1>3, <1>4

(***************************************************************************)
(* The chip                                                                *)
(***************************************************************************)
SlotStates ==
  [mod : 0 .. Zero, key : SUBSET KeyTypes, eg_gen : Generators, eg_rout : 0 .. SILENT, eg_ksl : Nat,
   reg_ar : Nat, reg_dr : Nat, reg_sl : Nat, reg_rr : Nat, reg_type : BOOLEAN, reg_ksr : BOOLEAN]
\* The operators a channel mixes.
Outs == Seq(0 .. 35)
ChannelStates ==
  [chtype : {"2op", "4op", "4op2", "drum"}, f_num : 0 .. 1023, block : 0 .. 7, ksv : 0 .. 15,
   con : BOOLEAN, alg : 0 .. 8, out : Outs]
Chips(U) ==
  [newm : BOOLEAN, nts : BOOLEAN, rhy : SUBSET (Drums \cup {"on"}),
   channel : [U -> ChannelStates], slot : [Slots(U) -> SlotStates]]

\* What a write leaves alone, of chips k and x with the channels U.
LevelsKept(U, k, x) == \A s \in Slots(U) : x.slot[s].eg_gen = k.slot[s].eg_gen /\ x.slot[s].eg_rout = k.slot[s].eg_rout
KeysKept(U, k, x) == \A s \in Slots(U) : x.slot[s].key = k.slot[s].key
PitchKept(U, k, x) ==
  /\ \A s \in Slots(U) : x.slot[s].eg_ksl = k.slot[s].eg_ksl
  /\ \A c \in U : LET a == k.channel[c]  b == x.channel[c]
                  IN b.f_num = a.f_num /\ b.block = a.block /\ b.ksv = a.ksv
KindsKept(U, k, x) == x.newm = k.newm /\ \A c \in U : x.channel[c].chtype = k.channel[c].chtype
AlgsKept(U, k, x) == \A c \in U : x.channel[c].con = k.channel[c].con /\ x.channel[c].alg = k.channel[c].alg
ModsKept(S, k, x) == \A s \in S : x.slot[s].mod = k.slot[s].mod
OutsKept(C, k, x) == \A c \in C : x.channel[c].out = k.channel[c].out
RoutesKept(U, k, x) == AlgsKept(U, k, x) /\ ModsKept(Slots(U), k, x) /\ OutsKept(U, k, x)

\* Nothing but the routing, the pitch, the keys is written.
RoutesOnly(U, k, x) == LevelsKept(U, k, x) /\ KeysKept(U, k, x) /\ PitchKept(U, k, x) /\ KindsKept(U, k, x)
PitchOnly(U, k, x) == LevelsKept(U, k, x) /\ KeysKept(U, k, x) /\ RoutesKept(U, k, x) /\ KindsKept(U, k, x)
KeysOnly(U, k, x) == LevelsKept(U, k, x) /\ PitchKept(U, k, x) /\ RoutesKept(U, k, x) /\ KindsKept(U, k, x)

(***************************************************************************)
(* Channels and their slots                                                *)
(***************************************************************************)
LEMMA SlotNumbers ==
  ASSUME NEW c \in Channels
  PROVE  /\ S0(c) \in 0 .. 35 /\ S1(c) \in 0 .. 35 /\ S1(c) = S0(c) + 3 /\ S0(c) # S1(c)
         /\ ChannelOfSlot(S0(c)) = c /\ ChannelOfSlot(S1(c)) = c
<1>1. c \in {0, 1, 2, 3, 4, 5, 6, 7, 8, 9, 10, 11, 12, 13, 14, 15, 16, 17}
  BY DEF Channels
<1> QED
  BY <1>1 DEF S0, S1, ch_slot, ChannelOfSlot

LEMMA SlotsApart ==
  ASSUME NEW c \in Channels, NEW d \in Channels, c # d
  PROVE  SlotsOf(c) \cap SlotsOf(d) = {}
<1>1. \A s \in SlotsOf(c) : ChannelOfSlot(s) = c
  BY SlotNumbers DEF SlotsOf
<1>2. \A s \in SlotsOf(d) : ChannelOfSlot(s) = d
  BY SlotNumbers DEF SlotsOf
<1> QED
  BY <1>1, <1>2

LEMMA SlotsIn ==
  ASSUME NEW U \in SUBSET Channels
  PROVE  /\ Slots(U) \subseteq 0 .. 35
         /\ \A c \in U : SlotsOf(c) \subseteq Slots(U) /\ S0(c) \in Slots(U) /\ S1(c) \in Slots(U)
         /\ \A s \in Slots(U) : ChannelOfSlot(s) \in U /\ s \in SlotsOf(ChannelOfSlot(s))
<1>1. ASSUME NEW c \in U
      PROVE  SlotsOf(c) \subseteq Slots(U) /\ S0(c) \in Slots(U) /\ S1(c) \in Slots(U)
  BY <1>1 DEF Slots, SlotsOf
<1>2. ASSUME NEW s \in Slots(U)
      PROVE  s \in 0 .. 35 /\ ChannelOfSlot(s) \in U /\ s \in SlotsOf(ChannelOfSlot(s))
  <2>1. PICK c \in U : s \in SlotsOf(c)
    BY DEF Slots
  <2> QED
    BY <2>1, SlotNumbers DEF SlotsOf
<1> QED
  BY <1>1, <1>2

LEMMA Pairs ==
  ASSUME NEW c \in Channels, HasPair(c)
  PROVE  /\ pair(c) \in Channels /\ HasPair(pair(c)) /\ pair(pair(c)) = c /\ pair(c) # c
         /\ c % 9 < 3 <=> ~(pair(c) % 9 < 3)
         /\ c % 9 < 3 => pair(c) = c + 3
<1>1. c \in {0, 1, 2, 3, 4, 5, 9, 10, 11, 12, 13, 14}
  BY DEF Channels, HasPair
<1> QED
  BY <1>1 DEF pair, HasPair, Channels

(***************************************************************************)
(* Small steps                                                             *)
(***************************************************************************)
LEMMA NewSlots ==
  ASSUME NEW U, NEW k \in Chips(U), NEW new \in [Slots(U) -> SlotStates], NEW x, x = [k EXCEPT !.slot = new]
  PROVE  x \in Chips(U) /\ x.slot = new /\ x.channel = k.channel /\ x.newm = k.newm /\ x.nts = k.nts
BY DEF Chips

LEMMA NewChannels ==
  ASSUME NEW U, NEW k \in Chips(U), NEW new \in [U -> ChannelStates], NEW x, x = [k EXCEPT !.channel = new]
  PROVE  x \in Chips(U) /\ x.channel = new /\ x.slot = k.slot /\ x.newm = k.newm /\ x.nts = k.nts
BY DEF Chips

LEMMA SetModsDoes ==
  ASSUME NEW U, NEW k \in Chips(U), NEW mods, \A s \in DOMAIN mods : mods[s] \in 0 .. Zero
  PROVE  LET x == SetMods(k, mods)
         IN /\ x \in Chips(U) /\ RoutesOnly(U, k, x) /\ x.channel = k.channel /\ x.nts = k.nts
            /\ \A s \in Slots(U) : x.slot[s].mod = IF s \in DOMAIN mods THEN mods[s] ELSE k.slot[s].mod
<1> DEFINE new == [s \in DOMAIN k.slot |-> IF s \in DOMAIN mods THEN [k.slot[s] EXCEPT !.mod = mods[s]] ELSE k.slot[s]]
           x == SetMods(k, mods)
<1>1. k.slot \in [Slots(U) -> SlotStates]
  BY DEF Chips
<1>2. new \in [Slots(U) -> SlotStates]
  BY <1>1 DEF SlotStates
<1>3. x = [k EXCEPT !.slot = new]
  BY DEF SetMods
<1> HIDE DEF x, new
<1>4. x \in Chips(U) /\ x.slot = new /\ x.channel = k.channel /\ x.newm = k.newm /\ x.nts = k.nts
  BY <1>2, <1>3, NewSlots
<1> USE DEF new
<1>5. ASSUME NEW s \in Slots(U)
      PROVE  /\ x.slot[s].mod = IF s \in DOMAIN mods THEN mods[s] ELSE k.slot[s].mod
             /\ x.slot[s].eg_gen = k.slot[s].eg_gen /\ x.slot[s].eg_rout = k.slot[s].eg_rout
             /\ x.slot[s].key = k.slot[s].key /\ x.slot[s].eg_ksl = k.slot[s].eg_ksl
  BY <1>1, <1>4 DEF SlotStates
<1>6. RoutesOnly(U, k, x)
  BY <1>4, <1>5 DEF RoutesOnly, LevelsKept, KeysKept, PitchKept, KindsKept
<1> QED
  BY <1>4, <1>5, <1>6 DEF x

LEMMA SetOutDoes ==
  ASSUME NEW U, NEW k \in Chips(U), NEW c \in U, NEW heard \in Outs
  PROVE  LET x == SetOut(k, c, heard)
         IN /\ x \in Chips(U) /\ RoutesOnly(U, k, x) /\ AlgsKept(U, k, x) /\ x.slot = k.slot /\ x.nts = k.nts
            /\ x.channel[c].out = heard /\ OutsKept(U \ {c}, k, x)
<1> DEFINE new == [k.channel EXCEPT ![c].out = heard]
           x == SetOut(k, c, heard)
<1>1. k.channel \in [U -> ChannelStates]
  BY DEF Chips
<1>2. new \in [U -> ChannelStates]
  <2>1. [k.channel[c] EXCEPT !.out = heard] \in ChannelStates
    <3>1. k.channel[c] \in ChannelStates
      BY <1>1
    <3> QED
      BY <3>1 DEF ChannelStates
  <2>2. new = [k.channel EXCEPT ![c] = [k.channel[c] EXCEPT !.out = heard]]
    OBVIOUS
  <2> QED
    BY <1>1, <2>1, <2>2
<1>3. x = [k EXCEPT !.channel = new]
  BY DEF SetOut
<1> HIDE DEF x, new
<1>4. x \in Chips(U) /\ x.channel = new /\ x.slot = k.slot /\ x.newm = k.newm /\ x.nts = k.nts
  BY <1>2, <1>3, NewChannels
<1> USE DEF new
<1>5. ASSUME NEW d \in U
      PROVE  /\ x.channel[d].out = IF d = c THEN heard ELSE k.channel[d].out
             /\ x.channel[d].chtype = k.channel[d].chtype /\ x.channel[d].f_num = k.channel[d].f_num
             /\ x.channel[d].block = k.channel[d].block /\ x.channel[d].ksv = k.channel[d].ksv
             /\ x.channel[d].con = k.channel[d].con /\ x.channel[d].alg = k.channel[d].alg
  BY <1>1, <1>4 DEF ChannelStates
<1> QED
  BY <1>4, <1>5 DEF x, RoutesOnly, LevelsKept, KeysKept, PitchKept, KindsKept, AlgsKept, OutsKept

(***************************************************************************)
(* Algorithms                                                              *)
(***************************************************************************)
\* An operator is modulated by itself, by one before it or by none.
Ordered(U, k) == \A s \in Slots(U) : k.slot[s].mod \in (0 .. s) \cup {Zero}

\* A voice of two operators, and one of four, is wired as its algorithm says.
Wired2(k, c) ==
  /\ k.channel[c].out = Heard2(c, k.channel[c].alg)
  /\ \A s \in SlotsOf(c) : k.slot[s].mod = Chain2(c, k.channel[c].alg)[s]
Wired4(k, p, c) ==
  /\ k.channel[p].out = <<>> /\ k.channel[c].out = Heard4(p, c, k.channel[c].alg)
  /\ \A s \in SlotsOf(p) \cup SlotsOf(c) : k.slot[s].mod = Chain4(p, c, k.channel[c].alg)[s]

\* Only the second channel of a pair does it for both.
First(U, c) == c \in U /\ HasPair(c) /\ c % 9 < 3 /\ pair(c) \in U
Second(U, c) == c \in U /\ HasPair(c) /\ ~(c % 9 < 3) /\ pair(c) \in U
AlgsFit(U, k) == \A c \in U : k.channel[c].alg \in 4 .. 7 => Second(U, c)

LEMMA RoutesOnlyTwice ==
  ASSUME NEW U, NEW k, NEW x, NEW y, RoutesOnly(U, k, x), RoutesOnly(U, x, y)
  PROVE  RoutesOnly(U, k, y)
<1>1. LevelsKept(U, k, y)
  BY DEF RoutesOnly, LevelsKept
<1>2. KeysKept(U, k, y)
  BY DEF RoutesOnly, KeysKept
<1>3. PitchKept(U, k, y)
  BY DEF RoutesOnly, PitchKept
<1>4. KindsKept(U, k, y)
  BY DEF RoutesOnly, KindsKept
<1> QED
  BY <1>1, <1>2, <1>3, <1>4 DEF RoutesOnly

LEMMA Outputs ==
  ASSUME NEW a \in 0 .. 35, NEW b \in 0 .. 35, NEW c \in 0 .. 35
  PROVE  <<>> \in Outs /\ <<a>> \in Outs /\ <<a, b>> \in Outs /\ <<a, b, c>> \in Outs
<1>1. <<>> \in Seq(0 .. 35)
  OBVIOUS
<1>2. <<a>> \in Seq(0 .. 35)
  OBVIOUS
<1>3. <<a, b>> \in Seq(0 .. 35)
  OBVIOUS
<1>4. <<a, b, c>> \in Seq(0 .. 35)
  OBVIOUS
<1> QED
  BY <1>1, <1>2, <1>3, <1>4 DEF Outs

\* The values of the chains and of what is mixed are slots.
LEMMA Chains2 ==
  ASSUME NEW c \in Channels, NEW alg \in 0 .. 8
  PROVE  /\ DOMAIN Chain2(c, alg) = SlotsOf(c)
         /\ \A s \in SlotsOf(c) : Chain2(c, alg)[s] \in (0 .. s) \cup {Zero} /\ Chain2(c, alg)[s] \in 0 .. Zero
         /\ Heard2(c, alg) \in Outs
<1>1. S0(c) \in 0 .. 35 /\ S1(c) \in 0 .. 35 /\ S1(c) = S0(c) + 3
  BY SlotNumbers
<1>2. \A s \in SlotsOf(c) : S0(c) \in 0 .. s /\ s \in 0 .. 35
  BY <1>1 DEF SlotsOf
<1>3. DOMAIN Chain2(c, alg) = SlotsOf(c)
  BY DEF Chain2
<1>4. \A s \in SlotsOf(c) : Chain2(c, alg)[s] \in {S0(c), Zero}
  BY DEF Chain2
<1>5. Heard2(c, alg) \in Outs
  BY <1>1, Outputs DEF Heard2
<1> QED
  BY <1>1, <1>2, <1>3, <1>4, <1>5 DEF Zero

LEMMA Chains4 ==
  ASSUME NEW p \in Channels, HasPair(p), p % 9 < 3, NEW c, c = pair(p), NEW alg \in 0 .. 8
  PROVE  /\ DOMAIN Chain4(p, c, alg) = SlotsOf(p) \cup SlotsOf(c)
         /\ \A s \in SlotsOf(p) \cup SlotsOf(c) :
              Chain4(p, c, alg)[s] \in (0 .. s) \cup {Zero} /\ Chain4(p, c, alg)[s] \in 0 .. Zero
         /\ Heard4(p, c, alg) \in Outs
         /\ Chain4(p, c, alg)[S0(p)] = S0(p)
         /\ Chain4(p, c, alg)[S1(p)] = IF alg % 4 < 2 THEN S0(p) ELSE Zero
         /\ Chain4(p, c, alg)[S0(c)] = IF alg % 4 = 1 THEN Zero ELSE S1(p)
         /\ Chain4(p, c, alg)[S1(c)] = IF alg % 4 = 3 THEN Zero ELSE S0(c)
<1>1. c = p + 3 /\ c \in Channels
  BY Pairs
<1>2. /\ S0(p) \in 0 .. 35 /\ S1(p) \in 0 .. 35 /\ S1(p) = S0(p) + 3
      /\ S0(c) \in 0 .. 35 /\ S1(c) \in 0 .. 35 /\ S1(c) = S0(c) + 3
  BY <1>1, SlotNumbers
<1>3. S0(c) = S0(p) + 6
  <2>1. p \in {0, 1, 2, 9, 10, 11}
    BY DEF Channels
  <2> QED
    BY <1>1, <2>1 DEF S0, ch_slot
<1>4. DOMAIN Chain4(p, c, alg) = SlotsOf(p) \cup SlotsOf(c)
  BY DEF Chain4
<1>5. {S0(p), S1(p), S0(c), S1(c)} = SlotsOf(p) \cup SlotsOf(c)
  BY DEF SlotsOf
<1>6. /\ S0(p) # S1(p) /\ S0(p) # S0(c) /\ S0(p) # S1(c) /\ S1(p) # S0(c) /\ S1(p) # S1(c) /\ S0(c) # S1(c)
  BY <1>2, <1>3
<1>7. /\ Chain4(p, c, alg)[S0(p)] = S0(p)
      /\ Chain4(p, c, alg)[S1(p)] = IF alg % 4 < 2 THEN S0(p) ELSE Zero
      /\ Chain4(p, c, alg)[S0(c)] = IF alg % 4 = 1 THEN Zero ELSE S1(p)
      /\ Chain4(p, c, alg)[S1(c)] = IF alg % 4 = 3 THEN Zero ELSE S0(c)
  BY <1>5, <1>6 DEF Chain4
<1>8. \A s \in {S0(p), S1(p), S0(c), S1(c)} :
        Chain4(p, c, alg)[s] \in (0 .. s) \cup {Zero} /\ Chain4(p, c, alg)[s] \in 0 .. Zero
  BY <1>2, <1>3, <1>7 DEF Zero
<1>9. Heard4(p, c, alg) \in Outs
  <2>1. alg % 4 \in 0 .. 3
    OBVIOUS
  <2> QED
    BY <1>2, <2>1, Outputs DEF Heard4
<1> QED
  BY <1>4, <1>5, <1>7, <1>8, <1>9

LEMMA SetupAlgOwn ==
  ASSUME NEW U \in SUBSET Channels, NEW k \in Chips(U), NEW c \in U, ~(k.channel[c].alg \in 4 .. 7)
  PROVE  LET x == SetupAlg(k, c)
         IN /\ x \in Chips(U) /\ RoutesOnly(U, k, x) /\ AlgsKept(U, k, x) /\ x.nts = k.nts
            /\ Ordered(U, k) => Ordered(U, x)
            /\ ModsKept(Slots(U) \ SlotsOf(c), k, x) /\ OutsKept(U \ {c}, k, x)
            /\ k.channel[c].alg < 8 /\ k.channel[c].chtype # "drum" => Wired2(x, c)
<1> DEFINE a == k.channel[c].alg
           drum == k.channel[c].chtype = "drum"
           x == SetupAlg(k, c)
<1>1. /\ c \in Channels /\ a \in 0 .. 8 /\ drum \in BOOLEAN /\ ~(a \in 4 .. 7)
      /\ SlotsOf(c) \subseteq Slots(U) /\ Slots(U) \subseteq 0 .. 35
  BY SlotsIn DEF Chips, ChannelStates
<1>2. RoutesOnly(U, k, k) /\ AlgsKept(U, k, k) /\ ModsKept(Slots(U) \ SlotsOf(c), k, k) /\ OutsKept(U \ {c}, k, k)
  BY DEF RoutesOnly, LevelsKept, KeysKept, PitchKept, KindsKept, AlgsKept, ModsKept, OutsKept
<1>3. ASSUME NEW mods, DOMAIN mods = SlotsOf(c),
             \A s \in SlotsOf(c) : mods[s] \in (0 .. s) \cup {Zero} /\ mods[s] \in 0 .. Zero
      PROVE  LET y == SetMods(k, mods)
             IN /\ y \in Chips(U) /\ RoutesOnly(U, k, y) /\ AlgsKept(U, k, y) /\ y.nts = k.nts
                /\ Ordered(U, k) => Ordered(U, y)
                /\ ModsKept(Slots(U) \ SlotsOf(c), k, y) /\ OutsKept(U \ {c}, k, y)
                /\ y.channel = k.channel /\ \A s \in SlotsOf(c) : y.slot[s].mod = mods[s]
  <2> DEFINE y == SetMods(k, mods)
  <2>1. /\ y \in Chips(U) /\ RoutesOnly(U, k, y) /\ y.channel = k.channel /\ y.nts = k.nts
        /\ \A s \in Slots(U) : y.slot[s].mod = IF s \in DOMAIN mods THEN mods[s] ELSE k.slot[s].mod
    BY <1>3, SetModsDoes
  <2> HIDE DEF y
  <2>2. Ordered(U, k) => Ordered(U, y)
    BY <1>3, <2>1 DEF Ordered
  <2>3. ModsKept(Slots(U) \ SlotsOf(c), k, y) /\ \A s \in SlotsOf(c) : y.slot[s].mod = mods[s]
    BY <1>1, <1>3, <2>1 DEF ModsKept
  <2>4. AlgsKept(U, k, y) /\ OutsKept(U \ {c}, k, y)
    BY <2>1 DEF AlgsKept, OutsKept
  <2> QED
    BY <2>1, <2>2, <2>3, <2>4 DEF y
<1>4. CASE drum /\ c \in {7, 8}
  <2> DEFINE mods == [s \in SlotsOf(c) |-> Zero]
  <2>1. x = SetMods(k, mods)
    BY <1>4 DEF SetupAlg
  <2>2. DOMAIN mods = SlotsOf(c) /\ \A s \in SlotsOf(c) : mods[s] \in (0 .. s) \cup {Zero} /\ mods[s] \in 0 .. Zero
    BY DEF Zero
  <2> DEFINE y == SetMods(k, mods)
  <2> HIDE DEF mods
  <2>3. /\ y \in Chips(U) /\ RoutesOnly(U, k, y) /\ AlgsKept(U, k, y) /\ y.nts = k.nts
        /\ Ordered(U, k) => Ordered(U, y)
        /\ ModsKept(Slots(U) \ SlotsOf(c), k, y) /\ OutsKept(U \ {c}, k, y)
    BY <1>3, <2>2
  <2> QED
    BY <1>4, <2>1, <2>3
<1> DEFINE mods2 == Chain2(c, a)
<1>5. DOMAIN mods2 = SlotsOf(c) /\ \A s \in SlotsOf(c) : mods2[s] \in (0 .. s) \cup {Zero} /\ mods2[s] \in 0 .. Zero
  BY <1>1, Chains2
<1>6. CASE drum /\ c \notin {7, 8}
  <2>1. x = SetMods(k, mods2)
    BY <1>6 DEF SetupAlg
  <2> DEFINE y == SetMods(k, mods2)
  <2> HIDE DEF mods2
  <2>2. /\ y \in Chips(U) /\ RoutesOnly(U, k, y) /\ AlgsKept(U, k, y) /\ y.nts = k.nts
        /\ Ordered(U, k) => Ordered(U, y)
        /\ ModsKept(Slots(U) \ SlotsOf(c), k, y) /\ OutsKept(U \ {c}, k, y)
    BY <1>3, <1>5
  <2> QED
    BY <1>6, <2>1, <2>2
<1>7. CASE ~drum /\ a = 8
  <2>1. x = k
    BY <1>7 DEF SetupAlg
  <2> QED
    BY <1>2, <1>7, <2>1
<1>8. CASE ~drum /\ a < 4
  <2> DEFINE y == SetMods(k, mods2)
  <2>1. x = SetOut(y, c, Heard2(c, a))
    <3>1. ~(a >= 8) /\ ~(a \in 4 .. 7)
      BY <1>1, <1>8
    <3> QED
      BY <1>8, <3>1 DEF SetupAlg
  <2>2. /\ y \in Chips(U) /\ RoutesOnly(U, k, y) /\ AlgsKept(U, k, y) /\ y.nts = k.nts
        /\ Ordered(U, k) => Ordered(U, y)
        /\ ModsKept(Slots(U) \ SlotsOf(c), k, y) /\ OutsKept(U \ {c}, k, y)
        /\ y.channel = k.channel /\ \A s \in SlotsOf(c) : y.slot[s].mod = mods2[s]
    <3> HIDE DEF mods2
    <3> QED
      BY <1>3, <1>5
  <2>3. Heard2(c, a) \in Outs
    BY <1>1, Chains2
  <2> HIDE DEF y, x
  <2>4. /\ x \in Chips(U) /\ RoutesOnly(U, y, x) /\ AlgsKept(U, y, x) /\ x.slot = y.slot /\ x.nts = y.nts
        /\ x.channel[c].out = Heard2(c, a) /\ OutsKept(U \ {c}, y, x)
    BY <2>1, <2>2, <2>3, SetOutDoes
  <2>5. RoutesOnly(U, k, x)
    BY <2>2, <2>4, RoutesOnlyTwice
  <2>6. AlgsKept(U, k, x)
    BY <2>2, <2>4 DEF AlgsKept
  <2>7. OutsKept(U \ {c}, k, x)
    BY <2>2, <2>4 DEF OutsKept
  <2>8. (Ordered(U, k) => Ordered(U, x)) /\ ModsKept(Slots(U) \ SlotsOf(c), k, x)
    BY <2>2, <2>4 DEF Ordered, ModsKept
  <2>9. Wired2(x, c)
    <3>1. x.channel[c].alg = a
      BY <2>6 DEF AlgsKept
    <3> QED
      BY <2>2, <2>4, <3>1 DEF Wired2
  <2> QED
    BY <2>2, <2>4, <2>5, <2>6, <2>7, <2>8, <2>9 DEF x
<1> QED
  BY <1>1, <1>4, <1>6, <1>7, <1>8

LEMMA SetupAlgBoth ==
  ASSUME NEW U \in SUBSET Channels, NEW k \in Chips(U), NEW c \in U, k.channel[c].alg \in 4 .. 7,
         Second(U, c), k.channel[c].chtype # "drum"
  PROVE  LET x == SetupAlg(k, c)
         IN /\ x \in Chips(U) /\ RoutesOnly(U, k, x) /\ AlgsKept(U, k, x) /\ x.nts = k.nts
            /\ Ordered(U, k) => Ordered(U, x)
            /\ ModsKept(Slots(U) \ (SlotsOf(c) \cup SlotsOf(pair(c))), k, x)
            /\ OutsKept(U \ {c, pair(c)}, k, x)
            /\ Wired4(x, pair(c), c)
<1> DEFINE a == k.channel[c].alg
           p == pair(c)
           mods == Chain4(p, c, a)
           y == SetMods(k, mods)
           z == SetOut(y, p, <<>>)
           x == SetupAlg(k, c)
           S == SlotsOf(p) \cup SlotsOf(c)
<1>1. /\ c \in Channels /\ a \in 4 .. 7 /\ p \in U /\ p \in Channels /\ HasPair(p) /\ p % 9 < 3 /\ c = pair(p) /\ p # c
      /\ S \subseteq Slots(U)
  BY SlotsIn, Pairs DEF Second
<1>2. x = SetOut(z, c, Heard4(p, c, a))
  <2>1. ~(a >= 8)
    BY <1>1
  <2> QED
    BY <1>1, <2>1 DEF SetupAlg
<1>3. /\ DOMAIN mods = S /\ \A s \in S : mods[s] \in (0 .. s) \cup {Zero} /\ mods[s] \in 0 .. Zero
      /\ Heard4(p, c, a) \in Outs /\ <<>> \in Outs
  <2>1. a \in 0 .. 8
    BY <1>1
  <2>2. <<>> \in Outs
    BY DEF Outs
  <2> QED
    BY <1>1, <2>1, <2>2, Chains4
<1> HIDE DEF mods, S, p
<1>4. /\ y \in Chips(U) /\ RoutesOnly(U, k, y) /\ y.channel = k.channel /\ y.nts = k.nts
      /\ \A s \in Slots(U) : y.slot[s].mod = IF s \in DOMAIN mods THEN mods[s] ELSE k.slot[s].mod
  BY <1>3, SetModsDoes
<1> HIDE DEF y
<1>5. /\ z \in Chips(U) /\ RoutesOnly(U, y, z) /\ AlgsKept(U, y, z) /\ z.slot = y.slot /\ z.nts = y.nts
      /\ z.channel[p].out = <<>> /\ OutsKept(U \ {p}, y, z)
  BY <1>1, <1>3, <1>4, SetOutDoes
<1> HIDE DEF z, x
<1>6. /\ x \in Chips(U) /\ RoutesOnly(U, z, x) /\ AlgsKept(U, z, x) /\ x.slot = z.slot /\ x.nts = z.nts
      /\ x.channel[c].out = Heard4(p, c, a) /\ OutsKept(U \ {c}, z, x)
  BY <1>2, <1>3, <1>5, SetOutDoes
<1>7. RoutesOnly(U, k, x)
  BY <1>4, <1>5, <1>6, RoutesOnlyTwice
<1>8. AlgsKept(U, k, x) /\ OutsKept(U \ {c, p}, k, x)
  BY <1>4, <1>5, <1>6 DEF AlgsKept, OutsKept
<1>9. /\ Ordered(U, k) => Ordered(U, x)
      /\ ModsKept(Slots(U) \ S, k, x) /\ \A s \in S : x.slot[s].mod = mods[s]
  BY <1>1, <1>3, <1>4, <1>5, <1>6 DEF Ordered, ModsKept
<1>10. Wired4(x, p, c)
  <2>1. x.channel[c].alg = a
    BY <1>8 DEF AlgsKept
  <2>2. x.channel[p].out = <<>>
    BY <1>1, <1>5, <1>6 DEF OutsKept
  <2> QED
    BY <1>6, <1>9, <2>1, <2>2 DEF Wired4, S, mods
<1>11. ModsKept(Slots(U) \ (SlotsOf(c) \cup SlotsOf(pair(c))), k, x)
  BY <1>9 DEF S, p, ModsKept
<1> QED
  BY <1>4, <1>5, <1>6, <1>7, <1>8, <1>9, <1>10, <1>11 DEF x, p

(***************************************************************************)
(* Connections                                                             *)
(***************************************************************************)
\* A voice of two channels is its first and its second one; only the rhythm's drum.
KindsFit(U, k) ==
  \A c \in U :
    /\ k.channel[c].chtype = "4op" => First(U, c) /\ k.channel[pair(c)].chtype = "4op2"
    /\ k.channel[c].chtype = "4op2" => Second(U, c) /\ k.channel[pair(c)].chtype = "4op"
    /\ k.channel[c].chtype = "drum" => c \in RhythmChannels
\* Without a pair, a channel's algorithm is its own connection.
OwnAlgs(U, k) == \A c \in U : ~HasPair(c) => k.channel[c].alg = Bit(k.channel[c].con)
RoutesFit(U, k) == Ordered(U, k) /\ AlgsFit(U, k) /\ KindsFit(U, k) /\ OwnAlgs(U, k)

\* The algorithms are those of the connections, and the voices wired by them.
Sound2(k, c) ==
  /\ k.channel[c].alg = Bit(k.channel[c].con)
  /\ k.channel[c].chtype # "drum" => Wired2(k, c)
Sound4(k, p, c) ==
  /\ k.channel[c].alg = 4 + 2 * Bit(k.channel[p].con) + Bit(k.channel[c].con)
  /\ Wired4(k, p, c)
Sound(k, c) ==
  /\ Kind(k, c) = "2op" => Sound2(k, c)
  /\ Kind(k, c) = "4op" => Sound4(k, c, pair(c))
  /\ Kind(k, c) = "4op2" => Sound4(k, pair(c), c)

LEMMA ChannelAlg ==
  ASSUME NEW h \in ChannelStates, NEW a \in 0 .. 8 PROVE [h EXCEPT !.alg = a] \in ChannelStates
BY DEF ChannelStates

LEMMA SetAlgDoes ==
  ASSUME NEW U, NEW k \in Chips(U), NEW c \in U, NEW a \in 0 .. 8,
         NEW x, x = [k EXCEPT !.channel[c].alg = a]
  PROVE  /\ x \in Chips(U) /\ RoutesOnly(U, k, x) /\ x.slot = k.slot /\ x.nts = k.nts /\ OutsKept(U, k, x)
         /\ \A d \in U : /\ x.channel[d].con = k.channel[d].con
                         /\ x.channel[d].alg = IF d = c THEN a ELSE k.channel[d].alg
<1> DEFINE new == [k.channel EXCEPT ![c] = [k.channel[c] EXCEPT !.alg = a]]
<1>1. k.channel \in [U -> ChannelStates] /\ k.channel[c] \in ChannelStates
  BY DEF Chips
<1>2. [k.channel[c] EXCEPT !.alg = a] \in ChannelStates
  BY <1>1 DEF ChannelStates
<1>3. new \in [U -> ChannelStates]
  BY <1>1, <1>2
<1>4. x = [k EXCEPT !.channel = new]
  OBVIOUS
<1> HIDE DEF new
<1>5. x \in Chips(U) /\ x.channel = new /\ x.slot = k.slot /\ x.newm = k.newm /\ x.nts = k.nts
  <2>1. k \in Chips(U)
    OBVIOUS
  <2> QED
    BY ONLY <1>3, <1>4, <2>1, NewChannels
<1> USE DEF new
<1>6. ASSUME NEW d \in U
      PROVE  /\ x.channel[d].out = k.channel[d].out /\ x.channel[d].con = k.channel[d].con
             /\ x.channel[d].alg = IF d = c THEN a ELSE k.channel[d].alg
             /\ x.channel[d].chtype = k.channel[d].chtype /\ x.channel[d].f_num = k.channel[d].f_num
             /\ x.channel[d].block = k.channel[d].block /\ x.channel[d].ksv = k.channel[d].ksv
  BY <1>1, <1>5 DEF ChannelStates
<1> QED
  BY <1>5, <1>6 DEF RoutesOnly, LevelsKept, KeysKept, PitchKept, KindsKept, OutsKept

\* Its connection and its own algorithm.
Connects(k, c, w, x) == x = [k EXCEPT !.channel[c].con = w.con, !.channel[c].alg = Bit(w.con)]

LEMMA ConnectDoes ==
  ASSUME NEW U, NEW k \in Chips(U), NEW c \in U, NEW w, w.con \in BOOLEAN,
         NEW x, Connects(k, c, w, x)
  PROVE  /\ x \in Chips(U) /\ RoutesOnly(U, k, x) /\ x.slot = k.slot /\ x.nts = k.nts /\ OutsKept(U, k, x)
         /\ \A d \in U : /\ x.channel[d].con = IF d = c THEN w.con ELSE k.channel[d].con
                         /\ x.channel[d].alg = IF d = c THEN Bit(w.con) ELSE k.channel[d].alg
<1> DEFINE new == [k.channel EXCEPT ![c] = [k.channel[c] EXCEPT !.con = w.con, !.alg = Bit(w.con)]]
<1>1. k.channel \in [U -> ChannelStates] /\ k.channel[c] \in ChannelStates
  BY DEF Chips
<1>2. [k.channel[c] EXCEPT !.con = w.con, !.alg = Bit(w.con)] \in ChannelStates
  <2>1. [k.channel[c] EXCEPT !.con = w.con] \in ChannelStates
    BY <1>1 DEF ChannelStates
  <2>2. PICK e \in ChannelStates : e = [k.channel[c] EXCEPT !.con = w.con]
    BY <2>1
  <2>3. Bit(w.con) \in 0 .. 8
    BY DEF Bit
  <2>4. [e EXCEPT !.alg = Bit(w.con)] \in ChannelStates
    BY <2>3, ChannelAlg
  <2>5. [k.channel[c] EXCEPT !.con = w.con, !.alg = Bit(w.con)] = [e EXCEPT !.alg = Bit(w.con)]
    BY <2>2
  <2> QED
    BY <2>4, <2>5
<1>3. new \in [U -> ChannelStates]
  BY <1>1, <1>2
<1>4. x = [k EXCEPT !.channel = new]
  BY DEF Connects
<1> HIDE DEF new
<1>5. x \in Chips(U) /\ x.channel = new /\ x.slot = k.slot /\ x.newm = k.newm /\ x.nts = k.nts
  <2>1. k \in Chips(U)
    OBVIOUS
  <2> QED
    BY ONLY <1>3, <1>4, <2>1, NewChannels
<1> USE DEF new
<1>6. ASSUME NEW d \in U
      PROVE  /\ x.channel[d].out = k.channel[d].out /\ x.channel[d].alg = IF d = c THEN Bit(w.con) ELSE k.channel[d].alg
             /\ x.channel[d].con = IF d = c THEN w.con ELSE k.channel[d].con
             /\ x.channel[d].chtype = k.channel[d].chtype /\ x.channel[d].f_num = k.channel[d].f_num
             /\ x.channel[d].block = k.channel[d].block /\ x.channel[d].ksv = k.channel[d].ksv
  <2>1. x.channel[d] = IF d = c THEN [k.channel[c] EXCEPT !.con = w.con, !.alg = Bit(w.con)] ELSE k.channel[d]
    BY <1>1, <1>5
  <2>2. k.channel[c] \in ChannelStates
    BY <1>1
  <2> QED
    <3>1. PICK e : e = [k.channel[c] EXCEPT !.con = w.con, !.alg = Bit(w.con)]
      OBVIOUS
    <3>2. /\ e.con = w.con /\ e.alg = Bit(w.con) /\ e.out = k.channel[c].out /\ e.chtype = k.channel[c].chtype
          /\ e.f_num = k.channel[c].f_num /\ e.block = k.channel[c].block /\ e.ksv = k.channel[c].ksv
      BY ONLY <2>2, <3>1 DEF ChannelStates
    <3> QED
      BY ONLY <2>1, <3>1, <3>2
<1> QED
  BY <1>5, <1>6 DEF RoutesOnly, LevelsKept, KeysKept, PitchKept, KindsKept, OutsKept

\* What a write to the channels V leaves alone.
Elsewhere(U, V, k, x) ==
  AlgsKept(U \ V, k, x) /\ OutsKept(U \ V, k, x) /\ ModsKept(Slots(U) \ Slots(V), k, x)

LEMMA PairOf ==
  ASSUME NEW U \in SUBSET Channels, NEW p, First(U, p)
  PROVE  /\ p \in Channels /\ pair(p) \in U /\ pair(p) # p /\ pair(pair(p)) = p
         /\ Second(U, pair(p)) /\ ~Second(U, p)
BY Pairs DEF First, Second

LEMMA PairOfSecond ==
  ASSUME NEW U \in SUBSET Channels, NEW c, Second(U, c)
  PROVE  First(U, pair(c)) /\ pair(pair(c)) = c /\ pair(c) # c
BY Pairs DEF First, Second

Joins(k, p, q, j) ==
  j = [k EXCEPT !.channel[q].alg = 4 + 2 * Bit(k.channel[p].con) + Bit(k.channel[q].con), !.channel[p].alg = 8]

LEMMA JoinWires ==
  ASSUME NEW U \in SUBSET Channels, NEW k \in Chips(U), NEW p, First(U, p), NEW q, q = pair(p),
         Ordered(U, k), AlgsFit(U, k), OwnAlgs(U, k), k.channel[q].chtype # "drum",
         NEW j, Joins(k, p, q, j), NEW x, x = SetupAlg(j, q)
  PROVE  /\ x \in Chips(U) /\ RoutesOnly(U, k, x) /\ x.nts = k.nts
         /\ Ordered(U, x) /\ AlgsFit(U, x) /\ OwnAlgs(U, x)
         /\ Elsewhere(U, {p, q}, k, x) /\ Sound4(x, p, q)
         /\ \A d \in U : x.channel[d].con = k.channel[d].con
<1>1. p \in U /\ q \in U /\ p # q /\ Second(U, q) /\ pair(q) = p /\ HasPair(p) /\ HasPair(q)
  BY PairOf DEF First, Second
<1>2. PICK a \in 4 .. 7 : a = 4 + 2 * Bit(k.channel[p].con) + Bit(k.channel[q].con)
  BY DEF Bit
<1>3. j = [k EXCEPT !.channel[q].alg = a, !.channel[p].alg = 8]
  BY <1>2 DEF Joins
<1>4. /\ j \in Chips(U) /\ RoutesOnly(U, k, j) /\ j.slot = k.slot /\ j.nts = k.nts /\ OutsKept(U, k, j)
      /\ \A d \in U : /\ j.channel[d].con = k.channel[d].con
                      /\ j.channel[d].alg = IF d = q THEN a ELSE IF d = p THEN 8 ELSE k.channel[d].alg
  <2> DEFINE y == [k EXCEPT !.channel[q].alg = a]
  <2>1. j = [y EXCEPT !.channel[p].alg = 8]
    BY <1>3
  <2>2. y = [k EXCEPT !.channel[q].alg = a]
    OBVIOUS
  <2>3. k \in Chips(U) /\ q \in U /\ a \in 0 .. 8 /\ p \in U /\ 8 \in 0 .. 8
    BY <1>1, <1>2
  <2> HIDE DEF y
  <2>4. /\ y \in Chips(U) /\ RoutesOnly(U, k, y) /\ y.slot = k.slot /\ y.nts = k.nts /\ OutsKept(U, k, y)
        /\ \A d \in U : /\ y.channel[d].con = k.channel[d].con
                        /\ y.channel[d].alg = IF d = q THEN a ELSE k.channel[d].alg
    BY ONLY <2>2, <2>3, SetAlgDoes
  <2>5. /\ j \in Chips(U) /\ RoutesOnly(U, y, j) /\ j.slot = y.slot /\ j.nts = y.nts /\ OutsKept(U, y, j)
        /\ \A d \in U : /\ j.channel[d].con = y.channel[d].con
                        /\ j.channel[d].alg = IF d = p THEN 8 ELSE y.channel[d].alg
    <3>1. y \in Chips(U) /\ p \in U /\ 8 \in 0 .. 8
      BY ONLY <2>3, <2>4
    <3> QED
      BY ONLY <2>1, <3>1, SetAlgDoes
  <2>6. RoutesOnly(U, k, j)
    BY ONLY <2>4, <2>5, RoutesOnlyTwice
  <2>7. OutsKept(U, k, j)
    BY ONLY <2>4, <2>5 DEF OutsKept
  <2> QED
    BY ONLY <1>1, <2>4, <2>5, <2>6, <2>7
<1>5. j.channel[q].alg \in 4 .. 7 /\ j.channel[q].chtype # "drum"
  BY <1>1, <1>4 DEF RoutesOnly, KindsKept
<1>6. /\ x \in Chips(U) /\ RoutesOnly(U, j, x) /\ AlgsKept(U, j, x) /\ x.nts = j.nts
      /\ Ordered(U, j) => Ordered(U, x)
      /\ ModsKept(Slots(U) \ (SlotsOf(q) \cup SlotsOf(p)), j, x)
      /\ OutsKept(U \ {q, p}, j, x)
      /\ Wired4(x, p, q)
  <2>1. U \in SUBSET Channels /\ x = SetupAlg(j, q)
    OBVIOUS
  <2> QED
    BY ONLY <1>1, <1>4, <1>5, <2>1, SetupAlgBoth
<1>7. RoutesOnly(U, k, x)
  <2>1. RoutesOnly(U, k, j) /\ RoutesOnly(U, j, x)
    BY <1>4, <1>6
  <2> QED
    BY ONLY <2>1, RoutesOnlyTwice
<1>8. /\ \A d \in U : /\ x.channel[d].con = k.channel[d].con
                      /\ x.channel[d].alg = IF d = q THEN a ELSE IF d = p THEN 8 ELSE k.channel[d].alg
  BY <1>4, <1>6 DEF AlgsKept
<1>9. Ordered(U, x)
  BY <1>4, <1>6 DEF Ordered
<1>10. AlgsFit(U, x)
  <2>1. AlgsFit(U, k) /\ ~(8 \in 4 .. 7)
    OBVIOUS
  <2> QED
    BY ONLY <1>1, <1>8, <2>1 DEF AlgsFit
<1>11. OwnAlgs(U, x)
  <2>1. OwnAlgs(U, k)
    OBVIOUS
  <2> QED
    BY ONLY <1>1, <1>8, <2>1 DEF OwnAlgs
<1>12. Elsewhere(U, {p, q}, k, x)
  <2>1. AlgsKept(U \ {p, q}, k, x)
    BY <1>8 DEF AlgsKept
  <2>2. OutsKept(U \ {p, q}, k, x)
    BY <1>4, <1>6 DEF OutsKept
  <2>3. Slots({p, q}) = SlotsOf(q) \cup SlotsOf(p)
    BY DEF Slots
  <2>4. ModsKept(Slots(U) \ Slots({p, q}), k, x)
    BY <1>4, <1>6, <2>3 DEF ModsKept
  <2> QED
    BY <2>1, <2>2, <2>4 DEF Elsewhere
<1>13. Sound4(x, p, q)
  BY <1>1, <1>2, <1>6, <1>8 DEF Sound4
<1> QED
  BY <1>6, <1>4, <1>7, <1>8, <1>9, <1>10, <1>11, <1>12, <1>13

LEMMA SameKinds ==
  ASSUME NEW U, NEW k, NEW x, KindsKept(U, k, x)
  PROVE  /\ \A c \in U : Kind(x, c) = Kind(k, c) /\ Voice(x, c) = Voice(k, c)
         /\ KindsFit(U, k) => KindsFit(U, x)
<1>1. \A c \in U : Leads(x, c) = Leads(k, c) /\ Follows(x, c) = Follows(k, c)
  BY DEF KindsKept, Leads, Follows
<1>2. \A c \in U : Kind(x, c) = Kind(k, c)
  BY <1>1 DEF Kind
<1>3. \A c \in U : Voice(x, c) = Voice(k, c)
  BY <1>2 DEF Voice
<1>4. KindsFit(U, k) => KindsFit(U, x)
  BY DEF KindsFit, KindsKept, First, Second
<1> QED
  BY <1>2, <1>3, <1>4

\* What a channel is while channels are joined.
LEMMA KindsAre ==
  ASSUME NEW U \in SUBSET Channels, NEW k, KindsFit(U, k), NEW c \in U
  PROVE  /\ Kind(k, c) = "4op" <=> Leads(k, c)
         /\ Kind(k, c) = "4op2" <=> Follows(k, c)
         /\ Kind(k, c) = "2op" <=> ~Leads(k, c) /\ ~Follows(k, c)
         /\ Kind(k, c) \in {"4op", "4op2", "2op"}
         /\ Leads(k, c) => /\ First(U, c) /\ pair(c) \in U /\ pair(pair(c)) = c /\ Follows(k, pair(c)) /\ ~Leads(k, pair(c))
                           /\ k.channel[pair(c)].chtype = "4op2" /\ Kind(k, pair(c)) = "4op2"
         /\ Follows(k, c) => /\ Second(U, c) /\ pair(c) \in U /\ pair(pair(c)) = c /\ Leads(k, pair(c)) /\ ~Follows(k, pair(c))
                             /\ k.channel[pair(c)].chtype = "4op" /\ Kind(k, pair(c)) = "4op"
<1>1. Leads(k, c) => ~Follows(k, c)
  BY DEF Leads, Follows
<1>2. /\ Kind(k, c) = "4op" <=> Leads(k, c)
      /\ Kind(k, c) = "4op2" <=> Follows(k, c)
      /\ Kind(k, c) = "2op" <=> ~Leads(k, c) /\ ~Follows(k, c)
      /\ Kind(k, c) \in {"4op", "4op2", "2op"}
  BY <1>1 DEF Kind
<1>3. ASSUME Leads(k, c)
      PROVE  /\ First(U, c) /\ pair(c) \in U /\ pair(pair(c)) = c /\ Follows(k, pair(c)) /\ ~Leads(k, pair(c))
             /\ k.channel[pair(c)].chtype = "4op2" /\ Kind(k, pair(c)) = "4op2"
  <2>1. First(U, c) /\ k.channel[pair(c)].chtype = "4op2" /\ k.newm
    BY <1>3 DEF KindsFit, Leads
  <2>2. Follows(k, pair(c)) /\ ~Leads(k, pair(c))
    BY <2>1 DEF Follows, Leads
  <2>3. Kind(k, pair(c)) = "4op2"
    BY <2>2 DEF Kind
  <2> QED
    BY <2>1, <2>2, <2>3, PairOf
<1>4. ASSUME Follows(k, c)
      PROVE  /\ Second(U, c) /\ pair(c) \in U /\ pair(pair(c)) = c /\ Leads(k, pair(c)) /\ ~Follows(k, pair(c))
             /\ k.channel[pair(c)].chtype = "4op" /\ Kind(k, pair(c)) = "4op"
  <2>1. Second(U, c) /\ k.channel[pair(c)].chtype = "4op" /\ k.newm
    BY <1>4 DEF KindsFit, Follows
  <2>2. Leads(k, pair(c)) /\ ~Follows(k, pair(c))
    BY <2>1 DEF Follows, Leads
  <2>3. Kind(k, pair(c)) = "4op" /\ First(U, pair(c))
    BY <2>1, <2>2, PairOfSecond DEF Kind
  <2> QED
    BY <2>1, <2>2, <2>3, PairOfSecond DEF First
<1> QED
  BY <1>2, <1>3, <1>4

LEMMA RoutesFitKept ==
  ASSUME NEW U, NEW k, NEW x, RoutesFit(U, k), RoutesKept(U, k, x), KindsKept(U, k, x)
  PROVE  RoutesFit(U, x)
<1>1. KindsFit(U, x)
  BY SameKinds DEF RoutesFit
<1>2. Ordered(U, x)
  BY DEF RoutesFit, RoutesKept, ModsKept, Ordered
<1>3. AlgsFit(U, x)
  BY DEF RoutesFit, RoutesKept, AlgsKept, AlgsFit
<1>4. OwnAlgs(U, x)
  BY DEF RoutesFit, RoutesKept, AlgsKept, OwnAlgs
<1> QED
  BY <1>1, <1>2, <1>3, <1>4 DEF RoutesFit

\* C0: the voice of the channel is sound, and the others are as they were.
LEMMA WriteC0Does ==
  ASSUME NEW U \in SUBSET Channels, NEW k \in Chips(U), NEW c \in U, NEW w, w.con \in BOOLEAN,
         RoutesFit(U, k), NEW x, x = WriteC0(k, c, w.con)
  PROVE  /\ x \in Chips(U) /\ RoutesOnly(U, k, x) /\ x.nts = k.nts /\ RoutesFit(U, x)
         /\ Elsewhere(U, Voice(k, c), k, x) /\ \A d \in Voice(k, c) : Sound(x, d)
<1> DEFINE k1 == [k EXCEPT !.channel[c].con = w.con, !.channel[c].alg = Bit(w.con)]
<1>1. Bit(w.con) \in 0 .. 1 /\ KindsFit(U, k) /\ Ordered(U, k) /\ AlgsFit(U, k) /\ OwnAlgs(U, k)
  BY DEF Bit, RoutesFit
<1>2. /\ k1 \in Chips(U) /\ RoutesOnly(U, k, k1) /\ k1.slot = k.slot /\ k1.nts = k.nts /\ OutsKept(U, k, k1)
      /\ \A d \in U : /\ k1.channel[d].con = IF d = c THEN w.con ELSE k.channel[d].con
                      /\ k1.channel[d].alg = IF d = c THEN Bit(w.con) ELSE k.channel[d].alg
  <2>1. Connects(k, c, w, k1)
    BY DEF Connects
  <2>2. k \in Chips(U) /\ c \in U /\ w.con \in BOOLEAN
    OBVIOUS
  <2> HIDE DEF k1
  <2> QED
    BY ONLY <2>1, <2>2, ConnectDoes
<1>3. Ordered(U, k1) /\ AlgsFit(U, k1) /\ OwnAlgs(U, k1) /\ KindsKept(U, k, k1)
  <2> HIDE DEF k1
  <2>1. Ordered(U, k1)
    BY <1>1, <1>2 DEF Ordered
  <2>2. AlgsFit(U, k1)
    BY <1>1, <1>2 DEF AlgsFit
  <2>3. OwnAlgs(U, k1)
    BY <1>1, <1>2 DEF OwnAlgs
  <2> QED
    BY <1>2, <2>1, <2>2, <2>3 DEF RoutesOnly
<1>4. ASSUME NEW p, First(U, p), NEW q, q = pair(p), c \in {p, q}, Voice(k, c) = {p, q},
             Kind(k, p) = "4op", Kind(k, q) = "4op2", k.channel[q].chtype = "4op2",
             x = SetupAlg([k1 EXCEPT !.channel[q].alg = 4 + 2 * Bit(k1.channel[p].con) + Bit(k1.channel[q].con),
                                     !.channel[p].alg = 8], q)
      PROVE  /\ x \in Chips(U) /\ RoutesOnly(U, k, x) /\ x.nts = k.nts /\ RoutesFit(U, x)
             /\ Elsewhere(U, Voice(k, c), k, x) /\ \A d \in Voice(k, c) : Sound(x, d)
  <2>1. p \in U /\ q \in U /\ pair(q) = p
    BY <1>4, PairOf DEF First
  <2> HIDE DEF k1
  <2>2. k1.channel[q].chtype # "drum"
    BY <1>3, <1>4, <2>1 DEF KindsKept
  <2>3. PICK j : Joins(k1, p, q, j)
    BY DEF Joins
  <2>4. /\ U \in SUBSET Channels /\ k1 \in Chips(U) /\ First(U, p) /\ q = pair(p)
        /\ Ordered(U, k1) /\ AlgsFit(U, k1) /\ OwnAlgs(U, k1) /\ x = SetupAlg(j, q)
    BY <1>2, <1>3, <1>4, <2>3 DEF Joins
  <2>5. /\ x \in Chips(U) /\ RoutesOnly(U, k1, x) /\ x.nts = k1.nts
        /\ Ordered(U, x) /\ AlgsFit(U, x) /\ OwnAlgs(U, x)
        /\ Elsewhere(U, {p, q}, k1, x) /\ Sound4(x, p, q)
    BY ONLY <2>2, <2>3, <2>4, JoinWires
  <2>6. RoutesOnly(U, k, x)
    BY ONLY <1>2, <2>5, RoutesOnlyTwice
  <2>7. KindsFit(U, x) /\ Kind(x, p) = "4op" /\ Kind(x, q) = "4op2"
    <3>1. KindsKept(U, k, x)
      BY ONLY <2>6 DEF RoutesOnly
    <3>2. Kind(x, p) = Kind(k, p) /\ Kind(x, q) = Kind(k, q) /\ (KindsFit(U, k) => KindsFit(U, x))
      BY ONLY <2>1, <3>1, SameKinds
    <3> QED
      BY <1>1, <1>4, <3>2
  <2>8. Elsewhere(U, {p, q}, k, x)
    <3>1. AlgsKept(U \ {p, q}, k, x)
      BY <1>2, <1>4, <2>5 DEF Elsewhere, AlgsKept
    <3>2. OutsKept(U \ {p, q}, k, x)
      BY <1>2, <2>5 DEF Elsewhere, OutsKept
    <3>3. ModsKept(Slots(U) \ Slots({p, q}), k, x)
      BY <1>2, <2>5 DEF Elsewhere, ModsKept
    <3> QED
      BY <3>1, <3>2, <3>3 DEF Elsewhere
  <2>9. Sound(x, p) /\ Sound(x, q)
    BY <1>4, <2>1, <2>5, <2>7 DEF Sound
  <2>10. RoutesFit(U, x)
    BY <2>5, <2>7 DEF RoutesFit
  <2>11. x.nts = k.nts /\ x \in Chips(U)
    BY <1>2, <2>5
  <2> QED
    BY <1>4, <2>6, <2>8, <2>9, <2>10, <2>11
<1>5. CASE Leads(k, c)
  <2>1. First(U, c) /\ k.channel[pair(c)].chtype = "4op2" /\ Kind(k, pair(c)) = "4op2" /\ Kind(k, c) = "4op"
    BY <1>1, <1>5, KindsAre
  <2>2. Voice(k, c) = {c, pair(c)}
    BY <2>1 DEF Voice
  <2>3. x = SetupAlg([k1 EXCEPT !.channel[pair(c)].alg = 4 + 2 * Bit(k1.channel[c].con) + Bit(k1.channel[pair(c)].con),
                                !.channel[c].alg = 8], pair(c))
    <3>1. ~Follows(k, c)
      BY <1>5 DEF Leads, Follows
    <3> QED
      BY <1>5, <3>1 DEF WriteC0
  <2> HIDE DEF k1
  <2> QED
    BY <1>4, <2>1, <2>2, <2>3
<1>6. CASE Follows(k, c)
  <2>1. /\ First(U, pair(c)) /\ pair(pair(c)) = c /\ k.channel[c].chtype = "4op2"
        /\ Kind(k, pair(c)) = "4op" /\ Kind(k, c) = "4op2"
    BY <1>1, <1>6, KindsAre, PairOfSecond DEF Follows
  <2>2. Voice(k, c) = {pair(c), c}
    BY <2>1 DEF Voice
  <2>3. x = SetupAlg([k1 EXCEPT !.channel[c].alg = 4 + 2 * Bit(k1.channel[pair(c)].con) + Bit(k1.channel[c].con),
                                !.channel[pair(c)].alg = 8], c)
    <3>1. ~Leads(k, c)
      BY <1>6 DEF Leads, Follows
    <3> QED
      BY <1>6, <3>1 DEF WriteC0
  <2> HIDE DEF k1
  <2> QED
    BY <1>4, <2>1, <2>2, <2>3
<1>7. CASE ~Leads(k, c) /\ ~Follows(k, c)
  <2>1. x = SetupAlg(k1, c)
    BY <1>7 DEF WriteC0
  <2>2. Kind(k, c) = "2op" /\ Voice(k, c) = {c}
    BY <1>1, <1>7, KindsAre DEF Voice
  <2> HIDE DEF k1
  <2>3. k1.channel[c].alg = Bit(w.con) /\ ~(k1.channel[c].alg \in 4 .. 7) /\ k1.channel[c].alg < 8
    BY <1>1, <1>2
  <2>4. U \in SUBSET Channels /\ k1 \in Chips(U) /\ c \in U
    BY <1>2
  <2>5. /\ x \in Chips(U) /\ RoutesOnly(U, k1, x) /\ AlgsKept(U, k1, x) /\ x.nts = k1.nts
        /\ Ordered(U, k1) => Ordered(U, x)
        /\ ModsKept(Slots(U) \ SlotsOf(c), k1, x) /\ OutsKept(U \ {c}, k1, x)
        /\ k1.channel[c].alg < 8 /\ k1.channel[c].chtype # "drum" => Wired2(x, c)
    BY ONLY <2>1, <2>3, <2>4, SetupAlgOwn
  <2>6. RoutesOnly(U, k, x)
    BY ONLY <1>2, <2>5, RoutesOnlyTwice
  <2>7. KindsKept(U, k, x) /\ KindsKept(U, k1, x)
    BY <2>5, <2>6 DEF RoutesOnly
  <2>8. KindsFit(U, x) /\ Kind(x, c) = "2op"
    <3>1. Kind(x, c) = Kind(k, c) /\ (KindsFit(U, k) => KindsFit(U, x))
      BY ONLY <2>4, <2>7, SameKinds
    <3> QED
      BY <1>1, <2>2, <3>1
  <2>9. \A d \in U : /\ x.channel[d].con = IF d = c THEN w.con ELSE k.channel[d].con
                     /\ x.channel[d].alg = IF d = c THEN Bit(w.con) ELSE k.channel[d].alg
    BY <1>2, <2>5 DEF AlgsKept
  <2>10. AlgsFit(U, x) /\ OwnAlgs(U, x)
    <3>1. AlgsFit(U, x)
      BY <1>1, <2>9 DEF AlgsFit
    <3>2. OwnAlgs(U, x)
      BY <1>1, <2>9 DEF OwnAlgs
    <3> QED
      BY <3>1, <3>2
  <2>11. RoutesFit(U, x)
    BY <1>3, <2>5, <2>8, <2>10 DEF RoutesFit
  <2>12. Elsewhere(U, {c}, k, x)
    <3>1. AlgsKept(U \ {c}, k, x)
      BY <2>9 DEF AlgsKept
    <3>2. OutsKept(U \ {c}, k, x)
      BY <1>2, <2>5 DEF OutsKept
    <3>3. Slots({c}) = SlotsOf(c)
      BY DEF Slots
    <3>4. ModsKept(Slots(U) \ Slots({c}), k, x)
      BY <1>2, <2>5, <3>3 DEF ModsKept
    <3> QED
      BY <3>1, <3>2, <3>4 DEF Elsewhere
  <2>13. Sound(x, c)
    <3>1. x.channel[c].alg = Bit(x.channel[c].con)
      BY <2>9
    <3>2. x.channel[c].chtype # "drum" => Wired2(x, c)
      BY <2>3, <2>5, <2>7 DEF KindsKept
    <3> QED
      BY <2>8, <3>1, <3>2 DEF Sound, Sound2
  <2>14. x.nts = k.nts /\ x \in Chips(U)
    BY <1>2, <2>5
  <2> QED
    BY <2>2, <2>6, <2>11, <2>12, <2>13, <2>14
<1> QED
  BY <1>5, <1>6, <1>7

(***************************************************************************)
(* Keys                                                                    *)
(***************************************************************************)
\* Slot t is slot s with another key.
OtherKey(s, t) ==
  /\ t \in SlotStates /\ t.mod = s.mod /\ t.eg_gen = s.eg_gen /\ t.eg_rout = s.eg_rout /\ t.eg_ksl = s.eg_ksl

LEMMA KeyChanges ==
  ASSUME NEW s \in SlotStates, NEW type \in KeyTypes
  PROVE  /\ OtherKey(s, s)
         /\ OtherKey(s, KeyOn(s, type)) /\ KeyOn(s, type).key = s.key \cup {type}
         /\ OtherKey(s, KeyOff(s, type)) /\ KeyOff(s, type).key = s.key \ {type}
BY DEF SlotStates, KeyOn, KeyOff, OtherKey

LEMMA KeysSet ==
  ASSUME NEW U, NEW k \in Chips(U), NEW new, DOMAIN new = Slots(U), new = [s \in Slots(U) |-> new[s]],
         \A s \in Slots(U) : OtherKey(k.slot[s], new[s]), NEW x, x = [k EXCEPT !.slot = new]
  PROVE  x \in Chips(U) /\ KeysOnly(U, k, x) /\ x.nts = k.nts /\ x.slot = new /\ x.channel = k.channel
<1>1. new \in [Slots(U) -> SlotStates]
  BY DEF OtherKey
<1>2. x \in Chips(U) /\ x.slot = new /\ x.channel = k.channel /\ x.newm = k.newm /\ x.nts = k.nts
  <2>1. k \in Chips(U) /\ x = [k EXCEPT !.slot = new]
    OBVIOUS
  <2> QED
    BY ONLY <1>1, <2>1, NewSlots
<1>3. \A s \in Slots(U) : /\ x.slot[s].mod = k.slot[s].mod /\ x.slot[s].eg_gen = k.slot[s].eg_gen
                          /\ x.slot[s].eg_rout = k.slot[s].eg_rout /\ x.slot[s].eg_ksl = k.slot[s].eg_ksl
  BY <1>2 DEF OtherKey
<1> QED
  BY <1>2, <1>3 DEF KeysOnly, LevelsKept, PitchKept, RoutesKept, KindsKept, AlgsKept, ModsKept, OutsKept

KeyedOn(k, S, type, x) == x = MapSlots(k, S, LAMBDA s : KeyOn(s, type))
KeyedOff(k, S, type, x) == x = MapSlots(k, S, LAMBDA s : KeyOff(s, type))

\* What they give.
NowOn(U, k, S, type, x) ==
  /\ x \in Chips(U) /\ KeysOnly(U, k, x) /\ x.nts = k.nts /\ x.channel = k.channel
  /\ \A s \in Slots(U) : x.slot[s].key = IF s \in S THEN k.slot[s].key \cup {type} ELSE k.slot[s].key
NowOff(U, k, S, type, x) ==
  /\ x \in Chips(U) /\ KeysOnly(U, k, x) /\ x.nts = k.nts /\ x.channel = k.channel
  /\ \A s \in Slots(U) : x.slot[s].key = IF s \in S THEN k.slot[s].key \ {type} ELSE k.slot[s].key

LEMMA KeyOnDoes ==
  ASSUME NEW U, NEW k \in Chips(U), NEW S, NEW type \in KeyTypes, NEW x, KeyedOn(k, S, type, x)
  PROVE  NowOn(U, k, S, type, x)
<1> DEFINE new == [s \in Slots(U) |-> IF s \in S THEN KeyOn(k.slot[s], type) ELSE k.slot[s]]
<1>1. k.slot \in [Slots(U) -> SlotStates]
  BY DEF Chips
<1>2. x = [k EXCEPT !.slot = new]
  BY <1>1 DEF MapSlots, KeyedOn
<1>3. \A s \in Slots(U) : /\ OtherKey(k.slot[s], new[s])
                          /\ new[s].key = IF s \in S THEN k.slot[s].key \cup {type} ELSE k.slot[s].key
  BY <1>1, KeyChanges
<1>4. DOMAIN new = Slots(U) /\ new = [s \in Slots(U) |-> new[s]]
  OBVIOUS
<1> HIDE DEF new
<1>5. x \in Chips(U) /\ KeysOnly(U, k, x) /\ x.nts = k.nts /\ x.slot = new /\ x.channel = k.channel
  <2>1. k \in Chips(U) /\ \A s \in Slots(U) : OtherKey(k.slot[s], new[s])
    BY <1>3
  <2> QED
    BY ONLY <1>2, <1>4, <2>1, KeysSet
<1> QED
  BY <1>3, <1>5 DEF NowOn

LEMMA KeyOffDoes ==
  ASSUME NEW U, NEW k \in Chips(U), NEW S, NEW type \in KeyTypes, NEW x, KeyedOff(k, S, type, x)
  PROVE  NowOff(U, k, S, type, x)
<1> DEFINE new == [s \in Slots(U) |-> IF s \in S THEN KeyOff(k.slot[s], type) ELSE k.slot[s]]
<1>1. k.slot \in [Slots(U) -> SlotStates]
  BY DEF Chips
<1>2. x = [k EXCEPT !.slot = new]
  BY <1>1 DEF MapSlots, KeyedOff
<1>3. \A s \in Slots(U) : /\ OtherKey(k.slot[s], new[s])
                          /\ new[s].key = IF s \in S THEN k.slot[s].key \ {type} ELSE k.slot[s].key
  BY <1>1, KeyChanges
<1>4. DOMAIN new = Slots(U) /\ new = [s \in Slots(U) |-> new[s]]
  OBVIOUS
<1> HIDE DEF new
<1>5. x \in Chips(U) /\ KeysOnly(U, k, x) /\ x.nts = k.nts /\ x.slot = new /\ x.channel = k.channel
  <2>1. k \in Chips(U) /\ \A s \in Slots(U) : OtherKey(k.slot[s], new[s])
    BY <1>3
  <2> QED
    BY ONLY <1>2, <1>4, <2>1, KeysSet
<1> QED
  BY <1>3, <1>5 DEF NowOff

(***************************************************************************)
(* Pitch                                                                   *)
(***************************************************************************)
LEMMA KeyScaleNat ==
  ASSUME NEW f \in 0 .. 1023, NEW b \in 0 .. 7 PROVE KeyScaleLevel(f, b) \in Nat
<1>1. PICK i \in 1 .. 16 : i = f \div 64 + 1
  OBVIOUS
<1>2. kslrom[i] \in Nat
  BY DEF kslrom
<1> DEFINE ksl == 4 * kslrom[i] - 32 * (8 - b)
<1>3. ksl \in Int
  BY <1>2
<1>4. KeyScaleLevel(f, b) = IF ksl < 0 THEN 0 ELSE ksl % 256
  BY <1>1 DEF KeyScaleLevel
<1> HIDE DEF ksl
<1> QED
  BY <1>3, <1>4

FNums == 0 .. 1023
Blocks == 0 .. 7
Ksvs == 0 .. 15
Lows == 0 .. 255

\* The slots have the levels of their channels' pitches.
Tuned(U, k) ==
  \A c \in U : \A s \in SlotsOf(c) : k.slot[s].eg_ksl = KeyScaleLevel(k.channel[c].f_num, k.channel[c].block)
\* Channel c has this pitch, the others theirs.
Pitched(U, k, c, f, b, v, x) ==
  \A d \in U : /\ x.channel[d].f_num = IF d = c THEN f ELSE k.channel[d].f_num
               /\ x.channel[d].block = IF d = c THEN b ELSE k.channel[d].block
               /\ x.channel[d].ksv = IF d = c THEN v ELSE k.channel[d].ksv
PitchSet(k, c, f, b, v, y) ==
  y = [k EXCEPT !.channel[c].f_num = f, !.channel[c].block = b, !.channel[c].ksv = v]

LEMMA PitchSetDoes ==
  ASSUME NEW U, NEW k \in Chips(U), NEW c \in U, NEW f \in FNums, NEW b \in Blocks, NEW v \in Ksvs,
         NEW x, PitchSet(k, c, f, b, v, x)
  PROVE  /\ x \in Chips(U) /\ RoutesKept(U, k, x) /\ KindsKept(U, k, x) /\ x.nts = k.nts /\ x.slot = k.slot
         /\ Pitched(U, k, c, f, b, v, x)
<1> DEFINE e == [k.channel[c] EXCEPT !.f_num = f, !.block = b, !.ksv = v]
           new == [k.channel EXCEPT ![c] = e]
<1>1. k.channel \in [U -> ChannelStates] /\ k.channel[c] \in ChannelStates
  BY DEF Chips
<1>2. /\ e \in ChannelStates /\ e.f_num = f /\ e.block = b /\ e.ksv = v
      /\ e.chtype = k.channel[c].chtype /\ e.con = k.channel[c].con /\ e.alg = k.channel[c].alg
      /\ e.out = k.channel[c].out
  <2> DEFINE h == k.channel[c]
  <2>1. PICK e1 : e1 = [h EXCEPT !.f_num = f]
    OBVIOUS
  <2>2. PICK e2 : e2 = [e1 EXCEPT !.block = b]
    OBVIOUS
  <2>3. e = [e2 EXCEPT !.ksv = v]
    BY <2>1, <2>2
  <2> HIDE DEF e
  <2>4. /\ e1 \in ChannelStates /\ e1.f_num = f
        /\ e1.chtype = h.chtype /\ e1.con = h.con /\ e1.alg = h.alg /\ e1.out = h.out
    BY <1>1, <2>1 DEF ChannelStates, FNums
  <2>5. /\ e2 \in ChannelStates /\ e2.f_num = f /\ e2.block = b
        /\ e2.chtype = h.chtype /\ e2.con = h.con /\ e2.alg = h.alg /\ e2.out = h.out
    BY <2>2, <2>4 DEF ChannelStates, Blocks
  <2>6. /\ e \in ChannelStates /\ e.f_num = f /\ e.block = b /\ e.ksv = v
        /\ e.chtype = h.chtype /\ e.con = h.con /\ e.alg = h.alg /\ e.out = h.out
    BY <2>3, <2>5 DEF ChannelStates, Ksvs
  <2> QED
    BY <2>6
<1>3. x = [k EXCEPT !.channel = new]
  BY <1>1 DEF PitchSet
<1> HIDE DEF e
<1>4. new \in [U -> ChannelStates]
  BY <1>1, <1>2
<1>5. \A d \in U : new[d] = IF d = c THEN e ELSE k.channel[d]
  BY <1>1
<1> HIDE DEF new
<1>6. x \in Chips(U) /\ x.channel = new /\ x.slot = k.slot /\ x.newm = k.newm /\ x.nts = k.nts
  <2>1. k \in Chips(U)
    OBVIOUS
  <2> QED
    BY ONLY <1>3, <1>4, <2>1, NewChannels
<1>7. Pitched(U, k, c, f, b, v, x)
  BY <1>2, <1>5, <1>6 DEF Pitched
<1>8. RoutesKept(U, k, x) /\ KindsKept(U, k, x)
  BY <1>2, <1>5, <1>6 DEF RoutesKept, AlgsKept, ModsKept, OutsKept, KindsKept
<1> QED
  BY <1>6, <1>7, <1>8

LEMMA UpdateKSLDoes ==
  ASSUME NEW U \in SUBSET Channels, NEW k \in Chips(U), NEW c \in U, NEW x, x = UpdateKSL(k, c)
  PROVE  /\ x \in Chips(U) /\ PitchOnly(U, k, x) /\ x.nts = k.nts /\ x.channel = k.channel
         /\ \A d \in U : \A s \in SlotsOf(d) : x.slot[s].eg_ksl = IF d = c THEN KeyScaleLevel(k.channel[c].f_num, k.channel[c].block)
                                                              ELSE k.slot[s].eg_ksl
<1> DEFINE n == KeyScaleLevel(k.channel[c].f_num, k.channel[c].block)
           new == [s \in Slots(U) |-> IF s \in SlotsOf(c) THEN [k.slot[s] EXCEPT !.eg_ksl = n] ELSE k.slot[s]]
<1>1. k.slot \in [Slots(U) -> SlotStates] /\ k.channel[c] \in ChannelStates
  BY DEF Chips
<1>2. n \in Nat
  BY <1>1, KeyScaleNat DEF ChannelStates
<1>3. x = [k EXCEPT !.slot = new]
  BY <1>1 DEF UpdateKSL, MapSlots
<1> HIDE DEF n
<1>4. ASSUME NEW s \in Slots(U)
      PROVE  /\ new[s] \in SlotStates /\ new[s].mod = k.slot[s].mod /\ new[s].key = k.slot[s].key
             /\ new[s].eg_gen = k.slot[s].eg_gen /\ new[s].eg_rout = k.slot[s].eg_rout
             /\ new[s].eg_ksl = IF s \in SlotsOf(c) THEN n ELSE k.slot[s].eg_ksl
  BY <1>1, <1>2 DEF SlotStates
<1>5. new \in [Slots(U) -> SlotStates]
  BY <1>4
<1> HIDE DEF new
<1>6. x \in Chips(U) /\ x.slot = new /\ x.channel = k.channel /\ x.newm = k.newm /\ x.nts = k.nts
  <2>1. k \in Chips(U)
    OBVIOUS
  <2> QED
    BY ONLY <1>3, <1>5, <2>1, NewSlots
<1>7. PitchOnly(U, k, x)
  BY <1>4, <1>6 DEF PitchOnly, LevelsKept, KeysKept, RoutesKept, AlgsKept, ModsKept, OutsKept, KindsKept
<1>8. ASSUME NEW d \in U, NEW s \in SlotsOf(d)
      PROVE  x.slot[s].eg_ksl = IF d = c THEN n ELSE k.slot[s].eg_ksl
  <2>1. s \in Slots(U) /\ (s \in SlotsOf(c) <=> d = c)
    BY SlotsIn, SlotsApart
  <2> QED
    BY <1>4, <1>6, <2>1
<1> QED
  BY <1>6, <1>7, <1>8 DEF n

LEMMA PitchOnlyTwice ==
  ASSUME NEW U, NEW k, NEW x, NEW y, PitchOnly(U, k, x), PitchOnly(U, x, y)
  PROVE  PitchOnly(U, k, y)
<1>1. LevelsKept(U, k, y)
  BY DEF PitchOnly, LevelsKept
<1>2. KeysKept(U, k, y)
  BY DEF PitchOnly, KeysKept
<1>3. RoutesKept(U, k, y)
  BY DEF PitchOnly, RoutesKept, AlgsKept, ModsKept, OutsKept
<1>4. KindsKept(U, k, y)
  BY DEF PitchOnly, KindsKept
<1> QED
  BY <1>1, <1>2, <1>3, <1>4 DEF PitchOnly

LEMMA PitchOnlyNone == ASSUME NEW U, NEW k PROVE PitchOnly(U, k, k)
BY DEF PitchOnly, LevelsKept, KeysKept, RoutesKept, AlgsKept, ModsKept, OutsKept, KindsKept

LEMMA NewPitchDoes ==
  ASSUME NEW U \in SUBSET Channels, NEW k \in Chips(U), NEW c \in U, NEW f \in FNums, NEW b \in Blocks, NEW v \in Ksvs,
         NEW y, PitchSet(k, c, f, b, v, y), NEW x, x = UpdateKSL(y, c)
  PROVE  /\ x \in Chips(U) /\ PitchOnly(U, k, x) /\ x.nts = k.nts /\ Pitched(U, k, c, f, b, v, x)
         /\ Tuned(U, k) => Tuned(U, x)
<1>1. /\ y \in Chips(U) /\ RoutesKept(U, k, y) /\ KindsKept(U, k, y) /\ y.nts = k.nts /\ y.slot = k.slot
      /\ Pitched(U, k, c, f, b, v, y)
  BY PitchSetDoes
<1>2. PitchOnly(U, k, y)
  BY <1>1 DEF PitchOnly, LevelsKept, KeysKept
<1>3. /\ x \in Chips(U) /\ PitchOnly(U, y, x) /\ x.nts = y.nts /\ x.channel = y.channel
      /\ \A d \in U : \A s \in SlotsOf(d) : x.slot[s].eg_ksl = IF d = c THEN KeyScaleLevel(y.channel[c].f_num, y.channel[c].block)
                                                           ELSE y.slot[s].eg_ksl
  <2>1. U \in SUBSET Channels /\ c \in U /\ x = UpdateKSL(y, c)
    OBVIOUS
  <2> QED
    BY ONLY <1>1, <2>1, UpdateKSLDoes
<1>4. PitchOnly(U, k, x)
  BY ONLY <1>2, <1>3, PitchOnlyTwice
<1>5. Pitched(U, k, c, f, b, v, x)
  BY <1>1, <1>3 DEF Pitched
<1>6. ASSUME Tuned(U, k) PROVE Tuned(U, x)
  <2> SUFFICES ASSUME NEW d \in U, NEW s \in SlotsOf(d)
               PROVE  x.slot[s].eg_ksl = KeyScaleLevel(x.channel[d].f_num, x.channel[d].block)
    BY DEF Tuned
  <2>1. CASE d = c
    BY <1>3, <2>1
  <2>2. CASE d # c
    <3>1. x.channel[d].f_num = k.channel[d].f_num /\ x.channel[d].block = k.channel[d].block
      BY <1>5, <2>2 DEF Pitched
    <3>2. x.slot[s].eg_ksl = k.slot[s].eg_ksl
      BY <1>1, <1>3, <2>2
    <3> QED
      BY <1>6, <3>1, <3>2 DEF Tuned
  <2> QED
    BY <2>1, <2>2
<1> QED
  BY <1>1, <1>3, <1>4, <1>5, <1>6

SamePitch(k, c, x, d) ==
  x.channel[d].f_num = k.channel[c].f_num /\ x.channel[d].block = k.channel[c].block /\ x.channel[d].ksv = k.channel[c].ksv

LEMMA ChannelPitches ==
  ASSUME NEW U, NEW k \in Chips(U), NEW c \in U
  PROVE  k.channel[c].f_num \in FNums /\ k.channel[c].block \in Blocks /\ k.channel[c].ksv \in Ksvs
BY DEF Chips, ChannelStates, FNums, Blocks, Ksvs

\* Channel c has a new pitch.
LEMMA WritePitchDoes ==
  ASSUME NEW U \in SUBSET Channels, NEW k \in Chips(U), NEW c \in U, NEW f \in FNums, NEW b \in Blocks,
         NEW x, x = WritePitch(k, c, f, b)
  PROVE  /\ x \in Chips(U) /\ PitchOnly(U, k, x) /\ x.nts = k.nts /\ (Tuned(U, k) => Tuned(U, x))
         /\ x.channel[c].f_num = f /\ x.channel[c].block = b
         /\ \A d \in U \ {c} : SamePitch(k, d, x, d)
<1>1. PICK v \in Ksvs : v = KeyScaleValue(k, f, b)
  BY DEF KeyScaleValue, Blocks, Ksvs, FNums
<1>2. PICK y : PitchSet(k, c, f, b, v, y)
  BY DEF PitchSet
<1>3. x = UpdateKSL(y, c)
  BY <1>1, <1>2 DEF WritePitch, PitchSet
<1>4. /\ x \in Chips(U) /\ PitchOnly(U, k, x) /\ x.nts = k.nts /\ Pitched(U, k, c, f, b, v, x)
      /\ Tuned(U, k) => Tuned(U, x)
  <2>1. U \in SUBSET Channels /\ k \in Chips(U) /\ c \in U /\ f \in FNums /\ b \in Blocks /\ v \in Ksvs
    OBVIOUS
  <2> QED
    BY ONLY <1>2, <1>3, <2>1, NewPitchDoes
<1> QED
  BY <1>4 DEF Pitched, SamePitch

\* The pair takes over the pitch, the block as told.
LEMMA CopyPitchDoes ==
  ASSUME NEW U \in SUBSET Channels, NEW k \in Chips(U), NEW c \in U, pair(c) \in U, pair(c) # c, NEW b \in Blocks,
         NEW x, x = CopyPitch(k, c, b)
  PROVE  /\ x \in Chips(U) /\ PitchOnly(U, k, x) /\ x.nts = k.nts /\ (Tuned(U, k) => Tuned(U, x))
         /\ x.channel[pair(c)].f_num = k.channel[c].f_num /\ x.channel[pair(c)].block = b
         /\ x.channel[pair(c)].ksv = k.channel[c].ksv
         /\ \A d \in U \ {pair(c)} : SamePitch(k, d, x, d)
<1>1. PICK p \in U : p = pair(c)
  OBVIOUS
<1>2. k.channel[c] \in ChannelStates
  BY DEF Chips
<1>3. PICK f \in FNums : f = k.channel[c].f_num
  BY ChannelPitches
<1>4. PICK v \in Ksvs : v = k.channel[c].ksv
  BY ChannelPitches
<1>5. PICK y : PitchSet(k, p, f, b, v, y)
  BY DEF PitchSet
<1>6. x = UpdateKSL(y, p)
  BY <1>1, <1>3, <1>4, <1>5 DEF CopyPitch, PitchSet
<1>7. /\ x \in Chips(U) /\ PitchOnly(U, k, x) /\ x.nts = k.nts /\ Pitched(U, k, p, f, b, v, x)
      /\ Tuned(U, k) => Tuned(U, x)
  <2>1. U \in SUBSET Channels /\ k \in Chips(U) /\ p \in U /\ f \in FNums /\ b \in Blocks /\ v \in Ksvs
    OBVIOUS
  <2> QED
    BY ONLY <1>5, <1>6, <2>1, NewPitchDoes
<1> QED
  BY <1>1, <1>3, <1>4, <1>7 DEF Pitched, SamePitch

\* A0 keeps voices of one pitch, B0 makes them; the others keep theirs.
LEMMA WriteA0Does ==
  ASSUME NEW U \in SUBSET Channels, NEW k \in Chips(U), KindsFit(U, k), NEW c \in U, NEW low \in Lows,
         NEW x, x = WriteA0(k, c, low)
  PROVE  /\ x \in Chips(U) /\ PitchOnly(U, k, x) /\ x.nts = k.nts /\ (Tuned(U, k) => Tuned(U, x))
         /\ Kind(k, c) = "4op2" => x = k
         /\ \A d \in U \ Voice(k, c) : SamePitch(k, d, x, d)
         /\ (\A d \in Voice(k, c) : SamePitch(k, c, k, d)) => (\A d \in Voice(k, c) : SamePitch(x, c, x, d))
<1>1. k.channel \in [U -> ChannelStates] /\ k.channel[c] \in ChannelStates
  BY DEF Chips
<1>2. PICK g \in FNums : g = k.channel[c].f_num
  BY ChannelPitches
<1>3. PICK f \in FNums : f = 256 * (k.channel[c].f_num \div 256) + low
  <2>1. 256 * (g \div 256) + low \in 0 .. 1023
    BY DEF FNums, Lows
  <2> QED
    BY <1>2, <2>1 DEF FNums
<1>4. PICK b \in Blocks : b = k.channel[c].block
  BY ChannelPitches
<1>5. PICK y : y = WritePitch(k, c, f, b)
  OBVIOUS
<1>6. /\ y \in Chips(U) /\ PitchOnly(U, k, y) /\ y.nts = k.nts /\ (Tuned(U, k) => Tuned(U, y))
      /\ y.channel[c].f_num = f /\ y.channel[c].block = b
      /\ \A d \in U \ {c} : SamePitch(k, d, y, d)
  <2>1. U \in SUBSET Channels /\ k \in Chips(U) /\ c \in U /\ f \in FNums /\ b \in Blocks
    OBVIOUS
  <2> QED
    BY ONLY <1>5, <2>1, WritePitchDoes
<1>7. CASE Follows(k, c)
  <2>1. x = k
    BY <1>7 DEF WriteA0
  <2>2. Kind(k, c) = "4op2"
    BY <1>7, KindsAre
  <2> QED
    BY <2>1, <2>2, PitchOnlyNone DEF SamePitch
<1>8. CASE Leads(k, c)
  <2>1. Kind(k, c) = "4op" /\ pair(c) \in U /\ pair(c) # c
    BY <1>8, KindsAre, PairOf
  <2>2. Voice(k, c) = {c, pair(c)}
    BY <2>1 DEF Voice
  <2>3. PICK h \in Blocks : h = y.channel[pair(c)].block
    BY <1>6, <2>1, ChannelPitches
  <2>4. x = CopyPitch(y, c, h)
    <3>1. ~Follows(k, c)
      BY <1>8 DEF Leads, Follows
    <3> QED
      BY ONLY <1>8, <1>3, <1>4, <1>5, <2>3, <3>1, x = WriteA0(k, c, low) DEF WriteA0
  <2>5. /\ x \in Chips(U) /\ PitchOnly(U, y, x) /\ x.nts = y.nts /\ (Tuned(U, y) => Tuned(U, x))
        /\ x.channel[pair(c)].f_num = y.channel[c].f_num /\ x.channel[pair(c)].block = h
        /\ x.channel[pair(c)].ksv = y.channel[c].ksv
        /\ \A d \in U \ {pair(c)} : SamePitch(y, d, x, d)
    <3>1. U \in SUBSET Channels /\ y \in Chips(U) /\ c \in U /\ h \in Blocks
      BY <1>6
    <3> QED
      BY ONLY <2>1, <2>4, <3>1, CopyPitchDoes
  <2>6. PitchOnly(U, k, x)
    BY ONLY <1>6, <2>5, PitchOnlyTwice
  <2>7. \A d \in U \ {c, pair(c)} : SamePitch(k, d, x, d)
    BY <1>6, <2>5 DEF SamePitch
  <2>8. SamePitch(k, c, k, pair(c)) => SamePitch(x, c, x, pair(c))
    BY <1>4, <1>6, <2>1, <2>3, <2>5 DEF SamePitch
  <2>9. SamePitch(x, c, x, c)
    BY DEF SamePitch
  <2> QED
    BY <1>6, <2>1, <2>2, <2>5, <2>6, <2>7, <2>8, <2>9
<1>9. CASE ~Follows(k, c) /\ ~Leads(k, c)
  <2>1. x = y
    BY <1>9, <1>3, <1>4, <1>5 DEF WriteA0
  <2>2. Kind(k, c) = "2op"
    BY <1>9, KindsAre
  <2>3. Voice(k, c) = {c}
    BY <2>2 DEF Voice
  <2>4. SamePitch(x, c, x, c)
    BY DEF SamePitch
  <2> QED
    BY <1>6, <2>1, <2>2, <2>3, <2>4
<1> QED
  BY <1>7, <1>8, <1>9

LEMMA WriteB0Does ==
  ASSUME NEW U \in SUBSET Channels, NEW k \in Chips(U), KindsFit(U, k), NEW c \in U,
         NEW high \in 0 .. 3, NEW b \in Blocks, NEW x, x = WriteB0(k, c, high, b)
  PROVE  /\ x \in Chips(U) /\ PitchOnly(U, k, x) /\ x.nts = k.nts /\ (Tuned(U, k) => Tuned(U, x))
         /\ Kind(k, c) = "4op2" => x = k
         /\ \A d \in U \ Voice(k, c) : SamePitch(k, d, x, d)
         /\ Kind(k, c) # "4op2" => \A d \in Voice(k, c) : SamePitch(x, c, x, d)
<1>1. k.channel \in [U -> ChannelStates] /\ k.channel[c] \in ChannelStates
  BY DEF Chips
<1>2. PICK g \in FNums : g = k.channel[c].f_num
  BY ChannelPitches
<1>3. PICK f \in FNums : f = 256 * high + (k.channel[c].f_num % 256)
  <2>1. 256 * high + (g % 256) \in 0 .. 1023
    BY DEF FNums, Blocks
  <2> QED
    BY <1>2, <2>1 DEF FNums
<1>5. PICK y : y = WritePitch(k, c, f, b)
  OBVIOUS
<1>6. /\ y \in Chips(U) /\ PitchOnly(U, k, y) /\ y.nts = k.nts /\ (Tuned(U, k) => Tuned(U, y))
      /\ y.channel[c].f_num = f /\ y.channel[c].block = b
      /\ \A d \in U \ {c} : SamePitch(k, d, y, d)
  <2>1. U \in SUBSET Channels /\ k \in Chips(U) /\ c \in U /\ f \in FNums /\ b \in Blocks
    OBVIOUS
  <2> QED
    BY ONLY <1>5, <2>1, WritePitchDoes
<1>7. CASE Follows(k, c)
  <2>1. x = k
    BY <1>7 DEF WriteB0
  <2>2. Kind(k, c) = "4op2"
    BY <1>7, KindsAre
  <2> QED
    BY <2>1, <2>2, PitchOnlyNone DEF SamePitch
<1>8. CASE Leads(k, c)
  <2>1. Kind(k, c) = "4op" /\ pair(c) \in U /\ pair(c) # c
    BY <1>8, KindsAre, PairOf
  <2>2. Voice(k, c) = {c, pair(c)}
    BY <2>1 DEF Voice
  <2>4. x = CopyPitch(y, c, b)
    <3>1. ~Follows(k, c)
      BY <1>8 DEF Leads, Follows
    <3> QED
      BY <1>8, <1>3, <1>5, <3>1 DEF WriteB0
  <2>5. /\ x \in Chips(U) /\ PitchOnly(U, y, x) /\ x.nts = y.nts /\ (Tuned(U, y) => Tuned(U, x))
        /\ x.channel[pair(c)].f_num = y.channel[c].f_num /\ x.channel[pair(c)].block = b
        /\ x.channel[pair(c)].ksv = y.channel[c].ksv
        /\ \A d \in U \ {pair(c)} : SamePitch(y, d, x, d)
    <3>1. U \in SUBSET Channels /\ y \in Chips(U) /\ c \in U /\ b \in Blocks
      BY <1>6
    <3> QED
      BY ONLY <2>1, <2>4, <3>1, CopyPitchDoes
  <2>6. PitchOnly(U, k, x)
    BY ONLY <1>6, <2>5, PitchOnlyTwice
  <2>7. \A d \in U \ {c, pair(c)} : SamePitch(k, d, x, d)
    BY <1>6, <2>5 DEF SamePitch
  <2>8. SamePitch(x, c, x, pair(c))
    BY <1>6, <2>1, <2>5 DEF SamePitch
  <2>9. SamePitch(x, c, x, c)
    BY DEF SamePitch
  <2> QED
    BY <1>6, <2>1, <2>2, <2>5, <2>6, <2>7, <2>8, <2>9
<1>9. CASE ~Follows(k, c) /\ ~Leads(k, c)
  <2>1. x = y
    BY <1>9, <1>3, <1>5 DEF WriteB0
  <2>2. Kind(k, c) = "2op"
    BY <1>9, KindsAre
  <2>3. Voice(k, c) = {c}
    BY <2>2 DEF Voice
  <2>4. SamePitch(x, c, x, c)
    BY DEF SamePitch
  <2> QED
    BY <1>6, <2>1, <2>2, <2>3, <2>4
<1> QED
  BY <1>7, <1>8, <1>9

(***************************************************************************)
(* The rhythm                                                              *)
(***************************************************************************)
\* The channels C were written: they are alone or drum, and wired when they do not drum.
Rhythmic(U, C, k, x) ==
  /\ LevelsKept(U, k, x) /\ PitchKept(U, k, x) /\ AlgsKept(U, k, x) /\ x.newm = k.newm
  /\ OutsKept(U \ C, k, x) /\ ModsKept(Slots(U) \ Slots(C), k, x)
  /\ \A d \in U \ C : x.channel[d].chtype = k.channel[d].chtype
  /\ \A d \in C : /\ x.channel[d].chtype \in {"2op", "drum"}
                  /\ x.channel[d].chtype # "drum" => Wired2(x, d)

LEMMA KindSet ==
  ASSUME NEW U, NEW k \in Chips(U), NEW c \in U, NEW t \in {"2op", "drum"},
         NEW x, x = [k EXCEPT !.channel[c].chtype = t]
  PROVE  /\ x \in Chips(U) /\ LevelsKept(U, k, x) /\ KeysKept(U, k, x) /\ PitchKept(U, k, x) /\ RoutesKept(U, k, x)
         /\ x.newm = k.newm /\ x.nts = k.nts /\ x.slot = k.slot
         /\ \A d \in U : x.channel[d].chtype = IF d = c THEN t ELSE k.channel[d].chtype
<1> DEFINE e == [k.channel[c] EXCEPT !.chtype = t]
           new == [k.channel EXCEPT ![c] = e]
<1>1. k.channel \in [U -> ChannelStates] /\ k.channel[c] \in ChannelStates
  BY DEF Chips
<1>2. /\ e \in ChannelStates /\ e.chtype = t /\ e.f_num = k.channel[c].f_num /\ e.block = k.channel[c].block
      /\ e.ksv = k.channel[c].ksv /\ e.con = k.channel[c].con /\ e.alg = k.channel[c].alg /\ e.out = k.channel[c].out
  BY <1>1 DEF ChannelStates
<1>3. x = [k EXCEPT !.channel = new]
  OBVIOUS
<1> HIDE DEF e
<1>4. new \in [U -> ChannelStates] /\ \A d \in U : new[d] = IF d = c THEN e ELSE k.channel[d]
  BY <1>1, <1>2
<1> HIDE DEF new
<1>5. x \in Chips(U) /\ x.channel = new /\ x.slot = k.slot /\ x.newm = k.newm /\ x.nts = k.nts
  <2>1. k \in Chips(U)
    OBVIOUS
  <2> QED
    BY ONLY <1>3, <1>4, <2>1, NewChannels
<1> QED
  BY <1>2, <1>4, <1>5 DEF LevelsKept, KeysKept, PitchKept, RoutesKept, AlgsKept, ModsKept, OutsKept

\* A channel of the rhythm has an algorithm of its own.
LEMMA RhythmAlgs ==
  ASSUME NEW U \in SUBSET Channels, NEW k, OwnAlgs(U, k), KindsFit(U, k), NEW c \in U \cap RhythmChannels
  PROVE  /\ k.channel[c].alg < 4 /\ ~(k.channel[c].alg \in 4 .. 7) /\ k.channel[c].alg = Bit(k.channel[c].con)
         /\ ~HasPair(c) /\ k.channel[c].chtype # "4op" /\ k.channel[c].chtype # "4op2"
<1>1. ~HasPair(c)
  <2>1. c \in {6, 7, 8}
    BY DEF RhythmChannels
  <2> QED
    BY <2>1 DEF HasPair
<1>2. k.channel[c].alg = Bit(k.channel[c].con)
  BY <1>1 DEF OwnAlgs
<1>3. k.channel[c].alg \in {0, 1}
  BY <1>2 DEF Bit
<1>4. k.channel[c].chtype # "4op" /\ k.channel[c].chtype # "4op2"
  BY <1>1 DEF KindsFit, First, Second
<1> QED
  BY <1>1, <1>2, <1>3, <1>4

LEMMA RhythmicFits ==
  ASSUME NEW U \in SUBSET Channels, NEW k, NEW x, RoutesFit(U, k), NEW C \in SUBSET (U \cap RhythmChannels),
         Rhythmic(U, C, k, x), Ordered(U, x)
  PROVE  /\ RoutesFit(U, x)
         /\ \A d \in U : Kind(x, d) = Kind(k, d) /\ Leads(x, d) = Leads(k, d) /\ Follows(x, d) = Follows(k, d)
<1>1. KindsFit(U, k) /\ AlgsFit(U, k) /\ OwnAlgs(U, k) /\ AlgsKept(U, k, x) /\ x.newm = k.newm
  BY DEF RoutesFit, Rhythmic
<1>2. \A d \in C : ~HasPair(d) /\ k.channel[d].chtype # "4op" /\ k.channel[d].chtype # "4op2"
  BY <1>1, RhythmAlgs
<1>3. \A d \in C : x.channel[d].chtype # "4op" /\ x.channel[d].chtype # "4op2"
  BY DEF Rhythmic
<1>4. \A d \in U \ C : x.channel[d].chtype = k.channel[d].chtype
  BY DEF Rhythmic
<1>5. ASSUME NEW d \in U, HasPair(d), pair(d) \in U PROVE x.channel[pair(d)].chtype = k.channel[pair(d)].chtype
  <2>1. pair(d) \notin C
    BY <1>2, <1>5, Pairs
  <2> QED
    BY <1>4, <1>5, <2>1
<1>6. KindsFit(U, x)
  <2> SUFFICES ASSUME NEW d \in U
               PROVE  /\ x.channel[d].chtype = "4op" => First(U, d) /\ x.channel[pair(d)].chtype = "4op2"
                      /\ x.channel[d].chtype = "4op2" => Second(U, d) /\ x.channel[pair(d)].chtype = "4op"
                      /\ x.channel[d].chtype = "drum" => d \in RhythmChannels
    BY DEF KindsFit
  <2>1. CASE d \in C
    BY <1>3, <2>1
  <2>2. CASE d \notin C
    BY <1>1, <1>4, <1>5, <2>2 DEF KindsFit, First, Second
  <2> QED
    BY <2>1, <2>2
<1>7. AlgsFit(U, x)
  BY <1>1 DEF AlgsFit, AlgsKept
<1>8. OwnAlgs(U, x)
  BY <1>1 DEF OwnAlgs, AlgsKept
<1>9. \A d \in U : Leads(x, d) = Leads(k, d) /\ Follows(x, d) = Follows(k, d)
  BY <1>1, <1>2, <1>3, <1>4 DEF Leads, Follows
<1>10. \A d \in U : Kind(x, d) = Kind(k, d)
  BY <1>9 DEF Kind
<1> QED
  BY <1>6, <1>7, <1>8, <1>9, <1>10 DEF RoutesFit

LEMMA RhythmicTwice ==
  ASSUME NEW U \in SUBSET Channels, NEW k, NEW x, NEW y, NEW C \in SUBSET U, NEW D \in SUBSET U, C \cap D = {},
         Rhythmic(U, C, k, x), Rhythmic(U, D, x, y)
  PROVE  Rhythmic(U, C \cup D, k, y)
<1>1. LevelsKept(U, k, y)
  BY DEF Rhythmic, LevelsKept
<1>2. PitchKept(U, k, y)
  BY DEF Rhythmic, PitchKept
<1>3. AlgsKept(U, k, y) /\ y.newm = k.newm
  BY DEF Rhythmic, AlgsKept
<1>4. OutsKept(U \ (C \cup D), k, y)
  BY DEF Rhythmic, OutsKept
<1>5. Slots(C \cup D) = Slots(C) \cup Slots(D)
  BY DEF Slots
<1>6. ModsKept(Slots(U) \ Slots(C \cup D), k, y)
  BY <1>5 DEF Rhythmic, ModsKept
<1>7. \A d \in U \ (C \cup D) : y.channel[d].chtype = k.channel[d].chtype
  BY DEF Rhythmic
<1>8. ASSUME NEW d \in C
      PROVE  y.channel[d].chtype \in {"2op", "drum"} /\ (y.channel[d].chtype # "drum" => Wired2(y, d))
  <2>1. y.channel[d].chtype = x.channel[d].chtype /\ y.channel[d].out = x.channel[d].out
        /\ y.channel[d].alg = x.channel[d].alg
    BY DEF Rhythmic, OutsKept, AlgsKept
  <2>2. \A s \in SlotsOf(d) : s \in Slots(U) \ Slots(D)
    <3> SUFFICES ASSUME NEW s \in SlotsOf(d) PROVE s \in Slots(U) /\ s \notin Slots(D)
      OBVIOUS
    <3>1. s \in Slots(U)
      BY SlotsIn
    <3>2. ASSUME NEW e \in D PROVE s \notin SlotsOf(e)
      BY SlotsApart
    <3> QED
      BY <3>1, <3>2 DEF Slots
  <2>3. \A s \in SlotsOf(d) : y.slot[s].mod = x.slot[s].mod
    BY <2>2 DEF Rhythmic, ModsKept
  <2>4. x.channel[d].chtype \in {"2op", "drum"} /\ (x.channel[d].chtype # "drum" => Wired2(x, d))
    BY DEF Rhythmic
  <2> QED
    BY <2>1, <2>3, <2>4 DEF Wired2
<1>9. \A d \in D : y.channel[d].chtype \in {"2op", "drum"} /\ (y.channel[d].chtype # "drum" => Wired2(y, d))
  BY DEF Rhythmic
<1> QED
  BY <1>1, <1>2, <1>3, <1>4, <1>6, <1>7, <1>8, <1>9 DEF Rhythmic

\* One channel starts to drum, or stops.
LEMMA DrumStep ==
  ASSUME NEW U \in SUBSET Channels, NEW k \in Chips(U), RoutesFit(U, k), NEW c \in U \cap RhythmChannels,
         NEW x, x = Drumming(k, c) \/ x = Melodic(k, c)
  PROVE  x \in Chips(U) /\ x.nts = k.nts /\ KeysKept(U, k, x) /\ Rhythmic(U, {c}, k, x) /\ RoutesFit(U, x)
<1>1. /\ k.channel[c].alg < 4 /\ ~(k.channel[c].alg \in 4 .. 7) /\ Ordered(U, k) /\ k.channel[c].alg < 8
  BY RhythmAlgs DEF RoutesFit, Chips, ChannelStates
<1>2. ASSUME NEW t \in {"2op", "drum"}, NEW j, j = [k EXCEPT !.channel[c].chtype = t],
             NEW y \in Chips(U), RoutesOnly(U, j, y), AlgsKept(U, j, y), y.slot = j.slot, y.nts = j.nts,
             OutsKept(U \ {c}, j, y), x = SetupAlg(y, c)
      PROVE  x \in Chips(U) /\ x.nts = k.nts /\ KeysKept(U, k, x) /\ Rhythmic(U, {c}, k, x) /\ RoutesFit(U, x)
  <2>1. /\ j \in Chips(U) /\ LevelsKept(U, k, j) /\ KeysKept(U, k, j) /\ PitchKept(U, k, j) /\ RoutesKept(U, k, j)
        /\ j.newm = k.newm /\ j.nts = k.nts /\ j.slot = k.slot
        /\ \A d \in U : j.channel[d].chtype = IF d = c THEN t ELSE k.channel[d].chtype
    BY <1>2, KindSet
  <2>2. y.channel[c].alg < 8 /\ ~(y.channel[c].alg \in 4 .. 7)
    BY <1>1, <1>2, <2>1 DEF AlgsKept, RoutesKept
  <2>3. Ordered(U, y)
    BY <1>1, <1>2, <2>1 DEF Ordered
  <2>4. /\ x \in Chips(U) /\ RoutesOnly(U, y, x) /\ AlgsKept(U, y, x) /\ x.nts = y.nts
        /\ Ordered(U, y) => Ordered(U, x)
        /\ ModsKept(Slots(U) \ SlotsOf(c), y, x) /\ OutsKept(U \ {c}, y, x)
        /\ y.channel[c].alg < 8 /\ y.channel[c].chtype # "drum" => Wired2(x, c)
    <3>1. U \in SUBSET Channels /\ c \in U /\ y \in Chips(U) /\ x = SetupAlg(y, c)
      BY <1>2
    <3> QED
      BY ONLY <2>2, <3>1, SetupAlgOwn
  <2>5. RoutesOnly(U, j, x)
    BY ONLY <1>2, <2>4, RoutesOnlyTwice
  <2>6. LevelsKept(U, k, x)
    BY <2>1, <2>5 DEF RoutesOnly, LevelsKept
  <2>7. KeysKept(U, k, x)
    BY <2>1, <2>5 DEF RoutesOnly, KeysKept
  <2>8. PitchKept(U, k, x)
    BY <2>1, <2>5 DEF RoutesOnly, PitchKept
  <2>9. AlgsKept(U, k, x)
    BY <1>2, <2>1, <2>4 DEF RoutesKept, AlgsKept
  <2>10. x.newm = k.newm /\ \A d \in U : x.channel[d].chtype = IF d = c THEN t ELSE k.channel[d].chtype
    BY <2>1, <2>5 DEF RoutesOnly, KindsKept
  <2>11. OutsKept(U \ {c}, k, x)
    BY <1>2, <2>1, <2>4 DEF RoutesKept, OutsKept
  <2>12. ModsKept(Slots(U) \ Slots({c}), k, x)
    <3>1. Slots({c}) = SlotsOf(c)
      BY DEF Slots
    <3> QED
      BY <1>2, <2>1, <2>4, <3>1 DEF ModsKept
  <2>13. x.channel[c].chtype \in {"2op", "drum"} /\ (x.channel[c].chtype # "drum" => Wired2(x, c))
    <3>1. x.channel[c].chtype = y.channel[c].chtype
      BY <2>4 DEF RoutesOnly, KindsKept
    <3> QED
      BY <2>2, <2>4, <2>10, <3>1
  <2>14. Rhythmic(U, {c}, k, x)
    BY <2>6, <2>8, <2>9, <2>10, <2>11, <2>12, <2>13 DEF Rhythmic
  <2>15. Ordered(U, x)
    BY <2>3, <2>4
  <2>16. RoutesFit(U, x)
    <3>1. {c} \in SUBSET (U \cap RhythmChannels) /\ U \in SUBSET Channels /\ RoutesFit(U, k)
      OBVIOUS
    <3> QED
      BY ONLY <2>14, <2>15, <3>1, RhythmicFits
  <2> QED
    BY <1>2, <2>1, <2>4, <2>7, <2>14, <2>16
<1>3. CASE x = Melodic(k, c)
  <2>1. PICK j : j = [k EXCEPT !.channel[c].chtype = "2op"]
    OBVIOUS
  <2>2. j \in Chips(U)
    BY <2>1, KindSet
  <2>3. x = SetupAlg(j, c)
    BY <1>3, <2>1 DEF Melodic
  <2>4. RoutesOnly(U, j, j) /\ AlgsKept(U, j, j) /\ OutsKept(U \ {c}, j, j)
    BY DEF RoutesOnly, LevelsKept, KeysKept, PitchKept, KindsKept, AlgsKept, OutsKept
  <2> QED
    BY <1>2, <2>1, <2>2, <2>3, <2>4
<1>4. CASE x = Drumming(k, c)
  <2>1. PICK j : j = [k EXCEPT !.channel[c].chtype = "drum"]
    OBVIOUS
  <2>2. j \in Chips(U)
    BY <2>1, KindSet
  <2>3. DrumOut(c) \in Outs
    <3>1. c \in Channels /\ 6 \in Channels
      BY DEF Channels
    <3>2. S0(c) \in 0 .. 35 /\ S1(c) \in 0 .. 35 /\ S1(6) \in 0 .. 35
      BY <3>1, SlotNumbers
    <3>3. \A a, b \in 0 .. 35 : <<a, a>> \in Seq(0 .. 35) /\ <<a, a, b, b>> \in Seq(0 .. 35)
      OBVIOUS
    <3> QED
      BY <3>2, <3>3 DEF DrumOut, Outs
  <2>4. PICK y : y = SetOut(j, c, DrumOut(c))
    OBVIOUS
  <2>5. /\ y \in Chips(U) /\ RoutesOnly(U, j, y) /\ AlgsKept(U, j, y) /\ y.slot = j.slot /\ y.nts = j.nts
        /\ OutsKept(U \ {c}, j, y)
    BY <2>2, <2>3, <2>4, SetOutDoes
  <2>6. x = SetupAlg(y, c)
    BY <1>4, <2>1, <2>4 DEF Drumming
  <2> QED
    BY <1>2, <2>1, <2>5, <2>6
<1> QED
  BY <1>3, <1>4

LEMMA DrumStepsDo ==
  ASSUME NEW U \in SUBSET Channels, RhythmChannels \subseteq U, NEW k \in Chips(U), RoutesFit(U, k), NEW x,
         \/ x = Drumming(Drumming(Drumming(k, 6), 7), 8)
         \/ x = Melodic(Melodic(Melodic(k, 6), 7), 8)
  PROVE  x \in Chips(U) /\ x.nts = k.nts /\ KeysKept(U, k, x) /\ Rhythmic(U, RhythmChannels, k, x) /\ RoutesFit(U, x)
<1>1. 6 \in U \cap RhythmChannels /\ 7 \in U \cap RhythmChannels /\ 8 \in U \cap RhythmChannels
  BY DEF RhythmChannels
<1>2. PICK a, b : /\ a = Drumming(k, 6) \/ a = Melodic(k, 6)
                  /\ b = Drumming(a, 7) \/ b = Melodic(a, 7)
                  /\ x = Drumming(b, 8) \/ x = Melodic(b, 8)
  OBVIOUS
<1>3. a \in Chips(U) /\ a.nts = k.nts /\ KeysKept(U, k, a) /\ Rhythmic(U, {6}, k, a) /\ RoutesFit(U, a)
  BY <1>1, <1>2, DrumStep
<1>4. b \in Chips(U) /\ b.nts = a.nts /\ KeysKept(U, a, b) /\ Rhythmic(U, {7}, a, b) /\ RoutesFit(U, b)
  BY <1>1, <1>2, <1>3, DrumStep
<1>5. x \in Chips(U) /\ x.nts = b.nts /\ KeysKept(U, b, x) /\ Rhythmic(U, {8}, b, x) /\ RoutesFit(U, x)
  BY <1>1, <1>2, <1>4, DrumStep
<1>6. Rhythmic(U, {6} \cup {7}, k, b)
  <2>1. {6} \in SUBSET U /\ {7} \in SUBSET U /\ {6} \cap {7} = {} /\ U \in SUBSET Channels
    BY <1>1
  <2> QED
    BY ONLY <1>3, <1>4, <2>1, RhythmicTwice
<1>7. Rhythmic(U, ({6} \cup {7}) \cup {8}, k, x)
  <2>1. {6} \cup {7} \in SUBSET U /\ {8} \in SUBSET U /\ ({6} \cup {7}) \cap {8} = {} /\ U \in SUBSET Channels
    BY <1>1
  <2> QED
    BY ONLY <1>5, <1>6, <2>1, RhythmicTwice
<1>8. ({6} \cup {7}) \cup {8} = RhythmChannels
  BY DEF RhythmChannels
<1>9. KeysKept(U, k, x)
  BY <1>3, <1>4, <1>5 DEF KeysKept
<1> QED
  BY <1>3, <1>4, <1>5, <1>7, <1>8, <1>9

\* A drum key is not a channel's.
NormsKept(U, k, x) == \A s \in Slots(U) : ("norm" \in x.slot[s].key) <=> ("norm" \in k.slot[s].key)

LEMMA RhythmicKeys ==
  ASSUME NEW U, NEW C, NEW k, NEW x, NEW y, Rhythmic(U, C, k, x), KeysOnly(U, x, y), C \subseteq U
  PROVE  Rhythmic(U, C, k, y) /\ (Ordered(U, x) => Ordered(U, y))
<1>1. LevelsKept(U, k, y)
  BY DEF Rhythmic, KeysOnly, LevelsKept
<1>2. PitchKept(U, k, y)
  BY DEF Rhythmic, KeysOnly, PitchKept
<1>3. AlgsKept(U, k, y) /\ y.newm = k.newm
  BY DEF Rhythmic, KeysOnly, AlgsKept, RoutesKept, KindsKept
<1>4. OutsKept(U \ C, k, y)
  BY DEF Rhythmic, KeysOnly, RoutesKept, OutsKept
<1>5. ModsKept(Slots(U) \ Slots(C), k, y)
  BY DEF Rhythmic, KeysOnly, RoutesKept, ModsKept
<1>6. \A d \in U : y.channel[d].chtype = x.channel[d].chtype
  BY DEF KeysOnly, KindsKept
<1>7. \A d \in U \ C : y.channel[d].chtype = k.channel[d].chtype
  BY <1>6 DEF Rhythmic
<1>8. ASSUME NEW d \in C, Wired2(x, d) PROVE Wired2(y, d)
  <2>1. y.channel[d].out = x.channel[d].out /\ y.channel[d].alg = x.channel[d].alg
    BY DEF KeysOnly, RoutesKept, OutsKept, AlgsKept
  <2>2. \A s \in SlotsOf(d) : y.slot[s].mod = x.slot[s].mod
    BY DEF KeysOnly, RoutesKept, ModsKept, Slots
  <2> QED
    BY <1>8, <2>1, <2>2 DEF Wired2
<1>9. \A d \in C : /\ y.channel[d].chtype \in {"2op", "drum"}
                   /\ y.channel[d].chtype # "drum" => Wired2(y, d)
  BY <1>6, <1>8 DEF Rhythmic
<1>10. Ordered(U, x) => Ordered(U, y)
  BY DEF KeysOnly, RoutesKept, ModsKept, Ordered
<1>11. Rhythmic(U, C, k, y)
  <2>1. LevelsKept(U, k, y) /\ PitchKept(U, k, y) /\ AlgsKept(U, k, y) /\ y.newm = k.newm
    BY ONLY <1>1, <1>2, <1>3
  <2>2. OutsKept(U \ C, k, y) /\ ModsKept(Slots(U) \ Slots(C), k, y)
    BY ONLY <1>4, <1>5
  <2> QED
    BY ONLY <2>1, <2>2, <1>7, <1>9, Zenon DEF Rhythmic
<1> QED
  BY <1>10, <1>11

LEMMA UpdateRhythmDoes ==
  ASSUME NEW U \in SUBSET Channels, RhythmChannels \subseteq U, NEW k \in Chips(U), RoutesFit(U, k),
         NEW w, w.on \in BOOLEAN, w.drums \subseteq Drums, NEW x, x = UpdateRhythm(k, w.on, w.drums)
  PROVE  x \in Chips(U) /\ NormsKept(U, k, x) /\ Rhythmic(U, RhythmChannels, k, x) /\ RoutesFit(U, x)
<1>1. PICK rhy \in SUBSET (Drums \cup {"on"}) : rhy = IF w.on THEN w.drums \cup {"on"} ELSE w.drums
  OBVIOUS
<1>2. PICK k1 : k1 = [k EXCEPT !.rhy = rhy]
  OBVIOUS
<1>3. k1 \in Chips(U) /\ k1.channel = k.channel /\ k1.slot = k.slot /\ k1.newm = k.newm /\ k1.nts = k.nts
  BY <1>2 DEF Chips
<1>4. RoutesFit(U, k1)
  BY <1>3 DEF RoutesFit, Ordered, AlgsFit, KindsFit, OwnAlgs
<1>5. PICK k2 : k2 = IF w.on THEN Drumming(Drumming(Drumming(k1, 6), 7), 8) ELSE Melodic(Melodic(Melodic(k1, 6), 7), 8)
  OBVIOUS
<1>6. k2 \in Chips(U) /\ k2.nts = k1.nts /\ KeysKept(U, k1, k2) /\ Rhythmic(U, RhythmChannels, k1, k2) /\ RoutesFit(U, k2)
  <2>1. \/ k2 = Drumming(Drumming(Drumming(k1, 6), 7), 8)
        \/ k2 = Melodic(Melodic(Melodic(k1, 6), 7), 8)
    BY <1>5
  <2>2. U \in SUBSET Channels /\ RhythmChannels \subseteq U /\ k1 \in Chips(U)
    BY <1>3
  <2> QED
    BY ONLY <1>4, <2>1, <2>2, DrumStepsDo
<1>7. PICK S : S = IF w.on THEN UNION {DrumSlots(d) : d \in w.drums} ELSE {}
  OBVIOUS
<1>8. PICK T : T = UNION {SlotsOf(c) : c \in RhythmChannels} \ S
  OBVIOUS
<1>9. PICK k3 : KeyedOn(k2, S, "drum", k3)
  BY DEF KeyedOn
<1>10. KeyedOff(k3, T, "drum", x)
  BY <1>1, <1>2, <1>5, <1>7, <1>8, <1>9 DEF UpdateRhythm, KeyedOn, KeyedOff
<1>11. "drum" \in KeyTypes
  BY DEF KeyTypes
<1>12. /\ k3 \in Chips(U) /\ KeysOnly(U, k2, k3) /\ k3.nts = k2.nts /\ k3.channel = k2.channel
       /\ \A s \in Slots(U) : k3.slot[s].key = IF s \in S THEN k2.slot[s].key \cup {"drum"} ELSE k2.slot[s].key
  <2>1. NowOn(U, k2, S, "drum", k3)
    BY <1>6, <1>9, <1>11, KeyOnDoes
  <2> QED
    BY <2>1 DEF NowOn
<1>13. /\ x \in Chips(U) /\ KeysOnly(U, k3, x) /\ x.nts = k3.nts /\ x.channel = k3.channel
       /\ \A s \in Slots(U) : x.slot[s].key = IF s \in T THEN k3.slot[s].key \ {"drum"} ELSE k3.slot[s].key
  <2>1. NowOff(U, k3, T, "drum", x)
    BY <1>10, <1>11, <1>12, KeyOffDoes
  <2> QED
    BY <2>1 DEF NowOff
<1>14. NormsKept(U, k, x)
  <2> SUFFICES ASSUME NEW s \in Slots(U) PROVE ("norm" \in x.slot[s].key) <=> ("norm" \in k.slot[s].key)
    BY DEF NormsKept
  <2>1. k2.slot[s].key = k.slot[s].key
    BY <1>3, <1>6 DEF KeysKept
  <2>2. ("norm" \in k3.slot[s].key) <=> ("norm" \in k2.slot[s].key)
    <3>1. k3.slot[s].key = IF s \in S THEN k2.slot[s].key \cup {"drum"} ELSE k2.slot[s].key
      BY <1>12
    <3> QED
      BY <3>1
  <2>3. ("norm" \in x.slot[s].key) <=> ("norm" \in k3.slot[s].key)
    <3>1. x.slot[s].key = IF s \in T THEN k3.slot[s].key \ {"drum"} ELSE k3.slot[s].key
      BY <1>13
    <3> QED
      BY <3>1
  <2> QED
    BY <2>1, <2>2, <2>3
<1>15. Rhythmic(U, RhythmChannels, k1, x) /\ Ordered(U, x)
  <2>1. Ordered(U, k2)
    BY <1>6 DEF RoutesFit
  <2>2. Rhythmic(U, RhythmChannels, k1, k3) /\ (Ordered(U, k2) => Ordered(U, k3))
    BY <1>6, <1>12, RhythmicKeys
  <2>3. Rhythmic(U, RhythmChannels, k1, x) /\ (Ordered(U, k3) => Ordered(U, x))
    BY <1>13, <2>2, RhythmicKeys
  <2> QED
    BY <2>1, <2>2, <2>3
<1>16. RoutesFit(U, x)
  <2>1. RhythmChannels \in SUBSET (U \cap RhythmChannels) /\ U \in SUBSET Channels
    OBVIOUS
  <2> QED
    BY ONLY <1>4, <1>15, <2>1, RhythmicFits
<1>17. Rhythmic(U, RhythmChannels, k, x)
  <2>1. LevelsKept(U, k, x)
    BY <1>3, <1>15 DEF Rhythmic, LevelsKept
  <2>2. PitchKept(U, k, x)
    BY <1>3, <1>15 DEF Rhythmic, PitchKept
  <2>3. AlgsKept(U, k, x) /\ x.newm = k.newm
    BY <1>3, <1>15 DEF Rhythmic, AlgsKept
  <2>4. OutsKept(U \ RhythmChannels, k, x) /\ ModsKept(Slots(U) \ Slots(RhythmChannels), k, x)
    BY <1>3, <1>15 DEF Rhythmic, OutsKept, ModsKept
  <2> QED
    BY <1>3, <1>15, <2>1, <2>2, <2>3, <2>4 DEF Rhythmic
<1> QED
  BY <1>13, <1>14, <1>16, <1>17

(***************************************************************************)
(* Joining, and the registers of a slot                                    *)
(***************************************************************************)
\* A channel's pair is there too.
PairsWhole(U) == \A c \in U : HasPair(c) => pair(c) \in U

\* Nothing but what channels are is written.
KindsOnly(U, k, x) == LevelsKept(U, k, x) /\ KeysKept(U, k, x) /\ PitchKept(U, k, x) /\ RoutesKept(U, k, x)

LEMMA KindsOnlyFit ==
  ASSUME NEW U, NEW k, NEW x, RoutesFit(U, k), KindsOnly(U, k, x), KindsFit(U, x)
  PROVE  RoutesFit(U, x)
<1>1. Ordered(U, x)
  BY DEF RoutesFit, KindsOnly, RoutesKept, ModsKept, Ordered
<1>2. AlgsFit(U, x)
  BY DEF RoutesFit, KindsOnly, RoutesKept, AlgsKept, AlgsFit
<1>3. OwnAlgs(U, x)
  BY DEF RoutesFit, KindsOnly, RoutesKept, AlgsKept, OwnAlgs
<1> QED
  BY <1>1, <1>2, <1>3 DEF RoutesFit

LEMMA Set4OpDoes ==
  ASSUME NEW U \in SUBSET Channels, PairsWhole(U), NEW k \in Chips(U), RoutesFit(U, k),
         NEW joined \in SUBSET {c \in U : c % 9 < 3}, NEW x, x = Set4Op(k, joined)
  PROVE  x \in Chips(U) /\ KindsOnly(U, k, x) /\ RoutesFit(U, x)
<1> DEFINE t(c) == CASE c \in joined -> "4op" [] pair(c) \in joined -> "4op2" [] OTHER -> "2op"
           new == [c \in U |-> IF ~HasPair(c) THEN k.channel[c] ELSE [k.channel[c] EXCEPT !.chtype = t(c)]]
<1>1. k.channel \in [U -> ChannelStates]
  BY DEF Chips
<1>2. x = [k EXCEPT !.channel = new]
  BY <1>1 DEF Set4Op
<1>3. ASSUME NEW c \in U, HasPair(c)
      PROVE  /\ t(c) \in {"2op", "4op", "4op2"}
             /\ t(c) = "4op" <=> c \in joined
             /\ t(c) = "4op2" <=> c \notin joined /\ pair(c) \in joined
             /\ c \in joined => pair(c) \notin joined
  <2>1. c \in joined => pair(c) \notin joined
    BY <1>3, Pairs
  <2>2. CASE c \in joined
    <3>1. t(c) = "4op"
      BY <2>1, <2>2
    <3> QED
      BY <2>1, <2>2, <3>1
  <2>3. CASE c \notin joined /\ pair(c) \in joined
    <3>1. t(c) = "4op2"
      BY <2>3
    <3> QED
      BY <2>3, <3>1
  <2>4. CASE c \notin joined /\ pair(c) \notin joined
    <3>1. t(c) = "2op"
      BY <2>4
    <3> QED
      BY <2>4, <3>1
  <2> QED
    BY <2>2, <2>3, <2>4
<1> HIDE DEF t
<1>4. ASSUME NEW c \in U
      PROVE  /\ new[c] \in ChannelStates /\ new[c].f_num = k.channel[c].f_num /\ new[c].block = k.channel[c].block
             /\ new[c].ksv = k.channel[c].ksv /\ new[c].con = k.channel[c].con /\ new[c].alg = k.channel[c].alg
             /\ new[c].out = k.channel[c].out /\ new[c].chtype = IF HasPair(c) THEN t(c) ELSE k.channel[c].chtype
  <2>1. k.channel[c] \in ChannelStates
    BY <1>1
  <2>2. CASE ~HasPair(c)
    BY <2>1, <2>2
  <2>3. CASE HasPair(c)
    <3>1. new[c] = [k.channel[c] EXCEPT !.chtype = t(c)]
      BY <2>3
    <3> HIDE DEF new
    <3> QED
      BY <1>3, <2>1, <2>3, <3>1 DEF ChannelStates
  <2> QED
    BY <2>2, <2>3
<1>5. new \in [U -> ChannelStates]
  BY <1>4
<1> HIDE DEF new
<1>6. x \in Chips(U) /\ x.channel = new /\ x.slot = k.slot /\ x.newm = k.newm /\ x.nts = k.nts
  <2>1. k \in Chips(U)
    OBVIOUS
  <2> QED
    BY ONLY <1>2, <1>5, <2>1, NewChannels
<1>7. KindsOnly(U, k, x)
  BY <1>4, <1>6 DEF KindsOnly, LevelsKept, KeysKept, PitchKept, RoutesKept, AlgsKept, ModsKept, OutsKept
<1>8. \A c \in U : x.channel[c].chtype = IF HasPair(c) THEN t(c) ELSE k.channel[c].chtype
  BY <1>4, <1>6
<1>9. KindsFit(U, x)
  <2> SUFFICES ASSUME NEW d \in U
               PROVE  /\ x.channel[d].chtype = "4op" => First(U, d) /\ x.channel[pair(d)].chtype = "4op2"
                      /\ x.channel[d].chtype = "4op2" => Second(U, d) /\ x.channel[pair(d)].chtype = "4op"
                      /\ x.channel[d].chtype = "drum" => d \in RhythmChannels
    BY DEF KindsFit
  <2>1. CASE ~HasPair(d)
    BY <1>8, <2>1 DEF RoutesFit, KindsFit, First, Second
  <2>2. CASE HasPair(d)
    <3>1. pair(d) \in U /\ HasPair(pair(d)) /\ pair(pair(d)) = d /\ (d % 9 < 3 <=> ~(pair(d) % 9 < 3))
      BY <2>2, Pairs DEF PairsWhole
    <3>2. x.channel[d].chtype = t(d) /\ x.channel[pair(d)].chtype = t(pair(d))
      BY <1>8, <2>2, <3>1
    <3>3. /\ t(d) \in {"2op", "4op", "4op2"}
          /\ t(d) = "4op" <=> d \in joined
          /\ t(d) = "4op2" <=> d \notin joined /\ pair(d) \in joined
      BY <1>3, <2>2
    <3>4. /\ t(pair(d)) = "4op" <=> pair(d) \in joined
          /\ t(pair(d)) = "4op2" <=> pair(d) \notin joined /\ d \in joined
      BY <1>3, <3>1
    <3>5. d \in joined => d % 9 < 3 /\ pair(d) \notin joined
      BY <1>3, <2>2
    <3>6. pair(d) \in joined => pair(d) % 9 < 3
      OBVIOUS
    <3> QED
      BY <2>2, <3>1, <3>2, <3>3, <3>4, <3>5, <3>6 DEF First, Second
  <2> QED
    BY <2>1, <2>2
<1>10. RoutesFit(U, x)
  BY <1>7, <1>9, KindsOnlyFit
<1> QED
  BY <1>6, <1>7, <1>10

(***************************************************************************)
(* Sound voices stay sound                                                 *)
(***************************************************************************)
LEMMA FarSlots ==
  ASSUME NEW U \in SUBSET Channels, NEW V \in SUBSET U, NEW d \in U \ V
  PROVE  SlotsOf(d) \subseteq Slots(U) \ Slots(V)
<1> SUFFICES ASSUME NEW s \in SlotsOf(d) PROVE s \in Slots(U) /\ s \notin Slots(V)
  OBVIOUS
<1>1. s \in Slots(U)
  BY SlotsIn
<1>2. ASSUME NEW e \in V PROVE s \notin SlotsOf(e)
  BY SlotsApart
<1> QED
  BY <1>1, <1>2 DEF Slots

\* A voice no channel of which was written, that is what it was, sounds as it did.
LEMMA SoundFar ==
  ASSUME NEW U \in SUBSET Channels, NEW V \in SUBSET U, NEW k, NEW x, Elsewhere(U, V, k, x), KindsFit(U, k),
         \A e \in U \ V : (x.channel[e].chtype = "drum") <=> (k.channel[e].chtype = "drum"),
         NEW d \in U, Kind(x, d) = Kind(k, d), Voice(k, d) \cap V = {}, Sound(k, d)
  PROVE  Sound(x, d)
<1>1. ASSUME NEW e \in U \ V
      PROVE  /\ x.channel[e].con = k.channel[e].con /\ x.channel[e].alg = k.channel[e].alg
             /\ x.channel[e].out = k.channel[e].out /\ \A s \in SlotsOf(e) : x.slot[s].mod = k.slot[s].mod
  <2>1. SlotsOf(e) \subseteq Slots(U) \ Slots(V)
    BY FarSlots
  <2> QED
    BY <2>1 DEF Elsewhere, AlgsKept, OutsKept, ModsKept
<1>2. d \in Voice(k, d) /\ d \in U \ V
  BY DEF Voice
<1>3. CASE Kind(k, d) = "2op"
  <2>1. Sound2(k, d)
    BY <1>3 DEF Sound
  <2>2. Sound2(x, d)
    BY <1>1, <1>2, <2>1 DEF Sound2, Wired2
  <2> QED
    BY <1>3, <2>2 DEF Sound
<1>4. CASE Kind(k, d) = "4op"
  <2>1. Sound4(k, d, pair(d)) /\ pair(d) \in U
    BY <1>4, KindsAre DEF Sound
  <2>2. pair(d) \in U \ V
    BY <1>4, <2>1 DEF Voice
  <2>3. Sound4(x, d, pair(d))
    BY <1>1, <1>2, <2>1, <2>2 DEF Sound4, Wired4
  <2> QED
    BY <1>4, <2>3 DEF Sound
<1>5. CASE Kind(k, d) = "4op2"
  <2>1. Sound4(k, pair(d), d) /\ pair(d) \in U
    BY <1>5, KindsAre DEF Sound
  <2>2. pair(d) \in U \ V
    BY <1>5, <2>1 DEF Voice
  <2>3. Sound4(x, pair(d), d)
    BY <1>1, <1>2, <2>1, <2>2 DEF Sound4, Wired4
  <2> QED
    BY <1>5, <2>3 DEF Sound
<1> QED
  BY <1>3, <1>4, <1>5, KindsAre

SoundKept(U, k, x) == \A d \in U : Kind(x, d) = Kind(k, d) /\ Sound(k, d) => Sound(x, d)

LEMMA SoundNear ==
  ASSUME NEW U \in SUBSET Channels, NEW k, NEW x, RoutesKept(U, k, x), KindsFit(U, k),
         \A e \in U : (x.channel[e].chtype = "drum") <=> (k.channel[e].chtype = "drum")
  PROVE  SoundKept(U, k, x)
<1>1. Elsewhere(U, {}, k, x)
  <2>1. AlgsKept(U \ {}, k, x)
    BY DEF RoutesKept, AlgsKept
  <2>2. OutsKept(U \ {}, k, x)
    BY DEF RoutesKept, OutsKept
  <2>3. ModsKept(Slots(U) \ Slots({}), k, x)
    BY DEF RoutesKept, ModsKept
  <2> QED
    BY <2>1, <2>2, <2>3 DEF Elsewhere
<1>2. ASSUME NEW d \in U, Kind(x, d) = Kind(k, d), Sound(k, d) PROVE Sound(x, d)
  <2>1. {} \in SUBSET U /\ Voice(k, d) \cap {} = {}
    OBVIOUS
  <2>2. \A e \in U \ {} : (x.channel[e].chtype = "drum") <=> (k.channel[e].chtype = "drum")
    OBVIOUS
  <2> QED
    BY <1>1, <1>2, <2>1, <2>2, SoundFar
<1> QED
  BY <1>2 DEF SoundKept

LEMMA SoundVoice ==
  ASSUME NEW U \in SUBSET Channels, NEW k, NEW x, NEW c \in U, Elsewhere(U, Voice(k, c), k, x), KindsFit(U, k),
         KindsKept(U, k, x), \A d \in Voice(k, c) : Sound(x, d)
  PROVE  SoundKept(U, k, x)
<1>1. Voice(k, c) \in SUBSET U
  BY KindsAre DEF Voice
<1>2. ASSUME NEW d \in U, Kind(x, d) = Kind(k, d), Sound(k, d) PROVE Sound(x, d)
  <2>1. CASE d \in Voice(k, c)
    BY <2>1
  <2>2. CASE d \notin Voice(k, c)
    <3>1. Voice(k, d) \cap Voice(k, c) = {}
      <4>1. c \in Voice(k, c) /\ d # c
        BY <2>2 DEF Voice
      <4>2. Kind(k, d) # "2op" => pair(d) # c
        <5> SUFFICES ASSUME Kind(k, d) # "2op", pair(d) = c PROVE FALSE
          OBVIOUS
        <5>1. Kind(k, c) # "2op" /\ pair(c) = d
          BY KindsAre
        <5> QED
          BY <2>2, <5>1 DEF Voice
      <4>3. Kind(k, c) # "2op" => pair(c) # d
        BY <2>2 DEF Voice
      <4>4. Kind(k, c) # "2op" /\ Kind(k, d) # "2op" => pair(c) # pair(d)
        BY <4>1, KindsAre
      <4> QED
        BY <4>1, <4>2, <4>3, <4>4 DEF Voice
    <3>2. \A e \in U \ Voice(k, c) : (x.channel[e].chtype = "drum") <=> (k.channel[e].chtype = "drum")
      BY DEF KindsKept
    <3> QED
      BY <1>1, <1>2, <3>1, <3>2, SoundFar
  <2> QED
    BY <2>1, <2>2
<1> QED
  BY <1>2 DEF SoundKept

LEMMA SoundRhythm ==
  ASSUME NEW U \in SUBSET Channels, RhythmChannels \subseteq U, NEW k, NEW x, Rhythmic(U, RhythmChannels, k, x),
         KindsFit(U, k), RoutesFit(U, x)
  PROVE  SoundKept(U, k, x)
<1>1. Elsewhere(U, RhythmChannels, k, x)
  <2>1. AlgsKept(U \ RhythmChannels, k, x)
    BY DEF Rhythmic, AlgsKept
  <2> QED
    BY <2>1 DEF Rhythmic, Elsewhere
<1>2. ASSUME NEW d \in U, Kind(x, d) = Kind(k, d), Sound(k, d) PROVE Sound(x, d)
  <2>1. CASE d \in RhythmChannels
    <3>1. /\ ~HasPair(d) /\ x.channel[d].alg = Bit(x.channel[d].con)
          /\ x.channel[d].chtype # "4op" /\ x.channel[d].chtype # "4op2"
      BY <2>1, RhythmAlgs DEF RoutesFit
    <3>2. Kind(x, d) = "2op"
      BY <3>1 DEF Kind, Leads, Follows
    <3>3. x.channel[d].chtype # "drum" => Wired2(x, d)
      BY <2>1 DEF Rhythmic
    <3> QED
      BY <3>1, <3>2, <3>3 DEF Sound, Sound2
  <2>2. CASE d \notin RhythmChannels
    <3>1. Voice(k, d) \cap RhythmChannels = {}
      <4>1. CASE Kind(k, d) = "2op"
        BY <2>2, <4>1 DEF Voice
      <4>2. CASE Kind(k, d) # "2op"
        <5>1. HasPair(pair(d))
          BY <4>2, KindsAre DEF First, Second
        <5>2. \A e \in RhythmChannels : ~HasPair(e)
          <6>1. \A e \in {6, 7, 8} : ~HasPair(e)
            BY DEF HasPair
          <6> QED
            BY <6>1 DEF RhythmChannels
        <5> QED
          BY <2>2, <5>1, <5>2 DEF Voice
      <4> QED
        BY <4>1, <4>2
    <3>2. \A e \in U \ RhythmChannels : (x.channel[e].chtype = "drum") <=> (k.channel[e].chtype = "drum")
      BY DEF Rhythmic
    <3> QED
      BY <1>1, <1>2, <3>1, <3>2, SoundFar
  <2> QED
    BY <2>1, <2>2
<1> QED
  BY <1>2 DEF SoundKept

(***************************************************************************)
(* The registers                                                           *)
(***************************************************************************)
\* What a write w does that the properties tell apart.
Plays(w) == w.reg \in {"A0", "B0"}
SameKind(k, x, d) == Kind(x, d) = Kind(k, d) /\ Leads(x, d) = Leads(k, d) /\ Follows(x, d) = Follows(k, d)

KeyEffects(U, k, w, x) ==
  /\ w.reg # "B0" => NormsKept(U, k, x)
  /\ w.reg = "B0" /\ ~w.key =>
       \A s \in Slots(U) : "norm" \in x.slot[s].key => "norm" \in k.slot[s].key /\ s \notin Reached(k, w.ch)
PitchEffects(U, k, w, x) ==
  /\ Tuned(U, k) => Tuned(U, x)
  /\ ~Plays(w) => \A d \in U : SamePitch(k, d, x, d)
  /\ Plays(w) => \A d \in U \ Voice(k, w.ch) : SamePitch(k, d, x, d)
  /\ Plays(w) /\ Kind(k, w.ch) = "4op2" => \A d \in U : SamePitch(k, d, x, d)
  /\ w.reg = "A0" /\ (\A d \in Voice(k, w.ch) : SamePitch(k, w.ch, k, d))
       => \A d \in Voice(k, w.ch) : SamePitch(x, w.ch, x, d)
  /\ w.reg = "B0" /\ Kind(k, w.ch) # "4op2" => \A d \in Voice(k, w.ch) : SamePitch(x, w.ch, x, d)
Effects(U, k, w, x) ==
  /\ x \in Chips(U) /\ RoutesFit(U, x) /\ LevelsKept(U, k, x)
  /\ KeyEffects(U, k, w, x) /\ PitchEffects(U, k, w, x) /\ SoundKept(U, k, x)
  /\ w.reg \notin {"104", "105"} => \A d \in U : SameKind(k, x, d)
  /\ w.reg = "C0" => \A d \in Voice(k, w.ch) : Sound(x, d)

LEMMA KindsSame ==
  ASSUME NEW U, NEW k, NEW x, KindsKept(U, k, x) PROVE \A d \in U : SameKind(k, x, d)
<1>1. \A d \in U : Leads(x, d) = Leads(k, d) /\ Follows(x, d) = Follows(k, d)
  BY DEF KindsKept, Leads, Follows
<1> QED
  BY <1>1 DEF SameKind, Kind

LEMMA KeysSame == ASSUME NEW U, NEW k, NEW x, KeysKept(U, k, x) PROVE NormsKept(U, k, x)
BY DEF KeysKept, NormsKept

LEMMA PitchSame ==
  ASSUME NEW U, NEW k, NEW x, PitchKept(U, k, x)
  PROVE  (Tuned(U, k) => Tuned(U, x)) /\ \A d \in U : SamePitch(k, d, x, d)
<1>1. \A d \in U : SamePitch(k, d, x, d)
  BY DEF PitchKept, SamePitch
<1>2. ASSUME Tuned(U, k) PROVE Tuned(U, x)
  <2>1. \A d \in U : \A s \in SlotsOf(d) : x.slot[s].eg_ksl = k.slot[s].eg_ksl
    BY DEF PitchKept, Slots
  <2> QED
    BY <1>1, <1>2, <2>1 DEF Tuned, SamePitch
<1> QED
  BY <1>1, <1>2

\* Writes that play no note and neither join nor connect channels.
LEMMA QuietEffects ==
  ASSUME NEW U \in SUBSET Channels, NEW k, RoutesFit(U, k), NEW w, w.reg \notin {"A0", "B0", "C0"},
         NEW x, x \in Chips(U), LevelsKept(U, k, x), NormsKept(U, k, x), RoutesFit(U, x), SoundKept(U, k, x),
         Tuned(U, k) => Tuned(U, x), \A d \in U : SamePitch(k, d, x, d),
         w.reg \notin {"104", "105"} => \A d \in U : SameKind(k, x, d)
  PROVE  Effects(U, k, w, x)
<1>1. KeyEffects(U, k, w, x)
  BY DEF KeyEffects
<1>2. PitchEffects(U, k, w, x)
  BY DEF PitchEffects, Plays
<1> QED
  BY <1>1, <1>2 DEF Effects

LEMMA SlotWritten ==
  ASSUME NEW U \in SUBSET Channels, NEW k \in Chips(U), RoutesFit(U, k), NEW s \in Slots(U), NEW e \in SlotStates,
         e.mod = k.slot[s].mod, e.key = k.slot[s].key, e.eg_gen = k.slot[s].eg_gen, e.eg_rout = k.slot[s].eg_rout,
         \/ e.eg_ksl = k.slot[s].eg_ksl
         \/ e.eg_ksl = KeyScaleLevel(k.channel[ChannelOfSlot(s)].f_num, k.channel[ChannelOfSlot(s)].block),
         NEW w, w.reg \in {"20", "40", "60", "80"}, NEW x, x = [k EXCEPT !.slot[s] = e]
  PROVE  Effects(U, k, w, x)
<1> DEFINE new == [k.slot EXCEPT ![s] = e]
<1>1. k.slot \in [Slots(U) -> SlotStates]
  BY DEF Chips
<1>2. new \in [Slots(U) -> SlotStates] /\ \A t \in Slots(U) : new[t] = IF t = s THEN e ELSE k.slot[t]
  BY <1>1
<1>3. x = [k EXCEPT !.slot = new]
  OBVIOUS
<1> HIDE DEF new
<1>4. x \in Chips(U) /\ x.slot = new /\ x.channel = k.channel /\ x.newm = k.newm /\ x.nts = k.nts
  <2>1. k \in Chips(U)
    OBVIOUS
  <2> QED
    BY ONLY <1>2, <1>3, <2>1, NewSlots
<1>5. /\ LevelsKept(U, k, x) /\ KeysKept(U, k, x) /\ RoutesKept(U, k, x) /\ KindsKept(U, k, x)
      /\ \A d \in U : SamePitch(k, d, x, d)
  BY <1>2, <1>4 DEF LevelsKept, KeysKept, RoutesKept, AlgsKept, ModsKept, OutsKept, KindsKept, SamePitch
<1>6. ASSUME Tuned(U, k) PROVE Tuned(U, x)
  <2> SUFFICES ASSUME NEW d \in U, NEW t \in SlotsOf(d)
               PROVE  x.slot[t].eg_ksl = KeyScaleLevel(x.channel[d].f_num, x.channel[d].block)
    BY DEF Tuned
  <2>1. t \in Slots(U) /\ ChannelOfSlot(t) = d
    BY SlotsIn, SlotNumbers DEF SlotsOf
  <2>2. k.slot[t].eg_ksl = KeyScaleLevel(k.channel[d].f_num, k.channel[d].block)
    BY <1>6 DEF Tuned
  <2>3. x.slot[t] = IF t = s THEN e ELSE k.slot[t]
    BY <1>2, <1>4, <2>1
  <2>4. x.channel[d].f_num = k.channel[d].f_num /\ x.channel[d].block = k.channel[d].block
    BY <1>4
  <2> QED
    BY <2>1, <2>2, <2>3, <2>4
<1>7. RoutesFit(U, x) /\ SoundKept(U, k, x)
  <2>1. \A d \in U : (x.channel[d].chtype = "drum") <=> (k.channel[d].chtype = "drum")
    BY <1>4
  <2> QED
    BY <1>5, <2>1, RoutesFitKept, SoundNear DEF RoutesFit
<1>8. NormsKept(U, k, x) /\ \A d \in U : SameKind(k, x, d)
  BY <1>5, KeysSame, KindsSame
<1>9. w.reg \notin {"A0", "B0", "C0"}
  OBVIOUS
<1> QED
  BY <1>4, <1>5, <1>6, <1>7, <1>8, <1>9, QuietEffects

LEMMA SlotRegisters ==
  ASSUME NEW s \in SlotStates, NEW w
  PROVE  /\ w \in [reg : {"20"}, slot : Nat, type : BOOLEAN, ksr : BOOLEAN] => SlotWrite20(s, w) \in SlotStates
         /\ w \in [reg : {"60"}, slot : Nat, ar : 0 .. 15, dr : 0 .. 15] => SlotWrite60(s, w) \in SlotStates
         /\ w \in [reg : {"80"}, slot : Nat, sl : 0 .. 15, rr : 0 .. 15] => SlotWrite80(s, w) \in SlotStates
         /\ \A e \in {SlotWrite20(s, w), SlotWrite60(s, w), SlotWrite80(s, w)} :
              e.mod = s.mod /\ e.key = s.key /\ e.eg_gen = s.eg_gen /\ e.eg_rout = s.eg_rout /\ e.eg_ksl = s.eg_ksl
<1>1. ASSUME w \in [reg : {"20"}, slot : Nat, type : BOOLEAN, ksr : BOOLEAN] PROVE SlotWrite20(s, w) \in SlotStates
  <2>1. w.type \in BOOLEAN /\ w.ksr \in BOOLEAN
    BY <1>1
  <2> QED
    BY <2>1 DEF SlotWrite20, SlotStates
<1>2. ASSUME w \in [reg : {"60"}, slot : Nat, ar : 0 .. 15, dr : 0 .. 15] PROVE SlotWrite60(s, w) \in SlotStates
  <2>1. w.ar \in Nat /\ w.dr \in Nat
    BY <1>2
  <2> QED
    BY <2>1 DEF SlotWrite60, SlotStates
<1>3. ASSUME w \in [reg : {"80"}, slot : Nat, sl : 0 .. 15, rr : 0 .. 15] PROVE SlotWrite80(s, w) \in SlotStates
  <2>1. w.rr \in Nat /\ (IF w.sl = 15 THEN 31 ELSE w.sl) \in Nat
    BY <1>3
  <2> QED
    BY <2>1 DEF SlotWrite80, SlotStates
<1>4. \A e \in {SlotWrite20(s, w), SlotWrite60(s, w), SlotWrite80(s, w)} :
        e.mod = s.mod /\ e.key = s.key /\ e.eg_gen = s.eg_gen /\ e.eg_rout = s.eg_rout /\ e.eg_ksl = s.eg_ksl
  BY DEF SlotWrite20, SlotWrite60, SlotWrite80, SlotStates
<1> QED
  BY <1>1, <1>2, <1>3, <1>4

LEMMA KindsEffects ==
  ASSUME NEW U \in SUBSET Channels, NEW k, NEW x, RoutesFit(U, k), x \in Chips(U), KindsOnly(U, k, x), RoutesFit(U, x),
         \A e \in U : (x.channel[e].chtype = "drum") <=> (k.channel[e].chtype = "drum"), NEW w, w.reg \in {"104", "105"}
  PROVE  Effects(U, k, w, x)
<1>1. NormsKept(U, k, x) /\ LevelsKept(U, k, x)
  BY KeysSame DEF KindsOnly
<1>2. (Tuned(U, k) => Tuned(U, x)) /\ \A d \in U : SamePitch(k, d, x, d)
  BY PitchSame DEF KindsOnly
<1>3. SoundKept(U, k, x)
  BY SoundNear DEF KindsOnly, RoutesFit
<1>4. w.reg \notin {"A0", "B0", "C0"} /\ ~(w.reg \notin {"104", "105"})
  OBVIOUS
<1> QED
  BY <1>1, <1>2, <1>3, <1>4, QuietEffects

\* C0.
LEMMA ConnectEffects ==
  ASSUME NEW U \in SUBSET Channels, NEW k \in Chips(U), RoutesFit(U, k),
         NEW w \in [reg : {"C0"}, ch : U, con : BOOLEAN], NEW x, x = WriteC0(k, w.ch, w.con)
  PROVE  Effects(U, k, w, x)
<1>1. w.ch \in U /\ w.con \in BOOLEAN /\ w.reg = "C0"
  OBVIOUS
<1>2. PICK c \in U : c = w.ch
  BY <1>1
<1>3. /\ x \in Chips(U) /\ RoutesOnly(U, k, x) /\ x.nts = k.nts /\ RoutesFit(U, x)
      /\ Elsewhere(U, Voice(k, c), k, x) /\ \A d \in Voice(k, c) : Sound(x, d)
  BY <1>1, <1>2, WriteC0Does
<1>4. NormsKept(U, k, x) /\ LevelsKept(U, k, x) /\ \A d \in U : SameKind(k, x, d)
  BY <1>3, KeysSame, KindsSame DEF RoutesOnly
<1>5. (Tuned(U, k) => Tuned(U, x)) /\ \A d \in U : SamePitch(k, d, x, d)
  BY <1>3, PitchSame DEF RoutesOnly
<1>6. SoundKept(U, k, x)
  <2>1. KindsFit(U, k) /\ KindsKept(U, k, x)
    BY <1>3 DEF RoutesFit, RoutesOnly
  <2> QED
    BY <1>3, <2>1, SoundVoice
<1>7. KeyEffects(U, k, w, x)
  BY <1>1, <1>4 DEF KeyEffects
<1>8. PitchEffects(U, k, w, x)
  BY <1>1, <1>5 DEF PitchEffects, Plays
<1> QED
  BY <1>1, <1>2, <1>3, <1>4, <1>6, <1>7, <1>8 DEF Effects

\* What A0 and B0 leave alone.
LEMMA PlayKeeps ==
  ASSUME NEW U \in SUBSET Channels, NEW k, RoutesFit(U, k), NEW x,
         LevelsKept(U, k, x), RoutesKept(U, k, x), KindsKept(U, k, x)
  PROVE  RoutesFit(U, x) /\ SoundKept(U, k, x) /\ \A d \in U : SameKind(k, x, d)
<1>1. \A d \in U : (x.channel[d].chtype = "drum") <=> (k.channel[d].chtype = "drum")
  BY DEF KindsKept
<1> QED
  BY <1>1, RoutesFitKept, SoundNear, KindsSame DEF RoutesFit

LEMMA FollowsPitch ==
  ASSUME NEW U, NEW k, NEW x, x = k PROVE \A d \in U : SamePitch(k, d, x, d)
BY DEF SamePitch

\* A0.
LEMMA LowEffects ==
  ASSUME NEW U \in SUBSET Channels, NEW k \in Chips(U), RoutesFit(U, k),
         NEW w \in [reg : {"A0"}, ch : U, low : 0 .. 255], NEW x, x = WriteA0(k, w.ch, w.low)
  PROVE  Effects(U, k, w, x)
<1>1. w.ch \in U /\ w.low \in Lows /\ w.reg = "A0" /\ KindsFit(U, k)
  BY DEF RoutesFit, Lows
<1>2. PICK c \in U : c = w.ch
  BY <1>1
<1>3. /\ x \in Chips(U) /\ PitchOnly(U, k, x) /\ x.nts = k.nts /\ (Tuned(U, k) => Tuned(U, x))
      /\ Kind(k, c) = "4op2" => x = k
      /\ \A d \in U \ Voice(k, c) : SamePitch(k, d, x, d)
      /\ (\A d \in Voice(k, c) : SamePitch(k, c, k, d)) => (\A d \in Voice(k, c) : SamePitch(x, c, x, d))
  BY <1>1, <1>2, WriteA0Does
<1>4. RoutesFit(U, x) /\ SoundKept(U, k, x) /\ \A d \in U : SameKind(k, x, d)
  BY <1>3, PlayKeeps DEF PitchOnly
<1>5. NormsKept(U, k, x) /\ LevelsKept(U, k, x)
  BY <1>3, KeysSame DEF PitchOnly
<1>6. KeyEffects(U, k, w, x)
  BY <1>1, <1>5 DEF KeyEffects
<1>7. Kind(k, c) = "4op2" => \A d \in U : SamePitch(k, d, x, d)
  BY <1>3, FollowsPitch
<1>8. PitchEffects(U, k, w, x)
  BY <1>1, <1>2, <1>3, <1>7 DEF PitchEffects, Plays
<1> QED
  BY <1>1, <1>3, <1>4, <1>5, <1>6, <1>8 DEF Effects

\* B0, which keys the operators it reaches too.
LEMMA KeyKeeps ==
  ASSUME NEW U \in SUBSET Channels, NEW k, NEW y, NEW x, KeysOnly(U, y, x), x.channel = y.channel, PitchOnly(U, k, y)
  PROVE  /\ LevelsKept(U, k, x) /\ RoutesKept(U, k, x) /\ KindsKept(U, k, x)
         /\ Tuned(U, y) => Tuned(U, x)
         /\ \A a, b \in U : SamePitch(x, a, x, b) <=> SamePitch(y, a, y, b)
         /\ \A d \in U : SamePitch(k, d, x, d) <=> SamePitch(k, d, y, d)
<1>1. LevelsKept(U, k, x)
  BY DEF KeysOnly, PitchOnly, LevelsKept
<1>2. RoutesKept(U, k, x)
  BY DEF KeysOnly, PitchOnly, RoutesKept, AlgsKept, ModsKept, OutsKept
<1>3. KindsKept(U, k, x)
  BY DEF KeysOnly, PitchOnly, KindsKept
<1>4. Tuned(U, y) => Tuned(U, x)
  BY PitchSame DEF KeysOnly
<1>5. /\ \A a, b \in U : SamePitch(x, a, x, b) <=> SamePitch(y, a, y, b)
      /\ \A d \in U : SamePitch(k, d, x, d) <=> SamePitch(k, d, y, d)
  BY DEF SamePitch
<1> QED
  BY <1>1, <1>2, <1>3, <1>4, <1>5

LEMMA ReachedSame ==
  ASSUME NEW k, NEW x, NEW d, SameKind(k, x, d) PROVE Reached(x, d) = Reached(k, d)
BY DEF SameKind, Reached

LEMMA HighEffects ==
  ASSUME NEW U \in SUBSET Channels, NEW k \in Chips(U), RoutesFit(U, k),
         NEW w \in [reg : {"B0"}, ch : U, high : 0 .. 3, block : 0 .. 7, key : BOOLEAN],
         NEW y, y = WriteB0(k, w.ch, w.high, w.block),
         NEW x, x = IF w.key THEN ChannelKeyOn(y, w.ch) ELSE ChannelKeyOff(y, w.ch)
  PROVE  Effects(U, k, w, x)
<1>1. w.ch \in U /\ w.high \in 0 .. 3 /\ w.block \in Blocks /\ w.reg = "B0" /\ KindsFit(U, k)
  BY DEF RoutesFit, Blocks
<1>2. PICK c \in U : c = w.ch
  BY <1>1
<1>3. /\ y \in Chips(U) /\ PitchOnly(U, k, y) /\ y.nts = k.nts /\ (Tuned(U, k) => Tuned(U, y))
      /\ Kind(k, c) = "4op2" => y = k
      /\ \A d \in U \ Voice(k, c) : SamePitch(k, d, y, d)
      /\ Kind(k, c) # "4op2" => \A d \in Voice(k, c) : SamePitch(y, c, y, d)
  BY <1>1, <1>2, WriteB0Does
<1>4. PICK S : S = Reached(y, c)
  OBVIOUS
<1>5. "norm" \in KeyTypes
  BY DEF KeyTypes
<1>6. /\ x \in Chips(U) /\ KeysOnly(U, y, x) /\ x.channel = y.channel
      /\ ~w.key => \A s \in Slots(U) : x.slot[s].key = IF s \in S THEN y.slot[s].key \ {"norm"} ELSE y.slot[s].key
  <2>1. CASE w.key
    <3>1. KeyedOn(y, S, "norm", x)
      BY <1>2, <1>4, <2>1 DEF ChannelKeyOn, KeyedOn
    <3>2. NowOn(U, y, S, "norm", x)
      BY <1>3, <1>5, <3>1, KeyOnDoes
    <3> QED
      BY <2>1, <3>2 DEF NowOn
  <2>2. CASE ~w.key
    <3>1. KeyedOff(y, S, "norm", x)
      BY <1>2, <1>4, <2>2 DEF ChannelKeyOff, KeyedOff
    <3>2. NowOff(U, y, S, "norm", x)
      BY <1>3, <1>5, <3>1, KeyOffDoes
    <3> QED
      BY <3>2 DEF NowOff
  <2> QED
    BY <2>1, <2>2
<1>7. /\ LevelsKept(U, k, x) /\ RoutesKept(U, k, x) /\ KindsKept(U, k, x)
      /\ Tuned(U, y) => Tuned(U, x)
      /\ \A a, b \in U : SamePitch(x, a, x, b) <=> SamePitch(y, a, y, b)
      /\ \A d \in U : SamePitch(k, d, x, d) <=> SamePitch(k, d, y, d)
  BY <1>3, <1>6, KeyKeeps
<1>8. RoutesFit(U, x) /\ SoundKept(U, k, x) /\ \A d \in U : SameKind(k, x, d)
  BY <1>7, PlayKeeps
<1>9. S = Reached(k, c)
  BY <1>3, <1>4, KindsSame, ReachedSame DEF PitchOnly
<1>10. KeyEffects(U, k, w, x)
  <2> SUFFICES ASSUME ~w.key, NEW s \in Slots(U), "norm" \in x.slot[s].key
               PROVE  "norm" \in k.slot[s].key /\ s \notin Reached(k, w.ch)
    BY <1>1 DEF KeyEffects
  <2>1. x.slot[s].key = IF s \in S THEN y.slot[s].key \ {"norm"} ELSE y.slot[s].key
    BY <1>6
  <2>2. s \notin S /\ "norm" \in y.slot[s].key
    BY <2>1
  <2>3. y.slot[s].key = k.slot[s].key
    BY <1>3 DEF PitchOnly, KeysKept
  <2> QED
    BY <1>2, <1>9, <2>2, <2>3
<1>11. Voice(k, c) \subseteq U
  BY <1>1, KindsAre DEF Voice
<1>12. Kind(k, c) # "4op2" => \A d \in Voice(k, c) : SamePitch(x, c, x, d)
  BY <1>3, <1>7, <1>11
<1>13. Kind(k, c) = "4op2" => \A d \in U : SamePitch(k, d, x, d)
  BY <1>3, <1>7, FollowsPitch
<1>14. \A d \in U \ Voice(k, c) : SamePitch(k, d, x, d)
  BY <1>3, <1>7
<1>15. PitchEffects(U, k, w, x)
  BY <1>1, <1>2, <1>3, <1>7, <1>12, <1>13, <1>14 DEF PitchEffects, Plays
<1> QED
  BY <1>1, <1>6, <1>7, <1>8, <1>10, <1>15 DEF Effects

LEMMA WriteDoes ==
  ASSUME NEW U \in SUBSET Channels, NEW k \in Chips(U), RoutesFit(U, k), NEW w \in RegisterWrites(U),
         w.reg = "104" => PairsWhole(U), w.reg = "BD" => RhythmChannels \subseteq U,
         NEW x, x = WriteReg(k, w)
  PROVE  Effects(U, k, w, x)
<1>1. CASE w \in [reg : {"104"}, joined : SUBSET {c \in U : c % 9 < 3}]
  <2>1. w.reg = "104" /\ w.joined \in SUBSET {c \in U : c % 9 < 3}
    BY <1>1
  <2>2. x = Set4Op(k, w.joined)
    BY <2>1 DEF WriteReg
  <2>3. x \in Chips(U) /\ KindsOnly(U, k, x) /\ RoutesFit(U, x)
    BY <2>1, <2>2, Set4OpDoes
  <2>4. \A e \in U : (x.channel[e].chtype = "drum") <=> (k.channel[e].chtype = "drum")
    <3> SUFFICES ASSUME NEW e \in U PROVE (x.channel[e].chtype = "drum") <=> (k.channel[e].chtype = "drum")
      OBVIOUS
    <3>1. CASE HasPair(e)
      <4>1. e \notin RhythmChannels
        <5>1. \A d \in {6, 7, 8} : ~HasPair(d)
          BY DEF HasPair
        <5> QED
          BY <3>1, <5>1 DEF RhythmChannels
      <4> QED
        BY <2>3, <4>1 DEF RoutesFit, KindsFit
    <3>2. CASE ~HasPair(e)
      <4>1. k.channel \in [U -> ChannelStates]
        BY DEF Chips
      <4> QED
        BY <2>2, <3>2, <4>1 DEF Set4Op, Chips
    <3> QED
      BY <3>1, <3>2
  <2> QED
    BY <2>1, <2>3, <2>4, KindsEffects
<1>2. CASE w \in [reg : {"105"}, newm : BOOLEAN]
  <2>1. w.reg = "105" /\ w.newm \in BOOLEAN
    BY <1>2
  <2>2. x = [k EXCEPT !.newm = w.newm]
    BY <2>1 DEF WriteReg
  <2>3. x \in Chips(U) /\ x.slot = k.slot /\ x.channel = k.channel
    BY <2>1, <2>2 DEF Chips
  <2>4. KindsOnly(U, k, x)
    BY <2>3 DEF KindsOnly, LevelsKept, KeysKept, PitchKept, RoutesKept, AlgsKept, ModsKept, OutsKept
  <2>5. KindsFit(U, x)
    BY <2>3 DEF RoutesFit, KindsFit
  <2>6. RoutesFit(U, x)
    BY <2>4, <2>5, KindsOnlyFit
  <2> QED
    BY <2>1, <2>3, <2>4, <2>6, KindsEffects
<1>3. CASE w \in [reg : {"08"}, nts : BOOLEAN]
  <2>1. w.reg = "08" /\ w.nts \in BOOLEAN
    BY <1>3
  <2>2. x = [k EXCEPT !.nts = w.nts]
    BY <2>1 DEF WriteReg
  <2>3. x \in Chips(U) /\ x.slot = k.slot /\ x.channel = k.channel /\ x.newm = k.newm
    BY <2>1, <2>2 DEF Chips
  <2>4. KeysKept(U, k, x) /\ PitchKept(U, k, x) /\ LevelsKept(U, k, x) /\ RoutesKept(U, k, x) /\ KindsKept(U, k, x)
    BY <2>3 DEF LevelsKept, KeysKept, PitchKept, RoutesKept, AlgsKept, ModsKept, OutsKept, KindsKept
  <2>5. RoutesFit(U, x) /\ SoundKept(U, k, x) /\ \A d \in U : SameKind(k, x, d)
    BY <2>4, PlayKeeps
  <2>6. (Tuned(U, k) => Tuned(U, x)) /\ \A d \in U : SamePitch(k, d, x, d)
    BY <2>4, PitchSame
  <2>7. NormsKept(U, k, x) /\ w.reg \notin {"A0", "B0", "C0"}
    BY <2>1, <2>4, KeysSame
  <2> QED
    BY <2>3, <2>4, <2>5, <2>6, <2>7, QuietEffects
<1>4. CASE w \in [reg : {"20"}, slot : Slots(U), type : BOOLEAN, ksr : BOOLEAN]
  <2>1. PICK s \in Slots(U) : s = w.slot
    BY <1>4
  <2>2. w.reg = "20" /\ k.slot[s] \in SlotStates
    BY <1>4 DEF Chips
  <2>3. PICK e : e = SlotWrite20(k.slot[s], w)
    OBVIOUS
  <2>4. w \in [reg : {"20"}, slot : Nat, type : BOOLEAN, ksr : BOOLEAN]
    BY <1>4, SlotsIn
  <2>5. /\ e \in SlotStates /\ e.mod = k.slot[s].mod /\ e.key = k.slot[s].key /\ e.eg_gen = k.slot[s].eg_gen
        /\ e.eg_rout = k.slot[s].eg_rout /\ e.eg_ksl = k.slot[s].eg_ksl
    BY <2>2, <2>3, <2>4, SlotRegisters
  <2>6. x = [k EXCEPT !.slot[s] = e]
    BY <2>1, <2>2, <2>3 DEF WriteReg
  <2> QED
    BY <2>2, <2>5, <2>6, SlotWritten
<1>5. CASE w \in [reg : {"40"}, slot : Slots(U)]
  <2>1. PICK s \in Slots(U) : s = w.slot
    BY <1>5
  <2>2. w.reg = "40" /\ k.slot[s] \in SlotStates
    BY <1>5 DEF Chips
  <2>3. PICK n : n = KeyScaleLevel(k.channel[ChannelOfSlot(s)].f_num, k.channel[ChannelOfSlot(s)].block)
    OBVIOUS
  <2>4. n \in Nat
    <3>1. ChannelOfSlot(s) \in U
      BY SlotsIn
    <3>2. k.channel[ChannelOfSlot(s)].f_num \in 0 .. 1023 /\ k.channel[ChannelOfSlot(s)].block \in 0 .. 7
      BY <3>1 DEF Chips, ChannelStates
    <3> QED
      BY <2>3, <3>2, KeyScaleNat
  <2>5. PICK e : e = [k.slot[s] EXCEPT !.eg_ksl = n]
    OBVIOUS
  <2>6. /\ e \in SlotStates /\ e.mod = k.slot[s].mod /\ e.key = k.slot[s].key /\ e.eg_gen = k.slot[s].eg_gen
        /\ e.eg_rout = k.slot[s].eg_rout /\ e.eg_ksl = n
    BY <2>2, <2>4, <2>5 DEF SlotStates
  <2>7. x = [k EXCEPT !.slot[s] = e]
    <3>1. x = SlotWrite40(k, s)
      BY <2>1, <2>2 DEF WriteReg
    <3> QED
      BY <2>3, <2>5, <3>1 DEF SlotWrite40
  <2> QED
    BY <2>2, <2>3, <2>6, <2>7, SlotWritten
<1>6. CASE w \in [reg : {"60"}, slot : Slots(U), ar : 0 .. 15, dr : 0 .. 15]
  <2>1. PICK s \in Slots(U) : s = w.slot
    BY <1>6
  <2>2. w.reg = "60" /\ k.slot[s] \in SlotStates
    BY <1>6 DEF Chips
  <2>3. PICK e : e = SlotWrite60(k.slot[s], w)
    OBVIOUS
  <2>4. w \in [reg : {"60"}, slot : Nat, ar : 0 .. 15, dr : 0 .. 15]
    BY <1>6, SlotsIn
  <2>5. /\ e \in SlotStates /\ e.mod = k.slot[s].mod /\ e.key = k.slot[s].key /\ e.eg_gen = k.slot[s].eg_gen
        /\ e.eg_rout = k.slot[s].eg_rout /\ e.eg_ksl = k.slot[s].eg_ksl
    BY <2>2, <2>3, <2>4, SlotRegisters
  <2>6. x = [k EXCEPT !.slot[s] = e]
    BY <2>1, <2>2, <2>3 DEF WriteReg
  <2> QED
    BY <2>2, <2>5, <2>6, SlotWritten
<1>7. CASE w \in [reg : {"80"}, slot : Slots(U), sl : 0 .. 15, rr : 0 .. 15]
  <2>1. PICK s \in Slots(U) : s = w.slot
    BY <1>7
  <2>2. w.reg = "80" /\ k.slot[s] \in SlotStates
    BY <1>7 DEF Chips
  <2>3. PICK e : e = SlotWrite80(k.slot[s], w)
    OBVIOUS
  <2>4. w \in [reg : {"80"}, slot : Nat, sl : 0 .. 15, rr : 0 .. 15]
    BY <1>7, SlotsIn
  <2>5. /\ e \in SlotStates /\ e.mod = k.slot[s].mod /\ e.key = k.slot[s].key /\ e.eg_gen = k.slot[s].eg_gen
        /\ e.eg_rout = k.slot[s].eg_rout /\ e.eg_ksl = k.slot[s].eg_ksl
    BY <2>2, <2>3, <2>4, SlotRegisters
  <2>6. x = [k EXCEPT !.slot[s] = e]
    BY <2>1, <2>2, <2>3 DEF WriteReg
  <2> QED
    BY <2>2, <2>5, <2>6, SlotWritten
<1>8. CASE w \in [reg : {"A0"}, ch : U, low : 0 .. 255]
  <2>1. x = WriteA0(k, w.ch, w.low)
    BY <1>8 DEF WriteReg
  <2> QED
    BY <1>8, <2>1, LowEffects
<1>9. CASE w \in [reg : {"B0"}, ch : U, high : 0 .. 3, block : 0 .. 7, key : BOOLEAN]
  <2>1. PICK y : y = WriteB0(k, w.ch, w.high, w.block)
    OBVIOUS
  <2>2. x = IF w.key THEN ChannelKeyOn(y, w.ch) ELSE ChannelKeyOff(y, w.ch)
    BY <1>9, <2>1 DEF WriteReg
  <2> QED
    BY <1>9, <2>1, <2>2, HighEffects
<1>10. CASE w \in [reg : {"BD"}, on : BOOLEAN, drums : SUBSET Drums]
  <2>1. w.reg = "BD" /\ w.on \in BOOLEAN /\ w.drums \subseteq Drums
    BY <1>10
  <2>2. x = UpdateRhythm(k, w.on, w.drums)
    BY <2>1 DEF WriteReg
  <2>3. x \in Chips(U) /\ NormsKept(U, k, x) /\ Rhythmic(U, RhythmChannels, k, x) /\ RoutesFit(U, x)
    BY <2>1, <2>2, UpdateRhythmDoes
  <2>4. LevelsKept(U, k, x) /\ PitchKept(U, k, x) /\ KindsFit(U, k) /\ Ordered(U, x)
    BY <2>3 DEF Rhythmic, RoutesFit
  <2>5. SoundKept(U, k, x)
    BY <2>1, <2>3, <2>4, SoundRhythm
  <2>6. \A d \in U : SameKind(k, x, d)
    <3>1. RhythmChannels \in SUBSET (U \cap RhythmChannels)
      BY <2>1
    <3> QED
      BY <2>3, <2>4, <3>1, RhythmicFits DEF SameKind
  <2>7. (Tuned(U, k) => Tuned(U, x)) /\ \A d \in U : SamePitch(k, d, x, d)
    BY <2>4, PitchSame
  <2>8. w.reg \notin {"A0", "B0", "C0"}
    BY <2>1
  <2> QED
    BY <2>3, <2>4, <2>5, <2>6, <2>7, <2>8, QuietEffects
<1>11. CASE w \in [reg : {"C0"}, ch : U, con : BOOLEAN]
  <2>1. x = WriteC0(k, w.ch, w.con)
    BY <1>11 DEF WriteReg
  <2> QED
    BY <1>11, <2>1, ConnectEffects
<1> QED
  BY <1>1, <1>2, <1>3, <1>4, <1>5, <1>6, <1>7, <1>8, <1>9, <1>10, <1>11 DEF RegisterWrites

(***************************************************************************)
(* The envelope                                                            *)
(***************************************************************************)
LEMMA Powers == ASSUME NEW n PROVE Pow2(n) \in {1, 2, 4, 8}
BY DEF Pow2

\* A step of the attack takes the level down, and not below 0.
LEMMA RiseDown ==
  ASSUME NEW r \in 1 .. SILENT, NEW p \in {1, 2, 4, 8}
  PROVE  r + ((-(r + 1) * p) \div 16) \in 0 .. r
<1>1. r \in Nat /\ r >= 1 /\ r <= 511
  BY DEF SILENT
<1>2. CASE p = 1
  BY <1>1, <1>2
<1>3. CASE p = 2
  BY <1>1, <1>3
<1>4. CASE p = 4
  BY <1>1, <1>4
<1>5. CASE p = 8
  BY <1>1, <1>5
<1> QED
  BY <1>2, <1>3, <1>4, <1>5

\* Which way the level goes.
Level(s, ksv, clk) == (Base(s, ksv) + Inc(s, ksv, clk)) % 512

LEMMA LevelGoes ==
  ASSUME NEW s \in SlotStates, NEW ksv, NEW clk
  PROVE  /\ Level(s, ksv, clk) \in 0 .. SILENT
         /\ Restarts(s) => Level(s, ksv, clk) \in {0, s.eg_rout}
         /\ ~Restarts(s) /\ s.eg_gen # "attack" => Level(s, ksv, clk) >= s.eg_rout
         /\ s.eg_gen = "attack" => Level(s, ksv, clk) <= s.eg_rout
         /\ s.eg_gen = "attack" /\ s.key = {} => Level(s, ksv, clk) = s.eg_rout
<1> DEFINE base == Base(s, ksv)
           inc == Inc(s, ksv, clk)
           sh == Shift(s, ksv, clk)
<1>1. PICK r \in 0 .. 511 : r = s.eg_rout
  BY DEF SlotStates, SILENT
<1>2. Level(s, ksv, clk) = (base + inc) % 512
  BY DEF Level
<1>3. CASE Restarts(s)
  <2>1. s.eg_gen = "release" /\ s.key # {}
    BY <1>3 DEF Restarts
  <2>2. inc = 0
    <3>1. ~(Attacked(s) \/ Decayed(s)) /\ s.eg_gen # "attack"
      BY <2>1 DEF Attacked, Decayed
    <3>2. inc = Fall(s, sh)
      BY <3>1 DEF Inc
    <3> QED
      BY <1>3, <3>2 DEF Fall
  <2>3. base \in {0, r}
    BY <1>1, <1>3 DEF Base
  <2> HIDE DEF base, inc
  <2>4. Level(s, ksv, clk) \in {0, r}
    BY <1>1, <1>2, <2>2, <2>3
  <2> QED
    BY <1>1, <1>3, <2>1, <2>4 DEF SILENT
<1>4. CASE ~Restarts(s) /\ s.eg_gen # "attack"
  <2>1. base = IF r >= 504 THEN 511 ELSE r
    BY <1>1, <1>4 DEF Base, EnvelopeOff, SILENT
  <2>2. inc \in {0, 1, 2, 4, 8} /\ (r >= 504 => inc = 0)
    <3>1. inc = 0 \/ inc = Fall(s, sh)
      BY <1>4 DEF Inc, Attacked
    <3>2. Fall(s, sh) \in {0, Pow2(sh - 1)} /\ (r >= 504 => Fall(s, sh) = 0)
      BY <1>1 DEF Fall, EnvelopeOff
    <3>3. Pow2(sh - 1) \in {1, 2, 4, 8}
      BY Powers
    <3> QED
      BY <3>1, <3>2, <3>3
  <2> HIDE DEF base, inc
  <2>3. base + inc \in 0 .. 511 /\ base + inc >= r
    <3>1. CASE r >= 504
      BY <1>1, <2>1, <2>2, <3>1
    <3>2. CASE ~(r >= 504)
      <4>1. base = r
        BY <2>1, <3>2
      <4> QED
        <5>1. inc \in 0 .. 8 /\ r \in 0 .. 503
          BY <1>1, <2>2, <3>2
        <5> QED
          BY ONLY <4>1, <5>1
    <3> QED
      BY <3>1, <3>2
  <2>4. Level(s, ksv, clk) \in 0 .. 511 /\ Level(s, ksv, clk) >= r
    BY <1>1, <1>2, <2>3
  <2> QED
    BY <1>1, <1>4, <2>4 DEF SILENT
<1>5. CASE s.eg_gen = "attack"
  <2>1. ~Restarts(s) /\ ~Decayed(s)
    BY <1>5 DEF Restarts, Decayed
  <2>2. base = r
    BY <1>1, <1>5, <2>1 DEF Base
  <2>3. inc = 0 \/ (r # 0 /\ inc = Rise(s, sh) /\ s.key # {})
    <3>1. CASE r = 0
      <4>1. Attacked(s)
        BY <1>1, <1>5, <3>1 DEF Attacked
      <4> QED
        BY <4>1 DEF Inc
    <3>2. CASE r # 0
      <4>1. ~(Attacked(s) \/ Decayed(s))
        BY <1>1, <2>1, <3>2 DEF Attacked
      <4>2. inc = IF s.key # {} /\ sh > 0 /\ RateHi(s, ksv) # 15 THEN Rise(s, sh) ELSE 0
        BY <1>5, <4>1 DEF Inc
      <4> QED
        BY <3>2, <4>2
    <3> QED
      BY <3>1, <3>2
  <2>4. r # 0 => r + Rise(s, sh) \in 0 .. r
    <3>1. PICK p \in {1, 2, 4, 8} : p = Pow2(sh)
      BY Powers
    <3>2. Rise(s, sh) = (-(r + 1) * p) \div 16
      BY <1>1, <3>1 DEF Rise
    <3>3. r # 0 => r \in 1 .. SILENT
      BY <1>1 DEF SILENT
    <3> QED
      BY <3>2, <3>3, RiseDown
  <2> HIDE DEF base, inc
  <2>5. base + inc \in 0 .. r
    BY <1>1, <2>2, <2>3, <2>4
  <2>6. Level(s, ksv, clk) \in 0 .. r
    BY <1>1, <1>2, <2>5
  <2>7. s.key = {} => Level(s, ksv, clk) = r
    BY <1>1, <1>2, <2>2, <2>3
  <2> QED
    BY <1>1, <1>5, <2>1, <2>6, <2>7 DEF SILENT
<1> QED
  BY <1>3, <1>4, <1>5

\* What one sample leaves of a slot.
LEMMA CalcDoes ==
  ASSUME NEW s \in SlotStates, NEW ksv, NEW clk, NEW t, t = EnvelopeCalc(s, ksv, clk)
  PROVE  /\ t \in SlotStates /\ t.mod = s.mod /\ t.key = s.key /\ t.eg_ksl = s.eg_ksl
         /\ s.key = {} => t.eg_gen = "release"
         /\ t.eg_rout < s.eg_rout => s.eg_gen = "attack" \/ Restarts(s)
         /\ t.eg_rout < s.eg_rout => s.key # {}
         /\ t.eg_rout > s.eg_rout => s.eg_gen # "attack"
<1>1. NextGen(s) \in Generators /\ (s.key = {} => NextGen(s) = "release")
  <2>1. CASE s.key = {}
    BY <2>1 DEF NextGen, Generators
  <2>2. CASE s.key # {} /\ Restarts(s)
    BY <2>2 DEF NextGen, Generators, Restarts, Attacked, Decayed
  <2>3. CASE s.key # {} /\ ~Restarts(s) /\ Attacked(s)
    BY <2>3 DEF NextGen, Generators, Attacked, Decayed
  <2>4. CASE s.key # {} /\ ~Restarts(s) /\ ~Attacked(s) /\ Decayed(s)
    BY <2>4 DEF NextGen, Generators
  <2>5. CASE s.key # {} /\ ~Restarts(s) /\ ~Attacked(s) /\ ~Decayed(s)
    BY <2>5 DEF NextGen, SlotStates
  <2> QED
    BY <2>1, <2>2, <2>3, <2>4, <2>5
<1>2. PICK l \in 0 .. SILENT : l = Level(s, ksv, clk)
  BY LevelGoes
<1>3. PICK g \in Generators : g = NextGen(s)
  BY <1>1
<1>4. t = [s EXCEPT !.eg_rout = l, !.eg_gen = g]
  BY <1>2, <1>3 DEF EnvelopeCalc, Level
<1>5. t \in SlotStates /\ t.mod = s.mod /\ t.key = s.key /\ t.eg_ksl = s.eg_ksl /\ t.eg_gen = g /\ t.eg_rout = l
  BY <1>4 DEF SlotStates
<1>6. /\ Restarts(s) => l \in {0, s.eg_rout}
      /\ ~Restarts(s) /\ s.eg_gen # "attack" => l >= s.eg_rout
      /\ s.eg_gen = "attack" => l <= s.eg_rout
      /\ s.eg_gen = "attack" /\ s.key = {} => l = s.eg_rout
  BY <1>2, LevelGoes
<1>7. s.eg_rout \in Nat /\ l \in Nat /\ (Restarts(s) => s.key # {})
  BY DEF SlotStates, SILENT, Restarts
<1>8. /\ l < s.eg_rout => s.eg_gen = "attack" \/ Restarts(s)
      /\ l < s.eg_rout => s.key # {}
      /\ l > s.eg_rout => s.eg_gen # "attack"
  BY <1>6, <1>7
<1> QED
  BY <1>1, <1>3, <1>5, <1>8

(***************************************************************************)
(* The chip and the history of its writes                                  *)
(***************************************************************************)
Used == Programs[program].used

\* Of chip and history st with the channels U in use:
\*   what was settled since it became what it is sounds as it is connected, what was
\*   tuned has one pitch, and no operator is held that an untouched key off reached.
Settled(st) == \A c \in st.settled : Sound(st.chip, c)
OnePitch(st) == \A c \in st.tuned : \A d \in Voice(st.chip, c) : SamePitch(st.chip, c, st.chip, d)
Released(U, st) ==
  \A c \in st.off : \A s \in Reached(st.chip, c) \cap Slots(U) : "norm" \notin st.chip.slot[s].key
History(U, st) ==
  /\ st.chip \in Chips(U) /\ RoutesFit(U, st.chip) /\ Tuned(U, st.chip)
  /\ st.settled \subseteq U /\ st.tuned \subseteq U /\ st.off \subseteq U
  /\ Settled(st) /\ OnePitch(st) /\ Released(U, st)
ChipInv == program \in DOMAIN Programs /\ History(Used, State)

LEMMA ProgramWrites ==
  ASSUME program \in DOMAIN Programs
  PROVE  /\ Used \in SUBSET Channels
         /\ \A w \in Programs[program].writes :
              /\ w \in RegisterWrites(Used)
              /\ w.reg = "104" => PairsWhole(Used)
              /\ w.reg = "BD" => RhythmChannels \subseteq Used
<1>1. /\ Used \subseteq Channels /\ Programs[program].writes \subseteq RegisterWrites(Used)
      /\ (\E w \in Programs[program].writes : w.reg = "104") => \A c \in Used : HasPair(c) => pair(c) \in Used
      /\ (\E w \in Programs[program].writes : w.reg = "BD") => RhythmChannels \subseteq Used
  BY ProgramsAssumption DEF Used
<1> QED
  BY <1>1 DEF PairsWhole

LEMMA VoicesMeet ==
  ASSUME NEW U \in SUBSET Channels, NEW k, KindsFit(U, k), NEW h \in U, NEW c \in Voice(k, h)
  PROVE  c \in U /\ Voice(k, c) = Voice(k, h)
<1>1. CASE Kind(k, h) = "2op"
  BY <1>1 DEF Voice
<1>2. CASE Kind(k, h) # "2op"
  <2>1. /\ pair(h) \in U /\ pair(pair(h)) = h /\ Kind(k, pair(h)) # "2op"
    BY <1>2, KindsAre
  <2>2. Voice(k, h) = {h, pair(h)} /\ Voice(k, pair(h)) = {pair(h), h}
    BY <1>2, <2>1 DEF Voice
  <2> QED
    BY <2>1, <2>2
<1> QED
  BY <1>1, <1>2

LEMMA MadeKeeps ==
  ASSUME NEW U \in SUBSET Channels, NEW w \in RegisterWrites(U), w.reg = "104" => PairsWhole(U),
         w.reg = "BD" => RhythmChannels \subseteq U, NEW st, History(U, st)
  PROVE  /\ History(U, Made(st, w)) /\ LevelsKept(U, st.chip, Made(st, w).chip)
         /\ \A s \in Keyed(st.chip, Made(st, w).chip) : s \in Slots(U) /\ st.chip.slot[s].key = {}
<1> DEFINE k == st.chip
           new == Made(st, w)
<1>1. PICK x : x = WriteReg(k, w)
  OBVIOUS
<1>2. k \in Chips(U) /\ RoutesFit(U, k) /\ KindsFit(U, k) /\ DOMAIN k.channel = U /\ DOMAIN k.slot = Slots(U)
  BY DEF History, RoutesFit, Chips
<1>3. Effects(U, k, w, x)
  BY <1>1, <1>2, WriteDoes
<1>4. PICK kept : kept = KindKept(k, x)
  OBVIOUS
<1>5. kept = {c \in U : Kind(k, c) = Kind(x, c)} /\ kept \subseteq U
  BY <1>2, <1>4 DEF KindKept
<1>6. /\ new.chip = x
      /\ new.settled = (st.settled \cap kept) \cup (IF w.reg = "C0" THEN Voice(k, w.ch) ELSE {})
      /\ new.tuned = (st.tuned \cap kept) \cup (IF w.reg = "B0" /\ Kind(k, w.ch) # "4op2" THEN Voice(k, w.ch) ELSE {})
      /\ new.off = IF kept # U \/ (w.reg = "B0" /\ w.key) THEN {} ELSE st.off \cup (IF w.reg = "B0" THEN {w.ch} ELSE {})
  BY <1>1, <1>2, <1>4 DEF Made
<1> HIDE DEF new, k
<1>7. w.reg \in {"A0", "B0", "C0"} => w.ch \in U /\ Voice(k, w.ch) \subseteq U
  <2>1. w.reg \in {"A0", "B0", "C0"} => w.ch \in U
    BY DEF RegisterWrites
  <2> QED
    BY <1>2, <2>1, KindsAre DEF Voice
<1>8. x \in Chips(U) /\ RoutesFit(U, x) /\ Tuned(U, x) /\ LevelsKept(U, k, x) /\ KindsFit(U, x)
  BY <1>3 DEF Effects, PitchEffects, History, k, RoutesFit
<1>9. new.settled \subseteq U /\ new.tuned \subseteq U /\ new.off \subseteq U
  BY <1>5, <1>6, <1>7 DEF History
<1>10. Settled(new)
  <2>1. \A c \in st.settled \cap kept : Sound(x, c)
    BY <1>3, <1>5 DEF History, Settled, Effects, SoundKept, k
  <2>2. w.reg = "C0" => \A c \in Voice(k, w.ch) : Sound(x, c)
    BY <1>3 DEF Effects
  <2> QED
    BY <1>6, <2>1, <2>2 DEF Settled
<1>11. OnePitch(new)
  <2>1. ASSUME NEW c \in st.tuned \cap kept, NEW d \in Voice(x, c), ~(w.reg = "B0" /\ c \in Voice(k, w.ch) /\ Kind(k, w.ch) # "4op2")
        PROVE  SamePitch(x, c, x, d)
    <3>1. c \in U /\ Kind(k, c) = Kind(x, c)
      BY <1>5
    <3>2. Voice(x, c) = Voice(k, c)
      BY <3>1 DEF Voice
    <3>3. d \in U /\ SamePitch(k, c, k, d)
      BY <1>2, <2>1, <3>1, <3>2, KindsAre DEF History, OnePitch, Voice, k
    <3>4. CASE SamePitch(k, c, x, c) /\ SamePitch(k, d, x, d)
      BY <3>3, <3>4 DEF SamePitch
    <3>5. CASE Plays(w) /\ Kind(k, w.ch) # "4op2" /\ (c \in Voice(k, w.ch) \/ d \in Voice(k, w.ch))
      <4>1. PICK h \in U : h = w.ch
        BY <1>7, <3>5 DEF Plays
      <4>2. Voice(k, h) = Voice(k, c)
        <5>1. KindsFit(U, k)
          BY <1>2
        <5>2. CASE c \in Voice(k, h)
          BY <5>1, <5>2, VoicesMeet
        <5>3. CASE d \in Voice(k, h)
          <6>1. d \in Voice(k, c)
            BY <3>2
          <6>2. Voice(k, d) = Voice(k, h)
            BY <5>1, <5>3, VoicesMeet
          <6>3. Voice(k, d) = Voice(k, c)
            BY <3>1, <5>1, <6>1, VoicesMeet
          <6> QED
            BY <6>2, <6>3
        <5> QED
          BY <3>5, <4>1, <5>2, <5>3
      <4>3. w.reg = "A0"
        BY <2>1, <3>5, <4>1, <4>2 DEF Plays, Voice
      <4>4. \A e \in Voice(k, h) : SamePitch(k, h, k, e)
        <5>1. \A e \in Voice(k, c) : SamePitch(k, c, k, e)
          BY <2>1 DEF History, OnePitch, k
        <5>2. h \in Voice(k, c)
          BY <4>2 DEF Voice
        <5> QED
          BY <4>2, <5>1, <5>2 DEF SamePitch
      <4>5. \A e \in Voice(k, h) : SamePitch(x, h, x, e)
        BY <1>3, <4>1, <4>3, <4>4 DEF Effects, PitchEffects
      <4>6. c \in Voice(k, h) /\ d \in Voice(k, h)
        BY <3>2, <4>2 DEF Voice
      <4> QED
        BY <4>5, <4>6 DEF SamePitch
    <3>6. CASE ~(Plays(w) /\ Kind(k, w.ch) # "4op2" /\ (c \in Voice(k, w.ch) \/ d \in Voice(k, w.ch)))
      <4>1. SamePitch(k, c, x, c) /\ SamePitch(k, d, x, d)
        BY <1>3, <3>1, <3>3, <3>6 DEF Effects, PitchEffects
      <4> QED
        BY <3>4, <4>1
    <3> QED
      BY <3>5, <3>6
  <2>2. ASSUME w.reg = "B0", Kind(k, w.ch) # "4op2", NEW c \in Voice(k, w.ch), NEW d \in Voice(x, c)
        PROVE  SamePitch(x, c, x, d)
    <3>1. PICK h \in U : h = w.ch
      BY <1>7, <2>2
    <3>2. \A e \in Voice(k, h) : SamePitch(x, h, x, e)
      BY <1>3, <2>2, <3>1 DEF Effects, PitchEffects
    <3>3. c \in U /\ SameKind(k, x, c)
      BY <1>3, <1>7, <2>2 DEF Effects
    <3>4. Voice(x, c) = Voice(k, c)
      BY <3>3 DEF SameKind, Voice
    <3>5. Voice(k, h) = Voice(k, c)
      BY <1>2, <2>2, <3>1, <3>3, KindsAre DEF Voice
    <3> QED
      BY <2>2, <3>1, <3>2, <3>4, <3>5 DEF SamePitch
  <2> QED
    BY <1>6, <2>1, <2>2 DEF OnePitch
<1>12. Released(U, new)
  <2> SUFFICES ASSUME NEW c \in new.off, NEW s \in Reached(x, c) \cap Slots(U)
               PROVE  "norm" \notin x.slot[s].key
    BY <1>6 DEF Released
  <2>1. /\ kept = U /\ ~(w.reg = "B0" /\ w.key)
        /\ c \in st.off \/ (w.reg = "B0" /\ c = w.ch)
    BY <1>6
  <2>2. c \in U
    BY <1>9
  <2>3. Reached(x, c) = Reached(k, c)
    <3>1. Kind(k, c) = Kind(x, c)
      BY <1>5, <2>1, <2>2
    <3>2. Leads(x, c) = Leads(k, c) /\ Follows(x, c) = Follows(k, c)
      <4>1. Leads(x, c) <=> Leads(k, c)
        <5>1. Kind(x, c) = "4op" <=> Leads(x, c)
          BY <1>8, <2>2, KindsAre
        <5>2. Kind(k, c) = "4op" <=> Leads(k, c)
          BY <1>2, <2>2, KindsAre
        <5> QED
          BY <3>1, <5>1, <5>2
      <4>2. Follows(x, c) <=> Follows(k, c)
        <5>1. Kind(x, c) = "4op2" <=> Follows(x, c)
          BY <1>8, <2>2, KindsAre
        <5>2. Kind(k, c) = "4op2" <=> Follows(k, c)
          BY <1>2, <2>2, KindsAre
        <5> QED
          BY <3>1, <5>1, <5>2
      <4>3. /\ k.newm \in BOOLEAN /\ x.newm \in BOOLEAN
        BY <1>2, <1>8 DEF Chips
      <4> QED
        BY <4>1, <4>2, <4>3 DEF Leads, Follows
    <3> QED
      BY <3>1, <3>2, ReachedSame DEF SameKind
  <2>4. CASE w.reg # "B0"
    <3>1. "norm" \notin k.slot[s].key
      BY <2>1, <2>3, <2>4 DEF History, Released, k
    <3> QED
      BY <1>3, <2>4, <3>1 DEF Effects, KeyEffects, NormsKept
  <2>5. CASE w.reg = "B0"
    <3>1. "norm" \in x.slot[s].key => "norm" \in k.slot[s].key /\ s \notin Reached(k, w.ch)
      BY <1>3, <2>1, <2>5 DEF Effects, KeyEffects
    <3>2. CASE c \in st.off
      BY <2>3, <3>1, <3>2 DEF History, Released, k
    <3>3. CASE c = w.ch
      BY <2>3, <3>1, <3>3
    <3> QED
      BY <2>1, <3>2, <3>3
  <2> QED
    BY <2>4, <2>5
<1>13. History(U, new)
  BY <1>6, <1>8, <1>9, <1>10, <1>11, <1>12 DEF History
<1>14. \A s \in Keyed(k, x) : s \in Slots(U) /\ k.slot[s].key = {}
  BY <1>2 DEF Keyed
<1> QED
  BY <1>6, <1>8, <1>13, <1>14 DEF new, k

\* What a sample does to the chip.
LevelMoves(old, new) ==
  /\ new.eg_rout < old.eg_rout => old.eg_gen = "attack" \/ Restarts(old)
  /\ new.eg_rout < old.eg_rout => old.key # {}
  /\ new.eg_rout > old.eg_rout => old.eg_gen # "attack"
SlotMoves(old, new) ==
  /\ new.mod = old.mod /\ new.key = old.key /\ new.eg_ksl = old.eg_ksl
  /\ old.key = {} => new.eg_gen = "release"
  /\ LevelMoves(old, new)

LEMMA CalculatedDoes ==
  ASSUME NEW U, chip \in Chips(U), NEW clk, NEW x, x = SlotsCalculated(clk)
  PROVE  /\ x \in Chips(U) /\ x.channel = chip.channel /\ x.newm = chip.newm
         /\ \A s \in Slots(U) : SlotMoves(chip.slot[s], x.slot[s])
<1> DEFINE ksv(s) == chip.channel[ChannelOfSlot(s)].ksv
           new == [s \in Slots(U) |-> EnvelopeCalc(chip.slot[s], ksv(s), clk)]
<1>1. DOMAIN chip.slot = Slots(U) /\ \A s \in Slots(U) : chip.slot[s] \in SlotStates
  BY DEF Chips
<1>2. x = [chip EXCEPT !.slot = new]
  BY <1>1 DEF SlotsCalculated, Chips
<1>3. ASSUME NEW s \in Slots(U) PROVE new[s] \in SlotStates /\ SlotMoves(chip.slot[s], new[s])
  <2>1. PICK old \in SlotStates : old = chip.slot[s]
    BY <1>1
  <2>2. PICK v : v = ksv(s)
    OBVIOUS
  <2>3. PICK t : t = EnvelopeCalc(old, v, clk)
    OBVIOUS
  <2>4. t \in SlotStates /\ SlotMoves(old, t)
    BY <2>3, CalcDoes DEF SlotMoves, LevelMoves
  <2> QED
    BY <2>1, <2>2, <2>3, <2>4
<1>4. DOMAIN new = Slots(U) /\ new = [s \in Slots(U) |-> new[s]]
  OBVIOUS
<1> HIDE DEF new, ksv
<1>5. new \in [Slots(U) -> SlotStates]
  BY <1>3, <1>4
<1>6. x \in Chips(U) /\ x.slot = new /\ x.channel = chip.channel /\ x.newm = chip.newm
  BY <1>2, <1>5, NewSlots
<1> QED
  BY <1>3, <1>6

LEMMA SampledKeeps ==
  ASSUME NEW U \in SUBSET Channels, History(U, State), NEW clk
  PROVE  /\ History(U, Sampled(clk)) /\ Sampled(clk).due = {}
         /\ \A s \in Slots(U) : SlotMoves(chip.slot[s], Sampled(clk).chip.slot[s])
<1>1. PICK k : k = chip
  OBVIOUS
<1>2. PICK x : x = SlotsCalculated(clk)
  OBVIOUS
<1>3. /\ State.chip = k /\ State.settled = settled /\ State.tuned = tuned /\ State.off = off
  BY <1>1 DEF State
<1>4. /\ Sampled(clk).chip = x /\ Sampled(clk).settled = settled /\ Sampled(clk).tuned = tuned
      /\ Sampled(clk).off = off /\ Sampled(clk).due = {}
  BY <1>2 DEF Sampled, State
<1>5. /\ k \in Chips(U) /\ RoutesFit(U, k) /\ Tuned(U, k)
      /\ settled \subseteq U /\ tuned \subseteq U /\ off \subseteq U
      /\ Settled(State) /\ OnePitch(State) /\ Released(U, State)
  BY <1>3 DEF History
<1>6. /\ x \in Chips(U) /\ x.channel = k.channel /\ x.newm = k.newm
      /\ \A s \in Slots(U) : SlotMoves(k.slot[s], x.slot[s])
  BY <1>1, <1>2, <1>5, CalculatedDoes
<1>7. RoutesKept(U, k, x) /\ KindsKept(U, k, x) /\ KeysKept(U, k, x) /\ PitchKept(U, k, x)
  BY <1>6 DEF RoutesKept, AlgsKept, ModsKept, OutsKept, KindsKept, KeysKept, PitchKept, SlotMoves
<1>8. RoutesFit(U, x) /\ SoundKept(U, k, x) /\ Tuned(U, x) /\ \A d \in U : SamePitch(k, d, x, d)
  <2>1. \A e \in U : (x.channel[e].chtype = "drum") <=> (k.channel[e].chtype = "drum")
    BY <1>6
  <2>2. SoundKept(U, k, x)
    BY <1>5, <1>7, <2>1, SoundNear DEF RoutesFit
  <2>3. RoutesFit(U, x)
    BY <1>5, <1>7, RoutesFitKept
  <2> QED
    BY <1>5, <1>7, <2>2, <2>3, PitchSame
<1>9. \A d \in U : SameKind(k, x, d)
  BY <1>7, KindsSame
<1>10. Settled(Sampled(clk))
  BY <1>3, <1>4, <1>5, <1>8, <1>9 DEF Settled, SoundKept, SameKind
<1>11. OnePitch(Sampled(clk))
  <2>1. ASSUME NEW c \in tuned, NEW d \in Voice(x, c) PROVE SamePitch(x, c, x, d)
    <3>1. Voice(x, c) = Voice(k, c)
      BY <1>5, <1>9 DEF SameKind, Voice
    <3>2. SamePitch(k, c, k, d)
      BY <1>3, <1>5, <3>1 DEF OnePitch
    <3> QED
      BY <1>6, <3>2 DEF SamePitch
  <2> QED
    BY <1>4, <2>1 DEF OnePitch
<1>12. Released(U, Sampled(clk))
  <2>1. ASSUME NEW c \in off, NEW s \in Reached(x, c) \cap Slots(U) PROVE "norm" \notin x.slot[s].key
    <3>1. Reached(x, c) = Reached(k, c)
      BY <1>5, <1>9, ReachedSame
    <3> QED
      BY <1>3, <1>5, <1>7, <3>1 DEF Released, KeysKept
  <2> QED
    BY <1>4, <2>1 DEF Released
<1>13. History(U, Sampled(clk))
  BY <1>4, <1>5, <1>6, <1>8, <1>10, <1>11, <1>12 DEF History
<1> QED
  BY <1>1, <1>4, <1>6, <1>13

(***************************************************************************)
(* The chip over a run                                                     *)
(***************************************************************************)
LEMMA ResetSilent == KeyScaleLevel(0, 0) = 0
<1>1. 0 \div 64 + 1 = 1
  OBVIOUS
<1>2. kslrom[1] = 0
  BY DEF kslrom
<1> QED
  BY <1>1, <1>2 DEF KeyScaleLevel

LEMMA ResetDoes ==
  ASSUME NEW U \in SUBSET Channels, NEW k, k = ResetChip(U)
  PROVE  /\ k \in Chips(U) /\ k.newm = FALSE
         /\ \A c \in U : /\ k.channel[c].chtype = "2op" /\ k.channel[c].f_num = 0 /\ k.channel[c].block = 0
                         /\ k.channel[c].ksv = 0 /\ k.channel[c].con = FALSE /\ k.channel[c].alg = 0
                         /\ k.channel[c].out = Heard2(c, 0)
         /\ \A s \in Slots(U) : k.slot[s].mod = Chain2(ChannelOfSlot(s), 0)[s] /\ k.slot[s].eg_ksl = 0
<1> DEFINE slots == [s \in Slots(U) |-> [ResetSlot EXCEPT !.mod = Chain2(ChannelOfSlot(s), 0)[s]]]
           channels == [c \in U |-> [ResetChannel EXCEPT !.out = Heard2(c, 0)]]
<1>1. k = [newm |-> FALSE, nts |-> FALSE, rhy |-> {}, channel |-> channels, slot |-> slots]
  BY DEF ResetChip
<1>2. ASSUME NEW c \in U
      PROVE  /\ channels[c] \in ChannelStates
             /\ channels[c].chtype = "2op" /\ channels[c].f_num = 0 /\ channels[c].block = 0
             /\ channels[c].ksv = 0 /\ channels[c].con = FALSE /\ channels[c].alg = 0
             /\ channels[c].out = Heard2(c, 0)
  <2>1. PICK h \in Outs : h = Heard2(c, 0)
    BY Chains2
  <2>2. PICK r : r = [chtype |-> "2op", f_num |-> 0, block |-> 0, ksv |-> 0, con |-> FALSE, alg |-> 0, out |-> h]
    OBVIOUS
  <2>3. r \in ChannelStates
    BY <2>2 DEF ChannelStates
  <2>4. channels[c] = r
    BY <2>1, <2>2 DEF ResetChannel
  <2> HIDE DEF channels
  <2> QED
    BY <2>1, <2>2, <2>3, <2>4
<1>3. ASSUME NEW s \in Slots(U)
      PROVE  slots[s] \in SlotStates /\ slots[s].mod = Chain2(ChannelOfSlot(s), 0)[s] /\ slots[s].eg_ksl = 0
  <2>1. ChannelOfSlot(s) \in Channels /\ s \in SlotsOf(ChannelOfSlot(s))
    BY SlotsIn
  <2>2. PICK m \in 0 .. Zero : m = Chain2(ChannelOfSlot(s), 0)[s]
    BY <2>1, Chains2
  <2>3. PICK r : r = [mod |-> m, key |-> {}, eg_gen |-> "release", eg_rout |-> SILENT, eg_ksl |-> 0,
                      reg_ar |-> 0, reg_dr |-> 0, reg_sl |-> 0, reg_rr |-> 0, reg_type |-> FALSE, reg_ksr |-> FALSE]
    OBVIOUS
  <2>4. r \in SlotStates
    BY <2>3 DEF SlotStates, SILENT, Generators
  <2>5. slots[s] = r
    BY <2>2, <2>3 DEF ResetSlot
  <2> HIDE DEF slots
  <2> QED
    BY <2>2, <2>3, <2>4, <2>5
<1>4. DOMAIN channels = U /\ DOMAIN slots = Slots(U)
  OBVIOUS
<1>5. channels = [c \in U |-> channels[c]] /\ slots = [s \in Slots(U) |-> slots[s]]
  OBVIOUS
<1> HIDE DEF channels, slots
<1>6. channels \in [U -> ChannelStates] /\ slots \in [Slots(U) -> SlotStates]
  BY <1>2, <1>3, <1>5
<1>7. k \in Chips(U)
  BY <1>1, <1>6 DEF Chips
<1>8. k.channel = channels /\ k.slot = slots /\ k.newm = FALSE
  BY <1>1
<1>9. \A c \in U : /\ k.channel[c].chtype = "2op" /\ k.channel[c].f_num = 0 /\ k.channel[c].block = 0
                    /\ k.channel[c].ksv = 0 /\ k.channel[c].con = FALSE /\ k.channel[c].alg = 0
                    /\ k.channel[c].out = Heard2(c, 0)
  BY <1>2, <1>8
<1>10. \A s \in Slots(U) : k.slot[s].mod = Chain2(ChannelOfSlot(s), 0)[s] /\ k.slot[s].eg_ksl = 0
  BY <1>3, <1>8
<1> QED
  BY <1>7, <1>8, <1>9, <1>10

LEMMA ResetKeeps ==
  ASSUME NEW U \in SUBSET Channels, NEW st, st.chip = ResetChip(U), st.settled = U, st.tuned = U, st.off = {}
  PROVE  History(U, st)
<1>1. PICK k : k = st.chip
  OBVIOUS
<1>2. k = ResetChip(U)
  BY <1>1
<1>3. /\ k \in Chips(U) /\ k.newm = FALSE
      /\ \A c \in U : /\ k.channel[c].chtype = "2op" /\ k.channel[c].f_num = 0 /\ k.channel[c].block = 0
                      /\ k.channel[c].ksv = 0 /\ k.channel[c].con = FALSE /\ k.channel[c].alg = 0
                      /\ k.channel[c].out = Heard2(c, 0)
      /\ \A s \in Slots(U) : k.slot[s].mod = Chain2(ChannelOfSlot(s), 0)[s] /\ k.slot[s].eg_ksl = 0
  BY ONLY <1>2, U \in SUBSET Channels, ResetDoes
<1>4. \A s \in Slots(U) : k.slot[s].mod = Chain2(ChannelOfSlot(s), 0)[s] /\ k.slot[s].eg_ksl = 0
  BY <1>3
<1>5. \A c \in U : Kind(k, c) = "2op" /\ Voice(k, c) = {c}
  BY <1>3 DEF Kind, Leads, Follows, Voice
<1>6. Ordered(U, k)
  <2>1. ASSUME NEW s \in Slots(U) PROVE k.slot[s].mod \in (0 .. s) \cup {Zero}
    <3>1. ChannelOfSlot(s) \in Channels /\ s \in SlotsOf(ChannelOfSlot(s))
      BY SlotsIn
    <3>2. Chain2(ChannelOfSlot(s), 0)[s] \in (0 .. s) \cup {Zero}
      BY <3>1, Chains2
    <3> QED
      BY <1>4, <3>2
  <2> QED
    BY <2>1 DEF Ordered
<1>7. RoutesFit(U, k)
  <2>1. AlgsFit(U, k)
    BY <1>3 DEF AlgsFit
  <2>2. KindsFit(U, k)
    BY <1>3 DEF KindsFit
  <2>3. OwnAlgs(U, k)
    BY <1>3 DEF OwnAlgs, Bit
  <2> QED
    BY <1>6, <2>1, <2>2, <2>3 DEF RoutesFit
<1>8. Tuned(U, k)
  <2>1. ASSUME NEW c \in U, NEW s \in SlotsOf(c)
        PROVE  k.slot[s].eg_ksl = KeyScaleLevel(k.channel[c].f_num, k.channel[c].block)
    <3>1. s \in Slots(U)
      BY <2>1 DEF Slots
    <3> QED
      BY <1>3, <1>4, <3>1, ResetSilent
  <2> QED
    BY <2>1 DEF Tuned
<1>9. \A c \in U : Sound(k, c)
  <2>1. ASSUME NEW c \in U PROVE Sound2(k, c)
    <3>1. \A s \in SlotsOf(c) : s \in Slots(U) /\ ChannelOfSlot(s) = c
      <4>1. c \in Channels
        OBVIOUS
      <4> QED
        BY <4>1, SlotNumbers DEF SlotsOf, Slots
    <3> QED
      BY <1>3, <1>4, <3>1 DEF Sound2, Wired2, Bit
  <2> QED
    BY <1>5, <2>1 DEF Sound
<1>10. Settled(st) /\ OnePitch(st) /\ Released(U, st)
  BY <1>1, <1>5, <1>9 DEF Settled, OnePitch, SamePitch, Released
<1> QED
  BY <1>1, <1>3, <1>7, <1>8, <1>10 DEF History

LEMMA InitChip == ASSUME Init PROVE ChipInv
<1>1. program \in DOMAIN Programs /\ Used \in SUBSET Channels
  BY ProgramWrites DEF Init
<1>2. State.chip = ResetChip(Used) /\ State.settled = Used /\ State.tuned = Used /\ State.off = {}
  BY DEF Init, State, Used
<1>3. PICK st : st = State
  OBVIOUS
<1>4. History(Used, st)
  BY <1>1, <1>2, <1>3, ResetKeeps
<1> QED
  BY <1>1, <1>3, <1>4 DEF ChipInv

\* What each call makes of chip and history.
Wrote(new) == \E w \in Programs[program].writes : new = Made(State, w)
Passed(new) == \E clk : \/ new = Sampled(clk)
                        \/ \E w \in Programs[program].writes : new = Made(Sampled(clk), w)

LEMMA NextDoes ==
  ASSUME RingInv, TimeInv, OwnWrites, [Next]_vars
  PROVE  /\ program' = program
         /\ \E new : /\ Become(new)
                     /\ \/ new = State /\ (rushed => rushed')
                        \/ Wrote(new) /\ rushed'
                        \/ Passed(new) /\ ~rushed'
<1>1. CASE \E w \in Programs[program].writes : WriteRegNow(w)
  BY <1>1 DEF WriteRegNow, Wrote
<1>2. CASE \E w \in Programs[program].writes : WriteRegBuffered(w)
  <2>1. PICK w \in Programs[program].writes : WriteRegBuffered(w)
    BY <1>2
  <2>2. /\ Become(IF Oldest.valid THEN Made(State, Oldest.write) ELSE State)
        /\ rushed' = (rushed \/ Oldest.valid) /\ program' = program
    BY <2>1 DEF WriteRegBuffered
  <2>3. /\ writebuf_last \in Places
        /\ writebuf[writebuf_last].valid => Len(asked) = OPL_WRITEBUF_SIZE /\ writebuf_last = writebuf_cur
    BY LastPlace DEF RingInv
  <2>4. CASE Oldest.valid
    <3>1. Len(asked) = OPL_WRITEBUF_SIZE /\ writebuf_last = writebuf_cur
      BY <2>3, <2>4 DEF Oldest
    <3>2. 0 \in Places /\ 0 < Len(asked) /\ At(writebuf_cur, 0) = writebuf_cur
      BY <2>3, <3>1, RingAssumption, PlaceOf DEF Places
    <3>3. Oldest.write = asked[1]
      BY <3>1, <3>2 DEF RingInv, Fits, Oldest
    <3>4. asked[1] \in Programs[program].writes
      <4>1. 1 \in 1 .. Len(asked)
        BY <3>1, RingAssumption
      <4> QED
        BY <4>1 DEF OwnWrites
    <3>5. Become(Made(State, Oldest.write)) /\ rushed'
      BY <2>2, <2>4
    <3> QED
      BY <2>2, <3>3, <3>4, <3>5 DEF Wrote
  <2>5. CASE ~Oldest.valid
    <3>1. Become(State)
      BY <2>2, <2>5
    <3>2. rushed => rushed'
      BY <2>2, <2>5
    <3> QED
      BY <2>2, <3>1, <3>2
  <2> QED
    BY <2>4, <2>5
<1>3. CASE \E clk \in Programs[program].clocks : Generate(clk)
  <2>1. PICK clk \in Programs[program].clocks : Generate(clk)
    BY <1>3
  <2>2. program' = program /\ ~rushed'
    BY <2>1 DEF Generate
  <2>3. \/ Become(Sampled(clk))
        \/ \E w \in Programs[program].writes : Become(Made(Sampled(clk), w))
    BY <2>1, GenerateMakes
  <2> QED
    BY <2>2, <2>3 DEF Passed
<1>4. CASE UNCHANGED vars
  <2>1. Become(State)
    BY <1>4 DEF vars, ring, history, Become, State
  <2> QED
    BY <1>4, <2>1 DEF vars, ring, history
<1> QED
  BY <1>1, <1>2, <1>3, <1>4 DEF Next

\* The writes of a chip that is one: the chip stays one, nothing moves an envelope, and a
\* slot that is keyed anew had no key.
LEMMA NextChip ==
  ASSUME ChipInv, RingInv, TimeInv, OwnWrites, [Next]_vars
  PROVE  ChipInv'
<1>1. program \in DOMAIN Programs /\ Used \in SUBSET Channels /\ History(Used, State)
  BY ProgramWrites DEF ChipInv
<1>2. PICK U : U = Used
  OBVIOUS
<1>3. ASSUME NEW w \in Programs[program].writes, NEW st, History(U, st)
      PROVE  History(U, Made(st, w))
  <2>1. /\ w \in RegisterWrites(U) /\ (w.reg = "104" => PairsWhole(U))
        /\ (w.reg = "BD" => RhythmChannels \subseteq U) /\ U \in SUBSET Channels
    BY <1>1, <1>2, ProgramWrites
  <2> QED
    BY <1>3, <2>1, MadeKeeps
<1>4. PICK new : /\ Become(new)
                 /\ \/ new = State /\ (rushed => rushed')
                    \/ Wrote(new) /\ rushed'
                    \/ Passed(new) /\ ~rushed'
  BY NextDoes
<1>5. History(U, new)
  <2>1. CASE new = State
    BY <1>1, <1>2, <2>1
  <2>2. CASE Wrote(new)
    BY <1>1, <1>2, <1>3, <2>2 DEF Wrote
  <2>3. CASE Passed(new)
    <3>1. PICK clk : \/ new = Sampled(clk)
                     \/ \E w \in Programs[program].writes : new = Made(Sampled(clk), w)
      BY <2>3 DEF Passed
    <3>2. History(U, Sampled(clk))
      BY <1>1, <1>2, SampledKeeps
    <3> QED
      BY <1>3, <3>1, <3>2
  <2> QED
    BY <1>4, <2>1, <2>2, <2>3
<1>6. /\ chip' = new.chip /\ settled' = new.settled /\ tuned' = new.tuned /\ off' = new.off
  BY <1>4 DEF Become
<1>7. PICK st : st = State'
  OBVIOUS
<1>8. st.chip = new.chip /\ st.settled = new.settled /\ st.tuned = new.tuned /\ st.off = new.off
  BY <1>6, <1>7 DEF State
<1>9. History(U, st)
  <2>1. Settled(st) /\ OnePitch(st) /\ Released(U, st)
    BY <1>5, <1>8 DEF History, Settled, OnePitch, Released
  <2> QED
    BY <1>5, <1>8, <2>1 DEF History
<1>10. program' = program /\ Used' = U
  BY <1>2, NextDoes DEF Used
<1>11. History(Used, State)'
  BY <1>7, <1>9, <1>10 DEF History, Settled, OnePitch, Released
<1> QED
  BY <1>1, <1>10, <1>11 DEF ChipInv

\* Between samples a slot that was keyed anew is in the release.
Starts(st) == \A s \in st.due : s \in Slots(Used) /\ st.chip.slot[s].eg_gen = "release"
StartInv == ~rushed => Starts(State)

LEMMA NextStart ==
  ASSUME ChipInv, StartInv, RingInv, TimeInv, OwnWrites, [Next]_vars
  PROVE  StartInv'
<1>1. program \in DOMAIN Programs /\ Used \in SUBSET Channels /\ History(Used, State)
  BY ProgramWrites DEF ChipInv
<1>2. PICK U : U = Used
  OBVIOUS
<1>3. PICK new : /\ Become(new)
                 /\ \/ new = State /\ (rushed => rushed')
                    \/ Wrote(new) /\ rushed'
                    \/ Passed(new) /\ ~rushed'
  BY NextDoes
<1>4. ASSUME ~rushed' PROVE \A s \in new.due : s \in Slots(U) /\ new.chip.slot[s].eg_gen = "release"
  <2>1. CASE new = State /\ (rushed => rushed')
    BY <1>2, <1>4, <2>1 DEF StartInv, Starts
  <2>2. CASE Passed(new)
    <3>1. PICK clk : \/ new = Sampled(clk)
                     \/ \E w \in Programs[program].writes : new = Made(Sampled(clk), w)
      BY <2>2 DEF Passed
    <3>2. PICK st : st = Sampled(clk)
      OBVIOUS
    <3>3. History(U, st) /\ st.due = {} /\ \A s \in Slots(U) : SlotMoves(chip.slot[s], st.chip.slot[s])
      BY <1>1, <1>2, <3>2, SampledKeeps
    <3>4. CASE new = st
      BY <3>3, <3>4
    <3>5. CASE \E w \in Programs[program].writes : new = Made(st, w)
      <4>1. PICK w \in Programs[program].writes : new = Made(st, w)
        BY <3>5
      <4>2. /\ w \in RegisterWrites(U) /\ (w.reg = "104" => PairsWhole(U))
            /\ (w.reg = "BD" => RhythmChannels \subseteq U) /\ U \in SUBSET Channels
        BY <1>1, <1>2, ProgramWrites
      <4>3. /\ LevelsKept(U, st.chip, new.chip)
            /\ \A s \in Keyed(st.chip, new.chip) : s \in Slots(U) /\ st.chip.slot[s].key = {}
        BY <3>3, <4>1, <4>2, MadeKeeps
      <4>4. new.due = Keyed(st.chip, new.chip)
        BY <3>3, <4>1 DEF Made
      <4>5. \A s \in Slots(U) : st.chip.slot[s].key = {} => st.chip.slot[s].eg_gen = "release"
        BY <3>3 DEF SlotMoves
      <4> QED
        BY <4>3, <4>4, <4>5 DEF LevelsKept
    <3> QED
      BY <3>1, <3>2, <3>4, <3>5
  <2> QED
    BY <1>3, <1>4, <2>1, <2>2
<1>5. chip' = new.chip /\ due' = new.due
  BY <1>3 DEF Become
<1>6. program' = program /\ Used' = U
  BY <1>2, NextDoes DEF Used
<1> QED
  BY <1>4, <1>5, <1>6 DEF StartInv, Starts, State

\* Everything a run's steps keep.
Inv == RingInv /\ TimeInv /\ OwnWrites /\ ChipInv /\ StartInv

LEMMA InitOwn == ASSUME Init PROVE OwnWrites
BY DEF Init, OwnWrites
LEMMA InitStart == ASSUME Init PROVE StartInv
BY DEF Init, StartInv, Starts, State

LEMMA ChipHolds == Spec => []Inv
<1>1. Init => Inv
  BY InitRing, InitTime, InitOwn, InitChip, InitStart DEF Inv
<1>2. Inv /\ [Next]_vars => Inv'
  BY NextRing, NextTime, NextOwn, NextChip, NextStart DEF Inv
<1> QED
  BY <1>1, <1>2, PTL DEF Spec

LEMMA InvStates ==
  ASSUME Inv
  PROVE  /\ Used \in SUBSET Channels /\ History(Used, State) /\ State.chip = chip /\ chip \in Chips(Used)
         /\ DOMAIN chip.channel = Used /\ DOMAIN chip.slot = Slots(Used)
<1>1. Used \in SUBSET Channels /\ History(Used, State) /\ State.chip = chip
  BY ProgramWrites DEF Inv, ChipInv, State
<1> QED
  BY <1>1 DEF History, Chips

\* Whatever a program writes and however fast, a note that is keyed anew starts anew
\* unless the ring overflowed: no sample makes two writes, and every operator without a
\* key goes to the release before the one a sample makes (OPL3_Generate, OPL3_EnvelopeCalc).
THEOREM NotesStart == Spec => []EveryNoteStarts
<1>1. Inv => EveryNoteStarts
  BY DEF Inv, StartInv, Starts, State, EveryNoteStarts
<1> QED
  BY <1>1, ChipHolds, PTL

LEMMA LevelStep ==
  ASSUME Inv, [Next]_vars
  PROVE  \A s \in DOMAIN chip.slot : LevelMoves(chip.slot[s], chip'.slot[s])
<1>1. PICK U : U = Used
  OBVIOUS
<1>2. /\ U \in SUBSET Channels /\ History(U, State) /\ State.chip = chip /\ DOMAIN chip.slot = Slots(U)
      /\ chip \in Chips(U) /\ program \in DOMAIN Programs
  BY <1>1, InvStates DEF Inv, ChipInv
<1>3. PICK new : /\ Become(new)
                 /\ \/ new = State
                    \/ Wrote(new)
                    \/ Passed(new)
  BY NextDoes DEF Inv
<1>4. \A s \in Slots(U) : chip.slot[s].eg_rout \in 0 .. 511
  BY <1>2 DEF Chips, SlotStates, SILENT
<1>5. \A s \in Slots(U) : LevelMoves(chip.slot[s], chip.slot[s])
  <2>1. \A s \in Slots(U) : ~(chip.slot[s].eg_rout < chip.slot[s].eg_rout) /\ ~(chip.slot[s].eg_rout > chip.slot[s].eg_rout)
    <3>1. ASSUME NEW s \in Slots(U), NEW r, r = chip.slot[s].eg_rout PROVE ~(r < r) /\ ~(r > r)
      <4>1. r \in 0 .. 511
        BY <1>4, <3>1
      <4> QED
        BY ONLY <4>1
    <3> QED
      BY <3>1
  <2> QED
    BY <2>1 DEF LevelMoves
<1>6. ASSUME NEW w \in Programs[program].writes, NEW st, History(U, st)
      PROVE  LevelsKept(U, st.chip, Made(st, w).chip)
  <2>1. /\ w \in RegisterWrites(U) /\ (w.reg = "104" => PairsWhole(U))
        /\ (w.reg = "BD" => RhythmChannels \subseteq U) /\ U \in SUBSET Channels
    BY <1>1, <1>2, ProgramWrites
  <2> QED
    BY <1>6, <2>1, MadeKeeps
<1>7. ASSUME NEW k, NEW x, LevelsKept(U, k, x), \A s \in Slots(U) : LevelMoves(chip.slot[s], k.slot[s])
      PROVE  \A s \in Slots(U) : LevelMoves(chip.slot[s], x.slot[s])
  BY <1>7 DEF LevelsKept, LevelMoves
<1>8. \A s \in Slots(U) : LevelMoves(chip.slot[s], new.chip.slot[s])
  <2>1. CASE new = State
    BY <1>2, <1>5, <2>1
  <2>2. CASE Wrote(new)
    <3>1. PICK w \in Programs[program].writes : new = Made(State, w)
      BY <2>2 DEF Wrote
    <3>2. LevelsKept(U, State.chip, new.chip)
      BY <1>2, <1>6, <3>1
    <3> QED
      BY <1>2, <1>5, <1>7, <3>2
  <2>3. CASE Passed(new)
    <3>1. PICK clk : \/ new = Sampled(clk)
                     \/ \E w \in Programs[program].writes : new = Made(Sampled(clk), w)
      BY <2>3 DEF Passed
    <3>2. PICK st : st = Sampled(clk)
      OBVIOUS
    <3>3. History(U, st) /\ \A s \in Slots(U) : SlotMoves(chip.slot[s], st.chip.slot[s])
      BY <1>2, <3>2, SampledKeeps
    <3>4. \A s \in Slots(U) : LevelMoves(chip.slot[s], st.chip.slot[s])
      BY <3>3 DEF SlotMoves
    <3>5. CASE new = st
      BY <3>4, <3>5
    <3>6. CASE \E w \in Programs[program].writes : new = Made(st, w)
      <4>1. LevelsKept(U, st.chip, new.chip)
        BY <1>6, <3>3, <3>6
      <4> QED
        BY <1>7, <3>4, <4>1
    <3> QED
      BY <3>1, <3>2, <3>5, <3>6
  <2> QED
    BY <1>3, <2>1, <2>2, <2>3
<1> QED
  BY <1>2, <1>3, <1>8 DEF Become

\* Whatever the registers hold, an operator gets louder in the attack of a held key only
\* and fainter in none, and its level never runs over its nine bits (OPL3_EnvelopeCalc).
THEOREM LevelsDirected == Spec => LevelKeepsDirection
<1> DEFINE Directed == \A s \in DOMAIN chip.slot :
              LET old == chip.slot[s]  new == chip'.slot[s]
              IN /\ new.eg_rout < old.eg_rout => old.eg_gen = "attack" \/ Restarts(old)
                 /\ new.eg_rout < old.eg_rout => old.key # {}
                 /\ new.eg_rout > old.eg_rout => old.eg_gen # "attack"
<1>1. Inv /\ [Next]_vars => [Directed]_chip
  BY LevelStep DEF LevelMoves
<1>2. Spec => [][Directed]_chip
  BY <1>1, ChipHolds, PTL DEF Spec
<1> QED
  BY <1>2 DEF LevelKeepsDirection

LEMMA NothingHeld == ASSUME Inv PROVE NoNoteHangs
<1>1. PICK U : U = Used
  OBVIOUS
<1>2. /\ U \in SUBSET Channels /\ Released(U, State) /\ KindsFit(U, chip)
      /\ State.chip = chip /\ DOMAIN chip.channel = U /\ DOMAIN chip.slot = Slots(U)
  BY <1>1, InvStates DEF History, RoutesFit
<1>3. ASSUME off = U, NEW s \in Slots(U) PROVE "norm" \notin chip.slot[s].key
  <2>1. PICK c \in U : s \in SlotsOf(c)
    BY <1>2, SlotsIn
  <2>2. CASE Follows(chip, c)
    <3>1. pair(c) \in U /\ pair(pair(c)) = c /\ Leads(chip, pair(c)) /\ ~Follows(chip, pair(c))
      BY <1>2, <2>2, KindsAre
    <3>2. s \in Reached(chip, pair(c))
      BY <2>1, <3>1 DEF Reached
    <3> QED
      BY <1>2, <1>3, <3>1, <3>2 DEF Released, State
  <2>3. CASE ~Follows(chip, c)
    <3>1. s \in Reached(chip, c)
      BY <2>1, <2>3 DEF Reached
    <3> QED
      BY <1>2, <1>3, <3>1 DEF Released, State
  <2> QED
    BY <2>2, <2>3
<1> QED
  BY <1>2, <1>3 DEF NoNoteHangs

\* Whatever was joined or parted while notes were held, no operator is held once every
\* channel's key was taken off since (OPL3_ChannelKeyOff, OPL3_ChannelSet4Op, newm).
THEOREM NotesReleased == Spec => []NoNoteHangs
<1>1. Inv => NoNoteHangs
  BY NothingHeld
<1> QED
  BY <1>1, ChipHolds, PTL

LEMMA PitchFits == ASSUME Inv PROVE PitchCurrent
<1>1. PICK U : U = Used
  OBVIOUS
<1>2. /\ Tuned(U, chip) /\ OnePitch(State) /\ State.chip = chip /\ State.tuned = tuned /\ DOMAIN chip.channel = U
  BY <1>1, InvStates DEF History, State
<1> QED
  BY <1>2 DEF PitchCurrent, Tuned, OnePitch, SamePitch

\* Whatever is written in whatever order, the cached share of the frequency in every
\* operator's level is that of its channel's present pitch, and a voice of two channels
\* keyed since they were joined has one pitch (OPL3_EnvelopeUpdateKSL, OPL3_ChannelWriteA0,
\* OPL3_ChannelWriteB0, OPL3_SlotWrite40).
THEOREM PitchFollows == Spec => []PitchCurrent
<1>1. Inv => PitchCurrent
  BY PitchFits
<1> QED
  BY <1>1, ChipHolds, PTL

(***************************************************************************)
(* Voices                                                                  *)
(***************************************************************************)
\* The equation that the fold over the channels of a voice chooses a function by.
Mixing(V, it) ==
  it = [x \in SUBSET V |-> IF x = {} THEN <<>>
                           ELSE it[x \ {CHOOSE d \in x : TRUE}] \o chip.channel[CHOOSE d \in x : TRUE].out]

LEMMA MixedIs == ASSUME NEW c PROVE Mixed(c) = (CHOOSE it : Mixing(Voice(chip, c), it))[Voice(chip, c)]
BY Zenon DEF Mixed, FoldSet, MapThenFoldSet, Mixing

LEMMA EmptyMixed ==
  ASSUME NEW q \in Outs PROVE <<>> \o q = q /\ q \o <<>> = q
BY DEF Outs

\* Only one channel of a voice is heard.
LEMMA MixedOne ==
  ASSUME NEW c, NEW p, NEW e, Voice(chip, c) = {p, e}, NEW q \in Outs, chip.channel[e].out = q,
         p # e => chip.channel[p].out = <<>>
  PROVE  Mixed(c) = q
<1> DEFINE V == {p, e}
           f == [x \in SUBSET V |-> IF e \in x THEN q ELSE <<>>]
           g == CHOOSE it : Mixing(V, it)
           chosen(x) == CHOOSE d \in x : TRUE
<1>1. \A x \in SUBSET V : x # {} => chosen(x) \in x
  OBVIOUS
<1> HIDE DEF chosen
<1>2. <<>> \in Outs /\ <<>> \o q = q /\ q \o <<>> = q /\ <<>> \o <<>> = <<>>
  <2>1. <<>> \in Outs
    BY DEF Outs
  <2> QED
    BY <2>1, EmptyMixed
<1>3. \A x \in SUBSET V : x # {} => (f[x \ {chosen(x)}] \o chip.channel[chosen(x)].out) = f[x]
  <2> SUFFICES ASSUME NEW x \in SUBSET V, x # {}, NEW d, d = chosen(x)
               PROVE  (f[x \ {d}] \o chip.channel[d].out) = f[x]
    OBVIOUS
  <2>1. d \in x /\ d \in V /\ x \ {d} \in SUBSET V
    BY <1>1
  <2>2. CASE d = e
    <3>1. f[x \ {d}] = <<>> /\ f[x] = q /\ chip.channel[d].out = q
      BY <2>1, <2>2
    <3> QED
      BY <1>2, <3>1
  <2>3. CASE d # e
    <3>1. chip.channel[d].out = <<>> /\ f[x \ {d}] = f[x] /\ f[x] \in {q, <<>>}
      BY <2>1, <2>3
    <3> QED
      BY <1>2, <3>1
  <2> QED
    BY <2>2, <2>3
<1>4. Mixing(V, f)
  <2>1. \A x \in SUBSET V : f[x] = IF x = {} THEN <<>> ELSE f[x \ {chosen(x)}] \o chip.channel[chosen(x)].out
    BY <1>3
  <2>2. f = [x \in SUBSET V |-> f[x]]
    OBVIOUS
  <2> HIDE DEF f, V
  <2> QED
    BY <2>1, <2>2 DEF Mixing, chosen
<1>5. Mixing(V, g)
  BY <1>4, Zenon
<1> HIDE DEF g
<1>6. \A x \in SUBSET V : g[x] = IF x = {} THEN <<>> ELSE g[x \ {chosen(x)}] \o chip.channel[chosen(x)].out
  BY <1>5 DEF Mixing, chosen
<1>7. g[{}] = <<>>
  BY <1>6
<1>8. \A d \in V : g[{d}] = <<>> \o chip.channel[d].out
  <2>1. ASSUME NEW d \in V PROVE g[{d}] = <<>> \o chip.channel[d].out
    <3>1. {d} \in SUBSET V /\ {d} # {} /\ chosen({d}) = d /\ {d} \ {d} = {}
      <4>1. {d} \in SUBSET V /\ {d} # {} /\ {d} \ {d} = {}
        OBVIOUS
      <4>2. chosen({d}) \in {d}
        BY <1>1, <4>1
      <4> QED
        BY <4>1, <4>2
    <3> QED
      BY <1>6, <1>7, <3>1
  <2> QED
    BY <2>1
<1>9. g[{e}] = q
  BY <1>2, <1>8
<1>10. p # e => g[{p}] = <<>>
  BY <1>2, <1>8
<1>11. g[V] = q
  <2>1. CASE p = e
    BY <1>9, <2>1
  <2>2. CASE p # e
    <3>1. g[V] = g[V \ {chosen(V)}] \o chip.channel[chosen(V)].out /\ chosen(V) \in {p, e}
      BY <1>1, <1>6
    <3>2. CASE chosen(V) = e
      <4>1. V \ {chosen(V)} = {p}
        BY <2>2, <3>2
      <4> QED
        BY <1>2, <1>10, <2>2, <3>1, <3>2, <4>1
    <3>3. CASE chosen(V) = p
      <4>1. V \ {chosen(V)} = {e}
        BY <2>2, <3>3
      <4> QED
        BY <1>2, <1>9, <2>2, <3>1, <3>3, <4>1
    <3> QED
      BY <3>1, <3>2, <3>3
  <2> QED
    BY <2>1, <2>2
<1> QED
  BY <1>11, MixedIs DEF g

\* Of the operators S of chip k those in q are mixed: each is mixed or modulates another.
Feeds(S, k, s) == \E t \in S \ {s} : k.slot[t].mod = s
WholeMix(S, k, q, n) ==
  /\ \A s \in S : s \in Range(q) <=> ~Feeds(S, k, s)
  /\ Range(q) \subseteq S
  /\ IsInjective(q)
  /\ Len(q) = 1 + n

LEMMA Mixes ==
  ASSUME NEW a, NEW b
  PROVE  /\ Range(<<a>>) = {a} /\ Len(<<a>>) = 1 /\ IsInjective(<<a>>)
         /\ Range(<<a, b>>) = {a, b} /\ Len(<<a, b>>) = 2 /\ (a # b => IsInjective(<<a, b>>))
<1>1. Range(<<a>>) = {a} /\ Len(<<a>>) = 1 /\ IsInjective(<<a>>)
  BY DEF Range, IsInjective
<1>2. Range(<<a, b>>) = {a, b} /\ Len(<<a, b>>) = 2 /\ (a # b => IsInjective(<<a, b>>))
  <2>1. DOMAIN <<a, b>> = {1, 2} /\ <<a, b>>[1] = a /\ <<a, b>>[2] = b
    OBVIOUS
  <2> QED
    BY <2>1 DEF Range, IsInjective
<1> QED
  BY <1>1, <1>2

LEMMA MixesThree ==
  ASSUME NEW a, NEW b, NEW c, a # b, a # c, b # c, NEW q, q = <<a, b, c>>
  PROVE  Range(q) = {a, b, c} /\ Len(q) = 3 /\ IsInjective(q)
<1>1. DOMAIN q = {1, 2, 3} /\ q[1] = a /\ q[2] = b /\ q[3] = c
  OBVIOUS
<1> QED
  BY <1>1 DEF Range, IsInjective

LEMMA MixOf2 ==
  ASSUME NEW k, NEW a \in 0 .. 35, NEW b \in 0 .. 35, a # b, NEW n, NEW q,
         k.slot[a].mod = a,
         \/ n = 0 /\ q = <<b>> /\ k.slot[b].mod = a
         \/ n = 1 /\ q = <<a, b>> /\ k.slot[b].mod = Zero
  PROVE  WholeMix({a, b}, k, q, n)
<1>1. Zero # a /\ Zero # b
  BY DEF Zero
<1>2. CASE n = 0 /\ q = <<b>> /\ k.slot[b].mod = a
  <2>1. Range(q) = {b} /\ Len(q) = 1 /\ IsInjective(q)
    BY <1>2, Mixes
  <2>2. Feeds({a, b}, k, a) /\ ~Feeds({a, b}, k, b)
    BY <1>1, <1>2 DEF Feeds
  <2> QED
    BY <1>2, <2>1, <2>2 DEF WholeMix
<1>3. CASE n = 1 /\ q = <<a, b>> /\ k.slot[b].mod = Zero
  <2>1. Range(q) = {a, b} /\ Len(q) = 2 /\ IsInjective(q)
    BY <1>3, Mixes
  <2>2. ~Feeds({a, b}, k, a) /\ ~Feeds({a, b}, k, b)
    BY <1>1, <1>3 DEF Feeds
  <2> QED
    BY <1>3, <2>1, <2>2 DEF WholeMix
<1> QED
  BY <1>2, <1>3

LEMMA MixOf4 ==
  ASSUME NEW k, NEW a \in 0 .. 35, NEW b \in 0 .. 35, NEW c \in 0 .. 35, NEW d \in 0 .. 35,
         a # b, a # c, a # d, b # c, b # d, c # d, NEW n, NEW q,
         k.slot[a].mod = a,
         \/ n = 0 /\ q = <<d>> /\ k.slot[b].mod = a /\ k.slot[c].mod = b /\ k.slot[d].mod = c
         \/ n = 1 /\ q = <<b, d>> /\ k.slot[b].mod = a /\ k.slot[c].mod = Zero /\ k.slot[d].mod = c
         \/ n = 1 /\ q = <<a, d>> /\ k.slot[b].mod = Zero /\ k.slot[c].mod = b /\ k.slot[d].mod = c
         \/ n = 2 /\ q = <<a, c, d>> /\ k.slot[b].mod = Zero /\ k.slot[c].mod = b /\ k.slot[d].mod = Zero
  PROVE  WholeMix({a, b, c, d}, k, q, n)
<1>1. Zero # a /\ Zero # b /\ Zero # c /\ Zero # d
  BY DEF Zero
<1>2. CASE n = 0 /\ q = <<d>> /\ k.slot[b].mod = a /\ k.slot[c].mod = b /\ k.slot[d].mod = c
  <2>1. Range(q) = {d} /\ Len(q) = 1 /\ IsInjective(q)
    BY <1>2, Mixes
  <2>2. /\ Feeds({a, b, c, d}, k, a) /\ Feeds({a, b, c, d}, k, b)
        /\ Feeds({a, b, c, d}, k, c) /\ ~Feeds({a, b, c, d}, k, d)
    BY <1>1, <1>2 DEF Feeds
  <2> QED
    BY <1>2, <2>1, <2>2 DEF WholeMix
<1>3. CASE n = 1 /\ q = <<b, d>> /\ k.slot[b].mod = a /\ k.slot[c].mod = Zero /\ k.slot[d].mod = c
  <2>1. Range(q) = {b, d} /\ Len(q) = 2 /\ IsInjective(q)
    BY <1>3, Mixes
  <2>2. /\ Feeds({a, b, c, d}, k, a) /\ ~Feeds({a, b, c, d}, k, b)
        /\ Feeds({a, b, c, d}, k, c) /\ ~Feeds({a, b, c, d}, k, d)
    BY <1>1, <1>3 DEF Feeds
  <2> QED
    BY <1>3, <2>1, <2>2 DEF WholeMix
<1>4. CASE n = 1 /\ q = <<a, d>> /\ k.slot[b].mod = Zero /\ k.slot[c].mod = b /\ k.slot[d].mod = c
  <2>1. Range(q) = {a, d} /\ Len(q) = 2 /\ IsInjective(q)
    BY <1>4, Mixes
  <2>2. /\ ~Feeds({a, b, c, d}, k, a) /\ Feeds({a, b, c, d}, k, b)
        /\ Feeds({a, b, c, d}, k, c) /\ ~Feeds({a, b, c, d}, k, d)
    BY <1>1, <1>4 DEF Feeds
  <2> QED
    BY <1>4, <2>1, <2>2 DEF WholeMix
<1>5. CASE n = 2 /\ q = <<a, c, d>> /\ k.slot[b].mod = Zero /\ k.slot[c].mod = b /\ k.slot[d].mod = Zero
  <2>1. Range(q) = {a, c, d} /\ Len(q) = 3 /\ IsInjective(q)
    BY <1>5, MixesThree
  <2>2. /\ ~Feeds({a, b, c, d}, k, a) /\ Feeds({a, b, c, d}, k, b)
        /\ ~Feeds({a, b, c, d}, k, c) /\ ~Feeds({a, b, c, d}, k, d)
    BY <1>1, <1>5 DEF Feeds
  <2> QED
    BY <1>5, <2>1, <2>2 DEF WholeMix
<1> QED
  BY <1>2, <1>3, <1>4, <1>5

LEMMA Few ==
  /\ Cardinality({}) = 0 /\ (\A x : Cardinality({x}) = 1)
  /\ \A x, y : x # y => Cardinality({x, y}) = 2
<1>1. ASSUME NEW x, NEW y, x # y PROVE Cardinality({x, y}) = 2
  <2>1. IsFiniteSet({x}) /\ Cardinality({x}) = 1 /\ y \notin {x}
    BY <1>1, FS_Singleton
  <2>2. Cardinality({x} \cup {y}) = 1 + 1
    BY <2>1, FS_AddElement
  <2>3. {x} \cup {y} = {x, y}
    OBVIOUS
  <2> QED
    BY <2>2, <2>3
<1> QED
  BY <1>1, FS_EmptySet, FS_Singleton

LEMMA HowManyOne ==
  ASSUME NEW k, NEW a, k.channel[a].con \in BOOLEAN, NEW set, set = {d \in {a} : k.channel[d].con}
  PROVE  Cardinality(set) = Bit(k.channel[a].con)
<1>1. CASE k.channel[a].con
  <2>1. set = {a}
    BY <1>1
  <2> QED
    BY Few, <1>1, <2>1 DEF Bit
<1>2. CASE ~k.channel[a].con
  <2>1. set = {}
    BY <1>2
  <2> QED
    BY Few, <1>2, <2>1 DEF Bit
<1> QED
  BY <1>1, <1>2

LEMMA HowManyTwo ==
  ASSUME NEW k, NEW a, NEW b, a # b, k.channel[a].con \in BOOLEAN, k.channel[b].con \in BOOLEAN,
         NEW set, set = {d \in {a, b} : k.channel[d].con}
  PROVE  Cardinality(set) = Bit(k.channel[a].con) + Bit(k.channel[b].con)
<1>1. CASE k.channel[a].con /\ k.channel[b].con
  <2>1. set = {a, b} /\ Bit(k.channel[a].con) = 1 /\ Bit(k.channel[b].con) = 1
    BY <1>1 DEF Bit
  <2>2. Cardinality(set) = 2
    <3>1. Cardinality({a, b}) = 2
      BY Few
    <3> QED
      BY <2>1, <3>1
  <2>3. Cardinality(set) = Bit(k.channel[a].con) + Bit(k.channel[b].con)
    BY <2>1, <2>2
  <2> QED
    BY <2>3
<1>2. CASE k.channel[a].con /\ ~k.channel[b].con
  <2>1. set = {a} /\ Bit(k.channel[a].con) = 1 /\ Bit(k.channel[b].con) = 0
    BY <1>2 DEF Bit
  <2>2. Cardinality(set) = 1
    BY Few, <2>1
  <2>3. Cardinality(set) = Bit(k.channel[a].con) + Bit(k.channel[b].con)
    BY <2>1, <2>2
  <2> QED
    BY <2>3
<1>3. CASE ~k.channel[a].con /\ k.channel[b].con
  <2>1. set = {b} /\ Bit(k.channel[a].con) = 0 /\ Bit(k.channel[b].con) = 1
    BY <1>3 DEF Bit
  <2>2. Cardinality(set) = 1
    BY Few, <2>1
  <2>3. Cardinality(set) = Bit(k.channel[a].con) + Bit(k.channel[b].con)
    BY <2>1, <2>2
  <2> QED
    BY <2>3
<1>4. CASE ~k.channel[a].con /\ ~k.channel[b].con
  <2>1. set = {} /\ Bit(k.channel[a].con) = 0 /\ Bit(k.channel[b].con) = 0
    BY <1>4 DEF Bit
  <2>2. Cardinality(set) = 0
    BY Few, <2>1
  <2>3. Cardinality(set) = Bit(k.channel[a].con) + Bit(k.channel[b].con)
    BY <2>1, <2>2
  <2> QED
    BY <2>3
<1> QED
  BY <1>1, <1>2, <1>3, <1>4

LEMMA WholeBy ==
  ASSUME NEW c, NEW S, S = VoiceSlots(c), NEW q, q = Mixed(c),
         NEW n, n = Cardinality({d \in Voice(chip, c) : chip.channel[d].con}), WholeMix(S, chip, q, n)
  PROVE  Whole(c)
<1>1. \A s \in S : Modulates(c, s) <=> Feeds(S, chip, s)
  BY DEF Modulates, Feeds
<1>2. \A s \in S : (s \in Range(q)) # Modulates(c, s)
  <2>1. ASSUME NEW s \in S PROVE (s \in Range(q)) # Modulates(c, s)
    <3>1. s \in Range(q) <=> ~Modulates(c, s)
      BY <1>1 DEF WholeMix
    <3>2. Modulates(c, s) \in BOOLEAN
      BY DEF Modulates
    <3> QED
      BY <3>1, <3>2
  <2> QED
    BY <2>1
<1> QED
  BY <1>2 DEF Whole, WholeMix

LEMMA TwoWhole ==
  ASSUME NEW U \in SUBSET Channels, chip \in Chips(U), NEW c \in U, Voice(chip, c) = {c},
         Sound2(chip, c), chip.channel[c].chtype # "drum"
  PROVE  Whole(c)
<1>1. PICK a \in 0 .. 35, b \in 0 .. 35 : a = S0(c) /\ b = S1(c) /\ a # b
  BY SlotNumbers
<1>2. PICK n \in {0, 1} : n = Bit(chip.channel[c].con) /\ n = chip.channel[c].alg
  BY DEF Sound2, Bit
<1>3. chip.channel[c].con \in BOOLEAN
  BY DEF Chips, ChannelStates
<1>4. chip.channel[c].out = Heard2(c, n) /\ \A s \in {a, b} : chip.slot[s].mod = Chain2(c, n)[s]
  BY <1>1, <1>2 DEF Sound2, Wired2, SlotsOf
<1>5. PICK q : q = Heard2(c, n)
  OBVIOUS
<1>6. q \in Outs
  <2>1. n \in 0 .. 8 /\ c \in Channels
    BY <1>2
  <2> QED
    BY <1>5, <2>1, Chains2
<1>7. Mixed(c) = q
  <2>1. Voice(chip, c) = {c, c} /\ chip.channel[c].out = q
    BY <1>4, <1>5
  <2> QED
    BY <1>6, <2>1, MixedOne
<1>8. chip.slot[a].mod = a /\ chip.slot[b].mod = IF n = 1 THEN Zero ELSE a
  <2>1. Chain2(c, n)[a] = a /\ Chain2(c, n)[b] = IF n % 2 = 1 THEN Zero ELSE a
    BY <1>1 DEF Chain2, SlotsOf
  <2> QED
    BY <1>2, <1>4, <2>1
<1>9. q = IF n = 0 THEN <<b>> ELSE <<a, b>>
  BY <1>1, <1>2, <1>5 DEF Heard2
<1>10. WholeMix({a, b}, chip, q, n)
  <2>1. \/ n = 0 /\ q = <<b>> /\ chip.slot[b].mod = a
        \/ n = 1 /\ q = <<a, b>> /\ chip.slot[b].mod = Zero
    BY <1>2, <1>8, <1>9
  <2> QED
    BY <1>1, <1>8, <2>1, MixOf2
<1>11. VoiceSlots(c) = {a, b}
  BY <1>1 DEF VoiceSlots, SlotsOf
<1>12. n = Cardinality({d \in Voice(chip, c) : chip.channel[d].con})
  <2>1. Cardinality({d \in {c} : chip.channel[d].con}) = Bit(chip.channel[c].con)
    BY <1>3, HowManyOne
  <2> QED
    BY <1>2, <2>1
<1> QED
  BY <1>7, <1>10, <1>11, <1>12, WholeBy

LEMMA FourWhole ==
  ASSUME NEW U \in SUBSET Channels, chip \in Chips(U), NEW p, First(U, p), NEW q, q = pair(p),
         NEW c, Voice(chip, c) = {p, q}, Sound4(chip, p, q)
  PROVE  Whole(c)
<1>1. p \in U /\ q \in U /\ p # q /\ HasPair(p) /\ p % 9 < 3
  BY PairOf DEF First
<1>2. PICK s1 \in 0 .. 35, s2 \in 0 .. 35, s3 \in 0 .. 35, s4 \in 0 .. 35 :
        s1 = S0(p) /\ s2 = S1(p) /\ s3 = S0(q) /\ s4 = S1(q)
  BY <1>1, SlotNumbers
<1>3. s1 # s2 /\ s3 # s4 /\ s1 # s3 /\ s1 # s4 /\ s2 # s3 /\ s2 # s4
  <2>1. s1 # s2 /\ s3 # s4
    BY <1>1, <1>2, SlotNumbers
  <2>2. SlotsOf(p) \cap SlotsOf(q) = {} /\ SlotsOf(p) = {s1, s2} /\ SlotsOf(q) = {s3, s4}
    BY <1>1, <1>2, SlotsApart DEF SlotsOf
  <2> QED
    BY <2>1, <2>2
<1>4. PICK bp \in {0, 1}, bq \in {0, 1} : bp = Bit(chip.channel[p].con) /\ bq = Bit(chip.channel[q].con)
  BY DEF Bit
<1>5. PICK alg \in 4 .. 7 : alg = 4 + 2 * bp + bq
  BY <1>4
<1>6. /\ chip.channel[q].alg = alg /\ chip.channel[p].out = <<>> /\ chip.channel[q].out = Heard4(p, q, alg)
      /\ \A s \in {s1, s2, s3, s4} : chip.slot[s].mod = Chain4(p, q, alg)[s]
  <2>1. chip.channel[q].alg = alg /\ Wired4(chip, p, q)
    BY <1>4, <1>5 DEF Sound4
  <2>2. SlotsOf(p) \cup SlotsOf(q) = {s1, s2, s3, s4}
    BY <1>2 DEF SlotsOf
  <2> QED
    BY <2>1, <2>2 DEF Wired4
<1>7. PICK out : out = Heard4(p, q, alg)
  OBVIOUS
<1>8. /\ out \in Outs
      /\ chip.slot[s1].mod = s1
      /\ chip.slot[s2].mod = IF alg % 4 < 2 THEN s1 ELSE Zero
      /\ chip.slot[s3].mod = IF alg % 4 = 1 THEN Zero ELSE s2
      /\ chip.slot[s4].mod = IF alg % 4 = 3 THEN Zero ELSE s3
  <2>1. alg \in 0 .. 8 /\ p \in Channels
    BY <1>1
  <2>2. /\ Heard4(p, q, alg) \in Outs
        /\ Chain4(p, q, alg)[S0(p)] = S0(p)
        /\ Chain4(p, q, alg)[S1(p)] = IF alg % 4 < 2 THEN S0(p) ELSE Zero
        /\ Chain4(p, q, alg)[S0(q)] = IF alg % 4 = 1 THEN Zero ELSE S1(p)
        /\ Chain4(p, q, alg)[S1(q)] = IF alg % 4 = 3 THEN Zero ELSE S0(q)
    BY <1>1, <2>1, Chains4
  <2> QED
    BY <1>2, <1>6, <1>7, <2>2
<1>9. Mixed(c) = out
  <2>1. Voice(chip, c) = {p, q} /\ out \in Outs /\ chip.channel[q].out = out /\ (p # q => chip.channel[p].out = <<>>)
    BY <1>6, <1>7, <1>8
  <2> QED
    BY ONLY <2>1, MixedOne
<1>10. WholeMix({s1, s2, s3, s4}, chip, out, bp + bq)
  <2>1. alg \in {4, 5, 6, 7}
    OBVIOUS
  <2>2. \/ alg = 4 /\ alg % 4 = 0 /\ bp + bq = 0
        \/ alg = 5 /\ alg % 4 = 1 /\ bp + bq = 1
        \/ alg = 6 /\ alg % 4 = 2 /\ bp + bq = 1
        \/ alg = 7 /\ alg % 4 = 3 /\ bp + bq = 2
    BY <1>4, <1>5
  <2>3. out = IF alg % 4 = 0 THEN <<s4>> ELSE IF alg % 4 = 1 THEN <<s2, s4>>
              ELSE IF alg % 4 = 2 THEN <<s1, s4>> ELSE <<s1, s3, s4>>
    BY <1>2, <1>7, <2>2 DEF Heard4
  <2>4. PICK n : n = bp + bq
    OBVIOUS
  <2>5. \/ n = 0 /\ out = <<s4>> /\ chip.slot[s2].mod = s1 /\ chip.slot[s3].mod = s2 /\ chip.slot[s4].mod = s3
        \/ n = 1 /\ out = <<s2, s4>> /\ chip.slot[s2].mod = s1 /\ chip.slot[s3].mod = Zero /\ chip.slot[s4].mod = s3
        \/ n = 1 /\ out = <<s1, s4>> /\ chip.slot[s2].mod = Zero /\ chip.slot[s3].mod = s2 /\ chip.slot[s4].mod = s3
        \/ n = 2 /\ out = <<s1, s3, s4>> /\ chip.slot[s2].mod = Zero /\ chip.slot[s3].mod = s2 /\ chip.slot[s4].mod = Zero
    BY <1>8, <2>2, <2>3, <2>4
  <2>6. WholeMix({s1, s2, s3, s4}, chip, out, n)
    BY <1>3, <1>8, <2>5, MixOf4
  <2> QED
    BY <2>4, <2>6
<1>11. VoiceSlots(c) = {s1, s2, s3, s4}
  BY <1>2 DEF VoiceSlots, SlotsOf
<1>12. bp + bq = Cardinality({d \in Voice(chip, c) : chip.channel[d].con})
  <2>1. chip.channel[p].con \in BOOLEAN /\ chip.channel[q].con \in BOOLEAN
    BY <1>1 DEF Chips, ChannelStates
  <2> QED
    <3>1. Cardinality({d \in {p, q} : chip.channel[d].con}) = Bit(chip.channel[p].con) + Bit(chip.channel[q].con)
      BY ONLY <1>1, <2>1, HowManyTwo
    <3> QED
      BY <1>4, <3>1
<1> QED
  BY <1>9, <1>10, <1>11, <1>12, WholeBy

LEMMA VoicesFit == ASSUME Inv PROVE VoicesWhole
<1>1. PICK U : U = Used
  OBVIOUS
<1>2. /\ U \in SUBSET Channels /\ chip \in Chips(U) /\ DOMAIN chip.slot = Slots(U) /\ settled \subseteq U
      /\ RoutesFit(U, chip) /\ \A c \in settled : Sound(chip, c)
  BY <1>1, InvStates DEF History, Settled, State
<1>3. ModulatorsFirst
  BY <1>2 DEF ModulatorsFirst, RoutesFit, Ordered
<1>4. ASSUME NEW c \in settled, chip.channel[c].chtype # "drum" PROVE Whole(c)
  <2>1. c \in U /\ Sound(chip, c) /\ KindsFit(U, chip)
    BY <1>2 DEF RoutesFit
  <2>2. CASE Kind(chip, c) = "2op"
    BY <1>2, <1>4, <2>1, <2>2, TwoWhole DEF Sound, Voice
  <2>3. CASE Kind(chip, c) = "4op"
    <3>1. First(U, c) /\ Sound4(chip, c, pair(c)) /\ Voice(chip, c) = {c, pair(c)}
      BY <1>2, <2>1, <2>3, KindsAre DEF Sound, Voice
    <3> QED
      BY <1>2, <3>1, FourWhole
  <2>4. CASE Kind(chip, c) = "4op2"
    <3>1. Second(U, c) /\ Sound4(chip, pair(c), c) /\ Voice(chip, c) = {pair(c), c}
      BY <1>2, <2>1, <2>4, KindsAre DEF Sound, Voice
    <3>2. First(U, pair(c)) /\ pair(pair(c)) = c
      BY <1>2, <3>1, PairOfSecond
    <3> QED
      BY <1>2, <3>1, <3>2, FourWhole
  <2> QED
    BY <1>2, <2>1, <2>2, <2>3, <2>4, KindsAre
<1> QED
  BY <1>3, <1>4 DEF VoicesWhole

\* Whatever was joined, parted, connected or drummed in whatever order, an operator is
\* modulated by itself or by one before it; and once a voice is connected each of its
\* operators is heard or modulates another one, never both (OPL3_ChannelSetupAlg,
\* OPL3_ChannelWriteC0, OPL3_ChannelSet4Op, OPL3_ChannelUpdateRhythm).
THEOREM VoicesConnected == Spec => []VoicesWhole
<1>1. Inv => VoicesWhole
  BY VoicesFit
<1> QED
  BY <1>1, ChipHolds, PTL
===============================================================================
