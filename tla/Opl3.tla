-------------------------------- MODULE Opl3 --------------------------------
(***************************************************************************)
(* The OPL3 model as its caller sees it: registers are written at once     *)
(* (OPL3_WriteReg) or through a ring of writes that the samples take out   *)
(* at their times (OPL3_WriteRegBuffered, OPL3_Generate), OPL_WRITEBUF_    *)
(* DELAY samples apart, because the envelopes see a key only once in a     *)
(* sample.  When the ring is full the oldest write is made at once and the *)
(* time moves on to it.                                                    *)
(*                                                                         *)
(* Times are counted from writebuf_samplecnt, which is 0 here: a sample    *)
(* takes one off every time, an overflow the time of the oldest write.     *)
(* OPL3_GenerateStream and the resampling above it call OPL3_Generate as   *)
(* often as the rates ask for: any number of times.                        *)
(***************************************************************************)
EXTENDS Opl3Channels, SequencesExt

CONSTANTS
  OPL_WRITEBUF_SIZE,
  OPL_WRITEBUF_DELAY,
  Programs   \* by name: the channels a program uses, the writes it makes, whether they are
             \* buffered, the clocks its samples meet

ASSUME RingAssumption ==
  OPL_WRITEBUF_SIZE \in Nat \ {0} /\ OPL_WRITEBUF_DELAY \in Nat
\* opl3.h: 1024 and 2. With no delay a sample would make all the writes that wait.
ASSUME DelayAssumption == OPL_WRITEBUF_DELAY > 0
\* A program that joins channels uses whole pairs, one that drums the drums' channels.
ASSUME ProgramsAssumption ==
  \A p \in DOMAIN Programs :
    LET used == Programs[p].used
        writes(reg) == \E w \in Programs[p].writes : w.reg = reg
    IN /\ used \subseteq Channels /\ Programs[p].clocks \subseteq Clocks
       /\ Programs[p].writes \subseteq RegisterWrites(used)
       /\ writes("104") => \A c \in used : HasPair(c) => pair(c) \in used
       /\ writes("BD") => RhythmChannels \subseteq used

VARIABLES
  program,
  chip,
  writebuf, writebuf_cur, writebuf_last, writebuf_lasttime,
  \* history: what the properties tell the states apart by
  asked,     \* the buffered writes that were asked for and not yet made
  rushed,    \* a write was made at once since the last sample
  due,       \* the slots keyed anew since the last sample
  settled,   \* the channels whose C0 was written since what they are changed
  tuned,     \* the channels whose B0 was written since what they are changed
  off        \* the channels whose key was taken off since a key or what they are changed

ring == <<writebuf, writebuf_cur, writebuf_last, writebuf_lasttime>>
history == <<asked, rushed, due, settled, tuned, off>>
vars == <<program, chip, ring, history>>

Places == 0 .. OPL_WRITEBUF_SIZE - 1
After(i) == (i + 1) % OPL_WRITEBUF_SIZE
NoWrite == [valid |-> FALSE, time |-> 0, write |-> [reg |-> "none"]]
Later(a, b) == IF a < b THEN b ELSE a

(***************************************************************************)
(* The history of the writes made.                                         *)
(***************************************************************************)
Kind(k, c) == IF Leads(k, c) THEN "4op" ELSE IF Follows(k, c) THEN "4op2" ELSE "2op"
Voice(k, c) == IF Kind(k, c) = "2op" THEN {c} ELSE {c, pair(c)}
KindKept(k, k1) == {c \in DOMAIN k.channel : Kind(k, c) = Kind(k1, c)}
Keyed(k, k1) == {s \in DOMAIN k.slot : k.slot[s].key = {} /\ k1.slot[s].key # {}}

\* One write w made: chip and history before and after.
Made(st, w) ==
  LET k == st.chip
      k1 == WriteReg(k, w)
      kept == KindKept(k, k1)
      is(reg) == w.reg = reg
  IN [chip    |-> k1,
      due     |-> st.due \cup Keyed(k, k1),
      settled |-> (st.settled \cap kept) \cup (IF is("C0") THEN Voice(k, w.ch) ELSE {}),
      tuned   |-> (st.tuned \cap kept) \cup (IF is("B0") /\ Kind(k, w.ch) # "4op2" THEN Voice(k, w.ch) ELSE {}),
      off     |-> IF kept # DOMAIN k.channel \/ (is("B0") /\ w.key) THEN {}
                  ELSE st.off \cup (IF is("B0") THEN {w.ch} ELSE {})]
State == [chip |-> chip, due |-> due, settled |-> settled, tuned |-> tuned, off |-> off]
Become(st) ==
  chip' = st.chip /\ due' = st.due /\ settled' = st.settled /\ tuned' = st.tuned /\ off' = st.off

(***************************************************************************)
(* The calls.                                                              *)
(***************************************************************************)
WriteRegNow(w) ==
  /\ ~Programs[program].buffered
  /\ Become(Made(State, w))
  /\ rushed' = TRUE
  /\ UNCHANGED <<program, ring, asked>>

\* The write goes to writebuf_last; one that is still there is made first.
Oldest == writebuf[writebuf_last]
Jump == IF Oldest.valid THEN Oldest.time ELSE 0
WriteTimeAtOnce == Later(writebuf_lasttime - Jump, 0)
WriteTime == Later(writebuf_lasttime - Jump + OPL_WRITEBUF_DELAY, 0)
CurStays == writebuf_cur
CurAfterWrite == IF Oldest.valid THEN After(writebuf_last) ELSE writebuf_cur
Moved == [i \in Places |-> IF writebuf[i].valid THEN [writebuf[i] EXCEPT !.time = @ - Jump] ELSE NoWrite]

WriteRegBuffered(w) ==
  /\ Programs[program].buffered
  /\ writebuf' = [Moved EXCEPT ![writebuf_last] = [valid |-> TRUE, time |-> WriteTime, write |-> w]]
  /\ writebuf_cur' = CurAfterWrite
  /\ writebuf_last' = After(writebuf_last)
  /\ writebuf_lasttime' = WriteTime
  /\ Become(IF Oldest.valid THEN Made(State, Oldest.write) ELSE State)
  /\ asked' = Append(IF Oldest.valid THEN Tail(asked) ELSE asked, w)
  /\ rushed' = (rushed \/ Oldest.valid)
  /\ UNCHANGED program

\* The writes a sample makes: from writebuf_cur on, as long as their time has come.
From(n) == (writebuf_cur + n) % OPL_WRITEBUF_SIZE
Ready(i) == writebuf[i].valid /\ writebuf[i].time <= 0
Drained == CHOOSE n \in 0 .. OPL_WRITEBUF_SIZE :
             /\ \A m \in 0 .. n - 1 : Ready(From(m))
             /\ n = OPL_WRITEBUF_SIZE \/ ~Ready(From(n))

SlotsCalculated(clk) ==
  [chip EXCEPT !.slot = [s \in DOMAIN @ |-> EnvelopeCalc(@[s], chip.channel[ChannelOfSlot(s)].ksv, clk)]]

\* One sample: every slot, then the writes whose time has come, then the time.
Generate(clk) ==
  LET places == {From(m) : m \in 0 .. Drained - 1}
      writes == [m \in 1 .. Drained |-> writebuf[From(m - 1)].write]
  IN /\ Become(FoldLeft(Made, [State EXCEPT !.chip = SlotsCalculated(clk), !.due = {}], writes))
     /\ writebuf' = [i \in Places |-> IF i \in places \/ ~writebuf[i].valid THEN NoWrite
                                      ELSE [writebuf[i] EXCEPT !.time = @ - 1]]
     /\ writebuf_cur' = From(Drained)
     /\ writebuf_lasttime' = Later(writebuf_lasttime - 1, -OPL_WRITEBUF_DELAY)
     /\ asked' = SubSeq(asked, Drained + 1, Len(asked))
     /\ rushed' = FALSE
     /\ UNCHANGED <<program, writebuf_last>>

NoWrites == [i \in Places |-> NoWrite]

\* OPL3_Reset; the caller does it first.
Init ==
  /\ program \in DOMAIN Programs
  /\ chip = ResetChip(Programs[program].used)
  /\ writebuf = NoWrites /\ writebuf_cur = 0 /\ writebuf_last = 0 /\ writebuf_lasttime = 0
  /\ asked = <<>> /\ rushed = FALSE /\ due = {} /\ off = {}
  /\ settled = Programs[program].used /\ tuned = Programs[program].used

Next ==
  \/ \E w \in Programs[program].writes : WriteRegNow(w)
  \/ \E w \in Programs[program].writes : WriteRegBuffered(w)
  \/ \E clk \in Programs[program].clocks : Generate(clk)
Spec == Init /\ [][Next]_vars

(***************************************************************************)
(* Properties                                                              *)
(***************************************************************************)
\* Writes are made in the order in which they were asked for, none lost and none
\* twice, also when the ring overflows and when its places wrap around.
Pending(n) == [m \in 1 .. n |-> writebuf[From(m - 1)].write]
WritesInOrder ==
  /\ Cardinality({i \in Places : writebuf[i].valid}) = Len(asked)
  /\ \A m \in 0 .. Len(asked) - 1 : writebuf[From(m)].valid
  /\ Pending(Len(asked)) = asked

\* A note that is keyed anew starts anew: the envelope has seen the key off before it
\* sees it on again, however fast the program writes, unless the ring overflowed.
EveryNoteStarts == ~rushed => \A s \in due : chip.slot[s].eg_gen = "release"

\* An operator gets louder in the attack of a held key only, and fainter in none: the
\* level never runs over the ends of its nine bits.
LevelKeepsDirection ==
  [][\A s \in DOMAIN chip.slot :
       LET old == chip.slot[s]  new == chip'.slot[s]
       IN /\ new.eg_rout < old.eg_rout => old.eg_gen = "attack" \/ Restarts(old)
          /\ new.eg_rout < old.eg_rout => old.key # {}
          /\ new.eg_rout > old.eg_rout => old.eg_gen # "attack"]_chip

\* Whatever was written in whatever order, an operator is modulated by itself or by one
\* that the sample works out before it: the slots go by their numbers.  Once its C0 is
\* written after it became what it is, a voice is whole: each of its operators is mixed
\* once or modulates another one, never both, and one operator more is mixed than its
\* connection bits are set.
ModulatorsFirst ==
  \A s \in DOMAIN chip.slot : chip.slot[s].mod \in (0 .. s) \cup {Zero}
VoiceSlots(c) == UNION {SlotsOf(d) : d \in Voice(chip, c)}
Mixed(c) == FoldSet(LAMBDA d, mixed : mixed \o chip.channel[d].out, <<>>, Voice(chip, c))
Modulates(c, s) == \E t \in VoiceSlots(c) \ {s} : chip.slot[t].mod = s
Whole(c) ==
  /\ \A s \in VoiceSlots(c) : (s \in Range(Mixed(c))) # Modulates(c, s)
  /\ Range(Mixed(c)) \subseteq VoiceSlots(c)
  /\ IsInjective(Mixed(c))
  /\ Len(Mixed(c)) = 1 + Cardinality({d \in Voice(chip, c) : chip.channel[d].con})
VoicesWhole ==
  /\ ModulatorsFirst
  /\ \A c \in settled : chip.channel[c].chtype # "drum" /\ Voice(chip, c) \subseteq settled => Whole(c)

\* The cached share of the frequency in the level is that of the present pitch, and the
\* two channels of a voice have one pitch once it was keyed since they were joined.
PitchCurrent ==
  \A c \in DOMAIN chip.channel :
    LET ch == chip.channel[c] IN
      /\ \A s \in SlotsOf(c) : chip.slot[s].eg_ksl = KeyScaleLevel(ch.f_num, ch.block)
      /\ c \in tuned => \A d \in Voice(chip, c) :
           chip.channel[d].f_num = ch.f_num /\ chip.channel[d].block = ch.block /\ chip.channel[d].ksv = ch.ksv

\* When every channel's key was taken off, and nothing was keyed or joined meanwhile, no
\* note hangs, whatever was joined or parted while notes were held.
NoNoteHangs ==
  off = DOMAIN chip.channel => \A s \in DOMAIN chip.slot : "norm" \notin chip.slot[s].key
===============================================================================
