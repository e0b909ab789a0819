---------------------------- MODULE Opl3Channels ----------------------------
(***************************************************************************)
(* The registers of the OPL3 model: 18 channels of two operators each,     *)
(* pairs of which are joined to voices of four operators, three of which   *)
(* play the rhythm.  Every register write changes what is there instead of *)
(* working the routing out anew from all the registers, so what the chip   *)
(* plays depends on the order of the writes.                               *)
(*                                                                         *)
(* The chip is a record, as in opl3.h.  A slot's mod pointer is the number *)
(* of the slot it points into, its own for its feedback, Zero for zeromod. *)
(* A channel's out pointers are the sequence of slots that are mixed, the  *)
(* pointers to zeromod left out.  Left out: panning (cha, chb), feedback   *)
(* strength, depths of tremolo and vibrato, waveforms.                     *)
(***************************************************************************)
EXTENDS Opl3Envelope, FiniteSets

Channels == 0 .. 17
Zero == 36

ch_slot(c) == 6 * (c \div 3) + (c % 3)
S0(c) == ch_slot(c)
S1(c) == ch_slot(c) + 3
SlotsOf(c) == {S0(c), S1(c)}
ChannelOfSlot(s) == 3 * (s \div 6) + (s % 3)

\* Channels 6 to 8 and 15 to 17 have no pair.
HasPair(c) == c % 9 < 6
pair(c) == IF c % 9 < 3 THEN c + 3 ELSE c - 3

(***************************************************************************)
(* Small steps: each takes the chip and gives the chip after it.           *)
(***************************************************************************)
SetMods(k, mods) ==
  [k EXCEPT !.slot = [s \in DOMAIN @ |-> IF s \in DOMAIN mods THEN [@[s] EXCEPT !.mod = mods[s]] ELSE @[s]]]
SetOut(k, c, heard) == [k EXCEPT !.channel[c].out = heard]
MapSlots(k, which, Op(_)) ==
  [k EXCEPT !.slot = [s \in DOMAIN @ |-> IF s \in which THEN Op(@[s]) ELSE @[s]]]

\* One operator after the other, the one after a mixed one unmodulated.
Chain2(c, alg) == [s \in SlotsOf(c) |-> IF s = S1(c) /\ alg % 2 = 1 THEN Zero ELSE S0(c)]
Chain4(p, c, alg) ==
  [s \in SlotsOf(p) \cup SlotsOf(c) |->
     CASE s = S0(p) -> S0(p)
       [] s = S1(p) -> IF alg % 4 < 2 THEN S0(p) ELSE Zero
       [] s = S0(c) -> IF alg % 4 = 1 THEN Zero ELSE S1(p)
       [] s = S1(c) -> IF alg % 4 = 3 THEN Zero ELSE S0(c)]
Heard2(c, alg) == IF alg % 2 = 0 THEN <<S1(c)>> ELSE <<S0(c), S1(c)>>
Heard4(p, c, alg) ==
  CASE alg % 4 = 0 -> <<S1(c)>>
    [] alg % 4 = 1 -> <<S1(p), S1(c)>>
    [] alg % 4 = 2 -> <<S0(p), S1(c)>>
    [] OTHER       -> <<S0(p), S0(c), S1(c)>>

\* alg: bit 3 says that the pair does it, bit 2 that it is done for both.
SetupAlg(k, c) ==
  LET alg == k.channel[c].alg
      drum == k.channel[c].chtype = "drum"
  IN CASE drum /\ c \in {7, 8}         -> SetMods(k, [s \in SlotsOf(c) |-> Zero])
       [] drum /\ c \notin {7, 8}      -> SetMods(k, Chain2(c, alg))
       [] ~drum /\ alg >= 8            -> k
       [] ~drum /\ alg \in 4 .. 7      -> SetOut(SetOut(SetMods(k, Chain4(pair(c), c, alg)), pair(c), <<>>),
                                                 c, Heard4(pair(c), c, alg))
       [] OTHER                        -> SetOut(SetMods(k, Chain2(c, alg)), c, Heard2(c, alg))

\* What a channel is while newm is set; without it every channel is on its own.
Leads(k, c) == k.newm /\ k.channel[c].chtype = "4op"
Follows(k, c) == k.newm /\ k.channel[c].chtype = "4op2"

(***************************************************************************)
(* The registers.                                                          *)
(***************************************************************************)
UpdateKSL(k, c) ==
  MapSlots(k, SlotsOf(c), LAMBDA s : [s EXCEPT !.eg_ksl = KeyScaleLevel(k.channel[c].f_num, k.channel[c].block)])

\* Total level and the weight of key scaling are left out; the level is worked out anew.
SlotWrite40(k, s) ==
  LET ch == k.channel[ChannelOfSlot(s)]
  IN [k EXCEPT !.slot[s].eg_ksl = KeyScaleLevel(ch.f_num, ch.block)]

\* Block and one bit of f_num, which one nts says.
KeyScaleValue(k, f_num, block) == 2 * block + ((IF k.nts THEN f_num \div 256 ELSE f_num \div 512) % 2)

WritePitch(k, c, f_num, block) ==
  UpdateKSL([k EXCEPT !.channel[c].f_num = f_num, !.channel[c].block = block,
                      !.channel[c].ksv = KeyScaleValue(k, f_num, block)], c)

CopyPitchOnly(k, c, block) ==
  [k EXCEPT !.channel[pair(c)].f_num = k.channel[c].f_num, !.channel[pair(c)].block = block,
            !.channel[pair(c)].ksv = k.channel[c].ksv]
\* The pair takes over f_num and ksv, and from WriteB0 also block.
CopyPitch(k, c, block) ==
  UpdateKSL([k EXCEPT !.channel[pair(c)].f_num = k.channel[c].f_num, !.channel[pair(c)].block = block,
                      !.channel[pair(c)].ksv = k.channel[c].ksv], pair(c))

WriteA0(k, c, low) ==
  LET ch == k.channel[c]
      k1 == WritePitch(k, c, 256 * (ch.f_num \div 256) + low, ch.block)
  IN IF Follows(k, c) THEN k
     ELSE IF Leads(k, c) THEN CopyPitch(k1, c, k1.channel[pair(c)].block) ELSE k1

WriteB0(k, c, high, block) ==
  LET k1 == WritePitch(k, c, 256 * high + (k.channel[c].f_num % 256), block)
  IN IF Follows(k, c) THEN k
     ELSE IF Leads(k, c) THEN CopyPitch(k1, c, block) ELSE k1

\* alg says how: for a joined voice the second channel's, the first one's nothing.
Bit(b) == IF b THEN 1 ELSE 0
WriteC0Own(k, c, con) ==
  SetupAlg([k EXCEPT !.channel[c].con = con, !.channel[c].alg = Bit(con)], c)
WriteC0(k, c, con) ==
  LET k1 == [k EXCEPT !.channel[c].con = con, !.channel[c].alg = Bit(con)]
      Joined(first, second) ==
        [k1 EXCEPT !.channel[second].alg = 4 + 2 * Bit(k1.channel[first].con) + Bit(k1.channel[second].con),
                   !.channel[first].alg = 8]
  IN CASE Leads(k, c)   -> SetupAlg(Joined(c, pair(c)), pair(c))
       [] Follows(k, c) -> SetupAlg(Joined(pair(c), c), c)
       [] OTHER         -> SetupAlg(k1, c)

\* The operators a key reaches: none when the channel follows another one.
Reached(k, c) ==
  CASE Leads(k, c)   -> SlotsOf(c) \cup SlotsOf(pair(c))
    [] Follows(k, c) -> {}
    [] OTHER         -> SlotsOf(c)
ChannelKeyOn(k, c) == MapSlots(k, Reached(k, c), LAMBDA s : KeyOn(s, "norm"))
ChannelKeyOffOwn(k, c) ==
  IF Follows(k, c) THEN k ELSE MapSlots(k, SlotsOf(c), LAMBDA s : KeyOff(s, "norm"))
ChannelKeyOff(k, c) == MapSlots(k, Reached(k, c), LAMBDA s : KeyOff(s, "norm"))

Set4Op(k, joined) ==
  [k EXCEPT !.channel =
     [c \in DOMAIN @ |->
        IF ~HasPair(c) THEN @[c]
        ELSE [@[c] EXCEPT !.chtype = CASE c \in joined       -> "4op"
                                       [] pair(c) \in joined -> "4op2"
                                       [] OTHER              -> "2op"]]]

\* The drums: the bits of register BD and the operators they key.
DrumSlots(drum) ==
  CASE drum = "hh"  -> {S0(7)}
    [] drum = "sd"  -> {S1(7)}
    [] drum = "tom" -> {S0(8)}
    [] drum = "tc"  -> {S1(8)}
    [] drum = "bd"  -> SlotsOf(6)
Drums == {"hh", "tc", "tom", "sd", "bd"}
RhythmChannels == 6 .. 8

DrumOut(c) == IF c = 6 THEN <<S1(6), S1(6)>> ELSE <<S0(c), S0(c), S1(c), S1(c)>>
Drumming(k, c) == SetupAlg(SetOut([k EXCEPT !.channel[c].chtype = "drum"], c, DrumOut(c)), c)
Melodic(k, c) == SetupAlg([k EXCEPT !.channel[c].chtype = "2op"], c)

\* on: bit 5; drums: the bits below it.
UpdateRhythm(k, on, drums) ==
  LET k1 == [k EXCEPT !.rhy = IF on THEN drums \cup {"on"} ELSE drums]
      k2 == IF on THEN Drumming(Drumming(Drumming(k1, 6), 7), 8) ELSE Melodic(Melodic(Melodic(k1, 6), 7), 8)
      struck == IF on THEN UNION {DrumSlots(d) : d \in drums} ELSE {}
  IN MapSlots(MapSlots(k2, struck, LAMBDA s : KeyOn(s, "drum")),
              UNION {SlotsOf(c) : c \in RhythmChannels} \ struck, LAMBDA s : KeyOff(s, "drum"))

\* The operators of the channels in use, and the writes that reach them, decoded: the
\* register's group, the channel or slot, the data. 104 has a bit for each first channel.
Slots(used) == UNION {SlotsOf(c) : c \in used}
RegisterWrites(used) ==
       [reg : {"104"}, joined : SUBSET {c \in used : c % 9 < 3}]
  \cup [reg : {"105"}, newm : BOOLEAN]
  \cup [reg : {"08"}, nts : BOOLEAN]
  \cup [reg : {"20"}, slot : Slots(used), type : BOOLEAN, ksr : BOOLEAN]
  \cup [reg : {"40"}, slot : Slots(used)]
  \cup [reg : {"60"}, slot : Slots(used), ar : 0 .. 15, dr : 0 .. 15]
  \cup [reg : {"80"}, slot : Slots(used), sl : 0 .. 15, rr : 0 .. 15]
  \cup [reg : {"A0"}, ch : used, low : 0 .. 255]
  \cup [reg : {"B0"}, ch : used, high : 0 .. 3, block : 0 .. 7, key : BOOLEAN]
  \cup [reg : {"BD"}, on : BOOLEAN, drums : SUBSET Drums]
  \cup [reg : {"C0"}, ch : used, con : BOOLEAN]

WriteReg(k, w) ==
  CASE w.reg = "104" -> Set4Op(k, w.joined)
    [] w.reg = "105" -> [k EXCEPT !.newm = w.newm]
    [] w.reg = "08"  -> [k EXCEPT !.nts = w.nts]
    [] w.reg = "20"  -> [k EXCEPT !.slot[w.slot] = SlotWrite20(@, w)]
    [] w.reg = "40"  -> SlotWrite40(k, w.slot)
    [] w.reg = "60"  -> [k EXCEPT !.slot[w.slot] = SlotWrite60(@, w)]
    [] w.reg = "80"  -> [k EXCEPT !.slot[w.slot] = SlotWrite80(@, w)]
    [] w.reg = "A0"  -> WriteA0(k, w.ch, w.low)
    [] w.reg = "B0"  -> LET k1 == WriteB0(k, w.ch, w.high, w.block)
                        IN IF w.key THEN ChannelKeyOn(k1, w.ch) ELSE ChannelKeyOff(k1, w.ch)
    [] w.reg = "BD"  -> UpdateRhythm(k, w.on, w.drums)
    [] w.reg = "C0"  -> WriteC0(k, w.ch, w.con)

(***************************************************************************)
(* OPL3_Reset.                                                             *)
(***************************************************************************)
ResetSlot ==
  [mod |-> Zero, key |-> {}, eg_gen |-> "release", eg_rout |-> SILENT, eg_ksl |-> 0,
   reg_ar |-> 0, reg_dr |-> 0, reg_sl |-> 0, reg_rr |-> 0, reg_type |-> FALSE, reg_ksr |-> FALSE]
ResetChannel == [chtype |-> "2op", f_num |-> 0, block |-> 0, ksv |-> 0, con |-> FALSE, alg |-> 0, out |-> <<>>]

\* The chip as far as the channels in use go.
ResetChip(used) ==
  [newm |-> FALSE, nts |-> FALSE, rhy |-> {},
   channel |-> [c \in used |-> [ResetChannel EXCEPT !.out = Heard2(c, 0)]],
   slot |-> [s \in Slots(used) |-> [ResetSlot EXCEPT !.mod = Chain2(ChannelOfSlot(s), 0)[s]]]]
===============================================================================
