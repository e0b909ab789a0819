---------------------------- MODULE Opl3Envelope ----------------------------
(***************************************************************************)
(* The envelope generator of one operator (slot) of the OPL3 model that    *)
(* comes with jtopl, src/rtl/sound/jtopl/doc/opl3.c.                       *)
(*                                                                         *)
(* A slot's level eg_rout is an attenuation of 9 bits: 0 is full volume,   *)
(* 511 silence.  The counters that pace it (eg_timer, eg_state, the low    *)
(* bits of timer) are the argument clk, any values they can have.  What    *)
(* only shapes the sound is left out: phase, waveform, tremolo, vibrato,   *)
(* total level, feedback.                                                  *)
(***************************************************************************)
EXTENDS Integers, Sequences

SILENT == 511
Generators == {"attack", "decay", "sustain", "release"}
KeyTypes == {"norm", "drum"}

\* The frequency's share of the level (kslrom is indexed by the upper 4 bits of f_num).
kslrom == <<0, 32, 40, 45, 48, 51, 53, 55, 56, 58, 59, 60, 61, 62, 63, 64>>
KeyScaleLevel(f_num, block) ==
  LET ksl == 4 * kslrom[f_num \div 64 + 1] - 32 * (8 - block)
  IN IF ksl < 0 THEN 0 ELSE ksl % 256

\* eg_state is the lowest bit of timer: both start at 0 and change with each sample.
Clocks == [eg_add : 0 .. 13, timer : 0 .. 3]
eg_state(clk) == clk.timer % 2

KeyOn(s, type) == [s EXCEPT !.key = @ \cup {type}]
KeyOff(s, type) == [s EXCEPT !.key = @ \ {type}]

\* A key found in the release restarts the envelope.
Restarts(s) == s.key # {} /\ s.eg_gen = "release"

RegRate(s) ==
  CASE Restarts(s) \/ s.eg_gen = "attack"                   -> s.reg_ar
    [] s.eg_gen = "decay"                                   -> s.reg_dr
    [] s.eg_gen = "sustain" /\ s.reg_type                   -> 0
    [] OTHER                                                -> s.reg_rr

\* ks: ksv, or its two upper bits when key scaling of rates is off.
Rate(s, ksv) == (IF s.reg_ksr THEN ksv ELSE ksv \div 4) + 4 * RegRate(s)
RateHi(s, ksv) == LET hi == Rate(s, ksv) \div 4 IN IF hi >= 16 THEN 15 ELSE hi
RateLo(s, ksv) == Rate(s, ksv) % 4

eg_incstep == << <<0, 0, 0, 0>>, <<1, 0, 0, 0>>, <<1, 0, 1, 0>>, <<1, 1, 1, 0>> >>

\* Slow rates step on some samples only, fast ones by one to three bits on each.
SlowShift(hi, lo, clk) ==
  IF eg_state(clk) = 0 THEN 0
  ELSE CASE hi + clk.eg_add = 12 -> 1
         [] hi + clk.eg_add = 13 -> lo \div 2
         [] hi + clk.eg_add = 14 -> lo % 2
         [] OTHER                -> 0
FastShift(hi, lo, clk) ==
  LET step == (hi % 4) + eg_incstep[lo + 1][clk.timer + 1]
  IN CASE step >= 4 -> 3
       [] step = 0  -> eg_state(clk)
       [] OTHER     -> step
Shift(s, ksv, clk) ==
  LET hi == RateHi(s, ksv)  lo == RateLo(s, ksv)
  IN IF RegRate(s) = 0 THEN 0 ELSE IF hi < 12 THEN SlowShift(hi, lo, clk) ELSE FastShift(hi, lo, clk)

EnvelopeOff(s) == s.eg_rout >= 504

\* The level before the step: an instant attack, or the end of a sound.
Base(s, ksv) ==
  CASE Restarts(s) /\ RateHi(s, ksv) = 15                            -> 0
    [] ~Restarts(s) /\ s.eg_gen # "attack" /\ EnvelopeOff(s)         -> SILENT
    [] OTHER                                                         -> s.eg_rout

Pow2(n) == IF n = 3 THEN 8 ELSE IF n = 2 THEN 4 ELSE IF n = 1 THEN 2 ELSE 1

\* ((~eg_rout) << shift) >> 4, rounded down as the arithmetic shift does.
Rise(s, shift) == (-(s.eg_rout + 1) * Pow2(shift)) \div 16
FallOver(s, shift) == IF shift > 0 /\ ~Restarts(s) THEN Pow2(shift - 1) ELSE 0
Fall(s, shift) == IF shift > 0 /\ ~EnvelopeOff(s) /\ ~Restarts(s) THEN Pow2(shift - 1) ELSE 0

Attacked(s) == s.eg_gen = "attack" /\ s.eg_rout = 0
Decayed(s) == s.eg_gen = "decay" /\ s.eg_rout \div 16 = s.reg_sl

Inc(s, ksv, clk) ==
  LET shift == Shift(s, ksv, clk)
  IN IF Attacked(s) \/ Decayed(s) THEN 0
     ELSE IF s.eg_gen # "attack" THEN Fall(s, shift)
     ELSE IF s.key # {} /\ shift > 0 /\ RateHi(s, ksv) # 15 THEN Rise(s, shift) ELSE 0

NextGen(s) ==
  IF s.key = {} THEN "release"
  ELSE CASE Restarts(s) -> "attack"
         [] Attacked(s) -> "decay"
         [] Decayed(s)  -> "sustain"
         [] OTHER       -> s.eg_gen

EnvelopeCalc(s, ksv, clk) ==
  [s EXCEPT !.eg_rout = (Base(s, ksv) + Inc(s, ksv, clk)) % 512, !.eg_gen = NextGen(s)]

(***************************************************************************)
(* The slot's registers.                                                   *)
(***************************************************************************)
SlotWrite20(s, data) == [s EXCEPT !.reg_type = data.type, !.reg_ksr = data.ksr]
SlotWrite60(s, data) == [s EXCEPT !.reg_ar = data.ar, !.reg_dr = data.dr]
SlotWrite80(s, data) == [s EXCEPT !.reg_sl = IF data.sl = 15 THEN 31 ELSE data.sl, !.reg_rr = data.rr]
===============================================================================
