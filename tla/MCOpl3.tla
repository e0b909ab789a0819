------------------------------- MODULE MCOpl3 -------------------------------
(***************************************************************************)
(* An instance of Opl3 for TLC: four programs.                             *)
(***************************************************************************)
EXTENDS Opl3

Connections(c) == {[reg |-> "C0", ch |-> c, con |-> b] : b \in BOOLEAN}
Keys(c, high, block) == {[reg |-> "B0", ch |-> c, high |-> high, block |-> block, key |-> b] : b \in BOOLEAN}

\* Two channels that are joined and parted, in both modes.
Joining ==
  [used |-> {0, 3}, buffered |-> FALSE, clocks |-> {},
   writes |-> UNION {Keys(c, 0, 7) \cup Connections(c) : c \in {0, 3}}
              \cup {[reg |-> "A0", ch |-> 0, low |-> 192]}
              \cup {[reg |-> "104", joined |-> j] : j \in {{}, {0}}}
              \cup {[reg |-> "105", newm |-> b] : b \in BOOLEAN}
              \cup {[reg |-> "40", slot |-> 6]}]

\* The rhythm, and what the same channels play without it.
Rhythm ==
  [used |-> {6, 7, 8}, buffered |-> FALSE, clocks |-> {},
   writes |-> UNION {Keys(c, 0, 7) \cup Connections(c) : c \in {6, 7, 8}}
              \cup {[reg |-> "BD", on |-> b, drums |-> d] :
                      b \in BOOLEAN, d \in {{}, {"hh", "tom"}, {"bd", "sd", "tc"}}}]

\* Notes played through the ring: with a gradual attack, and with an instant one.
Playing(ar, others) ==
  [used |-> {0}, buffered |-> TRUE,
   clocks |-> {[eg_add |-> 4, timer |-> t] : t \in {1, 2}},
   writes |-> Keys(0, 2, 4) \cup {[reg |-> "60", slot |-> 3, ar |-> ar, dr |-> 13]} \cup others]
Timbre == {[reg |-> "80", slot |-> 3, sl |-> 1, rr |-> 15]}
Modes == {[reg |-> "20", slot |-> 3, type |-> TRUE, ksr |-> TRUE], [reg |-> "08", nts |-> TRUE]}

MCPrograms == [joining |-> Joining, rhythm |-> Rhythm,
               playing |-> Playing(14, Timbre), plucking |-> Playing(15, Modes)]
===============================================================================
