------------------------------- MODULE TxnPort -------------------------------
(***************************************************************************)
(* What a client of the SDRAM sees at its end of a bridge                  *)
(* (rtl/mem/sdram_xbridge.sv, "Client side"): one transaction at a time,   *)
(* performed by the memory exactly once, with the fields it was started    *)
(* with, between its start and its end; the end of a read delivers the     *)
(* words that the memory returned.                                         *)
(***************************************************************************)
EXTENDS Naturals

CONSTANTS
  Txns,    \* transactions: records with fields we and n, the length in words
  Word     \* values of a memory word

Slots  == 0 .. 3             \* places of the read buffer
Buffer == [Slots -> Word]

VARIABLES
  phase,   \* idle, asked, reading, answered
  txn,     \* the transaction
  got,     \* words received so far
  words,   \* the words received
  out      \* what the client is told on this clock (a_done, a_rdata)

portVars == <<phase, txn, got, words, out>>

NoAnswer == [done |-> FALSE]

Answer(t, buf) ==
  [done |-> TRUE, data |-> IF t.we THEN <<>> ELSE [i \in 0 .. t.n - 1 |-> buf[i]]]

Init ==
  /\ phase = "idle" /\ txn \in Txns /\ got = 0 /\ words \in Buffer
  /\ out = NoAnswer

Start ==
  /\ phase = "idle" /\ phase' = "asked" /\ txn' \in Txns /\ out' = NoAnswer
  /\ UNCHANGED <<got, words>>

Capture ==
  /\ phase = "asked" /\ phase' = IF txn.we THEN "answered" ELSE "reading"
  /\ UNCHANGED <<txn, got, words, out>>

Return ==
  /\ phase = "reading"
  /\ \E w \in Word : words' = [words EXCEPT ![got] = w]
  /\ IF got + 1 = txn.n THEN phase' = "answered" /\ got' = 0
                        ELSE got' = got + 1 /\ UNCHANGED phase
  /\ UNCHANGED <<txn, out>>

Finish ==
  /\ phase = "answered" /\ phase' = "idle" /\ out' = Answer(txn, words)
  /\ UNCHANGED <<txn, got, words>>

\* The client's clock after a Finish.
Rest == out' = NoAnswer /\ UNCHANGED <<phase, txn, got, words>>

\* A reset of both sides forgets the transaction.
Reset ==
  /\ phase' = "idle" /\ txn' \in Txns /\ got' = 0 /\ words' \in Buffer
  /\ out' = NoAnswer

Next == Start \/ Capture \/ Return \/ Finish \/ Rest \/ Reset

Spec == Init /\ [][Next]_portVars
===============================================================================
