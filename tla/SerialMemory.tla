----------------------------- MODULE SerialMemory -----------------------------
(***************************************************************************)
(* What the SDRAM subsystem promises its clients (rtl/mem/sdram_pkg.sv,    *)
(* "sdram_port protocol"): a memory that performs the operations one at a  *)
(* time, at the moment they are captured, and returns the words of the     *)
(* reads later, in that order, each with its client's tag and with `last'  *)
(* on the last word of a read.                                             *)
(***************************************************************************)
EXTENDS SdramPkg, Sequences

CONSTANT Offered      \* the operations that may be performed

VARIABLES
  mem,    \* the contents
  due,    \* the words that reads have been promised, oldest first
  out     \* the word being returned

memVars == <<mem, due, out>>

NoWord == [valid |-> FALSE]

Return(w) == [valid |-> TRUE, tag |-> w.tag, last |-> w.last, data |-> w.data]

Location(o, i) == <<o.bank, o.row, o.col + i>>

\* The words that o reads from the contents m, and the contents it leaves.
ReadWords(o, m) ==
  IF o.kind = "read"
    THEN [i \in 1 .. o.n |-> [tag |-> o.tag, last |-> i = o.n,
                              data |-> m[Location(o, i - 1)]]]
    ELSE <<>>

Written(o, m) ==
  IF o.kind = "write"
    THEN [a \in DOMAIN m |->
            IF \E i \in Burst(o.n) : a = Location(o, i)
              THEN LET i == CHOOSE k \in Burst(o.n) : a = Location(o, k)
                   IN  Merge(m[a], o.data[i], o.be[i])
              ELSE m[a]]
    ELSE m

Init ==
  /\ \E w \in Word : mem = [a \in Banks \X Rows \X Cols |-> w]
  /\ due = <<>> /\ out = NoWord

\* Perform o, and return the oldest word that is due or none.
Perform(o) ==
  LET m == mem
      d == due
      promised == ReadWords(o, m)
  IN  /\ mem' = Written(o, m)
      /\ \/ out' = NoWord /\ due' = d \o promised
         \/ /\ d # <<>>
            /\ out' = Return(Head(d))
            /\ due' = Tail(d) \o promised

Next == \E o \in Offered \cup {NoOp} : Perform(o)

Spec == Init /\ [][Next]_memVars
===============================================================================
