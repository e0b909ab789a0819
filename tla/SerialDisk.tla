----------------------------- MODULE SerialDisk -----------------------------
(* What the serial disk server promises its client: a request is performed   *)
(* sector by sector on the disk as it is, a sector written is confirmed only *)
(* once it is there, and a request that fails leaves the rest alone.         *)
EXTENDS Integers, Sequences

VARIABLES disk,        \* drive -> sector -> data
          req,         \* the client's request, Nothing between requests
          done,        \* its sectors confirmed so far
          got          \* what they held, for a read

vars == <<disk, req, done, got>>

\* The length of data is the count of sectors, its values only matter to a write.
Requests == [write : BOOLEAN, drive : Nat, k : Nat, data : Seq(Nat)]
Nothing == [write |-> FALSE, drive |-> -1, k |-> 0, data |-> << >>]

Init == req = Nothing /\ done = 0 /\ got = << >>

Begin == /\ req = Nothing
         /\ req' \in Requests
         /\ done' = 0 /\ got' = << >>
         /\ UNCHANGED disk

Unfinished == req # Nothing /\ done < Len(req.data)
Sector == req.k + done

Store == /\ Unfinished /\ req.write
         /\ disk' = [disk EXCEPT ![req.drive][Sector] = req.data[done + 1]]
         /\ UNCHANGED <<req, done, got>>

Confirm == /\ Unfinished
           /\ req.write => disk[req.drive][Sector] = req.data[done + 1]
           /\ done' = done + 1
           /\ got' = IF req.write THEN got ELSE Append(got, disk[req.drive][Sector])
           /\ UNCHANGED <<disk, req>>

End == /\ req # Nothing /\ req' = Nothing
       /\ done' = 0 /\ got' = << >>
       /\ UNCHANGED disk

Next == Begin \/ Store \/ Confirm \/ End

Spec == Init /\ [][Next]_vars
=============================================================================
