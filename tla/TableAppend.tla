---------------------------- MODULE TableAppend ----------------------------
(***************************************************************************)
(* What an Appender promises (api.rs, trait Append): the batches it is      *)
(* given are written to the table together, when finish() succeeds, or not  *)
(* at all.                                                                  *)
(***************************************************************************)
EXTENDS Naturals, Sequences

VARIABLES
  table,     \* the committed rows of the table
  pending,   \* the rows of the open appender
  session    \* is an appender open

vars == << table, pending, session >>

Init ==
  /\ table = <<>>
  /\ pending = <<>>
  /\ session = "closed"

Open ==
  /\ session = "closed"
  /\ session' = "open"
  /\ UNCHANGED << table, pending >>

(* Rows are added behind the rows already pending, and none a second time. *)
Write ==
  /\ session = "open"
  /\ Len(pending') > Len(pending)
  /\ SubSeq(pending', 1, Len(pending)) = pending
  /\ \A i \in Len(pending) + 1 .. Len(pending') :
       /\ \A j \in 1..Len(table) : table[j] # pending'[i]
       /\ \A j \in 1..(i - 1) : pending'[j] # pending'[i]
  /\ UNCHANGED << table, session >>

Commit ==
  /\ session = "open"
  /\ table' = table \o pending
  /\ pending' = <<>>
  /\ session' = "closed"

Abort ==
  /\ session = "open"
  /\ pending' = <<>>
  /\ session' = "closed"
  /\ UNCHANGED table

Next == Open \/ Write \/ Commit \/ Abort

Spec == Init /\ [][Next]_vars
=============================================================================
