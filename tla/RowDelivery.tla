---------------------------- MODULE RowDelivery ----------------------------
(***************************************************************************)
(* What a streaming ResultReader promises the caller that iterates over it  *)
(* (api.rs): the items of the result are handed over in batches, in order,  *)
(* each at most once; an error gives up the items of the current call and   *)
(* nothing else; the iteration ends only when there are no items left.      *)
(* There are no writers, rows or cells here, only the calls to next().      *)
(***************************************************************************)
EXTENDS Naturals, Sequences

CONSTANT Sizes   \* the batch sizes a reader may have

VARIABLES
  size,        \* the reader's batch size
  total,       \* number of items of the result
  next,        \* the first item not yet handed over or given up
  delivered,   \* the items handed over so far
  outcome      \* what the last call returned: Some(Ok), Some(Err), None

vars == << size, total, next, delivered, outcome >>

Outcome == {"nothing", "batch", "error", "end"}

Init ==
  /\ size \in Sizes
  /\ total \in Nat
  /\ next = 1
  /\ delivered = <<>>
  /\ outcome = "nothing"

(* A call takes between one and size items. *)
Take(k) ==
  /\ k \in 1..size
  /\ next + k <= total + 1
  /\ next' = next + k
  /\ UNCHANGED << size, total >>

Deliver(k) ==
  /\ Take(k)
  /\ delivered' = delivered \o [i \in 1..k |-> next + i - 1]
  /\ outcome' = "batch"

Fail(k) ==
  /\ Take(k)
  /\ outcome' = "error"
  /\ UNCHANGED delivered

End ==
  /\ next = total + 1
  /\ outcome' = "end"
  /\ UNCHANGED << size, total, next, delivered >>

Next == (\E k \in 1..size : Deliver(k) \/ Fail(k)) \/ End

Spec == Init /\ [][Next]_vars
=============================================================================
