--------------------------- MODULE TiberiusAppend ---------------------------
(***************************************************************************)
(* TiberiusAppender (tiberius/append.rs): one bulk load request per         *)
(* appender.  append() sends the rows of a batch one by one, each made of   *)
(* one value per cell; what has been sent when an error or a panic ends the *)
(* call stays in the request.  finish() finalizes the request.  There is no *)
(* Drop: an appender that is dropped leaves its request unfinished.         *)
(*                                                                         *)
(* External: the server stores the rows of a request when it is finalized,  *)
(* all or none of them, and forgets those of a request that never was.      *)
(***************************************************************************)
EXTENDS Naturals, Sequences

CONSTANTS
  Width,        \* the number of columns of the table
  Widths,       \* the numbers of columns a batch may have
  BatchRows,    \* the numbers of rows of a batch
  MaxRows,      \* bound on the rows given in all
  MaxBatches,   \* bound on the batches given in all
  MaxAppenders  \* bound on the appenders opened

ASSUME TiberiusAppendAssumption ==
  /\ Widths \subseteq Nat
  /\ Width \in Widths
  /\ BatchRows \subseteq Nat
  /\ MaxRows \in Nat
  /\ MaxBatches \in Nat
  /\ MaxAppenders \in Nat

VARIABLES
  table,      \* the rows of the table, by their number
  caller,     \* "careful" gives the appender up after an error, "careless" need not
  appender,   \* "none", "open", "appending" (within append())
  sent,       \* the rows in the bulk load request
  row,        \* the row append() is at
  width,      \* the number of columns of its batch
  outcome,    \* what the last call did
  batches,    \* history: the last row of each batch given, in order
  accepted,   \* history: rows of this appender's batches that append() took
  opened,     \* history: appenders opened
  acked       \* history: rows for which append() and finish() returned Ok

vars == << table, caller, appender, sent, row, width, outcome, batches, accepted,
           opened, acked >>

\* The last row of the batches given so far, and the first of the last batch.
Given == IF batches = <<>> THEN 0 ELSE batches[Len(batches)]
First(k) == IF k = 1 THEN 1 ELSE batches[k - 1] + 1
Rows(k) == [i \in 1..(batches[k] + 1 - First(k)) |-> First(k) + i - 1]

Init ==
  /\ table = <<>>
  /\ caller \in {"careful", "careless"}
  /\ appender = "none"
  /\ sent = <<>>
  /\ row = 0
  /\ width = 0
  /\ outcome = "ok"
  /\ batches = <<>>
  /\ accepted = <<>>
  /\ opened = 0
  /\ acked = <<>>

-----------------------------------------------------------------------------
(* TiberiusAppender::new: bulk_insert reads the table's columns and starts  *)
(* the request, or fails (no such table, an earlier request unfinished).    *)
New ==
  /\ appender = "none"
  /\ opened < MaxAppenders                         \* bound
  /\ opened' = opened + 1
  /\ \/ appender' = "open" /\ outcome' = "ok"
     \/ outcome' = "error" /\ UNCHANGED appender
  /\ UNCHANGED << table, caller, sent, row, width, batches, accepted, acked >>

\* A careful caller goes on only after Ok; nobody does after a panic.
MayCall ==
  /\ appender = "open"
  /\ outcome = "ok" \/ (outcome = "error" /\ caller = "careless")

(* append() is called. *)
AppendBatch(n, w) ==
  /\ MayCall
  /\ Given + n <= MaxRows                          \* bound
  /\ Len(batches) < MaxBatches                     \* bound
  /\ appender' = "appending"
  /\ row' = Given + 1
  /\ width' = w
  /\ batches' = Append(batches, Given + n)
  /\ UNCHANGED << table, caller, sent, outcome, accepted, opened, acked >>

\* Mutant: `0..=num_rows`.
OneMoreRow == appender = "appending" /\ row <= Given + 1

(* Another iteration of the loop over rows. *)
MoreRows == appender = "appending" /\ row <= Given

\* Mutant: the row number is not advanced.
SendSameRow ==
  /\ MoreRows
  /\ width = Width
  /\ sent' = Append(sent, First(Len(batches)))
  /\ row' = row + 1
  /\ UNCHANGED << table, caller, appender, width, outcome, batches, accepted, opened, acked >>

(* Every cell of the row is converted and the row is sent. *)
SendRow ==
  /\ MoreRows
  /\ width = Width
  /\ sent' = Append(sent, row)
  /\ row' = row + 1
  /\ UNCHANGED << table, caller, appender, width, outcome, batches, accepted, opened, acked >>

\* Mutant: an error of send() is dropped.
SendErrorIgnored ==
  /\ MoreRows
  /\ row' = row + 1
  /\ UNCHANGED << table, caller, appender, sent, width, outcome, batches, accepted, opened,
                  acked >>

(* send() fails (external): a row of another width than the table's always, *)
(* any other when a value does not fit or the connection is lost.           *)
SendFails ==
  /\ MoreRows
  /\ appender' = "open"
  /\ outcome' = "error"
  /\ UNCHANGED << table, caller, sent, row, width, batches, accepted, opened, acked >>

(* transport() of a cell panics (its type is not supported): the row is not *)
(* sent.                                                                    *)
TransportPanics ==
  /\ MoreRows
  /\ appender' = "open"
  /\ outcome' = "panicked"
  /\ UNCHANGED << table, caller, sent, row, width, batches, accepted, opened, acked >>

(* append() returns Ok. *)
AppendReturns ==
  /\ appender = "appending"
  /\ ~MoreRows
  /\ appender' = "open"
  /\ outcome' = "ok"
  /\ accepted' = accepted \o Rows(Len(batches))
  /\ UNCHANGED << table, caller, sent, row, width, batches, opened, acked >>

-----------------------------------------------------------------------------
(* The appender and its request are gone. *)
Close ==
  /\ appender' = "none"
  /\ sent' = <<>>
  /\ accepted' = <<>>
  /\ row' = 0
  /\ width' = 0
  /\ UNCHANGED << caller, batches, opened >>

(* finalize(): the server has stored the rows. *)
Finish ==
  /\ MayCall
  /\ table' = table \o sent
  /\ acked' = acked \o accepted
  /\ outcome' = "ok"
  /\ Close

(* finalize() fails; the rows are stored all the same when only the answer  *)
(* was lost.                                                                *)
FinishFails ==
  /\ MayCall
  /\ table' \in {table, table \o sent}
  /\ outcome' = "error"
  /\ Close
  /\ UNCHANGED acked

\* Mutant: an appender that is dropped finalizes its request.
DropFinalizes ==
  /\ appender = "open"
  /\ table' = table \o sent
  /\ outcome' = "ok"
  /\ Close
  /\ UNCHANGED acked

(* Dropped by a caller who returns, or while a panic unwinds. *)
DropAppender ==
  /\ appender = "open"
  /\ outcome' = "ok"
  /\ Close
  /\ UNCHANGED << table, acked >>

Next ==
  \/ New
  \/ \E n \in BatchRows, w \in Widths : AppendBatch(n, w)
  \/ SendRow
  \/ SendFails
  \/ TransportPanics
  \/ AppendReturns
  \/ Finish
  \/ FinishFails
  \/ DropAppender

Spec == Init /\ [][Next]_vars

-----------------------------------------------------------------------------
(* Every variable has its type; rows are sent of batches that were given.   *)
TypeOK ==
  /\ table \in Seq(1..Given)
  /\ caller \in {"careful", "careless"}
  /\ appender \in {"none", "open", "appending"}
  /\ sent \in Seq(1..Given)
  /\ row \in 0..(MaxRows + 1)
  /\ width \in Widths \cup {0}
  /\ outcome \in {"ok", "error", "panicked"}
  /\ batches \in Seq(0..MaxRows)
  /\ accepted \in Seq(1..Given)
  /\ opened \in 0..MaxAppenders
  /\ acked \in Seq(1..Given)

Stored == { table[i] : i \in 1..Len(table) }

(* A batch is stored whole or not at all, whatever row of it failed, for a  *)
(* caller who gives up at the first error.  (One who goes on and finishes   *)
(* stores what was sent of the batch before the error.)                     *)
WholeBatches ==
  caller = "careful" =>
    \A k \in 1..Len(batches) :
      LET batch == First(k)..batches[k] IN
        batch \subseteq Stored \/ batch \cap Stored = {}

(* The rows of a batch that append() accepted are stored when finish()      *)
(* returns Ok, for any caller and after any errors.                         *)
AckedIsStored == \A i \in 1..Len(acked) : acked[i] \in Stored

(* TiberiusAppender keeps the promise of an appender: all that was sent     *)
(* becomes visible at finish() and not before, each row once, or nothing.   *)
Promise == INSTANCE TableAppend WITH
             pending <- sent,
             session <- IF appender = "none" THEN "closed" ELSE "open"

AllOrNothing == Promise!Spec
=============================================================================
