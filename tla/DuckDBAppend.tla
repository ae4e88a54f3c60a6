---------------------------- MODULE DuckDBAppend ----------------------------
(***************************************************************************)
(* DuckDBAppender (duckdb/append.rs): rows go one by one into DuckDB's      *)
(* Appender, which keeps them in a buffer and flushes it into the table     *)
(* when it is full and once more when it is dropped.  finish() itself does  *)
(* nothing: it returns Ok(()) and drops the Appender, and an error of that  *)
(* last flush is lost.  Dropping the appender without finish() is the same. *)
(***************************************************************************)
EXTENDS Naturals, Sequences

CONSTANTS
  FlushCount,  \* rows at which DuckDB's Appender flushes by itself
  BatchRows,   \* the numbers of rows of a batch
  Refusals,    \* subset of BOOLEAN: may a flush violate a constraint
  MaxRows,     \* bound on the rows given in all
  MaxAppenders \* bound on the appenders opened

ASSUME DuckDBAppendAssumption ==
  /\ FlushCount \in Nat \ {0}
  /\ BatchRows \subseteq Nat
  /\ Refusals \subseteq BOOLEAN
  /\ MaxRows \in Nat
  /\ MaxAppenders \in Nat

VARIABLES
  refusing,  \* does this table have a constraint that rows may violate
  table,     \* the rows of the table; each flush commits by itself
  buffer,    \* rows in DuckDB's Appender
  appender,  \* "none" or "open"
  remaining, \* rows append() has still to append
  failed,    \* has append() returned an error
  given,     \* history: rows given to append_row so far
  own,       \* history: the rows of the open appender
  opened,    \* history: appenders opened so far
  acked      \* history: rows of all appenders whose finish() returned Ok

vars == << refusing, table, buffer, appender, remaining, failed, given, own, opened,
           acked >>

Init ==
  /\ refusing \in Refusals
  /\ table = <<>>
  /\ buffer = <<>>
  /\ appender = "none"
  /\ remaining = 0
  /\ failed = FALSE
  /\ given = 0
  /\ own = <<>>
  /\ opened = 0
  /\ acked = <<>>

(* DuckDB's Appender (external): rows are flushed together or, when one of  *)
(* them is refused, not at all.                                             *)
FlushOk(rows) == table' = table \o rows
FlushRefused == refusing /\ UNCHANGED table

(* Connector::append *)
Open ==
  /\ appender = "none"
  /\ opened < MaxAppenders                         \* bound
  /\ opened' = opened + 1
  /\ own' = <<>>
  /\ appender' = "open"
  /\ failed' = FALSE
  /\ UNCHANGED << refusing, table, buffer, remaining, given, acked >>

\* Mutant: the loop runs once too often.
AppendBatchOneMore(n) ==
  /\ appender = "open"
  /\ remaining = 0
  /\ ~failed
  /\ given + n <= MaxRows                          \* bound
  /\ remaining' = n + 1
  /\ UNCHANGED << refusing, table, buffer, appender, failed, given, own, opened, acked >>

(* append() is given a batch. *)
AppendBatch(n) ==
  /\ appender = "open"
  /\ remaining = 0
  /\ ~failed
  /\ given + n <= MaxRows                          \* bound
  /\ remaining' = n
  /\ UNCHANGED << refusing, table, buffer, appender, failed, given, own, opened, acked >>

(* DuckDB's append_row (external); a full buffer is flushed. *)
AddToBuffer(row) ==
  LET rows == Append(buffer, row) IN
    IF Len(rows) < FlushCount
    THEN buffer' = rows /\ UNCHANGED table
    ELSE buffer' = <<>> /\ FlushOk(rows)

\* Mutants: the loop stops one row early, or starts at the row before.
AppendRowStops ==
  /\ remaining > 0
  /\ remaining' = remaining - 1
  /\ given' = given + 1
  /\ own' = Append(own, given')
  /\ IF remaining = 1 THEN UNCHANGED << buffer, table >> ELSE AddToBuffer(given')
  /\ UNCHANGED << refusing, appender, failed, opened, acked >>

AppendRowRepeats ==
  /\ remaining > 0
  /\ remaining' = remaining - 1
  /\ given' = given + 1
  /\ own' = Append(own, given')
  /\ AddToBuffer(IF given > 0 THEN given ELSE given')
  /\ UNCHANGED << refusing, appender, failed, opened, acked >>

(* append_row, in the loop over the batch's rows. *)
AppendRow ==
  /\ remaining > 0
  /\ remaining' = remaining - 1
  /\ given' = given + 1
  /\ own' = Append(own, given')
  /\ AddToBuffer(given')
  /\ UNCHANGED << refusing, appender, failed, opened, acked >>

(* append_row fails in that flush; `?` leaves append(). *)
AppendRowFails ==
  /\ remaining > 0
  /\ Len(buffer) + 1 = FlushCount
  /\ FlushRefused
  /\ given' = given + 1
  /\ own' = Append(own, given')
  /\ buffer' = <<>>
  /\ remaining' = 0
  /\ failed' = TRUE
  /\ UNCHANGED << refusing, appender, opened, acked >>

(* Drop of DuckDB's Appender: the last flush, its error ignored. *)
DropInner ==
  /\ FlushOk(buffer) \/ FlushRefused
  /\ buffer' = <<>>
  /\ appender' = "none"
  /\ remaining' = 0
  /\ UNCHANGED << refusing, failed, given, own, opened >>

(* finish() *)
Finish ==
  /\ appender = "open"
  /\ remaining = 0
  /\ ~failed
  /\ DropInner
  /\ acked' = acked \o own

DropAppender ==
  /\ appender = "open"
  /\ DropInner
  /\ UNCHANGED acked

Next ==
  \/ Open
  \/ \E n \in BatchRows : AppendBatch(n)
  \/ AppendRow
  \/ AppendRowFails
  \/ Finish
  \/ DropAppender

Spec == Init /\ [][Next]_vars

-----------------------------------------------------------------------------
(* Every variable has its type. *)
TypeOK ==
  /\ refusing \in Refusals
  /\ table \in Seq(1..MaxRows)
  /\ buffer \in Seq(1..MaxRows)
  /\ appender \in {"none", "open"}
  /\ remaining \in Nat
  /\ failed \in BOOLEAN
  /\ given \in 0..MaxRows
  /\ own \in Seq(1..MaxRows)
  /\ opened \in 0..MaxAppenders
  /\ acked \in Seq(1..MaxRows)

(* While no constraint refuses a row, every row given to append_row is in   *)
(* the table or in the buffer of the open appender, once and in order: also *)
(* the rows of an appender that was dropped without finish().               *)
NothingLost ==
  /\ ~refusing => table \o buffer = [i \in 1..given |-> i]
  /\ appender = "none" => buffer = <<>>

(* No row is written twice or out of order, whichever flushes are refused.  *)
NoRowTwice ==
  LET rows == table \o buffer
  IN \A i, j \in 1..Len(rows) : i < j => rows[i] < rows[j]

(* api.rs:78: an appender receives batches "that have to be written to a    *)
(* table": once finish() returned Ok they are written.                      *)
FinishedIsWritten ==
  \A i \in 1..Len(acked) : \E j \in 1..Len(table) : table[j] = acked[i]

(* Every row that append_row accepted is kept, once and in order: all of    *)
(* them while nothing is refused, and never one a second time.              *)
RowsKept == NothingLost /\ NoRowTwice
=============================================================================
