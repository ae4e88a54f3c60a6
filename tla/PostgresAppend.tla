--------------------------- MODULE PostgresAppend ---------------------------
(***************************************************************************)
(* PostgresAppender (postgres/append.rs): COPY BINARY ... FROM stdin.  The  *)
(* appender starts as a plain CopyInWriter; the first append() turns it     *)
(* into a BinaryCopyInWriter whose number of columns is that of the first   *)
(* batch, also when that batch has no rows.  Rows are written one by one;   *)
(* the writer panics on a row of another width (an assertion in write_raw). *)
(* The server commits the rows when COPY ends well, and only then.          *)
(***************************************************************************)
EXTENDS Naturals, Sequences

CONSTANTS
  Width,       \* the number of columns of the table
  Widths,      \* the numbers of columns a batch may have
  BatchRows,   \* the numbers of rows of a batch
  MaxRows,     \* bound on the rows given in all
  MaxAppenders \* bound on the appenders opened

ASSUME PostgresAppendAssumption ==
  /\ Widths \subseteq Nat
  /\ Width \in Widths
  /\ BatchRows \subseteq Nat
  /\ MaxRows \in Nat
  /\ MaxAppenders \in Nat

VARIABLES
  table,     \* the committed rows
  writer,    \* enum Writer, and "none" when there is no appender
  types,     \* number of types the BinaryCopyInWriter was made with
  sent,      \* the rows written to the current COPY, each <<row, width>>
  batch,     \* what append() has still to write: number of rows and width
  outcome,   \* what the appender's last call did
  given,     \* history: rows given to append() so far
  opened,    \* history: appenders opened so far
  acked      \* history: rows of all appenders whose finish() returned Ok

vars == << table, writer, types, sent, batch, outcome, given, opened, acked >>

NoBatch == [rows |-> 0, width |-> 0]

Init ==
  /\ table = <<>>
  /\ writer = "none"
  /\ types = 0
  /\ sent = <<>>
  /\ batch = NoBatch
  /\ outcome = "ok"
  /\ given = 0
  /\ opened = 0
  /\ acked = <<>>

(* PostgresAppender::new: copy_in starts the COPY. *)
New ==
  /\ writer = "none"
  /\ opened < MaxAppenders                         \* bound
  /\ opened' = opened + 1
  /\ writer' = "Uninitialized"
  /\ outcome' = "ok"
  /\ UNCHANGED << table, types, sent, batch, given, acked >>

\* Mutant: the writer is not put back.
AsBinaryForgets(columns) ==
  /\ writer' = IF writer = "Uninitialized" THEN "Invalid" ELSE writer
  /\ types' = IF writer = "Uninitialized" THEN columns ELSE types

\* Mutant: the number of columns is taken from every batch.
AsBinaryEachTime(columns) ==
  /\ writer' = "Initialized"
  /\ types' = columns

(* Writer::as_binary: the first call fixes the number of columns.  Invalid  *)
(* exists only between mem::replace and the assignment; a later call would  *)
(* reach unreachable!() in that state.                                      *)
AsBinary(columns) ==
  /\ writer' = IF writer = "Uninitialized" THEN "Initialized" ELSE writer
  /\ types' = IF writer = "Uninitialized" THEN columns ELSE types

(* append(): take the writer, then write the rows one by one.  After an     *)
(* error the COPY has failed, and every later call returns that error: only *)
(* dropping the appender is left.                                           *)
AppendBatch(rows, width) ==
  /\ writer \in {"Uninitialized", "Initialized"}
  /\ batch = NoBatch
  /\ outcome = "ok"
  /\ given + rows <= MaxRows                       \* bound
  /\ AsBinary(width)
  /\ batch' = IF rows = 0 THEN NoBatch ELSE [rows |-> rows, width |-> width]
  /\ UNCHANGED << table, sent, outcome, given, opened, acked >>

\* Mutant: the row is written twice.
WriteRowTwice ==
  /\ batch # NoBatch
  /\ outcome = "ok"
  /\ batch.width = types
  /\ given' = given + 1
  /\ sent' = sent \o << <<given', batch.width>>, <<given', batch.width>> >>
  /\ batch' = IF batch.rows = 1 THEN NoBatch ELSE [batch EXCEPT !.rows = @ - 1]
  /\ UNCHANGED << table, writer, types, outcome, opened, acked >>

(* write_raw: the row is encoded into the buffer that goes to the server. *)
WriteRow ==
  /\ batch # NoBatch
  /\ outcome = "ok"
  /\ batch.width = types
  /\ given' = given + 1
  /\ sent' = Append(sent, <<given', batch.width>>)
  /\ batch' = IF batch.rows = 1 THEN NoBatch ELSE [batch EXCEPT !.rows = @ - 1]
  /\ UNCHANGED << table, writer, types, outcome, opened, acked >>

(* write_raw: the assertion on the number of values, or unimplemented!() of *)
(* a cell that has no encoding (an interval).                               *)
WriteRowPanics ==
  /\ batch # NoBatch
  /\ outcome = "ok"
  /\ outcome' = "panicked"
  /\ UNCHANGED << table, writer, types, sent, batch, given, opened, acked >>

(* write_raw: the server or the connection has failed. *)
WriteRowFails ==
  /\ batch # NoBatch
  /\ outcome = "ok"
  /\ batch.width = types
  /\ outcome' = "error"
  /\ batch' = NoBatch
  /\ UNCHANGED << table, writer, types, sent, given, opened, acked >>

Close ==
  /\ writer' = "none"
  /\ types' = 0
  /\ sent' = <<>>
  /\ batch' = NoBatch
  /\ UNCHANGED << given, opened >>

(* The server (external) accepts a COPY whose rows all have the table's     *)
(* number of columns, and then may still refuse it for what is in them.     *)
Acceptable == \A i \in 1..Len(sent) : sent[i][2] = Width

Rows == [i \in 1..Len(sent) |-> sent[i][1]]

(* finish(): an appender that was given nothing is initialised with no      *)
(* columns, so that the COPY is ended properly.                             *)
Finish ==
  /\ writer \in {"Uninitialized", "Initialized"}
  /\ batch = NoBatch
  /\ outcome = "ok"
  /\ Acceptable
  /\ table' = table \o Rows
  /\ acked' = acked \o Rows
  /\ outcome' = "ok"
  /\ Close

(* finish() returns an error: the server refuses the COPY, or the           *)
(* connection is lost, and then the server may have committed the rows      *)
(* before its answer could arrive.                                          *)
FinishFails ==
  /\ writer \in {"Uninitialized", "Initialized"}
  /\ batch = NoBatch
  /\ outcome = "ok"
  /\ outcome' = "error"
  /\ Close
  /\ \/ UNCHANGED table
     \/ Acceptable /\ table' = table \o Rows
  /\ UNCHANGED acked

(* Dropped without finish(), after an error, while a panic unwinds or       *)
(* because the caller returned: the COPY fails.                             *)
DropAppender ==
  /\ writer # "none"
  /\ outcome' = "ok"
  /\ Close
  /\ UNCHANGED << table, acked >>

Next ==
  \/ New
  \/ \E rows \in BatchRows, width \in Widths : AppendBatch(rows, width)
  \/ WriteRow
  \/ WriteRowPanics
  \/ WriteRowFails
  \/ Finish
  \/ FinishFails
  \/ DropAppender

Spec == Init /\ [][Next]_vars

-----------------------------------------------------------------------------
(* Every variable has its type. *)
TypeOK ==
  /\ table \in Seq(1..MaxRows)
  /\ writer \in {"none", "Uninitialized", "Initialized"}
  /\ types \in Widths \cup {0}
  /\ sent \in Seq((1..MaxRows) \X Widths)
  /\ batch \in [rows : Nat, width : Widths \cup {0}]
  /\ outcome \in {"ok", "error", "panicked"}
  /\ given \in 0..MaxRows
  /\ opened \in 0..MaxAppenders
  /\ acked \in Seq(1..MaxRows)

(* Every row of one COPY has the width its writer was made with, that of    *)
(* the appender's first batch: a mixed stream cannot be decoded by the      *)
(* server.  The panic on a batch of another width leaves no such row behind.*)
OneWidth ==
  \A i \in 1..Len(sent) : writer = "Initialized" /\ sent[i][2] = types

(* The rows for which finish() returned Ok are in the table, and every row  *)
(* of the table is there once and in order.  Rows whose finish() returned   *)
(* an error may be there too, when the answer of the server was lost.       *)
AckedIsStored ==
  /\ \A i \in 1..Len(acked) : \E j \in 1..Len(table) : table[j] = acked[i]
  /\ \A i, j \in 1..Len(table) : i < j => table[i] < table[j]

(* PostgresAppender keeps the promise of an appender: all batches or none,  *)
(* also after an error or a panic in the middle of a batch, and when the    *)
(* answer to finish() is lost.                                              *)
Promise == INSTANCE TableAppend WITH
             pending <- Rows,
             session <- IF writer = "none" THEN "closed" ELSE "open"

AllOrNothing == Promise!Spec
=============================================================================
