----------------------------- MODULE SqlAppend -----------------------------
(***************************************************************************)
(* SQLiteAppender and MySQLAppender (sqlite/append.rs, mysql/append.rs).    *)
(* Both insert a batch by statements of BATCH_SIZE rows and one statement   *)
(* for the remainder, inside a transaction that finish() commits.  They     *)
(* differ in what becomes of the transaction of an appender that is dropped *)
(* without finish(): rusqlite's Transaction rolls back, MySQLAppender       *)
(* leaves it open on the connection, where the next START TRANSACTION or    *)
(* DDL statement commits it (the server's implicit commit).                 *)
(*                                                                         *)
(* Rows are numbered in the order the appenders are given them.             *)
(***************************************************************************)
EXTENDS Naturals, Sequences

CONSTANTS
  Databases,    \* subset of {"sqlite", "mysql"}
  Clients,      \* subset of {"careful", "careless"}
  BATCH_SIZE,   \* rows per statement (30 in the code)
  BatchRows,    \* the row counts of the batches given to append()
  MaxRows,      \* bound on the rows given in all
  MaxAppenders  \* bound on the appenders opened

ASSUME SqlAppendAssumption ==
  /\ Databases \subseteq {"sqlite", "mysql"}
  /\ Clients \subseteq {"careful", "careless"}
  /\ BATCH_SIZE \in Nat \ {0}
  /\ BatchRows \subseteq Nat
  /\ MaxRows \in Nat
  /\ MaxAppenders \in Nat

VARIABLES
  db,
  client,      \* "careful": drops the appender at the first error, as `?` does
  table,       \* the committed rows, as other connections see them
  txn,         \* is a transaction open on the connection
  inserted,    \* the rows inserted in the open transaction
  connection,  \* "up" or "down"
  appender,    \* "none" or "open"
  call,        \* "idle", or inside append()
  batch,       \* the rows of the batch being appended
  batch_number,
  failed,      \* has a call of the open appender returned an error
  given,       \* history: rows given to append() so far
  opened,      \* history: the value of given when each appender was opened
  accepted,    \* history: rows of the appends of this appender that returned Ok
  acked        \* history: rows of all appenders whose finish() returned Ok

connVars == << table, txn, inserted, connection >>
callVars == << call, batch, batch_number >>
vars == << db, client, connVars, appender, callVars, failed, given, opened,
           accepted, acked >>

Init ==
  /\ db \in Databases
  /\ client \in Clients
  /\ table = <<>>
  /\ txn = "none"
  /\ inserted = <<>>
  /\ connection = "up"
  /\ appender = "none"
  /\ call = "idle"
  /\ batch = <<>>
  /\ batch_number = 0
  /\ failed = FALSE
  /\ given = 0
  /\ opened = <<>>
  /\ accepted = <<>>
  /\ acked = <<>>

-----------------------------------------------------------------------------
(* The database (external).                                                 *)

(* An INSERT in the open transaction, or committed at once without one.     *)
Insert(rows) ==
  /\ IF txn = "open"
     THEN inserted' = inserted \o rows /\ UNCHANGED table
     ELSE table' = table \o rows /\ UNCHANGED inserted
  /\ UNCHANGED << txn, connection >>

CommitTxn ==
  /\ table' = table \o inserted
  /\ inserted' = <<>>
  /\ txn' = "none"
  /\ UNCHANGED connection

RollbackTxn ==
  /\ inserted' = <<>>
  /\ txn' = "none"
  /\ UNCHANGED << table, connection >>

(* A failing INSERT inserts nothing; some errors (disk full and I/O errors  *)
(* in SQLite, a deadlock in MySQL) also end the whole transaction.          *)
InsertError == UNCHANGED connVars \/ RollbackTxn

-----------------------------------------------------------------------------
(* Opening an appender: Connector::append.                                  *)

NewAppender ==
  /\ connection = "up"
  /\ appender = "none"
  /\ Len(opened) < MaxAppenders                    \* bound
  /\ appender' = "open"
  /\ failed' = FALSE
  /\ opened' = Append(opened, given)
  /\ accepted' = <<>>
  /\ UNCHANGED << db, client, callVars, given, acked >>

\* Mutant: no transaction is begun.
BeginNothing ==
  /\ db = "sqlite"
  /\ UNCHANGED connVars
  /\ NewAppender

(* sqlite: conn.transaction() *)
BeginSQLite ==
  /\ db = "sqlite"
  /\ txn = "none"
  /\ txn' = "open"
  /\ UNCHANGED << table, inserted, connection >>
  /\ NewAppender

(* mysql: START TRANSACTION commits what an earlier appender left open. *)
StartTransaction ==
  /\ db = "mysql"
  /\ table' = table \o inserted
  /\ inserted' = <<>>
  /\ txn' = "open"
  /\ UNCHANGED connection
  /\ NewAppender

-----------------------------------------------------------------------------
(* append(): full statements, then one for the remainder.                   *)

MayCall ==
  /\ appender = "open"
  /\ call = "idle"
  /\ client = "careful" => ~failed

full_batches == Len(batch) \div BATCH_SIZE
last_batch_size == Len(batch) % BATCH_SIZE

\* Mutant: the remainder is taken from the start of the batch.
RemainderFromStart ==
  IF batch_number < full_batches
  THEN SubSeq(batch, batch_number * BATCH_SIZE + 1, (batch_number + 1) * BATCH_SIZE)
  ELSE SubSeq(batch, 1, last_batch_size)

(* rows_range of the next statement *)
NextStatement ==
  IF batch_number < full_batches
  THEN SubSeq(batch, batch_number * BATCH_SIZE + 1, (batch_number + 1) * BATCH_SIZE)
  ELSE SubSeq(batch, Len(batch) - last_batch_size + 1, Len(batch))

AppendBatch(n) ==
  /\ MayCall
  /\ connection = "up"
  /\ given + n <= MaxRows                          \* bound
  /\ given' = given + n
  /\ call' = "append"
  /\ batch' = [i \in 1..n |-> given + i]
  /\ batch_number' = 0
  /\ UNCHANGED << db, client, connVars, appender, failed, opened, accepted, acked >>

(* append() returns: its locals go out of scope. *)
Return ==
  /\ call' = "idle"
  /\ batch' = <<>>
  /\ batch_number' = 0

\* Mutant: the statement for the remainder is executed even when there is none.
AlwaysRemainder == batch_number <= full_batches

(* Another statement remains to be executed. *)
Unfinished ==
  \/ batch_number < full_batches
  \/ batch_number = full_batches /\ last_batch_size > 0

InsertStatement ==
  /\ call = "append"
  /\ connection = "up"
  /\ Unfinished
  /\ Insert(NextStatement)
  /\ batch_number' = batch_number + 1
  /\ UNCHANGED << db, client, appender, call, batch, failed, given, opened, accepted, acked >>

\* Mutant: the error is ignored.
IgnoreInsertError ==
  /\ call = "append"
  /\ Unfinished
  /\ InsertError
  /\ Return
  /\ accepted' = accepted \o batch
  /\ UNCHANGED << db, client, appender, failed, given, opened, acked >>

(* execute() fails: `?` leaves append(), the earlier statements stay. *)
InsertFails ==
  /\ call = "append"
  /\ Unfinished
  /\ InsertError
  /\ Return
  /\ failed' = TRUE
  /\ UNCHANGED << db, client, appender, given, opened, accepted, acked >>

AppendReturns ==
  /\ call = "append"
  /\ ~Unfinished
  /\ Return
  /\ accepted' = accepted \o batch
  /\ UNCHANGED << db, client, connVars, appender, failed, given, opened, acked >>

-----------------------------------------------------------------------------
(* finish() and drop.                                                       *)

CloseAppender ==
  /\ appender' = "none"
  /\ Return
  /\ failed' = FALSE
  /\ accepted' = <<>>
  /\ UNCHANGED << db, client, given, opened >>

(* COMMIT succeeds.  Without a transaction SQLite has nothing to commit and *)
(* says so; for MySQL it is then a statement without effect.                *)
Finish ==
  /\ MayCall
  /\ connection = "up"
  /\ txn = "open" \/ db = "mysql"
  /\ CommitTxn
  /\ acked' = acked \o accepted
  /\ CloseAppender

(* COMMIT fails.  rusqlite then rolls back when it drops the transaction;   *)
(* for MySQL it means that the connection was lost, before the commit or    *)
(* before its answer.                                                       *)
FinishFails ==
  /\ MayCall
  /\ \/ db = "sqlite" /\ RollbackTxn
     \/ /\ db = "mysql"
        /\ connection' = "down"
        /\ table' \in {table, table \o inserted}
        /\ inserted' = <<>>
        /\ txn' = "none"
  /\ CloseAppender
  /\ UNCHANGED acked

(* The appender is dropped without finish(), after an error, by a panic     *)
(* inside append() or because the caller returned.                          *)
DropAppender ==
  /\ appender = "open"
  /\ IF db = "sqlite" THEN RollbackTxn ELSE UNCHANGED connVars
  /\ CloseAppender
  /\ UNCHANGED acked

(* table_create or table_drop of another table on the same connection:      *)
(* MySQL commits the open transaction first.                                *)
OtherDDL ==
  /\ db = "mysql"
  /\ connection = "up"
  /\ appender = "none"
  /\ txn = "open"
  /\ CommitTxn
  /\ UNCHANGED << db, client, appender, callVars, failed, given, opened, accepted, acked >>

(* The connection ends (close, crash, network): the server rolls back. *)
Disconnect ==
  /\ connection = "up"
  /\ connection' = "down"
  /\ inserted' = <<>>
  /\ txn' = "none"
  /\ UNCHANGED << db, client, table, appender, callVars, failed, given, opened, accepted, acked >>

Next ==
  \/ BeginSQLite
  \/ StartTransaction
  \/ \E n \in BatchRows : AppendBatch(n)
  \/ InsertStatement
  \/ InsertFails
  \/ AppendReturns
  \/ Finish
  \/ FinishFails
  \/ DropAppender
  \/ OtherDDL
  \/ Disconnect

Spec == Init /\ [][Next]_vars

-----------------------------------------------------------------------------
RowIds == 1..MaxRows
Committed(row) == \E i \in 1..Len(table) : table[i] = row

(* Every variable has its type, and append() executes no more statements    *)
(* than the batch has rows for.                                             *)
TypeOK ==
  /\ db \in Databases
  /\ client \in Clients
  /\ table \in Seq(RowIds)
  /\ txn \in {"none", "open"}
  /\ inserted \in Seq(RowIds)
  /\ connection \in {"up", "down"}
  /\ appender \in {"none", "open"}
  /\ call \in {"idle", "append"}
  /\ batch \in Seq(RowIds)
  /\ batch_number \in Nat
  /\ batch_number * BATCH_SIZE < Len(batch) + BATCH_SIZE
  /\ failed \in BOOLEAN
  /\ given \in 0..MaxRows
  /\ opened \in Seq(0..MaxRows)
  /\ accepted \in Seq(RowIds)
  /\ acked \in Seq(RowIds)

(* The statements of an append() that returned Ok inserted each row of the  *)
(* batch exactly once and in order, whatever the remainder of its length by *)
(* BATCH_SIZE.                                                              *)
AcceptedIsInserted ==
  appender = "open" /\ call = "idle" /\ ~failed /\ txn = "open" => inserted = accepted

(* No row is committed twice or out of order, even by a caller who goes on  *)
(* after an error and even when the database ended the transaction.         *)
NoRowTwice == \A i, j \in 1..Len(table) : i < j => table[i] < table[j]

(* Once finish() returned Ok the rows of every accepted batch are committed,*)
(* in SQLite even if an error was ignored on the way.                       *)
AckedIsCommitted ==
  client = "careful" \/ db = "sqlite" =>
    \A i \in 1..Len(acked) : Committed(acked[i])

(* What is committed of one appender is a prefix of what it was given: a    *)
(* row without the rows before it is never committed, not even when an      *)
(* abandoned transaction is committed later.                                *)
PrefixCommitted ==
  client = "careful" =>
    \A i \in 1..Len(table) : \A row \in 1..table[i] :
      Committed(row) \/ \E k \in 1..Len(opened) : row <= opened[k] /\ opened[k] < table[i]

(* The table changes only by whole transactions, and never inside append(): *)
(* at finish(), or in MySQL when the next transaction or DDL statement      *)
(* commits what a dropped appender left behind.                             *)
CommitPoints ==
  [][client = "careful" /\ table' # table =>
       /\ table' = table \o inserted
       /\ call = "idle"
       /\ \/ appender = "open" /\ appender' = "none" /\ ~failed
          \/ appender = "none" /\ db = "mysql"]_vars

(* SQLiteAppender, with a caller who gives up at the first error, keeps the *)
(* promise of an appender: all batches or none.  (MySQL's does not: what a   *)
(* dropped appender left behind may be committed later.)  The other         *)
(* behaviours map to an appender that is never opened.                      *)
KeepsPromise == db = "sqlite" /\ client = "careful"

Promise == INSTANCE TableAppend WITH
             table <- IF KeepsPromise THEN table ELSE <<>>,
             pending <- IF KeepsPromise THEN inserted ELSE <<>>,
             session <- IF KeepsPromise /\ appender = "open" /\ txn = "open"
                        THEN "open" ELSE "closed"

AllOrNothing == Promise!Spec
=============================================================================
