---------------------------- MODULE SqliteQuery ----------------------------
(***************************************************************************)
(* start_batch of SQLiteStatement (sqlite/query.rs) and the ArrowReader it  *)
(* returns (util/arrow_reader.rs).  SQLite's values have types, its columns *)
(* have none: start_batch fetches all rows, infers the type of each column  *)
(* from the first values that are not null, and only then moves the cells   *)
(* into an ArrowRowWriter (collect_rows_to_arrow of util/row_collect.rs).   *)
(*                                                                         *)
(* The statement is a SELECT * that was prepared earlier: another client    *)
(* may alter the table in between.  SQLite notices when the statement is    *)
(* stepped, and only then do the statement's column count and names follow. *)
(***************************************************************************)
EXTENDS Naturals, Sequences

CONSTANTS
  Widths,     \* the numbers of columns the table may have
  Kinds,      \* the kinds of values that are not null (rusqlite's Type)
  MaxRows,    \* bound on the rows of the table
  MaxStarts,  \* bound on the calls of start_batch
  None

ASSUME SqliteQueryAssumption ==
  /\ Widths \subseteq Nat \ {0}
  /\ \E w \in Widths : \A v \in Widths : v <= w
  /\ "Null" \notin Kinds
  /\ MaxRows \in Nat
  /\ MaxStarts \in Nat
  /\ \A n \in Widths \cup {0} : None \notin [1..n -> Seq(Nat \X Nat)]

VARIABLES
  table,         \* the rows of the table: the kinds of their values
  columns,       \* how many columns the table has at present
  prepared,      \* how many the statement has, as of its last step
  phase,         \* where start_batch and the reader are
  starts,        \* history: calls of start_batch
  column_count,  \* local of start_batch
  rows,          \* the rows fetched
  types,         \* the schema's types
  inner,         \* the batches ArrowReader still has
  delivered,     \* history: the rows of the batches returned
  outcome        \* what the last call of next() returned

\* the ArrowRowWriter of collect_rows_to_arrow
VARIABLES schema, min_batch_size, data, builders, rows_reserved, rows_capacity,
          row_count, next_row, next_col, written, status

writerVars == << schema, min_batch_size, data, builders, rows_reserved, rows_capacity,
                 row_count, next_row, next_col, written, status >>
readerVars == << inner, delivered, outcome >>
vars == << table, columns, prepared, phase, starts, column_count, rows, types,
           readerVars, writerVars >>

W == INSTANCE RowWriter WITH
       ColCounts     <- Widths \cup {0},
       MinBatchSizes <- 0..MaxRows,
       RowCounts     <- {1}

Value == Kinds \cup {"Null"}

(* A new column takes whatever values others then give it: a row has values *)
(* for the most columns the table can have, of which the first are there.   *)
MaxWidth == CHOOSE w \in Widths : \A v \in Widths : v <= w

Tables == UNION { [1..n -> [1..MaxWidth -> Value]] : n \in 0..MaxRows }

Init ==
  /\ table \in Tables
  /\ columns \in Widths
  /\ prepared = columns
  /\ phase = "idle"
  /\ starts = 0
  /\ column_count = 0
  /\ rows = <<>>
  /\ types = <<>>
  /\ inner = <<>> /\ delivered = <<>> /\ outcome = "nothing"
  /\ schema = 0 /\ min_batch_size = 0
  /\ data = <<>> /\ builders = None
  /\ rows_reserved = 0 /\ rows_capacity = 0
  /\ row_count = 0 /\ next_row = 0 /\ next_col = 0
  /\ written = 0
  /\ status = "open"

-----------------------------------------------------------------------------
(* Another client adds or drops a column (external).  A statement that is   *)
(* being stepped holds a read transaction.                                  *)
AlterTable ==
  /\ phase # "stepping"
  /\ \E w \in Widths \ {columns} : columns' = w
  /\ UNCHANGED << table, prepared, phase, starts, column_count, rows, types,
                  readerVars, writerVars >>

\* Mutant: the rows of a call that failed are kept.
StartBatchKeepsRows ==
  /\ phase = "idle"
  /\ starts < MaxStarts
  /\ starts' = starts + 1
  /\ column_count' = prepared
  /\ phase' = "stepping"
  /\ UNCHANGED << table, columns, prepared, rows, types, readerVars, writerVars >>

(* start_batch is called: the column count is read before the first step.   *)
(* After an Err the caller may call it again.                               *)
StartBatch ==
  /\ phase = "idle"
  /\ starts < MaxStarts                            \* bound
  /\ starts' = starts + 1
  /\ column_count' = prepared
  /\ rows' = <<>>
  /\ phase' = "stepping"
  /\ UNCHANGED << table, columns, prepared, types, readerVars, writerVars >>

Known(c, n) == \E i \in 1..n : rows[i][c] # "Null"

\* Mutant: all_known says whether the last column is known.
LastKnown(n) == Known(column_count, n)

(* all_known after n rows *)
AllKnown(n) == \A c \in 1..column_count : Known(c, n)

(* The rows infer_schema looks at: up to the one where all types are known. *)
Scanned == CHOOSE n \in 0..Len(rows) :
             /\ n = Len(rows) \/ (n > 0 /\ AllKnown(n))
             /\ \A k \in 1..(n - 1) : ~AllKnown(k)

(* A column's type is the kind of its first value that is not null, and     *)
(* Null without one.                                                        *)
Infer(c) ==
  IF Known(c, Scanned)
  THEN rows[CHOOSE i \in 1..Scanned : rows[i][c] # "Null" /\ ~Known(c, i - 1)][c]
  ELSE "Null"

\* Mutant: a column is nullable if a null was seen in it.
NullableIfSeen(c) == \E i \in 1..Scanned : rows[i][c] = "Null"

(* "dynamic type system FTW" *)
Nullable(c) == TRUE

\* Mutant: names and types are paired up to the shorter of the two.
NamesFitAny == TRUE

(* zip_eq(column_names, types) panics unless there are as many of both. *)
NamesFit == prepared' = column_count

(* The fields, and a writer of row_count rows to collect them in. *)
Collect ==
  /\ IF NamesFit
     THEN /\ types' = [c \in 1..column_count |-> Infer(c)]
          /\ schema' = column_count
          /\ min_batch_size' = Len(rows)
          /\ phase' = "rows"
     ELSE phase' = "panicked" /\ UNCHANGED << types, schema, min_batch_size >>
  /\ UNCHANGED << table, columns, starts, column_count, rows, readerVars, data, builders,
                  rows_reserved, rows_capacity, row_count, next_row, next_col, written,
                  status >>

-----------------------------------------------------------------------------
(* rows_iter.next() steps the statement: here SQLite notices the change.    *)
Step ==
  /\ phase = "stepping"
  /\ prepared' = columns

(* A row: column_count values are taken from it, and get().unwrap() panics  *)
(* when it has fewer.                                                       *)
FetchRow ==
  /\ Step
  /\ Len(rows) < Len(table)
  /\ IF column_count <= columns
     THEN /\ rows' = Append(rows, [c \in 1..column_count |-> table[Len(rows) + 1][c]])
          /\ UNCHANGED phase
     ELSE phase' = "panicked" /\ UNCHANGED rows
  /\ UNCHANGED << table, columns, starts, column_count, types, readerVars, writerVars >>

\* Mutant: an error is taken for the end of the rows.
FetchStops == Step /\ Collect

(* query() or next() fails, before or after SQLite has seen the change:     *)
(* start_batch returns Err through `?`.                                     *)
FetchFails ==
  /\ phase = "stepping"
  /\ prepared' \in {prepared, columns}
  /\ phase' = "idle"
  /\ UNCHANGED << table, columns, starts, column_count, rows, types, readerVars, writerVars >>

(* There are no more rows. *)
InferSchema ==
  /\ Step
  /\ Len(rows) = Len(table)
  /\ Collect

-----------------------------------------------------------------------------
(* next_row() of SQLiteRowsReader yields a row: reserve it. *)
NextRow ==
  /\ phase = "rows"
  /\ written < Len(rows)
  /\ W!PrepareForBatch(1)
  /\ phase' = "cells"
  /\ UNCHANGED << table, columns, prepared, starts, column_count, rows, types, readerVars >>

Cell == rows[written + 1][next_col + 1]

(* produce_opt() takes a null and a value of the column's type; a column of *)
(* type Null is not read at all.                                            *)
Produces(c, value) ==
  \/ types[c] = "Null"
  \/ value = "Null" /\ Nullable(c)
  \/ value = types[c]

Transport ==
  /\ phase = "cells"
  /\ Produces(next_col + 1, Cell)
  /\ W!ConsumeCell
  /\ phase' = IF next_row' = row_count THEN "rows" ELSE "cells"
  /\ UNCHANGED << table, columns, prepared, starts, column_count, rows, types, readerVars >>

(* panic!("SQLite schema not inferred correctly") *)
TransportPanics ==
  /\ phase = "cells"
  /\ ~Produces(next_col + 1, Cell)
  /\ W!Drop
  /\ phase' = "panicked"
  /\ UNCHANGED << table, columns, prepared, starts, column_count, rows, types, readerVars >>

(* finish() of the writer, and ArrowReader::new. *)
FinishRows ==
  /\ phase = "rows"
  /\ written = Len(rows)
  /\ W!Finish
  /\ inner' = data'
  /\ phase' = IF status' = "finished" THEN "reading" ELSE status'
  /\ UNCHANGED << table, columns, prepared, starts, column_count, rows, types,
                  delivered, outcome >>

(* next() of ArrowReader *)
NextBatch ==
  /\ phase = "reading"
  /\ IF inner = <<>>
     THEN outcome' = "end" /\ UNCHANGED << inner, delivered >>
     ELSE /\ inner' = Tail(inner)
          /\ delivered' = delivered \o
               [i \in 1..Len(Head(inner)[1]) |-> Head(inner)[1][i][1]]
          /\ outcome' = "batch"
  /\ UNCHANGED << table, columns, prepared, phase, starts, column_count, rows, types,
                  writerVars >>

Next ==
  \/ AlterTable
  \/ StartBatch
  \/ FetchRow
  \/ FetchFails
  \/ InferSchema
  \/ NextRow
  \/ Transport
  \/ TransportPanics
  \/ FinishRows
  \/ NextBatch

Spec == Init /\ [][Next]_vars

-----------------------------------------------------------------------------
(* The variables have their types; the schema has one type per column.      *)
TypeOK ==
  /\ table \in Tables
  /\ columns \in Widths /\ prepared \in Widths
  /\ phase \in {"idle", "stepping", "rows", "cells", "reading", "panicked"}
  /\ starts \in 0..MaxStarts
  /\ column_count \in Widths \cup {0}
  /\ rows \in Seq([1..column_count -> Value])
  /\ types \in Seq(Value)
  /\ outcome \in {"nothing", "batch", "end"}
  /\ inner \in Seq(W!Batches(schema))
  /\ W!TypeOK

(* What a caller reads in row r and column c of the result: a column of     *)
(* type Null holds nulls, whatever was in the table.                        *)
Read(r, c) == IF types[c] = "Null" THEN "Null" ELSE rows[r][c]

(* The result is the table: it has every column that the table had when its *)
(* rows were fetched, also when the statement was prepared for others, and  *)
(* every value in its place.  That infer_schema stops early, and that a     *)
(* column of type Null is never read, loses nothing.                        *)
ResultIsTable ==
  outcome = "end" =>
    /\ Len(types) = prepared
    /\ \A r \in 1..Len(table), c \in 1..prepared : Read(r, c) = table[r][c]

(* start_batch panics only if a column has values of two kinds, which the   *)
(* library itself never writes, or if the table was altered after the       *)
(* statement was prepared: not over nulls, in whatever rows they are.       *)
PanicsOnlyIfMixedOrAltered ==
  phase = "panicked" =>
    \/ prepared # column_count
    \/ \E c \in 1..column_count : \E i, j \in 1..Len(rows) :
         /\ rows[i][c] # rows[j][c]
         /\ "Null" \notin {rows[i][c], rows[j][c]}

(* ArrowReader keeps the same promise as the streaming readers: all rows in *)
(* order, and an end only behind the last one.  start_batch that fails, and *)
(* is called again, leaves nothing behind.                                  *)
Promise == INSTANCE RowDelivery WITH
             Sizes <- 0..MaxRows,
             size  <- Len(table),
             total <- Len(table),
             next  <- Len(delivered) + 1

DeliversRows == Promise!Spec
=============================================================================
