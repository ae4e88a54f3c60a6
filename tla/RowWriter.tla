----------------------------- MODULE RowWriter -----------------------------
(***************************************************************************)
(* ArrowRowWriter and its Organizer (util/row_writer.rs): cells arrive one  *)
(* by one, in row-major order, and leave as column-major record batches.    *)
(*                                                                         *)
(* A cell is labelled with the place it has in the input, <<row, column>>,  *)
(* so that a lost, doubled, swapped or misplaced cell is visible in the     *)
(* batches; the writer never looks at a value.  A record batch is a         *)
(* function from columns to the sequence of cells of that column.           *)
(***************************************************************************)
EXTENDS Naturals, Sequences

CONSTANTS
  ColCounts,      \* the numbers of columns a schema may have
  MinBatchSizes,  \* the values of min_batch_size
  RowCounts,      \* the row counts prepare_for_batch is called with
  MaxRows,        \* bound on the rows written to one writer
  None            \* Option::None

Cell == Nat \X Nat
Batches(n) == [1..n -> Seq(Cell)]

ASSUME RowWriterAssumption ==
  /\ ColCounts \subseteq Nat
  /\ MinBatchSizes \subseteq Nat
  /\ RowCounts \subseteq Nat
  /\ MaxRows \in Nat
  /\ \A n \in ColCounts : None \notin Batches(n)

VARIABLES
  schema,          \* number of fields of the schema
  min_batch_size,
  data,            \* Vec<RecordBatch>: the batches flushed so far
  builders,        \* Option<Vec<ArrayBuilder>>: cells of the batch being built
  rows_reserved,
  rows_capacity,
  row_count,       \* Organizer
  next_row,        \* Organizer
  next_col,        \* Organizer, counted from 0
  written,         \* history: complete rows written
  status           \* what became of the writer

vars == << schema, min_batch_size, data, builders, rows_reserved, rows_capacity,
           row_count, next_row, next_col, written, status >>

Cols == 1..schema

Status == {"open", "finished", "failed", "panicked", "dropped"}

-----------------------------------------------------------------------------

(* ArrowRowWriter::new *)
Init ==
  /\ schema \in ColCounts
  /\ min_batch_size \in MinBatchSizes
  /\ data = <<>>
  /\ builders = None
  /\ rows_reserved = 0
  /\ rows_capacity = 0
  /\ row_count = 0
  /\ next_row = 0
  /\ next_col = 0
  /\ written = 0
  /\ status = "open"

(***************************************************************************)
(* The callers (row_collect.rs, params.rs) announce a number of rows, write *)
(* exactly the cells of those rows, and only then announce more or finish.  *)
(* The Organizer counts the rows but does not enforce this; a schema with   *)
(* no columns has no cells to wait for.                                     *)
(***************************************************************************)
RowsComplete == next_row = row_count \/ schema = 0

(* flush(): every column is sliced to rows_reserved.  Slicing panics when a *)
(* column is shorter, and RecordBatch::try_new refuses a batch without      *)
(* columns.  Without builders there is nothing to do.                       *)
ColumnTooShort == \E c \in Cols : Len(builders[c]) < rows_reserved

\* Mutant: a batch without columns is let through.
FlushNeverFails ==
  IF builders # None /\ ColumnTooShort THEN "panicked" ELSE "open"

FlushOutcome ==
  IF builders = None THEN "open"
  ELSE IF ColumnTooShort THEN "panicked"
  ELSE IF schema = 0 THEN "failed"
  ELSE "open"

\* Mutant: a batch that is not full is not flushed.
FlushFullOnly ==
  data' = IF builders = None \/ rows_reserved < min_batch_size
          THEN data
          ELSE Append(data, [c \in Cols |-> SubSeq(builders[c], 1, rows_reserved)])

\* Mutant: the last column is left out.
FlushSkipsColumn ==
  data' = IF builders = None
          THEN data
          ELSE Append(data, [c \in 1..(schema - 1) |-> SubSeq(builders[c], 1, rows_reserved)])

Flush ==
  data' = IF builders = None
          THEN data
          ELSE Append(data, [c \in Cols |-> SubSeq(builders[c], 1, rows_reserved)])

-----------------------------------------------------------------------------

\* Mutant: one row too many fits.
ReserveOneMore(n) ==
  /\ rows_capacity + 1 >= n + rows_reserved
  /\ rows_reserved' = rows_reserved + n
  /\ UNCHANGED << data, builders, rows_capacity, status >>

\* Mutant: min_batch_size rows are taken to fit before they are allocated.
ReserveMinimum(n) ==
  /\ rows_capacity >= n + rows_reserved \/ min_batch_size >= n + rows_reserved
  /\ rows_reserved' = rows_reserved + n
  /\ UNCHANGED << data, builders, rows_capacity, status >>

(* allocate(), when the builders have room for the announced rows. *)
Reserve(n) ==
  /\ rows_capacity >= n + rows_reserved
  /\ rows_reserved' = rows_reserved + n
  /\ UNCHANGED << data, builders, rows_capacity, status >>

\* Mutant: the new builders still hold the rows that were flushed.
ReallocateKeepsRows(n) ==
  /\ rows_capacity < n + rows_reserved
  /\ \/ rows_reserved = 0 /\ UNCHANGED data
     \/ rows_reserved > 0 /\ FlushOutcome = "open" /\ Flush
  /\ rows_capacity' = IF n > min_batch_size THEN n ELSE min_batch_size
  /\ builders' = IF builders = None THEN [c \in Cols |-> <<>>] ELSE builders
  /\ rows_reserved' = n
  /\ UNCHANGED status

\* Mutant: builders that would just be full are taken to be too small.
ReallocateEarly(n) ==
  /\ rows_capacity <= n + rows_reserved
  /\ \/ rows_reserved = 0 /\ UNCHANGED data
     \/ rows_reserved > 0 /\ FlushOutcome = "open" /\ Flush
  /\ rows_capacity' = IF n > min_batch_size THEN n ELSE min_batch_size
  /\ builders' = [c \in Cols |-> <<>>]
  /\ rows_reserved' = n
  /\ UNCHANGED status

(* allocate(), when they do not: flush what was reserved and start new      *)
(* builders.                                                                *)
Reallocate(n) ==
  /\ rows_capacity < n + rows_reserved
  /\ \/ rows_reserved = 0 /\ UNCHANGED data
     \/ rows_reserved > 0 /\ FlushOutcome = "open" /\ Flush
  /\ rows_capacity' = IF n > min_batch_size THEN n ELSE min_batch_size
  /\ builders' = [c \in Cols |-> <<>>]
  /\ rows_reserved' = n
  /\ UNCHANGED status

(* allocate(), when the flush fails: the error leaves through `?`. *)
ReallocateFails(n) ==
  /\ rows_capacity < n + rows_reserved
  /\ rows_reserved > 0
  /\ FlushOutcome # "open"
  /\ status' = FlushOutcome
  /\ builders' = None
  /\ UNCHANGED << data, rows_reserved, rows_capacity >>

Allocate(n) == Reserve(n) \/ Reallocate(n) \/ ReallocateFails(n)

PrepareForBatch(n) ==
  /\ status = "open"
  /\ RowsComplete
  /\ written + n <= MaxRows                      \* bound
  /\ row_count' = n
  /\ next_row' = 0
  /\ next_col' = 0
  /\ Allocate(n)
  /\ UNCHANGED << schema, min_batch_size, written >>

(* next_col_index(): advance to the next cell in row-major order. *)
NextColIndex ==
  IF next_col + 1 = schema
  THEN /\ next_col' = 0
       /\ next_row' = next_row + 1
       /\ written' = written + 1
  ELSE /\ next_col' = next_col + 1
       /\ UNCHANGED << next_row, written >>

(* consume() and consume_null(): append to the builder of the next column; *)
(* the unwrap of the builders panics when there are none.                  *)
ConsumeCell ==
  /\ status = "open"
  /\ ~RowsComplete
  /\ NextColIndex
  /\ IF builders = None
     THEN status' = "panicked" /\ UNCHANGED builders
     ELSE /\ builders' = [builders EXCEPT ![next_col + 1] =
                             Append(@, <<written + 1, next_col + 1>>)]
          /\ UNCHANGED status
  /\ UNCHANGED << schema, min_batch_size, data, rows_reserved, rows_capacity, row_count >>

(* finish(): flush the rest and hand over the batches. *)
Finish ==
  /\ status = "open"
  /\ RowsComplete
  /\ IF FlushOutcome = "open"
     THEN status' = "finished" /\ Flush
     ELSE status' = FlushOutcome /\ UNCHANGED data
  /\ builders' = None
  /\ UNCHANGED << schema, min_batch_size, rows_reserved, rows_capacity, row_count,
                  next_row, next_col, written >>

(* The caller returns early, between any two cells: what was built is lost. *)
Drop ==
  /\ status = "open"
  /\ status' = "dropped"
  /\ data' = <<>>
  /\ builders' = None
  /\ UNCHANGED << schema, min_batch_size, rows_reserved, rows_capacity, row_count,
                  next_row, next_col, written >>

Next ==
  \/ \E n \in RowCounts : PrepareForBatch(n)
  \/ ConsumeCell
  \/ Finish
  \/ Drop

Spec == Init /\ [][Next]_vars

-----------------------------------------------------------------------------
(* Every variable has the type its field has in ArrowRowWriter/Organizer,   *)
(* and every flushed batch has exactly the schema's columns.                *)
TypeOK ==
  /\ schema \in ColCounts
  /\ min_batch_size \in MinBatchSizes
  /\ data \in Seq(Batches(schema))
  /\ builders \in Batches(schema) \cup {None}
  /\ rows_reserved \in Nat
  /\ rows_capacity \in Nat
  /\ row_count \in Nat
  /\ next_row \in Nat
  /\ next_col \in Nat
  /\ written \in Nat
  /\ status \in Status

(* The number of the last row of a batch, and of the last row flushed.       *)
LastRow(batch) == batch[1][Len(batch[1])][1]
FlushedRows == IF data = <<>> THEN 0 ELSE LastRow(data[Len(data)])

(* The column holds the cells of column c of the rows from + 1, from + 2, ...*)
Consecutive(column, c, from) ==
  \A i \in 1..Len(column) : column[i] = <<from + i, c>>

(* No cell is lost, doubled or misplaced by a flush or by the hand-over     *)
(* between builders and batches: column c of the k-th batch holds column c  *)
(* of consecutive rows, every column of a batch has the same rows, and      *)
(* each batch starts with the row after the last row of the one before.     *)
BatchesContinue ==
  \A k \in 1..Len(data), c \in Cols :
    /\ Len(data[k][c]) = Len(data[k][1])
    /\ Consecutive(data[k][c], c, IF k = 1 THEN 0 ELSE LastRow(data[k - 1]))

(* No batch is empty: next_batch_from_rows takes `no batch` for the end of  *)
(* the result, and a consumer may take an empty batch for the same.         *)
NoEmptyBatch == \A k \in 1..Len(data) : schema > 0 /\ Len(data[k][1]) > 0

(* finish() hands over every row that was written. *)
FinishDeliversAll == status = "finished" => FlushedRows = written

(* The builders never hold more rows than were reserved for them, nor are   *)
(* more reserved than they were allocated for: slice(0, rows_reserved)      *)
(* then cuts nothing off.                                                   *)
WithinReservation ==
  builders # None =>
    /\ rows_reserved <= rows_capacity
    /\ \A c \in Cols : Len(builders[c]) <= rows_reserved

(* The panics of row_writer.rs (the unwrap of the builders and the slice of *)
(* a short column) are unreachable for a caller that writes complete rows.  *)
NeverPanics == status # "panicked"

(* Batches have the size that was asked for: one is flushed only when the   *)
(* next announcement would not fit, so it is short of min_batch_size by     *)
(* less than an announcement (by nothing when rows are announced one at a   *)
(* time, as row_collect does), and it is larger only if a single            *)
(* announcement was.  Only the last batch may be short.                     *)
FullBatches ==
  \A k \in 1..Len(data) :
    schema > 0 =>
      /\ Len(data[k][1]) <= min_batch_size \/ \E n \in RowCounts : Len(data[k][1]) <= n
      /\ k < Len(data) => \E n \in RowCounts : Len(data[k][1]) + n > min_batch_size

(* No cell gets lost on its way: the batches hold the rows written, in      *)
(* order and every cell in its place, and after finish() all of them.       *)
NothingLost == BatchesContinue /\ FinishDeliversAll

(* The batches are as long as a reader relies on: never empty, never cut    *)
(* off by the slice, full but for the last one.                             *)
BatchLengths == NoEmptyBatch /\ WithinReservation /\ FullBatches
=============================================================================
