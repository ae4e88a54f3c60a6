-------------------------- MODULE RowWriterProofs --------------------------
(* Theorems about RowWriter, for every schema, batch size and input. *)
EXTENDS RowWriter, SequenceTheorems, TLAPS

(* The Organizer's position: within the announced rows, and back at the     *)
(* first column when they are complete.                                     *)
PositionInv ==
  schema > 0 =>
    /\ next_row <= row_count
    /\ next_col < schema
    /\ next_row = row_count => next_col = 0

(* Before the first allocation nothing has been written. *)
NoBuildersInv ==
  builders = None =>
    /\ data = <<>>
    /\ rows_reserved = 0
    /\ rows_capacity = 0
    /\ next_row = row_count
    /\ written = 0

(* The builders hold the rows written since the last flush, the columns     *)
(* left of the Organizer's position one cell more, and what is reserved is  *)
(* what they will hold once the announced rows are complete.                *)
BuildersInv ==
  builders # None =>
    /\ 0 < rows_reserved
    /\ rows_reserved <= rows_capacity
    /\ schema > 0 =>
         /\ FlushedRows \in Nat
         /\ FlushedRows + rows_reserved = written + (row_count - next_row)
         /\ \A c \in Cols :
              /\ FlushedRows + Len(builders[c])
                   = written + (IF c <= next_col THEN 1 ELSE 0)
              /\ Consecutive(builders[c], c, FlushedRows)

IInv ==
  /\ TypeOK
  /\ BatchesContinue
  /\ NoEmptyBatch
  /\ FinishDeliversAll
  /\ NeverPanics
  /\ status = "open" => PositionInv /\ NoBuildersInv /\ BuildersInv

-----------------------------------------------------------------------------
(* A flush that succeeds appends one batch: the first rows_reserved cells   *)
(* of every column.                                                         *)
LEMMA FlushType ==
  ASSUME TypeOK, FlushOutcome = "open", builders # None, Flush
  PROVE  /\ schema > 0
         /\ \A c \in Cols : rows_reserved <= Len(builders[c])
         /\ data' = Append(data, [c \in Cols |-> SubSeq(builders[c], 1, rows_reserved)])
         /\ [c \in Cols |-> SubSeq(builders[c], 1, rows_reserved)] \in Batches(schema)
         /\ data' \in Seq(Batches(schema))
<1>1. builders \in [Cols -> Seq(Cell)] /\ rows_reserved \in Nat /\ schema \in Nat
  BY RowWriterAssumption DEF TypeOK, Batches, Cols
<1>2. schema > 0 /\ ~ColumnTooShort
  BY <1>1 DEF FlushOutcome
<1>3. \A c \in Cols : rows_reserved <= Len(builders[c])
  BY <1>1, <1>2 DEF ColumnTooShort
<1>4. \A c \in Cols : SubSeq(builders[c], 1, rows_reserved) \in Seq(Cell)
  BY <1>1, <1>3
<1>5. [c \in Cols |-> SubSeq(builders[c], 1, rows_reserved)] \in Batches(schema)
  BY <1>4 DEF Batches, Cols
<1>6. data' = Append(data, [c \in Cols |-> SubSeq(builders[c], 1, rows_reserved)])
  BY DEF Flush
<1>7. data \in Seq(Batches(schema))
  BY DEF TypeOK
<1> QED
  BY <1>2, <1>3, <1>5, <1>6, <1>7

(* Without builders a flush changes nothing. *)
LEMMA FlushNothing ==
  ASSUME builders = None, Flush
  PROVE  data' = data
BY DEF Flush

(* Each call keeps the writer's variables in their types. *)
LEMMA TypeStep ==
  ASSUME TypeOK, [Next]_vars
  PROVE  TypeOK'
<1>a. schema \in Nat /\ min_batch_size \in Nat
  BY RowWriterAssumption DEF TypeOK
<1>1. ASSUME NEW n \in RowCounts, PrepareForBatch(n) PROVE TypeOK'
  <2>a. n \in Nat
    BY RowWriterAssumption
  <2>b. [c \in Cols |-> <<>>] \in Batches(schema)
    BY DEF Batches, Cols
  <2>1. CASE Reserve(n)
    BY <1>1, <2>1, <2>a DEF PrepareForBatch, Reserve, TypeOK
  <2>2. CASE Reallocate(n)
    <3>1. data' \in Seq(Batches(schema))
      BY <2>2, FlushType, FlushNothing DEF Reallocate, TypeOK
    <3>2. rows_capacity' \in Nat
      BY <2>2, <1>a, <2>a DEF Reallocate
    <3> QED
      BY <1>1, <2>2, <2>a, <2>b, <3>1, <3>2 DEF PrepareForBatch, Reallocate, TypeOK
  <2>3. CASE ReallocateFails(n)
    BY <1>1, <2>3, <2>a DEF PrepareForBatch, ReallocateFails, FlushOutcome, TypeOK, Status
  <2> QED
    BY <1>1, <2>1, <2>2, <2>3 DEF PrepareForBatch, Allocate
<1>2. CASE ConsumeCell
  <2>1. next_row' \in Nat /\ next_col' \in Nat /\ written' \in Nat
    BY <1>2 DEF ConsumeCell, NextColIndex, TypeOK
  <2>2. builders' \in Batches(schema) \cup {None} /\ status' \in Status
    <3>1. CASE builders = None
      BY <1>2, <3>1 DEF ConsumeCell, TypeOK, Status
    <3>2. CASE builders # None
      <4>1. builders \in [Cols -> Seq(Cell)]
        BY <3>2 DEF TypeOK, Batches, Cols
      <4>2. <<written + 1, next_col + 1>> \in Cell
        BY DEF TypeOK, Cell
      <4>3. builders' = [builders EXCEPT ![next_col + 1] =
                           Append(@, <<written + 1, next_col + 1>>)]
        BY <1>2, <3>2 DEF ConsumeCell
      <4>4. next_col + 1 \in Cols =>
              Append(builders[next_col + 1], <<written + 1, next_col + 1>>) \in Seq(Cell)
        BY <4>1, <4>2
      <4>5. builders' \in [Cols -> Seq(Cell)]
        BY <4>1, <4>3, <4>4
      <4> QED
        BY <1>2, <3>2, <4>5 DEF ConsumeCell, TypeOK, Batches, Cols
    <3> QED
      BY <3>1, <3>2
  <2> QED
    BY <1>2, <2>1, <2>2 DEF ConsumeCell, TypeOK
<1>3. CASE Finish
  <2>1. data' \in Seq(Batches(schema))
    BY <1>3, FlushType, FlushNothing DEF Finish, TypeOK
  <2>2. status' \in Status
    BY <1>3 DEF Finish, FlushOutcome, Status
  <2> QED
    BY <1>3, <2>1, <2>2 DEF Finish, TypeOK
<1>4. CASE Drop
  BY <1>4 DEF Drop, TypeOK, Status
<1>5. CASE UNCHANGED vars
  BY <1>5 DEF vars, TypeOK
<1> QED
  BY <1>1, <1>2, <1>3, <1>4, <1>5 DEF Next

(* Type correctness (TypeOK) of the writer, whatever its client writes. *)
THEOREM TypeCorrect == Spec => []TypeOK
<1>1. Init => TypeOK
  BY RowWriterAssumption DEF Init, TypeOK, Status
<1>2. TypeOK /\ [Next]_vars => TypeOK'
  BY TypeStep
<1> QED
  BY <1>1, <1>2, PTL DEF Spec

-----------------------------------------------------------------------------
(* Once the announced rows are complete, every column holds exactly the     *)
(* rows reserved: the builders can be flushed whole.                        *)
LEMMA CompleteColumns ==
  ASSUME IInv, status = "open", RowsComplete, builders # None, schema > 0
  PROVE  /\ \A c \in Cols : Len(builders[c]) = rows_reserved
         /\ \A c \in Cols : Consecutive(builders[c], c, FlushedRows)
         /\ FlushedRows + rows_reserved = written
         /\ FlushedRows \in Nat
         /\ rows_reserved > 0
<1>1. PositionInv /\ BuildersInv /\ TypeOK
  BY DEF IInv
<1>2. next_row = row_count /\ next_col = 0
  BY <1>1 DEF RowsComplete, PositionInv, TypeOK
<1>3. schema \in Nat /\ rows_reserved \in Nat /\ written \in Nat /\ row_count \in Nat
  BY <1>1, RowWriterAssumption DEF TypeOK
<1>4. builders \in [Cols -> Seq(Cell)]
  BY <1>1 DEF TypeOK, Batches, Cols
<1>5. FlushedRows \in Nat /\ FlushedRows + rows_reserved = written /\ rows_reserved > 0
  BY <1>1, <1>2, <1>3 DEF BuildersInv
<1>6. ASSUME NEW c \in Cols
      PROVE  Len(builders[c]) = rows_reserved /\ Consecutive(builders[c], c, FlushedRows)
  <2>1. ~(c <= next_col) /\ Len(builders[c]) \in Nat
    BY <1>2, <1>3, <1>4, <1>6 DEF Cols
  <2>2. FlushedRows + Len(builders[c]) = written + 0
    BY <1>1, <1>6, <2>1 DEF BuildersInv
  <2> QED
    BY <1>1, <1>3, <1>5, <1>6, <2>1, <2>2 DEF BuildersInv
<1> QED
  BY <1>5, <1>6

(* A flush between rows appends a batch that continues the batches before   *)
(* it, and nothing that was written is left behind.                         *)
LEMMA FlushContinues ==
  ASSUME IInv, status = "open", RowsComplete, FlushOutcome = "open", builders # None,
         Flush, UNCHANGED schema
  PROVE  BatchesContinue' /\ NoEmptyBatch' /\ FlushedRows' = written
<1> DEFINE new == [c \in Cols |-> SubSeq(builders[c], 1, rows_reserved)]
<1>1. TypeOK /\ schema \in Nat /\ rows_reserved \in Nat /\ data \in Seq(Batches(schema))
  BY RowWriterAssumption DEF IInv, TypeOK
<1>2. /\ schema > 0
      /\ data' = Append(data, new)
      /\ new \in Batches(schema)
  BY <1>1, FlushType
<1>3. builders \in [Cols -> Seq(Cell)]
  BY <1>1 DEF TypeOK, Batches, Cols
<1>4. /\ \A c \in Cols : Len(builders[c]) = rows_reserved
      /\ \A c \in Cols : Consecutive(builders[c], c, FlushedRows)
      /\ FlushedRows + rows_reserved = written
      /\ FlushedRows \in Nat
      /\ rows_reserved > 0
  BY <1>2, CompleteColumns
<1>5. new = builders
  <2>1. \A c \in Cols : SubSeq(builders[c], 1, rows_reserved) = builders[c]
    BY <1>1, <1>3, <1>4
  <2> QED
    BY <1>3, <2>1
<1>6. 1 \in Cols
  BY <1>1, <1>2 DEF Cols
<1> HIDE DEF new
<1>7. /\ Len(data') = Len(data) + 1
      /\ data'[Len(data) + 1] = builders
      /\ \A k \in 1..Len(data) : data'[k] = data[k]
      /\ data' # <<>>
      /\ Len(data) \in Nat
  BY <1>1, <1>2, <1>5
<1>8. LastRow(builders) = FlushedRows + rows_reserved
  <2>1. Len(builders[1]) = rows_reserved /\ Consecutive(builders[1], 1, FlushedRows)
    BY <1>4, <1>6
  <2>2. builders[1][rows_reserved] = <<FlushedRows + rows_reserved, 1>>
    BY <1>1, <1>4, <2>1 DEF Consecutive
  <2> QED
    BY <2>1, <2>2 DEF LastRow
<1>9. FlushedRows' = written
  BY <1>4, <1>7, <1>8 DEF FlushedRows, LastRow
<1>10. NoEmptyBatch'
  BY <1>1, <1>2, <1>4, <1>6, <1>7 DEF IInv, NoEmptyBatch
<1>11. BatchesContinue'
  <2> SUFFICES ASSUME NEW k \in 1..Len(data'), NEW c \in Cols
               PROVE  /\ Len(data'[k][c]) = Len(data'[k][1])
                      /\ Consecutive(data'[k][c], c,
                            IF k = 1 THEN 0 ELSE LastRow(data'[k - 1]))
    BY DEF BatchesContinue, Cols, Consecutive, LastRow
  <2>1. CASE k \in 1..Len(data)
    <3>1. data'[k] = data[k] /\ (k # 1 => data'[k - 1] = data[k - 1])
      BY <1>7, <2>1
    <3> QED
      BY <2>1, <3>1 DEF IInv, BatchesContinue
  <2>2. CASE k = Len(data) + 1
    <3>1. data'[k] = builders
      BY <1>7, <2>2
    <3>2. (IF k = 1 THEN 0 ELSE LastRow(data'[k - 1])) = FlushedRows
      <4>1. CASE k = 1
        BY <1>1, <1>7, <2>2, <4>1 DEF FlushedRows
      <4>2. CASE k # 1
        <5>1. data # <<>> /\ k - 1 = Len(data) /\ Len(data) \in 1..Len(data)
          BY <1>1, <1>7, <2>2, <4>2
        <5>2. data'[k - 1] = data[Len(data)]
          BY <1>7, <5>1
        <5> QED
          BY <4>2, <5>1, <5>2 DEF FlushedRows
      <4> QED
        BY <4>1, <4>2
    <3> QED
      BY <1>4, <1>6, <3>1, <3>2
  <2> QED
    BY <1>7, <2>1, <2>2
<1> QED
  BY <1>9, <1>10, <1>11

(* Between rows a flush can only fail for want of columns. *)
LEMMA FlushSafe ==
  ASSUME IInv, status = "open", RowsComplete
  PROVE  FlushOutcome = (IF builders # None /\ schema = 0 THEN "failed" ELSE "open")
<1>1. schema \in Nat /\ rows_reserved \in Nat
  BY RowWriterAssumption DEF IInv, TypeOK
<1>2. CASE builders = None
  BY <1>2 DEF FlushOutcome
<1>3. CASE builders # None /\ schema > 0
  <2>1. ~ColumnTooShort
    BY <1>1, <1>3, CompleteColumns DEF ColumnTooShort
  <2> QED
    BY <1>1, <1>3, <2>1 DEF FlushOutcome
<1>4. CASE builders # None /\ schema = 0
  <2>1. ~ColumnTooShort
    BY <1>4 DEF ColumnTooShort, Cols
  <2> QED
    BY <1>4, <2>1 DEF FlushOutcome
<1> QED
  BY <1>1, <1>2, <1>3, <1>4

-----------------------------------------------------------------------------
(* The batches are as they were when neither they nor the schema changed.   *)
LEMMA BatchesUnchanged ==
  ASSUME IInv, UNCHANGED << schema, data >>
  PROVE  BatchesContinue' /\ NoEmptyBatch' /\ FlushedRows' = FlushedRows
BY DEF IInv, BatchesContinue, NoEmptyBatch, FlushedRows, LastRow, Consecutive, Cols

LEMMA PrepareForBatchStep ==
  ASSUME IInv, TypeOK', NEW n \in RowCounts, PrepareForBatch(n)
  PROVE  IInv'
<1>1. /\ TypeOK /\ status = "open" /\ RowsComplete
      /\ PositionInv /\ NoBuildersInv /\ BuildersInv
      /\ n \in Nat /\ schema \in Nat /\ min_batch_size \in Nat
      /\ rows_reserved \in Nat /\ rows_capacity \in Nat /\ written \in Nat
      /\ row_count \in Nat /\ next_row \in Nat
  BY RowWriterAssumption DEF IInv, TypeOK, PrepareForBatch
<1>2. /\ row_count' = n /\ next_row' = 0 /\ next_col' = 0
      /\ UNCHANGED << schema, min_batch_size, written >>
  BY DEF PrepareForBatch
<1>3. PositionInv'
  BY <1>1, <1>2 DEF PositionInv
<1>4. CASE Reserve(n)
  <2>1. UNCHANGED << data, builders, rows_capacity, status >>
        /\ rows_reserved' = rows_reserved + n /\ rows_reserved' <= rows_capacity
    BY <1>1, <1>4 DEF Reserve
  <2>2. BatchesContinue' /\ NoEmptyBatch' /\ FlushedRows' = FlushedRows
    BY <1>2, <2>1, BatchesUnchanged
  <2>3. NoBuildersInv'
    BY <1>1, <1>2, <2>1 DEF NoBuildersInv
  <2>4. BuildersInv'
    <3> SUFFICES ASSUME builders # None PROVE BuildersInv'
      BY <2>1 DEF BuildersInv
    <3>1. 0 < rows_reserved' /\ rows_reserved' <= rows_capacity'
      BY <1>1, <2>1 DEF BuildersInv
    <3>2. ASSUME schema > 0
          PROVE  /\ FlushedRows + rows_reserved = written
                 /\ FlushedRows \in Nat
                 /\ \A c \in Cols : Len(builders[c]) = rows_reserved
                 /\ \A c \in Cols : Consecutive(builders[c], c, FlushedRows)
      BY <1>1, <3>2, CompleteColumns
    <3>3. ASSUME schema > 0
          PROVE  /\ FlushedRows' \in Nat
                 /\ FlushedRows' + rows_reserved' = written' + (row_count' - next_row')
      BY <1>1, <1>2, <2>1, <2>2, <3>2, <3>3
    <3>4. ASSUME schema > 0, NEW c \in Cols'
          PROVE  /\ FlushedRows' + Len(builders'[c])
                      = written' + (IF c <= next_col' THEN 1 ELSE 0)
                 /\ Consecutive(builders'[c], c, FlushedRows')
      <4>1. c \in Cols /\ ~(c <= next_col')
        BY <1>1, <1>2, <3>4 DEF Cols
      <4> QED
        BY <1>1, <1>2, <2>1, <2>2, <3>2, <3>4, <4>1
    <3> QED
      BY <1>2, <3>1, <3>3, <3>4 DEF BuildersInv, Cols, Consecutive
  <2> QED
    BY <1>1, <1>3, <2>1, <2>2, <2>3, <2>4 DEF IInv, FinishDeliversAll, NeverPanics
<1>5. CASE Reallocate(n)
  <2>1. /\ rows_capacity < n + rows_reserved
        /\ rows_capacity' = IF n > min_batch_size THEN n ELSE min_batch_size
        /\ builders' = [c \in Cols |-> <<>>] /\ builders' # None
        /\ rows_reserved' = n /\ n > 0
        /\ UNCHANGED status
    <3>1. rows_reserved <= rows_capacity
      BY <1>1 DEF NoBuildersInv, BuildersInv
    <3>2. [c \in Cols |-> <<>>] \in Batches(schema) /\ schema \in ColCounts
      BY <1>1 DEF Batches, Cols, TypeOK
    <3> QED
      BY <1>1, <1>5, <3>1, <3>2, RowWriterAssumption DEF Reallocate
  <2>2. BatchesContinue' /\ NoEmptyBatch' /\ (schema > 0 => FlushedRows' = written)
    <3>1. CASE rows_reserved = 0
      <4>1. builders = None /\ data = <<>> /\ written = 0 /\ data' = data
        BY <1>1, <1>5, <3>1 DEF BuildersInv, NoBuildersInv, Reallocate
      <4> QED
        BY <1>2, <4>1, BatchesUnchanged DEF FlushedRows
    <3>2. CASE rows_reserved > 0
      <4>1. builders # None /\ FlushOutcome = "open" /\ Flush
        BY <1>1, <1>5, <3>2 DEF NoBuildersInv, Reallocate
      <4> QED
        BY <1>1, <1>2, <4>1, FlushContinues
    <3> QED
      BY <1>1, <3>1, <3>2
  <2>3. BuildersInv'
    <3>1. \A c \in Cols : Len(builders'[c]) = 0 /\ ~(c <= next_col')
      BY <1>1, <1>2, <2>1 DEF Cols
    <3> QED
      BY <1>1, <1>2, <2>1, <2>2, <3>1 DEF BuildersInv, Cols, Consecutive
  <2> QED
    BY <1>1, <1>3, <2>1, <2>2, <2>3
    DEF IInv, FinishDeliversAll, NeverPanics, NoBuildersInv
<1>6. CASE ReallocateFails(n)
  <2>1. status' = "failed" /\ UNCHANGED data
    BY <1>1, <1>6, FlushSafe DEF ReallocateFails
  <2> QED
    BY <1>2, <2>1, BatchesUnchanged DEF IInv, FinishDeliversAll, NeverPanics
<1> QED
  BY <1>4, <1>5, <1>6 DEF PrepareForBatch, Allocate

LEMMA ConsumeCellStep ==
  ASSUME IInv, TypeOK', ConsumeCell
  PROVE  IInv'
<1>1. /\ TypeOK /\ status = "open"
      /\ PositionInv /\ NoBuildersInv /\ BuildersInv
      /\ next_row # row_count /\ schema # 0
      /\ schema \in Nat /\ rows_reserved \in Nat /\ rows_capacity \in Nat
      /\ written \in Nat /\ row_count \in Nat /\ next_row \in Nat /\ next_col \in Nat
  BY RowWriterAssumption DEF IInv, TypeOK, ConsumeCell, RowsComplete
<1>2. /\ builders # None /\ builders \in [Cols -> Seq(Cell)]
      /\ next_col < schema /\ next_row < row_count /\ next_col + 1 \in Cols
  BY <1>1 DEF NoBuildersInv, PositionInv, TypeOK, Batches, Cols
<1> DEFINE cell == <<written + 1, next_col + 1>>
<1>3. /\ builders' = [builders EXCEPT ![next_col + 1] = Append(@, cell)]
      /\ UNCHANGED << schema, min_batch_size, data, rows_reserved, rows_capacity,
                       row_count, status >>
  BY <1>2 DEF ConsumeCell
<1>4. /\ builders' # None
      /\ \A c \in Cols : c # next_col + 1 => builders'[c] = builders[c]
      /\ builders'[next_col + 1] = Append(builders[next_col + 1], cell)
  <2>1. cell \in Cell
    BY <1>1 DEF Cell
  <2>2. builders' \in [Cols -> Seq(Cell)]
    BY <1>2, <1>3, <2>1
  <2> QED
    BY <1>1, <1>2, <1>3, <2>2, RowWriterAssumption DEF Batches, Cols, TypeOK
<1>5. BatchesContinue' /\ NoEmptyBatch' /\ FlushedRows' = FlushedRows
  BY <1>3, BatchesUnchanged
<1>6. /\ 0 < rows_reserved /\ rows_reserved <= rows_capacity
      /\ FlushedRows \in Nat
      /\ FlushedRows + rows_reserved = written + (row_count - next_row)
      /\ \A c \in Cols : FlushedRows + Len(builders[c])
                           = written + (IF c <= next_col THEN 1 ELSE 0)
      /\ \A c \in Cols : Consecutive(builders[c], c, FlushedRows)
  BY <1>1, <1>2 DEF BuildersInv
<1>7. \A c \in Cols : Consecutive(builders'[c], c, FlushedRows)
  <2> SUFFICES ASSUME NEW c \in Cols PROVE Consecutive(builders'[c], c, FlushedRows)
    OBVIOUS
  <2>1. CASE c # next_col + 1
    BY <1>4, <1>6, <2>1
  <2>2. CASE c = next_col + 1
    <3>1. builders[c] \in Seq(Cell) /\ Len(builders[c]) \in Nat
      BY <1>2
    <3>2. FlushedRows + Len(builders[c]) = written
      <4>1. ~(c <= next_col)
        BY <1>1, <2>2
      <4>2. FlushedRows + Len(builders[c]) = written + 0
        BY <1>6, <4>1
      <4> QED
        BY <1>1, <4>2
    <3>3. cell = <<FlushedRows + (Len(builders[c]) + 1), c>>
      BY <1>1, <1>6, <2>2, <3>1, <3>2
    <3>4. ASSUME NEW i \in 1..Len(builders'[c])
          PROVE  builders'[c][i] = <<FlushedRows + i, c>>
      <4>1. builders'[c] = Append(builders[c], cell)
        BY <1>4, <2>2
      <4>2. CASE i \in 1..Len(builders[c])
        BY <1>6, <3>1, <4>1, <4>2 DEF Consecutive
      <4>3. CASE i = Len(builders[c]) + 1
        BY <3>1, <3>3, <4>1, <4>3
      <4> QED
        BY <3>1, <4>1, <4>2, <4>3
    <3> QED
      BY <3>4 DEF Consecutive
  <2> QED
    BY <2>1, <2>2
<1>8. \A c \in Cols :
        /\ Len(builders[c]) \in Nat
        /\ c = next_col + 1 => Len(builders'[c]) = Len(builders[c]) + 1
        /\ c # next_col + 1 => Len(builders'[c]) = Len(builders[c])
  BY <1>2, <1>4
<1> HIDE DEF cell
<1>9. CASE next_col + 1 = schema
  <2>1. next_col' = 0 /\ next_row' = next_row + 1 /\ written' = written + 1
    BY <1>9 DEF ConsumeCell, NextColIndex
  <2>2. PositionInv'
    BY <1>1, <1>2, <1>3, <2>1 DEF PositionInv
  <2>3. FlushedRows + rows_reserved = written' + (row_count - next_row')
    BY <1>1, <1>6, <2>1
  <2>4. ASSUME NEW c \in Cols
        PROVE  FlushedRows + Len(builders'[c])
                 = written' + (IF c <= next_col' THEN 1 ELSE 0)
    <3>1. c \in Nat /\ 1 <= c /\ c <= next_col + 1 /\ (c <= next_col <=> c # next_col + 1)
      BY <1>1, <1>9 DEF Cols
    <3>2. FlushedRows + Len(builders[c]) = written + (IF c <= next_col THEN 1 ELSE 0)
      BY <1>6
    <3>3. ~(c <= next_col')
      BY <1>1, <2>1, <3>1
    <3>4. FlushedRows + Len(builders'[c]) = written + 1
      <4>1. CASE c = next_col + 1
        BY <1>1, <1>6, <1>8, <3>1, <3>2, <4>1
      <4>2. CASE c # next_col + 1
        BY <1>1, <1>6, <1>8, <3>1, <3>2, <4>2
      <4> QED
        BY <4>1, <4>2
    <3> QED
      BY <1>1, <2>1, <3>3, <3>4
  <2>5. BuildersInv'
    BY <1>3, <1>5, <1>6, <1>7, <2>3, <2>4 DEF BuildersInv, Cols, Consecutive
  <2> QED
    BY <1>1, <1>3, <1>4, <1>5, <2>2, <2>5
    DEF IInv, FinishDeliversAll, NeverPanics, NoBuildersInv
<1>10. CASE next_col + 1 # schema
  <2>1. next_col' = next_col + 1 /\ UNCHANGED << next_row, written >>
    BY <1>10 DEF ConsumeCell, NextColIndex
  <2>2. PositionInv'
    BY <1>1, <1>2, <1>3, <1>10, <2>1 DEF PositionInv
  <2>4. ASSUME NEW c \in Cols
        PROVE  FlushedRows + Len(builders'[c])
                 = written' + (IF c <= next_col' THEN 1 ELSE 0)
    <3>1. c \in Nat /\ (c <= next_col' <=> c <= next_col \/ c = next_col + 1)
                     /\ (c = next_col + 1 => ~(c <= next_col))
      BY <1>1, <2>1 DEF Cols
    <3>2. FlushedRows + Len(builders[c]) = written + (IF c <= next_col THEN 1 ELSE 0)
      BY <1>6
    <3>3. CASE c = next_col + 1
      <4>1. FlushedRows + Len(builders[c]) = written
        BY <1>1, <3>1, <3>2, <3>3
      <4>2. FlushedRows + Len(builders'[c]) = written + 1
        BY <1>1, <1>6, <1>8, <3>3, <4>1
      <4> QED
        BY <1>1, <2>1, <3>1, <3>3, <4>2
    <3>4. CASE c # next_col + 1
      <4>1. Len(builders'[c]) = Len(builders[c]) /\ (c <= next_col' <=> c <= next_col)
        BY <1>8, <3>1, <3>4
      <4> QED
        BY <2>1, <3>2, <4>1
    <3> QED
      BY <3>3, <3>4
  <2>5. BuildersInv'
    BY <1>3, <1>5, <1>6, <1>7, <2>1, <2>4 DEF BuildersInv, Cols, Consecutive
  <2> QED
    BY <1>1, <1>3, <1>4, <1>5, <2>2, <2>5
    DEF IInv, FinishDeliversAll, NeverPanics, NoBuildersInv
<1> QED
  BY <1>9, <1>10

LEMMA FinishStep ==
  ASSUME IInv, TypeOK', Finish
  PROVE  IInv'
<1>1. status = "open" /\ RowsComplete /\ UNCHANGED << schema, written >>
  BY DEF Finish
<1>2. CASE builders # None /\ schema = 0
  <2>1. status' = "failed" /\ UNCHANGED data
    BY <1>1, <1>2, FlushSafe DEF Finish
  <2> QED
    BY <1>1, <2>1, BatchesUnchanged DEF IInv, FinishDeliversAll, NeverPanics
<1>3. CASE builders # None /\ schema # 0
  <2>1. FlushOutcome = "open" /\ status' = "finished" /\ Flush
    BY <1>1, <1>3, FlushSafe DEF Finish
  <2>2. BatchesContinue' /\ NoEmptyBatch' /\ FlushedRows' = written
    BY <1>1, <1>3, <2>1, FlushContinues
  <2> QED
    BY <1>1, <2>1, <2>2 DEF IInv, FinishDeliversAll, NeverPanics
<1>4. CASE builders = None
  <2>1. status' = "finished" /\ UNCHANGED data /\ data = <<>> /\ written = 0
    BY <1>1, <1>4, FlushSafe, FlushNothing DEF Finish, IInv, NoBuildersInv
  <2> QED
    BY <1>1, <2>1, BatchesUnchanged DEF IInv, FinishDeliversAll, NeverPanics, FlushedRows
<1> QED
  BY <1>2, <1>3, <1>4

LEMMA DropStep ==
  ASSUME IInv, TypeOK', Drop
  PROVE  IInv'
<1>1. data' = <<>> /\ status' = "dropped"
  BY DEF Drop
<1>2. Len(data') = 0 /\ 1..0 = {}
  BY <1>1
<1>3. BatchesContinue' /\ NoEmptyBatch'
  BY <1>2 DEF BatchesContinue, NoEmptyBatch
<1> QED
  BY <1>1, <1>3 DEF IInv, FinishDeliversAll, NeverPanics

(* A new writer satisfies the invariant. *)
LEMMA InitInv ==
  ASSUME Init
  PROVE  IInv
<1>1. TypeOK
  BY RowWriterAssumption DEF Init, TypeOK, Status
<1>2. BatchesContinue /\ NoEmptyBatch
  <2>1. Len(data) = 0 /\ 1..0 = {}
    BY DEF Init
  <2> QED
    BY <2>1 DEF BatchesContinue, NoEmptyBatch
<1> QED
  BY <1>1, <1>2, RowWriterAssumption
  DEF Init, IInv, FinishDeliversAll, NeverPanics, PositionInv, NoBuildersInv,
      BuildersInv, TypeOK

(* So does the writer after any call. *)
LEMMA StepInv ==
  ASSUME IInv, [Next]_vars
  PROVE  IInv'
<1>0. TypeOK'
  BY TypeStep DEF IInv
<1>1. CASE UNCHANGED vars
  <2>1. BatchesContinue' /\ NoEmptyBatch'
    <3>1. data' = data /\ schema' = schema
      BY <1>1 DEF vars
    <3>2. BatchesContinue
      BY DEF IInv
    <3>3. BatchesContinue'
      BY <3>1, <3>2 DEF BatchesContinue, LastRow, Consecutive, Cols
    <3>4. NoEmptyBatch'
      BY <3>1 DEF IInv, NoEmptyBatch
    <3> QED
      BY <3>3, <3>4
  <2>2. FlushedRows' = FlushedRows
    BY <1>1 DEF vars, FlushedRows, LastRow
  <2>3. FinishDeliversAll' /\ NeverPanics'
    BY <1>1, <2>2 DEF vars, IInv, FinishDeliversAll, NeverPanics
  <2>4. status' = "open" => PositionInv' /\ NoBuildersInv'
    BY <1>1 DEF vars, IInv, PositionInv, NoBuildersInv
  <2>5. status' = "open" => BuildersInv'
    BY <1>1, <2>2 DEF vars, IInv, BuildersInv, Consecutive, Cols
  <2> QED
    BY <1>0, <2>1, <2>3, <2>4, <2>5 DEF IInv
<1> QED
  BY <1>0, <1>1, PrepareForBatchStep, ConsumeCellStep, FinishStep, DropStep DEF Next

(* The inductive invariant: what is in the batches and what is in the       *)
(* builders is, together and in order, what was written.                    *)
THEOREM Correct == Spec => []IInv
<1>1. Init => IInv
  BY InitInv
<1>2. IInv /\ [Next]_vars => IInv'
  BY StepInv
<1> QED
  BY <1>1, <1>2, PTL DEF Spec

-----------------------------------------------------------------------------
(* Each row reaches the batches exactly once, in its place. *)
THEOREM BatchesContinueAlways == Spec => []BatchesContinue
<1>1. IInv => BatchesContinue
  BY DEF IInv
<1> QED
  BY <1>1, Correct, PTL

(* Every batch handed over has a row. *)
THEOREM NoEmptyBatchEver == Spec => []NoEmptyBatch
<1>1. IInv => NoEmptyBatch
  BY DEF IInv
<1> QED
  BY <1>1, Correct, PTL

(* finish() leaves no written row behind. *)
THEOREM FinishDelivers == Spec => []FinishDeliversAll
<1>1. IInv => FinishDeliversAll
  BY DEF IInv
<1> QED
  BY <1>1, Correct, PTL

(* The unwrap and the slice of row_writer.rs cannot panic. *)
THEOREM NoPanic == Spec => []NeverPanics
<1>1. IInv => NeverPanics
  BY DEF IInv
<1> QED
  BY <1>1, Correct, PTL

(* A writer that is no longer open has given its builders up. *)
ClosedInv == status # "open" => builders = None

LEMMA ClosedHasNoBuilders == Spec => []ClosedInv
<1>1. Init => ClosedInv
  BY DEF Init, ClosedInv
<1>2. ClosedInv /\ [Next]_vars => ClosedInv'
  <2> SUFFICES ASSUME ClosedInv, [Next]_vars PROVE ClosedInv'
    OBVIOUS
  <2>1. ASSUME NEW n \in RowCounts, PrepareForBatch(n) PROVE ClosedInv'
    BY <2>1 DEF PrepareForBatch, Allocate, Reserve, Reallocate, ReallocateFails, ClosedInv
  <2>2. CASE ConsumeCell
    BY <2>2 DEF ConsumeCell, ClosedInv
  <2>3. CASE Finish \/ Drop
    BY <2>3 DEF Finish, Drop, ClosedInv
  <2>4. CASE UNCHANGED vars
    BY <2>4 DEF vars, ClosedInv
  <2> QED
    BY <2>1, <2>2, <2>3, <2>4 DEF Next
<1> QED
  BY <1>1, <1>2, PTL DEF Spec

(* The builders never outgrow their reservation, nor the reservation what   *)
(* was allocated.                                                           *)
THEOREM ReservationHolds == Spec => []WithinReservation
<1>1. IInv /\ ClosedInv => WithinReservation
  <2> SUFFICES ASSUME IInv, ClosedInv, builders # None
               PROVE  /\ rows_reserved <= rows_capacity
                      /\ \A c \in Cols : Len(builders[c]) <= rows_reserved
    BY DEF WithinReservation
  <2>1. TypeOK /\ PositionInv /\ BuildersInv
    BY DEF IInv, ClosedInv
  <2>2. rows_reserved <= rows_capacity
    BY <2>1 DEF BuildersInv
  <2>3. CASE schema = 0
    BY <2>2, <2>3 DEF Cols
  <2>4. CASE schema # 0
    <3>1. schema \in Nat /\ schema > 0
      BY <2>1, <2>4, RowWriterAssumption DEF TypeOK
    <3>2. /\ FlushedRows \in Nat /\ written \in Nat /\ rows_reserved \in Nat
          /\ row_count \in Nat /\ next_row \in Nat /\ next_col \in Nat
          /\ \A c \in Cols : c \in Nat \ {0} /\ Len(builders[c]) \in Nat
      BY <2>1, <3>1, RowWriterAssumption DEF TypeOK, BuildersInv, Batches, Cols
    <3>3. next_row <= row_count /\ (next_row = row_count => next_col = 0)
      BY <2>1, <3>1 DEF PositionInv
    <3>4. FlushedRows + rows_reserved = written + (row_count - next_row)
      BY <2>1, <3>1 DEF BuildersInv
    <3>5. \A c \in Cols :
            /\ c <= next_col => FlushedRows + Len(builders[c]) = written + 1
            /\ ~(c <= next_col) => FlushedRows + Len(builders[c]) = written
      BY <2>1, <3>1, <3>2 DEF BuildersInv
    <3>6. \A c \in Cols : c <= next_col => next_row < row_count
      BY <3>2, <3>3
    <3>7. \A c \in Cols : Len(builders[c]) <= rows_reserved
      <4> TAKE c \in Cols
      <4> DEFINE F == FlushedRows
                 L == Len(builders[c])
      <4>1. /\ F \in Nat /\ L \in Nat /\ rows_reserved \in Nat /\ written \in Nat
            /\ row_count \in Nat /\ next_row \in Nat /\ next_row <= row_count
            /\ F + rows_reserved = written + (row_count - next_row)
        BY <3>2, <3>3, <3>4
      <4>2. \/ F + L = written + 1 /\ next_row < row_count
            \/ F + L = written
        BY <3>5, <3>6
      <4> HIDE DEF F, L
      <4>3. L <= rows_reserved
        BY <4>1, <4>2
      <4> QED
        BY <4>3 DEF L
    <3> QED
      BY <2>2, <3>7
  <2> QED
    BY <2>3, <2>4
<1> QED
  BY <1>1, Correct, ClosedHasNoBuilders, PTL

-----------------------------------------------------------------------------
(* A flush adds a batch of as many rows as were reserved behind the others. *)
LEMMA FlushSize ==
  ASSUME IInv, ClosedInv, FlushOutcome = "open", builders # None, Flush
  PROVE  /\ Len(data) \in Nat /\ Len(data') = Len(data) + 1
         /\ \A k \in 1..Len(data) : data'[k] = data[k]
         /\ Len(data'[Len(data')][1]) = rows_reserved
<1>1. TypeOK
  BY DEF IInv
<1> DEFINE batch == [c \in Cols |-> SubSeq(builders[c], 1, rows_reserved)]
<1>2. /\ schema > 0
      /\ \A c \in Cols : rows_reserved <= Len(builders[c])
      /\ data' = Append(data, batch)
      /\ batch \in Batches(schema)
  BY <1>1, FlushType
<1>3. /\ data \in Seq(Batches(schema)) /\ rows_reserved \in Nat /\ schema \in Nat
      /\ builders \in [Cols -> Seq(Cell)]
  BY <1>1, RowWriterAssumption DEF TypeOK, Batches, Cols
<1>4. 1 \in Cols
  BY <1>2, <1>3 DEF Cols
<1>5. Len(SubSeq(builders[1], 1, rows_reserved)) = rows_reserved
  BY <1>2, <1>3, <1>4
<1>6. batch[1] = SubSeq(builders[1], 1, rows_reserved)
  BY <1>4
<1> HIDE DEF batch
<1>7. /\ Len(data) \in Nat /\ Len(data') = Len(data) + 1
      /\ \A k \in 1..Len(data) : data'[k] = data[k]
      /\ data'[Len(data')] = batch
  BY <1>2, <1>3
<1> QED
  BY <1>5, <1>6, <1>7

(* What FullBatches says of batch k, in two parts. *)
NotTooLarge(k) ==
  Len(data[k][1]) <= min_batch_size \/ \E n \in RowCounts : Len(data[k][1]) <= n
NotTooShort(k) == \E n \in RowCounts : Len(data[k][1]) + n > min_batch_size

(* The builders are allocated for min_batch_size rows, or for the one       *)
(* announcement that is larger; and while the writer is open no batch is    *)
(* short, not even the last one.                                            *)
SizesInv ==
  /\ builders # None =>
       /\ rows_capacity >= min_batch_size
       /\ rows_capacity = min_batch_size \/ rows_capacity \in RowCounts
  /\ \A k \in 1..Len(data) : schema > 0 => NotTooLarge(k)
  /\ \A k \in 1..Len(data) : schema > 0 /\ (status = "open" \/ k < Len(data)) => NotTooShort(k)

LEMMA SizesUnchanged ==
  ASSUME SizesInv, UNCHANGED << schema, min_batch_size, data, rows_capacity >>,
         builders' # None => builders # None, status' = "open" => status = "open"
  PROVE  SizesInv'
BY DEF SizesInv, NotTooLarge, NotTooShort

(* What is reserved is no more than the builders were allocated for.        *)
LEMMA ReservedFits ==
  ASSUME IInv, ClosedInv, SizesInv, builders # None
  PROVE  /\ rows_reserved \in Nat /\ rows_capacity \in Nat /\ min_batch_size \in Nat
         /\ rows_reserved <= min_batch_size \/ \E n \in RowCounts : rows_reserved <= n
         /\ min_batch_size <= rows_capacity
<1>1. TypeOK /\ BuildersInv
  BY DEF IInv, ClosedInv
<1>2. rows_reserved \in Nat /\ rows_capacity \in Nat /\ min_batch_size \in Nat
  BY <1>1, RowWriterAssumption DEF TypeOK
<1>3. rows_reserved <= rows_capacity
  BY <1>1 DEF BuildersInv
<1>4. /\ rows_capacity >= min_batch_size
      /\ rows_capacity = min_batch_size \/ rows_capacity \in RowCounts
  BY DEF SizesInv
<1> QED
  BY <1>2, <1>3, <1>4

(* A flush in allocate(n) or in finish(). *)
LEMMA FlushKeepsSizes ==
  ASSUME IInv, ClosedInv, SizesInv, status = "open", builders # None,
         FlushOutcome = "open", Flush, UNCHANGED << schema, min_batch_size >>
  PROVE  /\ \A k \in 1..Len(data') : schema' > 0 => NotTooLarge(k)'
         /\ \A k \in 1..Len(data') : schema' > 0 /\ k < Len(data') => NotTooShort(k)'
         /\ \A n \in RowCounts :
              rows_capacity < n + rows_reserved => NotTooShort(Len(data))'
<1>1. /\ Len(data) \in Nat /\ Len(data') = Len(data) + 1
      /\ \A k \in 1..Len(data) : data'[k] = data[k]
      /\ Len(data'[Len(data')][1]) = rows_reserved
  BY FlushSize
<1>2. /\ rows_reserved \in Nat /\ rows_capacity \in Nat /\ min_batch_size \in Nat
      /\ rows_reserved <= min_batch_size \/ \E n \in RowCounts : rows_reserved <= n
      /\ min_batch_size <= rows_capacity
  BY ReservedFits
<1>3. \A k \in 1..Len(data') : schema' > 0 => NotTooLarge(k)'
  <2> SUFFICES ASSUME NEW k \in 1..Len(data'), schema > 0 PROVE NotTooLarge(k)'
    OBVIOUS
  <2>1. CASE k = Len(data')
    BY <1>1, <1>2, <2>1 DEF NotTooLarge
  <2>2. CASE k # Len(data')
    <3>1. k \in 1..Len(data) /\ data'[k] = data[k]
      BY <1>1, <2>2
    <3> QED
      BY <3>1 DEF SizesInv, NotTooLarge
  <2> QED
    BY <2>1, <2>2
<1>4. \A k \in 1..Len(data') : schema' > 0 /\ k < Len(data') => NotTooShort(k)'
  <2> SUFFICES ASSUME NEW k \in 1..Len(data'), schema > 0, k < Len(data')
               PROVE  NotTooShort(k)'
    OBVIOUS
  <2>1. k \in 1..Len(data) /\ data'[k] = data[k]
    BY <1>1
  <2> QED
    BY <2>1 DEF SizesInv, NotTooShort
<1>5. \A n \in RowCounts : rows_capacity < n + rows_reserved => NotTooShort(Len(data))'
  <2> SUFFICES ASSUME NEW n \in RowCounts, rows_capacity < n + rows_reserved
               PROVE  NotTooShort(Len(data))'
    OBVIOUS
  <2>1. n \in Nat
    BY RowWriterAssumption
  <2>2. rows_reserved + n > min_batch_size
    BY <1>2, <2>1
  <2> QED
    BY <1>1, <2>2 DEF NotTooShort
<1> QED
  BY <1>3, <1>4, <1>5

LEMMA SizesStep ==
  ASSUME IInv, ClosedInv, SizesInv, [Next]_vars
  PROVE  SizesInv'
<1>1. ASSUME NEW n \in RowCounts, PrepareForBatch(n) PROVE SizesInv'
  <2>1. /\ status = "open" /\ UNCHANGED << schema, min_batch_size >>
        /\ Reserve(n) \/ Reallocate(n) \/ ReallocateFails(n)
    BY <1>1 DEF PrepareForBatch, Allocate
  <2>2. n \in Nat /\ min_batch_size \in Nat
    BY RowWriterAssumption DEF IInv, TypeOK
  <2>3. CASE Reserve(n)
    BY <2>1, <2>3, SizesUnchanged DEF Reserve
  <2>4. CASE ReallocateFails(n)
    BY <2>1, <2>4, SizesUnchanged DEF ReallocateFails
  <2>5. CASE Reallocate(n)
    <3>1. /\ rows_capacity < n + rows_reserved
          /\ rows_capacity' = n \/ rows_capacity' = min_batch_size
          /\ rows_capacity' >= min_batch_size
          /\ status' = "open"
      BY <2>1, <2>2, <2>5 DEF Reallocate
    <3>2. CASE rows_reserved = 0 /\ UNCHANGED data
      BY <2>1, <3>1, <3>2 DEF SizesInv, NotTooLarge, NotTooShort
    <3>3. CASE rows_reserved > 0 /\ FlushOutcome = "open" /\ Flush
      <4>1. builders # None
        BY <2>1, <3>3 DEF IInv, NoBuildersInv
      <4>2. /\ \A k \in 1..Len(data') : schema' > 0 => NotTooLarge(k)'
            /\ \A k \in 1..Len(data') : schema' > 0 /\ k < Len(data') => NotTooShort(k)'
            /\ NotTooShort(Len(data))'
        BY <2>1, <3>1, <3>3, <4>1, FlushKeepsSizes
      <4>3. Len(data') \in Nat
        BY <3>3, <4>1, FlushSize
      <4>4. \A k \in 1..Len(data') : schema' > 0 => NotTooShort(k)'
        <5>1. \A k \in 1..Len(data') : k = Len(data') \/ k < Len(data')
          BY <4>3
        <5> QED
          BY <4>2, <5>1 DEF NotTooShort
      <4> QED
        BY <2>1, <3>1, <4>2, <4>4 DEF SizesInv
    <3> QED
      BY <2>5, <3>2, <3>3 DEF Reallocate
  <2> QED
    BY <2>1, <2>3, <2>4, <2>5
<1>2. CASE ConsumeCell
  <2>1. UNCHANGED << schema, min_batch_size, data, rows_capacity >>
    BY <1>2 DEF ConsumeCell
  <2>2. (builders' # None => builders # None) /\ (status' = "open" => status = "open")
    BY <1>2 DEF ConsumeCell
  <2> QED
    BY <2>1, <2>2, SizesUnchanged
<1>3. CASE Finish
  <2>1. /\ status = "open" /\ status' # "open" /\ builders' = None
        /\ UNCHANGED << schema, min_batch_size, rows_capacity >>
    BY <1>3 DEF Finish
  <2>2. CASE FlushOutcome = "open" /\ Flush /\ builders # None
    <3>1. /\ \A k \in 1..Len(data') : schema' > 0 => NotTooLarge(k)'
          /\ \A k \in 1..Len(data') : schema' > 0 /\ k < Len(data') => NotTooShort(k)'
      BY <2>1, <2>2, FlushKeepsSizes
    <3> QED
      BY <2>1, <3>1 DEF SizesInv
  <2>3. CASE UNCHANGED data
    BY <2>1, <2>3, SizesUnchanged
  <2> QED
    BY <1>3, <2>2, <2>3, FlushNothing DEF Finish
<1>4. CASE Drop
  <2>1. Len(data') = 0 /\ 1..0 = {} /\ builders' = None
    BY <1>4 DEF Drop
  <2> QED
    BY <2>1 DEF SizesInv
<1>5. CASE UNCHANGED vars
  BY <1>5, SizesUnchanged DEF vars
<1> QED
  BY <1>1, <1>2, <1>3, <1>4, <1>5 DEF Next

(* Only the last batch is short, and none is larger than it has to be. *)
THEOREM BatchesAreFull == Spec => []FullBatches
<1>1. Init => SizesInv
  <2> SUFFICES ASSUME Init PROVE SizesInv
    OBVIOUS
  <2>1. builders = None /\ Len(data) = 0 /\ 1..0 = {}
    BY DEF Init
  <2> QED
    BY <2>1 DEF SizesInv
<1>2. IInv /\ ClosedInv /\ SizesInv /\ [Next]_vars => SizesInv'
  BY SizesStep
<1>3. SizesInv => FullBatches
  BY DEF SizesInv, FullBatches, NotTooLarge, NotTooShort
<1> QED
  BY <1>1, <1>2, <1>3, Correct, ClosedHasNoBuilders, PTL DEF Spec

(* No cell is lost between the calls and the batches, for all schemas,      *)
(* batch sizes and announcements.                                           *)
THEOREM NothingEverLost == Spec => []NothingLost
<1>1. BatchesContinue /\ FinishDeliversAll => NothingLost
  BY DEF NothingLost
<1> QED
  BY <1>1, BatchesContinueAlways, FinishDelivers, PTL

(* The sizes of the batches, for all schemas, batch sizes and announcements.*)
THEOREM BatchLengthsHold == Spec => []BatchLengths
<1>1. NoEmptyBatch /\ WithinReservation /\ FullBatches => BatchLengths
  BY DEF BatchLengths
<1> QED
  BY <1>1, NoEmptyBatchEver, ReservationHolds, BatchesAreFull, PTL

=============================================================================
