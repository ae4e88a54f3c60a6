------------------------- MODULE SqliteQueryProofs -------------------------
(* Theorems about SqliteQuery, for every table, number of columns and       *)
(* interleaving with ALTER TABLE.  What is known of the writer comes from   *)
(* RowWriterProofs.                                                         *)
EXTENDS SqliteQuery, SequenceTheorems, WellFoundedInduction, TLAPS

R == INSTANCE RowWriterProofs WITH
       ColCounts     <- Widths \cup {0},
       MinBatchSizes <- 0..MaxRows,
       RowCounts     <- {1}

(* Until start_batch has inferred the schema its writer is a new one.       *)
FreshInv ==
  phase \in {"idle", "stepping"} =>
    /\ data = <<>> /\ builders = None
    /\ rows_reserved = 0 /\ rows_capacity = 0
    /\ row_count = 0 /\ next_row = 0 /\ next_col = 0 /\ written = 0
    /\ status = "open"

(* The rows fetched are the first rows of the table, as wide as the         *)
(* statement was when it was called.                                        *)
FetchedInv ==
  /\ Len(rows) <= Len(table)
  /\ phase = "stepping" => column_count \in Widths
  /\ \A r \in 1..Len(rows), c \in 1..column_count : rows[r][c] = table[r][c]

(* The type of a column comes from a value it has, or it has none but nulls.*)
TypeOfColumn(c, type) ==
  IF type = "Null" THEN \A r \in 1..Len(rows) : rows[r][c] = "Null"
                   ELSE \E r \in 1..Len(rows) : rows[r][c] = type

(* The schema that was inferred is the one of the whole table.              *)
InferredInv ==
  phase \in {"rows", "cells", "reading"} =>
    /\ column_count = prepared /\ Len(types) = column_count /\ Len(rows) = Len(table)
    /\ schema = column_count /\ min_batch_size = Len(rows)
    /\ \A c \in 1..column_count : TypeOfColumn(c, types[c])

(* The rows all fit the builders of the first one: there is one batch.      *)
CollectInv ==
  phase \in {"rows", "cells"} =>
    /\ status = "open" /\ data = <<>>
    /\ rows_reserved = written + (row_count - next_row)
    /\ rows_capacity = IF rows_reserved = 0 THEN 0 ELSE Len(rows)
    /\ rows_reserved <= Len(rows)
    /\ phase = "rows" <=> R!RowsComplete

(* ArrowReader has all rows, or has delivered them.                         *)
DeliveredInv ==
  /\ phase # "reading" => inner = <<>> /\ delivered = <<>> /\ outcome = "nothing"
  /\ phase = "reading" =>
       \/ inner = <<>> /\ Len(delivered) = Len(table)
       \/ /\ delivered = <<>> /\ outcome = "nothing"
          /\ inner # <<>> /\ Len(inner) = 1
          /\ Len(table) > 0 /\ Len(inner[1][1]) = Len(table)
          /\ \A i \in 1..Len(table) : inner[1][1][i][1] = i

IInv ==
  /\ TypeOK
  /\ R!IInv
  /\ FreshInv
  /\ FetchedInv
  /\ InferredInv
  /\ CollectInv
  /\ DeliveredInv
  /\ PanicsOnlyIfMixedOrAltered

-----------------------------------------------------------------------------
(* A set of numbers has a least one. *)
LEMMA LeastNumber ==
  ASSUME NEW T, T \subseteq Nat, T # {}
  PROVE  \E least \in T : \A n \in T : least <= n
<1>1. PICK least \in T : \A n \in T : ~(<<n, least>> \in OpToRel(<, Nat))
  BY NatLessThanWellFounded, WFMin
<1>2. \A n \in T : <<n, least>> \in OpToRel(<, Nat) <=> n < least
  BY DEF OpToRel
<1>3. \A n \in T : ~(n < least)
  BY <1>1, <1>2, Zenon
<1> QED
  BY <1>3

-----------------------------------------------------------------------------
(* The constants of start_batch are constants of its writer. *)
LEMMA WriterConstants ==
  /\ Widths \cup {0} \subseteq Nat
  /\ 0..MaxRows \subseteq Nat
  /\ {1} \subseteq Nat
  /\ MaxRows \in Nat
  /\ \A n \in Widths \cup {0} : None \notin R!Batches(n)
BY SqliteQueryAssumption DEF R!Batches, R!Cell

(* What the proofs need to know of the values of the variables. *)
LEMMA Values ==
  ASSUME IInv
  PROVE  /\ table \in Seq([1..MaxWidth -> Value]) /\ Len(table) \in Nat
         /\ rows \in Seq([1..column_count -> Value]) /\ Len(rows) \in Nat
         /\ Len(rows) <= Len(table) /\ Len(table) <= MaxRows
         /\ column_count \in Nat /\ columns \in Nat /\ columns <= MaxWidth
         /\ MaxWidth \in Nat /\ types \in Seq(Value)
         /\ schema \in Nat /\ rows_reserved \in Nat /\ rows_capacity \in Nat
         /\ row_count \in Nat /\ next_row \in Nat /\ next_col \in Nat /\ written \in Nat
         /\ builders \in R!Batches(schema) \cup {None}
<1>1. TypeOK /\ R!TypeOK /\ FetchedInv
  BY DEF IInv, R!IInv
<1>2. /\ schema \in Widths \cup {0} /\ rows_reserved \in Nat /\ rows_capacity \in Nat
      /\ row_count \in Nat /\ next_row \in Nat /\ next_col \in Nat /\ written \in Nat
      /\ builders \in R!Batches(schema) \cup {None}
  BY <1>1 DEF R!TypeOK
<1>3. MaxWidth \in Widths /\ \A w \in Widths : w <= MaxWidth
  BY SqliteQueryAssumption, Zenon DEF MaxWidth
<1>4. /\ rows \in Seq([1..column_count -> Value]) /\ types \in Seq(Value)
      /\ column_count \in Widths \cup {0} /\ columns \in Widths
  BY <1>1 DEF TypeOK
<1>5. table \in Seq([1..MaxWidth -> Value]) /\ Len(table) \in Nat /\ Len(table) <= MaxRows
  BY <1>1, SqliteQueryAssumption DEF TypeOK, Tables
<1>6. Len(rows) \in Nat /\ Len(rows) <= Len(table)
  BY <1>1, <1>4 DEF FetchedInv
<1>7. /\ column_count \in Nat /\ columns \in Nat /\ columns <= MaxWidth /\ MaxWidth \in Nat
      /\ schema \in Nat
  BY <1>2, <1>3, <1>4, SqliteQueryAssumption
<1> QED
  BY <1>2, <1>4, <1>5, <1>6, <1>7

LEMMA WriterTypeInv == R!IInv => W!TypeOK
BY DEF R!IInv, R!TypeOK, W!TypeOK, R!Batches, W!Batches, R!Cell, W!Cell, R!Status, W!Status

LEMMA WriterTypeNext == R!IInv' => W!TypeOK'
  BY WriterTypeInv, PTL

(* A call of the writer keeps what RowWriterProofs says of it. *)
LEMMA WriterStep ==
  ASSUME R!IInv, \/ W!PrepareForBatch(1) \/ W!ConsumeCell \/ W!Finish \/ W!Drop
                 \/ UNCHANGED writerVars
  PROVE  R!IInv'
<1>1. ASSUME W!PrepareForBatch(1) PROVE R!PrepareForBatch(1)
  BY <1>1 DEF W!PrepareForBatch, R!PrepareForBatch, W!RowsComplete, R!RowsComplete,
     W!Allocate, R!Allocate, W!Reserve, R!Reserve, W!Reallocate, R!Reallocate,
     W!ReallocateFails, R!ReallocateFails, W!FlushOutcome, R!FlushOutcome,
     W!ColumnTooShort, R!ColumnTooShort, W!Flush, R!Flush, W!Cols, R!Cols
<1>2. ASSUME W!ConsumeCell PROVE R!ConsumeCell
  BY <1>2 DEF W!ConsumeCell, R!ConsumeCell, W!RowsComplete, R!RowsComplete,
     W!NextColIndex, R!NextColIndex
<1>3. ASSUME W!Finish PROVE R!Finish
  BY <1>3 DEF W!Finish, R!Finish, W!RowsComplete, R!RowsComplete,
     W!FlushOutcome, R!FlushOutcome, W!ColumnTooShort, R!ColumnTooShort,
     W!Flush, R!Flush, W!Cols, R!Cols
<1>4. ASSUME W!Drop PROVE R!Drop
  BY <1>4 DEF W!Drop, R!Drop
<1>5. ASSUME UNCHANGED writerVars PROVE UNCHANGED R!vars
  BY <1>5 DEF writerVars, R!vars
<1>6. [R!Next]_(R!vars)
  BY <1>1, <1>2, <1>3, <1>4, <1>5 DEF R!Next
<1> QED
  BY <1>6, WriterConstants, R!StepInv

(* A writer's first state has the invariant, whenever it is entered. *)
LEMMA InitInv == R!Init => R!IInv
  BY WriterConstants, R!InitInv

LEMMA NewWriterInv == R!Init' => R!IInv'
  BY InitInv, PTL

-----------------------------------------------------------------------------
(* infer_schema stops at the end of the rows, or where all types are known. *)
LEMMA ScannedEnough ==
  ASSUME Len(rows) \in Nat
  PROVE  Scanned \in 0..Len(rows) /\ (Scanned = Len(rows) \/ AllKnown(Scanned))
<1> DEFINE Stops == {n \in 0..Len(rows) : n = Len(rows) \/ (n > 0 /\ AllKnown(n))}
<1>1. Stops \subseteq Nat /\ Len(rows) \in Stops
  OBVIOUS
<1>2. PICK least \in Stops : \A n \in Stops : least <= n
  <2> HIDE DEF Stops
  <2>1. Stops # {}
    BY <1>1
  <2> QED
    BY <1>1, <2>1, LeastNumber
<1>3. ASSUME NEW k \in 1..(least - 1), AllKnown(k)
      PROVE  FALSE
  <2>1. k \in Stops /\ least \in Nat /\ k < least
    BY <1>3
  <2> QED
    BY <1>2, <2>1
<1>4. \E n \in 0..Len(rows) : /\ n = Len(rows) \/ (n > 0 /\ AllKnown(n))
                              /\ \A k \in 1..(n - 1) : ~AllKnown(k)
  BY <1>3
<1> QED
  BY <1>4, Zenon DEF Scanned

(* The type of a column is right for all rows, also for those behind the    *)
(* last one that was scanned.                                               *)
LEMMA InferRight ==
  ASSUME rows \in Seq([1..column_count -> Value]), NEW c \in 1..column_count
  PROVE  Infer(c) \in Value /\ TypeOfColumn(c, Infer(c))
<1>1. /\ Len(rows) \in Nat /\ Scanned \in 0..Len(rows)
      /\ Scanned = Len(rows) \/ AllKnown(Scanned)
  BY ScannedEnough
<1>2. CASE ~Known(c, Scanned)
  <2>1. Scanned = Len(rows) /\ Infer(c) = "Null"
    BY <1>1, <1>2 DEF AllKnown, Infer
  <2>2. \A r \in 1..Len(rows) : rows[r][c] = "Null"
    BY <1>2, <2>1 DEF Known
  <2> QED
    BY <2>1, <2>2 DEF TypeOfColumn, Value
<1>3. CASE Known(c, Scanned)
  <2> DEFINE Values_c == {i \in 1..Scanned : rows[i][c] # "Null"}
  <2>1. Values_c \subseteq Nat /\ Values_c # {}
    BY <1>1, <1>3 DEF Known
  <2>2. PICK first \in Values_c : \A i \in Values_c : first <= i
    <3> HIDE DEF Values_c
    <3> QED
      BY <2>1, LeastNumber
  <2>3. ~Known(c, first - 1)
    <3> SUFFICES ASSUME NEW i \in 1..(first - 1), rows[i][c] # "Null" PROVE FALSE
      BY DEF Known
    <3>1. i \in Values_c /\ first \in Nat /\ i < first
      BY <1>1, <2>1
    <3> QED
      BY <2>2, <3>1
  <2>4. \E i \in 1..Scanned : rows[i][c] # "Null" /\ ~Known(c, i - 1)
    BY <2>2, <2>3
  <2> DEFINE chosen == CHOOSE i \in 1..Scanned : rows[i][c] # "Null" /\ ~Known(c, i - 1)
  <2>5. chosen \in 1..Scanned /\ rows[chosen][c] # "Null"
    BY <2>4, Zenon
  <2>6. Infer(c) = rows[chosen][c]
    BY <1>3 DEF Infer
  <2> HIDE DEF chosen
  <2>7. chosen \in 1..Len(rows)
    BY <1>1, <2>5
  <2>8. rows[chosen] \in [1..column_count -> Value]
    BY <2>7, ElementOfSeq
  <2>9. rows[chosen][c] \in Value
    BY <2>8
  <2> QED
    BY <2>5, <2>6, <2>7, <2>9 DEF TypeOfColumn
<1> QED
  BY <1>2, <1>3

-----------------------------------------------------------------------------
(* While rows are collected, what is reserved are the rows begun. *)
LEMMA Collecting ==
  ASSUME IInv, phase \in {"rows", "cells"}
  PROVE  /\ schema > 0 /\ status = "open" /\ data = <<>> /\ min_batch_size = Len(rows)
         /\ column_count = prepared /\ Len(rows) = Len(table) /\ schema = column_count
         /\ phase = "rows" <=> R!RowsComplete
         /\ phase = "rows" => rows_reserved = written
         /\ rows_capacity = IF rows_reserved = 0 THEN 0 ELSE Len(rows)
<1>1. CollectInv /\ InferredInv /\ prepared \in Widths
  BY DEF IInv, TypeOK
<1>2. /\ schema \in Nat /\ row_count \in Nat /\ next_row \in Nat /\ written \in Nat
  BY Values
<1>3. schema > 0
  BY <1>1, SqliteQueryAssumption DEF InferredInv
<1> QED
  BY <1>1, <1>2, <1>3 DEF CollectInv, InferredInv, R!RowsComplete

(* A row fits the builders: the writer reserves it without a flush. *)
LEMMA RowReserved ==
  ASSUME IInv, phase = "rows", written < Len(rows), W!PrepareForBatch(1)
  PROVE  /\ status' = "open" /\ data' = <<>>
         /\ rows_reserved' = written + 1 /\ rows_capacity' = Len(rows)
         /\ row_count' = 1 /\ next_row' = 0
         /\ UNCHANGED << schema, min_batch_size, written >>
<1>1. /\ written \in Nat /\ rows_reserved = written /\ status = "open" /\ data = <<>>
      /\ rows_capacity = IF rows_reserved = 0 THEN 0 ELSE Len(rows)
      /\ min_batch_size = Len(rows) /\ Len(rows) \in Nat
  BY Collecting, Values
<1>2. row_count' = 1 /\ next_row' = 0 /\ W!Allocate(1)
      /\ UNCHANGED << schema, min_batch_size, written >>
  BY DEF W!PrepareForBatch
<1>3. CASE W!Reserve(1)
  <2>1. rows_capacity = Len(rows)
    BY <1>1, <1>3 DEF W!Reserve
  <2> QED
    BY <1>1, <1>2, <1>3, <2>1 DEF W!Reserve
<1>4. CASE W!Reallocate(1)
  <2>1. written = 0
    BY <1>1, <1>4 DEF W!Reallocate
  <2>2. rows_capacity' = Len(rows)
    BY <1>1, <1>4, <2>1 DEF W!Reallocate
  <2> QED
    BY <1>1, <1>2, <1>4, <2>1, <2>2 DEF W!Reallocate
<1>5. ~W!ReallocateFails(1)
  BY <1>1 DEF W!ReallocateFails
<1> QED
  BY <1>2, <1>3, <1>4, <1>5 DEF W!Allocate

(* finish() makes one batch of the rows, and none of no rows. *)
LEMMA RowsFinished ==
  ASSUME IInv, phase = "rows", written = Len(rows), W!Finish
  PROVE  /\ status' = "finished"
         /\ \/ Len(rows) = 0 /\ data' = <<>>
            \/ /\ Len(rows) > 0 /\ data' # <<>> /\ Len(data') = 1
               /\ Len(data'[1][1]) = Len(rows)
               /\ \A i \in 1..Len(rows) : data'[1][1][i][1] = i
<1>1. /\ R!IInv /\ status = "open" /\ data = <<>> /\ R!RowsComplete
      /\ rows_reserved = Len(rows) /\ Len(rows) \in Nat /\ schema \in Nat /\ schema > 0
      /\ builders \in R!Batches(schema) \cup {None}
  BY Values, Collecting DEF IInv
<1>2. R!FlushOutcome = "open"
  <2>1. R!FlushOutcome = IF builders # None /\ schema = 0 THEN "failed" ELSE "open"
    BY <1>1, WriterConstants, R!FlushSafe
  <2> QED
    BY <1>1, <2>1
<1>3. W!FlushOutcome = R!FlushOutcome /\ (W!Flush <=> R!Flush)
  BY DEF W!FlushOutcome, R!FlushOutcome, W!ColumnTooShort, R!ColumnTooShort,
         W!Flush, R!Flush, W!Cols, R!Cols
<1>4. status' = "finished" /\ R!Flush
  BY <1>2, <1>3 DEF W!Finish
<1>5. builders = None <=> Len(rows) = 0
  BY <1>1 DEF R!IInv, R!NoBuildersInv, R!BuildersInv
<1>6. CASE builders = None
  BY <1>1, <1>4, <1>5, <1>6 DEF R!Flush
<1>7. CASE builders # None
  <2> DEFINE new == [c \in R!Cols |-> SubSeq(builders[c], 1, rows_reserved)]
  <2>1. /\ Len(builders[1]) = rows_reserved
        /\ R!Consecutive(builders[1], 1, R!FlushedRows)
    <3>1. /\ \A c \in R!Cols : Len(builders[c]) = rows_reserved
          /\ \A c \in R!Cols : R!Consecutive(builders[c], c, R!FlushedRows)
      BY <1>1, <1>7, WriterConstants, R!CompleteColumns
    <3> QED
      BY <1>1, <3>1 DEF R!Cols
  <2>2. R!FlushedRows = 0
    BY <1>1 DEF R!FlushedRows
  <2>3. builders[1] \in Seq(R!Cell) /\ 1 \in R!Cols
    BY <1>1, <1>7 DEF R!Batches, R!Cols
  <2>4. SubSeq(builders[1], 1, rows_reserved) = builders[1]
    BY <2>1, <2>3
  <2>5. new[1] = builders[1]
    BY <2>3, <2>4
  <2>6. data' = Append(<<>>, new)
    BY <1>1, <1>4, <1>7 DEF R!Flush
  <2> HIDE DEF new
  <2>7. Len(data') = 1 /\ data'[1] = new /\ data' # <<>>
    BY <2>6
  <2>8. \A i \in 1..Len(rows) : builders[1][i] = <<i, 1>>
    BY <1>1, <2>1, <2>2 DEF R!Consecutive
  <2> QED
    BY <1>1, <1>4, <1>5, <1>7, <2>1, <2>5, <2>7, <2>8
<1> QED
  BY <1>6, <1>7

-----------------------------------------------------------------------------
LEMMA InitStep ==
  ASSUME Init
  PROVE  IInv
<1>1. 0 \in 0..MaxRows /\ 1..0 = {} /\ Len(<<>>) = 0
  BY SqliteQueryAssumption
<1>2. R!IInv
  BY <1>1, InitInv DEF Init, R!Init
<1>3. Len(table) \in Nat
  BY SqliteQueryAssumption DEF Init, Tables
<1>4. TypeOK
  BY <1>2, WriterTypeInv, SqliteQueryAssumption DEF Init, TypeOK
<1>5. FreshInv /\ FetchedInv /\ InferredInv /\ CollectInv /\ DeliveredInv
  BY <1>1, <1>3 DEF Init, FreshInv, FetchedInv, InferredInv, CollectInv, DeliveredInv
<1>6. PanicsOnlyIfMixedOrAltered
  BY DEF Init, PanicsOnlyIfMixedOrAltered
<1> QED
  BY <1>2, <1>4, <1>5, <1>6 DEF IInv

(* A new writer's variables satisfy Init, whatever has been inferred.       *)
LEMMA CollectStep ==
  ASSUME IInv, phase = "stepping", prepared' \in Widths, Len(rows) = Len(table), Collect
  PROVE  IInv'
<1>1. /\ UNCHANGED << table, columns, starts, column_count, rows, inner, delivered, outcome >>
      /\ UNCHANGED << data, builders, rows_reserved, rows_capacity, row_count, next_row,
                      next_col, written, status >>
  BY DEF Collect, readerVars
<1>2. /\ data = <<>> /\ builders = None
      /\ rows_reserved = 0 /\ rows_capacity = 0
      /\ row_count = 0 /\ next_row = 0 /\ next_col = 0 /\ written = 0
      /\ status = "open" /\ column_count \in Widths
      /\ inner = <<>> /\ delivered = <<>> /\ outcome = "nothing"
  BY DEF IInv, FreshInv, FetchedInv, DeliveredInv
<1>3. /\ rows \in Seq([1..column_count -> Value]) /\ Len(rows) \in Nat
      /\ column_count \in Nat /\ Len(rows) \in 0..MaxRows
  BY Values, SqliteQueryAssumption
<1>4. FetchedInv'
  BY <1>1, <1>2 DEF IInv, FetchedInv
<1>5. CASE NamesFit
  <2>1. /\ types' = [c \in 1..column_count |-> Infer(c)]
        /\ schema' = column_count /\ min_batch_size' = Len(rows) /\ phase' = "rows"
        /\ prepared' = column_count
    BY <1>5 DEF Collect, NamesFit
  <2>2. types' \in Seq(Value) /\ Len(types') = column_count
    <3>1. \A c \in 1..column_count : Infer(c) \in Value
      BY <1>3, InferRight
    <3> QED
      BY <1>3, <2>1, <3>1
  <2>3. R!IInv'
    BY <1>1, <1>2, <1>3, <2>1, NewWriterInv DEF R!Init
  <2>4. TypeOK'
    BY <1>1, <1>2, <2>1, <2>2, <2>3, WriterTypeNext DEF IInv, TypeOK
  <2>5. \A c \in 1..column_count' : TypeOfColumn(c, types[c])'
    <3> TAKE c \in 1..column_count'
    <3>1. c \in 1..column_count /\ rows' = rows
      BY <1>1
    <3>2. TypeOfColumn(c, Infer(c))
      BY <1>3, <3>1, InferRight
    <3>3. types'[c] = Infer(c)
      BY <2>1, <3>1
    <3> QED
      BY <3>1, <3>2, <3>3 DEF TypeOfColumn
  <2>6. InferredInv'
    BY <1>1, <2>1, <2>2, <2>5 DEF InferredInv, TypeOfColumn
  <2>7. CollectInv'
    BY <1>1, <1>2, <1>3, <2>1 DEF CollectInv, R!RowsComplete
  <2> QED
    BY <1>1, <1>2, <1>4, <2>1, <2>3, <2>4, <2>6, <2>7
    DEF IInv, FreshInv, DeliveredInv, PanicsOnlyIfMixedOrAltered
<1>6. CASE ~NamesFit
  <2>1. /\ phase' = "panicked" /\ UNCHANGED << types, schema, min_batch_size >>
        /\ prepared' # column_count'
    BY <1>1, <1>6 DEF Collect, NamesFit
  <2>2. R!IInv'
    BY <1>1, <2>1, WriterStep DEF IInv, writerVars
  <2>3. TypeOK'
    BY <1>1, <1>2, <2>1, <2>2, WriterTypeNext DEF IInv, TypeOK
  <2> QED
    BY <1>1, <1>2, <1>4, <2>1, <2>2, <2>3
    DEF IInv, FreshInv, InferredInv, CollectInv, DeliveredInv, PanicsOnlyIfMixedOrAltered
<1> QED
  BY <1>5, <1>6

LEMMA AlterTableStep ==
  ASSUME IInv, AlterTable \/ UNCHANGED vars
  PROVE  IInv'
<1>1. /\ UNCHANGED << table, prepared, phase, starts, column_count, rows, types >>
      /\ UNCHANGED << inner, delivered, outcome >> /\ UNCHANGED writerVars
      /\ columns' \in Widths
  BY DEF AlterTable, vars, readerVars, IInv, TypeOK
<1>2. R!IInv'
  BY <1>1, WriterStep DEF IInv
<1>3. TypeOK'
  BY <1>1, <1>2, WriterTypeNext DEF IInv, TypeOK, writerVars
<1>4. FreshInv' /\ FetchedInv' /\ DeliveredInv' /\ PanicsOnlyIfMixedOrAltered'
  BY <1>1 DEF IInv, FreshInv, FetchedInv, DeliveredInv, PanicsOnlyIfMixedOrAltered, writerVars
<1>5. InferredInv' /\ CollectInv'
  BY <1>1 DEF IInv, InferredInv, TypeOfColumn, CollectInv, R!RowsComplete, writerVars
<1> QED
  BY <1>2, <1>3, <1>4, <1>5 DEF IInv

LEMMA StartBatchStep ==
  ASSUME IInv, StartBatch
  PROVE  IInv'
<1>1. /\ UNCHANGED << table, columns, prepared, types, inner, delivered, outcome >>
      /\ UNCHANGED writerVars /\ phase = "idle" /\ phase' = "stepping" /\ rows' = <<>>
      /\ column_count' = prepared /\ starts' = starts + 1 /\ starts < MaxStarts
  BY DEF StartBatch, readerVars
<1>2. R!IInv'
  BY <1>1, WriterStep DEF IInv
<1>3. /\ Len(rows') = 0 /\ 1..0 = {} /\ Len(table) \in Nat /\ prepared \in Widths
      /\ starts' \in 0..MaxStarts /\ rows' \in Seq([1..column_count' -> Value])
  BY <1>1, Values, SqliteQueryAssumption DEF IInv, TypeOK
<1>4. TypeOK'
  BY <1>1, <1>2, <1>3, WriterTypeNext DEF IInv, TypeOK, writerVars
<1>5. FreshInv' /\ FetchedInv' /\ InferredInv' /\ CollectInv' /\ DeliveredInv'
  BY <1>1, <1>3
  DEF IInv, FreshInv, FetchedInv, InferredInv, CollectInv, DeliveredInv, writerVars
<1>6. PanicsOnlyIfMixedOrAltered'
  BY <1>1 DEF PanicsOnlyIfMixedOrAltered
<1> QED
  BY <1>2, <1>4, <1>5, <1>6 DEF IInv

LEMMA FetchFailsStep ==
  ASSUME IInv, FetchFails
  PROVE  IInv'
<1>1. /\ UNCHANGED << table, columns, starts, column_count, rows, types >>
      /\ UNCHANGED << inner, delivered, outcome >> /\ UNCHANGED writerVars
      /\ phase = "stepping" /\ phase' = "idle" /\ prepared' \in {prepared, columns}
  BY DEF FetchFails, readerVars
<1>2. R!IInv'
  BY <1>1, WriterStep DEF IInv
<1>3. TypeOK'
  BY <1>1, <1>2, WriterTypeNext DEF IInv, TypeOK, writerVars
<1>4. FreshInv' /\ FetchedInv' /\ InferredInv' /\ CollectInv' /\ DeliveredInv'
  BY <1>1 DEF IInv, FreshInv, FetchedInv, InferredInv, CollectInv, DeliveredInv, writerVars
<1>5. PanicsOnlyIfMixedOrAltered'
  BY <1>1 DEF PanicsOnlyIfMixedOrAltered
<1> QED
  BY <1>2, <1>3, <1>4, <1>5 DEF IInv

LEMMA FetchRowStep ==
  ASSUME IInv, FetchRow
  PROVE  IInv'
<1>1. /\ UNCHANGED << table, columns, starts, column_count, types >>
      /\ UNCHANGED << inner, delivered, outcome >> /\ UNCHANGED writerVars
      /\ phase = "stepping" /\ prepared' = columns /\ Len(rows) < Len(table)
  BY DEF FetchRow, Step, readerVars
<1>2. R!IInv'
  BY <1>1, WriterStep DEF IInv
<1>3. /\ Len(rows) \in Nat /\ Len(table) \in Nat /\ column_count \in Nat
      /\ columns <= MaxWidth /\ columns \in Nat /\ MaxWidth \in Nat
      /\ table \in Seq([1..MaxWidth -> Value]) /\ rows \in Seq([1..column_count -> Value])
  BY Values
<1>4. CASE column_count <= columns
  <2> DEFINE row == [c \in 1..column_count |-> table[Len(rows) + 1][c]]
  <2>1. rows' = Append(rows, row) /\ phase' = phase
    BY <1>4 DEF FetchRow
  <2>2. /\ row \in [1..column_count -> Value]
        /\ \A c \in 1..column_count : row[c] = table[Len(rows) + 1][c]
    <3>1. Len(rows) + 1 \in 1..Len(table)
      BY <1>1, <1>3
    <3>2. table[Len(rows) + 1] \in [1..MaxWidth -> Value]
      BY <1>3, <3>1, ElementOfSeq
    <3>3. \A c \in 1..column_count : c \in 1..MaxWidth
      BY <1>3, <1>4
    <3> QED
      BY <3>2, <3>3
  <2> HIDE DEF row
  <2>3. /\ rows' \in Seq([1..column_count -> Value]) /\ Len(rows') = Len(rows) + 1
        /\ \A r \in 1..Len(rows) : rows'[r] = rows[r]
        /\ rows'[Len(rows) + 1] = row
    BY <1>3, <2>1, <2>2, AppendProperties
  <2>4. TypeOK'
    BY <1>1, <1>2, <2>1, <2>3, WriterTypeNext DEF IInv, TypeOK, writerVars
  <2>5. FetchedInv'
    <3>1. \A r \in 1..Len(rows'), c \in 1..column_count' : rows'[r][c] = table'[r][c]
      <4> TAKE r \in 1..Len(rows'), c \in 1..column_count'
      <4>1. CASE r \in 1..Len(rows)
        BY <1>1, <2>3, <4>1 DEF IInv, FetchedInv
      <4>2. CASE r = Len(rows) + 1
        BY <1>1, <2>2, <2>3, <4>2
      <4> QED
        BY <1>3, <2>3, <4>1, <4>2
    <3> QED
      BY <1>1, <1>3, <2>1, <2>3, <3>1 DEF IInv, FetchedInv
  <2>6. FreshInv' /\ InferredInv' /\ CollectInv' /\ DeliveredInv'
    BY <1>1, <2>1 DEF IInv, FreshInv, InferredInv, CollectInv, DeliveredInv, writerVars
  <2>7. PanicsOnlyIfMixedOrAltered'
    BY <1>1, <2>1 DEF PanicsOnlyIfMixedOrAltered
  <2> QED
    BY <1>2, <2>4, <2>5, <2>6, <2>7 DEF IInv
<1>5. CASE ~(column_count <= columns)
  <2>1. phase' = "panicked" /\ UNCHANGED rows /\ prepared' # column_count'
    BY <1>1, <1>3, <1>5 DEF FetchRow
  <2>2. TypeOK'
    BY <1>1, <1>2, <2>1, WriterTypeNext DEF IInv, TypeOK, writerVars
  <2> QED
    BY <1>1, <1>2, <2>1, <2>2
    DEF IInv, FreshInv, FetchedInv, InferredInv, CollectInv, DeliveredInv,
        PanicsOnlyIfMixedOrAltered, writerVars
<1> QED
  BY <1>4, <1>5


LEMMA NextRowStep ==
  ASSUME IInv, NextRow
  PROVE  IInv'
<1>1. /\ UNCHANGED << table, columns, prepared, starts, column_count, rows, types >>
      /\ UNCHANGED << inner, delivered, outcome >>
      /\ phase = "rows" /\ phase' = "cells" /\ written < Len(rows) /\ W!PrepareForBatch(1)
  BY DEF NextRow, readerVars
<1>2. R!IInv'
  BY <1>1, WriterStep DEF IInv
<1>3. /\ status' = "open" /\ data' = <<>>
      /\ rows_reserved' = written + 1 /\ rows_capacity' = Len(rows)
      /\ row_count' = 1 /\ next_row' = 0
      /\ UNCHANGED << schema, min_batch_size, written >>
  BY <1>1, RowReserved
<1>4. TypeOK'
  BY <1>1, <1>2, <1>3, WriterTypeNext DEF IInv, TypeOK
<1>5. /\ written \in Nat /\ Len(rows) \in Nat /\ schema > 0
  BY <1>1, Values, Collecting
<1>6. CollectInv'
  BY <1>1, <1>3, <1>5 DEF CollectInv, R!RowsComplete
<1>7. InferredInv'
  BY <1>1, <1>3 DEF IInv, InferredInv, TypeOfColumn
<1>8. FreshInv' /\ FetchedInv' /\ DeliveredInv' /\ PanicsOnlyIfMixedOrAltered'
  BY <1>1 DEF IInv, FreshInv, FetchedInv, DeliveredInv, PanicsOnlyIfMixedOrAltered
<1> QED
  BY <1>2, <1>4, <1>6, <1>7, <1>8 DEF IInv

LEMMA TransportStep ==
  ASSUME IInv, Transport
  PROVE  IInv'
<1>1. /\ UNCHANGED << table, columns, prepared, starts, column_count, rows, types >>
      /\ UNCHANGED << inner, delivered, outcome >>
      /\ phase = "cells" /\ W!ConsumeCell
      /\ phase' = IF next_row' = row_count THEN "rows" ELSE "cells"
  BY DEF Transport, readerVars
<1>2. R!IInv'
  BY <1>1, WriterStep DEF IInv
<1>3. UNCHANGED << schema, min_batch_size, data, rows_reserved, rows_capacity, row_count >>
  BY <1>1 DEF W!ConsumeCell
<1>4. TypeOK'
  BY <1>1, <1>2, <1>3, WriterTypeNext DEF IInv, TypeOK
<1>5. /\ written \in Nat /\ next_row \in Nat /\ row_count \in Nat
      /\ schema > 0 /\ ~R!RowsComplete /\ status = "open" /\ CollectInv
  BY <1>1, Values, Collecting DEF IInv
<1>6. status' = "open"
  <2>1. builders # None
    BY <1>5 DEF IInv, R!IInv, R!NoBuildersInv, R!RowsComplete
  <2> QED
    BY <1>1, <1>5, <2>1 DEF W!ConsumeCell
<1>7. CollectInv'
  <2>1. \/ next_row' = next_row + 1 /\ written' = written + 1
        \/ UNCHANGED << next_row, written >>
    BY <1>1 DEF W!ConsumeCell, W!NextColIndex
  <2>2. written' + (row_count' - next_row') = written + (row_count - next_row)
    BY <1>3, <1>5, <2>1
  <2>3. phase' = "rows" <=> R!RowsComplete'
    BY <1>1, <1>3, <1>5 DEF R!RowsComplete
  <2> QED
    BY <1>1, <1>3, <1>5, <1>6, <2>2, <2>3 DEF CollectInv
<1>8. InferredInv'
  BY <1>1, <1>3 DEF IInv, InferredInv, TypeOfColumn
<1>9. FreshInv' /\ FetchedInv' /\ DeliveredInv' /\ PanicsOnlyIfMixedOrAltered'
  BY <1>1 DEF IInv, FreshInv, FetchedInv, DeliveredInv, PanicsOnlyIfMixedOrAltered
<1> QED
  BY <1>2, <1>4, <1>7, <1>8, <1>9 DEF IInv

(* A value that its column does not take is of another kind than the one    *)
(* the column's type comes from.                                            *)
LEMMA TransportPanicsStep ==
  ASSUME IInv, TransportPanics
  PROVE  IInv'
<1>1. /\ UNCHANGED << table, columns, prepared, starts, column_count, rows, types >>
      /\ UNCHANGED << inner, delivered, outcome >>
      /\ phase = "cells" /\ phase' = "panicked" /\ W!Drop
      /\ ~Produces(next_col + 1, Cell)
  BY DEF TransportPanics, readerVars
<1>2. R!IInv'
  BY <1>1, WriterStep DEF IInv
<1>3. TypeOK'
  BY <1>1, <1>2, WriterTypeNext DEF IInv, TypeOK, W!Drop
<1>4. PanicsOnlyIfMixedOrAltered'
  <2>1. /\ written \in Nat /\ next_row \in Nat /\ row_count \in Nat /\ next_col \in Nat
        /\ Len(rows) \in Nat /\ schema \in Nat /\ schema > 0 /\ schema = column_count
        /\ ~R!RowsComplete /\ status = "open" /\ CollectInv /\ InferredInv
    BY <1>1, Values, Collecting DEF IInv
  <2>2. next_row < row_count /\ next_col < schema
    BY <2>1 DEF IInv, R!IInv, R!PositionInv, R!RowsComplete
  <2>3. written + 1 \in 1..Len(rows)
    <3>1. rows_reserved = written + (row_count - next_row) /\ rows_reserved <= Len(rows)
      BY <1>1, <2>1 DEF CollectInv
    <3> QED
      BY <2>1, <2>2, <3>1
  <2>4. PICK c \in 1..column_count : c = next_col + 1
    BY <2>1, <2>2
  <2>5. PICK i \in 1..Len(rows) : i = written + 1
    BY <2>3
  <2>6. types[c] # "Null" /\ rows[i][c] # "Null" /\ rows[i][c] # types[c]
    BY <1>1, <2>4, <2>5 DEF Produces, Nullable, Cell
  <2>7. PICK j \in 1..Len(rows) : rows[j][c] = types[c]
    BY <1>1, <2>1, <2>6 DEF InferredInv, TypeOfColumn
  <2>8. rows[i][c] # rows[j][c] /\ "Null" \notin {rows[i][c], rows[j][c]}
    BY <2>6, <2>7
  <2> QED
    BY <1>1, <2>8 DEF PanicsOnlyIfMixedOrAltered
<1>5. FreshInv' /\ FetchedInv' /\ InferredInv' /\ CollectInv' /\ DeliveredInv'
  BY <1>1 DEF IInv, FreshInv, FetchedInv, InferredInv, CollectInv, DeliveredInv
<1> QED
  BY <1>2, <1>3, <1>4, <1>5 DEF IInv

LEMMA FinishRowsStep ==
  ASSUME IInv, FinishRows
  PROVE  IInv'
<1>1. /\ UNCHANGED << table, columns, prepared, starts, column_count, rows, types >>
      /\ UNCHANGED << delivered, outcome, schema, min_batch_size >>
      /\ phase = "rows" /\ written = Len(rows) /\ W!Finish /\ inner' = data'
  BY DEF FinishRows, W!Finish
<1>2. R!IInv'
  BY <1>1, WriterStep DEF IInv
<1>3. /\ status' = "finished"
      /\ \/ Len(rows) = 0 /\ data' = <<>>
         \/ /\ Len(rows) > 0 /\ data' # <<>> /\ Len(data') = 1
            /\ Len(data'[1][1]) = Len(rows)
            /\ \A i \in 1..Len(rows) : data'[1][1][i][1] = i
  BY <1>1, RowsFinished
<1>4. phase' = "reading"
  BY <1>3 DEF FinishRows
<1>5. inner' \in Seq(W!Batches(schema'))
  BY <1>1, <1>2, WriterTypeNext DEF W!TypeOK
<1>6. TypeOK'
  BY <1>1, <1>2, <1>4, <1>5, WriterTypeNext DEF IInv, TypeOK
<1>7. DeliveredInv'
  <2>1. Len(rows) = Len(table) /\ delivered = <<>> /\ outcome = "nothing" /\ Len(<<>>) = 0
    BY <1>1, Collecting DEF IInv, DeliveredInv
  <2> QED
    BY <1>1, <1>3, <1>4, <2>1 DEF DeliveredInv
<1>8. FreshInv' /\ FetchedInv' /\ CollectInv' /\ PanicsOnlyIfMixedOrAltered'
  BY <1>1, <1>4 DEF IInv, FreshInv, FetchedInv, CollectInv, PanicsOnlyIfMixedOrAltered
<1>9. InferredInv'
  BY <1>1, <1>4 DEF IInv, InferredInv, TypeOfColumn
<1> QED
  BY <1>2, <1>6, <1>7, <1>8, <1>9 DEF IInv

(* The batch ArrowReader hands over holds all rows. *)
LEMMA BatchIsTable ==
  ASSUME IInv, NextBatch
  PROVE  /\ phase = "reading" /\ Len(table) \in Nat
         /\ UNCHANGED << table, columns, prepared, phase, starts, column_count, rows, types >>
         /\ UNCHANGED writerVars
         /\ \/ /\ inner = <<>> /\ Len(delivered) = Len(table) /\ outcome' = "end"
               /\ UNCHANGED << inner, delivered >>
            \/ /\ delivered = <<>> /\ Len(table) > 0 /\ outcome' = "batch" /\ inner' = <<>>
               /\ delivered' = delivered \o [i \in 1..Len(table) |-> i]
<1>1. /\ phase = "reading" /\ DeliveredInv /\ Len(table) \in Nat
      /\ UNCHANGED << table, columns, prepared, phase, starts, column_count, rows, types >>
      /\ UNCHANGED writerVars
  BY Values DEF NextBatch, IInv
<1>2. CASE inner = <<>>
  <2>1. outcome' = "end" /\ UNCHANGED << inner, delivered >>
    BY <1>2 DEF NextBatch
  <2>2. Len(delivered) = Len(table)
    BY <1>1, <1>2 DEF DeliveredInv
  <2> QED
    BY <1>1, <1>2, <2>1, <2>2
<1>3. CASE inner # <<>>
  <2>1. /\ delivered = <<>> /\ Len(inner) = 1 /\ Len(table) > 0
        /\ Len(inner[1][1]) = Len(table)
        /\ \A i \in 1..Len(table) : inner[1][1][i][1] = i
    BY <1>1, <1>3 DEF DeliveredInv
  <2>2. inner \in Seq(W!Batches(schema))
    BY DEF IInv, TypeOK
  <2>3. Head(inner) = inner[1] /\ Tail(inner) = <<>>
    <3>1. Head(inner) = inner[1]
      BY <1>3, <2>2
    <3>2. Len(Tail(inner)) = 0 /\ Tail(inner) \in Seq(W!Batches(schema))
      BY <1>3, <2>1, <2>2
    <3> QED
      BY <3>1, <3>2, EmptySeq
  <2>4. /\ inner' = Tail(inner) /\ outcome' = "batch"
        /\ delivered' = delivered \o [i \in 1..Len(Head(inner)[1]) |-> Head(inner)[1][i][1]]
    BY <1>3 DEF NextBatch
  <2>5. [i \in 1..Len(Head(inner)[1]) |-> Head(inner)[1][i][1]] = [i \in 1..Len(table) |-> i]
    BY <2>1, <2>3
  <2> QED
    BY <1>1, <2>1, <2>3, <2>4, <2>5
<1> QED
  BY <1>2, <1>3

LEMMA NextBatchStep ==
  ASSUME IInv, NextBatch
  PROVE  IInv'
<1>1. /\ phase = "reading" /\ Len(table) \in Nat
      /\ UNCHANGED << table, columns, prepared, phase, starts, column_count, rows, types >>
      /\ UNCHANGED writerVars
      /\ \/ /\ inner = <<>> /\ Len(delivered) = Len(table) /\ outcome' = "end"
            /\ UNCHANGED << inner, delivered >>
         \/ /\ delivered = <<>> /\ Len(table) > 0 /\ outcome' = "batch" /\ inner' = <<>>
            /\ delivered' = delivered \o [i \in 1..Len(table) |-> i]
  BY BatchIsTable
<1>2. R!IInv'
  BY <1>1, WriterStep DEF IInv
<1>3. outcome' \in {"batch", "end"} /\ inner' \in Seq(W!Batches(schema))
  <2>1. outcome' \in {"batch", "end"} /\ inner' = <<>>
    BY <1>1
  <2>2. <<>> \in Seq(W!Batches(schema))
    OBVIOUS
  <2> QED
    BY <2>1, <2>2
<1>4. TypeOK'
  <2>1. W!Batches(schema)' = W!Batches(schema)
    BY <1>1 DEF writerVars, W!Batches
  <2>2. W!TypeOK'
    BY <1>2, WriterTypeNext
  <2> QED
    BY <1>1, <1>3, <2>1, <2>2 DEF IInv, TypeOK
<1>5. inner' = <<>> /\ Len(delivered') = Len(table)
  <2> DEFINE all == [i \in 1..Len(table) |-> i]
  <2>1. all \in Seq(Nat) /\ Len(all) = Len(table)
    BY <1>1
  <2> HIDE DEF all
  <2>2. <<>> \o all = all
    BY <2>1, ConcatEmptySeq
  <2> QED
    BY <1>1, <2>1, <2>2 DEF all
<1>6. DeliveredInv'
  BY <1>1, <1>5 DEF DeliveredInv
<1>7. FreshInv' /\ FetchedInv' /\ CollectInv' /\ PanicsOnlyIfMixedOrAltered'
  BY <1>1 DEF IInv, FreshInv, FetchedInv, CollectInv, PanicsOnlyIfMixedOrAltered
<1>8. InferredInv'
  BY <1>1 DEF IInv, InferredInv, TypeOfColumn, writerVars
<1> QED
  BY <1>2, <1>4, <1>6, <1>7, <1>8 DEF IInv

-----------------------------------------------------------------------------
(* The inductive invariant: the rows fetched are the table's, the types     *)
(* inferred fit all of them, and the writer makes them one batch.           *)
THEOREM Correct == Spec => []IInv
<1>1. Init => IInv
  BY InitStep
<1>2. IInv /\ InferSchema => IInv'
  <2> SUFFICES ASSUME IInv, InferSchema PROVE IInv'
    OBVIOUS
  <2>1. /\ phase = "stepping" /\ prepared' \in Widths /\ Len(rows) = Len(table) /\ Collect
    BY DEF InferSchema, Step, IInv, TypeOK
  <2> QED
    BY <2>1, CollectStep
<1>3. IInv /\ [Next]_vars => IInv'
  BY <1>2, AlterTableStep, StartBatchStep, FetchRowStep, FetchFailsStep, NextRowStep,
     TransportStep, TransportPanicsStep, FinishRowsStep, NextBatchStep DEF Next
<1> QED
  BY <1>1, <1>3, PTL DEF Spec

(* The variables keep their types; the schema has one type per column. *)
THEOREM TypeCorrect == Spec => []TypeOK
<1>1. IInv => TypeOK
  BY DEF IInv
<1> QED
  BY <1>1, Correct, PTL

(* Inference that stops early and columns that are not read lose nothing,   *)
(* nor does a table altered after the statement was prepared.               *)
THEOREM ResultIsTheTable == Spec => []ResultIsTable
<1>1. IInv => ResultIsTable
  <2> SUFFICES ASSUME IInv, outcome = "end"
               PROVE  /\ Len(types) = prepared
                      /\ \A r \in 1..Len(table), c \in 1..prepared : Read(r, c) = table[r][c]
    BY DEF ResultIsTable
  <2>1. phase = "reading"
    BY DEF IInv, DeliveredInv
  <2>2. /\ column_count = prepared /\ Len(types) = column_count /\ Len(rows) = Len(table)
        /\ \A c \in 1..column_count : TypeOfColumn(c, types[c])
        /\ \A r \in 1..Len(rows), c \in 1..column_count : rows[r][c] = table[r][c]
    BY <2>1 DEF IInv, InferredInv, FetchedInv
  <2>3. ASSUME NEW r \in 1..Len(table), NEW c \in 1..prepared
        PROVE  Read(r, c) = table[r][c]
    BY <2>2 DEF Read, TypeOfColumn
  <2> QED
    BY <2>2, <2>3
<1> QED
  BY <1>1, Correct, PTL

(* start_batch does not panic over nulls. *)
THEOREM PanicsAreExplained == Spec => []PanicsOnlyIfMixedOrAltered
<1>1. IInv => PanicsOnlyIfMixedOrAltered
  BY DEF IInv
<1> QED
  BY <1>1, Correct, PTL

(* What a caller sees of ArrowReader is what RowDelivery allows. *)
THEOREM KeepsPromise == Spec => DeliversRows
<1>1. Init => Promise!Init
  <2> SUFFICES ASSUME Init PROVE Promise!Init
    OBVIOUS
  <2>1. Len(table) \in Nat /\ Len(table) \in 0..MaxRows
    BY InitStep, Values, SqliteQueryAssumption
  <2> QED
    BY <2>1 DEF Init, Promise!Init
<1>2. IInv /\ [Next]_vars => [Promise!Next]_(Promise!vars)
  <2> SUFFICES ASSUME IInv, [Next]_vars PROVE [Promise!Next]_(Promise!vars)
    OBVIOUS
  <2>1. CASE NextBatch
    <3>1. /\ Len(table) \in Nat /\ UNCHANGED table
          /\ \/ Len(delivered) = Len(table) /\ outcome' = "end" /\ UNCHANGED delivered
             \/ /\ delivered = <<>> /\ Len(table) > 0 /\ outcome' = "batch"
                /\ delivered' = delivered \o [i \in 1..Len(table) |-> i]
                /\ Len(delivered') = Len(table)
      BY <2>1, BatchIsTable, NextBatchStep DEF IInv, DeliveredInv
    <3>2. CASE Len(delivered) = Len(table) /\ outcome' = "end" /\ UNCHANGED delivered
      <4>1. Promise!End
        BY <3>1, <3>2 DEF Promise!End
      <4> QED
        BY <4>1 DEF Promise!Next
    <3>3. CASE /\ delivered = <<>> /\ Len(table) > 0 /\ outcome' = "batch"
               /\ delivered' = delivered \o [i \in 1..Len(table) |-> i]
               /\ Len(delivered') = Len(table)
      <4>1. Len(delivered) = 0
        BY <3>3
      <4>2. [i \in 1..Len(table) |-> i] = [i \in 1..Len(table) |-> Len(delivered) + 1 + i - 1]
        BY <4>1
      <4>3. Promise!Deliver(Len(table)) /\ Len(table) \in 1..Len(table)
        BY <3>1, <3>3, <4>1, <4>2 DEF Promise!Deliver, Promise!Take
      <4> QED
        BY <4>3 DEF Promise!Next
    <3> QED
      BY <3>1, <3>2, <3>3
  <2>2. CASE ~NextBatch
    <3>1. UNCHANGED << table, delivered, outcome >>
      BY <2>2 DEF Next, AlterTable, StartBatch, FetchRow, FetchFails, InferSchema, Collect,
         NextRow, Transport, TransportPanics, FinishRows, vars, readerVars
    <3> QED
      BY <3>1 DEF Promise!vars
  <2> QED
    BY <2>1, <2>2
<1> QED
  BY <1>1, <1>2, Correct, PTL DEF Spec, DeliversRows, Promise!Spec

=============================================================================
