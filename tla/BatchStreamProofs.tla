------------------------- MODULE BatchStreamProofs -------------------------
(* Theorems about BatchStream, for every schema, batch size and source.     *)
(* What is known of the writer a reader fills comes from RowWriterProofs.   *)
EXTENDS BatchStream, SequenceTheorems, TLAPS

R == INSTANCE RowWriterProofs WITH
       min_batch_size <- batch_size,
       MinBatchSizes  <- BatchSizes,
       RowCounts      <- {1},
       MaxRows        <- MaxItems

(* Where next_batch_from_rows is, seen from its writer: the rows taken in   *)
(* the call are those reserved, they fit the builders of the first, and     *)
(* none is in a batch yet.  A call that has panicked did so at a cell that  *)
(* cannot be converted.                                                     *)
CallInv ==
  /\ PanicsOnlyAtCells
  /\ taken <= pos
  /\ call = "idle" => taken = 0
  /\ call \in {"rows", "cells"} =>
       /\ status = "open" /\ data = <<>>
       /\ rows_reserved = taken
       /\ rows_capacity = IF taken = 0 THEN 0 ELSE batch_size
       /\ \A p \in pos - taken + 1 .. pos : source[p].kind = "row"
  /\ call = "rows" => R!RowsComplete
  /\ call = "cells" => taken > 0 /\ ~R!RowsComplete

(* query() has passed no further result set, unless it has just failed.     *)
MetadataInv ==
  client = "query" /\ ~(call = "idle" /\ outcome = "error") =>
    \A p \in 1..pos : source[p].kind # "metadata"

IInv ==
  /\ TypeOK
  /\ R!IInv
  /\ CallInv
  /\ MetadataInv
  /\ OneResultSet

-----------------------------------------------------------------------------
(* The constants of a reader are constants of its writer. *)
LEMMA WriterConstants ==
  /\ ColCounts \subseteq Nat
  /\ BatchSizes \subseteq Nat
  /\ {1} \subseteq Nat
  /\ MaxItems \in Nat
  /\ \A n \in ColCounts : None \notin R!Batches(n)
BY BatchStreamAssumption DEF R!Batches, R!Cell

(* What the proofs need to know of the values of the variables. *)
LEMMA Values ==
  ASSUME IInv
  PROVE  /\ source \in Seq(Item) /\ Len(source) \in Nat
         /\ pos \in Nat /\ pos <= Len(source) /\ taken \in Nat
         /\ batch_size \in Nat \ {0} /\ taken <= batch_size
         /\ schema \in Nat /\ rows_reserved \in Nat /\ rows_capacity \in Nat
         /\ row_count \in Nat /\ next_row \in Nat /\ next_col \in Nat /\ written \in Nat
         /\ data \in Seq(R!Batches(schema))
         /\ builders \in R!Batches(schema) \cup {None}
         /\ delivered \in Seq(1..pos)
<1>1. TypeOK /\ R!TypeOK
  BY DEF IInv, R!IInv
<1>2. /\ schema \in ColCounts /\ batch_size \in BatchSizes
      /\ rows_reserved \in Nat /\ rows_capacity \in Nat
      /\ row_count \in Nat /\ next_row \in Nat /\ next_col \in Nat /\ written \in Nat
      /\ data \in Seq(R!Batches(schema))
      /\ builders \in R!Batches(schema) \cup {None}
  BY <1>1 DEF R!TypeOK
<1>3. batch_size \in Nat \ {0} /\ schema \in Nat
  BY <1>2, BatchStreamAssumption
<1>4. /\ source \in Seq(Item) /\ pos \in 0..Len(source) /\ taken \in 0..batch_size
      /\ delivered \in Seq(1..pos)
  BY <1>1 DEF TypeOK
<1>5. Len(source) \in Nat
  BY <1>4
<1> QED
  BY <1>2, <1>3, <1>4, <1>5

LEMMA WriterType ==
  ASSUME R!TypeOK
  PROVE  W!TypeOK
BY DEF R!TypeOK, W!TypeOK, R!Batches, W!Batches, R!Cell, W!Cell, R!Status, W!Status

(* A reader's call of its writer keeps what RowWriterProofs says of it. *)
LEMMA WriterStep ==
  ASSUME R!IInv, W!PrepareForBatch(1) \/ W!ConsumeCell \/ W!Finish \/ W!Drop
  PROVE  R!IInv'
<1>1. ASSUME W!PrepareForBatch(1) PROVE R!PrepareForBatch(1)
  BY <1>1 DEF W!PrepareForBatch, R!PrepareForBatch, W!RowsComplete, R!RowsComplete,
     W!Allocate, R!Allocate, W!Reserve, R!Reserve, W!Reallocate, R!Reallocate,
     W!ReallocateFails, R!ReallocateFails, W!FlushOutcome, R!FlushOutcome,
     W!ColumnTooShort, R!ColumnTooShort, W!Flush, R!Flush, W!Cols, R!Cols
<1>2. ASSUME W!ConsumeCell PROVE R!ConsumeCell
  BY <1>2 DEF W!ConsumeCell, R!ConsumeCell, W!RowsComplete, R!RowsComplete,
     W!NextColIndex, R!NextColIndex
<1>3. ASSUME W!Finish PROVE R!Finish
  BY <1>3 DEF W!Finish, R!Finish, W!RowsComplete, R!RowsComplete,
     W!FlushOutcome, R!FlushOutcome, W!ColumnTooShort, R!ColumnTooShort,
     W!Flush, R!Flush, W!Cols, R!Cols
<1>4. ASSUME W!Drop PROVE R!Drop
  BY <1>4 DEF W!Drop, R!Drop
<1>5. R!Next
  BY <1>1, <1>2, <1>3, <1>4 DEF R!Next
<1> QED
  BY <1>5, WriterConstants, R!StepInv

(* A writer's first state has the invariant, whenever it is entered. *)
LEMMA InitInv == R!Init => R!IInv
  BY WriterConstants, R!InitInv

LEMMA FreshInv == R!Init' => R!IInv'
  BY InitInv, PTL

(* ArrowRowWriter::new replaces the writer by a new one. *)
LEMMA NewWriterInv ==
  ASSUME R!IInv, NewWriter, UNCHANGED << schema, batch_size >>
  PROVE  R!IInv'
<1>1. schema \in ColCounts /\ batch_size \in BatchSizes
  BY DEF R!IInv, R!TypeOK
<1>2. R!Init'
  BY <1>1 DEF R!Init, NewWriter
<1> QED
  BY <1>2, FreshInv

LEMMA WriterTypeInv == R!IInv => W!TypeOK
  BY WriterType DEF R!IInv

LEMMA WriterTypeNext == R!IInv' => W!TypeOK'
  BY WriterTypeInv, PTL

(* A row fits the builders: the writer reserves it without a flush. *)
LEMMA RowReserved ==
  ASSUME IInv, call = "rows", MoreRows, W!PrepareForBatch(1)
  PROVE  /\ status' = "open" /\ data' = <<>>
         /\ rows_reserved' = taken + 1 /\ rows_capacity' = batch_size
         /\ row_count' = 1 /\ next_row' = 0 /\ schema' = schema
<1>1. /\ taken \in Nat /\ taken < batch_size /\ batch_size \in Nat /\ batch_size > 0
      /\ rows_reserved = taken /\ status = "open" /\ data = <<>>
      /\ rows_capacity = IF taken = 0 THEN 0 ELSE batch_size
  BY Values DEF IInv, CallInv, MoreRows
<1>2. row_count' = 1 /\ next_row' = 0 /\ schema' = schema /\ W!Allocate(1)
  BY DEF W!PrepareForBatch
<1>3. CASE W!Reserve(1)
  <2>1. rows_capacity = batch_size
    BY <1>1, <1>3 DEF W!Reserve
  <2> QED
    BY <1>1, <1>2, <1>3, <2>1 DEF W!Reserve
<1>4. CASE W!Reallocate(1)
  <2>1. taken = 0
    BY <1>1, <1>4 DEF W!Reallocate
  <2> QED
    BY <1>1, <1>2, <1>4, <2>1 DEF W!Reallocate
<1>5. ~W!ReallocateFails(1)
  BY <1>1 DEF W!ReallocateFails
<1> QED
  BY <1>2, <1>3, <1>4, <1>5 DEF W!Allocate

(* What finish() makes of the rows of a call: nothing of none, an error of  *)
(* rows without columns, and otherwise one batch with each of them.         *)
LEMMA RowsFinished ==
  ASSUME IInv, call = "rows", W!Finish
  PROVE  \/ taken = 0 /\ status' = "finished" /\ data' = <<>>
         \/ taken > 0 /\ status' = "failed"
         \/ /\ taken > 0 /\ status' = "finished" /\ data' # <<>> /\ Len(data') = 1
            /\ Len(data'[1][1]) = taken
            /\ \A i \in 1..taken : data'[1][1][i][1] = i
<1>1. /\ R!IInv /\ status = "open" /\ data = <<>> /\ R!RowsComplete
      /\ rows_reserved = taken /\ taken \in Nat /\ schema \in Nat
      /\ builders \in R!Batches(schema) \cup {None}
  BY Values DEF IInv, CallInv
<1>2. R!FlushOutcome = IF builders # None /\ schema = 0 THEN "failed" ELSE "open"
  BY <1>1, WriterConstants, R!FlushSafe
<1>3. W!FlushOutcome = R!FlushOutcome /\ (W!Flush <=> R!Flush)
  BY DEF W!FlushOutcome, R!FlushOutcome, W!ColumnTooShort, R!ColumnTooShort,
         W!Flush, R!Flush, W!Cols, R!Cols
<1>4. /\ R!FlushOutcome = "open" => status' = "finished" /\ R!Flush
      /\ R!FlushOutcome # "open" => status' = R!FlushOutcome
  BY <1>3 DEF W!Finish
<1>5. builders = None <=> taken = 0
  BY <1>1 DEF R!IInv, R!NoBuildersInv, R!BuildersInv
<1>6. CASE builders = None
  BY <1>1, <1>2, <1>4, <1>5, <1>6 DEF R!Flush
<1>7. CASE builders # None /\ schema = 0
  BY <1>1, <1>2, <1>4, <1>5, <1>7
<1>8. CASE builders # None /\ schema > 0
  <2> DEFINE new == [c \in R!Cols |-> SubSeq(builders[c], 1, rows_reserved)]
  <2>1. /\ Len(builders[1]) = rows_reserved
        /\ R!Consecutive(builders[1], 1, R!FlushedRows)
    <3>1. /\ \A c \in R!Cols : Len(builders[c]) = rows_reserved
          /\ \A c \in R!Cols : R!Consecutive(builders[c], c, R!FlushedRows)
      BY <1>1, <1>8, WriterConstants, R!CompleteColumns
    <3> QED
      BY <1>1, <1>8, <3>1 DEF R!Cols
  <2>2. R!FlushedRows = 0
    BY <1>1 DEF R!FlushedRows
  <2>3. builders[1] \in Seq(R!Cell) /\ 1 \in R!Cols
    BY <1>1, <1>8 DEF R!Batches, R!Cols
  <2>4. SubSeq(builders[1], 1, rows_reserved) = builders[1]
    BY <2>1, <2>3
  <2>5. new[1] = builders[1]
    BY <2>3, <2>4
  <2>6. R!Flush /\ status' = "finished"
    BY <1>1, <1>2, <1>4, <1>8
  <2>7. data' = Append(<<>>, new)
    BY <1>1, <1>8, <2>6 DEF R!Flush
  <2> HIDE DEF new
  <2>8. Len(data') = 1 /\ data'[1] = new /\ data' # <<>>
    BY <2>7
  <2>9. \A i \in 1..taken : builders[1][i] = <<i, 1>>
    BY <1>1, <2>1, <2>2 DEF R!Consecutive
  <2>10. taken > 0 /\ Len(builders[1]) = taken
    BY <1>1, <1>5, <1>8, <2>1
  <2> QED
    BY <2>5, <2>6, <2>8, <2>9, <2>10
<1>9. schema = 0 \/ schema > 0
  BY <1>1
<1> QED
  BY <1>6, <1>7, <1>8, <1>9

-----------------------------------------------------------------------------
(* Where the reader stays within its call, what was delivered stays right.  *)
LEMMA ErrorStep ==
  ASSUME IInv, R!IInv', ReturnError, UNCHANGED << source, client, calls, batch_size >>,
         pos' \in {pos, pos + 1}, pos' <= Len(source)
  PROVE  IInv'
<1>1. /\ outcome' = "error" /\ errors' = errors + 1 /\ call' = "idle" /\ taken' = 0
      /\ UNCHANGED delivered
  BY DEF ReturnError
<1>2. /\ pos' \in Nat /\ pos' \in 0..Len(source) /\ batch_size \in Nat
      /\ delivered \in Seq(1..pos) /\ 1..pos \subseteq 1..pos'
  <2>1. /\ pos \in Nat /\ Len(source) \in Nat /\ batch_size \in Nat
        /\ delivered \in Seq(1..pos)
    BY Values
  <2> QED
    BY <2>1
<1>3. delivered' \in Seq(1..pos')
  BY <1>1, <1>2, SeqMonotonic
<1>4. TypeOK'
  BY <1>1, <1>2, <1>3, WriterTypeNext DEF IInv, TypeOK
<1>5. CallInv' /\ MetadataInv'
  BY <1>1, <1>2 DEF CallInv, MetadataInv, PanicsOnlyAtCells
<1>6. OneResultSet'
  BY <1>1 DEF IInv, OneResultSet
<1> QED
  BY <1>4, <1>5, <1>6 DEF IInv

LEMMA NextBatchStep ==
  ASSUME IInv, NextBatch
  PROVE  IInv'
<1>1. /\ UNCHANGED << source, pos, client, taken, delivered, outcome, errors, schema, batch_size >>
      /\ calls' = calls + 1 /\ call' = "rows" /\ NewWriter /\ call = "idle"
      /\ client = "query" => outcome # "error"
  BY DEF NextBatch
<1>2. R!IInv'
  BY <1>1, NewWriterInv DEF IInv
<1>3. TypeOK'
  BY <1>1, <1>2, WriterTypeNext DEF IInv, TypeOK
<1>4. CallInv'
  <2>1. /\ taken = 0 /\ pos \in Nat /\ pos - 0 + 1 .. pos = {}
        /\ taken <= pos
    BY <1>1, Values DEF IInv, CallInv
  <2>2. /\ status' = "open" /\ data' = <<>> /\ rows_reserved' = 0 /\ rows_capacity' = 0
        /\ row_count' = 0 /\ next_row' = 0
    BY <1>1 DEF NewWriter
  <2> QED
    BY <1>1, <2>1, <2>2 DEF CallInv, PanicsOnlyAtCells, R!RowsComplete
<1>5. MetadataInv'
  BY <1>1 DEF IInv, MetadataInv
<1>6. OneResultSet'
  BY <1>1 DEF IInv, OneResultSet
<1> QED
  BY <1>2, <1>3, <1>4, <1>5, <1>6 DEF IInv

LEMMA NextRowStep ==
  ASSUME IInv, NextRow
  PROVE  IInv'
<1>1. /\ call = "rows" /\ MoreRows /\ source[pos + 1].kind = "row" /\ pos' = pos + 1
      /\ W!PrepareForBatch(1)
      /\ UNCHANGED << source, client, calls, batch_size >>
  BY DEF NextRow
<1>2. /\ status' = "open" /\ data' = <<>>
      /\ rows_reserved' = taken + 1 /\ rows_capacity' = batch_size
      /\ row_count' = 1 /\ next_row' = 0 /\ schema' = schema
  BY <1>1, RowReserved
<1>3. /\ call' = IF schema = 0 THEN "rows" ELSE "cells"
      /\ taken' = taken + 1
      /\ UNCHANGED << delivered, outcome, errors >>
  BY <1>2 DEF NextRow
<1>4. R!IInv'
  BY <1>1, WriterStep DEF IInv
<1>5. /\ pos \in Nat /\ pos < Len(source) /\ Len(source) \in Nat /\ taken \in Nat
      /\ taken <= pos /\ taken < batch_size /\ batch_size \in Nat \ {0}
      /\ delivered \in Seq(1..pos) /\ 1..pos \subseteq 1..pos'
  BY <1>1, Values DEF MoreRows, IInv, CallInv
<1>6. TypeOK'
  <2>1. delivered' \in Seq(1..pos')
    BY <1>3, <1>5, SeqMonotonic
  <2>2. pos' \in 0..Len(source) /\ taken' \in 0..batch_size
    BY <1>1, <1>3, <1>5
  <2> QED
    BY <1>1, <1>3, <1>4, <2>1, <2>2, WriterTypeNext DEF IInv, TypeOK
<1>7. CallInv'
  <2>1. \A p \in pos' - taken' + 1 .. pos' : source[p].kind = "row"
    <3>1. \A p \in pos' - taken' + 1 .. pos' : p \in pos - taken + 1 .. pos \/ p = pos + 1
      BY <1>1, <1>3, <1>5
    <3> QED
      BY <1>1, <3>1 DEF IInv, CallInv
  <2>2. taken' # 0 /\ taken' > 0 /\ taken' <= pos'
    BY <1>1, <1>3, <1>5
  <2> QED
    BY <1>1, <1>2, <1>3, <2>1, <2>2 DEF CallInv, PanicsOnlyAtCells, R!RowsComplete
<1>8. MetadataInv'
  <2>1. \A p \in 1..pos' : p \in 1..pos \/ p = pos + 1
    BY <1>1, <1>5
  <2> QED
    BY <1>1, <1>3, <2>1 DEF IInv, MetadataInv
<1>9. OneResultSet'
  BY <1>1, <1>3 DEF IInv, OneResultSet
<1> QED
  BY <1>4, <1>6, <1>7, <1>8, <1>9 DEF IInv

LEMMA NextRowFailsStep ==
  ASSUME IInv, NextRowFails
  PROVE  IInv'
<1>1. /\ MoreRows /\ pos' = pos + 1 /\ W!Drop /\ ReturnError
      /\ UNCHANGED << source, client, calls, batch_size >>
  BY DEF NextRowFails
<1>2. R!IInv'
  BY <1>1, WriterStep DEF IInv
<1>3. pos' <= Len(source)
  BY <1>1, Values DEF MoreRows
<1> QED
  BY <1>1, <1>2, <1>3, ErrorStep

LEMMA TransportFailsStep ==
  ASSUME IInv, TransportFails
  PROVE  IInv'
<1>1. /\ pos' = pos /\ W!Drop /\ ReturnError
      /\ UNCHANGED << source, client, calls, batch_size >>
  BY DEF TransportFails
<1>2. R!IInv'
  BY <1>1, WriterStep DEF IInv
<1>3. pos' <= Len(source)
  BY <1>1, Values
<1> QED
  BY <1>1, <1>2, <1>3, ErrorStep

(* The rows of a call that panics stay with it: the call does not return.   *)
LEMMA TransportPanicsStep ==
  ASSUME IInv, TransportPanics
  PROVE  IInv'
<1>1. /\ call = "cells" /\ next_col + 1 = source[pos].at /\ W!Drop /\ call' = "panicked"
      /\ UNCHANGED << source, pos, client, taken, calls, delivered, outcome, errors, batch_size >>
  BY DEF TransportPanics
<1>2. R!IInv'
  BY <1>1, WriterStep DEF IInv
<1>3. TypeOK'
  BY <1>1, <1>2, WriterTypeNext DEF IInv, TypeOK
<1>4. CallInv'
  <2>1. pos > 0
    BY <1>1, Values DEF IInv, CallInv
  <2>2. status' = "dropped" /\ next_col' = next_col
    BY <1>1 DEF W!Drop
  <2> QED
    BY <1>1, <2>1, <2>2 DEF IInv, CallInv, PanicsOnlyAtCells, PanickedAtCell
<1>5. MetadataInv'
  BY <1>1 DEF IInv, MetadataInv
<1>6. OneResultSet'
  BY <1>1 DEF IInv, OneResultSet
<1> QED
  BY <1>2, <1>3, <1>4, <1>5, <1>6 DEF IInv

LEMMA TransportStep ==
  ASSUME IInv, Transport
  PROVE  IInv'
<1>1. /\ call = "cells" /\ W!ConsumeCell
      /\ call' = IF next_row' = row_count THEN "rows" ELSE "cells"
      /\ UNCHANGED << source, pos, client, taken, calls, delivered, outcome, errors, batch_size >>
  BY DEF Transport
<1>2. R!IInv'
  BY <1>1, WriterStep DEF IInv
<1>3. UNCHANGED << schema, data, rows_reserved, rows_capacity, row_count >>
  BY <1>1 DEF W!ConsumeCell
<1>4. TypeOK'
  BY <1>1, <1>2, WriterTypeNext DEF IInv, TypeOK
<1>5. status' = "open"
  <2>1. builders # None
    BY <1>1, Values DEF IInv, CallInv, R!IInv, R!NoBuildersInv
  <2> QED
    BY <1>1, <2>1 DEF W!ConsumeCell, IInv, CallInv
<1>6. CallInv'
  <2>1. CallInv /\ ~R!RowsComplete
    BY <1>1 DEF IInv, CallInv
  <2>2. call' = "rows" <=> R!RowsComplete'
    BY <1>1, <1>3, <2>1 DEF R!RowsComplete
  <2> QED
    BY <1>1, <1>3, <1>5, <2>1, <2>2 DEF CallInv, PanicsOnlyAtCells
<1>7. MetadataInv'
  BY <1>1 DEF IInv, MetadataInv
<1>8. OneResultSet'
  BY <1>1 DEF IInv, OneResultSet
<1> QED
  BY <1>2, <1>4, <1>6, <1>7, <1>8 DEF IInv

(* The places of the rows of the batch that is returned: those of the call. *)
LEMMA BatchPlaces ==
  ASSUME IInv, FinishBatch
  PROVE  /\ call = "rows" /\ ~MoreRows /\ W!Finish /\ call' = "idle" /\ taken' = 0
         /\ UNCHANGED << source, pos, client, calls, batch_size >>
         /\ \/ ReturnError /\ taken > 0
            \/ /\ taken = 0 /\ outcome' = "end" /\ UNCHANGED << delivered, errors >>
            \/ /\ taken > 0 /\ outcome' = "batch" /\ UNCHANGED errors
               /\ delivered' = delivered \o [i \in 1..taken |-> pos - taken + i]
<1>1. /\ call = "rows" /\ ~MoreRows /\ W!Finish
      /\ UNCHANGED << source, pos, client, calls, batch_size >>
  BY DEF FinishBatch
<1>2. \/ taken = 0 /\ status' = "finished" /\ data' = <<>>
      \/ taken > 0 /\ status' = "failed"
      \/ /\ taken > 0 /\ status' = "finished" /\ data' # <<>> /\ Len(data') = 1
         /\ Len(data'[1][1]) = taken
         /\ \A i \in 1..taken : data'[1][1][i][1] = i
  BY <1>1, RowsFinished
<1>3. CASE status' = "failed"
  BY <1>1, <1>2, <1>3 DEF FinishBatch, ReturnError
<1>4. CASE taken = 0 /\ status' = "finished" /\ data' = <<>>
  <2>1. Len(data') = 0
    BY <1>4
  <2> QED
    BY <1>1, <1>4, <2>1 DEF FinishBatch, Answer
<1>5. CASE /\ taken > 0 /\ status' = "finished" /\ data' # <<>> /\ Len(data') = 1
           /\ Len(data'[1][1]) = taken
           /\ \A i \in 1..taken : data'[1][1][i][1] = i
  <2>1. /\ call' = "idle" /\ outcome' = "batch" /\ taken' = 0 /\ UNCHANGED errors
        /\ delivered' = delivered \o [i \in 1..Len(data'[1][1]) |-> Place(data'[1][1][i][1])]
    <3>1. status' # "failed" /\ status' # "panicked" /\ ~(Len(data') > 1)
      BY <1>5
    <3> QED
      BY <1>5, <3>1, Zenon DEF FinishBatch, Answer
  <2>2. [i \in 1..Len(data'[1][1]) |-> Place(data'[1][1][i][1])]
          = [i \in 1..taken |-> pos - taken + i]
    BY <1>5 DEF Place
  <2> QED
    BY <1>1, <1>5, <2>1, <2>2
<1> QED
  BY <1>2, <1>3, <1>4, <1>5

LEMMA FinishBatchStep ==
  ASSUME IInv, FinishBatch
  PROVE  IInv'
<1>1. /\ call = "rows" /\ W!Finish /\ call' = "idle" /\ taken' = 0
      /\ UNCHANGED << source, pos, client, calls, batch_size >>
  BY BatchPlaces
<1>2. R!IInv'
  BY <1>1, WriterStep DEF IInv
<1>3. /\ pos \in Nat /\ pos <= Len(source) /\ taken \in Nat /\ batch_size \in Nat
      /\ delivered \in Seq(1..pos) /\ taken <= pos
  BY Values DEF IInv, CallInv
<1>4. CASE ReturnError
  BY <1>1, <1>2, <1>3, <1>4, ErrorStep
<1>5. CallInv' /\ MetadataInv'
  BY <1>1, <1>3 DEF IInv, CallInv, MetadataInv, PanicsOnlyAtCells
<1>6. ASSUME outcome' \in {"end", "batch"}, UNCHANGED errors, delivered' \in Seq(1..pos)
      PROVE  TypeOK'
  BY <1>1, <1>2, <1>3, <1>6, WriterTypeNext DEF IInv, TypeOK
<1>7. CASE taken = 0 /\ outcome' = "end" /\ UNCHANGED << delivered, errors >>
  <2>1. OneResultSet'
    BY <1>1, <1>7 DEF IInv, OneResultSet
  <2> QED
    BY <1>2, <1>3, <1>5, <1>6, <1>7, <2>1 DEF IInv
<1>8. CASE /\ taken > 0 /\ outcome' = "batch" /\ UNCHANGED errors
           /\ delivered' = delivered \o [i \in 1..taken |-> pos - taken + i]
  <2> DEFINE rows == [i \in 1..taken |-> pos - taken + i]
  <2>1. /\ rows \in Seq(1..pos) /\ Len(rows) = taken
        /\ \A j \in 1..taken : rows[j] = pos - taken + j
    BY <1>3
  <2> HIDE DEF rows
  <2>2. delivered' = delivered \o rows
    BY <1>8 DEF rows
  <2>3. delivered' \in Seq(1..pos)
    BY <1>3, <2>1, <2>2
  <2>4. OneResultSet'
    <3> SUFFICES ASSUME NEW k \in 1..Len(delivered')
                 PROVE  /\ source[delivered'[k]].kind = "row"
                        /\ client = "query" =>
                             \A p \in 1..delivered'[k] : source[p].kind # "metadata"
      BY <1>1 DEF OneResultSet
    <3>1. \/ k \in 1..Len(delivered) /\ delivered'[k] = delivered[k]
          \/ k - Len(delivered) \in 1..taken /\ delivered'[k] = rows[k - Len(delivered)]
      BY <1>3, <2>1, <2>2, LenProperties, ConcatProperties
    <3>2. CASE k \in 1..Len(delivered) /\ delivered'[k] = delivered[k]
      BY <1>1, <3>2 DEF IInv, OneResultSet
    <3>3. CASE /\ k - Len(delivered) \in 1..taken
               /\ delivered'[k] = rows[k - Len(delivered)]
      <4>1. PICK p \in pos - taken + 1 .. pos : delivered'[k] = p
        BY <1>3, <2>1, <3>3
      <4>2. source[p].kind = "row"
        BY <1>1 DEF IInv, CallInv
      <4>3. \A q \in 1..p : q \in 1..pos
        BY <1>3, <4>1
      <4> QED
        BY <1>1, <4>1, <4>2, <4>3 DEF IInv, MetadataInv
    <3> QED
      BY <3>1, <3>2, <3>3
  <2> QED
    BY <1>2, <1>5, <1>6, <1>8, <2>3, <2>4 DEF IInv
<1> QED
  BY <1>4, <1>7, <1>8, BatchPlaces

-----------------------------------------------------------------------------
LEMMA InitStep ==
  ASSUME Init
  PROVE  IInv
<1>1. R!Init
  BY DEF Init, W!Init, R!Init
<1>2. R!IInv
  BY <1>1, InitInv
<1>3. source \in Seq(Item)
  BY DEF Init, Sources
<1>4. TypeOK
  <2>1. batch_size \in Nat /\ Len(source) \in Nat /\ <<>> \in Seq(1..0)
    BY <1>3, BatchStreamAssumption DEF Init
  <2> QED
    BY <1>2, <1>3, <2>1, WriterTypeInv DEF Init, TypeOK
<1>5. CallInv /\ MetadataInv /\ OneResultSet
  <2>1. Len(delivered) = 0 /\ 1..0 = {}
    BY DEF Init
  <2> QED
    BY <2>1 DEF Init, CallInv, PanicsOnlyAtCells, MetadataInv, OneResultSet
<1> QED
  BY <1>2, <1>4, <1>5 DEF IInv

LEMMA StutterStep ==
  ASSUME IInv, UNCHANGED vars
  PROVE  IInv'
<1>1. R!IInv'
  BY R!StepInv, WriterConstants DEF IInv, vars, writerVars, R!vars
<1>2. TypeOK'
  BY <1>1, WriterTypeNext DEF IInv, TypeOK, vars
<1>3. CallInv' /\ MetadataInv' /\ OneResultSet'
  BY DEF IInv, CallInv, PanicsOnlyAtCells, PanickedAtCell, MetadataInv, OneResultSet,
         vars, writerVars, R!RowsComplete
<1> QED
  BY <1>1, <1>2, <1>3 DEF IInv

(* The inductive invariant: the writer is the one RowWriterProofs describes,*)
(* the rows the call has taken are those it has reserved, and a call that   *)
(* panicked did so at a cell that cannot be converted.                      *)
THEOREM Correct == Spec => []IInv
<1>1. Init => IInv
  BY InitStep
<1>2. IInv /\ [Next]_vars => IInv'
  BY NextBatchStep, NextRowStep, NextRowFailsStep, TransportStep, TransportFailsStep,
     TransportPanicsStep, FinishBatchStep, StutterStep DEF Next
<1> QED
  BY <1>1, <1>2, PTL DEF Spec

(* The variables of a reader and of its writer keep their types. *)
THEOREM TypeCorrect == Spec => []TypeOK
<1>1. IInv => TypeOK
  BY DEF IInv
<1> QED
  BY <1>1, Correct, PTL

(* query() returns no row behind the metadata of a further result set: it   *)
(* stops at the error.  An iterator that goes on after it may get such rows.*)
THEOREM OneResultSetAlways == Spec => []OneResultSet
<1>1. IInv => OneResultSet
  BY DEF IInv
<1> QED
  BY <1>1, Correct, PTL

(* next_batch_from_rows panics only in converting a cell: not in the        *)
(* writer, and not where it takes the writer's batches to be exactly one.   *)
THEOREM OnlyCellsPanic == Spec => []PanicsOnlyAtCells
<1>1. IInv => PanicsOnlyAtCells
  BY DEF IInv, CallInv
<1> QED
  BY <1>1, Correct, PTL

-----------------------------------------------------------------------------
(* What a step does to what the caller sees of a reader. *)
LEMMA CallerView ==
  ASSUME IInv, [Next]_vars
  PROVE  \/ UNCHANGED << batch_size, source, pos - taken, delivered, outcome >>
         \/ FinishBatch
         \/ /\ outcome' = "error" /\ taken' = 0
            /\ UNCHANGED << batch_size, source, delivered >>
            /\ \/ pos' = pos /\ taken > 0
               \/ pos' = pos + 1 /\ MoreRows
<1>1. CASE NextRow
  <2>1. call = "rows" /\ MoreRows /\ W!PrepareForBatch(1) /\ pos' = pos + 1
        /\ UNCHANGED << source, batch_size >>
    BY <1>1 DEF NextRow
  <2>2. status' = "open"
    BY <2>1, RowReserved
  <2>3. taken' = taken + 1 /\ UNCHANGED << delivered, outcome >>
    BY <1>1, <2>2 DEF NextRow
  <2>4. pos \in Nat /\ taken \in Nat
    BY Values
  <2>5. pos' - taken' = pos - taken
    BY <2>1, <2>3, <2>4
  <2> QED
    BY <2>1, <2>3, <2>5
<1>2. CASE NextRowFails
  BY <1>2 DEF NextRowFails, ReturnError
<1>3. CASE TransportFails
  BY <1>3 DEF TransportFails, ReturnError, IInv, CallInv
<1>4. CASE NextBatch \/ Transport \/ TransportPanics \/ UNCHANGED vars
  BY <1>4 DEF NextBatch, Transport, TransportPanics, vars
<1> QED
  BY <1>1, <1>2, <1>3, <1>4 DEF Next

(* Only the last batch is short of batch_size. *)
THEOREM ShortBatchIsTheLast == Spec => ShortBatchIsLast
<1>1. IInv /\ [Next]_vars =>
        [outcome' = "batch" /\ delivered' # delivered =>
           \/ Len(delivered') = Len(delivered) + batch_size
           \/ pos' = Len(source)]_vars
  <2> SUFFICES ASSUME IInv, [Next]_vars, outcome' = "batch", delivered' # delivered
               PROVE  \/ Len(delivered') = Len(delivered) + batch_size
                      \/ pos' = Len(source)
    OBVIOUS
  <2>1. FinishBatch
    BY CallerView
  <2>2. /\ ~MoreRows /\ pos' = pos
        /\ delivered' = delivered \o [i \in 1..taken |-> pos - taken + i]
    BY <2>1, BatchPlaces DEF ReturnError
  <2>3. /\ taken \in Nat /\ taken <= batch_size /\ pos <= Len(source) /\ pos \in Nat
        /\ batch_size \in Nat /\ Len(source) \in Nat /\ delivered \in Seq(1..pos)
    BY Values
  <2>4. taken = batch_size \/ pos = Len(source)
    BY <2>2, <2>3 DEF MoreRows
  <2>5. Len(delivered') = Len(delivered) + taken
    <3> DEFINE rows == [i \in 1..taken |-> pos - taken + i]
    <3>0. taken <= pos
      BY DEF IInv, CallInv
    <3>1. rows \in Seq(1..pos) /\ Len(rows) = taken
      BY <2>3, <3>0
    <3> HIDE DEF rows
    <3>2. Len(delivered \o rows) = Len(delivered) + taken
      BY <2>3, <3>1, LenProperties, ConcatProperties
    <3> QED
      BY <2>2, <3>2 DEF rows
  <2> QED
    BY <2>2, <2>4, <2>5
<1> QED
  BY <1>1, Correct, PTL DEF Spec, ShortBatchIsLast

(* A step of a reader is a step of RowDelivery, or a stutter: the rows of a *)
(* call are delivered together by its last step, or given up together.      *)
LEMMA DeliveryStep ==
  ASSUME IInv, [Next]_vars
  PROVE  [Promise!Next]_(Promise!vars)
<1>1. /\ taken \in Nat /\ taken <= batch_size /\ pos <= Len(source) /\ pos \in Nat
      /\ batch_size \in Nat /\ Len(source) \in Nat
  BY Values
<1>2. CASE UNCHANGED << batch_size, source, pos - taken, delivered, outcome >>
  BY <1>1, <1>2 DEF Promise!vars
<1>3. ASSUME outcome' = "error", taken' = 0,
             UNCHANGED << batch_size, source, delivered >>,
             \/ pos' = pos /\ taken > 0
             \/ pos' = pos + 1 /\ MoreRows
      PROVE  Promise!Next
  <2>1. CASE pos' = pos /\ taken > 0
    <3>1. Promise!Fail(taken) /\ taken \in 1..batch_size
      BY <1>1, <1>3, <2>1 DEF Promise!Fail, Promise!Take
    <3> QED
      BY <3>1 DEF Promise!Next
  <2>2. CASE pos' = pos + 1 /\ MoreRows
    <3>1. Promise!Fail(taken + 1) /\ taken + 1 \in 1..batch_size
      BY <1>1, <1>3, <2>2 DEF Promise!Fail, Promise!Take, MoreRows
    <3> QED
      BY <3>1 DEF Promise!Next
  <2> QED
    BY <1>3, <2>1, <2>2
<1>4. CASE FinishBatch
  <2>1. /\ ~MoreRows /\ taken' = 0 /\ UNCHANGED << source, pos, batch_size >>
        /\ \/ ReturnError /\ taken > 0
           \/ taken = 0 /\ outcome' = "end" /\ UNCHANGED delivered
           \/ /\ taken > 0 /\ outcome' = "batch"
              /\ delivered' = delivered \o [i \in 1..taken |-> pos - taken + i]
    BY <1>4, BatchPlaces
  <2>2. CASE ReturnError /\ taken > 0
    BY <1>3, <2>1, <2>2 DEF ReturnError
  <2>3. CASE taken = 0 /\ outcome' = "end" /\ UNCHANGED delivered
    <3>1. pos = Len(source)
      BY <1>1, <2>1, <2>3, Values DEF MoreRows
    <3>2. Promise!End
      BY <1>1, <2>1, <2>3, <3>1 DEF Promise!End
    <3> QED
      BY <3>2 DEF Promise!Next
  <2>4. CASE /\ taken > 0 /\ outcome' = "batch"
             /\ delivered' = delivered \o [i \in 1..taken |-> pos - taken + i]
    <3>1. [i \in 1..taken |-> pos - taken + i] = [i \in 1..taken |-> pos - taken + 1 + i - 1]
      BY <1>1
    <3>2. Promise!Deliver(taken) /\ taken \in 1..batch_size
      BY <1>1, <2>1, <2>4, <3>1 DEF Promise!Deliver, Promise!Take
    <3> QED
      BY <3>2 DEF Promise!Next
  <2> QED
    BY <2>1, <2>2, <2>3, <2>4
<1> QED
  BY <1>2, <1>3, <1>4, CallerView

(* A reader delivers the items of the result as RowDelivery promises. *)
THEOREM KeepsPromise == Spec => DeliversRows
<1>1. Init => Promise!Init
  <2> SUFFICES ASSUME Init PROVE Promise!Init
    OBVIOUS
  <2>1. Len(source) \in Nat
    BY InitStep, Values
  <2> QED
    BY <2>1 DEF Init, Promise!Init
<1>2. IInv /\ [Next]_vars => [Promise!Next]_(Promise!vars)
  BY DeliveryStep
<1> QED
  BY <1>1, <1>2, Correct, PTL DEF Spec, DeliversRows, Promise!Spec

=============================================================================
