---------------------------- MODULE BatchStream ----------------------------
(***************************************************************************)
(* A streaming result reader: next() of PostgresBatchStream,                *)
(* MySQLQueryResult and TiberiusResultReader is one call of                 *)
(* next_batch_from_rows (util/row_collect.rs), which takes up to batch_size *)
(* rows from the driver, moves their cells into a fresh ArrowRowWriter and  *)
(* returns its only batch, an error, or None.                               *)
(*                                                                         *)
(* The caller is either query() (lib.rs), which collects the batches into a *)
(* Result and so stops at the first error, or any other user of the         *)
(* iterator, who may call next() again after an error or after the end, or  *)
(* stop and drop the reader at any time.                                    *)
(***************************************************************************)
EXTENDS Naturals, Sequences

CONSTANTS
  ColCounts,    \* the numbers of columns of the schema
  BatchSizes,   \* the batch_size arguments of next_batch_from_rows
  BadCells,     \* the columns whose cell may fail to convert, and 0 for none
  MaxItems,     \* bound on what the driver yields
  MaxCalls,     \* bound on the calls of next()
  None

ASSUME BatchStreamAssumption ==
  /\ ColCounts \subseteq Nat
  /\ BatchSizes \subseteq Nat \ {0}
  /\ BadCells \subseteq Nat
  /\ MaxItems \in Nat
  /\ MaxCalls \in Nat
  /\ \A n \in ColCounts : None \notin [1..n -> Seq(Nat \X Nat)]

VARIABLES
  source,      \* what the driver will yield, in order
  pos,         \* how many items it has yielded
  client,      \* who iterates: "query" or "iterator"
  call,        \* where next_batch_from_rows is
  taken,       \* iterations of its loop so far
  calls,       \* history: calls of next()
  delivered,   \* history: places in source of the rows of all batches returned
  outcome,     \* what the last call returned
  errors       \* history: errors returned

\* the ArrowRowWriter of the current call
VARIABLES schema, batch_size, data, builders, rows_reserved, rows_capacity,
          row_count, next_row, next_col, written, status

writerVars == << data, builders, rows_reserved, rows_capacity, row_count,
                 next_row, next_col, written, status >>
vars == << source, pos, client, call, taken, calls, delivered, outcome, errors,
           schema, batch_size, writerVars >>

W == INSTANCE RowWriter WITH
       min_batch_size <- batch_size,
       MinBatchSizes  <- BatchSizes,
       RowCounts      <- {1},
       MaxRows        <- MaxItems

(***************************************************************************)
(* An item of the driver's stream: a row, whose cell in column `at`         *)
(* cannot be converted (0: all can), an error of the driver, or the         *)
(* metadata of a further result set (tiberius only).                        *)
(***************************************************************************)
Item == [kind : {"row"}, at : BadCells] \cup [kind : {"error", "metadata"}, at : {0}]

Sources == UNION { [1..n -> Item] : n \in 0..MaxItems }

Init ==
  /\ source \in Sources
  /\ pos = 0
  /\ client \in {"query", "iterator"}
  /\ call = "idle"
  /\ taken = 0
  /\ calls = 0
  /\ delivered = <<>>
  /\ outcome = "nothing"
  /\ errors = 0
  /\ batch_size \in BatchSizes
  /\ W!Init

-----------------------------------------------------------------------------

(* ArrowRowWriter::new *)
NewWriter ==
  /\ data' = <<>>
  /\ builders' = None
  /\ rows_reserved' = 0
  /\ rows_capacity' = 0
  /\ row_count' = 0
  /\ next_row' = 0
  /\ next_col' = 0
  /\ written' = 0
  /\ status' = "open"

(* next() is called: collect() of query() stops at None and at an error. *)
NextBatch ==
  /\ call = "idle"
  /\ client = "query" => outcome \notin {"error", "end"}
  /\ calls < MaxCalls                              \* bound
  /\ calls' = calls + 1
  /\ NewWriter
  /\ call' = "rows"
  /\ UNCHANGED << source, pos, client, taken, delivered, outcome, errors, schema, batch_size >>

(* Some(Err(_)) leaves through `?`; the writer is dropped, and with it the  *)
(* rows this call had already taken.                                        *)
ReturnError ==
  /\ outcome' = "error"
  /\ errors' = errors + 1
  /\ call' = "idle"
  /\ taken' = 0
  /\ UNCHANGED delivered

\* Mutants: the loop runs once too few or once too often.
FewerRows == taken + 1 < batch_size /\ pos < Len(source)
OneMoreRow == taken <= batch_size /\ pos < Len(source)

(* Another iteration of the loop finds something in the driver's stream. *)
MoreRows == taken < batch_size /\ pos < Len(source)

(* next_row() yields a row: reserve it. *)
NextRow ==
  /\ call = "rows"
  /\ MoreRows
  /\ source[pos + 1].kind = "row"
  /\ pos' = pos + 1
  /\ W!PrepareForBatch(1)
  /\ IF status' = "open"
     THEN /\ call' = IF schema = 0 THEN "rows" ELSE "cells"
          /\ taken' = taken + 1
          /\ UNCHANGED << delivered, outcome, errors >>
     ELSE ReturnError
  /\ UNCHANGED << source, client, calls, batch_size >>

\* Mutant: a further result set is skipped over.
SkipMetadata ==
  /\ call = "rows"
  /\ MoreRows
  /\ source[pos + 1].kind # "row"
  /\ pos' = pos + 1
  /\ IF source[pos + 1].kind = "metadata"
     THEN UNCHANGED << call, taken, delivered, outcome, errors, schema, writerVars >>
     ELSE W!Drop /\ ReturnError
  /\ UNCHANGED << source, client, calls, batch_size >>

(* next_row() fails, or finds a further result set. *)
NextRowFails ==
  /\ call = "rows"
  /\ MoreRows
  /\ source[pos + 1].kind # "row"
  /\ pos' = pos + 1
  /\ W!Drop
  /\ ReturnError
  /\ UNCHANGED << source, client, calls, batch_size >>

(* transport() of the next cell. *)
Transport ==
  /\ call = "cells"
  /\ next_col + 1 # source[pos].at
  /\ W!ConsumeCell
  /\ call' = IF next_row' = row_count THEN "rows" ELSE "cells"
  /\ UNCHANGED << source, pos, client, taken, calls, delivered, outcome, errors, batch_size >>

(* The cell's value cannot be converted, and produce() says so: a value of  *)
(* another kind in mysql, a date out of Arrow's range in postgres, ...      *)
TransportFails ==
  /\ call = "cells"
  /\ next_col + 1 = source[pos].at
  /\ W!Drop
  /\ ReturnError
  /\ UNCHANGED << source, pos, client, calls, batch_size >>

(* produce() panics instead, as most unconvertible cells make it: Row::get  *)
(* and take().unwrap() of a value of another type, todo!() for a kind of    *)
(* value, unimplemented!() for a type.  The writer unwinds with the call.   *)
TransportPanics ==
  /\ call = "cells"
  /\ next_col + 1 = source[pos].at
  /\ W!Drop
  /\ call' = "panicked"
  /\ UNCHANGED << source, pos, client, taken, calls, delivered, outcome, errors, batch_size >>

(* The source place of the i-th row this call has taken. *)
Place(i) == pos - taken + i

\* Mutant: an empty batch is returned at the end.
AlwaysBatch == "batch"

(* Without a batch the answer is None, which ends the iteration. *)
Answer == IF data' = <<>> THEN "end" ELSE "batch"

(* The loop is over: finish() the writer and return its batch.  Without a   *)
(* batch the answer is None; a second batch would be a panic (exactly_one). *)
FinishBatch ==
  /\ call = "rows"
  /\ ~MoreRows
  /\ W!Finish
  /\ \/ /\ status' = "failed"
        /\ ReturnError
     \/ /\ status' # "failed"
        /\ call' = IF status' = "panicked" \/ Len(data') > 1
                   THEN "panicked" ELSE "idle"
        /\ outcome' = Answer
        /\ delivered' = IF data' = <<>> THEN delivered
                        ELSE delivered \o
                             [i \in 1..Len(data'[1][1]) |-> Place(data'[1][1][i][1])]
        /\ taken' = 0
        /\ UNCHANGED errors
  /\ UNCHANGED << source, pos, client, calls, batch_size >>

Next ==
  \/ NextBatch
  \/ NextRow
  \/ NextRowFails
  \/ Transport
  \/ TransportFails
  \/ TransportPanics
  \/ FinishBatch

(* The reader's own steps: the code runs them without waiting for anybody,  *)
(* as long as the driver answers.  query() also calls next() again.         *)
Step == NextRow \/ NextRowFails \/ Transport \/ TransportFails \/ TransportPanics
        \/ FinishBatch \/ (client = "query" /\ NextBatch)

Spec == Init /\ [][Next]_vars /\ WF_vars(Step)

-----------------------------------------------------------------------------
(* The reader's own variables have their types, and so have the writer's. *)
TypeOK ==
  /\ source \in Seq(Item)
  /\ pos \in 0..Len(source)
  /\ client \in {"query", "iterator"}
  /\ call \in {"idle", "rows", "cells", "panicked"}
  /\ taken \in 0..batch_size
  /\ calls \in Nat
  /\ delivered \in Seq(1..pos)
  /\ outcome \in {"nothing", "batch", "error", "end"}
  /\ errors \in Nat
  /\ W!TypeOK

(* What is delivered are rows, and query() never returns rows of a second   *)
(* result set: the first one's schema would be wrong for them.              *)
OneResultSet ==
  \A i \in 1..Len(delivered) :
    /\ source[delivered[i]].kind = "row"
    /\ client = "query" => \A p \in 1..delivered[i] : source[p].kind # "metadata"

(* A batch that is not full is the last one: nothing is left in the source. *)
ShortBatchIsLast ==
  [][outcome' = "batch" /\ delivered' # delivered =>
       \/ Len(delivered') = Len(delivered) + batch_size
       \/ pos' = Len(source)]_vars

(* The reader is a RowDelivery: a call in progress has taken nothing yet.   *)
Promise == INSTANCE RowDelivery WITH
             Sizes <- BatchSizes,
             size  <- batch_size,
             total <- Len(source),
             next  <- pos - taken + 1

DeliversRows == Promise!Spec

(* The call unwound at a cell that cannot be converted. *)
PanickedAtCell ==
  /\ call = "panicked"
  /\ status = "dropped" /\ pos > 0 /\ next_col + 1 = source[pos].at

(* A reader panics nowhere else: not at the slice and the unwraps of        *)
(* row_writer.rs, and not at exactly_one().unwrap().                        *)
PanicsOnlyAtCells == call = "panicked" => PanickedAtCell

(* query() reaches an error or the end of the result, wherever an error     *)
(* interrupts a row; or it panics, at a cell that cannot be converted and   *)
(* nowhere else.                                                            *)
QueryReturns ==
  client = "query" ~> outcome \in {"error", "end"} \/ PanickedAtCell
=============================================================================
