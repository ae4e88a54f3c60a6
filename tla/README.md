# connector-arrow, specified

`connector_arrow` moves tables between Apache Arrow and five databases: PostgreSQL,
SQLite, MySQL, DuckDB and SQL Server (tiberius). This directory specifies it in TLA+:
what its components keep, what their operations do, and what must hold of them. TLC
checks the modules on small instances; TLAPS checks proofs for every instance. Paths
below are relative to `src/connector_arrow/src/` of the repository.

- [Inventory](#inventory): the system's parts, their state, operations and hazards
- [Modules](#modules): which module is which code
- [Runs](#runs): what is checked, on which instances, and why they are large enough
- [Fairness](#fairness)
- [Refinements](#refinements)
- [Proofs](#proofs)
- [Where the code and its documents disagree](#where-the-code-and-its-documents-disagree)
- [Not modelled](#not-modelled)
- [Plan](#plan)

## Inventory

The library has no threads of its own and no state beyond the objects a caller holds; a
connector borrows one connection, and at most one statement, reader or appender lives on
it at a time (the borrow checker sees to that). What is hard is elsewhere: failures in
the middle of multi-step operations, transactions that end on their own, objects dropped
half-way, callers that go on after an error, counts at their boundaries, and type tables
that have to agree with each other without the compiler's help.

| Component | State | Operations | What makes it correct |
|---|---|---|---|
| Row writer (`util/row_writer.rs`) | builders, flushed batches, reserved rows, capacity, position in the current block | `prepare_for_batch`, `consume`, `consume_null`, `finish`, drop | no cell lost, doubled or misplaced; full batches; no panic |
| Streaming readers (`util/row_collect.rs`, `*/query.rs`, `query` in `lib.rs`) | place in the driver's stream, the current call's row writer | `next` | rows in order, each once; `None` only at the end; `query()` returns nothing of a second result set, and panics at most at a cell it cannot convert |
| Buffered reader (`sqlite/query.rs`, `util/row_collect.rs`, `util/arrow_reader.rs`) | the rows fetched, the inferred types, the batches left | `start_batch` (fetch all, infer, collect), `next` | the result is the table, whatever kinds of values it has; no panic over what the library writes |
| SQLite and MySQL appenders (`sqlite/append.rs`, `mysql/append.rs`) | the connection's transaction, rows inserted so far | open, `append` (several statements), `finish`, drop | an accepted batch is inserted once; committed at `finish` or not at all |
| PostgreSQL appender (`postgres/append.rs`) | the COPY stream and its writer (`Writer::{Uninitialized, Initialized, Invalid}`) | open, `append`, `finish`, drop | one width per stream; all or nothing |
| DuckDB appender (`duckdb/append.rs`) | DuckDB's buffered `Appender` | open, `append`, `finish`, drop | no row lost or doubled |
| SQL Server appender (`tiberius/append.rs`) | the bulk load request | open, `append` (a row at a time), `finish`, drop | all or nothing; a batch is stored whole or not at all |
| Decimals (`postgres/decimal.rs`, `util/decimal.rs`) | none: conversions | `i128_to_sql`, `i256_to_sql`, `from_sql`, `insert_dot` | the number that comes back is the one that was stored |
| Type tables (`*/mod.rs`, `*/types.rs`, `*/append.rs`, `*/query.rs`, `*/schema.rs`, `util/transport.rs`) | none: matches on types | `type_arrow_into_db`, `type_db_into_arrow`, `ConsumeTy`, `ProduceTy`, `table_create`, `table_get` | what is said to be supported can be created, appended, queried and described, and keeps its values |
| Schema editing (`*/schema.rs`, `util/escape.rs`) | the server's catalogue | `table_list`, `table_get`, `table_create`, `table_drop`, escaping of names | the calls of a client agree with each other; each is about the table of that name; errors mean what they say |
| Query parameters (`params.rs`, `start` in `api.rs`) | none | `start`, `start_batch` | a value of the native type of its column is stored like an appended cell |
| Schema coercion (`util/coerce.rs`) | none | `coerce_schema` | says what a column comes back as |

How they meet: `query()` makes a statement, a reader, and collects it. A reader's `next()`
pulls rows from the driver and pushes their cells through `transport()` (a `ProduceTy` of
the row, a `ConsumeTy` of the writer) into a fresh row writer, and returns its one batch.
An appender walks a record batch by `transport()` in the other direction, into the
driver's parameters, and `start` does the same with its parameters, which it first writes
into a record batch of one row. `table_create` and `table_get` share a table's types with
both. Everything that names a table passes its name through `escaped_ident`.

The hazards are listed, each at its line, in `PROJECT.json`, with the properties that
would show them going wrong.

## Modules

| Module | Code | State and actions |
|---|---|---|
| `RowWriter` | `util/row_writer.rs` | the fields of `ArrowRowWriter` and `Organizer` under their own names. `PrepareForBatch` (with `allocate` as `Reserve`, `Reallocate`, `ReallocateFails`), `ConsumeCell` (`consume`, `consume_null`, `next_col_index`), `Finish`, `Drop` |
| `BatchStream` | `util/row_collect.rs`, `next` of the readers in `postgres`, `mysql` and `tiberius` `query.rs`, `query` in `lib.rs` | contains a `RowWriter` (`W`), whose actions its own are built from: `NextBatch`, `NextRow`, `NextRowFails`, `Transport`, `TransportFails`, `TransportPanics`, `FinishBatch` |
| `SqliteQuery` | `sqlite/query.rs`, `collect_rows_to_arrow`, `util/arrow_reader.rs` | contains a `RowWriter` (`W`) too. `StartBatch`, `FetchRow`, `FetchFails`, `InferSchema` (with `Scanned`, `Infer`), `NextRow`, `Transport`, `TransportPanics`, `FinishRows`, `NextBatch`; `AlterTable` is another client |
| `RowDelivery` | trait `ResultReader` of `api.rs` | abstract: batches of at most `size` items in order, errors that cost one call's items, an end |
| `SqlAppend` | `sqlite/append.rs`, `mysql/append.rs` | appender, transaction, the statements of one `append`; the database's side is external |
| `PostgresAppend` | `postgres/append.rs` | the writer's states and the COPY stream |
| `TiberiusAppend` | `tiberius/append.rs` | the bulk load request: `SendRow`, `SendFails`, `TransportPanics`, `Finish`, `FinishFails`; the server's side is external |
| `DuckDBAppend` | `duckdb/append.rs` | the loop over rows, DuckDB's buffer (external), `finish` and drop |
| `TableAppend` | trait `Append` of `api.rs` | abstract: rows become visible together or not at all |
| `Decimal` | `postgres/decimal.rs`, `util/decimal.rs` | digits, weights and scales; `AppendPostgres` and `AppendSQLite` encode, `Store` is the server's normal form (external), `QueryPostgres` and `QuerySQLite` decode |
| `ArrowTypes` | `util/transport.rs`, `types.rs` | the arrow types, and which of them `transport()` has an arm for |
| `PostgresTypes`, `SQLiteTypes`, `MySQLTypes`, `DuckDBTypes`, `TiberiusTypes` | the matches on types of each connector | relations between types, one per `match`; what servers report and accept is external |
| `Parameters` | `params.rs`, `types.rs` | the implementations of `ArrowValue` as relations of Rust types and arrow types, and when `vec_to_record_batch` succeeds |
| `Roundtrip` | the connectors as a whole, for one column | `TableCreate`, `AppendCell`, `InsertParameter`, `Query`, `TableGet`, each with the ways it fails; `Coerced` is `coerce_schema` of `util/coerce.rs` |
| `SchemaEdit` | `*/schema.rs`, `util/escape.rs` | `TableCreate`, `TableDrop`, `TableGet`, `TableList`, `OpenAppender` of two clients; the lexer, the catalogue and views are external |
| `RowWriterProofs`, `BatchStreamProofs`, `SqliteQueryProofs`, `SqlAppendProofs`, `TiberiusAppendProofs`, `SchemaEditProofs` | | the theorems about the modules they are named after |
| `PostgresProofs` | | the theorems about `PostgresAppend` and about `Decimal`, whose names are therefore its own (`DecimalSpec`, `DecimalTypeOK`) |
| `ConnectorProofs` | | the theorems about `Roundtrip`, its type tables and `Parameters`, and about `DuckDBAppend`; likewise `RoundtripSpec`, `RoundtripTypeOK` |
| `MC*` | | instances for TLC |

Abstractions. In `RowWriter` a cell is the pair of its row and column in the input, so
that every misplacement is visible; the writer never looks at values. In the appenders a
row is its number in the order in which rows were given. In `Decimal` a number is its
sequence of digits, so that numbers of any length are exact, while `i16` and `usize`
arithmetic keeps its width and behaves as in a debug or a release build. In `Roundtrip` a
cell is the kind of value the table holds, and in `SqliteQuery` too, which tells a value
from every value of another kind. Where a conversion fails on some values of a kind, or
makes other values of them, `Roundtrip` does tell them apart: `edge` says that a column of
PostgreSQL's holds a value that cannot be read (a decimal below 10^-4; in tables of others a
timestamp, date or interval out of arrow's range), `altered` that a decimal was stored as
another number. In `SchemaEdit` a name is a sequence of characters, of
which the few that escaping and the servers treat differently are there: a lower-case
letter, a capital, both quotes. The error types and logging are left out.

Two kinds of caller appear where they make a difference. In `BatchStream`, `query` stops
at the first error, because `collect()` into a `Result` does; `iterator` may call `next()`
again. In `SqlAppend` and `TiberiusAppend`, `careful` gives the appender up at the first
error, as `?` does; `careless` goes on and may even call `finish()`.

Behind every conjunct marked `bound` the model stops counting; nothing else in a guard
is there for the checker. Operators whose comment begins with `Mutant:` are plausible
mistakes in the definition they stand before; they are part of no specification. Each
property is known to fail when one of them takes the place of the definition
(`PROJECT.json`, "mutants").

## Runs

| Run | Shows |
|---|---|
| `RowWriter.cfg` | over every sequence of announcements of 0 to 3 rows, 0 to 2 columns and minimal batches of 0, 1, 2 and 4: no cell is lost, doubled or misplaced, batches are full, nothing panics |
| `BatchStream.cfg` | every stream of up to four items (rows, rows with a cell that cannot be converted, by an error or a panic, errors, further result sets) read by both callers in batches of 1 to 3: order, completeness, one result set for `query()`, which comes to the end, an error or a panic at such a cell; implements `RowDelivery` |
| `SqliteQuery.cfg` | every table of up to three rows of nulls and values of two kinds, one or two columns wide and altered at any moment, fetches that fail: the result is the table, a panic means mixed kinds or an altered table, implements `RowDelivery` |
| `SqlAppend.cfg` | both databases, both callers, failing statements, ended transactions, lost connections, dropped appenders, later DDL: what is committed and when; SQLite's implements `TableAppend` |
| `PostgresAppend.cfg` | batches of the right and of another width, empty ones, errors and panics in the middle, a `finish()` whose answer is lost: implements `TableAppend`; a stream has one width |
| `TiberiusAppend.cfg` | the same for the bulk load, with callers who go on after an error and finalizing whose answer is lost: implements `TableAppend`; a careful caller's batches are stored whole or not at all; what was acknowledged is stored |
| `DuckDBAppend.cfg` | a buffer that flushes by itself, with refusing and accepting tables: no row twice, none lost unless refused |
| `Decimal.cfg` | all numbers of up to nine digits over {0, 7}, scales on both sides of the group boundaries, foreign numerics up to the largest weight, debug and release: the number read is the number stored, and only numbers at the edges panic |
| `Roundtrip.cfg` | a column of every arrow type in all five connectors, nullable or not, its cells appended or inserted as parameters, and foreign columns: what is said to be supported is stored, comes back as `coerce_schema` says, with its values, and `table_get` says the same as a query, but for the types and numbers [named](#where-the-code-and-its-documents-disagree) in the properties |
| `SchemaEdit.cfg` | two clients and every one and two of six names (plain, with a capital, made of either quote, a reserved word), tables and views, lost answers: `OnlyThatTable`, `SessionAgrees`, `ErrorsExplained` |
| `Decimal_small.cfg`, `DuckDBAppend_refused.cfg` | [disagreements](#where-the-code-and-its-documents-disagree): each checks one documented promise, which fails |

Why these bounds are enough:

- Row writer: the capacity is `max(n, min_batch_size)`, so announcements below, at and
  above the minimal batch, each several times within `MaxRows = 7`, reach every outcome of
  `allocate`, with batches already flushed and with none. Two columns distinguish the
  first, the last and (with one) the only column; none is the schema without columns. The
  invariants are in any case proved for every bound.
- Readers: four items fall short of, fill and overflow batches of one, two and three, and
  leave room for an error before, inside and after each; six calls let a caller go on
  after each error and after the end.
- SQLite's query: two columns of which one may become known before the other, in the same
  row or never; three rows put nulls before, between and after values and a third kind of
  row behind the one at which inference stops; two calls of `start_batch`.
- `BATCH_SIZE = 2` stands for 30: batches of 0, 1, 2, 3 and 5 rows are none, less than one
  statement, one, one with a remainder and two with a remainder. Three appenders let one
  be abandoned, a second commit its rows and a third come after.
- PostgreSQL: two widths, of which one is the table's; batches of up to two rows, so that
  an error falls before the first, between and after the rows.
- SQL Server: as for PostgreSQL, with batches of up to three rows and three appenders.
- DuckDB: the buffer is flushed at three rows, batches have up to three and there are six
  rows, so that flushes fall within a batch, at its end and between appenders.
- Decimals: nine digits are two full groups and one more digit; scales of 0 to 9 are every
  remainder by four on both sides of a group; 8190 and 8191 are the weights between which
  `weight * 4 + 5` leaves `i16`, 16382 and 16383 those between which it is positive again in a
  release build, and 32767 is the last weight. The properties are in any case proved for
  every number.
- Type tables: there is no bound on types but on decimals, of which the eight are one
  plain, the largest and one more of MySQL and of SQL Server, a negative scale, and scales
  beyond MySQL's and beyond the precision. Three cells let SQLite's inference see nulls
  before, between and after values. A parameter is of every native type, so that each pair
  of a `DataType` and a value occurs. The properties are in any case proved for every set of
  decimals and any number of cells.
- Schema editing has no bound: catalogue and names are finite.

`CHECK_DEADLOCK FALSE` is in every configuration but `SchemaEdit.cfg`, for the same reason:
readers, appenders and columns are used up, and a caller may stop at any time. A catalogue
is not: something can always be done with it, and TLC checks that.

## Fairness

Only `BatchStream` claims that something eventually happens, under `WF_vars(Step)`:
`next_batch_from_rows` is a loop that waits for nobody but the driver, so as long as the
driver answers it goes on; and `query()`, being a `collect()`, calls `next()` again until
an error or `None`. Nothing is assumed of other callers. Under this `query()` comes to an
error or the end (`QueryReturns`), wherever errors and further result sets are, unless it
panics at a cell that cannot be converted, and nowhere else. A driver that never answers is
outside this assumption.

## Refinements

- `BatchStream` implements `RowDelivery`. The next item of the abstract reader is the first
  the calls completed so far have not taken: `next <- pos - taken + 1`. A call in progress
  has so far done nothing, and commits to all it took when it returns.
- `SqliteQuery` implements it as well, with the whole result as one batch's size. Nothing is
  taken until the reader has been made: a `start_batch` that fails loses nothing, and one
  that is called again after it starts over.
- `TiberiusAppend` implements `TableAppend`, with the rows of the bulk load request as the
  pending rows, for careful and careless callers alike.
- `PostgresAppend` implements `TableAppend`, with what was sent in the current COPY as the
  pending rows, also when the answer to `finish()` is lost.
- `SqlAppend` implements it for SQLite and a caller who gives up at the first error. It does
  not for MySQL: `MySQLAppender` has no `Drop`, so what a dropped appender leaves in the
  open transaction is committed by the next `START TRANSACTION` or DDL on the connection.
  What does hold for MySQL is `CommitPoints` and `PrefixCommitted`: commits happen between
  appenders or at `finish`, never inside `append`, and what is committed of an appender is a
  prefix of the rows it was given, of rows and not always of whole batches.
- `DuckDBAppend` does not implement it either: its buffer commits on its own. What holds is
  `RowsKept`.

## Proofs

The proofs hold for every value of the constants, from each module's named assumption
alone: the constants are numbers and sets of numbers, `BATCH_SIZE` and `FlushCount` are not
zero, `None` is not a batch, `"Null"` is not a kind of value, one of `Widths` is the
largest (it is how wide `AlterTable` may make the table), `Width` is one of the `Widths` a
batch may have, and names are sequences of strings, none of them empty. The decimal types of
`Roundtrip` have Arrow's precisions, 1 to 76, and a scale that is an `i8`. A decimal that is
appended has at most 77 digits, as an `i256` has, and a scale that is an `i8`; a numeric that
others stored is in PostgreSQL's normal form, its weight is an `i16` and it has at most
`MaxDscale` digits behind the point. The bounds on rows, items and appenders are constants
like the others, so that a theorem holds for all of them.

| Module | Theorem | States `Spec =>` |
|---|---|---|
| `RowWriterProofs` | `TypeCorrect`, `Correct` | `[]TypeOK`, `[]IInv` |
| | `BatchesContinueAlways` | `[]BatchesContinue` |
| | `NoEmptyBatchEver` | `[]NoEmptyBatch` |
| | `FinishDelivers` | `[]FinishDeliversAll` |
| | `NoPanic` | `[]NeverPanics` |
| | `ReservationHolds` | `[]WithinReservation` |
| | `BatchesAreFull` | `[]FullBatches` |
| | `NothingEverLost` | `[]NothingLost`, from the first and third above |
| | `BatchLengthsHold` | `[]BatchLengths`, from the three about batches |
| `BatchStreamProofs` | `TypeCorrect`, `Correct` | `[]TypeOK`, `[]IInv` |
| | `OneResultSetAlways` | `[]OneResultSet` |
| | `OnlyCellsPanic` | `[]PanicsOnlyAtCells` |
| | `ShortBatchIsTheLast` | `ShortBatchIsLast` |
| | `KeepsPromise` | `DeliversRows`, the refinement of `RowDelivery` |
| `SqliteQueryProofs` | `TypeCorrect`, `Correct` | `[]TypeOK`, `[]IInv` |
| | `ResultIsTheTable` | `[]ResultIsTable` |
| | `PanicsAreExplained` | `[]PanicsOnlyIfMixedOrAltered` |
| | `KeepsPromise` | `DeliversRows`, the refinement of `RowDelivery` |
| `SqlAppendProofs` | `TypeCorrect`, `Correct` | `[]TypeOK`, `[]IInv` |
| | `AcceptedIsAlwaysInserted` | `[]AcceptedIsInserted` |
| | `NoRowTwiceEver` | `[]NoRowTwice` |
| | `AckedIsAlwaysCommitted` | `[]AckedIsCommitted` |
| | `PrefixAlwaysCommitted` | `[]PrefixCommitted` |
| | `CommitsOnly` | `CommitPoints` |
| | `SQLiteKeepsPromise` | `AllOrNothing`, the refinement of `TableAppend` |
| `PostgresProofs` | `TypeCorrect`, `Correct` | `[]TypeOK`, `[]IInv` |
| | `OneWidthAlways` | `[]OneWidth` |
| | `AckedIsAlwaysStored` | `[]AckedIsStored` |
| | `KeepsPromise` | `AllOrNothing`, the refinement of `TableAppend` |
| | of `DecimalSpec`: `DecimalTypeCorrect`, `DecimalsCorrect` | `[]DecimalTypeOK`, `[]DecimalInv` |
| | `EveryNumberIsRead` | `[]ReadAsWritten` |
| | `PanicsAreExplained` | `[]PanicsOnlyAtEdges` |
| `ConnectorProofs` | `TypeCorrect`, `Correct` | `[]TypeOK`, `[]IInv` of the DuckDB appender |
| | `NothingEverLost` | `[]NothingLost` |
| | `NoRowTwiceEver` | `[]NoRowTwice` |
| | `RowsAreKept` | `[]RowsKept`, both together |
| | of `RoundtripSpec`: `ColumnTypeCorrect`, `ColumnsCorrect` | `[]RoundtripTypeOK`, `[]RoundtripInv` |
| | `SupportedTypesAreStored` | `[]SupportedIsStored` |
| | `ResultsAreAsPromised` | `[]PromisedType` |
| | `ValuesSurvive` | `[]RoundtripKeepsValues` |
| | `DescriptionsAgree` | `[]TableGetAgrees` |
| `TiberiusAppendProofs` | `TypeCorrect`, `Correct` | `[]TypeOK`, `[]IInv` |
| | `AckedIsAlwaysStored` | `[]AckedIsStored` |
| | `WholeBatchesAlways` | `[]WholeBatches` |
| | `KeepsPromise` | `AllOrNothing`, the refinement of `TableAppend` |
| `SchemaEditProofs` | `TypeCorrect`, `Correct` | `[]TypeOK`, `[]IInv` |
| | `NoOtherTable` | `OnlyThatTable` |
| | `SessionAlwaysAgrees` | `[]SessionAgrees` |
| | `ErrorsAreExplained` | `[]ErrorsExplained` |

Some proofs need an induction, which the provers cannot instantiate. `LeastNumber` takes its
place (`LeastNatural` in `ConnectorProofs`): a set of natural numbers that is not empty has a least element, which is the library's
theorem on well-founded orders without an operator for a parameter. A proof takes the least
number for which something fails, and contradicts it; so it also finds the first row with
a property, as inference does.

**The row writer.** None of its safety properties is inductive. That the next flush
continues where the last one stopped depends on what the builders hold, which the
properties do not mention; that a slice does not panic depends on the rows reserved. `IInv`
adds

- `PositionInv`: where in the announced block the writer stands, `next_col < schema`,
  `next_row <= row_count`;
- `NoBuildersInv`: without builders nothing is reserved, announced or written;
- `BuildersInv`: column `c` of the builders holds consecutive rows from `FlushedRows + 1`
  to the last one written (one more in the columns before `next_col`), and what is reserved
  is what they will hold when the announced block is complete.

The last equation is the heart of it: when `flush` can run (a new announcement, `finish`)
the block is complete, so `slice(0, rows_reserved)` is all of each column and cuts nothing
off. There is one lemma per action (`PrepareForBatch` is divided by the three outcomes of
`allocate`), and lemmas about what one flush does to the sequence of batches. `FullBatches`
needs `SizesInv` on top: the builders were allocated for `min_batch_size` rows or for one
announcement that is larger, and while the writer is open not even the last batch is short.
What a single step does is a lemma about states, without `Spec` (`InitInv`, `StepInv`,
`TypeStep`), so that the readers can cite it of the writers they contain.

**The streaming readers.** `BatchStreamProofs` instantiates `RowWriterProofs` for its writer
and takes over `IInv`. `CallInv` is what a call of `next_batch_from_rows` adds: the writer
is open and has no batch, its reservation is the rows taken, and its builders, allocated
with the first row, have room for `batch_size`; hence no announcement flushes,
`exactly_one()` is given one batch, and what is left to panic at is a cell that cannot be
converted (`PanicsOnlyAtCells`, a conjunct of `CallInv`). `MetadataInv` says that `query` has
seen no further result set unless that is where it failed; `OneResultSet` follows. In the
refinement a batch is the rows `pos - taken + 1 .. pos`, which are rows of the result by `CallInv`, and the writer's
`FinishDeliversAll` makes them the rows of the batch.

**SQLite's query.** Most of its invariant is about what is not yet wrong: the writer is new
until the schema is known (`FreshInv`), the rows fetched are the table's as far as they go and
as wide as the statement was (`FetchedInv`), and there is one batch, of all rows, since the
builders were allocated for as many (`CollectInv`). The hard part is `InferRight`: the type
`Infer` chooses is a value's of that column, or all its values are null, although only the
rows up to the first at which all columns are known were looked at. `ScannedEnough` is the
case where scanning stopped early. `ResultIsTable` then needs that a column with a value is
never of type Null, and a panic that some value differs from the one the type came from.

**SQLite and MySQL.** `Prefix(k, n)` is how many rows of a batch of `n` the first `k`
statements insert; `PrefixSteps` is the arithmetic of `div` and `mod` behind it, for every
`BATCH_SIZE`. With `Done`, the prefix of the current batch, `StatementRows` shows that the
next statement inserts exactly the rows behind it, full statement or remainder. `OrderInv`
then says that table, transaction and the rest of the batch are three stretches of one
increasing sequence, and `ContentInv` that while nothing failed the transaction is what was
accepted followed by the prefix. `KeptInv` is a weaker form of the latter that also holds
for a caller who goes on after errors; `AckedIsCommitted` rests on it. `CarefulInv` is about
a caller who does not: the transaction is a stretch of rows that begins at the first row of
the appender that was opened last, so committing it, at `finish()` or later, commits a prefix of
what that appender was given (`PrefixCommitted`), and SQLite, which has no transaction without an
appender, commits all of it or nothing (`SQLiteStep`, action by action as for PostgreSQL).

**PostgreSQL.** `OrderInv` says the same of table and COPY stream, `BatchInv` that rows are
written by an initialised writer only. `PromiseStep` maps each action: `New` to `Open`,
`WriteRow` to `Write`, `Finish` to `Commit`, `DropAppender` to `Abort`, `FinishFails` to either,
as the server had ended the COPY or not before the answer was lost, and all others to a
stutter. `AckedIsStored` is a conjunct of the invariant by itself: the table only grows, behind what
`finish()` acknowledged.

**Decimals.** Two sequences of digits are the same number if they agree place for place,
counted from the point, with zeros on both sides of what is written (`At`, `SameNumber`).
`IsText` says what it means for a text to be a number's, without choosing a first digit:
its places are the number's, there are none to its left, and its integer part has no zero to
spare. `OneText` is that a number has one such text, so a reader is right if its text is the
number's (`FromSqlReads` for `from_sql`, `InsertDotReads` for SQLite's text), and a writer if
it keeps the number: `ToSqlKeeps` for the regrouping of `scale` places into groups of four,
`NormalisedKeeps` for the zero groups the server strips. No invariant that a run checks is
inductive, as none says what a decimal on its way is: `DecimalInv` does, that what is sent is
`ToSql(number)` and what is stored its normal form, and the text the reading of it. The rest
is machine arithmetic. `DotProperties` is what `weight * 4 + 5` becomes in 16 bits; `StoredWeight`
shows that a stored number's first group is not behind its `dscale`, so that the point never
leaves `i16` downwards (`OnlyUpwards`), and `WeightBound` that of 77 digits it does not leave it
upwards. An appended number hence panics only where `dot` is negative, and is read right
everywhere else, in either build.

**DuckDB.** `AddedRow` is the lemma: with or without a flush, `append_row` appends one row
to `table \o buffer`.

**SQL Server.** `WholeBatches` speaks of the table alone, and what goes there is the request,
so `WholeInv` says of a careful caller that, while nothing failed, every batch is in the
request as a whole or not at all, but for the one `append()` is at. That this one is whole
when `append()` returns is `SentInv` (the rows from its first to the one before `row` are in
the request); that no earlier batch is torn by a row of this one is `BatchInv` (batches
follow each other). `OrderInv`, that the next row is larger than all rows stored and sent,
gives `Write` of the refinement its new rows.

**Names.** `FlattenPieces` says where each piece of a flattened sequence is, and `QuotedReads`
that the server, reading the quoted text from its end, finds exactly the characters of the
name: every doubled quote is one, and none ends the name early. Both begin with the
existence of the recursive function they are about (`FlattenFunction`, `QuotedFunction`), made
one place at a time. `KeysOfName` adds the names that are not quoted, and says all that the
rest needs: a name is read as itself, or as a reserved word. `KnownInv` is then inductive: of a
name that `me` knows to be absent there is no table, only perhaps a view in MySQL, and of a
name that is its own there is its table; `KnownOthers` is why a step on one name leaves the
others alone. `SessionAgrees` and `ErrorsExplained` follow action by action.

**A column through a connector.** The proof has two halves. `RoundtripInv` knows nothing of
types; it is a record of what happened: how the column was declared (`ColumnInv`), of each
cell what it was sent as and that the server took it (`CellsInv`), that a field came from
the column and not from its cells' order, and is unreadable exactly when a cell of it is
(`ResultInv`), where `edge` and `altered` can be set (`EdgeInv`), and for a panic or a refusal which
of the matches had no answer or did not fit (`FailInv`). None of the five properties is
inductive, because a cell in the table does not say what it was sent as, nor `panicked` what
panicked. The other half is about types alone: `ResultsGood`, `DescribedGood` and `StoredGood`
say what a property needs of the fields and the cells of a column in any state, and are shown
for each connector from three lemmas about its matches: what a supported type is sent as
(`MySQLStores`), under which names the server reports the column (`MySQLReports`), and what is
read (`MySQLReads`; for the others likewise). These go through the pairs of a table, but not
through its decimals, which stay variables: every precision from 1 to 76 and every scale from
-128 to 127 is covered, and so are the tests that choose a decimal's column and, once more, its
value (`can_decimal_fit_in_numeric`, the 65 digits of MySQL). `Functional` is that a match has
one answer; `LookupIs` then replaces the choice in `Lookup` by that answer, and
`FunctionalTable` turns it into the statement about cardinalities that TLC evaluates.
`SQLiteInfers` needs a least row, as above.

**Only model-checked**: `QueryReturns`, which is liveness under fairness and beyond the prover.

## Where the code and its documents disagree

1. `duckdb/append.rs:42`. `finish()` returns `Ok` before the last flush, which happens when
   DuckDB's `Appender` is dropped and whose error is lost. `api.rs:78`: the batches "have to
   be written to a table". Run `DuckDBAppend_refused.cfg`.
2. `postgres/decimal.rs:70`. A number below 10^-4 that was appended cannot be read back:
   `(weight_first * 4 + 5) as usize` is negative and slicing panics. The repository's
   README, line 77, guarantees the round trip. Run `Decimal_small.cfg`.

The others are exceptions of a property, named and no wider than they are:

- `util/decimal.rs:18`. A decimal of a negative scale is stored in SQLite without its zeros,
  as another number. `ReadAsWritten` is about scales that are not negative, and
  `RoundtripKeepsValues` says that no other decimals are `altered`.
- `postgres/decimal.rs:70`. The panic of item 2, for a column: `SmallNumerics`, an exception of
  `SupportedIsStored` and `RoundtripKeepsValues`, and part of `edge` in `PromisedType`. A column
  with such a number in it is unreadable, and no other written column is.
- `postgres/decimal.rs:70`. In a release build `weight_first * 4 + 5` wraps around. A numeric
  that others stored with 32765 to 65532 digits before the point makes `from_sql` panic, as it
  does in a debug build; with more, `dot` is positive again, and a part of the digits is
  returned as the number. `ForeignIsRead` names the case. A `Decimal256` cannot be as long.
- Most cells that cannot be converted are a panic and not an error: `Row::get` at
  `postgres/query.rs:119` and `124` (which is where `from_sql` ends up), `take().unwrap()` and
  `todo!()` in `mysql/query.rs:115` and `191` to `207`, `tiberius/query.rs:151` and `156`, and
  the `unimplemented!()` of types a connector does not produce. `api.rs` has `Result`s
  throughout. `BatchStream` lets each such cell be an error or a panic, and `QueryReturns`
  excepts the panics at one.
- `api.rs:31` to `33`: a type that does not map to an arrow type is to be read as Binary, with its
  name under `METADATA_DB_TYPE`. PostgreSQL's is. MySQL's `create_field`
  is `todo!()` for such a type (`mysql/types.rs:33`). SQL Server's field is Binary, but the
  metadata are collected and dropped (`tiberius/types.rs:28` to `37`), and no cell of such a
  column, not even a null, can be read as Binary (`tiberius/query.rs:202`). `UnmappedResult`
  in `PromisedType` says so of each connector.
- A timestamp, date or interval of another's PostgreSQL table that is out of arrow's range
  (infinity, for one) is an error of the query, as `checked_add` and its like intend. It is the
  rest of `edge`.
- `duckdb/mod.rs:59`. `type_db_into_arrow` says Date64 of a DATE, and a query's batches hold
  Date32. `PromisedType` excepts this type.
- `duckdb/schema.rs:105`. `table_create` panics on dates, times and intervals, for which
  `type_arrow_into_db` returns `Some`; `api.rs:37`: `None` means not supported. `Gap` in
  `Roundtrip` has these types, and three narrower ones: PostgreSQL's numerics of a negative
  scale, MySQL's decimals of more decimal places than MySQL allows, and SQLite's
  non-nullable column of type Null.
- `mysql/query.rs:25`. `start_batch` executes the statement without its parameters, which
  `api.rs:60` says are read from the batch. `SupportedIsStored` leaves MySQL's parameters
  out, as refused.

No document promises more, but a caller may expect it: the answer of a COPY, of a COMMIT or of a
bulk load may be lost after the server has stored the rows, and `finish()` is then an error
although they are there. The models of the appenders have it; that rows are acknowledged means
that they are stored, not the other way round.

## Not modelled

- The values of types other than decimals: a value that passes `ConsumeTy` and `ProduceTy`
  is taken to be unchanged if its types are `Lossless`. That one of another's PostgreSQL table
  may be out of arrow's range is in the model, the arithmetic by which `postgres/query.rs`
  finds out is not. Nor are `NaN` and the infinities: among numerics, and a float's in SQLite,
  which stores a `NaN` as a null.
- What a SQL Server does with a bulk load request that was never finalized, beyond not
  storing its rows, and the lifetime of the table name that `TiberiusAppender::new` borrows,
  which is a question to the compiler.
- Statements that return no result set, for which the MySQL and SQL Server readers return
  `NoResultSets` after the statement was executed; what such a statement does is the
  caller's. Statements with several parameters: each is written and sent on its own.
- The casts of arrays in `util/coerce.rs`, which are arrow's.
- Names that differ in case alone on servers that compare without it, names in other
  schemas, and missing permissions (for which SQL Server has the error of a missing table).
- `errors.rs`, and the integration tests, which were read for what the library promises.

## Plan

Modelled and proved: every component that has state, the decimals, the names, the type
tables and the parameters. Left: the values of timestamps and intervals, that is the
arithmetic of `checked_add` in `postgres/query.rs` and the casts between units.
