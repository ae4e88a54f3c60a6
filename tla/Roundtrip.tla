----------------------------- MODULE Roundtrip -----------------------------
(***************************************************************************)
(* One column of a table, from table_create over append to query and        *)
(* table_get, in each of the five connectors.  Every connector decides on   *)
(* types in five or six separate matches: type_arrow_into_db and table_create *)
(* (the type declared), ConsumeTy (the value sent), type_db_into_arrow (the *)
(* type of the result), ProduceTy (the value read) and table_get.  Nothing  *)
(* in the compiler holds them together, and a cell that falls between two   *)
(* of them is a panic or an error at run time.                              *)
(*                                                                         *)
(* A column is either written through the library, for every arrow type, by *)
(* an appender or as the parameter of an INSERT, or it is foreign: declared *)
(* and filled by someone else.  A cell is the kind of value the table       *)
(* holds; how many cells there are matters to SQLite alone, which infers a  *)
(* column's type from them.  The values themselves are told apart only      *)
(* where a conversion fails on some, or stores another: `edge` and          *)
(* `altered` say that the column holds one of these.                        *)
(***************************************************************************)
EXTENDS Parameters, Sequences

CONSTANT MaxCells    \* bound: the cells of the column

ASSUME MaxCellsAssumption == MaxCells \in Nat

P == INSTANCE PostgresTypes
S == INSTANCE SQLiteTypes
M == INSTANCE MySQLTypes
D == INSTANCE DuckDBTypes
T == INSTANCE TiberiusTypes

Dbs == {"postgres", "sqlite", "mysql", "duckdb", "tiberius"}

IntoDb == [postgres |-> P!IntoDb, sqlite |-> S!IntoDb, mysql |-> M!IntoDb,
           duckdb |-> D!IntoDb, tiberius |-> T!IntoDb]
Declares == [postgres |-> P!IntoDb, sqlite |-> S!Declares, mysql |-> M!IntoDb,
             duckdb |-> D!Declares, tiberius |-> T!IntoDb]
Consumes == [postgres |-> P!Consumes, sqlite |-> S!Consumes, mysql |-> M!Consumes,
             duckdb |-> D!Consumes, tiberius |-> T!Consumes]
FromDb == [postgres |-> P!FromDb, sqlite |-> S!FromDb, mysql |-> M!FromDb,
           duckdb |-> D!FromDb, tiberius |-> T!FromDb]
Produces == [postgres |-> P!Produces, sqlite |-> S!Produces, mysql |-> M!Produces,
             tiberius |-> T!Produces]

(* The types with an arm in type_arrow_into_db, table_create, ConsumeTy,     *)
(* ProduceTy.                                                               *)
Supported == [d \in Dbs |-> Dom(IntoDb[d])]
Declared == [d \in Dbs |-> Dom(Declares[d])]
Consumed == [d \in Dbs |-> Dom(Consumes[d])]
Produced == [d \in DOMAIN Produces |-> Dom(Produces[d])]

Yields == [postgres |-> P!Yields, mysql |-> M!Yields, duckdb |-> D!Yields,
           tiberius |-> T!Yields]
Foreign == [postgres |-> P!Foreign, sqlite |-> {}, mysql |-> M!Foreign,
            duckdb |-> D!Foreign, tiberius |-> T!Foreign]

VARIABLES
  db,
  ty,          \* the arrow type of the column, or NoType when it is foreign
  nullable,    \* of the arrow field
  declared,    \* the type of the table's column, "untyped" if it has none
  not_null,    \* the table's column
  cells,       \* the kinds of the stored values, "NULL" for a null
  edge,        \* one of them is a value that PostgreSQL's ProduceTy fails on
  altered,     \* one of them is another number than the one appended
  parameter,   \* the parameter whose INSERT did not succeed, or NoParameter
  phase,       \* "new", "open", "panicked", "refused", "unreadable"
  queried,     \* the field of a query's result, or NoField
  described    \* the field of table_get, NoField before it

roundtripVars ==
  <<db, ty, nullable, declared, not_null, cells, edge, altered, parameter, phase,
    queried, described>>
column == <<db, ty, nullable, declared, not_null, cells, edge, altered>>

NoType == [name |-> "none", p |-> 0, s |-> 0]
NoParameter == [native |-> "none", exact |-> TRUE]
Plain(name, null) == [type |-> name, metadata |-> "none", nullable |-> null]
NoField == Plain("none", TRUE)
Incompatible == Plain("IncompatibleSchema", TRUE)
NotSupported == Plain("NotSupported", TRUE)
Errors == {Incompatible, NotSupported}

Own == ty # NoType
HasValue == \E i \in DOMAIN cells : cells[i] # "NULL"
HasNull == \E i \in DOMAIN cells : cells[i] = "NULL"

-----------------------------------------------------------------------------
(* A column to be created, or one that others have created and filled.      *)
RoundtripInit ==
  /\ db \in Dbs
  /\ parameter = NoParameter /\ queried = NoField /\ described = NoField
  /\ \/ /\ ty \in Types
        /\ nullable \in BOOLEAN
        /\ declared = "untyped" /\ not_null = FALSE /\ cells = <<>>
        /\ edge = FALSE /\ altered = FALSE
        /\ phase = "new"
     \/ /\ ty = NoType /\ nullable = TRUE
        /\ declared \in Foreign[db] /\ not_null = FALSE
        /\ \E n \in 0..MaxCells :
             cells \in [1..n -> {"NULL", Lookup(Yields[db], declared)}]
        /\ edge \in { e \in BOOLEAN : e => db = "postgres" /\ declared \in P!Ranged /\ HasValue }
        /\ altered = FALSE
        /\ phase = "open"

(* table_create.  A field of type Null is nullable whatever it says, except *)
(* to SQLite.                                                               *)
TableCreate ==
  /\ phase = "new"
  /\ ty \in Declared[db]
  /\ db = "mysql" => ty \in M!Declarable
  /\ db = "tiberius" => ty \in T!Declarable
  /\ declared' = Lookup(Declares[db], ty)
  /\ not_null' = (~nullable /\ (db = "sqlite" \/ ty.name # "Null"))
  /\ phase' = "open"
  /\ UNCHANGED <<db, ty, nullable, cells, edge, altered, parameter, queried, described>>

(* The server rejects the type (external). *)
CreateRefused ==
  /\ phase = "new"
  /\ ty \in Declared[db]
  /\ \/ db = "mysql" /\ ty \notin M!Declarable
     \/ db = "tiberius" /\ ty \notin T!Declarable
  /\ phase' = "refused"
  /\ UNCHANGED <<column, parameter, queried, described>>

(* unimplemented!(), and todo!() of DuckDB's decimals *)
CreatePanics ==
  /\ phase = "new"
  /\ ty \notin Declared[db]
  /\ phase' = "panicked"
  /\ UNCHANGED <<column, parameter, queried, described>>

-----------------------------------------------------------------------------
(* Append.append of one cell: it is a null if the field allows one, and in a *)
(* column of type Null it is nothing else.                                  *)
CanAppend(null) ==
  /\ phase = "open" /\ Own
  /\ queried = NoField /\ described = NoField
  /\ Len(cells) < MaxCells
  /\ null => nullable \/ ty.name = "Null"
  /\ ty.name = "Null" => null

(* Some value is made of the cell: transport() has an arm for its type and  *)
(* the consumer an implementation.  PostgreSQL's nulls do not go there.     *)
Sent(null) ==
  \/ db = "postgres" /\ null
  \/ ty.name \in Transported /\ ty \in Consumed[db]

(* The server takes the cell (external): SQLite every kind; the others the  *)
(* column's own, without a conversion.  Nulls are of all kinds, except SQL  *)
(* Server's, which are of the consumer's.                                   *)
Fits(null) ==
  /\ ~(null /\ not_null)
  /\ db # "sqlite" =>
     \/ null /\ db # "tiberius"
     \/ /\ <<declared, Lookup(Consumes[db], ty)>> \in Yields[db]
        /\ db = "postgres" => ty \in P!Writable

(* The values of a decimal type that fare differently: "small" is a number  *)
(* below 10^-4 that is not 0, "other" one that is not below.                *)
Values ==
  IF ty.name \in DecimalNames
  THEN {"zero"} \cup (IF ty.s > 4 THEN {"small"} ELSE {})
                \cup (IF ty.p > ty.s - 4 THEN {"other"} ELSE {})
  ELSE {"other"}

(* What PostgreSQL will not be able to read back, a small number, and what  *)
(* is another number in SQLite: a decimal of a negative scale is stored     *)
(* without its zeros.                                                       *)
Stores(value) ==
  /\ edge' = (edge \/ (db = "postgres" /\ value = "small"))
  /\ altered' = (altered \/ (db = "sqlite" /\ ty.s < 0 /\ value = "other"))

AppendCell(null) ==
  /\ CanAppend(null) /\ Sent(null) /\ Fits(null)
  /\ \E value \in IF null THEN {"null"} ELSE Values : Stores(value)
  /\ cells' = Append(cells, IF null THEN "NULL" ELSE Lookup(Consumes[db], ty))
  /\ UNCHANGED <<db, ty, nullable, declared, not_null, parameter, phase, queried, described>>

AppendRefused(null) ==
  /\ CanAppend(null) /\ Sent(null) /\ ~Fits(null)
  /\ phase' = "refused"
  /\ UNCHANGED <<column, parameter, queried, described>>

(* todo!() of transport(), unimplemented!() of the consumer *)
AppendPanics(null) ==
  /\ CanAppend(null) /\ ~Sent(null)
  /\ phase' = "panicked"
  /\ UNCHANGED <<column, parameter, queried, described>>

-----------------------------------------------------------------------------
(* Statement.start of an INSERT with one parameter, that returns the row    *)
(* (RETURNING, OUTPUT): vec_to_record_batch, and start_batch, which sends   *)
(* the value as append() does.  MySQL's start_batch leaves the parameters   *)
(* out, and its driver misses them (external).                              *)
Parameter(native, exact) ==
  /\ CanAppend(FALSE)
  /\ Written(ty.name, native)

Fails(native, exact, how) ==
  /\ parameter' = [native |-> native, exact |-> exact]
  /\ phase' = how
  /\ UNCHANGED <<column, queried, described>>

Takes(native, exact) == vec_to_record_batch(ty.name, native, exact)

InsertParameter(native, exact) ==
  /\ Parameter(native, exact) /\ Takes(native, exact)
  /\ db # "mysql" /\ Sent(FALSE) /\ Fits(FALSE)
  /\ \E value \in Values : Stores(value)
  /\ cells' = Append(cells, Lookup(Consumes[db], ty))
  /\ UNCHANGED <<db, ty, nullable, declared, not_null, parameter, phase, queried, described>>

ParameterRefused(native, exact) ==
  /\ Parameter(native, exact) /\ Takes(native, exact)
  /\ db = "mysql" \/ (Sent(FALSE) /\ ~Fits(FALSE))
  /\ Fails(native, exact, "refused")

(* The downcast, the length of a FixedSizeBinary, or as in AppendPanics *)
ParameterPanics(native, exact) ==
  /\ Parameter(native, exact)
  /\ ~Takes(native, exact) \/ (db # "mysql" /\ ~Sent(FALSE))
  /\ Fails(native, exact, "panicked")

-----------------------------------------------------------------------------
(* The fields a query of the column can have: none when MySQL's create_field *)
(* does not know the type, which is todo!().                                *)
ResultFields ==
  CASE db = "postgres" -> {P!Field(Lookup(P!Reports, declared), TRUE)}
    [] db = "sqlite" -> {Plain(S!Infer(cells), TRUE)}
    [] db = "mysql" -> M!Fields(M!QueryName[declared], ~not_null)
    [] db = "duckdb" -> {Plain(Lookup(D!Reports, declared), TRUE)}
    [] db = "tiberius" -> {T!Field(T!QueryName[declared], TRUE)}

(* transport() of every cell into a column of the type: a column of type    *)
(* Null is not read at all, and DuckDB's batches are not converted.  A cell *)
(* that cannot be converted is an error or a panic (see BatchStream).       *)
Readable(type) ==
  \/ type = "Null"
  \/ db = "duckdb"
  \/ /\ ~edge
     /\ \A i \in DOMAIN cells :
          IF cells[i] = "NULL" THEN type \in Produced[db]
                               ELSE <<type, cells[i]>> \in Produces[db]

(* query, start and collecting the rows *)
Query ==
  /\ phase = "open" /\ queried = NoField
  /\ \E field \in ResultFields :
       /\ queried' = field
       /\ phase' = IF Readable(field.type) THEN "open" ELSE "unreadable"
  /\ UNCHANGED <<column, parameter, described>>

QueryPanics ==
  /\ phase = "open" /\ queried = NoField
  /\ ResultFields = {}
  /\ phase' = "panicked"
  /\ UNCHANGED <<column, parameter, queried, described>>

-----------------------------------------------------------------------------
(* What table_get can return: SQLite goes by the declared type alone,       *)
(* PostgreSQL finds built-in types only, DuckDB asks for an empty result.   *)
DescribedFields ==
  CASE db = "postgres" ->
         IF declared \in P!Custom THEN {NotSupported}
         ELSE {P!Field(Lookup(P!Reports, declared), ~not_null)}
    [] db = "sqlite" ->
         IF declared \in Dom(S!DeclTyToArrow)
         THEN {Plain(Lookup(S!DeclTyToArrow, declared), ~not_null)} ELSE {Incompatible}
    [] db = "mysql" -> M!Fields(M!DescribeName[declared], ~not_null)
    [] db = "duckdb" -> {Plain(Lookup(D!Reports, declared), TRUE)}
    [] db = "tiberius" -> {T!Field(T!DescribeName[declared], ~not_null)}

TableGet ==
  /\ phase = "open" /\ described = NoField
  /\ \E field \in DescribedFields : described' = field
  /\ UNCHANGED <<column, parameter, phase, queried>>

TableGetPanics ==
  /\ phase = "open" /\ described = NoField
  /\ DescribedFields = {}
  /\ phase' = "panicked"
  /\ UNCHANGED <<column, parameter, queried, described>>

-----------------------------------------------------------------------------
RoundtripNext ==
  \/ TableCreate \/ CreateRefused \/ CreatePanics
  \/ \E null \in BOOLEAN : AppendCell(null) \/ AppendRefused(null) \/ AppendPanics(null)
  \/ \E native \in Natives, exact \in BOOLEAN :
       \/ InsertParameter(native, exact)
       \/ ParameterRefused(native, exact)
       \/ ParameterPanics(native, exact)
  \/ Query \/ QueryPanics
  \/ TableGet \/ TableGetPanics

RoundtripSpec == RoundtripInit /\ [][RoundtripNext]_roundtripVars

-----------------------------------------------------------------------------
(* The values of the variables, and that each match gives at most one answer *)
(* for a type.                                                              *)
RoundtripTypeOK ==
  /\ db \in Dbs /\ ty \in Types \cup {NoType}
  /\ nullable \in BOOLEAN /\ not_null \in BOOLEAN
  /\ edge \in BOOLEAN /\ altered \in BOOLEAN
  /\ Len(cells) <= MaxCells
  /\ parameter \in [native : Natives, exact : BOOLEAN] \cup {NoParameter}
  /\ phase \in {"new", "open", "panicked", "refused", "unreadable"}
  /\ queried.type \in ArrowNames \cup {"none"}
  /\ described \in Errors \/ described.type \in ArrowNames \cup {"none"}
  /\ phase = "new" =>
       \A tables \in {IntoDb, Declares, Consumes, FromDb} : IsTable(tables[db])

(* The types a connector says it stores, and does not: DuckDB's table_create *)
(* is unimplemented for dates, times and intervals; PostgreSQL's numerics of *)
(* a negative scale are not valid; MySQL's decimals have at most 30 decimal  *)
(* places, and no more than digits; and SQLite makes a column of type Null   *)
(* that is not nullable one that takes no cell.                              *)
Gap ==
  \/ db = "duckdb" /\ ty.name \in {"Date32", "Date64"} \cup Time32s \cup Time64s \cup Intervals
  \/ db = "postgres" /\ ty.s < 0
  \/ db = "mysql" /\ ty.name \in DecimalNames /\ (ty.s < 0 \/ ty.s > 30 \/ ty.s > ty.p)
  \/ db = "sqlite" /\ ty.name = "Null" /\ ~nullable

(* The numbers below 10^-4 in a decimal column of PostgreSQL: from_sql of   *)
(* postgres/decimal.rs panics on them.                                      *)
SmallNumerics == db = "postgres" /\ ty.name \in DecimalNames /\ ty.s > 4 /\ edge

(* A type that type_arrow_into_db supports is stored: the table can be      *)
(* created, every cell appended, null or not, and the column queried and    *)
(* described, without a panic and without an error, but for the types of    *)
(* Gap and for a column with SmallNumerics, whose query panics.  The same   *)
(* holds of a cell that comes as a parameter, if it is of the native type   *)
(* of the column's (but for MySQL, which takes none).                       *)
SupportedIsStored ==
  /\ Own /\ ty \in Supported[db] /\ ~Gap
  /\ parameter # NoParameter =>
       db # "mysql" /\ parameter = [native |-> Native[ty.name], exact |-> TRUE]
  => /\ phase \notin {"panicked", "refused"}
     /\ phase = "unreadable" => SmallNumerics

(* coerce_schema of coerce.rs with the types the two halves of the Connector *)
(* trait promise: a type becomes type_db_into_arrow of type_arrow_into_db of *)
(* it, and a field that was of type Null is nullable; a type that does not   *)
(* map stays as it is.  "keep" is an override of None.                       *)
CoercedTypes ==
  { pair[2] : pair \in { q \in FromDb[db] : <<ty, q[1]>> \in IntoDb[db] } }

\* Mutant: a field of type Null that becomes another keeps its nullability.
CoercedKeepsNull(override) ==
  { Plain(name, IF override = "keep" THEN nullable ELSE override = "nullable") :
      name \in IF CoercedTypes = {} THEN {ty.name} ELSE CoercedTypes }

Coerced(override) ==
  LET null == IF CoercedTypes = {} THEN nullable ELSE nullable \/ ty.name = "Null"
  IN { Plain(name, IF override = "keep" THEN null ELSE override = "nullable") :
         name \in IF CoercedTypes = {} THEN {ty.name} ELSE CoercedTypes }

(* The nullability of MySQL's results is the table's, and always TRUE        *)
(* elsewhere.                                                                *)
Override == IF db = "mysql" THEN "keep" ELSE "nullable"

(* What api.rs promises of a type that does not map to an arrow type: the   *)
(* column is queried as Binary, with METADATA_DB_TYPE.  Only PostgreSQL's   *)
(* is.  SQL Server's field is Binary without the metadata, and none of its  *)
(* cells, not even a null, can be converted to it; MySQL's query has no     *)
(* result, as create_field panics.                                          *)
UnmappedResult ==
  CASE db = "postgres" -> queried = [type |-> "Binary", metadata |-> declared, nullable |-> TRUE]
    [] db = "tiberius" -> /\ queried = Plain("Binary", TRUE)
                          /\ phase = "unreadable" <=> cells # <<>>
    [] OTHER -> FALSE

(* What a column comes back as is the coerced field, type and nullability,  *)
(* even though the query starts from the server's or the driver's name of   *)
(* the type, and SQLite's from the values; and a field that is not nullable *)
(* has no nulls, so that the batches can be built.  A foreign column comes  *)
(* back as type_db_into_arrow of its type, but for DuckDB's dates, and if   *)
(* there is no such type, as UnmappedResult says.  Every query of a column  *)
(* of PostgreSQL's has a result, and reads it but for the values of `edge`: *)
(* small numerics, and timestamps, dates and intervals out of arrow's range.*)
(* The integration tests compare by this promise.                           *)
PromisedType ==
  queried # NoField =>
    /\ db = "postgres" => phase # "panicked" /\ (phase = "unreadable" <=> edge)
    /\ Own /\ ty \in Supported[db] /\ (db # "sqlite" \/ HasValue) =>
         /\ queried \in Coerced(Override)
         /\ HasNull => \A field \in Coerced("keep") : field.nullable
    /\ ~Own /\ declared \in Dom(FromDb[db]) /\ <<db, declared>> # <<"duckdb", "DATE">> =>
         <<declared, queried.type>> \in FromDb[db]
    /\ ~Own /\ declared \notin Dom(FromDb[db]) => UnmappedResult

(* The type a written column is read as can hold every value of the type it *)
(* was written with, although the value went through ConsumeTy, the server  *)
(* and ProduceTy, and the column can be read, but for SmallNumerics.  Of    *)
(* the numbers that a decimal column holds, none is another than the one    *)
(* appended, but for those of a negative scale in SQLite.                   *)
RoundtripKeepsValues ==
  Own => /\ phase = "unreadable" <=> queried # NoField /\ SmallNumerics
         /\ queried # NoField /\ HasValue => Lossless(ty.name, queried.type)
         /\ altered => db = "sqlite" /\ ty.s < 0

(* SQLite's table_get says LargeUtf8 and LargeBinary where its query says   *)
(* Utf8 and Binary.                                                         *)
Alike(a, b) == a = b \/ {a, b} \subseteq Text \/ {a, b} \subseteq Bytes

(* table_get and query agree on a column, type and metadata, although the   *)
(* one asks the catalogue and the other the result set: what can be queried *)
(* can be described, but for PostgreSQL's custom types; and a field that is *)
(* described as not nullable takes no null.  SQLite's table_get fails       *)
(* exactly for a column without a declared type.                            *)
TableGetAgrees ==
  /\ queried # NoField => phase # "panicked"
  /\ described # NoField => described.nullable \/ ~HasNull
  /\ queried # NoField /\ described # NoField /\ db # "sqlite" =>
       IF described = NotSupported THEN declared \in P!Custom
       ELSE [described EXCEPT !.nullable = TRUE] = [queried EXCEPT !.nullable = TRUE]
  /\ db = "sqlite" /\ described # NoField =>
       /\ (described = Incompatible) <=> (declared \in {"NULL", "untyped"})
       /\ queried # NoField /\ HasValue => Alike(described.type, queried.type)
=============================================================================
