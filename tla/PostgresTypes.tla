--------------------------- MODULE PostgresTypes ---------------------------
(***************************************************************************)
(* The type tables of the PostgreSQL connector (postgres/mod.rs, append.rs, *)
(* query.rs, types.rs, schema.rs), and what the server and its driver do    *)
(* with column types (external).  A cell is named by its wire format.  The  *)
(* words of a type's name are joined by an underscore.                      *)
(***************************************************************************)
EXTENDS ArrowTypes

\* Mutant: UInt32 is added to the integers and not taken from the bigints.
IntoDbTwice ==
  Named({"Null", "Int8", "Int16", "UInt8"}) \X {"smallint"}
  \cup Named({"Boolean"}) \X {"bool"}
  \cup Named({"Int32", "UInt16", "UInt32", "Date32"} \cup Time32s) \X {"integer"}
  \cup Named({"Int64", "UInt32", "Date64"} \cup Timestamps \cup Time64s \cup Durations)
         \X {"bigint"}
  \cup Named({"UInt64"} \cup DecimalNames) \X {"decimal"}

(* type_arrow_into_db, also used by table_create *)
IntoDb ==
  Named({"Null", "Int8", "Int16", "UInt8"}) \X {"smallint"}
  \cup Named({"Boolean"}) \X {"bool"}
  \cup Named({"Int32", "UInt16", "Date32"} \cup Time32s) \X {"integer"}
  \cup Named({"Int64", "UInt32", "Date64"} \cup Timestamps \cup Time64s \cup Durations)
         \X {"bigint"}
  \cup Named({"UInt64"} \cup DecimalNames) \X {"decimal"}
  \cup Named({"Float16", "Float32"}) \X {"real"}
  \cup Named({"Float64"}) \X {"double_precision"}
  \cup Named(Text) \X {"text"}
  \cup Named(Bytes) \X {"bytea"}

(* ConsumeTy for BytesMut: the wire format a value is written in.  A null   *)
(* never gets there (ToSql for ArrayCellRef).                               *)
Consumes ==
  Named({"Null"}) \X {"nothing"}
  \cup Named({"Boolean"}) \X {"bool"}
  \cup Named({"Int8", "Int16", "UInt8"}) \X {"int2"}
  \cup Named({"Int32", "UInt16", "Date32"} \cup Time32s) \X {"int4"}
  \cup Named({"Int64", "UInt32", "Date64"} \cup Timestamps \cup Time64s \cup Durations)
         \X {"int8"}
  \cup Named({"UInt64"} \cup DecimalNames) \X {"numeric"}
  \cup Named({"Float16", "Float32"}) \X {"float4"}
  \cup Named({"Float64"}) \X {"float8"}
  \cup Named(Text) \X {"text"}
  \cup Named(Bytes) \X {"bytea"}

(* The wire format of a column (external): COPY BINARY takes and a query    *)
(* returns exactly this one.  The types after text are those of tables that *)
(* others have created.                                                     *)
Yields ==
  { <<"smallint", "int2">>, <<"bool", "bool">>, <<"integer", "int4">>, <<"bigint", "int8">>,
    <<"decimal", "numeric">>, <<"real", "float4">>, <<"double_precision", "float8">>,
    <<"text", "text">>, <<"bytea", "bytea">>,
    <<"timestamp", "timestamp">>, <<"timestamptz", "timestamp">>, <<"date", "date">>,
    <<"time", "time">>, <<"timetz", "other">>, <<"interval", "interval">>,
    <<"bit", "bits">>, <<"varbit", "bits">>, <<"varchar", "text">>, <<"bpchar", "text">>,
    <<"uuid", "other">>, <<"inet", "other">>, <<"json", "other">>,
    <<"mood", "other">> }

(* Types that are not built in (an enum): Type::from_oid does not know them.*)
Custom == {"mood"}

Foreign == {"timestamp", "timestamptz", "date", "time", "timetz", "interval", "bit", "varbit",
            "varchar", "bpchar", "uuid", "inet", "json", "mood"}

(* The types whose values can be out of the range of arrow's (infinity, or  *)
(* an interval whose nanoseconds do not fit): DataOutOfRange.               *)
Ranged == {"timestamp", "timestamptz", "date", "interval"}

(* Type::name() of a column (external): the catalogue's short names. *)
Renamed ==
  [smallint |-> "int2", integer |-> "int4", bigint |-> "int8", decimal |-> "numeric",
   real |-> "float4", double_precision |-> "float8"]

Reports == { <<ty, IF ty \in DOMAIN Renamed THEN Renamed[ty] ELSE ty>> : ty \in Dom(Yields) }

(* type_db_into_arrow *)
FromDb ==
  {"boolean", "bool"} \X {"Boolean"}
  \cup {"smallint", "int2"} \X {"Int16"}
  \cup {"integer", "int4"} \X {"Int32"}
  \cup {"bigint", "int8"} \X {"Int64"}
  \cup {"real", "float4"} \X {"Float32"}
  \cup {"double_precision", "float8"} \X {"Float64"}
  \cup {"numeric", "decimal", "text", "varchar", "char", "bpchar"} \X {"Utf8"}
  \cup {"timestamp", "timestamptz"} \X {"TimestampMicrosecond"}
  \cup {"date"} \X {"Date32"}
  \cup {"time"} \X {"Time64Microsecond"}
  \cup {"interval"} \X {"IntervalMonthDayNano"}
  \cup {"bytea", "bit", "bit_varying", "varbit"} \X {"Binary"}

(* ProduceTy for CellRef: the wire formats each arrow type is decoded from. *)
(* Binary takes the bytes of any.                                           *)
Produces ==
  { <<"Boolean", "bool">>, <<"Int16", "int2">>, <<"Int32", "int4">>, <<"Int64", "int8">>,
    <<"Float32", "float4">>, <<"Float64", "float8">>, <<"Utf8", "text">>,
    <<"Utf8", "numeric">>, <<"LargeUtf8", "text">>, <<"TimestampMicrosecond", "timestamp">>,
    <<"Time64Microsecond", "time">>, <<"Date32", "date">>,
    <<"IntervalMonthDayNano", "interval">> }
  \cup {"Binary", "LargeBinary"} \X { pair[2] : pair \in Yields }

(* pg_field_to_arrow: an unknown type becomes Binary, its name the metadata.*)
Field(name, null) ==
  IF name \in Dom(FromDb)
  THEN [type |-> Lookup(FromDb, name), metadata |-> "none", nullable |-> null]
  ELSE [type |-> "Binary", metadata |-> name, nullable |-> null]

(* A numeric with a negative scale cannot be sent (see Decimal). *)
Writable == { ty \in Types : ty.s >= 0 }
=============================================================================
