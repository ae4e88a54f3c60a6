---------------------------- MODULE DuckDBTypes ----------------------------
(***************************************************************************)
(* The type tables of the DuckDB connector (duckdb/mod.rs, append.rs,       *)
(* schema.rs).  A query returns DuckDB's own record batches, whose types    *)
(* are DuckDB's (external).  A cell is named by the variant of Value.       *)
(***************************************************************************)
EXTENDS ArrowTypes

\* The types that have the same table in mod.rs and in schema.rs.
Same ==
  Named({"Null", "Int64"}) \X {"BIGINT"}
  \cup Named({"Boolean"}) \X {"BOOLEAN"}
  \cup Named({"Int8"}) \X {"TINYINT"}
  \cup Named({"Int16"}) \X {"SMALLINT"}
  \cup Named({"Int32"}) \X {"INTEGER"}
  \cup Named({"UInt8"}) \X {"UTINYINT"}
  \cup Named({"UInt16"}) \X {"USMALLINT"}
  \cup Named({"UInt32"}) \X {"UINTEGER"}
  \cup Named({"UInt64"}) \X {"UBIGINT"}
  \cup Named({"Float16", "Float32"}) \X {"REAL"}
  \cup Named({"Float64"}) \X {"DOUBLE"}
  \cup Named({"TimestampMicrosecond"}) \X {"TIMESTAMP"}
  \cup Named(Timestamps \ {"TimestampMicrosecond"}) \X {"BIGINT"}
  \cup Named(Bytes) \X {"BLOB"}
  \cup Named(Text) \X {"VARCHAR"}

(* type_arrow_into_db; for decimals it is todo!(). *)
IntoDb ==
  Same
  \cup Named({"Date32", "Date64"}) \X {"DATE"}
  \cup Named(Time32s \cup Time64s) \X {"TIME"}
  \cup Named(Intervals) \X {"INTERVAL"}

(* ty_from_arrow of table_create; the other types are unimplemented!().     *)
Declares == Same

(* ConsumeTy for Vec<Value> *)
Consumes ==
  Named({"Null"}) \X {"Null"}
  \cup Named({"Boolean"}) \X {"Boolean"}
  \cup Named({"Int8"}) \X {"TinyInt"}
  \cup Named({"Int16"}) \X {"SmallInt"}
  \cup Named({"Int32"}) \X {"Int"}
  \cup Named({"Int64"} \cup (Timestamps \ {"TimestampMicrosecond"})) \X {"BigInt"}
  \cup Named({"UInt8"}) \X {"UTinyInt"}
  \cup Named({"UInt16"}) \X {"USmallInt"}
  \cup Named({"UInt32"}) \X {"UInt"}
  \cup Named({"UInt64"}) \X {"UBigInt"}
  \cup Named({"Float16", "Float32"}) \X {"Float"}
  \cup Named({"Float64"}) \X {"Double"}
  \cup Named({"TimestampMicrosecond"}) \X {"Timestamp"}
  \cup Named(Bytes) \X {"Blob"}
  \cup Named(Text) \X {"Text"}

(* The value of a column's cells, and the arrow type of a column in a       *)
(* result (external).                                                       *)
Columns ==
  { [ty |-> "BOOLEAN",   value |-> "Boolean",   arrow |-> "Boolean"],
    [ty |-> "TINYINT",   value |-> "TinyInt",   arrow |-> "Int8"],
    [ty |-> "SMALLINT",  value |-> "SmallInt",  arrow |-> "Int16"],
    [ty |-> "INTEGER",   value |-> "Int",       arrow |-> "Int32"],
    [ty |-> "BIGINT",    value |-> "BigInt",    arrow |-> "Int64"],
    [ty |-> "UTINYINT",  value |-> "UTinyInt",  arrow |-> "UInt8"],
    [ty |-> "USMALLINT", value |-> "USmallInt", arrow |-> "UInt16"],
    [ty |-> "UINTEGER",  value |-> "UInt",      arrow |-> "UInt32"],
    [ty |-> "UBIGINT",   value |-> "UBigInt",   arrow |-> "UInt64"],
    [ty |-> "REAL",      value |-> "Float",     arrow |-> "Float32"],
    [ty |-> "DOUBLE",    value |-> "Double",    arrow |-> "Float64"],
    [ty |-> "TIMESTAMP", value |-> "Timestamp", arrow |-> "TimestampMicrosecond"],
    [ty |-> "BLOB",      value |-> "Blob",      arrow |-> "Binary"],
    [ty |-> "VARCHAR",   value |-> "Text",      arrow |-> "Utf8"],
    [ty |-> "DATE",      value |-> "Date32",    arrow |-> "Date32"] }

(* A type the library does not declare. *)
Foreign == {"DATE"}

Yields == { <<c.ty, c.value>> : c \in Columns }
Reports == { <<c.ty, c.arrow>> : c \in Columns }

(* type_db_into_arrow; no query uses it. *)
FromDb ==
  { <<"BOOLEAN", "Boolean">>, <<"TINYINT", "Int8">>, <<"SMALLINT", "Int16">>,
    <<"INTEGER", "Int32">>, <<"BIGINT", "Int64">>, <<"UTINYINT", "UInt8">>,
    <<"USMALLINT", "UInt16">>, <<"UINTEGER", "UInt32">>, <<"UBIGINT", "UInt64">>,
    <<"REAL", "Float32">>, <<"DOUBLE", "Float64">>, <<"TIMESTAMP", "TimestampMicrosecond">>,
    <<"DATE", "Date64">>, <<"BLOB", "Binary">>, <<"VARCHAR", "Utf8">> }
=============================================================================
