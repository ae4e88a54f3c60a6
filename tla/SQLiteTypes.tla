---------------------------- MODULE SQLiteTypes ----------------------------
(***************************************************************************)
(* The type tables of the SQLite connector (sqlite/mod.rs, append.rs,       *)
(* query.rs, types.rs, schema.rs).  SQLite's columns take values of every   *)
(* kind; a cell is named by the kind of its value (rusqlite's Type).        *)
(***************************************************************************)
EXTENDS ArrowTypes

(* type_arrow_into_db *)
IntoDb ==
  Named({"Null"}) \X {"NULL"}
  \cup Named({"Boolean", "Int8", "Int16", "Int32", "Int64", "UInt8", "UInt16", "UInt32",
              "Date32", "Date64"} \cup Timestamps \cup Time32s \cup Time64s \cup Durations)
         \X {"INTEGER"}
  \cup Named({"Float16", "Float32", "Float64"}) \X {"REAL"}
  \cup Named({"UInt64"} \cup DecimalNames \cup Text) \X {"TEXT"}
  \cup Named(Bytes) \X {"BLOB"}

(* table_create: a type that is not supported is left out of the column's   *)
(* definition (unwrap_or_default).                                          *)
Declares == IntoDb \cup (Types \ Dom(IntoDb)) \X {"untyped"}

\* Mutant: UInt64 is stored as an integer.
ConsumesUInt64 ==
  Named({"Null"}) \X {"NULL"}
  \cup Named({"Boolean", "Int8", "Int16", "Int32", "Int64", "UInt8", "UInt16", "UInt32",
              "UInt64", "Date32", "Date64"} \cup Timestamps \cup Time32s \cup Time64s
             \cup Durations)
         \X {"INTEGER"}
  \cup Named({"Float16", "Float32", "Float64"}) \X {"REAL"}
  \cup Named(DecimalNames \cup Text) \X {"TEXT"}
  \cup Named(Bytes) \X {"BLOB"}

(* ConsumeTy for Vec<Value> *)
Consumes ==
  Named({"Null"}) \X {"NULL"}
  \cup Named({"Boolean", "Int8", "Int16", "Int32", "Int64", "UInt8", "UInt16", "UInt32",
              "Date32", "Date64"} \cup Timestamps \cup Time32s \cup Time64s \cup Durations)
         \X {"INTEGER"}
  \cup Named({"Float16", "Float32", "Float64"}) \X {"REAL"}
  \cup Named({"UInt64"} \cup DecimalNames \cup Text) \X {"TEXT"}
  \cup Named(Bytes) \X {"BLOB"}

(* type_db_into_arrow *)
FromDb ==
  { <<"NULL", "Null">>, <<"INTEGER", "Int64">>, <<"REAL", "Float64">>, <<"TEXT", "Utf8">>,
    <<"BLOB", "Binary">> }

(* ProduceTy for Value *)
Produces ==
  { <<"Int64", "INTEGER">>, <<"Float64", "REAL">>, <<"Utf8", "TEXT">>, <<"Binary", "BLOB">> }

(* infer_schema for one column: the kind of its first value that is not     *)
(* null, Null if there is none.                                             *)
Infer(cells) ==
  LET known == { i \in DOMAIN cells : cells[i] # "NULL" }
      first == CHOOSE i \in known : \A j \in known : i <= j
  IN IF known = {} THEN "Null" ELSE Lookup(FromDb, cells[first])

(* decl_ty_to_arrow on the declared types above; a type outside the table   *)
(* has numeric affinity, which is an error (IncompatibleSchema).            *)
DeclTyToArrow ==
  { <<"INTEGER", "Int64">>, <<"TEXT", "LargeUtf8">>, <<"BLOB", "LargeBinary">>,
    <<"REAL", "Float64">> }
=============================================================================
