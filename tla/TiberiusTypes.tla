--------------------------- MODULE TiberiusTypes ---------------------------
(***************************************************************************)
(* The type tables of the SQL Server connector (tiberius/mod.rs, append.rs, *)
(* query.rs, types.rs, schema.rs), and what the server and its driver do    *)
(* with column types (external).  A cell is named by the variant of         *)
(* ColumnData, and so is a null: float24 and float53 are float(24) and      *)
(* float(53).                                                               *)
(***************************************************************************)
EXTENDS ArrowTypes

can_decimal_fit_in_numeric(p, s) == p < 38 /\ s >= 0 /\ p >= s

Fitting == { ty \in Named(DecimalNames) : can_decimal_fit_in_numeric(ty.p, ty.s) }

(* type_arrow_into_db, also used by table_create *)
IntoDb ==
  Named({"Null", "UInt8"}) \X {"tinyint"}
  \cup Named({"Boolean"}) \X {"bit"}
  \cup Named({"Int8", "Int16"}) \X {"smallint"}
  \cup Named({"Int32", "UInt16"}) \X {"int"}
  \cup Named({"Int64", "UInt32"} \cup Timestamps) \X {"bigint"}
  \cup Named({"UInt64"}) \X {"decimal"}
  \cup Named({"Float16", "Float32"}) \X {"float24"}
  \cup Named({"Float64"}) \X {"float53"}
  \cup Named(Text) \X {"nvarchar"}
  \cup Fitting \X {"numeric"}
  \cup (Named(DecimalNames) \ Fitting) \X {"nvarchar"}

\* Mutant: Int8 is sent as an unsigned byte.
ConsumesInt8AsU8 ==
  Named({"Null", "UInt8", "Int8"}) \X {"U8"}
  \cup Named({"Boolean"}) \X {"Bit"}
  \cup Named({"Int16"}) \X {"I16"}
  \cup Named({"Int32", "UInt16"}) \X {"I32"}
  \cup Named({"Int64", "UInt32"} \cup Timestamps) \X {"I64"}

ConsumesIntegers ==
  Named({"Null", "UInt8"}) \X {"U8"}
  \cup Named({"Boolean"}) \X {"Bit"}
  \cup Named({"Int8", "Int16"}) \X {"I16"}
  \cup Named({"Int32", "UInt16"}) \X {"I32"}
  \cup Named({"Int64", "UInt32"} \cup Timestamps) \X {"I64"}

(* ConsumeTy for Vec<ColumnData> *)
Consumes ==
  ConsumesIntegers
  \cup (Named({"UInt64"}) \cup Fitting) \X {"Numeric"}
  \cup Named({"Float16", "Float32"}) \X {"F32"}
  \cup Named({"Float64"}) \X {"F64"}
  \cup (Named(Text) \cup (Named(DecimalNames) \ Fitting)) \X {"String"}

(* The value a bulk load takes and a query returns for a column (external). *)
(* The last types are those of tables that others have created.             *)
Yields ==
  { <<"tinyint", "U8">>, <<"bit", "Bit">>, <<"smallint", "I16">>, <<"int", "I32">>,
    <<"bigint", "I64">>, <<"decimal", "Numeric">>, <<"numeric", "Numeric">>,
    <<"float24", "F32">>, <<"float53", "F64">>, <<"nvarchar", "String">>,
    <<"nchar", "String">>, <<"ntext", "String">>,
    <<"uniqueidentifier", "Guid">>, <<"datetime2", "DateTime2">>, <<"varbinary", "Binary">> }

Foreign == {"nchar", "ntext", "uniqueidentifier", "datetime2", "varbinary"}

(* get_name_of_column_type *)
QueryName ==
  [ ty \in Dom(Yields) |->
      CASE ty = "numeric" -> "decimal"
        [] ty = "uniqueidentifier" -> "guid"
        [] ty = "varbinary" -> "bigvarbin"
        [] OTHER -> ty ]

(* DATA_TYPE of INFORMATION_SCHEMA.COLUMNS (external); float(24) is a real. *)
DescribeName == [ ty \in Dom(Yields) |-> IF ty = "float24" THEN "real" ELSE ty ]

(* type_db_into_arrow; of an argument only float's matters. *)
FromDb ==
  {"null", "intn"} \X {"Null"}
  \cup { <<"bit", "Boolean">>, <<"tinyint", "UInt8">>, <<"smallint", "Int16">>,
         <<"int", "Int32">>, <<"bigint", "Int64">> }
  \cup {"char", "nchar", "varchar", "nvarchar", "text", "ntext", "decimal", "numeric"}
         \X {"Utf8"}
  \cup {"real", "float24"} \X {"Float32"}
  \cup {"float", "float53"} \X {"Float64"}

(* ProduceTy for TiberiusCellRef *)
Produces ==
  { <<"Boolean", "Bit">>, <<"Int16", "I16">>, <<"Int32", "I32">>, <<"Int64", "I64">>,
    <<"UInt8", "U8">>, <<"Float32", "F32">>, <<"Float64", "F64">>, <<"Utf8", "String">>,
    <<"Utf8", "Numeric">>, <<"LargeUtf8", "String">> }

(* create_field: an unknown type becomes Binary.  Its name is put into      *)
(* metadata that the field is not given.                                    *)
Field(name, null) ==
  [ type |-> IF name \in Dom(FromDb) THEN Lookup(FromDb, name) ELSE "Binary",
    metadata |-> "none", nullable |-> null ]

(* The decimals the server can declare (external). *)
Declarable == { ty \in Types : ty \in Fitting => ty.p \in 1..38 /\ ty.s \in 0..ty.p }
=============================================================================
