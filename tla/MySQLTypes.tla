----------------------------- MODULE MySQLTypes -----------------------------
(***************************************************************************)
(* The type tables of the MySQL connector (mysql/mod.rs, append.rs,         *)
(* query.rs, types.rs, schema.rs), and what the server and its driver do    *)
(* with column types (external).  A cell is named by the variant of         *)
(* mysql::Value.  The words of a type's name are joined by an underscore.   *)
(***************************************************************************)
EXTENDS ArrowTypes

FixedSize(n) == [name |-> "FixedSizeBinary", p |-> n, s |-> 0]
ShortDecimals == { ty \in Named(DecimalNames) : ty.p <= 65 }

(* type_arrow_into_db, also used by table_create *)
IntoDb ==
  Named({"Null", "Boolean", "Int8"}) \X {"tinyint"}
  \cup Named({"Int16"}) \X {"smallint"}
  \cup Named({"Int32"}) \X {"integer"}
  \cup Named({"Int64"} \cup Timestamps) \X {"bigint"}
  \cup Named({"UInt8"}) \X {"tinyint_unsigned"}
  \cup Named({"UInt16"}) \X {"smallint_unsigned"}
  \cup Named({"UInt32"}) \X {"integer_unsigned"}
  \cup Named({"UInt64"}) \X {"bigint_unsigned"}
  \cup Named({"Float16", "Float32"}) \X {"float"}
  \cup Named({"Float64"}) \X {"double"}
  \cup (Named({"Binary"}) \cup {FixedSize(4)}) \X {"longblob"}
  \cup { <<FixedSize(1), "binary">>, <<FixedSize(2), "blob">>, <<FixedSize(3), "mediumblob">> }
  \cup ShortDecimals \X {"decimal"}
  \cup (Named(DecimalNames) \ ShortDecimals) \X {"text"}
  \cup Named({"Utf8"}) \X {"longtext"}

(* ConsumeTy for Vec<Value> *)
Consumes ==
  Named({"Null"}) \X {"NULL"}
  \cup Named({"Boolean", "Int8", "Int16", "Int32", "Int64"} \cup Timestamps) \X {"Int"}
  \cup Named({"UInt8", "UInt16", "UInt32", "UInt64"}) \X {"UInt"}
  \cup Named({"Float16", "Float32"}) \X {"Float"}
  \cup Named({"Float64"}) \X {"Double"}
  \cup Named({"Utf8"} \cup Bytes \cup DecimalNames) \X {"Bytes"}

(* The value a column's cells are sent and returned as (external).  The     *)
(* last types are those of tables that others have created.                 *)
Yields ==
  {"tinyint", "smallint", "integer", "bigint"} \X {"Int"}
  \cup {"tinyint_unsigned", "smallint_unsigned", "integer_unsigned", "bigint_unsigned"}
         \X {"UInt"}
  \cup { <<"float", "Float">>, <<"double", "Double">> }
  \cup {"longblob", "mediumblob", "blob", "binary", "decimal", "text", "longtext"} \X {"Bytes"}
  \cup { <<"datetime", "Date">>, <<"timestamp", "Date">>, <<"bit", "Bytes">>,
         <<"char", "Bytes">>, <<"varchar", "Bytes">>,
         <<"date", "Date">>, <<"time", "Time">>, <<"mediumint", "Int">>, <<"year", "Int">>,
         <<"varbinary", "Bytes">>, <<"json", "Bytes">> }

Foreign == {"datetime", "timestamp", "bit", "char", "varchar",
            "date", "time", "mediumint", "year", "varbinary", "json"}

(* get_name_of_column_type: the name of a result column's type, from what   *)
(* the server reports of it: all blobs, and all texts, are MYSQL_TYPE_BLOB. *)
QueryName ==
  [ ty \in Dom(Yields) |->
      CASE ty = "integer" -> "int"
        [] ty = "integer_unsigned" -> "int_unsigned"
        [] ty \in {"longblob", "mediumblob"} -> "blob"
        [] ty = "longtext" -> "text"
        [] ty = "decimal" -> "newdecimal"
        [] OTHER -> ty ]

(* What DESCRIBE calls it (external). *)
DescribeName ==
  [ ty \in Dom(Yields) |->
      CASE ty = "integer" -> "int"
        [] ty = "integer_unsigned" -> "int_unsigned"
        [] OTHER -> ty ]

\* Mutant: the unsigned types map to the signed ones.
SignedFromDbIntegers ==
  {"tinyint", "bool", "boolean", "tinyint_unsigned"} \X {"Int8"}
  \cup {"smallint", "smallint_unsigned"} \X {"Int16"}
  \cup {"integer", "int", "integer_unsigned", "int_unsigned"} \X {"Int32"}
  \cup {"bigint", "bigint_unsigned"} \X {"Int64"}

FromDbIntegers ==
  {"tinyint", "bool", "boolean"} \X {"Int8"}
  \cup {"smallint"} \X {"Int16"}
  \cup {"integer", "int"} \X {"Int32"}
  \cup {"bigint"} \X {"Int64"}
  \cup {"tinyint_unsigned"} \X {"UInt8"}
  \cup {"smallint_unsigned"} \X {"UInt16"}
  \cup {"integer_unsigned", "int_unsigned"} \X {"UInt32"}
  \cup {"bigint_unsigned"} \X {"UInt64"}

\* Mutant: mediumblob is forgotten.
FromDbBinaryNoMedium == {"bit", "tinyblob", "longblob", "blob", "binary"} \X {"Binary"}

FromDbBinary == {"bit", "tinyblob", "mediumblob", "longblob", "blob", "binary"} \X {"Binary"}

(* type_db_into_arrow *)
FromDb ==
  {"null"} \X {"Null"} \cup FromDbIntegers \cup FromDbBinary
  \cup {"real", "float", "float4"} \X {"Float32"}
  \cup {"double", "float8"} \X {"Float64"}
  \cup {"tinytext", "mediumtext", "longtext", "text", "varchar", "char",
        "decimal", "numeric", "newdecimal", "datetime", "timestamp"} \X {"Utf8"}

(* create_field: no field if the type is not known (todo!()).               *)
Fields(name, null) ==
  { [type |-> pair[2], metadata |-> "none", nullable |-> null] :
      pair \in { q \in FromDb : q[1] = name } }

(* ProduceTy for MySQLCellRef.  The driver converts between the integers;   *)
(* Utf8 is made of bytes and dates only.                                    *)
Produces ==
  {"Boolean", "Int8", "Int16", "Int32", "Int64", "UInt8", "UInt16", "UInt32", "UInt64"}
    \X {"Int", "UInt"}
  \cup { <<"Float32", "Float">>, <<"Float64", "Float">>, <<"Float64", "Double">>,
         <<"Binary", "Bytes">>, <<"Utf8", "Bytes">>, <<"Utf8", "Date">> }

(* The decimals the server can declare: a scale of at most 30 (external).   *)
Declarable == { ty \in Types : ty \in ShortDecimals => ty.s \in 0..30 /\ ty.s <= ty.p }
=============================================================================
