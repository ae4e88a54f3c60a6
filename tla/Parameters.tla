----------------------------- MODULE Parameters -----------------------------
(***************************************************************************)
(* The parameters of a statement (params.rs): Rust values that become a     *)
(* record batch of one row.  A plain value (a bool, an i32, a String) has   *)
(* the arrow type of its Rust type; a pair of a DataType and a value has    *)
(* whatever type it says.  ProduceTy takes the value out of the pair with a *)
(* downcast to the native type of the arrow type (types.rs), which panics   *)
(* if the value is another.                                                 *)
(***************************************************************************)
EXTENDS ArrowTypes

(* ArrowType::Native *)
Native ==
  [ name \in ArrowNames |->
      CASE name = "Boolean" -> "bool"
        [] name = "Int8" -> "i8"   [] name = "Int16" -> "i16"
        [] name = "UInt8" -> "u8"  [] name = "UInt16" -> "u16"
        [] name = "UInt32" -> "u32" [] name = "UInt64" -> "u64"
        [] name = "Float32" -> "f32" [] name = "Float64" -> "f64"
        [] name \in {"Int32", "Date32", "IntervalYearMonth"} \cup Time32s -> "i32"
        [] name \in {"Int64", "Date64"} \cup Timestamps \cup Time64s \cup Durations -> "i64"
        [] name \in {"IntervalDayTime", "IntervalMonthDayNano"} -> name
        [] name = "Decimal128" -> "i128" [] name = "Decimal256" -> "i256"
        [] name \in Text -> "String"
        [] name \in Bytes -> "Vec<u8>"
        [] name = "Float16" -> "f16"
        [] OTHER -> "()" ]

(* impl_arrow_value_plain *)
Plains ==
  { <<"bool", "Boolean">>, <<"i8", "Int8">>, <<"i16", "Int16">>, <<"i32", "Int32">>,
    <<"i64", "Int64">>, <<"u8", "UInt8">>, <<"u16", "UInt16">>, <<"u32", "UInt32">>,
    <<"u64", "UInt64">>, <<"f32", "Float32">>, <<"f64", "Float64">>,
    <<"Vec<u8>", "Binary">>, <<"String", "Utf8">> }

\* Mutant: durations are forgotten.
PairsNoDurations ==
  {"i32"} \X ({"Date32", "IntervalYearMonth"} \cup Time32s)
  \cup {"i64"} \X ({"Date64"} \cup Timestamps \cup Time64s)
  \cup { <<"IntervalDayTime", "IntervalDayTime">>,
         <<"IntervalMonthDayNano", "IntervalMonthDayNano">>,
         <<"i128", "Decimal128">>, <<"i256", "Decimal256">>, <<"String", "LargeUtf8">> }
  \cup {"Vec<u8>"} \X {"LargeBinary", "FixedSizeBinary"}

(* impl_arrow_value_tuple: the types a pair's value can be produced as *)
Pairs ==
  {"i32"} \X ({"Date32", "IntervalYearMonth"} \cup Time32s)
  \cup {"i64"} \X ({"Date64"} \cup Timestamps \cup Time64s \cup Durations)
  \cup { <<"IntervalDayTime", "IntervalDayTime">>,
         <<"IntervalMonthDayNano", "IntervalMonthDayNano">>,
         <<"i128", "Decimal128">>, <<"i256", "Decimal256">>, <<"String", "LargeUtf8">> }
  \cup {"Vec<u8>"} \X {"LargeBinary", "FixedSizeBinary"}

Natives == Dom(Plains) \cup Dom(Pairs)

(* The values a caller can write down for a type: its own plain value, or a *)
(* pair, whose two halves nothing ties together.  exact is whether a        *)
(* Vec<u8> has the length of a FixedSizeBinary.                             *)
Written(type, native) == <<native, type>> \in Plains \/ native \in Dom(Pairs)

(* vec_to_record_batch returns a batch: there is an implementation of       *)
(* ProduceTy for the type, its downcast succeeds, and so does append_value  *)
(* of the row writer.                                                       *)
vec_to_record_batch(type, native, exact) ==
  /\ <<native, type>> \in Plains \cup Pairs
  /\ type = "FixedSizeBinary" => exact
=============================================================================
