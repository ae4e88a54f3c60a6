----------------------------- MODULE ArrowTypes -----------------------------
(***************************************************************************)
(* The Arrow data types transport() can move (util/transport.rs, types.rs)  *)
(* and relations on them.  A type is a name with the parameters of a        *)
(* decimal (p, s) or the size of a fixed-size binary (p); time zones are    *)
(* left out, no conversion looks at them.  "List" stands for all nested and *)
(* view types.                                                              *)
(*                                                                         *)
(* A type table is a relation: a set of pairs, with at most one image.      *)
(***************************************************************************)
EXTENDS Integers, FiniteSets

CONSTANT Decimals   \* set of <<precision, scale>>

ASSUME DecimalsAssumption == Decimals \subseteq (1..76) \X (-128..127)

Timestamps == {"TimestampSecond", "TimestampMillisecond", "TimestampMicrosecond",
               "TimestampNanosecond"}
Time32s == {"Time32Second", "Time32Millisecond"}
Time64s == {"Time64Microsecond", "Time64Nanosecond"}
Durations == {"DurationSecond", "DurationMillisecond", "DurationMicrosecond",
              "DurationNanosecond"}
Intervals == {"IntervalYearMonth", "IntervalDayTime", "IntervalMonthDayNano"}
DecimalNames == {"Decimal128", "Decimal256"}
Nested == {"List"}

PlainNames ==
  {"Null", "Boolean", "Int8", "Int16", "Int32", "Int64", "UInt8", "UInt16", "UInt32",
   "UInt64", "Float16", "Float32", "Float64", "Date32", "Date64", "Binary", "LargeBinary",
   "Utf8", "LargeUtf8"}
  \cup Timestamps \cup Time32s \cup Time64s \cup Durations \cup Intervals \cup Nested

ArrowNames == PlainNames \cup DecimalNames \cup {"FixedSizeBinary"}

Types ==
  [name : PlainNames, p : {0}, s : {0}]
  \cup [name : {"FixedSizeBinary"}, p : 1..5, s : {0}]
  \cup { [name |-> n, p |-> d[1], s |-> d[2]] : n \in DecimalNames, d \in Decimals }

Named(names) == { ty \in Types : ty.name \in names }

(* impl_transport_match: the types with an arm of their own; the others end *)
(* in todo!().                                                              *)
Transported == ArrowNames \ Nested

Dom(R) == { pair[1] : pair \in R }
Lookup(R, x) == (CHOOSE pair \in R : pair[1] = x)[2]
IsTable(R) == Cardinality(Dom(R)) = Cardinality(R)

-----------------------------------------------------------------------------
(* The reference for a conversion without loss: every value of type `from`  *)
(* has an exact counterpart in type `to`.  Bits counts the value bits of an *)
(* integer, and of the mantissa of a float.                                 *)
SignedBits ==
  [Int8 |-> 7, Int16 |-> 15, Int32 |-> 31, Int64 |-> 63, Date32 |-> 31, Date64 |-> 63]

Signed == DOMAIN SignedBits \cup Timestamps \cup Time32s \cup Time64s \cup Durations
UnsignedBits == [Boolean |-> 1, UInt8 |-> 8, UInt16 |-> 16, UInt32 |-> 32, UInt64 |-> 64]
FloatBits == [Float16 |-> 11, Float32 |-> 24, Float64 |-> 53]

Bits(name) ==
  CASE name \in DOMAIN SignedBits -> SignedBits[name]
    [] name \in DOMAIN UnsignedBits -> UnsignedBits[name]
    [] name \in DOMAIN FloatBits -> FloatBits[name]
    [] name \in Time32s -> 31
    [] OTHER -> 63

Text == {"Utf8", "LargeUtf8"}
Bytes == {"Binary", "LargeBinary", "FixedSizeBinary"}
Whole == Signed \cup DOMAIN UnsignedBits

Lossless(from, to) ==
  \/ from \in {to, "Null"}
  \/ from \in Text /\ to \in Text
  \/ from \in Bytes /\ to \in Bytes
  \/ from \in Whole \cup DecimalNames /\ to \in Text
  \/ from \in DOMAIN FloatBits /\ to \in DOMAIN FloatBits /\ Bits(from) <= Bits(to)
  \/ from \in Signed /\ to \in Signed /\ Bits(from) <= Bits(to)
  \/ from \in DOMAIN UnsignedBits /\ to \in Whole /\ Bits(from) <= Bits(to)
=============================================================================
