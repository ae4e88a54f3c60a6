------------------------------ MODULE Decimal ------------------------------
(***************************************************************************)
(* The way of a decimal through a table and back.  A Decimal128 or          *)
(* Decimal256 value is an integer `data` and a scale; PostgreSQL takes and  *)
(* returns it in its binary numeric format (postgres/decimal.rs), SQLite as *)
(* text (util/decimal.rs), and both are queried as Utf8.  PostgreSQL also   *)
(* returns numbers that others have written.                                *)
(*                                                                         *)
(* Numbers are sequences of decimal digits, so nothing is bounded by the    *)
(* checker's integers; a group of the wire format is four digits.  i16 and  *)
(* usize arithmetic keeps its width, in a debug build (overflow panics) and *)
(* in a release build (it wraps around).                                    *)
(*                                                                         *)
(* The specification's names are its own (DecimalSpec, DecimalTypeOK), as   *)
(* PostgresProofs is about this module and PostgresAppend together.         *)
(***************************************************************************)
EXTENDS Integers, Sequences

CONSTANTS
  Builds,     \* subset of {"debug", "release"}
  Appended,   \* the decimals appended: records of neg, digits, scale
  Foreign,    \* numerics written by others: records of neg, digits, weight, dscale
  None

Digit == 0..9

(* The most digits behind the point that PostgreSQL stores (external). *)
MaxDscale == 16383

(* Without leading zeros; zero itself has no digits and no sign. *)
IsData(d) == d # <<>> => d[1] # 0

(* What the server stores: whole groups, neither the first nor the last of *)
(* them zero, and no digit behind the dscale-th after the point.           *)
ZeroGroup(d, k) == \A i \in 1..4 : d[4 * k + i] = 0
IsStored(n) ==
  /\ Len(n.digits) % 4 = 0
  /\ n.digits # <<>> => ~ZeroGroup(n.digits, 0) /\ ~ZeroGroup(n.digits, Len(n.digits) \div 4 - 1)
  /\ n.digits = <<>> => n.weight = 0 /\ ~n.neg
  /\ \A i \in 1..Len(n.digits) : i > 4 * (n.weight + 1) + n.dscale => n.digits[i] = 0

ASSUME DecimalAssumption ==
  /\ Builds \subseteq {"debug", "release"}
  /\ \A n \in Appended :
       /\ n.neg \in BOOLEAN /\ n.digits \in Seq(Digit)
       /\ n.scale \in Int /\ -128 <= n.scale /\ n.scale <= 127
       /\ Len(n.digits) <= 77       \* an i256
       /\ IsData(n.digits) /\ (n.neg => n.digits # <<>>)
  /\ \A n \in Foreign :
       /\ n.neg \in BOOLEAN /\ n.digits \in Seq(Digit)
       /\ n.weight \in Int /\ -32768 <= n.weight /\ n.weight <= 32767
       /\ n.dscale \in Nat /\ n.dscale <= MaxDscale
       /\ IsStored(n)

VARIABLES
  build,
  route,    \* "postgres", "sqlite" or "foreign": who wrote the number, and where
  number,   \* the decimal appended, None for a foreign number
  wire,     \* the number in numeric's binary format, on its way or stored
  text,     \* the number as text: SQLite's cell and the Utf8 value read
  phase

decimalVars == << build, route, number, wire, text, phase >>

DecimalInit ==
  /\ build \in Builds
  /\ text = None
  /\ \/ /\ route \in {"postgres", "sqlite"}
        /\ number \in Appended
        /\ wire = None
        /\ phase = "new"
     \/ /\ route = "foreign"
        /\ number = None
        /\ wire \in Foreign
        /\ phase = "stored"

-----------------------------------------------------------------------------
Zeros(n) == [i \in 1..n |-> 0]

\* Rust's / and % truncate towards zero.
Quotient(a, b) == IF a >= 0 THEN a \div b ELSE -((-a) \div b)
Remainder(a, b) == a - b * Quotient(a, b)

(* i128_to_sql, i256_to_sql: the fraction's last, incomplete group is taken *)
(* off first, then the rest in whole groups from the right.                 *)
ScaleOffset(scale) == Remainder(scale, 4)

\* Mutant: the incomplete group is not moved to its front.
FirstGroupUnscaled(d, offset) ==
  LET padded == Zeros(offset) \o d
  IN IF offset > 0
     THEN Zeros(4 - offset) \o SubSeq(padded, Len(padded) - offset + 1, Len(padded))
     ELSE <<>>

FirstGroup(d, offset) ==
  LET padded == Zeros(offset) \o d
  IN IF offset > 0
     THEN SubSeq(padded, Len(padded) - offset + 1, Len(padded)) \o Zeros(4 - offset)
     ELSE <<>>

OtherGroups(d, offset) ==
  LET rest == IF offset > 0 THEN SubSeq(d, 1, Len(d) - offset) ELSE d
  IN Zeros((4 - (Len(rest) % 4)) % 4) \o rest

\* Mutant: the incomplete group is not counted.
FirstWeightRounded(scale) == -((scale + 3) \div 4)

FirstWeight(scale) == Quotient(-scale, 4) - 1

ToSql(n) ==
  LET offset == ScaleOffset(n.scale)
      others == OtherGroups(n.digits, offset)
  IN [ neg    |-> n.neg,
       digits |-> others \o FirstGroup(n.digits, offset),
       weight |-> FirstWeight(n.scale) + Len(others) \div 4,
       dscale |-> n.scale ]

(* The server (external) refuses a negative dscale, and strips zero groups. *)
Accepts(w) == w.dscale >= 0

Normalised(w) ==
  LET kept == { k \in 0..(Len(w.digits) \div 4 - 1) : ~ZeroGroup(w.digits, k) }
      first == CHOOSE k \in kept : \A m \in kept : k <= m
      last == CHOOSE k \in kept : \A m \in kept : k >= m
  IN IF kept = {}
     THEN [neg |-> FALSE, digits |-> <<>>, weight |-> 0, dscale |-> w.dscale]
     ELSE [w EXCEPT !.digits = SubSeq(@, 4 * first + 1, 4 * last + 4),
                    !.weight = @ - first]

-----------------------------------------------------------------------------
(* from_sql *)

Int16(n) == ((n + 32768) % 65536) - 32768

(* dot: weight_first * 4 + 5 in i16, cast to usize.  A negative dot becomes *)
(* a number close to 2^64, and every use of it panics.                      *)
DotOverflows(w) == w.weight * 4 + 5 < -32768 \/ w.weight * 4 + 5 > 32767

\* Mutant: the point is put before the first group.
DotTooEarly(w) == Int16(w.weight * 4 + 1)

Dot(w) == Int16(w.weight * 4 + 5)

FromSqlPanics(w) == (build = "debug" /\ DotOverflows(w)) \/ Dot(w) < 0

(* The digits start with a zero, from splitting each group behind its third *)
(* digit, and are filled up with zeros to the end of the fraction.          *)
Buf(w) ==
  LET read == <<0>> \o w.digits
      frac_end == Dot(w) + w.dscale
  IN IF frac_end > Len(read) THEN read \o Zeros(frac_end - Len(read)) ELSE read

\* Mutant: leading zeros are kept.
IntStartFirst(buf, dot) == 1

IntStart(buf, dot) ==
  IF \A i \in 1..(dot - 1) : buf[i] = 0
  THEN dot
  ELSE CHOOSE i \in 1..(dot - 1) : buf[i] # 0 /\ \A j \in 1..(i - 1) : buf[j] = 0

FromSql(w) ==
  LET buf == Buf(w)
      dot == Dot(w)
  IN [ neg  |-> w.neg,
       int  |-> SubSeq(buf, IntStart(buf, dot), dot),
       frac |-> SubSeq(buf, dot + 1, dot + w.dscale) ]

(* decimal128_to_string, decimal256_to_string: insert_dot into the digits   *)
(* of `data`; a scale that is not positive is ignored.                      *)
DataDigits(n) == IF n.digits = <<>> THEN <<0>> ELSE n.digits

\* Mutant: a fraction as long as the digits gets no leading 0.
InsertDotTooLate(n) ==
  LET value == DataDigits(n)
      fracs == n.scale
  IN CASE fracs <= 0          -> [neg |-> n.neg, int |-> value, frac |-> <<>>]
       [] fracs > Len(value)  -> [neg |-> n.neg, int |-> <<0>>,
                                  frac |-> Zeros(fracs - Len(value)) \o value]
       [] OTHER               -> [neg |-> n.neg,
                                  int |-> SubSeq(value, 1, Len(value) - fracs),
                                  frac |-> SubSeq(value, Len(value) - fracs + 1, Len(value))]

InsertDot(n) ==
  LET value == DataDigits(n)
      fracs == n.scale
  IN CASE fracs <= 0          -> [neg |-> n.neg, int |-> value, frac |-> <<>>]
       [] fracs >= Len(value) -> [neg |-> n.neg, int |-> <<0>>,
                                  frac |-> Zeros(fracs - Len(value)) \o value]
       [] OTHER               -> [neg |-> n.neg,
                                  int |-> SubSeq(value, 1, Len(value) - fracs),
                                  frac |-> SubSeq(value, Len(value) - fracs + 1, Len(value))]

-----------------------------------------------------------------------------
(* append(): the value leaves in the wire format, or is stored as text. *)
AppendPostgres ==
  /\ phase = "new"
  /\ route = "postgres"
  /\ wire' = ToSql(number)
  /\ phase' = "sent"
  /\ UNCHANGED << build, route, number, text >>

AppendSQLite ==
  /\ phase = "new"
  /\ route = "sqlite"
  /\ text' = InsertDot(number)
  /\ phase' = "stored"
  /\ UNCHANGED << build, route, number, wire >>

(* The end of COPY (external). *)
Store ==
  /\ phase = "sent"
  /\ IF Accepts(wire)
     THEN wire' = Normalised(wire) /\ phase' = "stored"
     ELSE phase' = "refused" /\ UNCHANGED wire
  /\ UNCHANGED << build, route, number, text >>

(* produce() of the queried cell *)
QueryPostgres ==
  /\ phase = "stored"
  /\ route # "sqlite"
  /\ IF FromSqlPanics(wire)
     THEN phase' = "panicked" /\ UNCHANGED text
     ELSE text' = FromSql(wire) /\ phase' = "read"
  /\ UNCHANGED << build, route, number, wire >>

QuerySQLite ==
  /\ phase = "stored"
  /\ route = "sqlite"
  /\ phase' = "read"
  /\ UNCHANGED << build, route, number, wire, text >>

DecimalNext ==
  \/ AppendPostgres
  \/ AppendSQLite
  \/ Store
  \/ QueryPostgres
  \/ QuerySQLite

DecimalSpec == DecimalInit /\ [][DecimalNext]_decimalVars

-----------------------------------------------------------------------------
(* The reference: what a number is as text.  `point` digits of it come      *)
(* before the decimal point, and there are zeros on both sides of them.     *)
Text(neg, digits, point, scale) ==
  LET digit(i) == IF i \in 1..Len(digits) THEN digits[i] ELSE 0
      first == IF digits = <<>> THEN point
               ELSE CHOOSE i \in 1..Len(digits) :
                      digits[i] # 0 /\ \A j \in 1..(i - 1) : digits[j] = 0
      start == IF first < point THEN first ELSE point
  IN [ neg  |-> neg,
       int  |-> IF point < 1 THEN <<0>>
                ELSE [i \in 1..(point - start + 1) |-> digit(start + i - 1)],
       frac |-> [i \in 1..scale |-> digit(point + i)] ]

(* Every variable has its type, and a stored numeric is one the server keeps.*)
DecimalTypeOK ==
  /\ build \in Builds
  /\ route \in {"postgres", "sqlite", "foreign"}
  /\ number \in Appended \cup {None}
  /\ phase \in {"new", "sent", "stored", "refused", "read", "panicked"}
  /\ phase \in {"stored", "read"} /\ route # "sqlite" => IsStored(wire)
  /\ phase = "read" => text.neg \in BOOLEAN /\ text.int \in Seq(Digit) /\ text.frac \in Seq(Digit)

(* A decimal with a scale of zero or more that was appended and is read     *)
(* back has every digit it had, and its fraction has `scale` digits: the    *)
(* encoding, the server's normal form and the decoding (or SQLite's text)   *)
(* agree for all numbers, on group boundaries and off them.                 *)
AppendedIsReadBack ==
  phase = "read" /\ route # "foreign" /\ number.scale >= 0 =>
    text = Text(number.neg, number.digits, Len(number.digits) - number.scale, number.scale)

(* A number that another program stored is read as it is, but for one of    *)
(* 65533 digits or more before the point in a release build: `dot` wraps    *)
(* around to a positive number again, and a part of the digits is read.     *)
ForeignIsRead ==
  phase = "read" /\ route = "foreign" /\ (build = "debug" \/ 4 * (wire.weight + 1) <= 65532) =>
    text = Text(wire.neg, wire.digits, 4 * (wire.weight + 1), wire.dscale)

(* Reading panics only for numbers smaller than 10^-4 (but not zero) and    *)
(* for numbers of more than 32764 digits before the point.                  *)
PanicsOnlyAtEdges ==
  phase = "panicked" =>
    /\ wire.digits # <<>>
    /\ 4 * (wire.weight + 1) < 0 \/ 4 * (wire.weight + 1) > 32764

(* README.md:77: "guarantee that the roundtrip will not lose information":  *)
(* a decimal that PostgreSQL stored can be read back.                       *)
AppendedCanBeRead == route = "postgres" => phase # "panicked"

(* Nothing is lost between writing and reading, by the library or by others.*)
ReadAsWritten == AppendedIsReadBack /\ ForeignIsRead
=============================================================================
