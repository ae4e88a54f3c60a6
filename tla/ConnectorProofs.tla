-------------------------- MODULE ConnectorProofs --------------------------
(***************************************************************************)
(* Theorems about Roundtrip, a column in each of the five connectors, for   *)
(* every set of decimals and any number of cells, and at the end about      *)
(* DuckDBAppend, for every flush count, batch and table.                    *)
(***************************************************************************)
EXTENDS Roundtrip, DuckDBAppend, FunctionTheorems, FiniteSetTheorems, SequenceTheorems,
        WellFoundedInduction, TLAPS

(* R has one image for everything it is asked for. *)
Functional(R) ==
  /\ \A pair \in R : pair = <<pair[1], pair[2]>>
  /\ \A x, y, z : <<x, y>> \in R /\ <<x, z>> \in R => y = z

-----------------------------------------------------------------------------
(* Relations *)

LEMMA InDom ==
  ASSUME NEW R, NEW x, NEW y, <<x, y>> \in R
  PROVE  x \in Dom(R)
<1>1. <<x, y>>[1] = x
  OBVIOUS
<1> QED
  BY <1>1 DEF Dom

LEMMA LookupIn ==
  ASSUME NEW R, Functional(R), NEW x \in Dom(R)
  PROVE  <<x, Lookup(R, x)>> \in R
<1>1. PICK c : c = CHOOSE pair \in R : pair[1] = x
  OBVIOUS
<1>2. \E pair \in R : pair[1] = x
  BY DEF Dom
<1>3. c \in R /\ c[1] = x
  BY <1>1, <1>2, Zenon
<1>4. c = <<x, c[2]>>
  BY <1>3 DEF Functional
<1> QED
  BY <1>1, <1>3, <1>4 DEF Lookup

LEMMA LookupIs ==
  ASSUME NEW R, Functional(R), NEW x, NEW y, <<x, y>> \in R
  PROVE  x \in Dom(R) /\ Lookup(R, x) = y
<1>1. x \in Dom(R)
  BY InDom
<1> QED
  BY <1>1, LookupIn DEF Functional

(* A functional relation of finitely many has as many pairs as elements. *)
LEMMA FunctionalTable ==
  ASSUME NEW R, Functional(R), IsFiniteSet(Dom(R))
  PROVE  IsTable(R)
<1> DEFINE f == [x \in Dom(R) |-> <<x, Lookup(R, x)>>]
<1>1. f \in [Dom(R) -> R]
  BY LookupIn
<1>2. \A x, y \in Dom(R) : f[x] = f[y] => x = y
  OBVIOUS
<1>3. \A pair \in R : pair[1] \in Dom(R) /\ f[pair[1]] = pair
  <2> SUFFICES ASSUME NEW pair \in R
               PROVE  pair[1] \in Dom(R) /\ f[pair[1]] = pair
    OBVIOUS
  <2>1. pair = <<pair[1], pair[2]>>
    BY DEF Functional
  <2>2. pair[1] \in Dom(R) /\ Lookup(R, pair[1]) = pair[2]
    BY <2>1, LookupIs
  <2> QED
    BY <2>1, <2>2
<1>4. f \in Bijection(Dom(R), R)
  BY <1>1, <1>2, <1>3, Fun_IsBij
<1>5. ExistsBijection(Dom(R), R)
  BY <1>4 DEF ExistsBijection
<1> QED
  BY <1>5, FS_Bijection DEF IsTable

(* A set of no more than six elements is finite. *)
LEMMA SixAreFinite ==
  ASSUME NEW a, NEW b, NEW c, NEW d, NEW e, NEW f
  PROVE  IsFiniteSet({a, b, c, d, e, f})
<1>1. IsFiniteSet({a})
  BY FS_Singleton
<1>2. IsFiniteSet({a} \cup {b})
  BY <1>1, FS_AddElement
<1>3. IsFiniteSet(({a} \cup {b}) \cup {c})
  BY <1>2, FS_AddElement
<1>4. IsFiniteSet((({a} \cup {b}) \cup {c}) \cup {d})
  BY <1>3, FS_AddElement
<1>5. IsFiniteSet(((({a} \cup {b}) \cup {c}) \cup {d}) \cup {e})
  BY <1>4, FS_AddElement
<1>6. IsFiniteSet((((({a} \cup {b}) \cup {c}) \cup {d}) \cup {e}) \cup {f})
  BY <1>5, FS_AddElement
<1>7. {a, b, c, d, e, f} = (((({a} \cup {b}) \cup {c}) \cup {d}) \cup {e}) \cup {f}
  OBVIOUS
<1> QED
  BY <1>6, <1>7

-----------------------------------------------------------------------------
(* The connectors' modules have names for the arrow types of their own. *)
LEMMA SameNames ==
  /\ P!Types = Types /\ P!Text = Text /\ P!Bytes = Bytes /\ P!Timestamps = Timestamps
  /\ P!Time32s = Time32s /\ P!Time64s = Time64s /\ P!Durations = Durations
  /\ P!DecimalNames = DecimalNames
  /\ S!Types = Types /\ S!Text = Text /\ S!Bytes = Bytes /\ S!Timestamps = Timestamps
  /\ S!Time32s = Time32s /\ S!Time64s = Time64s /\ S!Durations = Durations
  /\ S!DecimalNames = DecimalNames
  /\ M!Types = Types /\ M!Bytes = Bytes /\ M!Timestamps = Timestamps
  /\ M!DecimalNames = DecimalNames
  /\ D!Types = Types /\ D!Text = Text /\ D!Bytes = Bytes /\ D!Timestamps = Timestamps
  /\ D!Time32s = Time32s /\ D!Time64s = Time64s /\ D!Intervals = Intervals
  /\ T!Types = Types /\ T!Text = Text /\ T!Timestamps = Timestamps
  /\ T!DecimalNames = DecimalNames
  BY DEF Types, Text, Bytes, PlainNames, Timestamps, Time32s, Time64s, Durations, Intervals,
         DecimalNames, Nested,
         P!Types, P!Text, P!Bytes, P!PlainNames, P!Timestamps, P!Time32s, P!Time64s,
         P!Durations, P!Intervals, P!DecimalNames, P!Nested,
         S!Types, S!Text, S!Bytes, S!PlainNames, S!Timestamps, S!Time32s, S!Time64s,
         S!Durations, S!Intervals, S!DecimalNames, S!Nested,
         M!Types, M!Bytes, M!PlainNames, M!Timestamps, M!Time32s, M!Time64s,
         M!Durations, M!Intervals, M!DecimalNames, M!Nested,
         D!Types, D!Text, D!Bytes, D!PlainNames, D!Timestamps, D!Time32s, D!Time64s,
         D!Durations, D!Intervals, D!DecimalNames, D!Nested,
         T!Types, T!Text, T!PlainNames, T!Timestamps, T!Time32s, T!Time64s,
         T!Durations, T!Intervals, T!DecimalNames, T!Nested

LEMMA SameOperators ==
  /\ \A names : /\ P!Named(names) = Named(names) /\ S!Named(names) = Named(names)
                /\ M!Named(names) = Named(names) /\ D!Named(names) = Named(names)
                /\ T!Named(names) = Named(names)
  /\ \A R : /\ P!Dom(R) = Dom(R) /\ S!Dom(R) = Dom(R) /\ M!Dom(R) = Dom(R)
            /\ D!Dom(R) = Dom(R) /\ T!Dom(R) = Dom(R)
  /\ \A R, x : /\ P!Lookup(R, x) = Lookup(R, x) /\ S!Lookup(R, x) = Lookup(R, x)
               /\ T!Lookup(R, x) = Lookup(R, x)
  BY SameNames DEF Named, P!Named, S!Named, M!Named, D!Named, T!Named,
                   Dom, P!Dom, S!Dom, M!Dom, D!Dom, T!Dom, Lookup, P!Lookup, S!Lookup, T!Lookup

-----------------------------------------------------------------------------
(* The inductive invariant: how far the column has come, what its cells are, *)
(* and why a call has failed.                                               *)

(* What the caller may append is a null where the field allows one.         *)
MayAppend(null) ==
  /\ null => nullable \/ ty.name = "Null"
  /\ ty.name = "Null" => null

(* The server can declare the type. *)
CanDeclare ==
  /\ db = "mysql" => ty \in M!Declarable
  /\ db = "tiberius" => ty \in T!Declarable

Fresh ==
  /\ declared = "untyped" /\ not_null = FALSE /\ cells = <<>>
  /\ queried = NoField /\ described = NoField /\ parameter = NoParameter

Created ==
  /\ ty \in Declared[db] /\ CanDeclare
  /\ declared = Lookup(Declares[db], ty)
  /\ not_null = (~nullable /\ (db = "sqlite" \/ ty.name # "Null"))

(* The column is in the table: it was created, or is someone else's. *)
Made ==
  \/ ty \in Types /\ Created
  \/ ty = NoType /\ declared \in Foreign[db] /\ not_null = FALSE

ColumnInv ==
  /\ db \in Dbs /\ nullable \in BOOLEAN /\ not_null \in BOOLEAN
  /\ parameter \in [native : Natives, exact : BOOLEAN] \cup {NoParameter}
  /\ \/ phase \in {"new", "refused", "panicked"} /\ ty \in Types /\ Fresh
     \/ phase \in {"open", "refused", "panicked", "unreadable"} /\ Made

AppendedKinds(d) == { Lookup(Consumes[d], t) : t \in Types }
ForeignKinds(d) == { Lookup(Yields[d], name) : name \in Foreign[d] }
Kinds == {"NULL"} \cup UNION { AppendedKinds(d) \cup ForeignKinds(d) : d \in Dbs }

CellsInv ==
  /\ cells \in Seq(Kinds) /\ Len(cells) <= MaxCells
  /\ ty \in Types => \A i \in DOMAIN cells :
       \E null \in BOOLEAN :
         /\ MayAppend(null) /\ Sent(null) /\ Fits(null)
         /\ cells[i] = IF null THEN "NULL" ELSE Lookup(Consumes[db], ty)
  /\ ty = NoType => \A i \in DOMAIN cells : cells[i] \in {"NULL", Lookup(Yields[db], declared)}

(* The numbers that PostgreSQL cannot read back and SQLite stores wrongly.  *)
EdgeInv ==
  /\ edge \in BOOLEAN /\ altered \in BOOLEAN
  /\ edge => db = "postgres" /\ (ty \in Types => ty.name \in DecimalNames /\ ty.s > 4)
  /\ altered => db = "sqlite" /\ ty.s < 0

ResultInv ==
  /\ queried # NoField => Made /\ queried \in ResultFields /\ phase # "refused"
  /\ phase = "unreadable" <=> queried # NoField /\ ~Readable(queried.type)
  /\ described # NoField => Made /\ described \in DescribedFields

FailInv ==
  /\ phase = "panicked" =>
       \/ ty \in Types /\ Fresh /\ ty \notin Declared[db]
       \/ /\ ty \in Types /\ Created /\ queried = NoField
          /\ \E null \in BOOLEAN : MayAppend(null) /\ ~Sent(null)
       \/ /\ ty \in Types /\ Created /\ queried = NoField /\ MayAppend(FALSE)
          /\ \E native \in Natives, exact \in BOOLEAN :
               /\ parameter = [native |-> native, exact |-> exact]
               /\ ~Takes(native, exact) \/ (db # "mysql" /\ ~Sent(FALSE))
       \/ Made /\ ResultFields = {} /\ queried = NoField
       \/ Made /\ DescribedFields = {}
  /\ phase = "refused" =>
       \/ ty \in Types /\ Fresh /\ ty \in Declared[db] /\ ~CanDeclare
       \/ /\ ty \in Types /\ Created
          /\ \E null \in BOOLEAN : MayAppend(null) /\ ~Fits(null)
       \/ /\ ty \in Types /\ Created /\ MayAppend(FALSE)
          /\ \E native \in Natives, exact \in BOOLEAN :
               /\ parameter = [native |-> native, exact |-> exact]
               /\ db = "mysql" \/ ~Fits(FALSE)

RoundtripInv == ColumnInv /\ CellsInv /\ EdgeInv /\ ResultInv /\ FailInv

-----------------------------------------------------------------------------
(* The arrow types *)

LEMMA TypesAreNamed ==
  /\ \A t \in Types : t.name \in ArrowNames /\ t # NoType
  /\ "none" \notin ArrowNames
<1>1. "none" \notin ArrowNames
  BY DEF ArrowNames, PlainNames, Timestamps, Time32s, Time64s, Durations, Intervals,
         Nested, DecimalNames
<1>2. \A t \in Types : t.name \in ArrowNames
  BY DEF Types, ArrowNames
<1> QED
  BY <1>1, <1>2 DEF NoType

-----------------------------------------------------------------------------
(* What does not depend on how far the column has come. *)
LEMMA SameColumn ==
  ASSUME UNCHANGED <<db, ty, nullable, declared, not_null>>
  PROVE  /\ \A null \in BOOLEAN : /\ MayAppend(null)' <=> MayAppend(null)
                                  /\ Sent(null)' <=> Sent(null)
                                  /\ Fits(null)' <=> Fits(null)
         /\ \A native, exact : Takes(native, exact)' <=> Takes(native, exact)
         /\ CanDeclare' <=> CanDeclare
         /\ Created' <=> Created
         /\ Made' <=> Made
         /\ DescribedFields' = DescribedFields
<1>1. \A null \in BOOLEAN : MayAppend(null)' <=> MayAppend(null)
  BY DEF MayAppend
<1>2. \A null \in BOOLEAN : Sent(null)' <=> Sent(null)
  BY DEF Sent
<1>3. \A null \in BOOLEAN : Fits(null)' <=> Fits(null)
  BY DEF Fits
<1>4. \A native, exact : Takes(native, exact)' <=> Takes(native, exact)
  BY DEF Takes
<1>5. CanDeclare' <=> CanDeclare
  BY DEF CanDeclare
<1>6. Created' <=> Created
  BY <1>5 DEF Created
<1>7. Made' <=> Made
  BY <1>6 DEF Made
<1>8. DescribedFields' = DescribedFields
  BY DEF DescribedFields
<1> QED
  BY <1>1, <1>2, <1>3, <1>4, <1>5, <1>6, <1>7, <1>8

LEMMA SameResult ==
  ASSUME UNCHANGED column
  PROVE  /\ ResultFields' = ResultFields
         /\ \A type : Readable(type)' <=> Readable(type)
<1>1. ResultFields' = ResultFields
  BY DEF column, ResultFields
<1>2. \A type : Readable(type)' <=> Readable(type)
  BY DEF column, Readable
<1> QED
  BY <1>1, <1>2

(* A column or a cell that is not touched is still what it was. *)
LEMMA SameCells ==
  ASSUME CellsInv, UNCHANGED column
  PROVE  CellsInv'
<1>1. UNCHANGED <<db, ty, nullable, declared, not_null>> /\ cells' = cells
  BY DEF column
<1> QED
  BY <1>1, SameColumn DEF CellsInv

LEMMA SameEdge ==
  ASSUME EdgeInv, UNCHANGED column
  PROVE  EdgeInv'
  BY DEF column, EdgeInv

-----------------------------------------------------------------------------
(* The raw bytes of a type that arrow does not know. *)
BinaryOf(name) == [type |-> "Binary", metadata |-> name, nullable |-> TRUE]

(* What the connectors' tables have to say of a column that has been made:  *)
(* the fields of its queries,                                               *)
ResultsGood ==
  \A field \in ResultFields :
    /\ field.type \in ArrowNames
    /\ ty \in Types \/ db = "postgres" => (Readable(field.type) <=> ~edge)
    /\ ty \in Types /\ HasValue => Lossless(ty.name, field.type)
    /\ ty \in Types /\ ty \in Supported[db] /\ (db # "sqlite" \/ HasValue) =>
         field \in Coerced(Override)
    /\ ty = NoType /\ declared \in Dom(FromDb[db]) /\ <<db, declared>> # <<"duckdb", "DATE">> =>
         <<declared, field.type>> \in FromDb[db]
    /\ ty = NoType /\ declared \notin Dom(FromDb[db]) =>
         /\ db \in {"postgres", "tiberius"}
         /\ db = "postgres" => field = BinaryOf(declared)
         /\ db = "tiberius" => /\ field = Plain("Binary", TRUE)
                               /\ Readable(field.type) <=> cells = <<>>

(* and of table_get,                                                        *)
DescribedGood ==
  /\ ResultFields # {} => DescribedFields # {}
  /\ \A field \in DescribedFields :
       /\ field \in Errors \/ field.type \in ArrowNames
       /\ field.nullable \/ not_null
       /\ db # "sqlite" => \A result \in ResultFields :
            IF field = NotSupported THEN declared \in P!Custom
            ELSE [field EXCEPT !.nullable = TRUE] = [result EXCEPT !.nullable = TRUE]
       /\ db = "sqlite" =>
            /\ (field = Incompatible) <=> (declared \in {"NULL", "untyped"})
            /\ HasValue => \A result \in ResultFields : Alike(field.type, result.type)

(* and of a type that is supported.                                         *)
StoredGood ==
  ty \in Types /\ ty \in Supported[db] /\ ~Gap =>
    /\ ty \in Declared[db] /\ CanDeclare
    /\ \A null \in BOOLEAN : MayAppend(null) => Sent(null)
    /\ Created => /\ \A null \in BOOLEAN : MayAppend(null) => Fits(null)
                  /\ ResultFields # {} /\ DescribedFields # {}

-----------------------------------------------------------------------------
(* A value of a column of the library's went through ConsumeTy. *)
LEMMA OwnValue ==
  ASSUME ColumnInv, CellsInv, ty \in Types, Functional(Consumes[db]),
         NEW i \in DOMAIN cells, cells[i] # "NULL"
  PROVE  /\ <<ty, cells[i]>> \in Consumes[db] /\ ty.name # "Null"
         /\ db # "sqlite" => <<declared, cells[i]>> \in Yields[db]
<1>1. /\ MayAppend(FALSE) /\ Sent(FALSE) /\ Fits(FALSE)
      /\ cells[i] = Lookup(Consumes[db], ty)
  BY DEF CellsInv
<1>2. ty \in Dom(Consumes[db])
  BY <1>1 DEF Sent, Consumed, ColumnInv
<1>3. <<ty, cells[i]>> \in Consumes[db]
  BY <1>1, <1>2, LookupIn
<1>4. ty.name # "Null"
  BY <1>1 DEF MayAppend
<1>5. db # "sqlite" => <<declared, cells[i]>> \in Yields[db]
  BY <1>1 DEF Fits
<1> QED
  BY <1>3, <1>4, <1>5

(* There is a null only where the field and the table allow one, if no      *)
(* ConsumeTy makes one of a value.                                          *)
LEMMA OwnNull ==
  ASSUME ColumnInv, CellsInv, ty \in Types, Functional(Consumes[db]),
         \A c : <<ty, c>> \in Consumes[db] /\ ty.name # "Null" => c # "NULL",
         NEW i \in DOMAIN cells, cells[i] = "NULL"
  PROVE  ~not_null /\ (nullable \/ ty.name = "Null") /\ Sent(TRUE)
<1>1. PICK null \in BOOLEAN : /\ MayAppend(null) /\ Sent(null) /\ Fits(null)
                              /\ cells[i] = IF null THEN "NULL" ELSE Lookup(Consumes[db], ty)
  BY DEF CellsInv
<1>2. null = TRUE
  <2> SUFFICES ASSUME null = FALSE
               PROVE  FALSE
    OBVIOUS
  <2>1. ty \in Dom(Consumes[db])
    BY <1>1 DEF Sent, Consumed, ColumnInv
  <2>2. <<ty, cells[i]>> \in Consumes[db]
    BY <1>1, <2>1, LookupIn
  <2>3. ty.name # "Null"
    BY <1>1 DEF MayAppend
  <2> QED
    BY <2>2, <2>3
<1> QED
  BY <1>1, <1>2 DEF MayAppend, Fits

(* The field a column comes back as is what coerce_schema says, if the      *)
(* table's type and the field's are those of the two promises.              *)
LEMMA CoercedField ==
  ASSUME ColumnInv, ty \in Types, Created, NEW d, NEW u,
         <<ty, d>> \in IntoDb[db], <<d, u>> \in FromDb[db]
  PROVE  /\ CoercedTypes # {}
         /\ db # "mysql" => Plain(u, TRUE) \in Coerced(Override)
         /\ db = "mysql" => Plain(u, ~not_null) \in Coerced(Override)
<1>1. u \in CoercedTypes
  <2>1. <<d, u>>[1] = d /\ <<d, u>>[2] = u
    OBVIOUS
  <2> QED
    BY <2>1 DEF CoercedTypes
<1>2. db # "mysql" => Override = "nullable"
  BY DEF Override
<1>3. db = "mysql" => Override = "keep" /\ (~not_null = (nullable \/ ty.name = "Null"))
  BY DEF Override, Created, ColumnInv
<1>4. CoercedTypes # {}
  BY <1>1
<1>5. Plain(u, nullable \/ ty.name = "Null") \in Coerced("keep")
  BY <1>1, <1>4 DEF Coerced
<1>6. Plain(u, TRUE) \in Coerced("nullable")
  BY <1>1, <1>4 DEF Coerced
<1>7. db = "mysql" => Plain(u, ~not_null) = Plain(u, nullable \/ ty.name = "Null")
  <2>1. not_null \in BOOLEAN /\ nullable \in BOOLEAN
    BY DEF ColumnInv
  <2> SUFFICES ASSUME ~not_null = (nullable \/ ty.name = "Null")
               PROVE  Plain(u, ~not_null) = Plain(u, nullable \/ ty.name = "Null")
    BY <1>3
  <2>2. CASE not_null
    <3>1. (~not_null) = FALSE /\ (nullable \/ ty.name = "Null") = FALSE
      BY <2>1, <2>2
    <3> QED
      BY <3>1, Zenon
  <2>3. CASE ~not_null
    <3>1. (~not_null) = TRUE /\ (nullable \/ ty.name = "Null") = TRUE
      BY <2>1, <2>3
    <3> QED
      BY <3>1, Zenon
  <2> QED
    BY <2>1, <2>2, <2>3
<1>8. db = "mysql" => Plain(u, ~not_null) \in Coerced(Override)
  BY <1>3, <1>5, <1>7, Zenon
<1>9. db # "mysql" => Plain(u, TRUE) \in Coerced(Override)
  BY <1>2, <1>6
<1> QED
  BY <1>4, <1>8, <1>9

(* The type a column was created with. *)
LEMMA DeclaredIs ==
  ASSUME Made, ty \in Types, Functional(Declares[db]), db \in Dbs
  PROVE  Created /\ <<ty, declared>> \in Declares[db]
<1>1. Created
  BY TypesAreNamed DEF Made
<1>2. ty \in Dom(Declares[db])
  BY <1>1 DEF Created, Declared
<1> QED
  BY <1>1, <1>2, LookupIn DEF Created

-----------------------------------------------------------------------------
(* What the five connectors have in common *)

LEMMA Tables ==
  /\ IntoDb["postgres"] = P!IntoDb /\ IntoDb["sqlite"] = S!IntoDb /\ IntoDb["mysql"] = M!IntoDb
  /\ IntoDb["duckdb"] = D!IntoDb /\ IntoDb["tiberius"] = T!IntoDb
  /\ Declares["postgres"] = P!IntoDb /\ Declares["sqlite"] = S!Declares
  /\ Declares["mysql"] = M!IntoDb /\ Declares["duckdb"] = D!Declares
  /\ Declares["tiberius"] = T!IntoDb
  /\ Consumes["postgres"] = P!Consumes /\ Consumes["sqlite"] = S!Consumes
  /\ Consumes["mysql"] = M!Consumes /\ Consumes["duckdb"] = D!Consumes
  /\ Consumes["tiberius"] = T!Consumes
  /\ FromDb["postgres"] = P!FromDb /\ FromDb["sqlite"] = S!FromDb /\ FromDb["mysql"] = M!FromDb
  /\ FromDb["duckdb"] = D!FromDb /\ FromDb["tiberius"] = T!FromDb
  /\ Produces["postgres"] = P!Produces /\ Produces["sqlite"] = S!Produces
  /\ Produces["mysql"] = M!Produces /\ Produces["tiberius"] = T!Produces
  /\ Yields["postgres"] = P!Yields /\ Yields["mysql"] = M!Yields
  /\ Yields["duckdb"] = D!Yields /\ Yields["tiberius"] = T!Yields
  /\ Foreign["postgres"] = P!Foreign /\ Foreign["sqlite"] = {} /\ Foreign["mysql"] = M!Foreign
  /\ Foreign["duckdb"] = D!Foreign /\ Foreign["tiberius"] = T!Foreign
  BY DEF IntoDb, Declares, Consumes, FromDb, Produces, Yields, Foreign

LEMMA Matches ==
  /\ \A d \in Dbs : /\ Supported[d] = Dom(IntoDb[d]) /\ Declared[d] = Dom(Declares[d])
                    /\ Consumed[d] = Dom(Consumes[d])
                    /\ d # "duckdb" => Produced[d] = Dom(Produces[d])
  BY DEF Supported, Declared, Consumed, Produced, Produces, Dbs

LEMMA TypeParameters == \A t \in Types : t.p \in 0..76 /\ t.s \in Int
  BY DecimalsAssumption DEF Types

(* Every cell of a column of the library's is read, if there is an arm for  *)
(* what ConsumeTy makes of a value, and for nulls.                          *)
LEMMA OwnIsRead ==
  ASSUME ColumnInv, CellsInv, EdgeInv, ty \in Types, Functional(Consumes[db]), NEW u,
         db = "postgres" => u # "Null",
         db # "duckdb" =>
           /\ u \in Dom(Produces[db])
           /\ \A c : <<ty, c>> \in Consumes[db] /\ ty.name # "Null" => <<u, c>> \in Produces[db]
  PROVE  Readable(u) <=> ~edge
<1>1. ASSUME db # "duckdb", NEW i \in DOMAIN cells
      PROVE  IF cells[i] = "NULL" THEN u \in Produced[db]
                                  ELSE <<u, cells[i]>> \in Produces[db]
  <2>1. CASE cells[i] = "NULL"
    BY <1>1, <2>1, Matches DEF ColumnInv
  <2>2. CASE cells[i] # "NULL"
    BY <1>1, <2>2, OwnValue
  <2> QED
    BY <2>1, <2>2
<1>2. edge => db = "postgres"
  BY DEF EdgeInv
<1> QED
  BY <1>1, <1>2 DEF Readable

LEMMA PlainExcept ==
  ASSUME NEW name, NEW n, NEW m
  PROVE  [Plain(name, n) EXCEPT !.nullable = m] = Plain(name, m)
  BY DEF Plain

(* A column of the library's whose queries and descriptions have the same   *)
(* type, that can be read and is the promised one.                          *)
LEMMA OwnGood ==
  ASSUME ColumnInv, ty \in Types, db # "sqlite", NEW u \in ArrowNames, NEW n, NEW m,
         ResultFields = {Plain(u, n)}, DescribedFields = {Plain(u, m)}, m \/ not_null,
         Readable(u) <=> ~edge, HasValue => Lossless(ty.name, u),
         ty \in Supported[db] => Plain(u, n) \in Coerced(Override)
  PROVE  ResultsGood /\ DescribedGood
<1>1. ty # NoType
  BY TypesAreNamed
<1>2. Plain(u, n).type = u /\ Plain(u, m).type = u /\ Plain(u, m).nullable = m
  BY DEF Plain
<1>3. ResultsGood
  BY <1>1, <1>2 DEF ResultsGood
<1>4. Plain(u, m) # NotSupported
  <2>1. "NotSupported" \notin ArrowNames
    BY DEF ArrowNames, PlainNames, Timestamps, Time32s, Time64s, Durations, Intervals,
           Nested, DecimalNames
  <2>2. NotSupported.type = "NotSupported"
    BY DEF NotSupported, Plain
  <2> QED
    BY <1>2, <2>1, <2>2
<1>5. [Plain(u, m) EXCEPT !.nullable = TRUE] = [Plain(u, n) EXCEPT !.nullable = TRUE]
  <2>1. [Plain(u, m) EXCEPT !.nullable = TRUE] = Plain(u, TRUE)
    BY PlainExcept, Zenon
  <2>2. [Plain(u, n) EXCEPT !.nullable = TRUE] = Plain(u, TRUE)
    BY PlainExcept, Zenon
  <2> QED
    BY <2>1, <2>2
<1>6. DescribedGood
  <2> SUFFICES ASSUME NEW field, field = Plain(u, m), NEW result, result = Plain(u, n)
               PROVE  /\ field \in Errors \/ field.type \in ArrowNames
                      /\ field.nullable \/ not_null
                      /\ IF field = NotSupported THEN declared \in P!Custom
                         ELSE [field EXCEPT !.nullable = TRUE] = [result EXCEPT !.nullable = TRUE]
    BY DEF DescribedGood
  <2>1. [field EXCEPT !.nullable = TRUE] = [result EXCEPT !.nullable = TRUE]
    BY <1>5
  <2>2. field \in Errors \/ field.type \in ArrowNames
    BY <1>2
  <2> QED
    BY <1>2, <1>4, <2>1, <2>2
<1> QED
  BY <1>3, <1>6

-----------------------------------------------------------------------------
(* Each of the connectors' matches gives one answer. *)

LEMMA PostgresTables ==
  /\ Functional(P!IntoDb) /\ Functional(P!Consumes) /\ Functional(P!FromDb)
  /\ Functional(P!Yields) /\ Functional(P!Reports)
<1>1. Functional(P!IntoDb)
  BY SameOperators, SameNames
     DEF Functional, P!IntoDb, Named, Text, Bytes, Timestamps, Time32s, Time64s, Durations,
         DecimalNames
<1>2. Functional(P!Consumes)
  BY SameOperators, SameNames
     DEF Functional, P!Consumes, Named, Text, Bytes, Timestamps, Time32s, Time64s, Durations,
         DecimalNames
<1>3. Functional(P!FromDb)
  BY DEF Functional, P!FromDb
<1>4. Functional(P!Yields)
  BY DEF Functional, P!Yields
<1>5. Functional(P!Reports)
  BY DEF Functional, P!Reports
<1> QED
  BY <1>1, <1>2, <1>3, <1>4, <1>5

LEMMA SQLiteTables ==
  /\ Functional(S!IntoDb) /\ Functional(S!Declares) /\ Functional(S!Consumes)
  /\ Functional(S!FromDb) /\ Functional(S!DeclTyToArrow)
<1>1. Functional(S!IntoDb)
  BY SameOperators, SameNames
     DEF Functional, S!IntoDb, Named, Text, Bytes, Timestamps, Time32s, Time64s, Durations,
         DecimalNames
<1>2. Functional(S!Declares)
  <2> DEFINE rest == (Types \ Dom(S!IntoDb)) \X {"untyped"}
  <2>1. S!Declares = S!IntoDb \cup rest
    BY SameOperators, SameNames DEF S!Declares
  <2>2. \A pair \in rest : pair = <<pair[1], pair[2]>>
    OBVIOUS
  <2>3. \A x, y : <<x, y>> \in rest => x \notin Dom(S!IntoDb) /\ y = "untyped"
    OBVIOUS
  <2> HIDE DEF rest
  <2>4. \A pair \in S!Declares : pair = <<pair[1], pair[2]>>
    BY <1>1, <2>1, <2>2 DEF Functional
  <2>5. ASSUME NEW x, NEW y, NEW z, <<x, y>> \in S!Declares, <<x, z>> \in S!Declares
        PROVE  y = z
    <3>1. CASE <<x, y>> \in S!IntoDb
      <4>1. x \in Dom(S!IntoDb)
        BY <3>1, InDom
      <4>2. <<x, z>> \in S!IntoDb
        BY <2>1, <2>3, <2>5, <4>1
      <4> QED
        BY <1>1, <3>1, <4>2 DEF Functional
    <3>2. CASE <<x, y>> \in rest
      <4>1. x \notin Dom(S!IntoDb) /\ y = "untyped"
        BY <2>3, <3>2
      <4>2. <<x, z>> \notin S!IntoDb
        BY <4>1, InDom
      <4> QED
        BY <2>1, <2>3, <2>5, <4>1, <4>2
    <3> QED
      BY <2>1, <2>5, <3>1, <3>2
  <2> QED
    BY <2>4, <2>5 DEF Functional
<1>3. Functional(S!Consumes)
  BY SameOperators, SameNames
     DEF Functional, S!Consumes, Named, Text, Bytes, Timestamps, Time32s, Time64s, Durations,
         DecimalNames
<1>4. Functional(S!FromDb) /\ Functional(S!DeclTyToArrow)
  BY DEF Functional, S!FromDb, S!DeclTyToArrow
<1> QED
  BY <1>1, <1>2, <1>3, <1>4

LEMMA MySQLTables ==
  /\ Functional(M!IntoDb) /\ Functional(M!Consumes) /\ Functional(M!FromDb)
  /\ Functional(M!Yields)
<1>1. Functional(M!IntoDb)
  BY SameOperators, SameNames
     DEF Functional, M!IntoDb, Named, M!ShortDecimals, M!FixedSize, Timestamps, DecimalNames
<1>2. Functional(M!Consumes)
  BY SameOperators, SameNames
     DEF Functional, M!Consumes, Named, Bytes, Timestamps, DecimalNames
<1>3. Functional(M!FromDb)
  BY DEF Functional, M!FromDb, M!FromDbIntegers, M!FromDbBinary
<1>4. Functional(M!Yields)
  BY DEF Functional, M!Yields
<1> QED
  BY <1>1, <1>2, <1>3, <1>4

LEMMA DuckDBTables ==
  /\ Functional(D!IntoDb) /\ Functional(D!Declares) /\ Functional(D!Consumes)
  /\ Functional(D!FromDb) /\ Functional(D!Yields) /\ Functional(D!Reports)
<1>1. Functional(D!IntoDb) /\ Functional(D!Declares)
  BY SameOperators, SameNames
     DEF Functional, D!IntoDb, D!Declares, D!Same, Named, Text, Bytes, Timestamps, Time32s,
         Time64s, Intervals
<1>2. Functional(D!Consumes)
  BY SameOperators, SameNames
     DEF Functional, D!Consumes, Named, Text, Bytes, Timestamps
<1>3. Functional(D!FromDb)
  BY DEF Functional, D!FromDb
<1>4. Functional(D!Yields)
  BY DEF Functional, D!Yields, D!Columns
<1>5. Functional(D!Reports)
  BY DEF Functional, D!Reports, D!Columns
<1> QED
  BY <1>1, <1>2, <1>3, <1>4, <1>5

LEMMA TiberiusTables ==
  /\ Functional(T!IntoDb) /\ Functional(T!Consumes) /\ Functional(T!FromDb)
  /\ Functional(T!Yields)
<1>1. Functional(T!IntoDb)
  BY SameOperators, SameNames
     DEF Functional, T!IntoDb, Named, T!Fitting, Text, Timestamps, DecimalNames
<1>2. Functional(T!Consumes)
  BY SameOperators, SameNames
     DEF Functional, T!Consumes, T!ConsumesIntegers, Named, T!Fitting, Text, Timestamps,
         DecimalNames
<1>3. Functional(T!FromDb)
  BY DEF Functional, T!FromDb
<1>4. Functional(T!Yields)
  BY DEF Functional, T!Yields
<1> QED
  BY <1>1, <1>2, <1>3, <1>4

-----------------------------------------------------------------------------
(* PostgreSQL *)

(* A supported type is sent in the column's own wire format.                *)
LEMMA PostgresStores ==
  ASSUME NEW t, NEW d, <<t, d>> \in P!IntoDb
  PROVE  /\ t \in Types /\ t.name \in Transported
         /\ \E c : <<t, c>> \in P!Consumes
         /\ \A c : <<t, c>> \in P!Consumes /\ t.name # "Null" => <<d, c>> \in P!Yields /\ c # "NULL"
         /\ \E r : <<d, r>> \in P!Yields
<1>1. t \in Types
  BY SameOperators, SameNames DEF P!IntoDb, Named
<1>2. t.name \in Transported
  BY SameOperators, SameNames
     DEF P!IntoDb, Named, Text, Bytes, Timestamps, Time32s, Time64s, Durations, DecimalNames,
         Transported, ArrowNames, PlainNames, Nested
<1>3. \/ <<t, "nothing">> \in P!Consumes \/ <<t, "bool">> \in P!Consumes
      \/ <<t, "int2">> \in P!Consumes \/ <<t, "int4">> \in P!Consumes
      \/ <<t, "int8">> \in P!Consumes \/ <<t, "numeric">> \in P!Consumes
      \/ <<t, "float4">> \in P!Consumes \/ <<t, "float8">> \in P!Consumes
      \/ <<t, "text">> \in P!Consumes \/ <<t, "bytea">> \in P!Consumes
  BY SameOperators, SameNames
     DEF P!IntoDb, P!Consumes, Named, Text, Bytes, Timestamps, Time32s, Time64s, Durations,
         DecimalNames
<1>4. ASSUME NEW c, <<t, c>> \in P!Consumes, t.name # "Null"
      PROVE  <<d, c>> \in P!Yields /\ c # "NULL"
  BY <1>4, SameOperators, SameNames
     DEF P!IntoDb, P!Consumes, P!Yields, Named, Text, Bytes, Timestamps, Time32s, Time64s,
         Durations, DecimalNames
<1>5. \/ <<d, "bool">> \in P!Yields \/ <<d, "int2">> \in P!Yields
      \/ <<d, "int4">> \in P!Yields \/ <<d, "int8">> \in P!Yields
      \/ <<d, "numeric">> \in P!Yields \/ <<d, "float4">> \in P!Yields
      \/ <<d, "float8">> \in P!Yields \/ <<d, "text">> \in P!Yields
      \/ <<d, "bytea">> \in P!Yields
  BY SameOperators, SameNames DEF P!IntoDb, P!Yields
<1> QED
  BY <1>1, <1>2, <1>3, <1>4, <1>5

(* A column is reported by its own name or the catalogue's shorter one. *)
LEMMA PostgresReports ==
  ASSUME NEW d, NEW c, <<d, c>> \in P!Yields
  PROVE  \E r : /\ <<d, r>> \in P!Reports
                /\ d \in P!Foreign => r = d
                /\ \A t : <<t, d>> \in P!IntoDb =>
                     \E u : <<r, u>> \in P!FromDb /\ <<d, u>> \in P!FromDb
<1> DEFINE r == IF d \in DOMAIN P!Renamed THEN P!Renamed[d] ELSE d
<1>1. <<d, r>> \in P!Reports
  <2>1. d \in P!Dom(P!Yields)
    BY InDom, SameOperators
  <2> QED
    BY <2>1 DEF P!Reports
<1>2. d \in P!Foreign => r = d
  BY DEF P!Foreign, P!Renamed
<1>3. ASSUME NEW t, <<t, d>> \in P!IntoDb
      PROVE  \E u : <<r, u>> \in P!FromDb /\ <<d, u>> \in P!FromDb
  <2>1. \/ <<r, "Boolean">> \in P!FromDb /\ <<d, "Boolean">> \in P!FromDb
        \/ <<r, "Int16">> \in P!FromDb /\ <<d, "Int16">> \in P!FromDb
        \/ <<r, "Int32">> \in P!FromDb /\ <<d, "Int32">> \in P!FromDb
        \/ <<r, "Int64">> \in P!FromDb /\ <<d, "Int64">> \in P!FromDb
        \/ <<r, "Float32">> \in P!FromDb /\ <<d, "Float32">> \in P!FromDb
        \/ <<r, "Float64">> \in P!FromDb /\ <<d, "Float64">> \in P!FromDb
        \/ <<r, "Utf8">> \in P!FromDb /\ <<d, "Utf8">> \in P!FromDb
        \/ <<r, "Binary">> \in P!FromDb /\ <<d, "Binary">> \in P!FromDb
    BY <1>3, SameOperators, SameNames DEF P!IntoDb, P!Renamed, P!FromDb
  <2> QED
    BY <2>1
<1> QED
  BY <1>1, <1>2, <1>3

(* What a column yields is read, and its type can hold what was written.    *)
LEMMA PostgresReads ==
  /\ \A r, u : <<r, u>> \in P!FromDb => u \in ArrowNames
  /\ \A d, c, r, u : <<d, c>> \in P!Yields /\ <<d, r>> \in P!Reports /\ <<r, u>> \in P!FromDb =>
       <<u, c>> \in P!Produces
  /\ \A d, c : <<d, c>> \in P!Yields => <<"Binary", c>> \in P!Produces
  /\ \A t, d, r, u : ( /\ <<t, d>> \in P!IntoDb /\ t.name # "Null"
                       /\ <<d, r>> \in P!Reports /\ <<r, u>> \in P!FromDb )
                     => Lossless(t.name, u)
<1>1. \A r, u : <<r, u>> \in P!FromDb => u \in ArrowNames
  BY DEF P!FromDb, ArrowNames, PlainNames, Timestamps, Time64s, Intervals
<1>2. \A d, c, r, u : <<d, c>> \in P!Yields /\ <<d, r>> \in P!Reports /\ <<r, u>> \in P!FromDb =>
        <<u, c>> \in P!Produces
  BY DEF P!Yields, P!Reports, P!Renamed, P!FromDb, P!Produces
<1>3. ASSUME NEW d, NEW c, <<d, c>> \in P!Yields
      PROVE  <<"Binary", c>> \in P!Produces
  <2>1. <<d, c>>[2] = c
    OBVIOUS
  <2>2. c \in { pair[2] : pair \in P!Yields }
    BY <1>3, <2>1
  <2> QED
    BY <2>2 DEF P!Produces
<1>4. ASSUME NEW t, NEW d, NEW r, NEW u, <<t, d>> \in P!IntoDb, t.name # "Null",
             <<d, r>> \in P!Reports, <<r, u>> \in P!FromDb
      PROVE  Lossless(t.name, u)
  BY <1>4, SameOperators, SameNames
     DEF P!IntoDb, P!Reports, P!Renamed, P!FromDb, Named, Text, Bytes, Timestamps, Time32s,
         Time64s, Durations, DecimalNames, Lossless, Whole, Signed, SignedBits, UnsignedBits,
         FloatBits, Bits
<1> QED
  BY <1>1, <1>2, <1>3, <1>4

LEMMA NoNullColumns == \A r, u : <<r, u>> \in P!FromDb => u # "Null"
  BY DEF P!FromDb

LEMMA PostgresOwn ==
  ASSUME ColumnInv, CellsInv, EdgeInv, Made, ty \in Types, db = "postgres"
  PROVE  ResultsGood /\ DescribedGood
<1>1. <<ty, declared>> \in P!IntoDb
  BY DeclaredIs, Tables, PostgresTables DEF ColumnInv
<1>2. /\ \E c : <<ty, c>> \in P!Consumes
      /\ \A c : <<ty, c>> \in P!Consumes /\ ty.name # "Null" =>
           <<declared, c>> \in P!Yields /\ c # "NULL"
      /\ \E c : <<declared, c>> \in P!Yields
  BY <1>1, PostgresStores
<1>3. PICK r, u : /\ <<declared, r>> \in P!Reports
                  /\ <<r, u>> \in P!FromDb /\ <<declared, u>> \in P!FromDb
  BY <1>1, <1>2, PostgresReports
<1>4. u \in ArrowNames
  BY <1>3, PostgresReads
<1>5. P!Lookup(P!Reports, declared) = r
  BY <1>3, LookupIs, PostgresTables, SameOperators
<1>6. r \in P!Dom(P!FromDb) /\ P!Lookup(P!FromDb, r) = u
  BY <1>3, LookupIs, PostgresTables, SameOperators
<1>7. \A null : P!Field(r, null) = Plain(u, null)
  BY <1>6 DEF P!Field, Plain
<1>8. Lookup(P!Reports, declared) = r
  BY <1>5, SameOperators
<1>9. ResultFields = {Plain(u, TRUE)}
  BY <1>7, <1>8 DEF ResultFields
<1>10. DescribedFields = {Plain(u, ~not_null)}
  <2>1. declared \notin P!Custom
    BY <1>1, SameOperators, SameNames DEF P!IntoDb, P!Custom
  <2> QED
    BY <1>7, <1>8, <2>1 DEF DescribedFields
<1>11. Readable(u) <=> ~edge
  <2>1. \A c : <<declared, c>> \in P!Yields => <<u, c>> \in P!Produces
    BY <1>3, PostgresReads
  <2>2. u \in Dom(P!Produces)
    BY <1>2, <2>1, InDom
  <2>3. Functional(Consumes[db])
    BY Tables, PostgresTables
  <2>4. u # "Null"
    BY <1>3, NoNullColumns
  <2> QED
    BY <1>2, <2>1, <2>2, <2>3, <2>4, OwnIsRead, Tables
<1>12. HasValue => Lossless(ty.name, u)
  <2>1. Functional(Consumes[db])
    BY Tables, PostgresTables
  <2>2. HasValue => ty.name # "Null"
    BY <2>1, OwnValue DEF HasValue
  <2> QED
    BY <1>1, <1>3, <2>2, PostgresReads
<1>13. Plain(u, TRUE) \in Coerced(Override)
  <2>1. Created
    BY DeclaredIs, Tables, PostgresTables DEF ColumnInv
  <2> QED
    BY <1>1, <1>3, <2>1, CoercedField, Tables
<1>14. ~not_null \/ not_null
  OBVIOUS
<1> QED
  BY <1>4, <1>9, <1>10, <1>11, <1>12, <1>13, <1>14, OwnGood

LEMMA PostgresForeign ==
  ASSUME ColumnInv, CellsInv, EdgeInv, Made, ty = NoType, db = "postgres"
  PROVE  ResultsGood /\ DescribedGood
<1>1. ty \notin Types
  BY TypesAreNamed
<1>2. declared \in P!Foreign /\ not_null = FALSE
  BY <1>1, Tables DEF Made
<1>3. \E c : <<declared, c>> \in P!Yields
  <2>1. \/ <<declared, "timestamp">> \in P!Yields \/ <<declared, "date">> \in P!Yields
        \/ <<declared, "time">> \in P!Yields \/ <<declared, "other">> \in P!Yields
        \/ <<declared, "interval">> \in P!Yields \/ <<declared, "bits">> \in P!Yields
        \/ <<declared, "text">> \in P!Yields
    BY <1>2 DEF P!Foreign, P!Yields
  <2> QED
    BY <2>1
<1>4. <<declared, declared>> \in P!Reports
  BY <1>2, <1>3, PostgresReports
<1>5. Lookup(P!Reports, declared) = declared
  BY <1>4, LookupIs, PostgresTables
<1> DEFINE field == P!Field(declared, TRUE)
<1>6. ResultFields = {field}
  BY <1>5 DEF ResultFields
<1>7. DescribedFields = IF declared \in P!Custom THEN {NotSupported} ELSE {field}
  BY <1>2, <1>5 DEF DescribedFields
<1>8. /\ declared \in Dom(P!FromDb) => <<declared, field.type>> \in P!FromDb
      /\ declared \notin Dom(P!FromDb) => field = BinaryOf(declared)
      /\ field.nullable = TRUE /\ (field = BinaryOf(declared) => field.type = "Binary")
  BY LookupIn, PostgresTables, SameOperators DEF P!Field, BinaryOf
<1> HIDE DEF field
<1>9. field.type \in ArrowNames
  <2>1. "Binary" \in ArrowNames
    BY DEF ArrowNames, PlainNames
  <2> QED
    BY <1>8, <2>1, PostgresReads
<1>10. Readable(field.type) <=> ~edge
  <2>1. \A c : <<declared, c>> \in P!Yields => <<field.type, c>> \in P!Produces
    BY <1>4, <1>8, PostgresReads
  <2>2. field.type \in Produced[db]
    <3>1. field.type \in Dom(P!Produces)
      BY <1>3, <2>1, InDom
    <3> QED
      BY <3>1, Tables, Matches DEF Dbs
  <2>3. ASSUME NEW i \in DOMAIN cells, cells[i] # "NULL"
        PROVE  <<field.type, cells[i]>> \in Produces[db]
    <3>1. cells[i] = Lookup(P!Yields, declared)
      BY <2>3, Tables DEF CellsInv
    <3>2. <<declared, cells[i]>> \in P!Yields
      BY <1>3, <3>1, LookupIs, PostgresTables
    <3> QED
      BY <2>1, <3>2, Tables
  <2>4. field.type # "Null"
    BY <1>8, NoNullColumns
  <2> QED
    BY <2>2, <2>3, <2>4 DEF Readable
<1>11. ResultsGood
  BY <1>1, <1>6, <1>8, <1>9, <1>10, SameOperators, Tables DEF ResultsGood
<1>12. DescribedGood
  <2>1. ASSUME declared \in P!Custom
        PROVE  DescribedGood
    <3>1. NotSupported.nullable = TRUE /\ NotSupported \in Errors
      BY DEF NotSupported, Plain, Errors
    <3> QED
      BY <1>7, <2>1, <3>1 DEF DescribedGood
  <2>2. ASSUME declared \notin P!Custom
        PROVE  DescribedGood
    <3>1. field # NotSupported
      <4>1. NotSupported.type \notin ArrowNames
        BY DEF NotSupported, Plain, ArrowNames, PlainNames, Timestamps, Time32s, Time64s,
               Durations, Intervals, Nested, DecimalNames
      <4> QED
        BY <1>9, <4>1
    <3> QED
      BY <1>6, <1>7, <1>8, <1>9, <2>2, <3>1 DEF DescribedGood
  <2> QED
    BY <2>1, <2>2
<1> QED
  BY <1>11, <1>12

LEMMA PostgresStored ==
  ASSUME ColumnInv, db = "postgres"
  PROVE  StoredGood
<1> SUFFICES ASSUME ty \in Types, ty \in Supported[db], ~Gap
             PROVE  /\ ty \in Declared[db] /\ CanDeclare
                    /\ \A null \in BOOLEAN : MayAppend(null) => Sent(null)
                    /\ Created => /\ \A null \in BOOLEAN : MayAppend(null) => Fits(null)
                                  /\ ResultFields # {} /\ DescribedFields # {}
  BY DEF StoredGood
<1>1. ty \in Dom(P!IntoDb)
  BY Tables, Matches DEF ColumnInv
<1>2. ty \in Declared[db] /\ CanDeclare
  BY <1>1, Tables, Matches DEF ColumnInv, CanDeclare
<1>3. PICK d : <<ty, d>> \in P!IntoDb
  BY <1>1, LookupIn, PostgresTables
<1>4. ty.name \in Transported /\ ty \in Dom(P!Consumes)
  BY <1>3, PostgresStores, InDom
<1>5. \A null \in BOOLEAN : MayAppend(null) => Sent(null)
  BY <1>4, Tables, Matches DEF Sent, ColumnInv
<1>6. ASSUME Created
      PROVE  /\ \A null \in BOOLEAN : MayAppend(null) => Fits(null)
             /\ ResultFields # {} /\ DescribedFields # {}
  <2>1. not_null = (~nullable /\ ty.name # "Null") /\ declared = Lookup(P!IntoDb, ty)
    BY <1>6, Tables DEF Created
  <2>2. <<ty, declared>> \in P!IntoDb
    BY <1>1, <2>1, LookupIn, PostgresTables
  <2>3. ASSUME NEW null \in BOOLEAN, MayAppend(null)
        PROVE  Fits(null)
    <3>1. CASE null
      BY <2>1, <2>3, <3>1 DEF Fits, MayAppend
    <3>2. CASE ~null
      <4>1. ty.name # "Null"
        BY <2>3, <3>2 DEF MayAppend
      <4>2. <<declared, Lookup(P!Consumes, ty)>> \in P!Yields
        BY <1>4, <2>2, <4>1, LookupIn, PostgresTables, PostgresStores
      <4>3. ty \in P!Writable
        BY TypeParameters, SameNames DEF Gap, P!Writable
      <4> QED
        BY <3>2, <4>2, <4>3, Tables DEF Fits
    <3> QED
      BY <3>1, <3>2
  <2> QED
    BY <2>3 DEF ResultFields, DescribedFields
<1> QED
  BY <1>2, <1>5, <1>6

-----------------------------------------------------------------------------
(* MySQL *)

(* A supported type is sent as the variant that the column takes.           *)
LEMMA MySQLStores ==
  ASSUME NEW t, NEW d, <<t, d>> \in M!IntoDb
  PROVE  /\ t \in Types => t.name \in Transported
         /\ t \in Types => \E c : <<t, c>> \in M!Consumes
         /\ \A c : <<t, c>> \in M!Consumes /\ t.name # "Null" => <<d, c>> \in M!Yields /\ c # "NULL"
         /\ \E c : <<d, c>> \in M!Yields
<1>1. t \in Types => t.name \in Transported
  BY SameOperators, SameNames
     DEF M!IntoDb, M!ShortDecimals, M!FixedSize, Named, Timestamps, DecimalNames,
         Transported, ArrowNames, PlainNames, Nested
<1>2. t \in Types =>
        \/ <<t, "NULL">> \in M!Consumes \/ <<t, "Int">> \in M!Consumes
        \/ <<t, "UInt">> \in M!Consumes \/ <<t, "Float">> \in M!Consumes
        \/ <<t, "Double">> \in M!Consumes \/ <<t, "Bytes">> \in M!Consumes
  BY SameOperators, SameNames
     DEF M!IntoDb, M!ShortDecimals, M!FixedSize, M!Consumes, Named, Bytes, Timestamps,
         DecimalNames
<1>3. ASSUME NEW c, <<t, c>> \in M!Consumes, t.name # "Null"
      PROVE  <<d, c>> \in M!Yields /\ c # "NULL"
  BY <1>3, SameOperators, SameNames
     DEF M!IntoDb, M!ShortDecimals, M!FixedSize, M!Consumes, M!Yields, Named, Bytes,
         Timestamps, DecimalNames
<1>4. \/ <<d, "Int">> \in M!Yields \/ <<d, "UInt">> \in M!Yields
      \/ <<d, "Float">> \in M!Yields \/ <<d, "Double">> \in M!Yields
      \/ <<d, "Bytes">> \in M!Yields
  BY SameOperators, SameNames DEF M!IntoDb, M!Yields
<1> QED
  BY <1>1, <1>2, <1>3, <1>4

(* The server's two names of a type lead to the field of the type itself. *)
LEMMA MySQLReports ==
  ASSUME NEW d \in Dom(M!Yields)
  PROVE  /\ d \in M!Foreign => M!QueryName[d] = d /\ M!DescribeName[d] = d
         /\ \A t : <<t, d>> \in M!IntoDb =>
              \E u : /\ <<d, u>> \in M!FromDb /\ <<M!QueryName[d], u>> \in M!FromDb
                     /\ <<M!DescribeName[d], u>> \in M!FromDb
<1>1. /\ M!QueryName[d] = CASE d = "integer" -> "int"
                            [] d = "integer_unsigned" -> "int_unsigned"
                            [] d \in {"longblob", "mediumblob"} -> "blob"
                            [] d = "longtext" -> "text"
                            [] d = "decimal" -> "newdecimal"
                            [] OTHER -> d
      /\ M!DescribeName[d] = CASE d = "integer" -> "int"
                               [] d = "integer_unsigned" -> "int_unsigned"
                               [] OTHER -> d
  BY SameOperators DEF M!QueryName, M!DescribeName
<1>2. d \in M!Foreign => M!QueryName[d] = d /\ M!DescribeName[d] = d
  BY <1>1 DEF M!Foreign
<1>3. ASSUME NEW t, <<t, d>> \in M!IntoDb
      PROVE  \E u : /\ <<d, u>> \in M!FromDb /\ <<M!QueryName[d], u>> \in M!FromDb
                    /\ <<M!DescribeName[d], u>> \in M!FromDb
  <2> DEFINE Leads(u) == /\ <<d, u>> \in M!FromDb /\ <<M!QueryName[d], u>> \in M!FromDb
                         /\ <<M!DescribeName[d], u>> \in M!FromDb
  <2>1. d \in {"tinyint", "smallint", "integer", "bigint", "tinyint_unsigned",
               "smallint_unsigned", "integer_unsigned", "bigint_unsigned", "float", "double",
               "longblob", "binary", "blob", "mediumblob", "decimal", "text", "longtext"}
    BY <1>3, SameOperators, SameNames DEF M!IntoDb
  <2>2. CASE d \in {"tinyint", "smallint", "integer", "bigint"}
    <3>1. Leads("Int8") \/ Leads("Int16") \/ Leads("Int32") \/ Leads("Int64")
      BY <1>1, <2>2 DEF M!FromDb, M!FromDbIntegers
    <3> QED
      BY <3>1
  <2>3. CASE d \in {"tinyint_unsigned", "smallint_unsigned", "integer_unsigned",
                   "bigint_unsigned"}
    <3>1. Leads("UInt8") \/ Leads("UInt16") \/ Leads("UInt32") \/ Leads("UInt64")
      BY <1>1, <2>3 DEF M!FromDb, M!FromDbIntegers
    <3> QED
      BY <3>1
  <2>4. CASE d \in {"float", "double", "decimal", "text", "longtext"}
    <3>1. Leads("Float32") \/ Leads("Float64") \/ Leads("Utf8")
      BY <1>1, <2>4 DEF M!FromDb
    <3> QED
      BY <3>1
  <2>5. CASE d \in {"longblob", "binary", "blob", "mediumblob"}
    <3>1. Leads("Binary")
      BY <1>1, <2>5 DEF M!FromDb, M!FromDbBinary
    <3> QED
      BY <3>1
  <2> QED
    BY <2>1, <2>2, <2>3, <2>4, <2>5
<1> QED
  BY <1>2, <1>3

(* What was sent is read, and the type it is read as can hold it.           *)
LEMMA MySQLReads ==
  /\ \A r, u : <<r, u>> \in M!FromDb => u \in ArrowNames
  /\ \A t, d, c, u : ( /\ <<t, d>> \in M!IntoDb /\ t.name # "Null"
                       /\ <<t, c>> \in M!Consumes /\ <<d, u>> \in M!FromDb )
                     => <<u, c>> \in M!Produces /\ Lossless(t.name, u)
  /\ \A t, d, u : <<t, d>> \in M!IntoDb /\ <<d, u>> \in M!FromDb => u \in Dom(M!Produces)
<1>1. \A r, u : <<r, u>> \in M!FromDb => u \in ArrowNames
  BY DEF M!FromDb, M!FromDbIntegers, M!FromDbBinary, ArrowNames, PlainNames
<1>2. ASSUME NEW t, NEW d, NEW c, NEW u, <<t, d>> \in M!IntoDb, t.name # "Null",
             <<t, c>> \in M!Consumes, <<d, u>> \in M!FromDb
      PROVE  <<u, c>> \in M!Produces
  BY <1>2, SameOperators, SameNames
     DEF M!IntoDb, M!ShortDecimals, M!FixedSize, M!Consumes, M!FromDb, M!FromDbIntegers,
         M!FromDbBinary, M!Produces, Named, Bytes, Timestamps, DecimalNames
<1>3. ASSUME NEW t, NEW d, NEW u, <<t, d>> \in M!IntoDb, t.name # "Null", <<d, u>> \in M!FromDb
      PROVE  Lossless(t.name, u)
  BY <1>3, SameOperators, SameNames
     DEF M!IntoDb, M!ShortDecimals, M!FixedSize, M!FromDb, M!FromDbIntegers, M!FromDbBinary,
         Named, Text, Bytes, Timestamps, Time32s, Time64s, Durations, DecimalNames, Lossless,
         Whole, Signed, SignedBits, UnsignedBits, FloatBits, Bits
<1>4. ASSUME NEW t, NEW d, NEW u, <<t, d>> \in M!IntoDb, <<d, u>> \in M!FromDb
      PROVE  u \in Dom(M!Produces)
  <2>1. \/ <<u, "Int">> \in M!Produces \/ <<u, "Float">> \in M!Produces
        \/ <<u, "Bytes">> \in M!Produces
    BY <1>4, SameOperators, SameNames
       DEF M!IntoDb, M!FromDb, M!FromDbIntegers, M!FromDbBinary, M!Produces
  <2> QED
    BY <2>1, InDom
<1> QED
  BY <1>1, <1>2, <1>3, <1>4

(* create_field makes one field of a type that is known.                    *)
LEMMA MySQLFields ==
  ASSUME NEW r, NEW u, <<r, u>> \in M!FromDb, NEW null
  PROVE  M!Fields(r, null) = {Plain(u, null)}
<1>1. \A pair \in M!FromDb : pair[1] = r <=> pair = <<r, u>>
  <2> SUFFICES ASSUME NEW pair \in M!FromDb, pair[1] = r
               PROVE  pair = <<r, u>>
    OBVIOUS
  <2>1. pair = <<r, pair[2]>>
    BY MySQLTables DEF Functional
  <2> QED
    BY <2>1, MySQLTables DEF Functional
<1>2. { q \in M!FromDb : q[1] = r } = {<<r, u>>}
  BY <1>1
<1> QED
  BY <1>2 DEF M!Fields, Plain

LEMMA MySQLOwn ==
  ASSUME ColumnInv, CellsInv, EdgeInv, Made, ty \in Types, db = "mysql"
  PROVE  ResultsGood /\ DescribedGood
<1>1. <<ty, declared>> \in M!IntoDb
  BY DeclaredIs, Tables, MySQLTables DEF ColumnInv
<1>2. /\ \E c : <<declared, c>> \in M!Yields
  BY <1>1, MySQLStores
<1>3. PICK u : /\ <<declared, u>> \in M!FromDb /\ <<M!QueryName[declared], u>> \in M!FromDb
               /\ <<M!DescribeName[declared], u>> \in M!FromDb
  <2>1. declared \in Dom(M!Yields)
    BY <1>2, InDom
  <2> QED
    BY <1>1, <2>1, MySQLReports
<1>4. u \in ArrowNames
  BY <1>3, MySQLReads
<1>5. \A null : M!Fields(M!QueryName[declared], null) = {Plain(u, null)}
  BY <1>3, MySQLFields
<1>6. \A null : M!Fields(M!DescribeName[declared], null) = {Plain(u, null)}
  BY <1>3, MySQLFields
<1>7. ResultFields = {Plain(u, ~not_null)}
  BY <1>5 DEF ResultFields
<1>8. DescribedFields = {Plain(u, ~not_null)}
  BY <1>6 DEF DescribedFields
<1>9. Functional(Consumes[db])
  BY Tables, MySQLTables
<1>10. Readable(u) <=> ~edge
  <2>1. u \in Dom(M!Produces)
    BY <1>1, <1>3, MySQLReads
  <2>2. \A c : <<ty, c>> \in M!Consumes /\ ty.name # "Null" => <<u, c>> \in M!Produces
    BY <1>1, <1>3, MySQLReads
  <2> QED
    BY <1>9, <2>1, <2>2, OwnIsRead, Tables
<1>11. HasValue => Lossless(ty.name, u)
  <2> SUFFICES ASSUME NEW i \in DOMAIN cells, cells[i] # "NULL"
               PROVE  Lossless(ty.name, u)
    BY DEF HasValue
  <2>1. <<ty, cells[i]>> \in M!Consumes /\ ty.name # "Null"
    BY <1>9, OwnValue, Tables
  <2> QED
    BY <1>1, <1>3, <2>1, MySQLReads
<1>12. Plain(u, ~not_null) \in Coerced(Override)
  <2>1. Created
    BY DeclaredIs, Tables, MySQLTables DEF ColumnInv
  <2> QED
    BY <1>1, <1>3, <2>1, CoercedField, Tables
<1>13. ~not_null \/ not_null
  OBVIOUS
<1> QED
  BY <1>4, <1>7, <1>8, <1>10, <1>11, <1>12, <1>13, OwnGood

LEMMA MySQLForeign ==
  ASSUME ColumnInv, CellsInv, EdgeInv, Made, ty = NoType, db = "mysql"
  PROVE  ResultsGood /\ DescribedGood
<1>1. ty \notin Types
  BY TypesAreNamed
<1>2. declared \in M!Foreign /\ not_null = FALSE
  BY <1>1, Tables DEF Made
<1>3. M!QueryName[declared] = declared /\ M!DescribeName[declared] = declared
  <2>1. \/ <<declared, "Date">> \in M!Yields \/ <<declared, "Bytes">> \in M!Yields
        \/ <<declared, "Int">> \in M!Yields \/ <<declared, "Time">> \in M!Yields
    BY <1>2 DEF M!Foreign, M!Yields
  <2>2. declared \in Dom(M!Yields)
    BY <2>1, InDom
  <2> QED
    BY <1>2, <2>2, MySQLReports
<1>4. /\ ResultFields = M!Fields(declared, ~not_null)
      /\ DescribedFields = M!Fields(declared, ~not_null)
  BY <1>3 DEF ResultFields, DescribedFields
<1>5. \A field \in M!Fields(declared, ~not_null) :
        \E u : <<declared, u>> \in M!FromDb /\ field = Plain(u, ~not_null)
  <2> SUFFICES ASSUME NEW pair \in M!FromDb, pair[1] = declared
               PROVE  <<declared, pair[2]>> \in M!FromDb
    BY DEF M!Fields, Plain
  <2> QED
    BY MySQLTables DEF Functional
<1>6. \A field \in M!Fields(declared, ~not_null) :
        /\ field.type \in ArrowNames /\ field # NotSupported
        /\ <<declared, field.type>> \in M!FromDb
        /\ field.nullable = ~not_null
        /\ M!Fields(declared, ~not_null) = {field}
  <2> SUFFICES ASSUME NEW field \in M!Fields(declared, ~not_null)
               PROVE  /\ field.type \in ArrowNames /\ field # NotSupported
                      /\ <<declared, field.type>> \in M!FromDb
                      /\ field.nullable = ~not_null
                      /\ M!Fields(declared, ~not_null) = {field}
    OBVIOUS
  <2>1. PICK u : <<declared, u>> \in M!FromDb /\ field = Plain(u, ~not_null)
    BY <1>5
  <2>2. u \in ArrowNames
    BY <2>1, MySQLReads
  <2>3. field.type = u /\ field.nullable = ~not_null
    BY <2>1 DEF Plain
  <2>4. NotSupported.type \notin ArrowNames
    BY DEF NotSupported, Plain, ArrowNames, PlainNames, Timestamps, Time32s, Time64s,
           Durations, Intervals, Nested, DecimalNames
  <2>5. M!Fields(declared, ~not_null) = {field}
    BY <2>1, MySQLFields, Zenon
  <2> QED
    BY <2>1, <2>2, <2>3, <2>4, <2>5
<1>7. ResultsGood
  <2>1. ResultFields # {} => declared \in Dom(FromDb[db])
    BY <1>4, <1>6, InDom, Tables
  <2> QED
    BY <1>1, <1>4, <1>6, <2>1, Tables DEF ResultsGood
<1>8. DescribedGood
  <2> SUFFICES ASSUME NEW field \in DescribedFields
               PROVE  /\ field.type \in ArrowNames
                      /\ field.nullable \/ not_null
                      /\ field # NotSupported
                      /\ ResultFields = {field}
    BY <1>4 DEF DescribedGood
  <2> QED
    BY <1>4, <1>6
<1> QED
  BY <1>7, <1>8

LEMMA MySQLStored ==
  ASSUME ColumnInv, db = "mysql"
  PROVE  StoredGood
<1> SUFFICES ASSUME ty \in Types, ty \in Supported[db], ~Gap
             PROVE  /\ ty \in Declared[db] /\ CanDeclare
                    /\ \A null \in BOOLEAN : MayAppend(null) => Sent(null)
                    /\ Created => /\ \A null \in BOOLEAN : MayAppend(null) => Fits(null)
                                  /\ ResultFields # {} /\ DescribedFields # {}
  BY DEF StoredGood
<1>1. ty \in Dom(M!IntoDb)
  BY Tables, Matches DEF ColumnInv
<1>2. ty \in Declared[db]
  BY <1>1, Tables, Matches DEF ColumnInv
<1>3. CanDeclare
  BY TypeParameters, SameNames, SameOperators
     DEF CanDeclare, Gap, M!Declarable, M!ShortDecimals, Named
<1>4. PICK d : <<ty, d>> \in M!IntoDb
  BY <1>1, LookupIn, MySQLTables
<1>5. ty.name \in Transported /\ ty \in Dom(M!Consumes)
  BY <1>4, MySQLStores, InDom
<1>6. \A null \in BOOLEAN : MayAppend(null) => Sent(null)
  BY <1>5, Tables, Matches DEF Sent, ColumnInv
<1>7. ASSUME Created
      PROVE  /\ \A null \in BOOLEAN : MayAppend(null) => Fits(null)
             /\ ResultFields # {} /\ DescribedFields # {}
  <2>1. not_null = (~nullable /\ ty.name # "Null") /\ declared = Lookup(M!IntoDb, ty)
    BY <1>7, Tables DEF Created
  <2>2. <<ty, declared>> \in M!IntoDb
    BY <1>1, <2>1, LookupIn, MySQLTables
  <2>3. ASSUME NEW null \in BOOLEAN, MayAppend(null)
        PROVE  Fits(null)
    <3>1. CASE null
      BY <2>1, <2>3, <3>1 DEF Fits, MayAppend
    <3>2. CASE ~null
      <4>1. ty.name # "Null"
        BY <2>3, <3>2 DEF MayAppend
      <4>2. <<declared, Lookup(M!Consumes, ty)>> \in M!Yields
        BY <1>5, <2>2, <4>1, LookupIn, MySQLTables, MySQLStores
      <4> QED
        BY <3>2, <4>2, Tables DEF Fits
    <3> QED
      BY <3>1, <3>2
  <2>4. PICK u : /\ <<M!QueryName[declared], u>> \in M!FromDb
                 /\ <<M!DescribeName[declared], u>> \in M!FromDb
    <3>1. declared \in Dom(M!Yields)
      BY <2>2, MySQLStores, InDom
    <3> QED
      BY <2>2, <3>1, MySQLReports
  <2>5. \A null : M!Fields(M!QueryName[declared], null) = {Plain(u, null)}
    BY <2>4, MySQLFields
  <2>6. \A null : M!Fields(M!DescribeName[declared], null) = {Plain(u, null)}
    BY <2>4, MySQLFields
  <2> QED
    BY <2>3, <2>5, <2>6 DEF ResultFields, DescribedFields
<1> QED
  BY <1>2, <1>3, <1>6, <1>7

-----------------------------------------------------------------------------
(* DuckDB *)

(* A type that table_create knows is sent as the column's own variant.      *)
LEMMA DuckDBStores ==
  ASSUME NEW t, NEW d, <<t, d>> \in D!Declares
  PROVE  /\ <<t, d>> \in D!IntoDb
         /\ t \in Types /\ t.name \in Transported
         /\ \E c : <<t, c>> \in D!Consumes
         /\ \A c : <<t, c>> \in D!Consumes /\ t.name # "Null" => <<d, c>> \in D!Yields /\ c # "NULL"
<1>1. <<t, d>> \in D!IntoDb
  BY DEF D!Declares, D!IntoDb
<1>2. t \in Types /\ t.name \in Transported
  BY SameOperators, SameNames
     DEF D!Declares, D!Same, Named, Text, Bytes, Timestamps, Transported, ArrowNames,
         PlainNames, Nested
<1>3. \/ <<t, "Null">> \in D!Consumes \/ <<t, "Boolean">> \in D!Consumes
      \/ <<t, "TinyInt">> \in D!Consumes \/ <<t, "SmallInt">> \in D!Consumes
      \/ <<t, "Int">> \in D!Consumes \/ <<t, "BigInt">> \in D!Consumes
      \/ <<t, "UTinyInt">> \in D!Consumes \/ <<t, "USmallInt">> \in D!Consumes
      \/ <<t, "UInt">> \in D!Consumes \/ <<t, "UBigInt">> \in D!Consumes
      \/ <<t, "Float">> \in D!Consumes \/ <<t, "Double">> \in D!Consumes
      \/ <<t, "Timestamp">> \in D!Consumes \/ <<t, "Blob">> \in D!Consumes
      \/ <<t, "Text">> \in D!Consumes
  BY SameOperators, SameNames
     DEF D!Declares, D!Same, D!Consumes, Named, Text, Bytes, Timestamps
<1>4. ASSUME NEW c, <<t, c>> \in D!Consumes, t.name # "Null"
      PROVE  <<d, c>> \in D!Yields /\ c # "NULL"
  BY <1>4, SameOperators, SameNames
     DEF D!Declares, D!Same, D!Consumes, D!Yields, D!Columns, Named, Text, Bytes, Timestamps
<1> QED
  BY <1>1, <1>2, <1>3, <1>4

(* DuckDB's own type of a column is the one type_db_into_arrow says.        *)
LEMMA DuckDBReports ==
  /\ \A t, d : <<t, d>> \in D!Declares =>
       \E u : <<d, u>> \in D!Reports /\ <<d, u>> \in D!FromDb
  /\ \A d, u : <<d, u>> \in D!Reports => u \in ArrowNames
  /\ \A t, d, u : <<t, d>> \in D!Declares /\ <<d, u>> \in D!Reports /\ t.name # "Null" =>
       Lossless(t.name, u)
  /\ <<"DATE", "Date32">> \in D!Reports
<1>1. ASSUME NEW t, NEW d, <<t, d>> \in D!Declares
      PROVE  \E u : <<d, u>> \in D!Reports /\ <<d, u>> \in D!FromDb
  <2> DEFINE Leads(u) == <<d, u>> \in D!Reports /\ <<d, u>> \in D!FromDb
  <2>1. \/ Leads("Int8") \/ Leads("Int16") \/ Leads("Int32") \/ Leads("Int64")
        \/ Leads("UInt8") \/ Leads("UInt16") \/ Leads("UInt32") \/ Leads("UInt64")
        \/ Leads("Float32") \/ Leads("Float64") \/ Leads("Binary") \/ Leads("Utf8")
        \/ Leads("Boolean") \/ Leads("TimestampMicrosecond")
    BY <1>1, SameOperators, SameNames
       DEF D!Declares, D!Same, D!Reports, D!Columns, D!FromDb
  <2> QED
    BY <2>1
<1>2. \A d, u : <<d, u>> \in D!Reports => u \in ArrowNames
  BY DEF D!Reports, D!Columns, ArrowNames, PlainNames, Timestamps
<1>3. ASSUME NEW t, NEW d, NEW u, <<t, d>> \in D!Declares, <<d, u>> \in D!Reports,
             t.name # "Null"
      PROVE  Lossless(t.name, u)
  BY <1>3, SameOperators, SameNames
     DEF D!Declares, D!Same, D!Reports, D!Columns, Named, Text, Bytes, Timestamps, Time32s,
         Time64s, Durations, DecimalNames, Lossless, Whole, Signed, SignedBits, UnsignedBits,
         FloatBits, Bits
<1>4. <<"DATE", "Date32">> \in D!Reports
  BY DEF D!Reports, D!Columns
<1> QED
  BY <1>1, <1>2, <1>3, <1>4

LEMMA DuckDBOwn ==
  ASSUME ColumnInv, CellsInv, EdgeInv, Made, ty \in Types, db = "duckdb"
  PROVE  ResultsGood /\ DescribedGood
<1>1. <<ty, declared>> \in D!Declares
  BY DeclaredIs, Tables, DuckDBTables DEF ColumnInv
<1>2. PICK u : <<declared, u>> \in D!Reports /\ <<declared, u>> \in D!FromDb
  BY <1>1, DuckDBReports
<1>3. u \in ArrowNames
  BY <1>2, DuckDBReports
<1>4. Lookup(D!Reports, declared) = u
  BY <1>2, LookupIs, DuckDBTables
<1>5. ResultFields = {Plain(u, TRUE)} /\ DescribedFields = {Plain(u, TRUE)}
  BY <1>4 DEF ResultFields, DescribedFields
<1>6. Readable(u) <=> ~edge
  BY DEF Readable, EdgeInv
<1>7. HasValue => Lossless(ty.name, u)
  <2>1. Functional(Consumes[db])
    BY Tables, DuckDBTables
  <2>2. HasValue => ty.name # "Null"
    BY <2>1, OwnValue DEF HasValue
  <2> QED
    BY <1>1, <1>2, <2>2, DuckDBReports
<1>8. Plain(u, TRUE) \in Coerced(Override)
  <2>1. Created
    BY DeclaredIs, Tables, DuckDBTables DEF ColumnInv
  <2>2. <<ty, declared>> \in D!IntoDb
    BY <1>1, DuckDBStores
  <2> QED
    BY <1>2, <2>1, <2>2, CoercedField, Tables
<1> QED
  BY <1>3, <1>5, <1>6, <1>7, <1>8, OwnGood

LEMMA DuckDBForeign ==
  ASSUME ColumnInv, CellsInv, EdgeInv, Made, ty = NoType, db = "duckdb"
  PROVE  ResultsGood /\ DescribedGood
<1>1. ty \notin Types
  BY TypesAreNamed
<1>2. declared = "DATE" /\ not_null = FALSE
  BY <1>1, Tables DEF Made, D!Foreign
<1>3. Lookup(D!Reports, declared) = "Date32"
  BY <1>2, DuckDBReports, LookupIs, DuckDBTables
<1>4. ResultFields = {Plain("Date32", TRUE)} /\ DescribedFields = {Plain("Date32", TRUE)}
  BY <1>3 DEF ResultFields, DescribedFields
<1>5. /\ Plain("Date32", TRUE).type = "Date32" /\ Plain("Date32", TRUE).nullable = TRUE
      /\ Plain("Date32", TRUE) # NotSupported
  BY DEF Plain, NotSupported
<1>6. "Date32" \in ArrowNames
  BY DEF ArrowNames, PlainNames
<1>7. ResultsGood
  <2>1. declared \in Dom(FromDb[db])
    <3>1. <<"DATE", "Date64">> \in D!FromDb
      BY DEF D!FromDb
    <3> QED
      BY <1>2, <3>1, InDom, Tables
  <2> QED
    BY <1>1, <1>2, <1>4, <1>5, <1>6, <2>1 DEF ResultsGood
<1>8. DescribedGood
  BY <1>2, <1>4, <1>5, <1>6 DEF DescribedGood
<1> QED
  BY <1>7, <1>8

LEMMA DuckDBStored ==
  ASSUME ColumnInv, db = "duckdb"
  PROVE  StoredGood
<1> SUFFICES ASSUME ty \in Types, ty \in Supported[db], ~Gap
             PROVE  /\ ty \in Declared[db] /\ CanDeclare
                    /\ \A null \in BOOLEAN : MayAppend(null) => Sent(null)
                    /\ Created => /\ \A null \in BOOLEAN : MayAppend(null) => Fits(null)
                                  /\ ResultFields # {} /\ DescribedFields # {}
  BY DEF StoredGood
<1>1. ty \in Dom(D!IntoDb)
  BY Tables, Matches DEF ColumnInv
<1>2. PICK d : <<ty, d>> \in D!IntoDb
  BY <1>1, LookupIn, DuckDBTables
<1>3. <<ty, d>> \in D!Declares
  BY <1>2, SameOperators, SameNames DEF Gap, D!IntoDb, D!Declares, Named
<1>4. ty \in Declared[db] /\ CanDeclare
  BY <1>3, InDom, Tables, Matches DEF ColumnInv, CanDeclare
<1>5. ty.name \in Transported /\ ty \in Dom(D!Consumes)
  BY <1>3, DuckDBStores, InDom
<1>6. \A null \in BOOLEAN : MayAppend(null) => Sent(null)
  BY <1>5, Tables, Matches DEF Sent, ColumnInv
<1>7. ASSUME Created
      PROVE  /\ \A null \in BOOLEAN : MayAppend(null) => Fits(null)
             /\ ResultFields # {} /\ DescribedFields # {}
  <2>1. not_null = (~nullable /\ ty.name # "Null") /\ declared = Lookup(D!Declares, ty)
    BY <1>7, Tables DEF Created
  <2>2. <<ty, declared>> \in D!Declares
    BY <1>3, <2>1, InDom, LookupIn, DuckDBTables
  <2>3. ASSUME NEW null \in BOOLEAN, MayAppend(null)
        PROVE  Fits(null)
    <3>1. CASE null
      BY <2>1, <2>3, <3>1 DEF Fits, MayAppend
    <3>2. CASE ~null
      <4>1. ty.name # "Null"
        BY <2>3, <3>2 DEF MayAppend
      <4>2. <<declared, Lookup(D!Consumes, ty)>> \in D!Yields
        BY <1>5, <2>2, <4>1, LookupIn, DuckDBTables, DuckDBStores
      <4> QED
        BY <3>2, <4>2, Tables DEF Fits
    <3> QED
      BY <3>1, <3>2
  <2> QED
    BY <2>3 DEF ResultFields, DescribedFields
<1> QED
  BY <1>4, <1>6, <1>7

-----------------------------------------------------------------------------
(* SQL Server *)

(* A supported type is sent as the variant that the column takes, decimals  *)
(* by the same test of precision and scale that declared it.                *)
LEMMA TiberiusStores ==
  ASSUME NEW t, NEW d, <<t, d>> \in T!IntoDb
  PROVE  /\ t \in Types /\ t.name \in Transported
         /\ \E c : <<t, c>> \in T!Consumes
         /\ \A c : <<t, c>> \in T!Consumes => <<d, c>> \in T!Yields /\ c # "NULL"
         /\ \E c : <<d, c>> \in T!Yields
<1>1. t \in Types
  BY SameOperators, SameNames DEF T!IntoDb, T!Fitting, Named
<1>2. t.name \in Transported
  BY SameOperators, SameNames
     DEF T!IntoDb, T!Fitting, Named, Text, Timestamps, DecimalNames, Transported, ArrowNames,
         PlainNames, Nested
<1>3. \/ <<t, "U8">> \in T!Consumes \/ <<t, "Bit">> \in T!Consumes
      \/ <<t, "I16">> \in T!Consumes \/ <<t, "I32">> \in T!Consumes
      \/ <<t, "I64">> \in T!Consumes \/ <<t, "Numeric">> \in T!Consumes
      \/ <<t, "F32">> \in T!Consumes \/ <<t, "F64">> \in T!Consumes
      \/ <<t, "String">> \in T!Consumes
  BY SameOperators, SameNames
     DEF T!IntoDb, T!Fitting, T!Consumes, T!ConsumesIntegers, Named, Text, Timestamps,
         DecimalNames
<1>4. ASSUME NEW c, <<t, c>> \in T!Consumes
      PROVE  <<d, c>> \in T!Yields /\ c # "NULL"
  BY <1>4, SameOperators, SameNames
     DEF T!IntoDb, T!Fitting, T!Consumes, T!ConsumesIntegers, T!Yields, Named, Text,
         Timestamps, DecimalNames
<1> QED
  BY <1>1, <1>2, <1>3, <1>4

(* The driver's and the catalogue's names of a type lead to the same field. *)
LEMMA TiberiusReports ==
  ASSUME NEW d \in Dom(T!Yields)
  PROVE  /\ d \in {"nchar", "ntext"} => T!QueryName[d] = d
         /\ \A u : <<T!QueryName[d], u>> \in T!FromDb <=> <<T!DescribeName[d], u>> \in T!FromDb
         /\ \A t : <<t, d>> \in T!IntoDb =>
              \E u : <<d, u>> \in T!FromDb /\ <<T!QueryName[d], u>> \in T!FromDb
<1>1. /\ T!QueryName[d] = CASE d = "numeric" -> "decimal"
                            [] d = "uniqueidentifier" -> "guid"
                            [] d = "varbinary" -> "bigvarbin"
                            [] OTHER -> d
      /\ T!DescribeName[d] = IF d = "float24" THEN "real" ELSE d
  BY SameOperators DEF T!QueryName, T!DescribeName
<1>2. d \in {"nchar", "ntext"} => T!QueryName[d] = d
  BY <1>1
<1>3. \A u : <<T!QueryName[d], u>> \in T!FromDb <=> <<T!DescribeName[d], u>> \in T!FromDb
  BY <1>1 DEF T!FromDb
<1>4. ASSUME NEW t, <<t, d>> \in T!IntoDb
      PROVE  \E u : <<d, u>> \in T!FromDb /\ <<T!QueryName[d], u>> \in T!FromDb
  <2> DEFINE Leads(u) == <<d, u>> \in T!FromDb /\ <<T!QueryName[d], u>> \in T!FromDb
  <2>1. \/ Leads("Boolean") \/ Leads("UInt8") \/ Leads("Int16") \/ Leads("Int32")
        \/ Leads("Int64") \/ Leads("Utf8") \/ Leads("Float32") \/ Leads("Float64")
    BY <1>1, <1>4, SameOperators, SameNames DEF T!IntoDb, T!FromDb
  <2> QED
    BY <2>1
<1> QED
  BY <1>2, <1>3, <1>4

(* What a column yields is read, and its type can hold what was written.    *)
LEMMA TiberiusReads ==
  /\ \A r, u : <<r, u>> \in T!FromDb => u \in ArrowNames
  /\ \A d, c, u : <<d, c>> \in T!Yields /\ <<d, u>> \in T!FromDb => <<u, c>> \in T!Produces
  /\ \A t, d, u : <<t, d>> \in T!IntoDb /\ t.name # "Null" /\ <<d, u>> \in T!FromDb =>
       Lossless(t.name, u)
<1>1. \A r, u : <<r, u>> \in T!FromDb => u \in ArrowNames
  BY DEF T!FromDb, ArrowNames, PlainNames
<1>2. \A d, c, u : <<d, c>> \in T!Yields /\ <<d, u>> \in T!FromDb => <<u, c>> \in T!Produces
  BY DEF T!Yields, T!FromDb, T!Produces
<1>3. ASSUME NEW t, NEW d, NEW u, <<t, d>> \in T!IntoDb, t.name # "Null", <<d, u>> \in T!FromDb
      PROVE  Lossless(t.name, u)
  BY <1>3, SameOperators, SameNames
     DEF T!IntoDb, T!Fitting, T!FromDb, Named, Text, Bytes, Timestamps, Time32s, Time64s,
         Durations, DecimalNames, Lossless, Whole, Signed, SignedBits, UnsignedBits,
         FloatBits, Bits
<1> QED
  BY <1>1, <1>2, <1>3

LEMMA TiberiusOwn ==
  ASSUME ColumnInv, CellsInv, EdgeInv, Made, ty \in Types, db = "tiberius"
  PROVE  ResultsGood /\ DescribedGood
<1>1. <<ty, declared>> \in T!IntoDb
  BY DeclaredIs, Tables, TiberiusTables DEF ColumnInv
<1>2. /\ \E c : <<ty, c>> \in T!Consumes
      /\ \A c : <<ty, c>> \in T!Consumes => <<declared, c>> \in T!Yields /\ c # "NULL"
      /\ \E c : <<declared, c>> \in T!Yields
  BY <1>1, TiberiusStores
<1>3. PICK u : /\ <<declared, u>> \in T!FromDb /\ <<T!QueryName[declared], u>> \in T!FromDb
               /\ <<T!DescribeName[declared], u>> \in T!FromDb
  <2>1. declared \in Dom(T!Yields)
    BY <1>2, InDom
  <2> QED
    BY <1>1, <2>1, TiberiusReports
<1>4. u \in ArrowNames
  BY <1>3, TiberiusReads
<1>5. \A r, null : <<r, u>> \in T!FromDb => T!Field(r, null) = Plain(u, null)
  BY LookupIs, TiberiusTables, SameOperators DEF T!Field, Plain
<1>6. ResultFields = {Plain(u, TRUE)}
  BY <1>3, <1>5 DEF ResultFields
<1>7. DescribedFields = {Plain(u, ~not_null)}
  BY <1>3, <1>5 DEF DescribedFields
<1>8. Functional(Consumes[db])
  BY Tables, TiberiusTables
<1>9. Readable(u) <=> ~edge
  <2>1. \A c : <<declared, c>> \in T!Yields => <<u, c>> \in T!Produces
    BY <1>3, TiberiusReads
  <2>2. u \in Dom(T!Produces)
    BY <1>2, <2>1, InDom
  <2> QED
    BY <1>2, <1>8, <2>1, <2>2, OwnIsRead, Tables
<1>10. HasValue => Lossless(ty.name, u)
  <2>1. HasValue => ty.name # "Null"
    BY <1>8, OwnValue DEF HasValue
  <2> QED
    BY <1>1, <1>3, <2>1, TiberiusReads
<1>11. Plain(u, TRUE) \in Coerced(Override)
  <2>1. Created
    BY DeclaredIs, Tables, TiberiusTables DEF ColumnInv
  <2> QED
    BY <1>1, <1>3, <2>1, CoercedField, Tables
<1>12. ~not_null \/ not_null
  OBVIOUS
<1> QED
  BY <1>4, <1>6, <1>7, <1>9, <1>10, <1>11, <1>12, OwnGood

LEMMA TiberiusForeign ==
  ASSUME ColumnInv, CellsInv, EdgeInv, Made, ty = NoType, db = "tiberius"
  PROVE  ResultsGood /\ DescribedGood
<1>1. ty \notin Types
  BY TypesAreNamed
<1>2. declared \in T!Foreign /\ not_null = FALSE
  BY <1>1, Tables DEF Made
<1>3. declared \in Dom(T!Yields)
  <2>1. \/ <<declared, "String">> \in T!Yields \/ <<declared, "Guid">> \in T!Yields
        \/ <<declared, "DateTime2">> \in T!Yields \/ <<declared, "Binary">> \in T!Yields
    BY <1>2 DEF T!Foreign, T!Yields
  <2> QED
    BY <2>1, InDom
<1>4. /\ declared \in Dom(T!FromDb) => T!QueryName[declared] = declared
      /\ \A u : <<T!QueryName[declared], u>> \in T!FromDb
                <=> <<T!DescribeName[declared], u>> \in T!FromDb
  <2>1. declared \in Dom(T!FromDb) => declared \in {"nchar", "ntext"}
    <3>1. \A u : <<declared, u>> \in T!FromDb => declared \in {"nchar", "ntext"}
      BY <1>2 DEF T!Foreign, T!FromDb
    <3> QED
      BY <3>1, LookupIn, TiberiusTables
  <2> QED
    BY <1>3, <2>1, TiberiusReports
<1> DEFINE field == T!Field(T!QueryName[declared], TRUE)
<1>5. ResultFields = {field}
  BY DEF ResultFields
<1>6. /\ declared \in Dom(T!FromDb) => <<declared, field.type>> \in T!FromDb
      /\ field.type \in ArrowNames
  <2>1. "Binary" \in ArrowNames
    BY DEF ArrowNames, PlainNames
  <2>2. T!QueryName[declared] \in Dom(T!FromDb) =>
          <<T!QueryName[declared], field.type>> \in T!FromDb
    BY LookupIn, TiberiusTables, SameOperators DEF T!Field
  <2>3. T!QueryName[declared] \notin Dom(T!FromDb) => field.type = "Binary"
    BY SameOperators DEF T!Field
  <2> QED
    BY <1>4, <2>1, <2>2, <2>3, TiberiusReads
<1>7. T!Field(T!DescribeName[declared], ~not_null) = field
  <2>1. T!QueryName[declared] \in Dom(T!FromDb) <=> T!DescribeName[declared] \in Dom(T!FromDb)
    BY <1>4, LookupIn, InDom, TiberiusTables
  <2>2. ASSUME T!QueryName[declared] \in Dom(T!FromDb)
        PROVE  Lookup(T!FromDb, T!QueryName[declared]) = Lookup(T!FromDb, T!DescribeName[declared])
    BY <1>4, <2>1, <2>2, LookupIn, LookupIs, TiberiusTables
  <2>3. (~not_null) = TRUE
    BY <1>2
  <2> QED
    BY <2>1, <2>2, <2>3, SameOperators DEF T!Field
<1>8. DescribedFields = {field}
  BY <1>7 DEF DescribedFields
<1>9. field.nullable = TRUE
  BY DEF T!Field
<1>10. declared \notin Dom(T!FromDb) => field = Plain("Binary", TRUE)
  <2>1. declared \notin Dom(T!FromDb) =>
          declared \in {"uniqueidentifier", "datetime2", "varbinary"}
    BY <1>2, InDom DEF T!Foreign, T!FromDb
  <2>2. declared \in {"uniqueidentifier", "datetime2", "varbinary"} =>
          T!QueryName[declared] \in {"guid", "datetime2", "bigvarbin"}
    BY <1>3, SameOperators DEF T!QueryName
  <2>3. \A u : /\ <<"guid", u>> \notin T!FromDb /\ <<"datetime2", u>> \notin T!FromDb
               /\ <<"bigvarbin", u>> \notin T!FromDb
    BY DEF T!FromDb
  <2>4. T!QueryName[declared] \in {"guid", "datetime2", "bigvarbin"} =>
          T!QueryName[declared] \notin Dom(T!FromDb)
    BY <2>3, LookupIn, TiberiusTables
  <2> QED
    BY <2>1, <2>2, <2>4, SameOperators DEF T!Field, Plain
<1> HIDE DEF field
<1>11. field.type = "Binary" => (Readable(field.type) <=> cells = <<>>)
  <2>1. /\ \A c : <<"Binary", c>> \notin T!Produces
        /\ "Binary" \notin Produced[db]
    <3>1. \A c : <<"Binary", c>> \notin T!Produces
      BY DEF T!Produces
    <3>2. "Binary" \notin Dom(T!Produces)
      BY DEF Dom, T!Produces
    <3> QED
      BY <3>1, <3>2, Tables, Matches DEF Dbs
  <2>2. Readable("Binary") <=> DOMAIN cells = {}
    <3>1. ~edge
      BY DEF EdgeInv
    <3> QED
      BY <2>1, <3>1, Tables DEF Readable
  <2>3. DOMAIN cells = {} <=> cells = <<>>
    BY DEF CellsInv
  <2> QED
    BY <2>2, <2>3
<1>12. ResultsGood
  <2>1. Plain("Binary", TRUE).type = "Binary"
    BY DEF Plain
  <2> QED
    BY <1>1, <1>5, <1>6, <1>10, <1>11, <2>1, Tables DEF ResultsGood
<1>13. field # NotSupported
  <2>1. NotSupported.type \notin ArrowNames
    BY DEF NotSupported, Plain, ArrowNames, PlainNames, Timestamps, Time32s, Time64s,
           Durations, Intervals, Nested, DecimalNames
  <2> QED
    BY <1>6, <2>1
<1>14. DescribedGood
  BY <1>5, <1>6, <1>8, <1>9, <1>13 DEF DescribedGood
<1> QED
  BY <1>12, <1>14

LEMMA TiberiusStored ==
  ASSUME ColumnInv, db = "tiberius"
  PROVE  StoredGood
<1> SUFFICES ASSUME ty \in Types, ty \in Supported[db], ~Gap
             PROVE  /\ ty \in Declared[db] /\ CanDeclare
                    /\ \A null \in BOOLEAN : MayAppend(null) => Sent(null)
                    /\ Created => /\ \A null \in BOOLEAN : MayAppend(null) => Fits(null)
                                  /\ ResultFields # {} /\ DescribedFields # {}
  BY DEF StoredGood
<1>1. ty \in Dom(T!IntoDb)
  BY Tables, Matches DEF ColumnInv
<1>2. ty \in Declared[db]
  BY <1>1, Tables, Matches DEF ColumnInv
<1>3. CanDeclare
  <2> SUFFICES ASSUME ty \in T!Fitting
               PROVE  ty.p \in 1..38 /\ ty.s \in 0..ty.p
    BY SameNames DEF CanDeclare, T!Declarable
  <2>1. /\ ty.name \in DecimalNames /\ ty.p < 38 /\ ty.s >= 0 /\ ty.p >= ty.s
    BY SameOperators, SameNames DEF T!Fitting, T!can_decimal_fit_in_numeric, Named
  <2>2. ty.p \in 1..76 /\ ty.s \in Int
    BY <2>1, DecimalsAssumption DEF Types, DecimalNames, PlainNames, Timestamps, Time32s,
       Time64s, Durations, Intervals, Nested
  <2> QED
    BY <2>1, <2>2
<1>4. PICK d : <<ty, d>> \in T!IntoDb
  BY <1>1, LookupIn, TiberiusTables
<1>5. ty.name \in Transported /\ ty \in Dom(T!Consumes)
  BY <1>4, TiberiusStores, InDom
<1>6. \A null \in BOOLEAN : MayAppend(null) => Sent(null)
  BY <1>5, Tables, Matches DEF Sent, ColumnInv
<1>7. ASSUME Created
      PROVE  /\ \A null \in BOOLEAN : MayAppend(null) => Fits(null)
             /\ ResultFields # {} /\ DescribedFields # {}
  <2>1. not_null = (~nullable /\ ty.name # "Null") /\ declared = Lookup(T!IntoDb, ty)
    BY <1>7, Tables DEF Created
  <2>2. <<ty, declared>> \in T!IntoDb
    BY <1>1, <2>1, LookupIn, TiberiusTables
  <2>3. <<declared, Lookup(T!Consumes, ty)>> \in T!Yields
    BY <1>5, <2>2, LookupIn, TiberiusTables, TiberiusStores
  <2>4. ASSUME NEW null \in BOOLEAN, MayAppend(null)
        PROVE  Fits(null)
    <3>1. ~(null /\ not_null)
      BY <2>1, <2>4 DEF MayAppend
    <3> QED
      BY <2>3, <3>1, Tables DEF Fits
  <2> QED
    BY <2>4 DEF ResultFields, DescribedFields
<1> QED
  BY <1>2, <1>3, <1>6, <1>7

-----------------------------------------------------------------------------
(* SQLite *)

(* A supported type is sent as the kind of value that its column is named   *)
(* for.                                                                     *)
LEMMA SQLiteStores ==
  /\ \A t, d : <<t, d>> \in S!IntoDb =>
       /\ t \in Types /\ t.name \in Transported /\ <<t, d>> \in S!Consumes
       /\ t.name = "Null" <=> d = "NULL"
       /\ d \in {"NULL", "INTEGER", "REAL", "TEXT", "BLOB"}
  /\ \A t, c : <<t, c>> \in S!Consumes => <<t, c>> \in S!IntoDb
<1>1. \A t, d : <<t, d>> \in S!IntoDb =>
        /\ t \in Types /\ t.name \in Transported
        /\ t.name = "Null" <=> d = "NULL"
        /\ d \in {"NULL", "INTEGER", "REAL", "TEXT", "BLOB"}
  BY SameOperators, SameNames
     DEF S!IntoDb, Named, Text, Bytes, Timestamps, Time32s, Time64s, Durations, DecimalNames,
         Transported, ArrowNames, PlainNames, Nested
<1>2. S!Consumes = S!IntoDb
  BY DEF S!Consumes, S!IntoDb
<1> QED
  BY <1>1, <1>2

(* The kind of value that was sent is read, and has a declared type.        *)
LEMMA SQLiteReads ==
  ASSUME NEW t, NEW c, <<t, c>> \in S!Consumes, t.name # "Null"
  PROVE  /\ c # "NULL"
         /\ \E u : /\ <<c, u>> \in S!FromDb /\ <<u, c>> \in S!Produces
                   /\ u \in ArrowNames /\ Lossless(t.name, u)
                   /\ \E w : <<c, w>> \in S!DeclTyToArrow /\ Alike(w, u) /\ w \in ArrowNames
<1>1. c \in {"INTEGER", "REAL", "TEXT", "BLOB"}
  BY SameOperators, SameNames
     DEF S!Consumes, Named, Text, Bytes, Timestamps, Time32s, Time64s, Durations, DecimalNames
<1> DEFINE u == CASE c = "INTEGER" -> "Int64" [] c = "REAL" -> "Float64"
                  [] c = "TEXT" -> "Utf8" [] c = "BLOB" -> "Binary"
           w == CASE c = "INTEGER" -> "Int64" [] c = "REAL" -> "Float64"
                  [] c = "TEXT" -> "LargeUtf8" [] c = "BLOB" -> "LargeBinary"
<1>2. <<c, u>> \in S!FromDb /\ <<u, c>> \in S!Produces
  BY <1>1 DEF S!FromDb, S!Produces
<1>3. u \in ArrowNames /\ w \in ArrowNames
  BY <1>1 DEF ArrowNames, PlainNames
<1>4. <<c, w>> \in S!DeclTyToArrow
  BY <1>1 DEF S!DeclTyToArrow
<1>5. Alike(w, u)
  BY <1>1 DEF Alike, Text, Bytes
<1>6. Lossless(t.name, u)
  BY SameOperators, SameNames
     DEF S!Consumes, Named, Text, Bytes, Timestamps, Time32s, Time64s, Durations, DecimalNames,
         Lossless, Whole, Signed, SignedBits, UnsignedBits, FloatBits, Bits
<1> QED
  BY <1>1, <1>2, <1>3, <1>4, <1>5, <1>6

LEMMA LeastNatural ==
  ASSUME NEW N, N \subseteq Nat, N # {}
  PROVE  \E i \in N : \A j \in N : i <= j
<1>1. PICK i \in N : \A j \in N : ~(<<j, i>> \in OpToRel(<, Nat))
  BY NatLessThanWellFounded, WFMin
<1>2. \A j \in N : ~(j < i)
  BY <1>1 DEF OpToRel
<1> QED
  BY <1>2

(* The type infer_schema gives a column is that of one of its values. *)
LEMMA SQLiteInfers ==
  ASSUME CellsInv
  PROVE  /\ ~HasValue => S!Infer(cells) = "Null"
         /\ HasValue => \E i \in DOMAIN cells :
              cells[i] # "NULL" /\ S!Infer(cells) = Lookup(S!FromDb, cells[i])
<1> DEFINE known == { i \in DOMAIN cells : cells[i] # "NULL" }
           first == CHOOSE i \in known : \A j \in known : i <= j
<1>1. S!Infer(cells) = IF known = {} THEN "Null" ELSE Lookup(S!FromDb, cells[first])
  BY SameOperators DEF S!Infer
<1>2. HasValue <=> known # {}
  BY DEF HasValue
<1>3. known # {} => first \in known
  <2>1. DOMAIN cells \subseteq Nat
    BY DEF CellsInv
  <2>2. known \subseteq Nat
    BY <2>1
  <2>3. known # {} => \E i \in known : \A j \in known : i <= j
    BY <2>2, LeastNatural
  <2> QED
    BY <2>3
<1> QED
  BY <1>1, <1>2, <1>3

LEMMA SQLiteOwn ==
  ASSUME ColumnInv, CellsInv, EdgeInv, Made, db = "sqlite"
  PROVE  ResultsGood /\ DescribedGood
<1>1. ty \in Types /\ ty # NoType
  BY Tables, TypesAreNamed DEF Made
<1>2. Created /\ <<ty, declared>> \in S!Declares
  BY <1>1, DeclaredIs, Tables, SQLiteTables DEF ColumnInv
<1>3. Functional(Consumes[db])
  BY Tables, SQLiteTables
<1>4. ResultFields = {Plain(S!Infer(cells), TRUE)}
  BY DEF ResultFields
<1>5. <<ty, declared>> \in S!IntoDb \/ (declared = "untyped" /\ ty \notin Dom(S!IntoDb))
  BY <1>2, SameOperators DEF S!Declares
<1>6. ASSUME HasValue
      PROVE  \E u, w : /\ S!Infer(cells) = u /\ u \in ArrowNames /\ Readable(u)
                       /\ Lossless(ty.name, u)
                       /\ <<ty, declared>> \in S!IntoDb /\ <<declared, u>> \in S!FromDb
                       /\ <<declared, w>> \in S!DeclTyToArrow /\ Alike(w, u)
                       /\ ty.name # "Null"
  <2>1. PICK i \in DOMAIN cells : cells[i] # "NULL" /\ S!Infer(cells) = Lookup(S!FromDb, cells[i])
    BY <1>6, SQLiteInfers
  <2>2. <<ty, cells[i]>> \in S!Consumes /\ ty.name # "Null"
    BY <1>1, <1>3, <2>1, OwnValue, Tables
  <2>3. PICK u : /\ <<cells[i], u>> \in S!FromDb /\ <<u, cells[i]>> \in S!Produces
                 /\ u \in ArrowNames /\ Lossless(ty.name, u)
                 /\ \E w : <<cells[i], w>> \in S!DeclTyToArrow /\ Alike(w, u)
    BY <2>2, SQLiteReads
  <2>4. S!Infer(cells) = u
    BY <2>1, <2>3, LookupIs, SQLiteTables
  <2>5. \A c : <<ty, c>> \in S!Consumes => c = cells[i]
    BY <2>2, SQLiteTables DEF Functional
  <2>6. <<ty, cells[i]>> \in S!IntoDb
    BY <2>2, SQLiteStores
  <2>7. <<ty, declared>> \in S!IntoDb /\ declared = cells[i]
    BY <1>5, <2>6, InDom, SQLiteTables DEF Functional
  <2>8. Readable(u) <=> ~edge
    <3>1. u \in Dom(S!Produces)
      BY <2>3, InDom
    <3> QED
      BY <1>1, <1>3, <2>3, <2>5, <3>1, OwnIsRead, Tables
  <2>9. ~edge
    BY DEF EdgeInv
  <2> QED
    BY <2>2, <2>3, <2>4, <2>7, <2>8, <2>9
<1>7. ASSUME ~HasValue
      PROVE  S!Infer(cells) = "Null" /\ Readable("Null") /\ "Null" \in ArrowNames
  BY <1>7, SQLiteInfers DEF Readable, ArrowNames, PlainNames
<1>8. ASSUME HasValue
      PROVE  Plain(S!Infer(cells), TRUE) \in Coerced(Override)
  <2>1. PICK u : S!Infer(cells) = u /\ <<ty, declared>> \in S!IntoDb /\ <<declared, u>> \in S!FromDb
    BY <1>6, <1>8
  <2>2. Plain(u, TRUE) \in Coerced(Override)
    BY <1>1, <1>2, <2>1, CoercedField, Tables
  <2> QED
    BY <2>1, <2>2
<1>9. ResultsGood
  <2>1. Plain(S!Infer(cells), TRUE).type = S!Infer(cells)
    BY DEF Plain
  <2>2. S!Infer(cells) \in ArrowNames /\ Readable(S!Infer(cells))
    BY <1>6, <1>7
  <2>3. HasValue => Lossless(ty.name, S!Infer(cells))
    BY <1>6
  <2>4. ~edge
    BY DEF EdgeInv
  <2> QED
    BY <1>1, <1>4, <1>8, <2>1, <2>2, <2>3, <2>4 DEF ResultsGood
<1>10. DescribedFields = IF declared \in Dom(S!DeclTyToArrow)
                         THEN {Plain(Lookup(S!DeclTyToArrow, declared), ~not_null)}
                         ELSE {Incompatible}
  BY DEF DescribedFields
<1>11. declared \in {"NULL", "INTEGER", "REAL", "TEXT", "BLOB", "untyped"}
  BY <1>5, SQLiteStores
<1>12. CASE declared \in {"NULL", "untyped"}
  <2>1. declared \notin Dom(S!DeclTyToArrow)
    <3>1. \A w : <<declared, w>> \notin S!DeclTyToArrow
      BY <1>12 DEF S!DeclTyToArrow
    <3> QED
      BY <3>1, LookupIn, SQLiteTables
  <2>2. ~HasValue
    BY <1>6, <2>1, InDom
  <2>3. Incompatible \in Errors /\ Incompatible.nullable = TRUE
    BY DEF Errors, Incompatible, Plain
  <2>4. DescribedGood
    BY <1>10, <1>12, <2>1, <2>2, <2>3 DEF DescribedGood
  <2> QED
    BY <1>9, <2>4
<1>13. CASE declared \in {"INTEGER", "REAL", "TEXT", "BLOB"}
  <2>1. PICK w : <<declared, w>> \in S!DeclTyToArrow /\ w \in ArrowNames
    BY <1>13 DEF S!DeclTyToArrow, ArrowNames, PlainNames
  <2>2. DescribedFields = {Plain(w, ~not_null)}
    BY <1>10, <2>1, LookupIs, SQLiteTables
  <2>3. Plain(w, ~not_null).type = w /\ Plain(w, ~not_null).nullable = ~not_null
    BY DEF Plain
  <2>4. Plain(w, ~not_null) # Incompatible
    <3>1. Incompatible.type \notin ArrowNames
      BY DEF Incompatible, Plain, ArrowNames, PlainNames, Timestamps, Time32s, Time64s,
             Durations, Intervals, Nested, DecimalNames
    <3> QED
      BY <2>1, <2>3, <3>1
  <2>5. HasValue => Alike(w, S!Infer(cells))
    BY <1>6, <2>1, SQLiteTables DEF Functional
  <2>6. Plain(S!Infer(cells), TRUE).type = S!Infer(cells)
    BY DEF Plain
  <2>7. declared \notin {"NULL", "untyped"}
    BY <1>13
  <2>8. DescribedGood
    <3> SUFFICES ASSUME NEW field, field = Plain(w, ~not_null)
                 PROVE  /\ field.type \in ArrowNames
                        /\ field.nullable \/ not_null
                        /\ (field = Incompatible) <=> (declared \in {"NULL", "untyped"})
                        /\ HasValue => \A result \in ResultFields : Alike(field.type, result.type)
      BY <2>2 DEF DescribedGood
    <3> QED
      BY <1>4, <2>1, <2>3, <2>4, <2>5, <2>6, <2>7
  <2> QED
    BY <1>9, <2>8
<1> QED
  BY <1>11, <1>12, <1>13

LEMMA SQLiteStored ==
  ASSUME ColumnInv, db = "sqlite"
  PROVE  StoredGood
<1> SUFFICES ASSUME ty \in Types, ty \in Supported[db], ~Gap
             PROVE  /\ ty \in Declared[db] /\ CanDeclare
                    /\ \A null \in BOOLEAN : MayAppend(null) => Sent(null)
                    /\ Created => /\ \A null \in BOOLEAN : MayAppend(null) => Fits(null)
                                  /\ ResultFields # {} /\ DescribedFields # {}
  BY DEF StoredGood
<1>1. ty \in Dom(S!IntoDb)
  BY Tables, Matches DEF ColumnInv
<1>2. PICK d : <<ty, d>> \in S!IntoDb
  BY <1>1, LookupIn, SQLiteTables
<1>3. <<ty, d>> \in S!Declares
  BY <1>2 DEF S!Declares
<1>4. ty \in Declared[db] /\ CanDeclare
  BY <1>3, InDom, Tables, Matches DEF ColumnInv, CanDeclare
<1>5. ty.name \in Transported /\ ty \in Dom(S!Consumes)
  BY <1>2, SQLiteStores, InDom
<1>6. \A null \in BOOLEAN : MayAppend(null) => Sent(null)
  BY <1>5, Tables, Matches DEF Sent, ColumnInv
<1>7. Created => \A null \in BOOLEAN : MayAppend(null) => Fits(null)
  BY DEF Created, MayAppend, Fits, Gap
<1>8. ResultFields # {} /\ DescribedFields # {}
  BY DEF ResultFields, DescribedFields
<1> QED
  BY <1>4, <1>6, <1>7, <1>8

-----------------------------------------------------------------------------
(* The tables are finite *)

LEMMA TypesAreFinite == IsFiniteSet(Types)
<1>1. IsFiniteSet(PlainNames)
  <2> DEFINE A == {"Null", "Boolean", "Int8", "Int16", "Int32", "Int64"}
             B == {"UInt8", "UInt16", "UInt32", "UInt64", "Float16", "Float32"}
             C == {"Float64", "Date32", "Date64", "Binary", "LargeBinary", "Utf8"}
             E == {"LargeUtf8", "TimestampSecond", "TimestampMillisecond",
                   "TimestampMicrosecond", "TimestampNanosecond", "Time32Second"}
             F == {"Time32Millisecond", "Time64Microsecond", "Time64Nanosecond",
                   "DurationSecond", "DurationMillisecond", "DurationMicrosecond"}
             G == {"DurationNanosecond", "IntervalYearMonth", "IntervalDayTime",
                   "IntervalMonthDayNano", "List", "List"}
  <2>1. /\ IsFiniteSet(A) /\ IsFiniteSet(B) /\ IsFiniteSet(C)
        /\ IsFiniteSet(E) /\ IsFiniteSet(F) /\ IsFiniteSet(G)
    BY SixAreFinite, Zenon
  <2>2. PlainNames \subseteq A \cup (B \cup (C \cup (E \cup (F \cup G))))
    BY DEF PlainNames, Timestamps, Time32s, Time64s, Durations, Intervals, Nested
  <2> HIDE DEF A, B, C, E, F, G
  <2>3. IsFiniteSet(A \cup (B \cup (C \cup (E \cup (F \cup G)))))
    BY <2>1, FS_Union
  <2> QED
    BY <2>2, <2>3, FS_Subset
<1> DEFINE Choices == (PlainNames \cup ({"FixedSizeBinary"} \cup DecimalNames))
                         \X ((0..76) \X (-128..127))
           record(x) == [name |-> x[1], p |-> x[2][1], s |-> x[2][2]]
<1>2. IsFiniteSet(Choices)
  <2>1. IsFiniteSet(DecimalNames)
    <3>1. IsFiniteSet({"Decimal128", "Decimal256", "Decimal256", "Decimal256", "Decimal256",
                       "Decimal256"})
      BY SixAreFinite, Zenon
    <3>2. DecimalNames = {"Decimal128", "Decimal256", "Decimal256", "Decimal256", "Decimal256",
                          "Decimal256"}
      BY DEF DecimalNames
    <3> QED
      BY <3>1, <3>2
  <2>2. IsFiniteSet(PlainNames \cup ({"FixedSizeBinary"} \cup DecimalNames))
    BY <1>1, <2>1, FS_Union, FS_Singleton
  <2>3. IsFiniteSet(0..76) /\ IsFiniteSet(-128..127)
    <3>1. 0 \in Int /\ 76 \in Int /\ -128 \in Int /\ 127 \in Int
      OBVIOUS
    <3> QED
      BY <3>1, FS_Interval
  <2>4. IsFiniteSet((0..76) \X (-128..127))
    BY <2>3, FS_Product
  <2> QED
    BY <2>2, <2>4, FS_Product
<1> DEFINE f == [x \in Choices |-> record(x)]
           R == { record(x) : x \in Choices }
<1>3. IsFiniteSet(R)
  <2>1. f \in Surjection(Choices, R)
    <3> HIDE DEF Choices
    <3>1. f \in [Choices -> R]
      OBVIOUS
    <3>2. \A r \in R : \E x \in Choices : f[x] = r
      OBVIOUS
    <3> HIDE DEF f, R
    <3> QED
      BY <3>1, <3>2, Fun_IsSurj
  <2> HIDE DEF f, Choices, R
  <2> QED
    BY <1>2, <2>1, FS_Surjection
<1>4. \A t \in Types : /\ t = [name |-> t.name, p |-> t.p, s |-> t.s]
                       /\ t.name \in PlainNames \cup ({"FixedSizeBinary"} \cup DecimalNames)
                       /\ t.p \in 0..76 /\ t.s \in -128..127
  BY DecimalsAssumption DEF Types
<1>5. Types \subseteq R
  <2> SUFFICES ASSUME NEW t \in Types
               PROVE  \E x \in Choices : t = record(x)
    OBVIOUS
  <2> DEFINE x == <<t.name, <<t.p, t.s>>>>
  <2>1. x \in Choices
    BY <1>4
  <2>2. t = record(x)
    BY <1>4
  <2> QED
    BY <2>1, <2>2
<1> QED
  BY <1>3, <1>5, FS_Subset

(* A functional relation of arrow types is a table. *)
LEMMA TableOfTypes ==
  ASSUME NEW R, Functional(R), \A x, y : <<x, y>> \in R => x \in Types
  PROVE  IsTable(R)
<1>1. Dom(R) \subseteq Types
  BY LookupIn
<1> QED
  BY <1>1, TypesAreFinite, FS_Subset, FunctionalTable

LEMMA TablesIntoDb ==
  /\ IsTable(P!IntoDb) /\ IsTable(S!IntoDb) /\ IsTable(M!IntoDb) /\ IsTable(D!IntoDb)
  /\ IsTable(T!IntoDb) /\ IsTable(S!Declares) /\ IsTable(D!Declares)
<1>1. \A x, y : <<x, y>> \in P!IntoDb => x \in Types
  BY PostgresStores
<1>2. \A x, y : <<x, y>> \in S!IntoDb => x \in Types
  BY SQLiteStores
<1>3. \A x, y : <<x, y>> \in M!IntoDb => x \in Types
  BY SameOperators, SameNames DEF M!IntoDb, M!ShortDecimals, M!FixedSize, Named, Types
<1>4. \A x, y : <<x, y>> \in D!IntoDb => x \in Types
  BY SameOperators, SameNames DEF D!IntoDb, D!Same, Named
<1>5. \A x, y : <<x, y>> \in T!IntoDb => x \in Types
  BY TiberiusStores
<1>6. \A x, y : <<x, y>> \in S!Declares => x \in Types
  BY <1>2, SameNames DEF S!Declares
<1>7. \A x, y : <<x, y>> \in D!Declares => x \in Types
  BY DuckDBStores
<1> QED
  BY <1>1, <1>2, <1>3, <1>4, <1>5, <1>6, <1>7, TableOfTypes, PostgresTables, SQLiteTables,
     MySQLTables, DuckDBTables, TiberiusTables

LEMMA TablesConsumes ==
  /\ IsTable(P!Consumes) /\ IsTable(S!Consumes) /\ IsTable(M!Consumes) /\ IsTable(D!Consumes)
  /\ IsTable(T!Consumes)
<1>1. \A x, y : <<x, y>> \in P!Consumes => x \in Types
  BY SameOperators, SameNames DEF P!Consumes, Named
<1>2. \A x, y : <<x, y>> \in S!Consumes => x \in Types
  BY SQLiteStores
<1>3. \A x, y : <<x, y>> \in M!Consumes => x \in Types
  BY SameOperators, SameNames DEF M!Consumes, Named
<1>4. \A x, y : <<x, y>> \in D!Consumes => x \in Types
  BY SameOperators, SameNames DEF D!Consumes, Named
<1>5. \A x, y : <<x, y>> \in T!Consumes => x \in Types
  BY SameOperators, SameNames DEF T!Consumes, T!ConsumesIntegers, T!Fitting, Named
<1> QED
  BY <1>1, <1>2, <1>3, <1>4, <1>5, TableOfTypes, PostgresTables, SQLiteTables,
     MySQLTables, DuckDBTables, TiberiusTables

(* A functional relation of few names is a table. *)
LEMMA TableOfNames ==
  ASSUME NEW R, Functional(R), NEW N, IsFiniteSet(N), \A x, y : <<x, y>> \in R => x \in N
  PROVE  IsTable(R)
<1>1. Dom(R) \subseteq N
  BY LookupIn
<1> QED
  BY <1>1, FS_Subset, FunctionalTable

LEMMA TablesFromDb ==
  /\ IsTable(P!FromDb) /\ IsTable(S!FromDb) /\ IsTable(M!FromDb) /\ IsTable(D!FromDb)
  /\ IsTable(T!FromDb)
<1>1. IsTable(P!FromDb)
  <2> DEFINE A == {"boolean", "bool", "smallint", "int2", "integer", "int4"}
             B == {"bigint", "int8", "real", "float4", "double_precision", "float8"}
             C == {"numeric", "decimal", "text", "varchar", "char", "bpchar"}
             E == {"timestamp", "timestamptz", "date", "time", "interval", "bytea"}
             F == {"bit", "bit_varying", "varbit", "varbit", "varbit", "varbit"}
  <2>1. /\ IsFiniteSet(A) /\ IsFiniteSet(B) /\ IsFiniteSet(C) /\ IsFiniteSet(E)
        /\ IsFiniteSet(F)
    BY SixAreFinite, Zenon
  <2>2. \A x, y : <<x, y>> \in P!FromDb => x \in A \cup (B \cup (C \cup (E \cup F)))
    BY DEF P!FromDb
  <2> HIDE DEF A, B, C, E, F
  <2>3. IsFiniteSet(A \cup (B \cup (C \cup (E \cup F))))
    BY <2>1, FS_Union
  <2> QED
    BY <2>2, <2>3, TableOfNames, PostgresTables
<1>2. IsTable(S!FromDb)
  <2>1. IsFiniteSet({"NULL", "INTEGER", "REAL", "TEXT", "BLOB", "BLOB"})
    BY SixAreFinite, Zenon
  <2>2. \A x, y : <<x, y>> \in S!FromDb =>
          x \in {"NULL", "INTEGER", "REAL", "TEXT", "BLOB", "BLOB"}
    BY DEF S!FromDb
  <2> QED
    BY <2>1, <2>2, TableOfNames, SQLiteTables
<1>3. IsTable(M!FromDb)
  <2> DEFINE A == {"null", "tinyint", "bool", "boolean", "smallint", "integer"}
             B == {"int", "bigint", "tinyint_unsigned", "smallint_unsigned",
                   "integer_unsigned", "int_unsigned"}
             C == {"bigint_unsigned", "bit", "tinyblob", "mediumblob", "longblob", "blob"}
             E == {"binary", "real", "float", "float4", "double", "float8"}
             F == {"tinytext", "mediumtext", "longtext", "text", "varchar", "char"}
             G == {"decimal", "numeric", "newdecimal", "datetime", "timestamp", "timestamp"}
  <2>1. /\ IsFiniteSet(A) /\ IsFiniteSet(B) /\ IsFiniteSet(C) /\ IsFiniteSet(E)
        /\ IsFiniteSet(F) /\ IsFiniteSet(G)
    BY SixAreFinite, Zenon
  <2>2. \A x, y : <<x, y>> \in M!FromDb => x \in A \cup (B \cup (C \cup (E \cup (F \cup G))))
    BY DEF M!FromDb, M!FromDbIntegers, M!FromDbBinary
  <2> HIDE DEF A, B, C, E, F, G
  <2>3. IsFiniteSet(A \cup (B \cup (C \cup (E \cup (F \cup G)))))
    BY <2>1, FS_Union
  <2> QED
    BY <2>2, <2>3, TableOfNames, MySQLTables
<1>4. IsTable(D!FromDb)
  <2> DEFINE A == {"BOOLEAN", "TINYINT", "SMALLINT", "INTEGER", "BIGINT", "UTINYINT"}
             B == {"USMALLINT", "UINTEGER", "UBIGINT", "REAL", "DOUBLE", "TIMESTAMP"}
             C == {"DATE", "BLOB", "VARCHAR", "VARCHAR", "VARCHAR", "VARCHAR"}
  <2>1. IsFiniteSet(A) /\ IsFiniteSet(B) /\ IsFiniteSet(C)
    BY SixAreFinite, Zenon
  <2>2. \A x, y : <<x, y>> \in D!FromDb => x \in A \cup (B \cup C)
    BY DEF D!FromDb
  <2> HIDE DEF A, B, C
  <2>3. IsFiniteSet(A \cup (B \cup C))
    BY <2>1, FS_Union
  <2> QED
    BY <2>2, <2>3, TableOfNames, DuckDBTables
<1>5. IsTable(T!FromDb)
  <2> DEFINE A == {"null", "intn", "bit", "tinyint", "smallint", "int"}
             B == {"bigint", "char", "nchar", "varchar", "nvarchar", "text"}
             C == {"ntext", "decimal", "numeric", "real", "float24", "float"}
             E == {"float53", "float53", "float53", "float53", "float53", "float53"}
  <2>1. IsFiniteSet(A) /\ IsFiniteSet(B) /\ IsFiniteSet(C) /\ IsFiniteSet(E)
    BY SixAreFinite, Zenon
  <2>2. \A x, y : <<x, y>> \in T!FromDb => x \in A \cup (B \cup (C \cup E))
    BY DEF T!FromDb
  <2> HIDE DEF A, B, C, E
  <2>3. IsFiniteSet(A \cup (B \cup (C \cup E)))
    BY <2>1, FS_Union
  <2> QED
    BY <2>2, <2>3, TableOfNames, TiberiusTables
<1> QED
  BY <1>1, <1>2, <1>3, <1>4, <1>5

(* No match of a connector gives two answers. *)
LEMMA OneAnswer ==
  ASSUME NEW d \in Dbs, NEW tables \in {IntoDb, Declares, Consumes, FromDb}
  PROVE  IsTable(tables[d])
<1>1. CASE tables = IntoDb
  BY <1>1, Tables, TablesIntoDb DEF Dbs
<1>2. CASE tables = Declares
  BY <1>2, Tables, TablesIntoDb DEF Dbs
<1>3. CASE tables = Consumes
  BY <1>3, Tables, TablesConsumes DEF Dbs
<1>4. CASE tables = FromDb
  BY <1>4, Tables, TablesFromDb DEF Dbs
<1> QED
  BY <1>1, <1>2, <1>3, <1>4

-----------------------------------------------------------------------------
(* All connectors *)

LEMMA AllGood ==
  ASSUME ColumnInv, CellsInv, EdgeInv, Made
  PROVE  ResultsGood /\ DescribedGood
<1>1. db \in Dbs /\ (ty \in Types \/ ty = NoType)
  BY DEF ColumnInv, Made
<1>2. CASE db = "postgres"
  BY <1>1, <1>2, PostgresOwn, PostgresForeign
<1>3. CASE db = "sqlite"
  BY <1>3, SQLiteOwn
<1>4. CASE db = "mysql"
  BY <1>1, <1>4, MySQLOwn, MySQLForeign
<1>5. CASE db = "duckdb"
  BY <1>1, <1>5, DuckDBOwn, DuckDBForeign
<1>6. CASE db = "tiberius"
  BY <1>1, <1>6, TiberiusOwn, TiberiusForeign
<1> QED
  BY <1>1, <1>2, <1>3, <1>4, <1>5, <1>6 DEF Dbs

LEMMA AllStored ==
  ASSUME ColumnInv
  PROVE  StoredGood
<1>1. db \in Dbs
  BY DEF ColumnInv
<1> QED
  BY <1>1, PostgresStored, SQLiteStored, MySQLStored, DuckDBStored, TiberiusStored DEF Dbs

(* ConsumeTy makes no null of a value, and a type Null that is stored is    *)
(* coerced to another.                                                      *)
LEMMA Nulls ==
  ASSUME db \in Dbs, ty \in Types
  PROVE  /\ Functional(Consumes[db])
         /\ \A c : <<ty, c>> \in Consumes[db] /\ ty.name # "Null" => c # "NULL"
         /\ ty.name = "Null" /\ ty \in Supported[db] => CoercedTypes # {}
<1>1. Functional(Consumes[db])
  BY Tables, PostgresTables, SQLiteTables, MySQLTables, DuckDBTables, TiberiusTables DEF Dbs
<1>2. ASSUME NEW c, <<ty, c>> \in Consumes[db], ty.name # "Null"
      PROVE  c # "NULL"
  <2>1. c # "NULL" \/ db # "postgres"
    BY <1>2, Tables, SameOperators, SameNames DEF P!Consumes
  <2>2. c # "NULL" \/ db # "sqlite"
    BY <1>2, Tables, SameOperators, SameNames DEF S!Consumes, Named
  <2>3. c # "NULL" \/ db # "mysql"
    BY <1>2, Tables, SameOperators, SameNames DEF M!Consumes, Named
  <2>4. c # "NULL" \/ db # "duckdb"
    BY <1>2, Tables, SameOperators, SameNames DEF D!Consumes
  <2>5. c # "NULL" \/ db # "tiberius"
    BY <1>2, Tables, SameOperators, SameNames DEF T!Consumes, T!ConsumesIntegers
  <2> QED
    BY <2>1, <2>2, <2>3, <2>4, <2>5 DEF Dbs
<1>3. ASSUME ty.name = "Null"
      PROVE  \E d, u : <<ty, d>> \in IntoDb[db] /\ <<d, u>> \in FromDb[db]
  <2>1. ty \in Named({"Null"}) /\ ty \in Named({"Null", "Int8", "Int16", "UInt8"})
        /\ ty \in Named({"Null", "Boolean", "Int8"}) /\ ty \in Named({"Null", "Int64"})
        /\ ty \in Named({"Null", "UInt8"})
    BY <1>3 DEF Named
  <2>2. <<ty, "smallint">> \in P!IntoDb /\ <<"smallint", "Int16">> \in P!FromDb
    BY <2>1, SameOperators DEF P!IntoDb, P!FromDb
  <2>3. <<ty, "NULL">> \in S!IntoDb /\ <<"NULL", "Null">> \in S!FromDb
    BY <2>1, SameOperators DEF S!IntoDb, S!FromDb
  <2>4. <<ty, "tinyint">> \in M!IntoDb /\ <<"tinyint", "Int8">> \in M!FromDb
    BY <2>1, SameOperators DEF M!IntoDb, M!FromDb, M!FromDbIntegers
  <2>5. <<ty, "BIGINT">> \in D!IntoDb /\ <<"BIGINT", "Int64">> \in D!FromDb
    BY <2>1, SameOperators DEF D!IntoDb, D!Same, D!FromDb
  <2>6. <<ty, "tinyint">> \in T!IntoDb /\ <<"tinyint", "UInt8">> \in T!FromDb
    BY <2>1, SameOperators DEF T!IntoDb, T!FromDb
  <2> QED
    BY <2>2, <2>3, <2>4, <2>5, <2>6, Tables DEF Dbs
<1>4. ASSUME NEW d, NEW u, <<ty, d>> \in IntoDb[db], <<d, u>> \in FromDb[db]
      PROVE  CoercedTypes # {}
  <2>1. <<d, u>>[1] = d /\ <<d, u>>[2] = u
    OBVIOUS
  <2> QED
    BY <1>4, <2>1 DEF CoercedTypes
<1> QED
  BY <1>1, <1>2, <1>3, <1>4

(* There are nulls only where they may be. *)
LEMMA NullsAllowed ==
  ASSUME ColumnInv, CellsInv, Made, HasNull
  PROVE  /\ not_null = FALSE
         /\ ty \in Types => nullable \/ ty.name = "Null"
<1>1. PICK i \in DOMAIN cells : cells[i] = "NULL"
  BY DEF HasNull
<1>2. CASE ty \in Types
  <2>1. ~not_null /\ (nullable \/ ty.name = "Null")
    BY <1>1, <1>2, OwnNull, Nulls DEF ColumnInv
  <2> QED
    BY <2>1 DEF ColumnInv
<1>3. CASE ty \notin Types
  BY <1>3 DEF Made
<1> QED
  BY <1>2, <1>3

(* The parameter of the column's own native type is taken. *)
LEMMA NativeTaken ==
  /\ "none" \notin Natives
  /\ \A name \in ArrowNames :
       Native[name] \in Natives => vec_to_record_batch(name, Native[name], TRUE)
<1>1. \A native, name : <<native, name>> \in Plains \cup Pairs => native # "none"
  BY DEF Plains, Pairs
<1>2. ASSUME NEW native \in Natives
      PROVE  \E name : <<native, name>> \in Plains \cup Pairs
  <2>1. PICK pair \in Plains \cup Pairs : native = pair[1]
    BY DEF Natives, Dom
  <2>2. pair = <<pair[1], pair[2]>>
    BY <2>1 DEF Plains, Pairs
  <2> QED
    BY <2>1, <2>2
<1>3. ASSUME NEW name \in ArrowNames, Native[name] \in Natives
      PROVE  <<Native[name], name>> \in Plains \cup Pairs
  <2>1. name \notin {"Null", "Float16", "List"}
    <3>1. \A native, type : <<native, type>> \in Plains \cup Pairs => native \notin {"()", "f16"}
      BY DEF Plains, Pairs
    <3>2. Native[name] \notin {"()", "f16"}
      BY <1>2, <1>3, <3>1
    <3>3. name \in {"Null", "Float16", "List"} => Native[name] \in {"()", "f16"}
      BY DEF Native, Text, Bytes, Timestamps, Time32s, Time64s, Durations
    <3> QED
      BY <3>2, <3>3
  <2>2. CASE name \in {"Boolean", "Int8", "Int16", "Int32", "Int64", "UInt8", "UInt16", "UInt32",
                      "UInt64", "Float32", "Float64", "Binary", "Utf8"}
    <3>1. /\ name = "Boolean" => Native[name] = "bool"
          /\ name = "Int8" => Native[name] = "i8"
          /\ name = "Int16" => Native[name] = "i16"
          /\ name = "Int32" => Native[name] = "i32"
          /\ name = "Int64" => Native[name] = "i64"
      BY DEF Native, Text, Bytes, Timestamps, Time32s, Time64s, Durations
    <3>2. /\ name = "UInt8" => Native[name] = "u8"
          /\ name = "UInt16" => Native[name] = "u16"
          /\ name = "UInt32" => Native[name] = "u32"
          /\ name = "UInt64" => Native[name] = "u64"
      BY DEF Native, Text, Bytes, Timestamps, Time32s, Time64s, Durations
    <3>3. /\ name = "Float32" => Native[name] = "f32"
          /\ name = "Float64" => Native[name] = "f64"
          /\ name = "Binary" => Native[name] = "Vec<u8>"
          /\ name = "Utf8" => Native[name] = "String"
      BY DEF Native, Text, Bytes, Timestamps, Time32s, Time64s, Durations
    <3> QED
      BY <2>2, <3>1, <3>2, <3>3 DEF Plains
  <2>3. CASE name \in {"Date32", "IntervalYearMonth"} \cup Time32s
    <3>1. Native[name] = "i32"
      BY <2>3 DEF Native, Time32s, Time64s, Timestamps, Durations, Text, Bytes
    <3> QED
      BY <2>3, <3>1 DEF Pairs
  <2>4. CASE name \in {"Date64"} \cup Timestamps \cup Time64s \cup Durations
    <3>1. Native[name] = "i64"
      BY <2>4 DEF Native, Time32s, Time64s, Timestamps, Durations, Text, Bytes
    <3> QED
      BY <2>4, <3>1 DEF Pairs
  <2>5. CASE name \in {"IntervalDayTime", "IntervalMonthDayNano", "Decimal128", "Decimal256",
                      "LargeUtf8"}
    <3>1. <<Native[name], name>> \in Pairs
      BY <2>5 DEF Native, Pairs, Time32s, Time64s, Timestamps, Durations, Text, Bytes
    <3> QED
      BY <3>1
  <2>6. CASE name \in {"LargeBinary", "FixedSizeBinary"}
    <3>1. Native[name] = "Vec<u8>"
      BY <2>6 DEF Native, Time32s, Time64s, Timestamps, Durations, Text, Bytes
    <3> QED
      BY <2>6, <3>1 DEF Pairs
  <2> QED
    BY <2>1, <2>2, <2>3, <2>4, <2>5, <2>6
       DEF ArrowNames, PlainNames, Nested, Intervals, DecimalNames
<1> QED
  BY <1>1, <1>2, <1>3 DEF vec_to_record_batch

LEMMA OwnTypes ==
  ASSUME ColumnInv
  PROVE  /\ Own <=> ty \in Types
         /\ ~Own <=> ty = NoType
  BY TypesAreNamed DEF ColumnInv, Made, Own

-----------------------------------------------------------------------------
(* The steps *)

LEMMA RoundtripInitially ==
  ASSUME RoundtripInit
  PROVE  RoundtripInv
<1>1. db \in Dbs /\ parameter = NoParameter /\ queried = NoField /\ described = NoField
  BY DEF RoundtripInit
<1>2. CASE ty \in Types /\ nullable \in BOOLEAN /\ declared = "untyped" /\ not_null = FALSE
           /\ cells = <<>> /\ edge = FALSE /\ altered = FALSE /\ phase = "new"
  <2>1. Fresh
    BY <1>1, <1>2 DEF Fresh
  <2>2. ColumnInv
    BY <1>1, <1>2, <2>1 DEF ColumnInv
  <2>3. ty # NoType
    BY <1>2, TypesAreNamed
  <2>4. CellsInv
    BY <1>2, <2>3, MaxCellsAssumption DEF CellsInv
  <2>5. EdgeInv
    BY <1>2 DEF EdgeInv
  <2> QED
    BY <1>1, <1>2, <2>2, <2>4, <2>5 DEF RoundtripInv, ResultInv, FailInv
<1>3. CASE /\ ty = NoType /\ nullable = TRUE
           /\ declared \in Foreign[db] /\ not_null = FALSE
           /\ \E n \in 0..MaxCells :
                cells \in [1..n -> {"NULL", Lookup(Yields[db], declared)}]
           /\ edge \in BOOLEAN /\ (edge => db = "postgres") /\ altered = FALSE
           /\ phase = "open"
  <2>1. ColumnInv
    BY <1>1, <1>3 DEF ColumnInv, Made
  <2>2. ty \notin Types
    BY <1>3, TypesAreNamed
  <2>3. PICK n \in 0..MaxCells : cells \in [1..n -> {"NULL", Lookup(Yields[db], declared)}]
    BY <1>3
  <2>4. {"NULL", Lookup(Yields[db], declared)} \subseteq Kinds
    BY <1>1, <1>3 DEF Kinds, ForeignKinds
  <2>5. cells \in Seq(Kinds) /\ Len(cells) = n
    <3>1. n \in Nat /\ cells \in [1..n -> Kinds]
      BY <2>3, <2>4, MaxCellsAssumption
    <3> QED
      BY <3>1
  <2>6. CellsInv
    BY <2>2, <2>3, <2>5, MaxCellsAssumption DEF CellsInv
  <2>7. EdgeInv
    BY <1>3, <2>2 DEF EdgeInv
  <2> QED
    BY <1>1, <1>3, <2>1, <2>6, <2>7 DEF RoundtripInv, ResultInv, FailInv
<1> QED
  BY <1>2, <1>3 DEF RoundtripInit

(* Each action keeps the invariant.                                         *)
LEMMA TableCreateStep ==
  ASSUME RoundtripInv, TableCreate
  PROVE  RoundtripInv'
<1>1. /\ ty \in Types /\ ty' = ty /\ db' = db /\ nullable' = nullable /\ cells' = cells
      /\ parameter' = parameter /\ queried' = queried /\ described' = described
      /\ phase' = "open" /\ Fresh /\ nullable \in BOOLEAN /\ db \in Dbs
      /\ parameter \in [native : Natives, exact : BOOLEAN] \cup {NoParameter}
  BY DEF TableCreate, RoundtripInv, ColumnInv
<1>2. Created'
  <2>1. CanDeclare'
    BY <1>1 DEF TableCreate, CanDeclare
  <2>2. ty \in Declared[db]
    BY DEF TableCreate
  <2>3. declared' = Lookup(Declares[db], ty)
    BY DEF TableCreate
  <2>4. not_null' = (~nullable /\ (db = "sqlite" \/ ty.name # "Null"))
    BY DEF TableCreate
  <2> QED
    BY <1>1, <2>1, <2>2, <2>3, <2>4 DEF Created
<1>3. Made'
  BY <1>1, <1>2 DEF Made
<1>4. not_null' \in BOOLEAN
  BY DEF TableCreate
<1>5. ColumnInv'
  BY <1>1, <1>3, <1>4 DEF ColumnInv
<1>6. ty # NoType
  BY <1>1, TypesAreNamed
<1>7. CellsInv'
  BY <1>1, <1>6, MaxCellsAssumption DEF Fresh, CellsInv
<1>8. queried' = NoField /\ described' = NoField
  BY <1>1 DEF Fresh
<1>9. EdgeInv'
  BY DEF TableCreate, RoundtripInv, EdgeInv
<1> QED
  BY <1>1, <1>5, <1>7, <1>8, <1>9 DEF RoundtripInv, ResultInv, FailInv

LEMMA CreateFailsStep ==
  ASSUME RoundtripInv, CreateRefused \/ CreatePanics
  PROVE  RoundtripInv'
<1>1. /\ UNCHANGED <<column, parameter, queried, described>>
      /\ ty \in Types /\ Fresh /\ phase' \in {"refused", "panicked"}
  BY DEF CreateRefused, CreatePanics, RoundtripInv, ColumnInv
<1>2. UNCHANGED <<db, ty, nullable, declared, not_null, cells>>
  BY <1>1 DEF column
<1>3. Fresh'
  BY <1>1, <1>2 DEF Fresh
<1>4. ColumnInv'
  BY <1>1, <1>2, <1>3 DEF ColumnInv, RoundtripInv
<1>5. CellsInv'
  BY <1>1, SameCells DEF RoundtripInv
<1>6. queried' = NoField /\ described' = NoField
  BY <1>3 DEF Fresh
<1>7. phase' = "refused" => ty \in Declared[db] /\ ~CanDeclare
  BY DEF CreateRefused, CreatePanics, CanDeclare
<1>8. phase' = "panicked" => ty \notin Declared[db]
  BY DEF CreateRefused, CreatePanics
<1>9. CanDeclare' <=> CanDeclare
  BY <1>2, SameColumn
<1>10. EdgeInv'
  BY <1>1, SameEdge DEF RoundtripInv
<1> QED
  BY <1>1, <1>2, <1>3, <1>4, <1>5, <1>6, <1>7, <1>8, <1>9, <1>10
     DEF RoundtripInv, ResultInv, FailInv

(* What may be appended to is a table of the library's, not yet queried. *)
LEMMA Appendable ==
  ASSUME RoundtripInv, NEW null \in BOOLEAN, CanAppend(null)
  PROVE  /\ ty \in Types /\ ty # NoType /\ Created /\ Made /\ phase = "open"
         /\ queried = NoField /\ described = NoField
         /\ MayAppend(null) /\ Len(cells) < MaxCells
<1>1. /\ phase = "open" /\ ty # NoType /\ queried = NoField /\ described = NoField
      /\ MayAppend(null) /\ Len(cells) < MaxCells
  BY DEF CanAppend, Own, MayAppend
<1>2. Made
  BY <1>1 DEF RoundtripInv, ColumnInv
<1> QED
  BY <1>1, <1>2 DEF Made

(* A cell more, as Sent and Fits have it. *)
LEMMA CellStep ==
  ASSUME RoundtripInv, NEW null \in BOOLEAN, CanAppend(null), Sent(null), Fits(null),
         cells' = Append(cells, IF null THEN "NULL" ELSE Lookup(Consumes[db], ty)),
         \E value \in {"null"} \cup Values : Stores(value),
         UNCHANGED <<db, ty, nullable, declared, not_null, parameter, phase, queried, described>>
  PROVE  RoundtripInv'
<1>1. /\ ty \in Types /\ ty # NoType /\ Created /\ Made /\ phase = "open"
      /\ queried = NoField /\ described = NoField
      /\ MayAppend(null) /\ Len(cells) < MaxCells
  BY Appendable
<1>2. Made' /\ \A n \in BOOLEAN : /\ MayAppend(n)' <=> MayAppend(n)
                                  /\ Sent(n)' <=> Sent(n)
                                  /\ Fits(n)' <=> Fits(n)
  BY <1>1, SameColumn
<1>3. ColumnInv'
  BY <1>1, <1>2 DEF RoundtripInv, ColumnInv
<1>4. CellsInv'
  <2> DEFINE kind == IF null THEN "NULL" ELSE Lookup(Consumes[db], ty)
  <2>1. kind \in Kinds
    BY <1>1 DEF RoundtripInv, ColumnInv, Kinds, AppendedKinds
  <2>2. cells \in Seq(Kinds)
    BY DEF RoundtripInv, CellsInv
  <2>3. cells' \in Seq(Kinds) /\ Len(cells') = Len(cells) + 1
        /\ \A i \in 1..Len(cells) : cells'[i] = cells[i]
        /\ cells'[Len(cells) + 1] = kind
    BY <2>1, <2>2
  <2>4. Len(cells') <= MaxCells /\ DOMAIN cells' = 1..(Len(cells) + 1)
    BY <1>1, <2>2, <2>3, MaxCellsAssumption
  <2>5. \A i \in DOMAIN cells' : i \in DOMAIN cells \/ i = Len(cells) + 1
    BY <2>2, <2>4
  <2>6. \A i \in DOMAIN cells : i \in 1..Len(cells)
    BY <2>2
  <2>7. ASSUME NEW i \in DOMAIN cells'
        PROVE  \E n \in BOOLEAN :
                 /\ MayAppend(n) /\ Sent(n) /\ Fits(n)
                 /\ cells'[i] = IF n THEN "NULL" ELSE Lookup(Consumes[db], ty)
    <3>1. CASE i \in DOMAIN cells
      BY <1>1, <2>3, <2>6, <3>1 DEF RoundtripInv, CellsInv
    <3>2. CASE i = Len(cells) + 1
      BY <1>1, <2>3, <3>2
    <3> QED
      BY <2>5, <3>1, <3>2
  <2>8. ASSUME NEW i \in DOMAIN cells'
        PROVE  \E n \in BOOLEAN :
                 /\ MayAppend(n)' /\ Sent(n)' /\ Fits(n)'
                 /\ cells'[i] = IF n THEN "NULL" ELSE Lookup(Consumes[db], ty)
    BY <1>2, <2>7
  <2> QED
    BY <1>1, <2>3, <2>4, <2>8 DEF CellsInv
<1>5. EdgeInv'
  <2>1. PICK value \in {"null"} \cup Values : Stores(value)
    OBVIOUS
  <2>2. value = "small" => ty.name \in DecimalNames /\ ty.s > 4
    BY DEF Values
  <2> QED
    BY <2>1, <2>2 DEF RoundtripInv, EdgeInv, Stores
<1> QED
  BY <1>1, <1>3, <1>4, <1>5 DEF RoundtripInv, ResultInv, FailInv

(* A call that fails before anything is stored. *)
LEMMA AppendFailsStep ==
  ASSUME RoundtripInv, NEW null \in BOOLEAN, AppendRefused(null) \/ AppendPanics(null)
  PROVE  RoundtripInv'
<1>1. /\ UNCHANGED <<column, parameter, queried, described>>
      /\ CanAppend(null) /\ phase' \in {"refused", "panicked"}
  BY DEF AppendRefused, AppendPanics
<1>2. /\ ty \in Types /\ Created /\ Made /\ queried = NoField /\ described = NoField
      /\ MayAppend(null)
  BY <1>1, Appendable
<1>3. UNCHANGED <<db, ty, nullable, declared, not_null>>
  BY <1>1 DEF column
<1>4. /\ Created' /\ Made'
      /\ \A n \in BOOLEAN : /\ MayAppend(n)' <=> MayAppend(n)
                            /\ Sent(n)' <=> Sent(n)
                            /\ Fits(n)' <=> Fits(n)
  BY <1>2, <1>3, SameColumn
<1>5. ColumnInv'
  BY <1>1, <1>3, <1>4 DEF RoundtripInv, ColumnInv
<1>6. CellsInv'
  BY <1>1, SameCells DEF RoundtripInv
<1>7. phase' = "refused" => MayAppend(null)' /\ ~Fits(null)'
  BY <1>2, <1>4 DEF AppendRefused, AppendPanics
<1>8. phase' = "panicked" => MayAppend(null)' /\ ~Sent(null)'
  BY <1>2, <1>4 DEF AppendRefused, AppendPanics
<1>9. EdgeInv'
  BY <1>1, SameEdge DEF RoundtripInv
<1> QED
  BY <1>1, <1>2, <1>3, <1>4, <1>5, <1>6, <1>7, <1>8, <1>9 DEF RoundtripInv, ResultInv, FailInv

LEMMA ParameterFailsStep ==
  ASSUME RoundtripInv, NEW native \in Natives, NEW exact \in BOOLEAN,
         ParameterRefused(native, exact) \/ ParameterPanics(native, exact)
  PROVE  RoundtripInv'
<1>1. /\ UNCHANGED <<column, queried, described>>
      /\ CanAppend(FALSE) /\ phase' \in {"refused", "panicked"}
      /\ parameter' = [native |-> native, exact |-> exact]
  BY DEF ParameterRefused, ParameterPanics, Parameter, Fails
<1>2. /\ ty \in Types /\ Created /\ Made /\ queried = NoField /\ described = NoField
      /\ MayAppend(FALSE)
  BY <1>1, Appendable
<1>3. UNCHANGED <<db, ty, nullable, declared, not_null>>
  BY <1>1 DEF column
<1>4. /\ Created' /\ Made' /\ MayAppend(FALSE)'
      /\ Sent(FALSE)' <=> Sent(FALSE)
      /\ Fits(FALSE)' <=> Fits(FALSE)
      /\ Takes(native, exact)' <=> Takes(native, exact)
  BY <1>2, <1>3, SameColumn
<1>5. ColumnInv'
  BY <1>1, <1>3, <1>4 DEF RoundtripInv, ColumnInv
<1>6. CellsInv'
  BY <1>1, SameCells DEF RoundtripInv
<1>7. phase' = "refused" => db = "mysql" \/ ~Fits(FALSE)
  BY DEF ParameterRefused, ParameterPanics, Fails
<1>8. phase' = "panicked" => ~Takes(native, exact) \/ (db # "mysql" /\ ~Sent(FALSE))
  BY DEF ParameterRefused, ParameterPanics, Fails
<1>9. FailInv'
  <2>1. CASE phase' = "refused"
    BY <1>1, <1>2, <1>3, <1>4, <1>7, <2>1 DEF FailInv
  <2>2. CASE phase' = "panicked"
    BY <1>1, <1>2, <1>3, <1>4, <1>8, <2>2 DEF FailInv
  <2> QED
    BY <1>1, <2>1, <2>2
<1>10. EdgeInv'
  BY <1>1, SameEdge DEF RoundtripInv
<1> QED
  BY <1>1, <1>2, <1>5, <1>6, <1>9, <1>10 DEF RoundtripInv, ResultInv

(* Reading changes no column, and fails only as ResultFields and            *)
(* DescribedFields have it.                                                 *)
LEMMA QueryStep ==
  ASSUME RoundtripInv, Query \/ QueryPanics
  PROVE  RoundtripInv'
<1>1. /\ UNCHANGED <<column, parameter, described>> /\ phase = "open" /\ queried = NoField
      /\ phase' \in {"open", "unreadable", "panicked"}
  BY DEF Query, QueryPanics
<1>2. Made
  BY <1>1 DEF RoundtripInv, ColumnInv
<1>3. UNCHANGED <<db, ty, nullable, declared, not_null>>
  BY <1>1 DEF column
<1>4. Made' /\ ResultFields' = ResultFields /\ DescribedFields' = DescribedFields
      /\ \A type : Readable(type)' <=> Readable(type)
  BY <1>1, <1>2, <1>3, SameColumn, SameResult
<1>5. ColumnInv'
  BY <1>1, <1>3, <1>4 DEF RoundtripInv, ColumnInv
<1>6. CellsInv'
  BY <1>1, SameCells DEF RoundtripInv
<1>7. queried' # NoField => queried' \in ResultFields
  BY <1>1 DEF Query, QueryPanics
<1>8. ResultInv'
  <2>1. phase' = "unreadable" <=> queried' # NoField /\ ~Readable(queried'.type)
    <3>1. CASE QueryPanics
      BY <1>1, <3>1 DEF QueryPanics
    <3>2. CASE Query
      <4>1. PICK field \in ResultFields :
              /\ queried' = field
              /\ phase' = IF Readable(field.type) THEN "open" ELSE "unreadable"
        BY <3>2 DEF Query
      <4>2. field.type \in ArrowNames
        BY <1>1, <1>2, AllGood DEF RoundtripInv, ResultsGood
      <4>3. field # NoField
        BY <4>2, TypesAreNamed DEF NoField, Plain
      <4> QED
        BY <4>1, <4>3
    <3> QED
      BY <3>1, <3>2
  <2>2. Readable(queried.type)' <=> Readable(queried'.type)
    BY <1>1 DEF column, Readable
  <2> QED
    BY <1>1, <1>4, <1>7, <2>1, <2>2 DEF RoundtripInv, ResultInv
<1>9. FailInv'
  <2>1. CASE Query
    <3>1. phase' \in {"open", "unreadable"}
      BY <2>1 DEF Query
    <3> QED
      BY <3>1 DEF FailInv
  <2>2. CASE QueryPanics
    <3>1. phase' = "panicked" /\ ResultFields = {} /\ queried' = NoField
      BY <1>1, <2>2 DEF QueryPanics
    <3> QED
      BY <1>4, <3>1 DEF FailInv
  <2> QED
    BY <2>1, <2>2
<1>10. EdgeInv'
  BY <1>1, SameEdge DEF RoundtripInv
<1> QED
  BY <1>5, <1>6, <1>8, <1>9, <1>10 DEF RoundtripInv

LEMMA TableGetStep ==
  ASSUME RoundtripInv, TableGet \/ TableGetPanics
  PROVE  RoundtripInv'
<1>1. /\ UNCHANGED <<column, parameter, queried>> /\ phase = "open" /\ described = NoField
      /\ phase' \in {"open", "panicked"}
  BY DEF TableGet, TableGetPanics
<1>2. Made
  BY <1>1 DEF RoundtripInv, ColumnInv
<1>3. UNCHANGED <<db, ty, nullable, declared, not_null>>
  BY <1>1 DEF column
<1>4. Made' /\ ResultFields' = ResultFields /\ DescribedFields' = DescribedFields
  BY <1>1, <1>2, <1>3, SameColumn, SameResult
<1>5. ColumnInv'
  BY <1>1, <1>3, <1>4 DEF RoundtripInv, ColumnInv
<1>6. CellsInv'
  BY <1>1, SameCells DEF RoundtripInv
<1>7. described' # NoField => described' \in DescribedFields
  BY <1>1 DEF TableGet, TableGetPanics
<1>8. ResultInv'
  <2>1. Readable(queried.type)' <=> Readable(queried.type)
    BY <1>1 DEF column, Readable
  <2> QED
    BY <1>1, <1>4, <1>7, <2>1 DEF RoundtripInv, ResultInv
<1>9. phase' = "panicked" => DescribedFields = {}
  BY DEF TableGet, TableGetPanics
<1>10. FailInv'
  BY <1>1, <1>4, <1>9 DEF FailInv
<1>11. EdgeInv'
  BY <1>1, SameEdge DEF RoundtripInv
<1> QED
  BY <1>5, <1>6, <1>8, <1>10, <1>11 DEF RoundtripInv

LEMMA RoundtripStutter ==
  ASSUME RoundtripInv, UNCHANGED roundtripVars
  PROVE  RoundtripInv'
<1>1. /\ UNCHANGED <<db, ty, nullable, declared, not_null>>
      /\ UNCHANGED <<cells, edge, altered, parameter, phase, queried, described>>
  BY DEF roundtripVars
<1>2. UNCHANGED column
  BY <1>1 DEF column
<1>3. /\ Made' <=> Made
      /\ Created' <=> Created
      /\ CanDeclare' <=> CanDeclare
      /\ Fresh' <=> Fresh
      /\ ResultFields' = ResultFields /\ DescribedFields' = DescribedFields
      /\ \A type : Readable(type)' <=> Readable(type)
      /\ \A null \in BOOLEAN : /\ MayAppend(null)' <=> MayAppend(null)
                               /\ Sent(null)' <=> Sent(null)
                               /\ Fits(null)' <=> Fits(null)
      /\ \A native, exact : Takes(native, exact)' <=> Takes(native, exact)
  BY <1>1, <1>2, SameColumn, SameResult DEF Fresh
<1>4. ColumnInv'
  BY <1>1, <1>3 DEF RoundtripInv, ColumnInv
<1>5. CellsInv'
  BY <1>2, SameCells DEF RoundtripInv
<1>6. ResultInv'
  <2>1. Readable(queried.type)' <=> Readable(queried.type)
    BY <1>1, <1>2 DEF column, Readable
  <2> QED
    BY <1>1, <1>3, <2>1 DEF RoundtripInv, ResultInv
<1>7. FailInv'
  BY <1>1, <1>3 DEF RoundtripInv, FailInv
<1>8. EdgeInv'
  BY <1>2, SameEdge DEF RoundtripInv
<1> QED
  BY <1>4, <1>5, <1>6, <1>7, <1>8 DEF RoundtripInv

LEMMA RoundtripStep ==
  ASSUME RoundtripInv, [RoundtripNext]_roundtripVars
  PROVE  RoundtripInv'
<1>1. CASE TableCreate
  BY <1>1, TableCreateStep
<1>2. CASE CreateRefused \/ CreatePanics
  BY <1>2, CreateFailsStep
<1>3. ASSUME NEW null \in BOOLEAN, AppendCell(null)
      PROVE  RoundtripInv'
  <2>1. \E value \in {"null"} \cup Values : Stores(value)
    BY <1>3 DEF AppendCell
  <2> QED
    BY <1>3, <2>1, CellStep DEF AppendCell
<1>4. ASSUME NEW null \in BOOLEAN, AppendRefused(null) \/ AppendPanics(null)
      PROVE  RoundtripInv'
  BY <1>4, AppendFailsStep
<1>5. ASSUME NEW native \in Natives, NEW exact \in BOOLEAN, InsertParameter(native, exact)
      PROVE  RoundtripInv'
  <2>1. cells' = Append(cells, IF FALSE THEN "NULL" ELSE Lookup(Consumes[db], ty))
    BY <1>5 DEF InsertParameter
  <2>2. \E value \in {"null"} \cup Values : Stores(value)
    BY <1>5 DEF InsertParameter
  <2> QED
    BY <1>5, <2>1, <2>2, CellStep DEF InsertParameter, Parameter
<1>6. ASSUME NEW native \in Natives, NEW exact \in BOOLEAN,
             ParameterRefused(native, exact) \/ ParameterPanics(native, exact)
      PROVE  RoundtripInv'
  BY <1>6, ParameterFailsStep
<1>7. CASE Query \/ QueryPanics
  BY <1>7, QueryStep
<1>8. CASE TableGet \/ TableGetPanics
  BY <1>8, TableGetStep
<1>9. CASE UNCHANGED roundtripVars
  BY <1>9, RoundtripStutter
<1> QED
  BY <1>1, <1>2, <1>3, <1>4, <1>5, <1>6, <1>7, <1>8, <1>9 DEF RoundtripNext

(* A column's declaration, each of its cells and every failure is explained *)
(* by the arrow type it was made for: the inductive invariant.              *)
THEOREM ColumnsCorrect == RoundtripSpec => []RoundtripInv
<1>1. RoundtripInv /\ [RoundtripNext]_roundtripVars => RoundtripInv'
  BY RoundtripStep
<1> QED
  BY <1>1, RoundtripInitially, PTL DEF RoundtripSpec

-----------------------------------------------------------------------------
(* The properties *)

(* A column that has been queried can be described. *)
LEMMA QueriedHolds ==
  ASSUME RoundtripInv, queried # NoField
  PROVE  /\ Made /\ queried \in ResultFields /\ ResultsGood /\ DescribedGood
         /\ phase # "panicked"
<1>1. ColumnInv /\ CellsInv /\ EdgeInv /\ ResultInv /\ FailInv
  BY DEF RoundtripInv
<1>2. Made /\ queried \in ResultFields
  BY <1>1 DEF ResultInv
<1>3. ResultsGood /\ DescribedGood
  BY <1>1, <1>2, AllGood
<1>4. DescribedFields # {}
  BY <1>2, <1>3 DEF DescribedGood
<1>5. phase # "panicked"
  BY <1>1, <1>2, <1>4 DEF FailInv, Fresh
<1> QED
  BY <1>2, <1>3, <1>5

(* PostgreSQL's columns, and the library's of any connector, are read but   *)
(* for the values of edge.                                                  *)
LEMMA Unreadable ==
  ASSUME RoundtripInv, ty \in Types \/ db = "postgres"
  PROVE  phase = "unreadable" <=> queried # NoField /\ edge
<1>1. phase = "unreadable" <=> queried # NoField /\ ~Readable(queried.type)
  BY DEF RoundtripInv, ResultInv
<1>2. queried # NoField => queried \in ResultFields /\ ResultsGood
  BY QueriedHolds
<1>3. edge \in BOOLEAN
  BY DEF RoundtripInv, EdgeInv
<1> QED
  BY <1>1, <1>2, <1>3 DEF ResultsGood

LEMMA InvSupportedIsStored ==
  ASSUME RoundtripInv
  PROVE  SupportedIsStored
<1> SUFFICES ASSUME Own, ty \in Supported[db], ~Gap,
                    parameter # NoParameter =>
                      db # "mysql" /\ parameter = [native |-> Native[ty.name], exact |-> TRUE]
             PROVE  /\ phase \notin {"panicked", "refused"}
                    /\ phase = "unreadable" => SmallNumerics
  BY DEF SupportedIsStored
<1>1. ColumnInv /\ FailInv
  BY DEF RoundtripInv
<1>2. ty \in Types /\ ty.name \in ArrowNames
  BY <1>1, OwnTypes, TypesAreNamed
<1>3. /\ ty \in Declared[db] /\ CanDeclare
      /\ \A null \in BOOLEAN : MayAppend(null) => Sent(null)
      /\ Created => /\ \A null \in BOOLEAN : MayAppend(null) => Fits(null)
                    /\ ResultFields # {} /\ DescribedFields # {}
  BY <1>1, <1>2, AllStored DEF StoredGood
<1>4. Made => Created
  BY <1>2, TypesAreNamed DEF Made
<1>5. ASSUME NEW native \in Natives, NEW exact \in BOOLEAN,
             parameter = [native |-> native, exact |-> exact]
      PROVE  db # "mysql" /\ Takes(native, exact)
  <2>1. parameter # NoParameter
    BY <1>5, NativeTaken DEF NoParameter
  <2>2. db # "mysql" /\ native = Native[ty.name] /\ exact = TRUE
    BY <1>5, <2>1
  <2> QED
    BY <1>2, <2>2, NativeTaken DEF Takes
<1>6. phase # "panicked"
  BY <1>1, <1>3, <1>4, <1>5 DEF FailInv
<1>7. phase # "refused"
  BY <1>1, <1>3, <1>5 DEF FailInv
<1>8. phase = "unreadable" => SmallNumerics
  BY <1>2, Unreadable DEF RoundtripInv, EdgeInv, SmallNumerics
<1> QED
  BY <1>6, <1>7, <1>8

LEMMA InvPromisedType ==
  ASSUME RoundtripInv
  PROVE  PromisedType
<1> SUFFICES ASSUME queried # NoField
             PROVE
    /\ db = "postgres" => phase # "panicked" /\ (phase = "unreadable" <=> edge)
    /\ Own /\ ty \in Supported[db] /\ (db # "sqlite" \/ HasValue) =>
         /\ queried \in Coerced(Override)
         /\ HasNull => \A field \in Coerced("keep") : field.nullable
    /\ ~Own /\ declared \in Dom(FromDb[db]) /\ <<db, declared>> # <<"duckdb", "DATE">> =>
         <<declared, queried.type>> \in FromDb[db]
    /\ ~Own /\ declared \notin Dom(FromDb[db]) => UnmappedResult
  BY DEF PromisedType
<1>1. ColumnInv /\ CellsInv
  BY DEF RoundtripInv
<1>2. Made /\ queried \in ResultFields /\ ResultsGood /\ phase # "panicked"
  BY QueriedHolds
<1>3. db = "postgres" => phase # "panicked" /\ (phase = "unreadable" <=> edge)
  BY <1>2, Unreadable
<1>4. ASSUME Own, ty \in Supported[db], HasNull, NEW field \in Coerced("keep")
      PROVE  field.nullable
  <2>1. ty \in Types /\ db \in Dbs
    BY <1>1, <1>4, OwnTypes DEF ColumnInv
  <2>2. nullable \/ ty.name = "Null"
    BY <1>1, <1>2, <1>4, <2>1, NullsAllowed
  <2>3. ty.name = "Null" => CoercedTypes # {}
    BY <1>4, <2>1, Nulls
  <2>4. field.nullable = IF CoercedTypes = {} THEN nullable ELSE nullable \/ ty.name = "Null"
    BY <1>4 DEF Coerced, Plain
  <2> QED
    BY <2>2, <2>3, <2>4
<1>5. Own /\ ty \in Supported[db] /\ (db # "sqlite" \/ HasValue) => queried \in Coerced(Override)
  BY <1>1, <1>2, OwnTypes DEF ResultsGood
<1>6. ~Own /\ declared \in Dom(FromDb[db]) /\ <<db, declared>> # <<"duckdb", "DATE">> =>
        <<declared, queried.type>> \in FromDb[db]
  BY <1>1, <1>2, OwnTypes DEF ResultsGood
<1>7. ASSUME ~Own, declared \notin Dom(FromDb[db])
      PROVE  UnmappedResult
  <2>1. /\ db \in {"postgres", "tiberius"}
        /\ db = "postgres" => queried = BinaryOf(declared)
        /\ db = "tiberius" => /\ queried = Plain("Binary", TRUE)
                              /\ Readable(queried.type) <=> cells = <<>>
    BY <1>1, <1>2, <1>7, OwnTypes DEF ResultsGood
  <2>2. phase = "unreadable" <=> ~Readable(queried.type)
    BY DEF RoundtripInv, ResultInv
  <2>3. CASE db = "postgres"
    BY <2>1, <2>3 DEF UnmappedResult, BinaryOf
  <2>4. CASE db = "tiberius"
    BY <2>1, <2>2, <2>4 DEF UnmappedResult
  <2> QED
    BY <2>1, <2>3, <2>4
<1> QED
  BY <1>3, <1>4, <1>5, <1>6, <1>7

LEMMA InvKeepsValues ==
  ASSUME RoundtripInv
  PROVE  RoundtripKeepsValues
<1>1. ColumnInv /\ EdgeInv
  BY DEF RoundtripInv
<1> SUFFICES ASSUME ty \in Types
             PROVE  /\ phase = "unreadable" <=> queried # NoField /\ SmallNumerics
                    /\ queried # NoField /\ HasValue => Lossless(ty.name, queried.type)
                    /\ altered => db = "sqlite" /\ ty.s < 0
  BY <1>1, OwnTypes DEF RoundtripKeepsValues
<1>2. queried # NoField => queried \in ResultFields /\ ResultsGood
  BY QueriedHolds
<1>3. edge <=> SmallNumerics
  BY <1>1 DEF EdgeInv, SmallNumerics
<1>4. phase = "unreadable" <=> queried # NoField /\ SmallNumerics
  BY <1>3, Unreadable
<1>5. altered => db = "sqlite" /\ ty.s < 0
  BY <1>1 DEF EdgeInv
<1> QED
  BY <1>2, <1>4, <1>5 DEF ResultsGood

LEMMA InvTableGetAgrees ==
  ASSUME RoundtripInv
  PROVE  TableGetAgrees
<1>1. ColumnInv /\ CellsInv /\ EdgeInv /\ ResultInv
  BY DEF RoundtripInv
<1>2. queried # NoField => phase # "panicked" /\ queried \in ResultFields
  BY QueriedHolds
<1>3. described # NoField => Made /\ described \in DescribedFields /\ DescribedGood
  BY <1>1, AllGood DEF ResultInv
<1>4. described # NoField => described.nullable \/ ~HasNull
  BY <1>1, <1>3, NullsAllowed DEF DescribedGood
<1>5. queried # NoField /\ described # NoField /\ db # "sqlite" =>
        IF described = NotSupported THEN declared \in P!Custom
        ELSE [described EXCEPT !.nullable = TRUE] = [queried EXCEPT !.nullable = TRUE]
  BY <1>2, <1>3 DEF DescribedGood
<1>6. db = "sqlite" /\ described # NoField =>
        /\ (described = Incompatible) <=> (declared \in {"NULL", "untyped"})
        /\ queried # NoField /\ HasValue => Alike(described.type, queried.type)
  BY <1>2, <1>3 DEF DescribedGood
<1> QED
  BY <1>2, <1>4, <1>5, <1>6 DEF TableGetAgrees

LEMMA InvTypeOK ==
  ASSUME RoundtripInv
  PROVE  RoundtripTypeOK
<1>1. ColumnInv /\ CellsInv /\ EdgeInv /\ ResultInv
  BY DEF RoundtripInv
<1>2. /\ db \in Dbs /\ ty \in Types \cup {NoType}
      /\ nullable \in BOOLEAN /\ not_null \in BOOLEAN /\ Len(cells) <= MaxCells
      /\ edge \in BOOLEAN /\ altered \in BOOLEAN
      /\ parameter \in [native : Natives, exact : BOOLEAN] \cup {NoParameter}
      /\ phase \in {"new", "open", "panicked", "refused", "unreadable"}
  BY <1>1 DEF ColumnInv, CellsInv, EdgeInv, Made
<1>3. queried.type \in ArrowNames \cup {"none"}
  <2>1. CASE queried = NoField
    BY <2>1 DEF NoField, Plain
  <2>2. CASE queried # NoField
    BY <2>2, QueriedHolds DEF ResultsGood
  <2> QED
    BY <2>1, <2>2
<1>4. described \in Errors \/ described.type \in ArrowNames \cup {"none"}
  <2>1. CASE described = NoField
    BY <2>1 DEF NoField, Plain
  <2>2. CASE described # NoField
    BY <1>1, <2>2, AllGood DEF ResultInv, DescribedGood
  <2> QED
    BY <2>1, <2>2
<1>5. \A tables \in {IntoDb, Declares, Consumes, FromDb} : IsTable(tables[db])
  BY <1>2, OneAnswer
<1> QED
  BY <1>2, <1>3, <1>4, <1>5 DEF RoundtripTypeOK

(* The values of the variables, and that no match of a connector gives two  *)
(* answers for a type.                                                      *)
THEOREM ColumnTypeCorrect == RoundtripSpec => []RoundtripTypeOK
<1>1. RoundtripInv => RoundtripTypeOK
  BY InvTypeOK
<1> QED
  BY <1>1, ColumnsCorrect, PTL

(* A column of a type that type_arrow_into_db supports is created, filled,  *)
(* queried and described without a panic or an error, but for the types of  *)
(* Gap and for PostgreSQL's small numerics.                                 *)
THEOREM SupportedTypesAreStored == RoundtripSpec => []SupportedIsStored
<1>1. RoundtripInv => SupportedIsStored
  BY InvSupportedIsStored
<1> QED
  BY <1>1, ColumnsCorrect, PTL

(* A query returns a column as coerce_schema says, and a type that does not *)
(* map as UnmappedResult does.                                              *)
THEOREM ResultsAreAsPromised == RoundtripSpec => []PromisedType
<1>1. RoundtripInv => PromisedType
  BY InvPromisedType
<1> QED
  BY <1>1, ColumnsCorrect, PTL

(* What was appended is read back in a type that can hold it, but for       *)
(* PostgreSQL's small numerics; and the decimals that are stored are those  *)
(* appended, but for SQLite's of a negative scale.                          *)
THEOREM ValuesSurvive == RoundtripSpec => []RoundtripKeepsValues
<1>1. RoundtripInv => RoundtripKeepsValues
  BY InvKeepsValues
<1> QED
  BY <1>1, ColumnsCorrect, PTL

(* table_get and query agree on a column.                                   *)
THEOREM DescriptionsAgree == RoundtripSpec => []TableGetAgrees
<1>1. RoundtripInv => TableGetAgrees
  BY InvTableGetAgrees
<1> QED
  BY <1>1, ColumnsCorrect, PTL

-----------------------------------------------------------------------------
(* DuckDB's appender *)

Increasing(s) == \A i, j \in 1..Len(s) : i < j => s[i] < s[j]

(* The bound on the rows given leaves room for the rest of the batch, and   *)
(* only an open appender has a buffer, or a batch.                          *)
BatchInv ==
  /\ given + remaining <= MaxRows
  /\ remaining > 0 => appender = "open"
  /\ appender = "none" => buffer = <<>>

(* The rows of the table, and behind them those of the buffer. *)
OrderInv ==
  /\ Increasing(table \o buffer)
  /\ \A i \in 1..Len(table \o buffer) : (table \o buffer)[i] <= given

IInv == TypeOK /\ BatchInv /\ OrderInv /\ NothingLost

-----------------------------------------------------------------------------
(* Everything in the table, and then in the buffer, with the row added      *)
(* behind it: append_row moves rows from the one to the other, but changes  *)
(* their order and number in no other way.                                  *)
LEMMA AddedRow ==
  ASSUME TypeOK, AppendRow, given + 1 \in 1..MaxRows
  PROVE  /\ table' \in Seq(1..MaxRows) /\ buffer' \in Seq(1..MaxRows)
         /\ table' \o buffer' = Append(table \o buffer, given + 1)
<1>1. table \in Seq(1..MaxRows) /\ buffer \in Seq(1..MaxRows)
  BY DEF TypeOK
<1> DEFINE rows == Append(buffer, given + 1)
<1>2. rows \in Seq(1..MaxRows)
  BY <1>1
<1>3. table \o rows = Append(table \o buffer, given + 1)
  BY <1>1, AppendIsConcat, ConcatAssociative
<1>4. CASE buffer' = rows /\ table' = table
  BY <1>1, <1>2, <1>3, <1>4
<1>5. CASE buffer' = <<>> /\ table' = table \o rows
  BY <1>1, <1>2, <1>3, <1>5
<1> QED
  BY <1>4, <1>5 DEF AppendRow, AddToBuffer, FlushOk

(* What is given up with the buffer leaves the table in order. *)
LEMMA TableInOrder ==
  ASSUME TypeOK, OrderInv
  PROVE  /\ Increasing(table)
         /\ \A i \in 1..Len(table) : table[i] <= given
         /\ table \o <<>> = table /\ table \o buffer \in Seq(1..MaxRows)
<1>1. table \in Seq(1..MaxRows) /\ buffer \in Seq(1..MaxRows)
  BY DEF TypeOK
<1>2. \A i \in 1..Len(table) :
        i \in 1..Len(table \o buffer) /\ (table \o buffer)[i] = table[i]
  BY <1>1, LenProperties, ConcatProperties
<1>3. table \o <<>> = table /\ table \o buffer \in Seq(1..MaxRows)
  BY <1>1
<1> QED
  BY <1>2, <1>3 DEF OrderInv, Increasing

LEMMA TypeStep ==
  ASSUME IInv, [Next]_vars
  PROVE  TypeOK' /\ BatchInv'
<1>1. TypeOK /\ BatchInv
  BY DEF IInv
<1>2. /\ MaxRows \in Nat /\ MaxAppenders \in Nat /\ BatchRows \subseteq Nat
      /\ given \in 0..MaxRows /\ remaining \in Nat
      /\ table \in Seq(1..MaxRows) /\ buffer \in Seq(1..MaxRows) /\ own \in Seq(1..MaxRows)
      /\ acked \in Seq(1..MaxRows)
  BY <1>1, DuckDBAppendAssumption DEF TypeOK
<1>3. table \o buffer \in Seq(1..MaxRows) /\ acked \o own \in Seq(1..MaxRows)
  BY <1>2
<1>4. CASE Open
  <2>1. /\ opened < MaxAppenders /\ opened' = opened + 1 /\ own' = <<>> /\ appender' = "open"
        /\ UNCHANGED << refusing, table, buffer, remaining, given, acked >>
    BY <1>4 DEF Open
  <2>2. failed' \in BOOLEAN
    BY <1>4 DEF Open
  <2>3. opened' \in 0..MaxAppenders /\ own' \in Seq(1..MaxRows)
    BY <1>1, <1>2, <2>1 DEF TypeOK
  <2> QED
    BY <1>1, <2>1, <2>2, <2>3 DEF TypeOK, BatchInv
<1>5. ASSUME NEW n \in BatchRows, AppendBatch(n) PROVE TypeOK' /\ BatchInv'
  BY <1>1, <1>2, <1>5 DEF AppendBatch, TypeOK, BatchInv
<1>6. CASE AppendRow \/ AppendRowFails
  <2>1. /\ remaining > 0 /\ given' = given + 1 /\ own' = Append(own, given + 1)
        /\ UNCHANGED << refusing, appender, opened, acked >>
        /\ remaining' \in {0, remaining - 1} /\ failed' \in {failed, TRUE}
    BY <1>6 DEF AppendRow, AppendRowFails
  <2>2. given + 1 \in 1..MaxRows /\ given' + remaining' <= MaxRows /\ remaining' \in Nat
    <3>1. given + remaining <= MaxRows
      BY <1>1 DEF BatchInv
    <3>2. CASE remaining' = 0
      BY <1>2, <2>1, <3>1, <3>2
    <3>3. CASE remaining' = remaining - 1
      BY <1>2, <2>1, <3>1, <3>3
    <3> QED
      BY <2>1, <3>2, <3>3
  <2>3. own' \in Seq(1..MaxRows)
    BY <1>2, <2>1, <2>2
  <2>4. table' \in Seq(1..MaxRows) /\ buffer' \in Seq(1..MaxRows)
    <3>1. CASE AppendRow
      BY <1>1, <2>2, <3>1, AddedRow
    <3>2. CASE AppendRowFails
      BY <1>2, <3>2 DEF AppendRowFails, FlushRefused
    <3> QED
      BY <1>6, <3>1, <3>2
  <2>5. failed' \in BOOLEAN
    BY <1>1, <2>1 DEF TypeOK
  <2>6. appender = "open"
    BY <1>1, <2>1 DEF BatchInv
  <2>7. given' \in 0..MaxRows
    BY <2>1, <2>2
  <2>8. TypeOK'
    BY <1>1, <2>1, <2>2, <2>3, <2>4, <2>5, <2>7 DEF TypeOK
  <2> QED
    BY <2>1, <2>2, <2>6, <2>8 DEF BatchInv
<1>7. CASE Finish \/ DropAppender
  <2>1. /\ table' \in {table, table \o buffer} /\ buffer' = <<>> /\ appender' = "none"
        /\ remaining' = 0 /\ acked' \in {acked, acked \o own}
        /\ UNCHANGED << refusing, failed, given, own, opened >>
    BY <1>7 DEF Finish, DropAppender, DropInner, FlushOk, FlushRefused
  <2>2. table' \in Seq(1..MaxRows) /\ buffer' \in Seq(1..MaxRows) /\ acked' \in Seq(1..MaxRows)
    <3>1. <<>> \in Seq(1..MaxRows)
      OBVIOUS
    <3>2. table' \in Seq(1..MaxRows)
      BY <1>2, <1>3, <2>1
    <3>3. acked' \in Seq(1..MaxRows)
      BY <1>2, <1>3, <2>1
    <3> QED
      BY <2>1, <3>1, <3>2, <3>3
  <2>3. TypeOK'
    BY <1>1, <2>1, <2>2 DEF TypeOK
  <2>4. given + 0 <= MaxRows
    BY <1>2
  <2> QED
    BY <2>1, <2>3, <2>4 DEF BatchInv
<1>8. CASE UNCHANGED vars
  BY <1>1, <1>8 DEF vars, TypeOK, BatchInv
<1> QED
  BY <1>4, <1>5, <1>6, <1>7, <1>8 DEF Next

LEMMA OrderStep ==
  ASSUME IInv, [Next]_vars
  PROVE  OrderInv' /\ NothingLost'
<1>1. TypeOK /\ BatchInv /\ OrderInv /\ NothingLost
  BY DEF IInv
<1>2. /\ given \in 0..MaxRows /\ MaxRows \in Nat /\ remaining \in Nat
      /\ table \in Seq(1..MaxRows) /\ buffer \in Seq(1..MaxRows)
  BY <1>1, DuckDBAppendAssumption DEF TypeOK
<1>3. /\ Increasing(table) /\ \A i \in 1..Len(table) : table[i] <= given
      /\ table \o <<>> = table /\ table \o buffer \in Seq(1..MaxRows)
  BY <1>1, TableInOrder
<1>4. CASE UNCHANGED << refusing, table, buffer, given >> /\ (appender' = "none" => appender = "none")
  BY <1>1, <1>4 DEF OrderInv, NothingLost
<1>5. CASE AppendRow
  <2>1. /\ given' = given + 1 /\ remaining > 0 /\ UNCHANGED << refusing, appender >>
    BY <1>5 DEF AppendRow
  <2>2. given + 1 \in 1..MaxRows /\ appender = "open"
    BY <1>1, <1>2, <2>1 DEF BatchInv
  <2> DEFINE all == table \o buffer
  <2>3. table' \o buffer' = Append(all, given + 1)
    BY <1>1, <1>5, <2>2, AddedRow
  <2>4. /\ all \in Seq(1..MaxRows) /\ Increasing(all)
        /\ \A i \in 1..Len(all) : all[i] <= given
    BY <1>1, <1>3 DEF OrderInv
  <2>5. ~refusing => all = [i \in 1..given |-> i]
    BY <1>1 DEF NothingLost
  <2> HIDE DEF all
  <2>6. /\ Len(all) \in Nat /\ Len(Append(all, given + 1)) = Len(all) + 1
        /\ \A i \in 1..Len(all) : Append(all, given + 1)[i] = all[i]
        /\ Append(all, given + 1)[Len(all) + 1] = given + 1
        /\ \A i \in 1..Len(all) : all[i] \in Nat
        /\ Append(all, given + 1) \in Seq(1..MaxRows)
    BY <1>2, <2>2, <2>4
  <2>7. \A i \in 1..(Len(all) + 1) : i \in 1..Len(all) \/ i = Len(all) + 1
    BY <2>6
  <2>8. \A i \in 1..(Len(all) + 1) : Append(all, given + 1)[i] <= given'
    BY <1>2, <2>1, <2>4, <2>6, <2>7
  <2>9. Increasing(Append(all, given + 1))
    <3> SUFFICES ASSUME NEW i \in 1..(Len(all) + 1), NEW j \in 1..(Len(all) + 1), i < j
                 PROVE  Append(all, given + 1)[i] < Append(all, given + 1)[j]
      BY <2>6 DEF Increasing
    <3>1. i \in 1..Len(all)
      BY <2>6
    <3>2. CASE j \in 1..Len(all)
      BY <2>4, <2>6, <3>1, <3>2 DEF Increasing
    <3>3. CASE j = Len(all) + 1
      BY <1>2, <2>4, <2>6, <3>1, <3>3
    <3> QED
      BY <2>7, <3>2, <3>3
  <2>10. ~refusing => Append(all, given + 1) = [i \in 1..(given + 1) |-> i]
    <3> SUFFICES ASSUME ~refusing PROVE Append(all, given + 1) = [i \in 1..(given + 1) |-> i]
      OBVIOUS
    <3>1. Len(all) = given /\ \A i \in 1..given : all[i] = i
      BY <1>2, <2>5
    <3> DEFINE a == Append(all, given + 1)
               b == [i \in 1..(given + 1) |-> i]
    <3>2. b \in Seq(Nat) /\ Len(b) = given + 1 /\ \A i \in 1..(given + 1) : b[i] = i
      BY <1>2
    <3>3. a \in Seq(Nat)
      <4>1. 1..MaxRows \subseteq Nat
        BY <1>2
      <4> QED
        BY <2>6, <4>1, SeqMonotonic
    <3>4. Len(a) = given + 1 /\ \A i \in 1..(given + 1) : a[i] = i
      BY <1>2, <2>6, <2>7, <3>1
    <3> HIDE DEF a, b
    <3>5. a = b
      BY <3>2, <3>3, <3>4, SeqEqual
    <3> QED
      BY <3>5 DEF a, b
  <2> QED
    BY <2>1, <2>2, <2>3, <2>6, <2>8, <2>9, <2>10 DEF OrderInv, NothingLost
<1>6. CASE AppendRowFails
  <2>1. /\ table' = table /\ buffer' = <<>> /\ refusing /\ UNCHANGED refusing
        /\ given' = given + 1
    BY <1>6 DEF AppendRowFails, FlushRefused
  <2>2. table' \o buffer' = table
    BY <1>3, <2>1
  <2>3. \A i \in 1..Len(table) : table[i] \in Nat /\ table[i] <= given'
    BY <1>2, <1>3, <2>1
  <2> QED
    BY <1>3, <2>1, <2>2, <2>3 DEF OrderInv, NothingLost
<1>7. CASE Finish \/ DropAppender
  <2>1. /\ buffer' = <<>> /\ UNCHANGED << refusing, given >>
        /\ table' = table \o buffer \/ (refusing /\ table' = table)
    BY <1>7 DEF Finish, DropAppender, DropInner, FlushOk, FlushRefused
  <2>2. table' \o buffer' = table \o buffer \/ (refusing /\ table' \o buffer' = table)
    BY <1>3, <2>1
  <2> QED
    BY <1>1, <1>3, <2>1, <2>2 DEF OrderInv, NothingLost
<1>8. CASE UNCHANGED vars
  BY <1>4, <1>8 DEF vars
<1> QED
  BY <1>4, <1>5, <1>6, <1>7, <1>8 DEF Next, Open, AppendBatch

(* The inductive invariant. *)
THEOREM Correct == Spec => []IInv
<1>1. Init => IInv
  <2> SUFFICES ASSUME Init PROVE IInv
    OBVIOUS
  <2>1. MaxRows \in Nat /\ MaxAppenders \in Nat
    BY DuckDBAppendAssumption
  <2>2. /\ table = <<>> /\ buffer = <<>> /\ given = 0 /\ appender = "none" /\ remaining = 0
        /\ own = <<>> /\ opened = 0 /\ acked = <<>> /\ refusing \in Refusals
    BY DEF Init
  <2>3. failed \in BOOLEAN
    BY DEF Init
  <2>4. TypeOK /\ BatchInv
    BY <2>1, <2>2, <2>3 DEF TypeOK, BatchInv
  <2>5. table \o buffer = <<>> /\ Len(<<>>) = 0 /\ 1..0 = {}
    BY <2>2
  <2>6. OrderInv
    BY <2>5 DEF OrderInv, Increasing
  <2>7. <<>> = [i \in 1..0 |-> i]
    <3> DEFINE f == [i \in 1..0 |-> i]
    <3>1. f \in Seq(Nat) /\ Len(f) = 0
      OBVIOUS
    <3> HIDE DEF f
    <3>2. <<>> = f
      BY <3>1, EmptySeq
    <3> QED
      BY <3>2 DEF f
  <2>8. NothingLost
    BY <2>2, <2>5, <2>7 DEF NothingLost
  <2> QED
    BY <2>4, <2>6, <2>8 DEF IInv
<1>2. IInv /\ [Next]_vars => IInv'
  BY TypeStep, OrderStep DEF IInv
<1> QED
  BY <1>1, <1>2, PTL DEF Spec

(* Type correctness of the appender and of DuckDB's buffer. *)
THEOREM TypeCorrect == Spec => []TypeOK
<1>1. IInv => TypeOK
  BY DEF IInv
<1> QED
  BY <1>1, Correct, PTL

(* While the table refuses nothing, no row is lost, wherever the buffer is  *)
(* flushed and however the appender ends.                                   *)
THEOREM NothingEverLost == Spec => []NothingLost
<1>1. IInv => NothingLost
  BY DEF IInv
<1> QED
  BY <1>1, Correct, PTL

(* No row is written twice, whichever flushes are refused. *)
THEOREM NoRowTwiceEver == Spec => []NoRowTwice
<1>1. IInv => NoRowTwice
  BY DEF IInv, OrderInv, Increasing, NoRowTwice
<1> QED
  BY <1>1, Correct, PTL

(* Both together, as the run checks them. *)
THEOREM RowsAreKept == Spec => []RowsKept
<1>1. NothingLost /\ NoRowTwice => RowsKept
  BY DEF RowsKept
<1> QED
  BY <1>1, NothingEverLost, NoRowTwiceEver, PTL
=============================================================================
