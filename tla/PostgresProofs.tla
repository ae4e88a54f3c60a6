--------------------------- MODULE PostgresProofs ---------------------------
(***************************************************************************)
(* Theorems about what PostgreSQL is sent and returns.  The first part is   *)
(* about the rows of its appender (PostgresAppend), for every table, batch  *)
(* and number of rows; the second about decimals (Decimal, with those that  *)
(* SQLite stores as text), for numbers of every length, scale and weight.   *)
(***************************************************************************)
EXTENDS PostgresAppend, Decimal, SequenceTheorems, WellFoundedInduction, TLAPS

(* A batch is being written only by an initialised writer, and the bound on *)
(* the rows given leaves room for what is left of it.                       *)
BatchInv ==
  /\ given + batch.rows <= MaxRows
  /\ batch # NoBatch => writer = "Initialized" /\ batch.rows > 0 /\ batch.width \in Widths
  /\ writer = "none" => sent = <<>>

(* Rows are numbered as they are written: those of the table first, then    *)
(* those of the current COPY, each with a larger number.                    *)
OrderInv ==
  /\ \A j \in 1..Len(sent) : sent[j][1] <= given
  /\ \A j, k \in 1..Len(sent) : j < k => sent[j][1] < sent[k][1]
  /\ \A i \in 1..Len(table) : table[i] <= given
  /\ \A i \in 1..Len(table), j \in 1..Len(sent) : table[i] < sent[j][1]

IInv == TypeOK /\ OneWidth /\ AckedIsStored /\ BatchInv /\ OrderInv

-----------------------------------------------------------------------------
(* The numbers of rows, as a sequence. *)
Numbers(rows) == [i \in 1..Len(rows) |-> rows[i][1]]

LEMMA NumbersType ==
  ASSUME NEW rows \in Seq((1..MaxRows) \X Widths)
  PROVE  /\ Numbers(rows) \in Seq(1..MaxRows)
         /\ Len(Numbers(rows)) = Len(rows)
         /\ \A i \in 1..Len(rows) : Numbers(rows)[i] = rows[i][1]
<1>1. \A i \in 1..Len(rows) : rows[i][1] \in 1..MaxRows
  OBVIOUS
<1>2. Numbers(rows) \in [1..Len(rows) -> 1..MaxRows]
  BY <1>1 DEF Numbers
<1> QED
  BY <1>2 DEF Numbers

LEMMA NoNumbers == Numbers(<<>>) = <<>>
<1>1. Len(<<>>) = 0 /\ 1..0 = {}
  OBVIOUS
<1>2. Numbers(<<>>) \in [1..0 -> {}]
  BY <1>1 DEF Numbers
<1>3. Numbers(<<>>) \in Seq({}) /\ Len(Numbers(<<>>)) = 0
  BY <1>1, <1>2 DEF Numbers
<1> QED
  BY <1>3, EmptySeq

LEMMA TypeStep ==
  ASSUME IInv, [Next]_vars
  PROVE  TypeOK' /\ BatchInv'
<1>1. TypeOK /\ BatchInv
  BY DEF IInv
<1>2. MaxRows \in Nat /\ MaxAppenders \in Nat /\ Width \in Widths /\ Widths \subseteq Nat
      /\ BatchRows \subseteq Nat
  BY PostgresAppendAssumption
<1>3. NoBatch \in [rows : Nat, width : Widths \cup {0}] /\ NoBatch.rows = 0
  BY DEF NoBatch
<1>4. given \in 0..MaxRows /\ batch.rows \in Nat /\ opened \in 0..MaxAppenders
  BY <1>1 DEF TypeOK
<1>5. CASE New
  BY <1>1, <1>2, <1>4, <1>5 DEF New, TypeOK, BatchInv
<1>6. ASSUME NEW rows \in BatchRows, NEW width \in Widths, AppendBatch(rows, width)
      PROVE  TypeOK' /\ BatchInv'
  <2>1. writer' = "Initialized" /\ types' \in Widths \cup {0}
    BY <1>1, <1>6 DEF AppendBatch, AsBinary, TypeOK
  <2>2. /\ batch' \in [rows : Nat, width : Widths \cup {0}]
        /\ given + batch'.rows <= MaxRows
        /\ batch' # NoBatch => batch'.rows > 0 /\ batch'.width \in Widths
    <3>1. CASE rows = 0
      BY <1>3, <1>4, <1>6, <3>1, <1>2 DEF AppendBatch
    <3>2. CASE rows # 0
      <4>1. batch' = [rows |-> rows, width |-> width] /\ given + rows <= MaxRows
        BY <1>6, <3>2 DEF AppendBatch
      <4> QED
        BY <1>2, <3>2, <4>1
    <3> QED
      BY <3>1, <3>2
  <2> QED
    BY <1>1, <1>6, <2>1, <2>2 DEF AppendBatch, TypeOK, BatchInv
<1>7. CASE WriteRow
  <2>1. /\ writer = "Initialized" /\ batch.rows > 0 /\ given' = given + 1
        /\ UNCHANGED << table, writer, types, outcome, opened, acked >>
    BY <1>1, <1>7 DEF WriteRow, BatchInv
  <2>2. given' \in 1..MaxRows
    BY <1>1, <1>2, <1>4, <2>1 DEF BatchInv
  <2>3. batch.width \in Widths
    BY <1>1, <1>7 DEF WriteRow, BatchInv
  <2>4. sent' \in Seq((1..MaxRows) \X Widths)
    BY <1>1, <1>7, <2>2, <2>3 DEF WriteRow, TypeOK
  <2>5. /\ batch' \in [rows : Nat, width : Widths \cup {0}]
        /\ given' + batch'.rows <= MaxRows
        /\ batch' # NoBatch => batch'.rows > 0 /\ batch'.width \in Widths
    <3>1. CASE batch.rows = 1
      BY <1>3, <1>7, <2>2, <3>1, <1>2 DEF WriteRow
    <3>2. CASE batch.rows # 1
      <4>1. batch' = [batch EXCEPT !.rows = @ - 1]
        BY <1>7, <3>2 DEF WriteRow
      <4>2. batch'.rows = batch.rows - 1 /\ batch'.width = batch.width
            /\ batch' \in [rows : Nat, width : Widths \cup {0}]
        BY <1>1, <1>4, <2>1, <3>2, <4>1 DEF TypeOK
      <4> QED
        BY <1>1, <1>2, <1>4, <2>1, <2>3, <3>2, <4>2 DEF BatchInv
    <3> QED
      BY <3>1, <3>2
  <2> QED
    BY <1>1, <2>1, <2>2, <2>4, <2>5 DEF TypeOK, BatchInv
<1>8. CASE WriteRowPanics
  BY <1>1, <1>8 DEF WriteRowPanics, TypeOK, BatchInv
<1>9. CASE WriteRowFails
  BY <1>1, <1>2, <1>3, <1>4, <1>9 DEF WriteRowFails, TypeOK, BatchInv
<1>10. CASE Finish
  <2>1. Rows \in Seq(1..MaxRows)
    BY <1>1, NumbersType DEF Rows, Numbers, TypeOK
  <2>2. table' \in Seq(1..MaxRows) /\ acked' \in Seq(1..MaxRows)
    BY <1>1, <1>10, <2>1 DEF Finish, TypeOK
  <2> QED
    BY <1>1, <1>2, <1>3, <1>4, <1>10, <2>2 DEF Finish, Close, TypeOK, BatchInv
<1>11. CASE FinishFails \/ DropAppender
  <2>0. Rows \in Seq(1..MaxRows)
    BY <1>1, NumbersType DEF Rows, Numbers, TypeOK
  <2>1. /\ UNCHANGED << given, opened, acked >>
        /\ table' = table \/ table' = table \o Rows
        /\ writer' = "none" /\ types' = 0 /\ sent' = <<>> /\ batch' = NoBatch
        /\ outcome' \in {"ok", "error", "panicked"}
    BY <1>11 DEF FinishFails, DropAppender, Close
  <2>2. TypeOK'
    <3>1. table' \in Seq(1..MaxRows)
      <4>1. table \in Seq(1..MaxRows)
        BY <1>1 DEF TypeOK
      <4>2. table \o Rows \in Seq(1..MaxRows)
        BY <2>0, <4>1
      <4> QED
        BY <2>1, <4>1, <4>2, Zenon
    <3>2. sent' \in Seq((1..MaxRows) \X Widths)
      <4>1. \A set : <<>> \in Seq(set)
        OBVIOUS
      <4> QED
        BY <2>1, <4>1, Zenon
    <3> QED
      BY <1>1, <1>3, <2>1, <3>1, <3>2 DEF TypeOK
  <2>3. given + NoBatch.rows <= MaxRows
    BY <1>2, <1>3, <1>4
  <2> QED
    BY <2>1, <2>2, <2>3 DEF BatchInv
<1>12. CASE UNCHANGED vars
  BY <1>1, <1>12 DEF vars, TypeOK, BatchInv
<1> QED
  BY <1>5, <1>6, <1>7, <1>8, <1>9, <1>10, <1>11, <1>12 DEF Next

-----------------------------------------------------------------------------
(* Every row sent has the width the writer was made with. *)
LEMMA OneWidthStep ==
  ASSUME IInv, [Next]_vars
  PROVE  OneWidth'
<1>1. TypeOK /\ OneWidth /\ BatchInv
  BY DEF IInv
<1>2. Len(sent) \in Nat /\ sent \in Seq((1..MaxRows) \X Widths)
  BY <1>1 DEF TypeOK
<1>3. CASE New
  BY <1>1, <1>2, <1>3 DEF New, OneWidth
<1>4. ASSUME NEW rows \in BatchRows, NEW width \in Widths, AppendBatch(rows, width)
      PROVE  OneWidth'
  BY <1>1, <1>2, <1>4 DEF AppendBatch, AsBinary, OneWidth
<1>5. CASE WriteRow
  <2>1. /\ writer = "Initialized" /\ UNCHANGED << writer, types >>
        /\ sent' = Append(sent, <<given', types>>)
    BY <1>1, <1>5 DEF WriteRow, BatchInv
  <2>2. \A i \in 1..Len(sent') :
          \/ i \in 1..Len(sent) /\ sent'[i] = sent[i]
          \/ sent'[i] = <<given', types>>
    BY <1>2, <2>1
  <2> QED
    BY <1>1, <2>1, <2>2 DEF OneWidth
<1>6. CASE WriteRowPanics \/ WriteRowFails \/ UNCHANGED vars
  BY <1>1, <1>6 DEF WriteRowPanics, WriteRowFails, vars, OneWidth
<1>7. CASE Finish \/ FinishFails \/ DropAppender
  <2>1. Len(sent') = 0 /\ 1..0 = {}
    BY <1>7 DEF Finish, FinishFails, DropAppender, Close
  <2> QED
    BY <2>1 DEF OneWidth
<1> QED
  BY <1>3, <1>4, <1>5, <1>6, <1>7 DEF Next

(* The table holds the acknowledged rows, and what it holds is there once   *)
(* and in order, whether the answer to finish() arrived or not.             *)
LEMMA OrderStep ==
  ASSUME IInv, [Next]_vars
  PROVE  AckedIsStored' /\ OrderInv'
<1>1. TypeOK /\ AckedIsStored /\ OrderInv
  BY DEF IInv
<1>2. /\ sent \in Seq((1..MaxRows) \X Widths) /\ Len(sent) \in Nat
      /\ table \in Seq(1..MaxRows) /\ Len(table) \in Nat /\ given \in Nat
      /\ \A i \in 1..Len(table) : table[i] \in Nat
      /\ \A j \in 1..Len(sent) : sent[j][1] \in Nat
  BY <1>1, PostgresAppendAssumption DEF TypeOK
<1>3. CASE UNCHANGED << table, sent, given, acked >>
  BY <1>1, <1>3 DEF AckedIsStored, OrderInv
<1>4. CASE WriteRow
  <2>1. /\ given' = given + 1 /\ UNCHANGED << table, acked >>
        /\ sent' = Append(sent, <<given', batch.width>>)
    BY <1>4 DEF WriteRow
  <2>2. /\ Len(sent') = Len(sent) + 1
        /\ \A j \in 1..Len(sent) : sent'[j] = sent[j]
        /\ sent'[Len(sent')][1] = given + 1
    BY <1>2, <2>1
  <2>3. \A j \in 1..Len(sent') : j \in 1..Len(sent) \/ j = Len(sent')
    BY <1>2, <2>2
  <2>4. \A j \in 1..Len(sent') : sent'[j][1] <= given'
    BY <1>1, <1>2, <2>1, <2>2, <2>3 DEF OrderInv
  <2>5. \A j, k \in 1..Len(sent') : j < k => sent'[j][1] < sent'[k][1]
    <3> SUFFICES ASSUME NEW j \in 1..Len(sent'), NEW k \in 1..Len(sent'), j < k
                 PROVE  sent'[j][1] < sent'[k][1]
      OBVIOUS
    <3>1. j \in 1..Len(sent) /\ sent'[j] = sent[j]
      BY <1>2, <2>2
    <3>2. CASE k \in 1..Len(sent)
      BY <1>1, <2>2, <3>1, <3>2 DEF OrderInv
    <3>3. CASE k = Len(sent')
      <4>1. sent[j][1] <= given /\ sent[j][1] \in Nat
        BY <1>1, <1>2, <3>1 DEF OrderInv
      <4> QED
        BY <1>2, <2>2, <3>1, <3>3, <4>1
    <3> QED
      BY <2>3, <3>2, <3>3
  <2>6. \A i \in 1..Len(table), j \in 1..Len(sent') : table[i] < sent'[j][1]
    <3>1. \A i \in 1..Len(table), j \in 1..Len(sent) : table[i] < sent'[j][1]
      BY <1>1, <2>2 DEF OrderInv
    <3>2. \A i \in 1..Len(table) : table[i] <= given
      BY <1>1 DEF OrderInv
    <3>3. \A i \in 1..Len(table) : table[i] < sent'[Len(sent')][1]
      BY <1>2, <2>2, <3>2
    <3> QED
      BY <2>3, <3>1, <3>3
  <2>7. \A i \in 1..Len(table) : table[i] <= given'
    BY <1>1, <1>2, <2>1 DEF OrderInv
  <2> QED
    BY <1>1, <2>1, <2>4, <2>5, <2>6, <2>7 DEF AckedIsStored, OrderInv
<1>5. ASSUME table' = table \o Rows, acked' \in {acked, acked \o Rows}, given' = given,
             sent' = <<>>
      PROVE  AckedIsStored' /\ OrderInv'
  <2>2. /\ Rows \in Seq(1..MaxRows) /\ Len(Rows) = Len(sent)
        /\ \A i \in 1..Len(sent) : Rows[i] = sent[i][1]
    BY <1>2, NumbersType DEF Rows, Numbers
  <2>3. \A i \in 1..Len(table \o Rows) :
          \/ i \in 1..Len(table) /\ (table \o Rows)[i] = table[i]
          \/ i - Len(table) \in 1..Len(Rows) /\ (table \o Rows)[i] = Rows[i - Len(table)]
    BY <1>2, <2>2, LenProperties, ConcatProperties
  <2>4. \A i, j \in 1..Len(table \o Rows) : i < j => (table \o Rows)[i] < (table \o Rows)[j]
    <3>1. table \in Seq(Nat) /\ Rows \in Seq(Nat)
      <4>1. 1..MaxRows \subseteq Nat
        BY PostgresAppendAssumption
      <4> QED
        BY <1>2, <2>2, <4>1, SeqMonotonic
    <3>2. \A i, j \in 1..Len(table) : i < j => table[i] < table[j]
      BY <1>1 DEF AckedIsStored
    <3>3. \A i, j \in 1..Len(Rows) : i < j => Rows[i] < Rows[j]
      BY <1>1, <2>2 DEF OrderInv
    <3>4. \A i \in 1..Len(table), j \in 1..Len(Rows) : table[i] < Rows[j]
      BY <1>1, <2>2 DEF OrderInv
    <3>5. Len(table) \in Nat /\ Len(Rows) \in Nat
      BY <3>1, LenProperties
    <3>6. ASSUME NEW i \in 1..Len(table \o Rows), NEW j \in 1..Len(table \o Rows), i < j
          PROVE  (table \o Rows)[i] < (table \o Rows)[j]
      <4>1. CASE j \in 1..Len(table) /\ (table \o Rows)[j] = table[j]
        <5>1. i \in 1..Len(table) /\ (table \o Rows)[i] = table[i]
          BY <2>3, <3>5, <3>6, <4>1
        <5> QED
          BY <3>2, <3>6, <4>1, <5>1
      <4>2. CASE j - Len(table) \in 1..Len(Rows) /\ (table \o Rows)[j] = Rows[j - Len(table)]
        <5>1. CASE i \in 1..Len(table) /\ (table \o Rows)[i] = table[i]
          BY <3>4, <4>2, <5>1
        <5>2. CASE i - Len(table) \in 1..Len(Rows) /\ (table \o Rows)[i] = Rows[i - Len(table)]
          <6>1. i - Len(table) < j - Len(table)
            BY <3>5, <3>6
          <6> QED
            BY <3>3, <4>2, <5>2, <6>1
        <5> QED
          BY <2>3, <5>1, <5>2
      <4> QED
        BY <2>3, <4>1, <4>2
    <3> QED
      BY <3>6
  <2>5. \A i \in 1..Len(table') : table'[i] <= given'
    BY <1>1, <1>5, <2>2, <2>3 DEF OrderInv
  <2>6. \A i \in 1..Len(acked') : \E j \in 1..Len(table') : table'[j] = acked'[i]
    <3>1. /\ \A j \in 1..Len(table) : j \in 1..Len(table') /\ table'[j] = table[j]
          /\ \A j \in 1..Len(Rows) : /\ Len(table) + j \in 1..Len(table')
                                    /\ table'[Len(table) + j] = Rows[j]
      BY <1>2, <1>5, <2>2, LenProperties, ConcatProperties
    <3>2. acked \in Seq(1..MaxRows)
      BY <1>1 DEF TypeOK
    <3>3. \A i \in 1..Len(acked') :
            \/ i \in 1..Len(acked) /\ acked'[i] = acked[i]
            \/ i - Len(acked) \in 1..Len(Rows) /\ acked'[i] = Rows[i - Len(acked)]
      BY <1>5, <2>2, <3>2, LenProperties, ConcatProperties
    <3>4. \A i \in 1..Len(acked) : \E j \in 1..Len(table) : table[j] = acked[i]
      BY <1>1 DEF AckedIsStored
    <3> QED
      BY <3>1, <3>3, <3>4
  <2>7. Len(sent') = 0 /\ 1..0 = {}
    BY <1>5
  <2>8. \A i, j \in 1..Len(table') : i < j => table'[i] < table'[j]
    BY <1>5, <2>4
  <2>9. OrderInv'
    BY <2>5, <2>7 DEF OrderInv
  <2> QED
    BY <2>6, <2>8, <2>9 DEF AckedIsStored
<1>6. ASSUME UNCHANGED << table, acked, given >>, sent' = <<>>
      PROVE  AckedIsStored' /\ OrderInv'
  <2>1. Len(sent') = 0 /\ 1..0 = {}
    BY <1>6
  <2> QED
    BY <1>1, <1>6, <2>1 DEF AckedIsStored, OrderInv
<1>7. CASE Finish
  BY <1>5, <1>7 DEF Finish, Close
<1>8. CASE FinishFails
  BY <1>5, <1>6, <1>8 DEF FinishFails, Close
<1>9. CASE DropAppender
  BY <1>6, <1>9 DEF DropAppender, Close
<1> QED
  BY <1>3, <1>4, <1>7, <1>8, <1>9
  DEF Next, New, AppendBatch, WriteRowPanics, WriteRowFails, vars

(* The inductive invariant. *)
THEOREM Correct == Spec => []IInv
<1>1. Init => IInv
  <2> SUFFICES ASSUME Init PROVE IInv
    OBVIOUS
  <2>1. MaxRows \in Nat /\ MaxAppenders \in Nat
    BY PostgresAppendAssumption
  <2>2. NoBatch \in [rows : Nat, width : Widths \cup {0}] /\ NoBatch.rows = 0
    BY DEF NoBatch
  <2>3. TypeOK /\ BatchInv
    BY <2>1, <2>2 DEF Init, TypeOK, BatchInv
  <2>4. Len(sent) = 0 /\ Len(table) = 0 /\ 1..0 = {} /\ table = acked
    BY DEF Init
  <2>5. OneWidth /\ AckedIsStored /\ OrderInv
    BY <2>4 DEF OneWidth, AckedIsStored, OrderInv
  <2> QED
    BY <2>3, <2>5 DEF IInv
<1>2. IInv /\ [Next]_vars => IInv'
  BY TypeStep, OneWidthStep, OrderStep DEF IInv
<1> QED
  BY <1>1, <1>2, PTL DEF Spec

(* Every variable of the appender keeps its type. *)
THEOREM TypeCorrect == Spec => []TypeOK
<1>1. IInv => TypeOK
  BY DEF IInv
<1> QED
  BY <1>1, Correct, PTL

(* A COPY stream has rows of one width. *)
THEOREM OneWidthAlways == Spec => []OneWidth
<1>1. IInv => OneWidth
  BY DEF IInv
<1> QED
  BY <1>1, Correct, PTL

(* The table has every row for which finish() returned Ok, once and in      *)
(* order, also when answers are lost.                                       *)
THEOREM AckedIsAlwaysStored == Spec => []AckedIsStored
<1>1. IInv => AckedIsStored
  BY DEF IInv
<1> QED
  BY <1>1, Correct, PTL

-----------------------------------------------------------------------------
(* A step of the appender is a step of TableAppend, or a stutter: only the  *)
(* writing of a row, the end of the COPY and its abort are seen.            *)
LEMMA PromiseStep ==
  ASSUME IInv, [Next]_vars
  PROVE  [Promise!Next]_(Promise!vars)
<1>1. TypeOK /\ BatchInv /\ OrderInv
  BY DEF IInv
<1>2. CASE New
  <2>1. sent = <<>> /\ UNCHANGED << table, sent >> /\ writer = "none" /\ writer' # "none"
    BY <1>1, <1>2 DEF New, BatchInv
  <2>2. Rows' = Rows
    BY <2>1 DEF Rows
  <2>3. Promise!Open
    BY <2>1, <2>2 DEF Promise!Open
  <2> QED
    BY <2>3 DEF Promise!Next
<1>3. CASE WriteRow
  <2>1. /\ sent' = Append(sent, <<given + 1, batch.width>>)
        /\ UNCHANGED << table, writer >> /\ writer # "none"
    BY <1>1, <1>3 DEF WriteRow, BatchInv
  <2>2. /\ sent \in Seq((1..MaxRows) \X Widths) /\ Len(sent) \in Nat /\ given \in Nat
        /\ \A i \in 1..Len(table) : table[i] \in Nat
        /\ \A j \in 1..Len(sent) : sent[j][1] \in Nat
    BY <1>1, PostgresAppendAssumption DEF TypeOK
  <2>3. TypeOK'
    BY TypeStep
  <2>4. /\ Rows \in Seq(1..MaxRows) /\ Len(Rows) = Len(sent)
        /\ \A i \in 1..Len(sent) : Rows[i] = sent[i][1]
    BY <2>2, NumbersType DEF Rows, Numbers
  <2>5. /\ Rows' \in Seq(1..MaxRows) /\ Len(Rows') = Len(sent')
        /\ \A i \in 1..Len(sent') : Rows'[i] = sent'[i][1]
    <3>1. sent' \in Seq((1..MaxRows) \X Widths)
      BY <2>3 DEF TypeOK
    <3> QED
      BY <3>1, NumbersType DEF Rows, Numbers
  <2>6. /\ Len(sent') = Len(sent) + 1
        /\ \A i \in 1..Len(sent) : sent'[i] = sent[i]
        /\ sent'[Len(sent) + 1][1] = given + 1
    BY <2>1, <2>2
  <2>7. SubSeq(Rows', 1, Len(Rows)) = Rows
    <3>1. /\ SubSeq(Rows', 1, Len(Rows)) \in Seq(1..MaxRows)
          /\ Len(SubSeq(Rows', 1, Len(Rows))) = Len(Rows)
          /\ \A i \in 1..Len(Rows) : SubSeq(Rows', 1, Len(Rows))[i] = Rows'[i]
      BY <2>2, <2>4, <2>5, <2>6
    <3>2. \A i \in 1..Len(Rows) : Rows'[i] = Rows[i]
      BY <2>2, <2>4, <2>5, <2>6
    <3> QED
      BY <2>4, <3>1, <3>2, SeqEqual
  <2>8. /\ \A j \in 1..Len(table) : table[j] # given + 1
        /\ \A j \in 1..Len(sent) : sent[j][1] # given + 1
    BY <1>1, <2>2 DEF OrderInv
  <2>9. \A i \in Len(Rows) + 1 .. Len(Rows') :
          /\ \A j \in 1..Len(table) : table[j] # Rows'[i]
          /\ \A j \in 1..(i - 1) : Rows'[j] # Rows'[i]
    <3> TAKE i \in Len(Rows) + 1 .. Len(Rows')
    <3>1. i = Len(sent) + 1 /\ Rows'[i] = given + 1
      BY <2>2, <2>4, <2>5, <2>6
    <3>2. \A j \in 1..(i - 1) : Rows'[j] = sent[j][1] /\ j \in 1..Len(sent)
      BY <2>2, <2>5, <2>6, <3>1
    <3> QED
      BY <2>8, <3>1, <3>2
  <2>10. Len(Rows') > Len(Rows)
    BY <2>2, <2>4, <2>5, <2>6
  <2>11. Promise!Write
    BY <2>1, <2>7, <2>9, <2>10 DEF Promise!Write
  <2> QED
    BY <2>11 DEF Promise!Next
<1>4. ASSUME writer # "none", writer' = "none", sent' = <<>>,
             table' = table \/ table' = table \o Rows
      PROVE  Promise!Next
  <2>1. Rows' = <<>>
    BY <1>4, NoNumbers DEF Rows, Numbers
  <2>2. Promise!Commit \/ Promise!Abort
    BY <1>4, <2>1 DEF Promise!Commit, Promise!Abort
  <2> QED
    BY <2>2 DEF Promise!Next
<1>5. CASE Finish \/ FinishFails \/ DropAppender
  BY <1>4, <1>5 DEF Finish, FinishFails, DropAppender, Close
<1>6. CASE /\ UNCHANGED << table, sent >>
           /\ writer = "none" <=> writer' = "none"
  <2>1. Rows' = Rows
    BY <1>6 DEF Rows
  <2> QED
    BY <1>6, <2>1 DEF Promise!vars
<1>7. ASSUME NEW rows \in BatchRows, NEW width \in Widths, AppendBatch(rows, width)
      PROVE  UNCHANGED << table, sent >> /\ (writer = "none" <=> writer' = "none")
  BY <1>7 DEF AppendBatch, AsBinary
<1>8. CASE WriteRowPanics \/ WriteRowFails \/ UNCHANGED vars
  BY <1>6, <1>8 DEF WriteRowPanics, WriteRowFails, vars
<1> QED
  BY <1>2, <1>3, <1>4, <1>5, <1>6, <1>7, <1>8 DEF Next

(* PostgresAppender keeps the promise of an appender. *)
THEOREM KeepsPromise == Spec => AllOrNothing
<1>1. Init => Promise!Init
  <2> SUFFICES ASSUME Init PROVE Promise!Init
    OBVIOUS
  <2>1. Rows = <<>>
    BY NoNumbers DEF Init, Rows, Numbers
  <2> QED
    BY <2>1 DEF Init, Promise!Init
<1>2. IInv /\ [Next]_vars => [Promise!Next]_(Promise!vars)
  BY PromiseStep
<1> QED
  BY <1>1, <1>2, Correct, PTL DEF Spec, AllOrNothing, Promise!Spec

-----------------------------------------------------------------------------
(* Decimals *)

(* The digit in place i: there are zeros on both sides of the digits. *)
At(d, i) == IF i \in 1..Len(d) THEN d[i] ELSE 0

(* The digits d with the point behind the p-th of them, and e with the point *)
(* behind the q-th, are the same number: place for place from the point.    *)
SameNumber(d, p, e, q) == \A k \in Int : At(d, p + k) = At(e, q + k)

(* t is the number as text, with `scale` digits behind the point and no     *)
(* zero to spare before it.                                                 *)
IsText(t, neg, d, p, scale) ==
  /\ t = [neg |-> neg, int |-> t.int, frac |-> t.frac]
  /\ t.int \in Seq(Digit) /\ Len(t.int) >= 1
  /\ \A i \in 1..Len(t.int) : t.int[i] = At(d, p - Len(t.int) + i)
  /\ Len(t.int) > 1 => t.int[1] # 0
  /\ \A k \in Int : k <= p - Len(t.int) => At(d, k) = 0
  /\ t.frac \in Seq(Digit) /\ Len(t.frac) = scale
  /\ \A i \in 1..scale : t.frac[i] = At(d, p + i)

-----------------------------------------------------------------------------
(* A set of numbers has a least one, and a greatest if it is bounded. *)
LEMMA LeastNumber ==
  ASSUME NEW T, T \subseteq Nat, T # {}
  PROVE  \E least \in T : \A n \in T : least <= n
<1>1. PICK least \in T : \A n \in T : ~(<<n, least>> \in OpToRel(<, Nat))
  BY NatLessThanWellFounded, WFMin
<1>2. \A n \in T : <<n, least>> \in OpToRel(<, Nat) <=> n < least
  BY DEF OpToRel
<1>3. \A n \in T : ~(n < least)
  BY <1>1, <1>2, Zenon
<1> QED
  BY <1>3

LEMMA GreatestNumber ==
  ASSUME NEW b \in Nat, NEW T, T \subseteq 0..b, T # {}
  PROVE  \E greatest \in T : \A n \in T : greatest >= n
<1> DEFINE U == { m \in Nat : m <= b /\ b - m \in T }
<1>1. U # {}
  <2>1. PICK n \in T : TRUE
    OBVIOUS
  <2>2. b - n \in Nat /\ b - n <= b /\ b - (b - n) = n
    BY <2>1
  <2> QED
    BY <2>1, <2>2
<1>2. PICK least \in U : \A m \in U : least <= m
  BY <1>1, LeastNumber
<1>3. \A n \in T : b - n \in U /\ n \in Nat
  <2> TAKE n \in T
  <2>1. b - n \in Nat /\ b - n <= b /\ b - (b - n) = n
    OBVIOUS
  <2> QED
    BY <2>1
<1>4. \A n \in T : b - least >= n
  BY <1>2, <1>3
<1> QED
  BY <1>2, <1>4

(* A function on 1..n is a sequence of that length. *)
LEMMA FunctionSeq ==
  ASSUME NEW S, NEW n \in Nat, NEW f \in [1..n -> S]
  PROVE  f \in Seq(S) /\ Len(f) = n
<1>1. f \in Seq(S)
  BY SeqDef
<1>2. DOMAIN f = 1..Len(f) /\ Len(f) \in Nat /\ DOMAIN f = 1..n
  BY <1>1, LenProperties
<1>3. ASSUME NEW m \in Nat, 1..m = 1..n
      PROVE  m = n
  <2>1. n \in 1..n \/ n = 0
    OBVIOUS
  <2>2. m \in 1..m \/ m = 0
    OBVIOUS
  <2>3. n <= m
    BY <1>3, <2>1
  <2>4. m <= n
    BY <1>3, <2>2
  <2> QED
    BY <2>3, <2>4
<1> QED
  BY <1>1, <1>2, <1>3

LEMMA ZerosProperties ==
  ASSUME NEW n \in Nat
  PROVE  Zeros(n) \in Seq(Digit) /\ Len(Zeros(n)) = n /\ \A i \in 1..n : Zeros(n)[i] = 0
<1>1. Zeros(n) \in [1..n -> Digit]
  BY DEF Zeros, Digit
<1> QED
  BY <1>1, FunctionSeq DEF Zeros

LEMMA AtProperties ==
  ASSUME NEW d \in Seq(Digit)
  PROVE  /\ Len(d) \in Nat
         /\ \A i \in 1..Len(d) : d[i] \in Digit /\ At(d, i) = d[i]
         /\ \A i \in Int : i < 1 \/ i > Len(d) => At(d, i) = 0
         /\ \A i \in Int : At(d, i) \in Digit
         /\ d = <<>> <=> Len(d) = 0
<1>1. Len(d) \in Nat /\ d \in [1..Len(d) -> Digit]
  BY LenProperties
<1> QED
  BY <1>1, EmptySeq DEF At, Digit

LEMMA OneZero ==
  <<0>> \in Seq(Digit) /\ Len(<<0>>) = 1 /\ <<0>>[1] = 0
<1>1. 0 \in Digit
  BY DEF Digit
<1> QED
  BY <1>1

(* Two numbers, one behind the other. *)
LEMMA ConcatAt ==
  ASSUME NEW d \in Seq(Digit), NEW e \in Seq(Digit)
  PROVE  /\ d \o e \in Seq(Digit) /\ Len(d \o e) = Len(d) + Len(e)
         /\ \A i \in Int : At(d \o e, i) = IF i <= Len(d) THEN At(d, i) ELSE At(e, i - Len(d))
<1>1. PICK m \in Nat : m = Len(d)
  BY LenProperties
<1>2. PICK n \in Nat : n = Len(e)
  BY LenProperties
<1>3. PICK s : s = d \o e
  OBVIOUS
<1>4. /\ s \in Seq(Digit) /\ Len(s) = m + n
      /\ \A i \in 1..(m + n) : s[i] = IF i <= m THEN d[i] ELSE e[i - m]
  BY <1>1, <1>2, <1>3, ConcatProperties
<1>5. ASSUME NEW i \in Int
      PROVE  At(s, i) = IF i <= m THEN At(d, i) ELSE At(e, i - m)
  <2>1. CASE i < 1
    BY <1>1, <1>4, <2>1 DEF At
  <2>2. CASE i \in 1..m
    BY <1>1, <1>4, <2>2 DEF At
  <2>3. CASE i > m /\ i <= m + n
    <3>1. i \in 1..(m + n) /\ ~(i <= m) /\ i - m \in 1..n
      BY <2>3
    <3> QED
      BY <1>2, <1>4, <3>1 DEF At
  <2>4. CASE i > m + n
    <3>1. ~(i \in 1..(m + n)) /\ ~(i <= m) /\ ~(i - m \in 1..n)
      BY <2>4
    <3> QED
      BY <1>2, <1>4, <3>1 DEF At
  <2> QED
    BY <2>1, <2>2, <2>3, <2>4
<1> QED
  BY <1>1, <1>2, <1>3, <1>4, <1>5

(* Leading zeros move a number, those behind it do not. *)
LEMMA ZerosAround ==
  ASSUME NEW d \in Seq(Digit), NEW n \in Nat
  PROVE  /\ Zeros(n) \o d \in Seq(Digit) /\ Len(Zeros(n) \o d) = n + Len(d)
         /\ \A i \in Int : At(Zeros(n) \o d, i) = At(d, i - n)
         /\ d \o Zeros(n) \in Seq(Digit) /\ Len(d \o Zeros(n)) = Len(d) + n
         /\ \A i \in Int : At(d \o Zeros(n), i) = At(d, i)
<1>1. Zeros(n) \in Seq(Digit) /\ Len(Zeros(n)) = n
  BY ZerosProperties
<1>2. \A i \in Int : At(Zeros(n), i) = 0
  BY ZerosProperties DEF At
<1>3. /\ Len(d) \in Nat
      /\ \A i \in Int : i < 1 \/ i > Len(d) => At(d, i) = 0
  BY AtProperties
<1>4. \A i \in Int : At(Zeros(n) \o d, i) = At(d, i - n)
  <2> TAKE i \in Int
  <2>1. i <= n => i - n < 1 /\ i - n \in Int
    OBVIOUS
  <2>2. At(Zeros(n) \o d, i) =
          IF i <= Len(Zeros(n)) THEN At(Zeros(n), i) ELSE At(d, i - Len(Zeros(n)))
    BY <1>1, ConcatAt
  <2> QED
    BY <1>1, <1>2, <1>3, <2>1, <2>2
<1>5. \A i \in Int : At(d \o Zeros(n), i) = At(d, i)
  <2> TAKE i \in Int
  <2>1. i - Len(d) \in Int /\ (~(i <= Len(d)) => i > Len(d))
    BY <1>3
  <2>2. At(d \o Zeros(n), i) = IF i <= Len(d) THEN At(d, i) ELSE 0
    BY <1>1, <1>2, <2>1, ConcatAt
  <2> QED
    BY <1>3, <2>1, <2>2
<1> QED
  BY <1>1, <1>4, <1>5, ConcatAt

(* There is one text of a number. *)
LEMMA OneText ==
  ASSUME NEW d, NEW e, NEW p \in Int, NEW q \in Int, NEW scale \in Nat, NEW neg,
         NEW t, NEW u,
         SameNumber(d, p, e, q), IsText(t, neg, d, p, scale), IsText(u, neg, e, q, scale)
  PROVE  t = u
<1>1. /\ t.int \in Seq(Digit) /\ u.int \in Seq(Digit)
      /\ Len(t.int) \in Nat /\ Len(u.int) \in Nat /\ Len(t.int) >= 1 /\ Len(u.int) >= 1
  BY LenProperties DEF IsText
<1>2. PICK a \in Nat : a = Len(t.int)
  BY <1>1
<1>3. PICK b \in Nat : b = Len(u.int)
  BY <1>1
<1>4. a >= 1 /\ b >= 1
  BY <1>1, <1>2, <1>3
<1>5. \A i \in 1..a : t.int[i] = At(d, p - a + i)
  BY <1>2 DEF IsText
<1>6. \A i \in 1..b : u.int[i] = At(e, q - b + i)
  BY <1>3 DEF IsText
<1>7. \A k \in Int : At(d, p + k) = At(e, q + k)
  BY DEF SameNumber
<1>8. a <= b
  <2> SUFFICES ASSUME b < a PROVE FALSE
    BY <1>2, <1>3
  <2>1. 1 \in 1..a /\ p - a + 1 = p + (1 - a) /\ q + (1 - a) \in Int /\ q + (1 - a) <= q - b /\ 1 - a \in Int
    BY <1>4
  <2>2. t.int[1] # 0
    BY <1>2, <1>4 DEF IsText
  <2>3. At(e, q + (1 - a)) = 0
    BY <2>1, <1>3 DEF IsText
  <2> QED
    BY <1>5, <1>7, <2>1, <2>2, <2>3
<1>9. b <= a
  <2> SUFFICES ASSUME a < b PROVE FALSE
    BY <1>2, <1>3
  <2>1. 1 \in 1..b /\ q - b + 1 = q + (1 - b) /\ p + (1 - b) \in Int /\ p + (1 - b) <= p - a /\ 1 - b \in Int
    BY <1>4
  <2>2. u.int[1] # 0
    BY <1>3, <1>4 DEF IsText
  <2>3. At(d, p + (1 - b)) = 0
    BY <2>1, <1>2 DEF IsText
  <2> QED
    BY <1>6, <1>7, <2>1, <2>2, <2>3
<1>10. t.int = u.int
  <2>1. a = b
    BY <1>8, <1>9
  <2>2. ASSUME NEW i \in 1..a
        PROVE  t.int[i] = u.int[i]
    <3>1. i - a \in Int /\ p - a + i = p + (i - a) /\ q - a + i = q + (i - a)
      OBVIOUS
    <3> QED
      BY <1>5, <1>6, <1>7, <2>1, <3>1
  <2> QED
    BY <1>1, <1>2, <1>3, <2>1, <2>2, SeqEqual
<1>11. t.frac = u.frac
  <2>1. /\ t.frac \in Seq(Digit) /\ u.frac \in Seq(Digit)
        /\ Len(t.frac) = scale /\ Len(u.frac) = scale
        /\ \A i \in 1..scale : t.frac[i] = At(d, p + i) /\ u.frac[i] = At(e, q + i)
    BY DEF IsText
  <2>2. \A i \in 1..scale : t.frac[i] = u.frac[i]
    BY <1>7, <2>1
  <2> QED
    BY <2>1, <2>2, SeqEqual
<1>12. /\ t = [neg |-> neg, int |-> t.int, frac |-> t.frac]
       /\ u = [neg |-> neg, int |-> u.int, frac |-> u.frac]
  BY DEF IsText
<1> QED
  BY <1>10, <1>11, <1>12

-----------------------------------------------------------------------------
(* The first digit that is not zero. *)
FirstDigit(d) ==
  CHOOSE i \in 1..Len(d) : d[i] # 0 /\ \A j \in 1..(i - 1) : d[j] = 0

LEMMA FirstDigitProperties ==
  ASSUME NEW d \in Seq(Digit), NEW n \in 1..Len(d), d[n] # 0
  PROVE  /\ FirstDigit(d) \in 1..Len(d) /\ d[FirstDigit(d)] # 0
         /\ \A j \in 1..(FirstDigit(d) - 1) : d[j] = 0
<1>1. Len(d) \in Nat
  BY LenProperties
<1> DEFINE T == { i \in 1..Len(d) : d[i] # 0 }
<1>2. PICK i \in T : \A j \in T : i <= j
  <2>1. T \subseteq Nat /\ n \in T
    BY <1>1
  <2> QED
    BY <2>1, LeastNumber
<1>3. i \in 1..Len(d) /\ d[i] # 0 /\ \A j \in 1..(i - 1) : d[j] = 0
  BY <1>1, <1>2
<1>4. \E k \in 1..Len(d) : d[k] # 0 /\ \A j \in 1..(k - 1) : d[j] = 0
  BY <1>3
<1> QED
  BY <1>4, Zenon DEF FirstDigit

(* The reference, Text, is the text of its number. *)
LEMMA TextIsText ==
  ASSUME NEW neg, NEW d \in Seq(Digit), NEW p \in Int, NEW scale \in Nat,
         d # <<>> => \E i \in 1..Len(d) : d[i] # 0
  PROVE  IsText(Text(neg, d, p, scale), neg, d, p, scale)
<1>1. /\ Len(d) \in Nat
      /\ \A i \in 1..Len(d) : d[i] \in Digit /\ At(d, i) = d[i]
      /\ \A i \in Int : i < 1 \/ i > Len(d) => At(d, i) = 0
      /\ \A i \in Int : At(d, i) \in Digit
  BY AtProperties
<1> DEFINE first == IF d = <<>> THEN p ELSE FirstDigit(d)
           start == IF first < p THEN first ELSE p
           int == IF p < 1 THEN <<0>> ELSE [i \in 1..(p - start + 1) |-> At(d, start + i - 1)]
           frac == [i \in 1..scale |-> At(d, p + i)]
<1>2. Text(neg, d, p, scale) = [neg |-> neg, int |-> int, frac |-> frac]
  BY DEF Text, At, FirstDigit
<1>3. frac \in Seq(Digit) /\ Len(frac) = scale /\ \A i \in 1..scale : frac[i] = At(d, p + i)
  <2>1. \A i \in 1..scale : p + i \in Int
    OBVIOUS
  <2>2. frac \in [1..scale -> Digit]
    BY <1>1, <2>1
  <2> QED
    BY <2>2, FunctionSeq
<1>4. /\ p < 1 => int = <<0>>
      /\ p >= 1 => int = [i \in 1..(p - start + 1) |-> At(d, start + i - 1)]
  OBVIOUS
<1> HIDE DEF int, frac
<1>5. /\ int \in Seq(Digit) /\ Len(int) >= 1
      /\ \A i \in 1..Len(int) : int[i] = At(d, p - Len(int) + i)
      /\ Len(int) > 1 => int[1] # 0
      /\ \A k \in Int : k <= p - Len(int) => At(d, k) = 0
  <2>1. CASE p < 1
    <3>1. int = <<0>> /\ int \in Seq(Digit) /\ Len(int) = 1 /\ int[1] = 0
      BY <1>4, <2>1, OneZero
    <3>2. At(d, p - 1 + 1) = 0
      BY <1>1, <2>1
    <3>3. \A k \in Int : k <= p - 1 => At(d, k) = 0
      BY <1>1, <2>1
    <3> QED
      BY <3>1, <3>2, <3>3
  <2>2. CASE p >= 1
    <3>1. /\ first \in Int /\ first >= 1
          /\ \A k \in Int : k < start => At(d, k) = 0
          /\ start < p => At(d, start) # 0
      <4>1. CASE d = <<>>
        <5>1. Len(d) = 0
          BY <4>1, AtProperties
        <5> QED
          BY <1>1, <2>2, <4>1, <5>1
      <4>2. CASE d # <<>>
        <5>1. /\ first \in 1..Len(d) /\ d[first] # 0
              /\ \A j \in 1..(first - 1) : d[j] = 0
          BY <4>2, FirstDigitProperties
        <5>2. \A k \in Int : k < first => At(d, k) = 0
          BY <1>1, <5>1
        <5>3. \A k \in Int : k < start => k < first
          BY <1>1, <5>1
        <5>4. start < p => start = first
          BY <1>1, <5>1
        <5> QED
          BY <1>1, <5>1, <5>2, <5>3, <5>4
      <4> QED
        BY <4>1, <4>2
    <3>2. PICK s \in Int : s = start /\ s >= 1 /\ s <= p
      BY <2>2, <3>1
    <3>3. PICK n \in Nat : n = p - s + 1 /\ n >= 1
      BY <3>2
    <3>4. int = [i \in 1..n |-> At(d, s + i - 1)]
      BY <1>4, <2>2, <3>2, <3>3
    <3> HIDE DEF start, first
    <3>5. int \in Seq(Digit) /\ Len(int) = n /\ \A i \in 1..n : int[i] = At(d, s + i - 1)
      <4>1. \A i \in 1..n : s + i - 1 \in Int
        OBVIOUS
      <4>2. int \in [1..n -> Digit]
        BY <1>1, <3>4, <4>1
      <4> QED
        BY <3>4, <4>2, FunctionSeq
    <3>6. \A i \in 1..n : s + i - 1 = p - n + i
      BY <3>3
    <3>7. n > 1 => int[1] # 0
      <4>1. n > 1 => s < p
        BY <3>3
      <4>2. int[1] = At(d, s)
        <5>1. 1 \in 1..n /\ s + 1 - 1 = s
          BY <3>3
        <5> QED
          BY <3>5, <5>1
      <4> QED
        BY <3>1, <3>2, <4>1, <4>2
    <3>8. \A k \in Int : k <= p - n => At(d, k) = 0
      <4>1. \A k \in Int : k <= p - n => k < s
        BY <3>3
      <4> QED
        BY <3>1, <3>2, <4>1
    <3>9. \A i \in 1..n : int[i] = At(d, p - n + i)
      BY <3>5, <3>6
    <3> QED
      BY <3>3, <3>5, <3>7, <3>8, <3>9
  <2> QED
    BY <2>1, <2>2
<1>6. Text(neg, d, p, scale).int = int /\ Text(neg, d, p, scale).frac = frac
  BY <1>2
<1> QED
  BY <1>2, <1>3, <1>5, <1>6 DEF IsText

-----------------------------------------------------------------------------
(* The buffer of from_sql holds every place from the one before the first   *)
(* digit to the end of the fraction.                                        *)
LEMMA BufProperties ==
  ASSUME NEW w, w.digits \in Seq(Digit), w.dscale \in Nat, Dot(w) \in Nat
  PROVE  /\ Buf(w) \in Seq(Digit) /\ Len(Buf(w)) >= Dot(w) + w.dscale
         /\ Len(Buf(w)) \in Nat
         /\ \A i \in 1..Len(Buf(w)) : Buf(w)[i] = At(w.digits, i - 1)
<1> DEFINE read == <<0>> \o w.digits
<1>1. PICK d \in Seq(Digit) : d = w.digits
  OBVIOUS
<1>2. PICK end \in Nat : end = Dot(w) + w.dscale
  OBVIOUS
<1>3. PICK m \in Nat : m = Len(d)
  BY LenProperties
<1>4. /\ \A i \in 1..m : At(d, i) = d[i] /\ d[i] \in Digit
      /\ \A i \in Int : i < 1 \/ i > m => At(d, i) = 0
  BY <1>3, AtProperties
<1>5. /\ read \in Seq(Digit) /\ Len(read) = m + 1
      /\ \A i \in 1..(m + 1) : read[i] = At(d, i - 1)
  <2>1. read \in Seq(Digit) /\ Len(read) = 1 + m
    BY <1>1, <1>3, OneZero, ConcatProperties
  <2>2. \A i \in 1..(1 + m) : read[i] = IF i <= 1 THEN <<0>>[i] ELSE d[i - 1]
    BY <1>1, <1>3, OneZero, ConcatProperties
  <2>3. ASSUME NEW i \in 1..(m + 1)
        PROVE  read[i] = At(d, i - 1)
    <3>1. CASE i = 1
      <4>1. read[i] = 0
        BY <2>2, <3>1, OneZero
      <4> QED
        BY <1>4, <3>1, <4>1
    <3>2. CASE i # 1
      <4>1. i - 1 \in 1..m /\ i \in 1..(1 + m) /\ ~(i <= 1)
        BY <3>2
      <4> QED
        BY <1>4, <2>2, <4>1
    <3> QED
      BY <3>1, <3>2
  <2> QED
    BY <2>1, <2>3
<1> HIDE DEF read
<1>6. CASE end > m + 1
  <2>1. PICK n \in Nat : n = end - (m + 1)
    BY <1>6
  <2>2. Buf(w) = read \o Zeros(n)
    BY <1>2, <1>5, <1>6, <2>1 DEF Buf, read
  <2>3. Zeros(n) \in Seq(Digit) /\ Len(Zeros(n)) = n /\ \A i \in 1..n : Zeros(n)[i] = 0
    BY ZerosProperties
  <2>4. /\ Buf(w) \in Seq(Digit) /\ Len(Buf(w)) = end
        /\ \A i \in 1..end :
             Buf(w)[i] = IF i <= m + 1 THEN read[i] ELSE Zeros(n)[i - (m + 1)]
    <3>1. m + 1 + n = end
      BY <2>1
    <3>2. /\ read \o Zeros(n) \in Seq(Digit)
          /\ Len(read \o Zeros(n)) = Len(read) + Len(Zeros(n))
          /\ \A i \in 1..(Len(read) + Len(Zeros(n))) :
               (read \o Zeros(n))[i] = IF i <= Len(read) THEN read[i]
                                      ELSE Zeros(n)[i - Len(read)]
      BY <1>5, <2>3, ConcatProperties
    <3>3. Len(read) = m + 1 /\ Len(read) + Len(Zeros(n)) = end
      BY <1>5, <2>3, <3>1
    <3> QED
      BY <2>2, <3>2, <3>3
  <2>5. ASSUME NEW i \in 1..end
        PROVE  Buf(w)[i] = At(d, i - 1)
    <3>1. CASE i <= m + 1
      <4>1. i \in 1..(m + 1)
        BY <3>1
      <4> QED
        BY <1>5, <2>4, <3>1, <4>1
    <3>2. CASE i > m + 1
      <4>1. i - (m + 1) \in 1..n /\ i - 1 \in Int /\ i - 1 > m /\ ~(i <= m + 1)
        BY <2>1, <3>2
      <4>2. Zeros(n)[i - (m + 1)] = 0
        BY <2>3, <4>1
      <4> QED
        BY <1>4, <2>4, <4>1, <4>2
    <3> QED
      BY <3>1, <3>2
  <2> QED
    BY <1>1, <1>2, <2>4, <2>5
<1>7. CASE ~(end > m + 1)
  <2>1. Buf(w) = read
    BY <1>2, <1>5, <1>7 DEF Buf, read
  <2> QED
    BY <1>1, <1>2, <1>5, <1>7, <2>1
<1> QED
  BY <1>6, <1>7

(* from_sql reads the number it is given, with the point where `dot` is.    *)
LEMMA FromSqlReads ==
  ASSUME NEW w, w.digits \in Seq(Digit), w.dscale \in Nat, Dot(w) \in Nat, Dot(w) >= 1
  PROVE  IsText(FromSql(w), w.neg, w.digits, Dot(w) - 1, w.dscale)
<1>1. PICK dot \in Nat : dot = Dot(w) /\ dot >= 1
  OBVIOUS
<1>2. PICK buf : buf = Buf(w)
  OBVIOUS
<1>3. /\ buf \in Seq(Digit) /\ Len(buf) \in Nat /\ Len(buf) >= dot + w.dscale
      /\ \A i \in 1..Len(buf) : buf[i] = At(w.digits, i - 1)
  BY <1>1, <1>2, BufProperties
<1>4. \A i \in 1..Len(buf) : buf[i] \in Digit
  BY <1>3, AtProperties
<1>5. PICK start \in 1..dot : /\ start = IntStart(buf, dot)
                              /\ \A j \in 1..(start - 1) : buf[j] = 0
                              /\ start < dot => buf[start] # 0
  <2>1. CASE \A i \in 1..(dot - 1) : buf[i] = 0
    BY <1>1, <2>1 DEF IntStart
  <2>2. CASE ~(\A i \in 1..(dot - 1) : buf[i] = 0)
    <3> DEFINE T == { i \in 1..(dot - 1) : buf[i] # 0 }
    <3>1. T # {} /\ T \subseteq Nat
      BY <1>1, <2>2
    <3>2. PICK i \in T : \A j \in T : i <= j
      BY <3>1, LeastNumber
    <3>3. \E k \in 1..(dot - 1) : buf[k] # 0 /\ \A j \in 1..(k - 1) : buf[j] = 0
      BY <1>1, <3>2
    <3>4. PICK k : k = CHOOSE m \in 1..(dot - 1) : buf[m] # 0 /\ \A j \in 1..(m - 1) : buf[j] = 0
      OBVIOUS
    <3>5. k \in 1..(dot - 1) /\ buf[k] # 0 /\ \A j \in 1..(k - 1) : buf[j] = 0
      BY <3>3, <3>4, Zenon
    <3>6. IntStart(buf, dot) = k
      BY <2>2, <3>4 DEF IntStart
    <3> QED
      BY <1>1, <3>5, <3>6
  <2> QED
    BY <2>1, <2>2
<1>6. PICK n \in Nat : n = dot - start + 1 /\ n >= 1
  BY <1>5
<1> DEFINE int == SubSeq(buf, start, dot)
           frac == SubSeq(buf, dot + 1, dot + w.dscale)
<1>7. FromSql(w) = [neg |-> w.neg, int |-> int, frac |-> frac]
  BY <1>1, <1>2, <1>5 DEF FromSql
<1>8. /\ int \in Seq(Digit) /\ Len(int) = n
      /\ \A i \in 1..n : int[i] = buf[start + i - 1]
  <2>1. \A i \in start..dot : buf[i] \in Digit
    BY <1>3, <1>4
  <2> QED
    BY <1>6, <2>1, SubSeqProperties
<1>9. /\ frac \in Seq(Digit) /\ Len(frac) = w.dscale
      /\ \A i \in 1..w.dscale : frac[i] = buf[dot + i]
  <2>1. \A i \in (dot + 1)..(dot + w.dscale) : buf[i] \in Digit
    BY <1>3, <1>4
  <2>2. PICK a \in Int, b \in Int : a = dot + 1 /\ b = dot + w.dscale /\ a <= b + 1
    OBVIOUS
  <2>3. frac = SubSeq(buf, a, b) /\ \A i \in a..b : buf[i] \in Digit
    BY <2>1, <2>2
  <2>4. /\ SubSeq(buf, a, b) \in Seq(Digit) /\ Len(SubSeq(buf, a, b)) = b - a + 1
        /\ \A i \in 1..(b - a + 1) : SubSeq(buf, a, b)[i] = buf[a + i - 1]
    BY <2>2, <2>3, SubSeqProperties, SMTT(20)
  <2>5. b - a + 1 = w.dscale /\ \A i \in 1..w.dscale : a + i - 1 = dot + i
    BY <2>2
  <2> QED
    BY <2>3, <2>4, <2>5
<1> HIDE DEF int, frac
<1>10. \A i \in 1..n : int[i] = At(w.digits, dot - 1 - n + i)
  <2> TAKE i \in 1..n
  <2>1. PICK j \in Nat : j = start + i - 1 /\ j \in 1..dot /\ j - 1 = dot - 1 - n + i
    BY <1>6
  <2>2. j \in 1..Len(buf)
    BY <1>3, <2>1
  <2>3. int[i] = buf[j]
    BY <1>8, <2>1
  <2> QED
    BY <1>3, <2>1, <2>2, <2>3
<1>11. \A i \in 1..w.dscale : frac[i] = At(w.digits, dot - 1 + i)
  <2> TAKE i \in 1..w.dscale
  <2>1. PICK j \in Int : j = dot + i /\ j \in 1..Len(buf) /\ j - 1 = dot - 1 + i
    BY <1>3
  <2>2. frac[i] = buf[j]
    BY <1>9, <2>1
  <2>3. buf[j] = At(w.digits, j - 1)
    BY <1>3, <2>1
  <2> QED
    BY <2>1, <2>2, <2>3
<1>12. n > 1 => int[1] # 0
  <2>1. 1 \in 1..n /\ start + 1 - 1 = start /\ (n > 1 => start < dot)
    BY <1>6
  <2> QED
    BY <1>5, <1>8, <2>1
<1>13. \A k \in Int : k <= dot - 1 - n => At(w.digits, k) = 0
  <2> SUFFICES ASSUME NEW k \in Int, k <= dot - 1 - n
               PROVE  At(w.digits, k) = 0
    OBVIOUS
  <2>1. CASE k < 1
    BY <2>1, AtProperties
  <2>2. CASE k >= 1
    <3>1. PICK j \in Nat : j = k + 1 /\ j \in 1..(start - 1) /\ j \in 1..dot /\ j - 1 = k
      BY <1>6, <2>2
    <3>2. j \in 1..Len(buf) /\ buf[j] = 0
      BY <1>3, <1>5, <3>1
    <3> QED
      BY <1>3, <3>1, <3>2
  <2> QED
    BY <2>1, <2>2
<1>14. FromSql(w).int = int /\ FromSql(w).frac = frac
  BY <1>7
<1> QED
  BY <1>1, <1>6, <1>7, <1>8, <1>9, <1>10, <1>11, <1>12, <1>13, <1>14 DEF IsText

-----------------------------------------------------------------------------
(* The digits of `data` as Display writes them: a zero if there are none. *)
LEMMA DataDigitsProperties ==
  ASSUME NEW n, n.digits \in Seq(Digit), IsData(n.digits)
  PROVE  /\ DataDigits(n) \in Seq(Digit) /\ Len(DataDigits(n)) \in Nat /\ Len(DataDigits(n)) >= 1
         /\ \A i \in 1..Len(DataDigits(n)) :
              DataDigits(n)[i] = At(n.digits, Len(n.digits) - Len(DataDigits(n)) + i)
         /\ \A k \in Int : k <= Len(n.digits) - Len(DataDigits(n)) => At(n.digits, k) = 0
         /\ Len(DataDigits(n)) > 1 => DataDigits(n)[1] # 0
<1>1. PICK d \in Seq(Digit) : d = n.digits
  OBVIOUS
<1>2. /\ Len(d) \in Nat /\ (d = <<>> <=> Len(d) = 0)
      /\ \A i \in 1..Len(d) : At(d, i) = d[i] /\ d[i] \in Digit
      /\ \A i \in Int : i < 1 \/ i > Len(d) => At(d, i) = 0
  BY AtProperties
<1>3. CASE d = <<>>
  <2>1. DataDigits(n) = <<0>> /\ Len(d) = 0
    BY <1>1, <1>2, <1>3 DEF DataDigits
  <2>2. At(d, 0 - 1 + 1) = 0 /\ \A k \in Int : k <= 0 - 1 => At(d, k) = 0
    BY <1>2
  <2> QED
    BY <1>1, <2>1, <2>2, OneZero
<1>4. CASE d # <<>>
  <2>1. DataDigits(n) = d /\ d[1] # 0 /\ Len(d) >= 1
    BY <1>1, <1>2, <1>4 DEF DataDigits, IsData
  <2>2. \A i \in 1..Len(d) : Len(d) - Len(d) + i = i
    BY <1>2
  <2>3. \A k \in Int : k <= Len(d) - Len(d) => At(d, k) = 0
    BY <1>2
  <2> QED
    BY <1>1, <1>2, <2>1, <2>2, <2>3
<1> QED
  BY <1>3, <1>4

(* insert_dot writes what it is given, whether the digits reach beyond the  *)
(* point or not.                                                            *)
LEMMA InsertDotReads ==
  ASSUME NEW n, n.digits \in Seq(Digit), IsData(n.digits), n.scale \in Nat
  PROVE  IsText(InsertDot(n), n.neg, n.digits, Len(n.digits) - n.scale, n.scale)
<1>1. PICK d \in Seq(Digit) : d = n.digits
  OBVIOUS
<1>2. PICK s \in Nat : s = n.scale
  OBVIOUS
<1>3. PICK v \in Seq(Digit) : v = DataDigits(n)
  BY DataDigitsProperties
<1>4. PICK m \in Nat : m = Len(d)
  BY LenProperties
<1>5. PICK l \in Nat : l = Len(v) /\ l >= 1
  BY <1>3, DataDigitsProperties
<1>6. /\ \A i \in 1..l : v[i] = At(d, m - l + i) /\ v[i] \in Digit
      /\ \A k \in Int : k <= m - l => At(d, k) = 0
      /\ l > 1 => v[1] # 0
  BY <1>1, <1>3, <1>4, <1>5, DataDigitsProperties, AtProperties
<1> SUFFICES ASSUME TRUE
             PROVE  IsText(InsertDot(n), n.neg, d, m - s, s)
  BY <1>1, <1>2, <1>4
<1>7. CASE s = 0
  <2>1. InsertDot(n) = [neg |-> n.neg, int |-> v, frac |-> <<>>]
    BY <1>2, <1>3, <1>5, <1>7 DEF InsertDot
  <2>2. InsertDot(n).int = v /\ InsertDot(n).frac = <<>>
    BY <2>1
  <2>3. <<>> \in Seq(Digit) /\ Len(<<>>) = s
    BY <1>7, EmptySeq
  <2>4. m - s - l = m - l
    BY <1>7
  <2> QED
    BY <1>5, <1>6, <1>7, <2>1, <2>2, <2>3, <2>4 DEF IsText
<1>8. CASE s # 0 /\ s >= l
  <2>1. PICK a \in Nat : a = s - l
    BY <1>8
  <2> DEFINE frac == Zeros(a) \o v
  <2>2. InsertDot(n) = [neg |-> n.neg, int |-> <<0>>, frac |-> frac]
    BY <1>2, <1>3, <1>5, <1>8, <2>1 DEF InsertDot
  <2>3. /\ frac \in Seq(Digit) /\ Len(frac) = a + l
        /\ \A i \in Int : At(frac, i) = At(v, i - a)
    BY <1>5, ZerosAround
  <2> HIDE DEF frac
  <2>4. \A i \in 1..s : frac[i] = At(v, i - a)
    <3>1. \A i \in 1..(a + l) : At(frac, i) = frac[i]
      BY <2>3, AtProperties
    <3> TAKE i \in 1..s
    <3>2. i \in Int
      OBVIOUS
    <3>3. i \in 1..(a + l)
      BY <2>1
    <3>4. At(frac, i) = frac[i]
      BY <3>1, <3>3
    <3>5. At(frac, i) = At(v, i - a)
      BY <2>3, <3>2
    <3> QED
      BY <3>4, <3>5
  <2>5. ASSUME NEW i \in 1..s
        PROVE  frac[i] = At(d, m - s + i)
    <3>1. CASE i <= a
      <4>1. m - s + i \in Int /\ m - s + i <= m - l /\ i - a \in Int /\ i - a < 1
        BY <2>1, <3>1
      <4>2. frac[i] = 0
        BY <2>4, <4>1, AtProperties
      <4> QED
        BY <1>6, <4>1, <4>2
    <3>2. CASE i > a
      <4>1. i - a \in 1..l /\ m - l + (i - a) = m - s + i
        BY <2>1, <3>2
      <4>2. At(v, i - a) = v[i - a]
        BY <1>5, <4>1, AtProperties
      <4> QED
        BY <1>6, <2>4, <4>1, <4>2
    <3> QED
      BY <3>1, <3>2
  <2>6. At(d, m - s - 1 + 1) = 0 /\ \A k \in Int : k <= m - s - 1 => At(d, k) = 0
    <3>1. m - s - 1 + 1 <= m - l /\ \A k \in Int : k <= m - s - 1 => k <= m - l
      BY <1>8
    <3> QED
      BY <1>6, <3>1
  <2>7. InsertDot(n).int = <<0>> /\ InsertDot(n).frac = frac
    BY <2>2
  <2>8. Len(frac) = s
    BY <2>1, <2>3
  <2> QED
    <3>1. \A i \in 1..Len(<<0>>) : <<0>>[i] = At(d, m - s - Len(<<0>>) + i)
      BY <2>6, OneZero
    <3>2. \A k \in Int : k <= m - s - Len(<<0>>) => At(d, k) = 0
      BY <2>6, OneZero
    <3> QED
      BY <2>2, <2>3, <2>5, <2>7, <2>8, <3>1, <3>2, OneZero DEF IsText
<1>9. CASE s # 0 /\ s < l
  <2>1. PICK a \in Nat : a = l - s /\ a >= 1
    BY <1>9
  <2> DEFINE int == SubSeq(v, 1, a)
             frac == SubSeq(v, a + 1, l)
  <2>2. InsertDot(n) = [neg |-> n.neg, int |-> int, frac |-> frac]
    <3>1. ~(s <= 0) /\ ~(s >= l)
      BY <1>9
    <3> QED
      BY <1>2, <1>3, <1>5, <2>1, <3>1 DEF InsertDot
  <2>3. int \in Seq(Digit) /\ Len(int) = a /\ \A i \in 1..a : int[i] = v[i]
    <3>1. \A i \in 1..a : v[i] \in Digit
      BY <1>6, <2>1
    <3>2. /\ int \in Seq(Digit) /\ Len(int) = IF 1 <= a THEN a - 1 + 1 ELSE 0
          /\ \A i \in 1..(a - 1 + 1) : int[i] = v[1 + i - 1]
      BY <3>1, SubSeqProperties
    <3>3. a - 1 + 1 = a /\ \A i \in 1..a : 1 + i - 1 = i
      OBVIOUS
    <3> QED
      BY <2>1, <3>2, <3>3
  <2>4. frac \in Seq(Digit) /\ Len(frac) = s /\ \A i \in 1..s : frac[i] = v[a + i]
    <3>1. \A i \in (a + 1)..l : v[i] \in Digit
      BY <1>6, <2>1
    <3>2. /\ frac \in Seq(Digit) /\ Len(frac) = IF a + 1 <= l THEN l - (a + 1) + 1 ELSE 0
          /\ \A i \in 1..(l - (a + 1) + 1) : frac[i] = v[a + 1 + i - 1]
      BY <3>1, SubSeqProperties
    <3>3. a + 1 <= l /\ l - (a + 1) + 1 = s /\ \A i \in 1..s : a + 1 + i - 1 = a + i
      BY <1>9, <2>1
    <3> QED
      BY <3>2, <3>3
  <2> HIDE DEF int, frac
  <2>5. \A i \in 1..a : int[i] = At(d, m - s - a + i)
    <3>1. \A i \in 1..a : i \in 1..l /\ m - s - a + i = m - l + i
      BY <2>1
    <3> QED
      BY <1>6, <2>3, <3>1
  <2>6. \A i \in 1..s : frac[i] = At(d, m - s + i)
    <3>1. \A i \in 1..s : a + i \in 1..l /\ m - s + i = m - l + (a + i)
      BY <2>1
    <3> QED
      BY <1>6, <2>4, <3>1
  <2>7. a > 1 => int[1] # 0
    BY <1>6, <1>9, <2>1, <2>3
  <2>8. \A k \in Int : k <= m - s - a => At(d, k) = 0
    <3>1. m - s - a = m - l
      BY <2>1
    <3> QED
      BY <1>6, <3>1
  <2>9. InsertDot(n).int = int /\ InsertDot(n).frac = frac
    BY <2>2
  <2> QED
    BY <2>1, <2>2, <2>3, <2>4, <2>5, <2>6, <2>7, <2>8, <2>9 DEF IsText
<1> QED
  BY <1>7, <1>8, <1>9

(* Whatever the scale, the text is made of digits. *)
LEMMA InsertDotType ==
  ASSUME NEW n, n.digits \in Seq(Digit), IsData(n.digits), n.scale \in Int
  PROVE  /\ InsertDot(n).neg = n.neg
         /\ InsertDot(n).int \in Seq(Digit) /\ InsertDot(n).frac \in Seq(Digit)
<1>1. CASE n.scale >= 0
  <2>1. IsText(InsertDot(n), n.neg, n.digits, Len(n.digits) - n.scale, n.scale)
    BY <1>1, InsertDotReads
  <2>2. InsertDot(n) = [neg |-> n.neg, int |-> InsertDot(n).int, frac |-> InsertDot(n).frac]
    BY <2>1 DEF IsText
  <2>3. InsertDot(n).neg = n.neg
    BY <2>2
  <2> QED
    BY <2>1, <2>3 DEF IsText
<1>2. CASE n.scale < 0
  <2>1. InsertDot(n) = [neg |-> n.neg, int |-> DataDigits(n), frac |-> <<>>]
    BY <1>2 DEF InsertDot
  <2> QED
    BY <2>1, DataDigitsProperties, EmptySeq
<1> QED
  BY <1>1, <1>2

-----------------------------------------------------------------------------
(* A scale in groups of four digits and an incomplete one. *)
LEMMA ScaleParts ==
  ASSUME NEW s \in Nat
  PROVE  /\ ScaleOffset(s) \in 0..3 /\ FirstWeight(s) \in Int
         /\ s = ScaleOffset(s) - 4 * (FirstWeight(s) + 1)
<1>1. PICK c \in Nat : c = s \div 4
  OBVIOUS
<1>2. s - 4 * c \in 0..3
  BY <1>1
<1>3. ScaleOffset(s) = s - 4 * c
  BY <1>1 DEF ScaleOffset, Remainder, Quotient
<1>4. FirstWeight(s) = -c - 1
  <2>1. CASE s = 0
    BY <1>1, <2>1 DEF FirstWeight, Quotient
  <2>2. CASE s # 0
    <3>1. ~(-s >= 0) /\ -(-s) = s
      BY <2>2
    <3> QED
      BY <1>1, <3>1 DEF FirstWeight, Quotient
  <2> QED
    BY <2>1, <2>2
<1> QED
  BY <1>2, <1>3, <1>4

(* The digits in front of the incomplete group, r of them, filled up to     *)
(* whole groups by y zeros, and that group, filled up from behind.  If the  *)
(* number is shorter than the incomplete group, all its digits are there.   *)
MovedBy(y, r, d, e) ==
  /\ (y + r) % 4 = 0 /\ (r = 0 => y = 0)
  /\ e \in Seq(Digit) /\ Len(e) = y + r
  /\ \A i \in Int : i <= y + r => At(e, i) = At(d, i - y)

LEMMA OtherGroupsProperties ==
  ASSUME NEW d \in Seq(Digit), NEW o \in 0..3, NEW m \in Nat, m = Len(d),
         NEW r \in Nat, r = IF m >= o THEN m - o ELSE 0
  PROVE  \E y \in 0..3 : MovedBy(y, r, d, OtherGroups(d, o))
<1>1. /\ \A i \in 1..m : At(d, i) = d[i] /\ d[i] \in Digit
      /\ \A i \in Int : i < 1 \/ i > m => At(d, i) = 0
  BY AtProperties
<1>2. PICK rest : rest = IF o > 0 THEN SubSeq(d, 1, m - o) ELSE d
  OBVIOUS
<1>3. /\ rest \in Seq(Digit) /\ Len(rest) = r
      /\ \A i \in Int : i <= r => At(rest, i) = At(d, i)
  <2>1. CASE o > 0 /\ m >= o
    <3>1. PICK n \in Nat : n = r /\ n = m - o
      BY <2>1
    <3>7. n <= m
      BY <3>1
    <3>2. rest = SubSeq(d, 1, n)
      BY <1>2, <2>1, <3>1
    <3>3. \A i \in 1..n : d[i] \in Digit
      BY <1>1, <3>7
    <3>4. /\ rest \in Seq(Digit) /\ Len(rest) = IF 1 <= n THEN n - 1 + 1 ELSE 0
          /\ \A i \in 1..(n - 1 + 1) : rest[i] = d[1 + i - 1]
      BY <3>2, <3>3, SubSeqProperties
    <3>5. Len(rest) = n /\ \A i \in 1..n : rest[i] = d[i]
      BY <3>4
    <3>6. \A i \in Int : i <= n => At(rest, i) = At(d, i)
      BY <3>7, <3>5 DEF At
    <3> QED
      BY <3>1, <3>4, <3>5, <3>6
  <2>2. CASE o > 0 /\ m < o
    <3>1. rest = <<>>
      BY <1>2, <2>2, SubSeqEmpty
    <3>2. \A i \in Int : i <= 0 => At(rest, i) = 0 /\ At(d, i) = 0
      BY <1>1, <3>1, EmptySeq DEF At
    <3> QED
      BY <2>2, <3>1, <3>2, EmptySeq
  <2>3. CASE o = 0
    BY <1>2, <2>3
  <2> QED
    BY <2>1, <2>2, <2>3
<1>4. PICK y : y = (4 - (r % 4)) % 4
  OBVIOUS
<1>5. y \in 0..3 /\ (y + r) % 4 = 0 /\ (r = 0 => y = 0)
  <2>1. \A k \in Nat : LET x == (4 - (k % 4)) % 4
                      IN x \in 0..3 /\ (x + k) % 4 = 0 /\ (k = 0 => x = 0)
    OBVIOUS
  <2> QED
    BY <1>4, <2>1
<1>6. OtherGroups(d, o) = Zeros(y) \o rest
  BY <1>2, <1>3, <1>4 DEF OtherGroups
<1>7. /\ OtherGroups(d, o) \in Seq(Digit) /\ Len(OtherGroups(d, o)) = y + r
      /\ \A i \in Int : At(OtherGroups(d, o), i) = At(rest, i - y)
  <2>1. y \in Nat /\ rest \in Seq(Digit)
    BY <1>3, <1>5
  <2>2. /\ Zeros(y) \o rest \in Seq(Digit) /\ Len(Zeros(y) \o rest) = y + Len(rest)
        /\ \A i \in Int : At(Zeros(y) \o rest, i) = At(rest, i - y)
    BY <2>1, ZerosAround
  <2> QED
    BY <1>3, <1>6, <2>2
<1>8. \A i \in Int : i <= y + r => At(OtherGroups(d, o), i) = At(d, i - y)
  <2>1. \A i \in Int : i <= y + r => i - y \in Int /\ i - y <= r
    BY <1>5
  <2> QED
    BY <1>3, <1>7, <2>1
<1>9. MovedBy(y, r, d, OtherGroups(d, o))
  BY <1>5, <1>7, <1>8 DEF MovedBy
<1> QED
  BY <1>5, <1>9

LEMMA FirstGroupProperties ==
  ASSUME NEW d \in Seq(Digit), NEW o \in 1..3, NEW m \in Nat, m = Len(d)
  PROVE  /\ FirstGroup(d, o) \in Seq(Digit) /\ Len(FirstGroup(d, o)) = 4
         /\ \A i \in Int : i >= 1 => At(FirstGroup(d, o), i) = At(d, m - o + i)
<1>1. /\ \A i \in 1..m : At(d, i) = d[i] /\ d[i] \in Digit
      /\ \A i \in Int : i < 1 \/ i > m => At(d, i) = 0
  BY AtProperties
<1>2. PICK padded : padded = Zeros(o) \o d
  OBVIOUS
<1>3. /\ padded \in Seq(Digit) /\ Len(padded) = o + m
      /\ \A i \in Int : At(padded, i) = At(d, i - o)
  <2>1. o \in Nat
    OBVIOUS
  <2> QED
    BY <1>2, <2>1, ZerosAround
<1>4. \A i \in 1..(o + m) : padded[i] \in Digit /\ padded[i] = At(d, i - o)
  <2>1. \A i \in 1..(o + m) : padded[i] \in Digit /\ At(padded, i) = padded[i]
    BY <1>3, AtProperties
  <2> TAKE i \in 1..(o + m)
  <2>2. i \in Int
    OBVIOUS
  <2> QED
    BY <1>3, <2>1, <2>2
<1>5. PICK last : last = SubSeq(padded, m + 1, m + o)
  OBVIOUS
<1>6. last \in Seq(Digit) /\ Len(last) = o /\ \A i \in 1..o : last[i] = padded[m + i]
  <2>1. \A i \in (m + 1)..(m + o) : padded[i] \in Digit
    BY <1>4
  <2>2. /\ last \in Seq(Digit) /\ Len(last) = IF m + 1 <= m + o THEN m + o - (m + 1) + 1 ELSE 0
        /\ \A i \in 1..(m + o - (m + 1) + 1) : last[i] = padded[m + 1 + i - 1]
    BY <1>5, <2>1, SubSeqProperties
  <2>3. m + 1 <= m + o /\ m + o - (m + 1) + 1 = o /\ \A i \in 1..o : m + 1 + i - 1 = m + i
    OBVIOUS
  <2> QED
    BY <2>2, <2>3
<1>7. \A i \in Int : i >= 1 => At(last, i) = At(d, m - o + i)
  <2> SUFFICES ASSUME NEW i \in Int, i >= 1
               PROVE  At(last, i) = At(d, m - o + i)
    OBVIOUS
  <2>1. CASE i <= o
    <3>1. i \in 1..o /\ m + i \in 1..(o + m) /\ m + i - o = m - o + i
      BY <2>1
    <3>2. At(last, i) = last[i]
      BY <1>6, <3>1, AtProperties
    <3> QED
      BY <1>4, <1>6, <3>1, <3>2
  <2>2. CASE i > o
    <3>1. m - o + i \in Int /\ m - o + i > m
      BY <2>2
    <3>2. At(last, i) = 0
      BY <1>6, <2>2, AtProperties
    <3> QED
      BY <1>1, <3>1, <3>2
  <2> QED
    BY <2>1, <2>2
<1>8. FirstGroup(d, o) = last \o Zeros(4 - o)
  <2>1. Len(padded) - o + 1 = m + 1 /\ Len(padded) = m + o
    BY <1>3
  <2> QED
    BY <1>2, <1>5, <2>1 DEF FirstGroup
<1>9. PICK n \in Nat : n = 4 - o /\ o + n = 4
  OBVIOUS
<1>10. /\ FirstGroup(d, o) \in Seq(Digit) /\ Len(FirstGroup(d, o)) = 4
       /\ \A i \in Int : At(FirstGroup(d, o), i) = At(last, i)
  <2>1. last \in Seq(Digit) /\ Len(last) = o
    BY <1>6
  <2>2. /\ last \o Zeros(n) \in Seq(Digit) /\ Len(last \o Zeros(n)) = Len(last) + n
        /\ \A i \in Int : At(last \o Zeros(n), i) = At(last, i)
    BY <2>1, ZerosAround
  <2>3. FirstGroup(d, o) = last \o Zeros(n)
    BY <1>8, <1>9
  <2> QED
    BY <1>9, <2>1, <2>2, <2>3
<1> QED
  BY <1>7, <1>10
(* The groups together are the digits, moved behind at most three zeros.    *)
LEMMA GroupsAreDigits ==
  ASSUME NEW d \in Seq(Digit), NEW o \in 0..3
  PROVE  \E z \in 0..3, q \in Nat :
           /\ 4 * q = z + Len(d) - o
           /\ Len(OtherGroups(d, o)) = 4 * q
           /\ OtherGroups(d, o) \o FirstGroup(d, o) \in Seq(Digit)
           /\ Len(OtherGroups(d, o) \o FirstGroup(d, o)) = IF o = 0 THEN 4 * q ELSE 4 * q + 4
           /\ \A i \in Int : At(OtherGroups(d, o) \o FirstGroup(d, o), i) = At(d, i - z)
<1>1. PICK m \in Nat : m = Len(d)
  BY LenProperties
<1>2. \A i \in Int : i < 1 \/ i > m => At(d, i) = 0
  BY <1>1, AtProperties
<1>3. PICK r \in Nat : r = IF m >= o THEN m - o ELSE 0
  <2>1. CASE m >= o
    <3>1. m - o \in Nat
      BY <2>1
    <3> QED
      BY <2>1, <3>1
  <2>2. CASE ~(m >= o)
    BY <2>2
  <2> QED
    BY <2>1, <2>2
<1> DEFINE others == OtherGroups(d, o)
           first == FirstGroup(d, o)
<1>12. PICK y \in 0..3 : MovedBy(y, r, d, others)
  BY <1>1, <1>3, OtherGroupsProperties
<1>4. /\ (y + r) % 4 = 0 /\ (r = 0 => y = 0)
      /\ others \in Seq(Digit) /\ Len(others) = y + r
      /\ \A i \in Int : i <= y + r => At(others, i) = At(d, i - y)
  BY <1>12 DEF MovedBy
<1>5. /\ first \in Seq(Digit)
      /\ Len(first) = IF o = 0 THEN 0 ELSE 4
      /\ \A i \in Int : i >= 1 => At(first, i) = At(d, m - o + i)
  <2>1. CASE o = 0
    <3>1. first = <<>>
      BY <2>1 DEF FirstGroup
    <3>2. first \in Seq(Digit) /\ Len(first) = 0
      BY <3>1, EmptySeq
    <3>3. \A i \in Int : i >= 1 => At(first, i) = 0
      BY <3>2 DEF At
    <3>4. \A i \in Int : i >= 1 => m - o + i \in Int /\ m - o + i > m
      BY <2>1
    <3> QED
      BY <1>2, <2>1, <3>2, <3>3, <3>4
  <2>2. CASE o # 0
    <3>1. o \in 1..3
      BY <2>2
    <3>2. /\ first \in Seq(Digit) /\ Len(first) = 4
          /\ \A i \in Int : i >= 1 => At(first, i) = At(d, m - o + i)
      BY <1>1, <3>1, FirstGroupProperties
    <3> QED
      BY <2>2, <3>2
  <2> QED
    BY <2>1, <2>2
<1>6. PICK z \in 0..3 : /\ z = y + r + o - m
                        /\ z = y \/ (y = 0 /\ r = 0)
  <2>1. CASE m >= o
    BY <1>3, <2>1
  <2>2. CASE m < o
    BY <1>3, <1>4, <2>2
  <2> QED
    BY <2>1, <2>2
<1>7. PICK q \in Nat : 4 * q = y + r
  <2>1. \A k \in Nat : k % 4 = 0 => k = 4 * (k \div 4) /\ k \div 4 \in Nat
    OBVIOUS
  <2>2. y + r \in Nat
    OBVIOUS
  <2> QED
    BY <1>4, <2>1, <2>2
<1> HIDE DEF others, first
<1>8. /\ others \o first \in Seq(Digit) /\ Len(others \o first) = Len(others) + Len(first)
      /\ \A i \in Int : At(others \o first, i) =
           IF i <= Len(others) THEN At(others, i) ELSE At(first, i - Len(others))
  BY <1>4, <1>5, ConcatAt
<1>9. ASSUME NEW i \in Int
      PROVE  At(others \o first, i) = At(d, i - z)
  <2>1. CASE i <= y + r
    <3>1. At(others \o first, i) = At(d, i - y)
      BY <1>4, <1>8, <2>1
    <3>2. CASE z = y
      BY <3>1, <3>2
    <3>3. CASE y = 0 /\ r = 0
      <4>1. i - y \in Int /\ i - z \in Int /\ i - y < 1 /\ i - z < 1
        BY <2>1, <3>3
      <4> QED
        BY <1>2, <3>1, <4>1
    <3> QED
      BY <1>6, <3>2, <3>3
  <2>2. CASE i > y + r
    <3>1. i - (y + r) \in Int /\ i - (y + r) >= 1 /\ m - o + (i - (y + r)) = i - z
      BY <1>6, <2>2
    <3>2. At(others \o first, i) = At(first, i - (y + r))
      BY <1>4, <1>8, <2>2
    <3> QED
      BY <1>5, <3>1, <3>2
  <2> QED
    BY <2>1, <2>2
<1>10. 4 * q = z + Len(d) - o
  BY <1>1, <1>6, <1>7
<1>11. Len(others) = 4 * q /\ Len(others \o first) = IF o = 0 THEN 4 * q ELSE 4 * q + 4
  <2>1. Len(others) = 4 * q /\ Len(others \o first) = Len(others) + Len(first)
    BY <1>4, <1>7, <1>8
  <2>2. Len(first) = IF o = 0 THEN 0 ELSE 4
    BY <1>5
  <2> QED
    BY <2>1, <2>2
<1> QED
  BY <1>8, <1>9, <1>10, <1>11 DEF others, first

(* The wire format is the same number, in whole groups. *)
LEMMA ToSqlKeeps ==
  ASSUME NEW n, n.digits \in Seq(Digit), n.scale \in Nat
  PROVE  /\ ToSql(n) = [ neg |-> n.neg, digits |-> ToSql(n).digits,
                         weight |-> ToSql(n).weight, dscale |-> n.scale ]
         /\ ToSql(n).digits \in Seq(Digit) /\ Len(ToSql(n).digits) % 4 = 0
         /\ ToSql(n).weight \in Int
         /\ SameNumber(n.digits, Len(n.digits) - n.scale,
                       ToSql(n).digits, 4 * (ToSql(n).weight + 1))
         /\ Len(ToSql(n).digits) <= Len(n.digits) + 7
         /\ 4 * (ToSql(n).weight + 1) >= Len(n.digits) - n.scale
         /\ 4 * (ToSql(n).weight + 1) <= Len(n.digits) - n.scale + 3
<1>1. PICK d \in Seq(Digit) : d = n.digits
  OBVIOUS
<1>2. PICK s \in Nat : s = n.scale
  OBVIOUS
<1>3. PICK m \in Nat : m = Len(d)
  BY LenProperties
<1>4. PICK o \in 0..3, f \in Int : o = ScaleOffset(s) /\ f = FirstWeight(s) /\ s = o - 4 * (f + 1)
  BY ScaleParts
<1> DEFINE digits == OtherGroups(d, o) \o FirstGroup(d, o)
<1>5. PICK z \in 0..3, q \in Nat :
        /\ 4 * q = z + m - o
        /\ Len(OtherGroups(d, o)) = 4 * q
        /\ digits \in Seq(Digit)
        /\ Len(digits) = IF o = 0 THEN 4 * q ELSE 4 * q + 4
        /\ \A i \in Int : At(digits, i) = At(d, i - z)
  BY <1>3, GroupsAreDigits, ZenonT(40)
<1>6. ToSql(n) = [ neg |-> n.neg, digits |-> digits, weight |-> f + q, dscale |-> s ]
  <2>1. Len(OtherGroups(d, o)) \div 4 = q
    BY <1>5
  <2> QED
    BY <1>1, <1>2, <1>4, <2>1 DEF ToSql
<1> HIDE DEF digits
<1>7. 4 * (f + q + 1) = z + m - s
  <2>1. s = o - 4 * (f + 1) /\ 4 * q = z + m - o
    BY <1>4, <1>5
  <2> QED
    BY <2>1
<1>8. ASSUME NEW k \in Int
      PROVE  At(d, m - s + k) = At(digits, 4 * (f + q + 1) + k)
  <2>1. PICK j \in Int : j = 4 * (f + q + 1) + k /\ j - z = m - s + k
    BY <1>7
  <2>2. At(digits, j) = At(d, j - z)
    BY <1>5
  <2> QED
    BY <2>1, <2>2
<1>9. Len(digits) % 4 = 0 /\ Len(digits) <= m + 7
  <2>1. Len(digits) = 4 * q \/ Len(digits) = 4 * q + 4
    BY <1>5
  <2>2. 4 * q = z + m - o
    BY <1>5
  <2>3. 4 * q <= m + 3
    BY <2>2
  <2> QED
    BY <2>1, <2>3, SMTT(20)
<1>10. /\ ToSql(n).digits = digits /\ ToSql(n).weight = f + q
       /\ ToSql(n).neg = n.neg /\ ToSql(n).dscale = s
  BY <1>6
<1>11. f + q \in Int /\ 4 * (f + q + 1) >= m - s /\ 4 * (f + q + 1) <= m - s + 3
  BY <1>7
<1> QED
  BY <1>1, <1>2, <1>3, <1>5, <1>6, <1>8, <1>9, <1>10, <1>11 DEF SameNumber

-----------------------------------------------------------------------------
(* Every place lies in a group. *)
LEMMA PlaceInGroup ==
  ASSUME NEW g \in Nat, NEW i \in 1..(4 * g)
  PROVE  \E k \in 0..(g - 1), j \in 1..4 : i = 4 * k + j
<1>1. PICK k \in Nat : k = (i - 1) \div 4
  OBVIOUS
<1>2. i - 4 * k \in 1..4 /\ i = 4 * k + (i - 4 * k)
  BY <1>1
<1>3. k \in 0..(g - 1)
  BY <1>2
<1> QED
  BY <1>2, <1>3

(* Without the zero groups on both sides it is the same number. *)
LEMMA Stripped ==
  ASSUME NEW d \in Seq(Digit), NEW g \in Nat, Len(d) = 4 * g,
         NEW f \in 0..(g - 1), NEW l \in f..(g - 1),
         \A k \in 0..(g - 1) : k < f \/ k > l => ZeroGroup(d, k),
         ~ZeroGroup(d, f), ~ZeroGroup(d, l)
  PROVE  /\ SubSeq(d, 4 * f + 1, 4 * l + 4) \in Seq(Digit)
         /\ Len(SubSeq(d, 4 * f + 1, 4 * l + 4)) = 4 * (l - f + 1)
         /\ \A i \in Int : At(SubSeq(d, 4 * f + 1, 4 * l + 4), i) = At(d, 4 * f + i)
         /\ ~ZeroGroup(SubSeq(d, 4 * f + 1, 4 * l + 4), 0)
         /\ ~ZeroGroup(SubSeq(d, 4 * f + 1, 4 * l + 4), l - f)
<1>1. /\ \A i \in 1..(4 * g) : At(d, i) = d[i] /\ d[i] \in Digit
      /\ \A i \in Int : i < 1 \/ i > 4 * g => At(d, i) = 0
  BY AtProperties
<1>2. PICK a \in Nat, n \in Nat : a = 4 * f /\ n = 4 * (l - f + 1) /\ a + n = 4 * l + 4
  <2>1. 4 * f \in Nat /\ 4 * (l - f + 1) \in Nat /\ 4 * f + 4 * (l - f + 1) = 4 * l + 4
    OBVIOUS
  <2> QED
    BY <2>1
<1>3. a + n <= 4 * g /\ n >= 4
  BY <1>2
<1>4. PICK e : e = SubSeq(d, 4 * f + 1, 4 * l + 4)
  OBVIOUS
<1>5. e \in Seq(Digit) /\ Len(e) = n /\ \A i \in 1..n : e[i] = d[a + i]
  <2>1. e = SubSeq(d, a + 1, a + n)
    BY <1>2, <1>4
  <2>2. \A i \in (a + 1)..(a + n) : d[i] \in Digit
    BY <1>1, <1>3
  <2>3. /\ e \in Seq(Digit) /\ Len(e) = IF a + 1 <= a + n THEN a + n - (a + 1) + 1 ELSE 0
        /\ \A i \in 1..(a + n - (a + 1) + 1) : e[i] = d[a + 1 + i - 1]
    BY <2>1, <2>2, SubSeqProperties
  <2>4. /\ a + 1 <= a + n /\ a + n - (a + 1) + 1 = n
        /\ \A i \in 1..n : a + 1 + i - 1 = a + i
    BY <1>3
  <2> QED
    BY <2>3, <2>4
<1>6. ASSUME NEW i \in 1..(4 * g), i <= a \/ i > a + n
      PROVE  d[i] = 0
  <2>1. PICK k \in 0..(g - 1), j \in 1..4 : i = 4 * k + j
    BY PlaceInGroup
  <2>2. k < f \/ k > l
    BY <1>2, <1>6, <2>1
  <2>3. ZeroGroup(d, k)
    BY <2>2
  <2> QED
    BY <2>1, <2>3 DEF ZeroGroup
<1>7. ASSUME NEW i \in Int
      PROVE  At(e, i) = At(d, a + i)
  <2>1. CASE i \in 1..n
    <3>1. a + i \in 1..(4 * g)
      BY <1>3, <2>1
    <3>2. At(e, i) = e[i]
      BY <1>5, <2>1 DEF At
    <3> QED
      BY <1>1, <1>5, <2>1, <3>1, <3>2
  <2>2. CASE ~(i \in 1..n)
    <3>1. At(e, i) = 0
      BY <1>5, <2>2 DEF At
    <3>2. CASE a + i \in 1..(4 * g)
      <4>1. a + i <= a \/ a + i > a + n
        BY <2>2
      <4>2. d[a + i] = 0
        BY <1>6, <3>2, <4>1
      <4> QED
        BY <1>1, <3>1, <3>2, <4>2
    <3>3. CASE ~(a + i \in 1..(4 * g))
      <4>1. At(d, a + i) = 0
        BY <3>3 DEF At
      <4> QED
        BY <3>1, <4>1
    <3> QED
      BY <3>2, <3>3
  <2> QED
    BY <2>1, <2>2
<1>8. ~ZeroGroup(e, 0)
  <2>1. \A i \in 1..4 : 4 * 0 + i = i /\ i \in 1..n /\ e[i] = d[4 * f + i]
    BY <1>2, <1>3, <1>5, SMTT(20)
  <2> QED
    BY <2>1 DEF ZeroGroup
<1>9. ~ZeroGroup(e, l - f)
  <2>1. \A i \in 1..4 : 4 * (l - f) + i \in 1..n /\ a + (4 * (l - f) + i) = 4 * l + i
    BY <1>2
  <2>2. \A i \in 1..4 : e[4 * (l - f) + i] = d[4 * l + i]
    BY <1>5, <2>1
  <2> QED
    BY <2>2 DEF ZeroGroup
<1> QED
  BY <1>2, <1>4, <1>5, <1>7, <1>8, <1>9

(* What the server stores is the number it was sent, in its normal form. *)
LEMMA NormalisedKeeps ==
  ASSUME NEW w,
         w = [neg |-> w.neg, digits |-> w.digits, weight |-> w.weight, dscale |-> w.dscale],
         w.digits \in Seq(Digit), Len(w.digits) % 4 = 0, w.weight \in Int
  PROVE  /\ Normalised(w).digits \in Seq(Digit) /\ Len(Normalised(w).digits) % 4 = 0
         /\ Normalised(w).weight \in Int /\ Normalised(w).dscale = w.dscale
         /\ SameNumber(w.digits, 4 * (w.weight + 1),
                       Normalised(w).digits, 4 * (Normalised(w).weight + 1))
         /\ Normalised(w).digits = <<>> => Normalised(w).weight = 0 /\ Normalised(w).neg = FALSE
         /\ Normalised(w).digits # <<>> =>
              /\ ~ZeroGroup(Normalised(w).digits, 0)
              /\ ~ZeroGroup(Normalised(w).digits, Len(Normalised(w).digits) \div 4 - 1)
              /\ Normalised(w).neg = w.neg
              /\ Normalised(w).weight <= w.weight
              /\ 4 * (w.weight - Normalised(w).weight) <= Len(w.digits)
<1>1. PICK d \in Seq(Digit) : d = w.digits
  OBVIOUS
<1>2. PICK g \in Nat : g = Len(d) \div 4 /\ Len(d) = 4 * g
  <2>1. Len(d) \in Nat /\ Len(d) % 4 = 0
    BY <1>1, LenProperties
  <2> QED
    BY <2>1
<1> DEFINE kept == { k \in 0..(g - 1) : ~ZeroGroup(d, k) }
           first == CHOOSE k \in kept : \A m \in kept : k <= m
           last == CHOOSE k \in kept : \A m \in kept : k >= m
<1>3. Normalised(w) =
        IF kept = {}
        THEN [neg |-> FALSE, digits |-> <<>>, weight |-> 0, dscale |-> w.dscale]
        ELSE [w EXCEPT !.digits = SubSeq(d, 4 * first + 1, 4 * last + 4),
                       !.weight = w.weight - first]
  BY <1>1, <1>2 DEF Normalised
<1>4. CASE kept = {}
  <2>1. PICK v : v = Normalised(w)
    OBVIOUS
  <2>2. v = [neg |-> FALSE, digits |-> <<>>, weight |-> 0, dscale |-> w.dscale]
    BY <1>3, <1>4, <2>1
  <2>3. \A i \in Int : At(d, i) = 0
    <3>1. ASSUME NEW i \in 1..(4 * g)
          PROVE  d[i] = 0
      <4>1. PICK k \in 0..(g - 1), j \in 1..4 : i = 4 * k + j
        BY PlaceInGroup
      <4>2. ZeroGroup(d, k)
        BY <1>4
      <4> QED
        BY <4>1, <4>2 DEF ZeroGroup
    <3> QED
      BY <1>2, <3>1 DEF At
  <2>4. \A i \in Int : At(<<>>, i) = 0
    BY EmptySeq DEF At
  <2>5. SameNumber(d, 4 * (w.weight + 1), <<>>, 4 * (0 + 1))
    BY <2>3, <2>4 DEF SameNumber
  <2>6. /\ v.digits = <<>> /\ v.weight = 0 /\ v.neg = FALSE /\ v.dscale = w.dscale
        /\ <<>> \in Seq(Digit) /\ Len(<<>>) % 4 = 0
    BY <2>2, EmptySeq
  <2> QED
    BY <1>1, <2>1, <2>5, <2>6
<1>5. CASE kept # {}
  <2>1. PICK f \in kept : f = first /\ \A k \in kept : f <= k
    <3>1. kept \subseteq Nat
      OBVIOUS
    <3>2. \E k \in kept : \A m \in kept : k <= m
      BY <1>5, <3>1, LeastNumber
    <3>3. first \in kept /\ \A m \in kept : first <= m
      BY <3>2, Zenon
    <3> QED
      BY <3>3
  <2>2. PICK l \in kept : l = last /\ \A k \in kept : l >= k
    <3>1. kept \subseteq 0..g
      OBVIOUS
    <3>2. \E k \in kept : \A m \in kept : k >= m
      BY <1>5, <3>1, GreatestNumber
    <3>3. last \in kept /\ \A m \in kept : last >= m
      BY <3>2, Zenon
    <3> QED
      BY <3>3
  <2>3. /\ f \in 0..(g - 1) /\ l \in f..(g - 1) /\ ~ZeroGroup(d, f) /\ ~ZeroGroup(d, l)
        /\ \A k \in 0..(g - 1) : k < f \/ k > l => ZeroGroup(d, k)
    <3>1. f \in 0..(g - 1) /\ ~ZeroGroup(d, f)
      OBVIOUS
    <3>2. l \in f..(g - 1) /\ ~ZeroGroup(d, l)
      BY <2>2
    <3>3. \A k \in 0..(g - 1) : k < f \/ k > l => k \notin kept
      BY <2>1, <2>2, <3>1, <3>2
    <3> QED
      BY <3>1, <3>2, <3>3
  <2>4. PICK e : e = SubSeq(d, 4 * f + 1, 4 * l + 4)
    OBVIOUS
  <2>5. /\ e \in Seq(Digit) /\ Len(e) = 4 * (l - f + 1)
        /\ \A i \in Int : At(e, i) = At(d, 4 * f + i)
        /\ ~ZeroGroup(e, 0) /\ ~ZeroGroup(e, l - f)
    BY <1>2, <2>3, <2>4, Stripped, ZenonT(40)
  <2>6. PICK v : v = Normalised(w)
    OBVIOUS
  <2>7. v = [neg |-> w.neg, digits |-> e, weight |-> w.weight - f, dscale |-> w.dscale]
    <3>1. v = [w EXCEPT !.digits = e, !.weight = w.weight - f]
      BY <1>3, <1>5, <2>1, <2>2, <2>4, <2>6
    <3> QED
      BY <3>1
  <2> HIDE DEF kept, first, last
  <2>8. v.digits = e /\ v.weight = w.weight - f /\ v.neg = w.neg /\ v.dscale = w.dscale
    BY <2>7
  <2>9. SameNumber(d, 4 * (w.weight + 1), e, 4 * (w.weight - f + 1))
    <3>1. ASSUME NEW k \in Int
          PROVE  At(d, 4 * (w.weight + 1) + k) = At(e, 4 * (w.weight - f + 1) + k)
      <4>1. f \in Int /\ w.weight \in Int
        BY <2>3
      <4>2. \A a, b \in Int : /\ 4 * (b - a + 1) + k \in Int
                              /\ 4 * a + (4 * (b - a + 1) + k) = 4 * (b + 1) + k
        BY SMTT(20)
      <4>3. /\ 4 * (w.weight - f + 1) + k \in Int
            /\ 4 * f + (4 * (w.weight - f + 1) + k) = 4 * (w.weight + 1) + k
        BY <4>1, <4>2
      <4>4. At(e, 4 * (w.weight - f + 1) + k) = At(d, 4 * f + (4 * (w.weight - f + 1) + k))
        BY <2>5, <4>3
      <4> QED
        BY <4>3, <4>4
    <3> QED
      BY <3>1 DEF SameNumber
  <2>10. Len(e) % 4 = 0 /\ Len(e) \div 4 - 1 = l - f /\ e # <<>>
    <3>1. l - f + 1 \in Nat /\ l - f + 1 > 0
      BY <2>3
    <3>2. \A n \in Nat : (4 * n) % 4 = 0 /\ (4 * n) \div 4 = n
      OBVIOUS
    <3>3. PICK n \in Nat : n = l - f + 1 /\ n > 0 /\ n - 1 = l - f
      <4>1. l \in Int /\ f \in Int
        BY <2>3
      <4>2. \A a, b \in Int : a - b + 1 - 1 = a - b
        OBVIOUS
      <4> QED
        BY <3>1, <4>1, <4>2
    <3>4. Len(e) = 4 * n
      BY <2>5, <3>3
    <3>5. Len(e) % 4 = 0 /\ Len(e) \div 4 = n /\ Len(e) # 0
      BY <3>2, <3>3, <3>4
    <3> QED
      BY <3>3, <3>5, EmptySeq
  <2>11. w.weight - f \in Int /\ w.weight - f <= w.weight /\ 4 * (w.weight - (w.weight - f)) <= 4 * g
    BY <2>3
  <2> QED
    BY <1>1, <1>2, <2>5, <2>6, <2>8, <2>9, <2>10, <2>11
<1> QED
  BY <1>4, <1>5

-----------------------------------------------------------------------------
(* Where from_sql puts the point: behind the integer digits of the number,  *)
(* if 16 bits are enough for it.                                            *)
LEMMA DotProperties ==
  ASSUME NEW w, w.weight \in Int
  PROVE  /\ Dot(w) \in Int /\ Dot(w) # 0
         /\ ~DotOverflows(w) => Dot(w) - 1 = 4 * (w.weight + 1)
         /\ w.weight * 4 + 5 > 32767 /\ w.weight * 4 + 5 <= 65533 => Dot(w) < 0
<1>1. PICK n \in Int : n = w.weight
  OBVIOUS
<1>2. PICK x \in Int : x = n * 4 + 5 + 32768
  OBVIOUS
<1>3. Dot(w) = (x % 65536) - 32768
  BY <1>1, <1>2 DEF Dot, Int16
<1>4. PICK q \in Int, r \in Int : x = 65536 * q + r /\ x % 65536 = r /\ 0 <= r /\ r < 65536
  <2>1. /\ x % 65536 \in Int /\ x \div 65536 \in Int
        /\ x = 65536 * (x \div 65536) + (x % 65536)
        /\ 0 <= x % 65536 /\ x % 65536 < 65536
    OBVIOUS
  <2> QED
    BY <2>1
<1>5. Dot(w) \in Int /\ Dot(w) = r - 32768
  BY <1>3, <1>4
<1>6. Dot(w) # 0
  <2>1. r # 32768
    BY <1>2, <1>4
  <2> QED
    BY <1>4, <1>5, <2>1
<1>7. ASSUME ~DotOverflows(w)
      PROVE  Dot(w) - 1 = 4 * (n + 1)
  <2>1. q = 0
    BY <1>1, <1>2, <1>4, <1>7 DEF DotOverflows
  <2> QED
    BY <1>2, <1>4, <1>5, <2>1
<1>8. ASSUME n * 4 + 5 > 32767, n * 4 + 5 <= 65533
      PROVE  Dot(w) < 0
  <2>1. x >= 65536 /\ x < 131072
    BY <1>2, <1>8
  <2>2. q = 1
    BY <1>4, <2>1
  <2> QED
    BY <1>2, <1>4, <1>5, <1>8, <2>2
<1> QED
  BY <1>1, <1>5, <1>6, <1>7, <1>8

LEMMA StoredParts ==
  ASSUME NEW w, IsStored(w)
  PROVE  /\ Len(w.digits) % 4 = 0
         /\ w.digits # <<>> => ~ZeroGroup(w.digits, 0)
         /\ w.digits = <<>> => w.weight = 0
         /\ \A i \in 1..Len(w.digits) : i > 4 * (w.weight + 1) + w.dscale => w.digits[i] = 0
  BY Zenon DEF IsStored

LEMMA FirstGroupStored ==
  ASSUME NEW d \in Seq(Digit), NEW n \in Int, NEW c \in Nat, d # <<>>,
         Len(d) % 4 = 0, ~ZeroGroup(d, 0),
         \A i \in 1..Len(d) : i > 4 * (n + 1) + c => d[i] = 0
  PROVE  /\ 4 * (n + 1) + c >= 1
         /\ \E i \in 1..Len(d) : d[i] # 0
<1>1. Len(d) \in Nat /\ Len(d) # 0
  BY AtProperties
<1>2. \A k \in Nat : k # 0 /\ k % 4 = 0 => k >= 4
  OBVIOUS
<1>3. Len(d) >= 4
  BY <1>1, <1>2
<1>4. PICK i \in 1..4 : d[i] # 0
  <2>1. \A i \in 1..4 : 4 * 0 + i = i
    OBVIOUS
  <2> QED
    BY <2>1 DEF ZeroGroup
<1>5. i \in 1..Len(d)
  BY <1>1, <1>3
<1>6. ~(i > 4 * (n + 1) + c)
  BY <1>4, <1>5
<1> QED
  BY <1>4, <1>5, <1>6

(* A number the server has stored is not so small that the point overflows  *)
(* downwards, and zero is never a number of which reading panics.           *)
LEMMA StoredWeight ==
  ASSUME NEW w, w.digits \in Seq(Digit), w.weight \in Int, w.dscale \in Nat, IsStored(w)
  PROVE  /\ w.digits # <<>> => /\ 4 * (w.weight + 1) + w.dscale >= 1
                               /\ \E i \in 1..Len(w.digits) : w.digits[i] # 0
         /\ w.digits = <<>> => w.weight = 0
<1>1. CASE w.digits = <<>>
  BY <1>1, StoredParts
<1>2. CASE w.digits # <<>>
  BY <1>2, StoredParts, FirstGroupStored
<1> QED
  BY <1>1, <1>2

(* The weight of a decimal of at most 77 digits and 127 digits of fraction. *)
LEMMA WeightBound ==
  ASSUME NEW a \in Int, NEW b \in Int, NEW c \in Nat, NEW m \in Nat, NEW s \in Nat,
         m <= 77, s <= 127, a <= b, 4 * (b - a) <= c, c <= m + 7,
         4 * (b + 1) >= m - s, 4 * (b + 1) <= m - s + 3
  PROVE  -100 <= a /\ a <= 100
<1>1. b <= 20 /\ b >= -33
  OBVIOUS
<1>2. b - a <= 21
  OBVIOUS
<1> QED
  BY <1>1, <1>2

(* A decimal that the server has accepted and stored: the number appended,  *)
(* its sign and its scale, in the server's normal form.                     *)
LEMMA StoredKeeps ==
  ASSUME NEW n \in Appended, n.scale >= 0
  PROVE  LET v == Normalised(ToSql(n)) IN
           /\ v.digits \in Seq(Digit) /\ v.weight \in Int /\ -100 <= v.weight /\ v.weight <= 100
           /\ v.dscale = n.scale /\ v.neg = n.neg
           /\ SameNumber(n.digits, Len(n.digits) - n.scale, v.digits, 4 * (v.weight + 1))
           /\ IsStored(v)
<1>1. /\ n.neg \in BOOLEAN /\ n.digits \in Seq(Digit) /\ n.scale \in Nat /\ n.scale <= 127
      /\ Len(n.digits) <= 77 /\ IsData(n.digits) /\ (n.neg => n.digits # <<>>)
  <2>1. /\ n.neg \in BOOLEAN /\ n.digits \in Seq(Digit)
        /\ n.scale \in Int /\ n.scale <= 127
        /\ Len(n.digits) <= 77 /\ IsData(n.digits) /\ (n.neg => n.digits # <<>>)
    BY DecimalAssumption
  <2> QED
    BY <2>1
<1>2. PICK d \in Seq(Digit), m \in Nat, s \in Nat :
        d = n.digits /\ m = Len(d) /\ s = n.scale /\ m <= 77 /\ s <= 127
  <2>1. Len(n.digits) \in Nat
    BY <1>1, LenProperties
  <2> QED
    BY <1>1, <2>1
<1>3. PICK w : w = ToSql(n)
  OBVIOUS
<1>4. /\ w = [neg |-> w.neg, digits |-> w.digits, weight |-> w.weight, dscale |-> w.dscale]
      /\ w.neg = n.neg /\ w.dscale = s
      /\ w.digits \in Seq(Digit) /\ Len(w.digits) % 4 = 0 /\ w.weight \in Int
      /\ SameNumber(d, m - s, w.digits, 4 * (w.weight + 1))
      /\ Len(w.digits) <= m + 7
      /\ 4 * (w.weight + 1) >= m - s /\ 4 * (w.weight + 1) <= m - s + 3
  <2>1. /\ w = [neg |-> n.neg, digits |-> w.digits, weight |-> w.weight, dscale |-> n.scale]
        /\ w.digits \in Seq(Digit) /\ Len(w.digits) % 4 = 0 /\ w.weight \in Int
        /\ SameNumber(n.digits, Len(n.digits) - n.scale, w.digits, 4 * (w.weight + 1))
        /\ Len(w.digits) <= Len(n.digits) + 7
        /\ 4 * (w.weight + 1) >= Len(n.digits) - n.scale
        /\ 4 * (w.weight + 1) <= Len(n.digits) - n.scale + 3
    BY <1>1, <1>3, ToSqlKeeps
  <2>2. w.neg = n.neg /\ w.dscale = n.scale
    BY <2>1
  <2> QED
    BY <1>2, <2>1, <2>2
<1>5. PICK v : v = Normalised(w)
  OBVIOUS
<1>6. /\ v.digits \in Seq(Digit) /\ Len(v.digits) % 4 = 0
      /\ v.weight \in Int /\ v.dscale = s
      /\ SameNumber(w.digits, 4 * (w.weight + 1), v.digits, 4 * (v.weight + 1))
      /\ v.digits = <<>> => v.weight = 0 /\ v.neg = FALSE
      /\ v.digits # <<>> =>
           /\ ~ZeroGroup(v.digits, 0) /\ ~ZeroGroup(v.digits, Len(v.digits) \div 4 - 1)
           /\ v.neg = n.neg /\ v.weight <= w.weight
           /\ 4 * (w.weight - v.weight) <= Len(w.digits)
  BY <1>4, <1>5, NormalisedKeeps
<1>7. SameNumber(d, m - s, v.digits, 4 * (v.weight + 1))
  BY <1>4, <1>6 DEF SameNumber
<1>8. v.weight \in Int /\ -100 <= v.weight /\ v.weight <= 100
  <2>1. CASE v.digits = <<>>
    BY <1>6, <2>1
  <2>2. CASE v.digits # <<>>
    <3>1. /\ v.weight <= w.weight /\ 4 * (w.weight - v.weight) <= Len(w.digits)
          /\ v.weight \in Int /\ w.weight \in Int
          /\ Len(w.digits) \in Nat /\ Len(w.digits) <= m + 7
          /\ 4 * (w.weight + 1) >= m - s /\ 4 * (w.weight + 1) <= m - s + 3
      BY <1>4, <1>6, <2>2, LenProperties
    <3>2. PICK a \in Int, b \in Int, c \in Nat :
            /\ a = v.weight /\ b = w.weight /\ c = Len(w.digits)
            /\ a <= b /\ 4 * (b - a) <= c /\ c <= m + 7
            /\ 4 * (b + 1) >= m - s /\ 4 * (b + 1) <= m - s + 3
      BY <3>1
    <3>3. -100 <= a /\ a <= 100
      BY <1>2, <3>2, WeightBound
    <3> QED
      BY <3>2, <3>3
  <2> QED
    BY <2>1, <2>2
<1>9. v.neg = n.neg
  <2>1. CASE v.digits = <<>>
    <3>1. SUFFICES ASSUME n.neg PROVE FALSE
      BY <1>1, <1>6, <2>1
    <3>2. d # <<>> /\ d[1] # 0 /\ m # 0
      BY <1>1, <1>2, <3>1, AtProperties DEF IsData
    <3>3. At(d, 1) # 0
      BY <1>2, <3>2 DEF At
    <3>4. 1 - (m - s) \in Int /\ m - s + (1 - (m - s)) = 1
      OBVIOUS
    <3>5. \A i \in Int : At(v.digits, i) = 0
      BY <2>1, EmptySeq DEF At
    <3>6. At(d, m - s + (1 - (m - s))) = At(v.digits, 4 * (v.weight + 1) + (1 - (m - s)))
      BY <1>7, <3>4 DEF SameNumber
    <3>7. 4 * (v.weight + 1) + (1 - (m - s)) \in Int
      BY <1>6, <3>4
    <3> QED
      BY <3>3, <3>4, <3>5, <3>6, <3>7
  <2> QED
    BY <1>6, <2>1
<1>10. ASSUME NEW i \in 1..Len(v.digits), i > 4 * (v.weight + 1) + s
       PROVE  v.digits[i] = 0
  <2>1. Len(v.digits) \in Nat /\ At(v.digits, i) = v.digits[i]
    BY <1>6, AtProperties
  <2>2. PICK k \in Int : 4 * (v.weight + 1) + k = i /\ k > s
    <3>1. i - 4 * (v.weight + 1) \in Int /\ i - 4 * (v.weight + 1) > s
      BY <1>6, <1>10, <2>1
    <3> QED
      BY <1>6, <2>1, <3>1
  <2>3. At(v.digits, i) = At(d, m - s + k)
    BY <1>7, <2>2 DEF SameNumber
  <2>4. m - s + k \in Int /\ m - s + k > m
    BY <2>2
  <2>5. At(d, m - s + k) = 0
    BY <1>2, <2>4, AtProperties
  <2> QED
    BY <2>1, <2>3, <2>5
<1>11. IsStored(v)
  <2>1. v.digits = <<>> => v.weight = 0 /\ ~v.neg
    BY <1>6
  <2> QED
    BY <1>6, <1>10, <2>1 DEF IsStored
<1> QED
  BY <1>2, <1>3, <1>5, <1>6, <1>7, <1>8, <1>9, <1>11

-----------------------------------------------------------------------------
(* The inductive invariant: where the number is, and what has become of it. *)
RouteInv ==
  /\ build \in Builds
  /\ route \in {"postgres", "sqlite", "foreign"}
  /\ phase \in {"new", "sent", "stored", "refused", "read", "panicked"}
  /\ route # "foreign" => number \in Appended

PostgresInv ==
  route = "postgres" =>
    /\ phase = "sent" => wire = ToSql(number)
    /\ phase \in {"stored", "read", "panicked"} =>
         number.scale >= 0 /\ wire = Normalised(ToSql(number))

SQLiteInv ==
  route = "sqlite" =>
    /\ phase \in {"new", "stored", "read"}
    /\ phase # "new" => text = InsertDot(number)

ForeignInv ==
  route = "foreign" =>
    /\ number = None
    /\ wire \in Foreign
    /\ phase \in {"stored", "read", "panicked"}

ReadInv ==
  /\ phase = "read" /\ route # "sqlite" => text = FromSql(wire) /\ ~FromSqlPanics(wire)
  /\ phase = "panicked" => FromSqlPanics(wire)

DecimalInv == RouteInv /\ PostgresInv /\ SQLiteInv /\ ForeignInv /\ ReadInv

LEMMA DecimalInitially ==
  ASSUME DecimalInit
  PROVE  DecimalInv
<1>1. CASE route \in {"postgres", "sqlite"} /\ number \in Appended /\ phase = "new"
  BY <1>1 DEF DecimalInit, DecimalInv, RouteInv, PostgresInv, SQLiteInv, ForeignInv, ReadInv
<1>2. CASE route = "foreign" /\ number = None /\ wire \in Foreign /\ phase = "stored"
  BY <1>2 DEF DecimalInit, DecimalInv, RouteInv, PostgresInv, SQLiteInv, ForeignInv, ReadInv
<1> QED
  BY <1>1, <1>2 DEF DecimalInit

LEMMA ToSqlScale ==
  ASSUME NEW n
  PROVE  ToSql(n).dscale = n.scale
BY DEF ToSql

LEMMA DecimalStep ==
  ASSUME DecimalInv, [DecimalNext]_decimalVars
  PROVE  DecimalInv'
<1> USE DEF DecimalInv, RouteInv, PostgresInv, SQLiteInv, ForeignInv, ReadInv
<1>1. CASE AppendPostgres
  BY <1>1 DEF AppendPostgres
<1>2. CASE AppendSQLite
  BY <1>2 DEF AppendSQLite
<1>3. CASE Store
  <2>1. phase = "sent" /\ UNCHANGED << build, route, number, text >>
    BY <1>3 DEF Store
  <2>2. route = "postgres" /\ wire = ToSql(number)
    BY <2>1
  <2>3. CASE Accepts(wire)
    <3>1. wire' = Normalised(wire) /\ phase' = "stored"
      BY <1>3, <2>3 DEF Store
    <3>2. number.scale >= 0
      BY <2>2, <2>3, ToSqlScale DEF Accepts
    <3> QED
      BY <2>1, <2>2, <3>1, <3>2
  <2>4. CASE ~Accepts(wire)
    <3>1. phase' = "refused"
      BY <1>3, <2>4 DEF Store
    <3> QED
      BY <2>1, <2>2, <3>1
  <2> QED
    BY <2>3, <2>4
<1>4. CASE QueryPostgres
  <2>1. /\ phase = "stored" /\ route # "sqlite"
        /\ UNCHANGED << build, route, number, wire >>
    BY <1>4 DEF QueryPostgres
  <2>2. FromSqlPanics(wire)' <=> FromSqlPanics(wire)
    BY <2>1 DEF FromSqlPanics
  <2>3. CASE FromSqlPanics(wire)
    <3>1. phase' = "panicked"
      BY <1>4, <2>3 DEF QueryPostgres
    <3> QED
      BY <2>1, <2>2, <2>3, <3>1
  <2>4. CASE ~FromSqlPanics(wire)
    <3>1. phase' = "read" /\ text' = FromSql(wire)
      BY <1>4, <2>4 DEF QueryPostgres
    <3> QED
      BY <2>1, <2>2, <2>4, <3>1
  <2> QED
    BY <2>3, <2>4
<1>5. CASE QuerySQLite
  BY <1>5 DEF QuerySQLite
<1>6. CASE UNCHANGED decimalVars
  <2>1. UNCHANGED << build, route, number, wire, text, phase >>
    BY <1>6 DEF decimalVars
  <2>2. FromSqlPanics(wire)' <=> FromSqlPanics(wire)
    BY <2>1 DEF FromSqlPanics
  <2> QED
    BY <2>1, <2>2
<1> QED
  BY <1>1, <1>2, <1>3, <1>4, <1>5, <1>6 DEF DecimalNext

(* The inductive invariant. *)
THEOREM DecimalsCorrect == DecimalSpec => []DecimalInv
<1>1. DecimalInv /\ [DecimalNext]_decimalVars => DecimalInv'
  BY DecimalStep
<1> QED
  BY <1>1, DecimalInitially, PTL DEF DecimalSpec

-----------------------------------------------------------------------------
(* What the stored numeric is that is read: also where it was appended.     *)
LEMMA StoredNumber ==
  ASSUME DecimalInv, route # "sqlite", phase \in {"stored", "read", "panicked"}
  PROVE  /\ wire.neg \in BOOLEAN /\ wire.digits \in Seq(Digit) /\ wire.weight \in Int
         /\ wire.dscale \in Nat /\ wire.dscale <= MaxDscale /\ IsStored(wire)
<1>1. CASE route = "foreign"
  <2>1. wire \in Foreign
    BY <1>1 DEF DecimalInv, ForeignInv
  <2> QED
    BY <2>1, DecimalAssumption
<1>2. CASE route = "postgres"
  <2>1. number \in Appended /\ number.scale >= 0 /\ wire = Normalised(ToSql(number))
    BY <1>2 DEF DecimalInv, RouteInv, PostgresInv
  <2>2. number.neg \in BOOLEAN /\ number.scale \in Int /\ number.scale <= 127
    BY <2>1, DecimalAssumption
  <2>3. /\ wire.digits \in Seq(Digit) /\ wire.weight \in Int /\ wire.dscale = number.scale
        /\ wire.neg = number.neg /\ IsStored(wire)
    BY <2>1, StoredKeeps
  <2>4. wire.dscale \in Nat /\ wire.dscale <= MaxDscale
    BY <2>1, <2>2, <2>3 DEF MaxDscale
  <2> QED
    BY <2>2, <2>3, <2>4
<1> QED
  BY <1>1, <1>2 DEF DecimalInv, RouteInv

(* The point of a numeric never overflows downwards. *)
LEMMA OnlyUpwards ==
  ASSUME NEW w, w.digits \in Seq(Digit), w.weight \in Int,
         w.dscale \in Nat, w.dscale <= MaxDscale, IsStored(w)
  PROVE  w.weight * 4 + 5 >= -32768
<1>1. w.digits = <<>> => w.weight = 0
  BY StoredWeight
<1>2. w.digits # <<>> => 4 * (w.weight + 1) + w.dscale >= 1
  BY StoredWeight
<1>3. PICK n \in Int, c \in Nat : n = w.weight /\ c = w.dscale /\ c <= MaxDscale
  OBVIOUS
<1>4. n = 0 \/ 4 * (n + 1) + c >= 1
  BY <1>1, <1>2, <1>3
<1>5. n * 4 + 5 >= -32768
  BY <1>3, <1>4, SMTT(20) DEF MaxDscale
<1> QED
  BY <1>3, <1>5

(* What is read in route "postgres" or "foreign" is a text of what is stored, *)
(* with the point where it belongs if `dot` has not wrapped around.         *)
LEMMA ReadText ==
  ASSUME DecimalInv, route # "sqlite", phase = "read"
  PROVE  /\ text.neg = wire.neg /\ text.int \in Seq(Digit) /\ text.frac \in Seq(Digit)
         /\ ~DotOverflows(wire) =>
              IsText(text, wire.neg, wire.digits, 4 * (wire.weight + 1), wire.dscale)
<1>1. text = FromSql(wire) /\ ~FromSqlPanics(wire)
  BY DEF DecimalInv, ReadInv
<1>2. wire.digits \in Seq(Digit) /\ wire.weight \in Int /\ wire.dscale \in Nat
  BY StoredNumber
<1>3. Dot(wire) \in Int /\ Dot(wire) # 0 /\ ~(Dot(wire) < 0)
  BY <1>1, <1>2, DotProperties DEF FromSqlPanics
<1>4. Dot(wire) \in Nat /\ Dot(wire) >= 1
  BY <1>3
<1>5. IsText(text, wire.neg, wire.digits, Dot(wire) - 1, wire.dscale)
  BY <1>1, <1>2, <1>4, FromSqlReads
<1>6. text.int \in Seq(Digit) /\ text.frac \in Seq(Digit)
  BY <1>5 DEF IsText
<1>7. text.neg = wire.neg
  BY <1>1 DEF FromSql
<1>8. ~DotOverflows(wire) => Dot(wire) - 1 = 4 * (wire.weight + 1)
  BY <1>2, DotProperties
<1> QED
  BY <1>5, <1>6, <1>7, <1>8

LEMMA IntegerPlaces ==
  ASSUME NEW w, w.weight \in Int
  PROVE  4 * (w.weight + 1) \in Int
OBVIOUS

(* A stored number is zero only if it has no digits.                        *)
LEMMA TextOfStored ==
  ASSUME NEW w, w.digits \in Seq(Digit), w.weight \in Int, w.dscale \in Nat, IsStored(w)
  PROVE  IsText(Text(w.neg, w.digits, 4 * (w.weight + 1), w.dscale),
                w.neg, w.digits, 4 * (w.weight + 1), w.dscale)
<1>1. w.digits # <<>> => \E i \in 1..Len(w.digits) : w.digits[i] # 0
  BY StoredWeight
<1>2. PICK p \in Int : p = 4 * (w.weight + 1)
  BY IntegerPlaces
<1>3. IsText(Text(w.neg, w.digits, p, w.dscale), w.neg, w.digits, p, w.dscale)
  BY <1>1, TextIsText
<1> QED
  BY <1>2, <1>3

LEMMA ReadForeign ==
  ASSUME DecimalInv
  PROVE  ForeignIsRead
<1> SUFFICES ASSUME phase = "read", route = "foreign",
                    build = "debug" \/ 4 * (wire.weight + 1) <= 65532
             PROVE  text = Text(wire.neg, wire.digits, 4 * (wire.weight + 1), wire.dscale)
  BY DEF ForeignIsRead
<1>1. /\ wire.digits \in Seq(Digit) /\ wire.weight \in Int
      /\ wire.dscale \in Nat /\ wire.dscale <= MaxDscale /\ IsStored(wire)
  BY StoredNumber
<1>2. ~DotOverflows(wire)
  <2>1. ~FromSqlPanics(wire)
    BY DEF DecimalInv, ReadInv
  <2>2. ~(wire.weight * 4 + 5 < -32768)
    BY <1>1, OnlyUpwards
  <2>3. CASE build = "debug"
    BY <2>1, <2>3 DEF FromSqlPanics
  <2>4. CASE 4 * (wire.weight + 1) <= 65532
    <3>1. wire.weight * 4 + 5 <= 65533
      BY <1>1, <2>4
    <3>2. ~(wire.weight * 4 + 5 > 32767)
      BY <1>1, <2>1, <3>1, DotProperties DEF FromSqlPanics
    <3> QED
      BY <2>2, <3>2 DEF DotOverflows
  <2> QED
    BY <2>3, <2>4
<1>3. IsText(text, wire.neg, wire.digits, 4 * (wire.weight + 1), wire.dscale)
  BY <1>2, ReadText
<1>4. IsText(Text(wire.neg, wire.digits, 4 * (wire.weight + 1), wire.dscale),
             wire.neg, wire.digits, 4 * (wire.weight + 1), wire.dscale)
  BY <1>1, TextOfStored
<1>5. 4 * (wire.weight + 1) \in Int
  BY <1>1, IntegerPlaces
<1>6. SameNumber(wire.digits, 4 * (wire.weight + 1), wire.digits, 4 * (wire.weight + 1))
  BY DEF SameNumber
<1> QED
  BY <1>1, <1>3, <1>4, <1>5, <1>6, OneText

LEMMA ReadAppended ==
  ASSUME DecimalInv
  PROVE  AppendedIsReadBack
<1> SUFFICES ASSUME phase = "read", route # "foreign", number.scale >= 0
             PROVE  text = Text(number.neg, number.digits,
                                Len(number.digits) - number.scale, number.scale)
  BY DEF AppendedIsReadBack
<1>1. /\ number \in Appended /\ number.digits \in Seq(Digit) /\ number.scale \in Nat
      /\ IsData(number.digits)
  BY DecimalAssumption DEF DecimalInv, RouteInv
<1>2. PICK point \in Int : point = Len(number.digits) - number.scale
  <2>1. Len(number.digits) \in Nat
    BY <1>1, LenProperties
  <2> QED
    BY <1>1, <2>1
<1>3. number.digits # <<>> => \E i \in 1..Len(number.digits) : number.digits[i] # 0
  <2> SUFFICES ASSUME number.digits # <<>>
               PROVE  1 \in 1..Len(number.digits) /\ number.digits[1] # 0
    OBVIOUS
  <2>1. Len(number.digits) \in Nat /\ Len(number.digits) # 0
    BY <1>1, AtProperties
  <2> QED
    BY <1>1, <2>1 DEF IsData
<1>4. IsText(Text(number.neg, number.digits, point, number.scale),
             number.neg, number.digits, point, number.scale)
  BY <1>1, <1>3, TextIsText
<1>5. CASE route = "sqlite"
  <2>1. text = InsertDot(number)
    BY <1>5 DEF DecimalInv, SQLiteInv
  <2>2. IsText(text, number.neg, number.digits, point, number.scale)
    BY <1>1, <1>2, <2>1, InsertDotReads
  <2>3. SameNumber(number.digits, point, number.digits, point)
    BY DEF SameNumber
  <2> QED
    BY <1>1, <1>2, <1>4, <2>2, <2>3, OneText
<1>6. CASE route = "postgres"
  <2>1. wire = Normalised(ToSql(number))
    BY <1>6 DEF DecimalInv, PostgresInv
  <2>2. /\ wire.weight \in Int /\ -100 <= wire.weight /\ wire.weight <= 100
        /\ wire.dscale = number.scale /\ wire.neg = number.neg
        /\ SameNumber(number.digits, point, wire.digits, 4 * (wire.weight + 1))
    BY <1>1, <1>2, <2>1, StoredKeeps
  <2>3. ~DotOverflows(wire)
    BY <2>2 DEF DotOverflows
  <2>4. IsText(text, number.neg, wire.digits, 4 * (wire.weight + 1), number.scale)
    BY <1>6, <2>2, <2>3, ReadText
  <2>5. 4 * (wire.weight + 1) \in Int
    BY <2>2, IntegerPlaces
  <2>6. Text(number.neg, number.digits, point, number.scale) = text
    BY <1>1, <1>4, <2>2, <2>4, <2>5, OneText
  <2> QED
    BY <1>2, <2>6
<1> QED
  BY <1>5, <1>6 DEF DecimalInv, RouteInv

LEMMA Edges ==
  ASSUME DecimalInv
  PROVE  PanicsOnlyAtEdges
<1> SUFFICES ASSUME phase = "panicked"
             PROVE  /\ wire.digits # <<>>
                    /\ 4 * (wire.weight + 1) < 0 \/ 4 * (wire.weight + 1) > 32764
  BY DEF PanicsOnlyAtEdges
<1>1. route # "sqlite" /\ FromSqlPanics(wire)
  BY DEF DecimalInv, ReadInv, SQLiteInv
<1>2. /\ wire.digits \in Seq(Digit) /\ wire.weight \in Int
      /\ wire.dscale \in Nat /\ wire.dscale <= MaxDscale /\ IsStored(wire)
  BY <1>1, StoredNumber
<1>3. PICK n \in Int : n = wire.weight
  BY <1>2
<1>4. 4 * (n + 1) < 0 \/ 4 * (n + 1) > 32764
  <2>1. n * 4 + 5 >= -32768
    BY <1>2, <1>3, OnlyUpwards
  <2>2. CASE DotOverflows(wire)
    <3>1. n * 4 + 5 > 32767
      BY <1>3, <2>1, <2>2 DEF DotOverflows
    <3> QED
      BY <3>1
  <2>3. CASE ~DotOverflows(wire)
    <3>1. Dot(wire) < 0 /\ Dot(wire) \in Int /\ Dot(wire) - 1 = 4 * (n + 1)
      BY <1>1, <1>2, <1>3, <2>3, DotProperties DEF FromSqlPanics
    <3> QED
      BY <3>1
  <2> QED
    BY <2>2, <2>3
<1>5. wire.digits # <<>>
  <2>1. n = 0 => ~(4 * (n + 1) < 0 \/ 4 * (n + 1) > 32764)
    OBVIOUS
  <2>2. wire.digits = <<>> => wire.weight = 0
    BY <1>2, StoredParts
  <2> QED
    BY <1>3, <1>4, <2>1, <2>2
<1> QED
  BY <1>3, <1>4, <1>5

LEMMA DecimalTypes ==
  ASSUME DecimalInv
  PROVE  DecimalTypeOK
<1>1. /\ build \in Builds /\ route \in {"postgres", "sqlite", "foreign"}
      /\ phase \in {"new", "sent", "stored", "refused", "read", "panicked"}
      /\ number \in Appended \cup {None}
  BY DEF DecimalInv, RouteInv, ForeignInv
<1>2. phase \in {"stored", "read"} /\ route # "sqlite" => IsStored(wire)
  BY StoredNumber
<1>3. ASSUME phase = "read"
      PROVE  text.neg \in BOOLEAN /\ text.int \in Seq(Digit) /\ text.frac \in Seq(Digit)
  <2>1. CASE route = "sqlite"
    <3>1. text = InsertDot(number) /\ number \in Appended
      BY <1>3, <2>1 DEF DecimalInv, SQLiteInv, RouteInv
    <3>2. /\ number.neg \in BOOLEAN /\ number.digits \in Seq(Digit) /\ number.scale \in Int
          /\ IsData(number.digits)
      BY <3>1, DecimalAssumption
    <3> QED
      BY <3>1, <3>2, InsertDotType
  <2>2. CASE route # "sqlite"
    <3>1. wire.neg \in BOOLEAN
      BY <1>3, <2>2, StoredNumber
    <3> QED
      BY <1>3, <2>2, <3>1, ReadText
  <2> QED
    BY <2>1, <2>2
<1> QED
  BY <1>1, <1>2, <1>3 DEF DecimalTypeOK

(* Every value is what the types say, and PostgreSQL stores only numbers in *)
(* its normal form, whatever is appended.                                   *)
THEOREM DecimalTypeCorrect == DecimalSpec => []DecimalTypeOK
<1> QED
  BY DecimalsCorrect, DecimalTypes, PTL

(* A decimal of every length and scale that PostgreSQL or SQLite has stored *)
(* is read digit for digit, and so is every numeric that others have stored,*)
(* in a release build if it has at most 65532 digits before the point.      *)
THEOREM EveryNumberIsRead == DecimalSpec => []ReadAsWritten
<1>1. DecimalInv => ReadAsWritten
  BY ReadForeign, ReadAppended DEF ReadAsWritten
<1> QED
  BY <1>1, DecimalsCorrect, PTL

(* from_sql panics for no other numbers than these.                         *)
THEOREM PanicsAreExplained == DecimalSpec => []PanicsOnlyAtEdges
<1> QED
  BY DecimalsCorrect, Edges, PTL
=============================================================================
