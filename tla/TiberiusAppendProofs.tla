------------------------ MODULE TiberiusAppendProofs ------------------------
(* Theorems about TiberiusAppend, for every table, batch and number of rows. *)
EXTENDS TiberiusAppend, SequenceTheorems, TLAPS

Elements(s) == { s[i] : i \in 1..Len(s) }

(* The rows of batch k, and that all or none of them are among some rows. *)
Batch(k) == First(k)..batches[k]
Whole(k, rows) == Batch(k) \subseteq rows \/ Batch(k) \cap rows = {}

(* Batches follow each other, append() is within its own, and there is no   *)
(* request without an appender.                                             *)
BatchInv ==
  /\ \A j, k \in 1..Len(batches) : j <= k => batches[j] <= batches[k]
  /\ appender = "appending" =>
       /\ batches # <<>>
       /\ First(Len(batches)) <= row
       /\ row <= Given + 1
  /\ appender = "none" => sent = <<>> /\ accepted = <<>>

(* No row is in the request twice, or in the table already, and append() is *)
(* about to send one that is in neither.                                    *)
OrderInv ==
  /\ \A i, j \in 1..Len(sent) : i < j => sent[i] # sent[j]
  /\ Stored \cap Elements(sent) = {}
  /\ appender = "appending" => \A r \in Stored \cup Elements(sent) : r < row

(* What append() has accepted, and has behind it of its batch, is in the    *)
(* request.                                                                 *)
SentInv ==
  /\ Elements(accepted) \subseteq Elements(sent)
  /\ appender = "appending" => First(Len(batches))..(row - 1) \subseteq Elements(sent)

(* The request of a careful caller has whole batches, but for the one that  *)
(* append() is at.                                                          *)
WholeInv ==
  caller = "careful" =>
    /\ appender = "appending" => outcome = "ok"
    /\ outcome = "ok" =>
         \A k \in 1..Len(batches) :
           (appender = "appending" /\ k = Len(batches)) \/ Whole(k, Elements(sent))
    /\ \A k \in 1..Len(batches) : Whole(k, Stored)

IInv == TypeOK /\ BatchInv /\ OrderInv /\ SentInv /\ AckedIsStored /\ WholeInv

-----------------------------------------------------------------------------
LEMMA AppendedElements ==
  ASSUME NEW S, NEW s \in Seq(S), NEW e \in S
  PROVE  /\ Append(s, e) \in Seq(S)
         /\ Elements(Append(s, e)) = Elements(s) \cup {e}
<1>1. /\ Append(s, e) \in Seq(S) /\ Len(s) \in Nat
      /\ Len(Append(s, e)) = Len(s) + 1
      /\ \A i \in 1..Len(s) : Append(s, e)[i] = s[i]
      /\ Append(s, e)[Len(s) + 1] = e
  OBVIOUS
<1>2. 1..(Len(s) + 1) = 1..Len(s) \cup {Len(s) + 1}
  BY <1>1
<1> QED
  BY <1>1, <1>2 DEF Elements

LEMMA ConcatenatedElements ==
  ASSUME NEW S, NEW s \in Seq(S), NEW t \in Seq(S)
  PROVE  /\ s \o t \in Seq(S)
         /\ Elements(s \o t) = Elements(s) \cup Elements(t)
<1>1. s \o t \in Seq(S)
  OBVIOUS
<1>2. /\ \A i \in 1..Len(s) : i \in 1..Len(s \o t) /\ (s \o t)[i] = s[i]
      /\ \A j \in 1..Len(t) : Len(s) + j \in 1..Len(s \o t) /\ (s \o t)[Len(s) + j] = t[j]
      /\ \A k \in 1..Len(s \o t) :
           \/ k \in 1..Len(s) /\ (s \o t)[k] = s[k]
           \/ k - Len(s) \in 1..Len(t) /\ (s \o t)[k] = t[k - Len(s)]
  BY LenProperties, ConcatProperties
<1>3. \A x \in Elements(s \o t) : x \in Elements(s) \cup Elements(t)
  BY <1>2 DEF Elements
<1>4. \A x \in Elements(s) \cup Elements(t) : x \in Elements(s \o t)
  <2>1. \A x \in Elements(s) : x \in Elements(s \o t)
    BY <1>2 DEF Elements
  <2>2. \A x \in Elements(t) : x \in Elements(s \o t)
    <3> SUFFICES ASSUME NEW j \in 1..Len(t) PROVE t[j] \in Elements(s \o t)
      BY DEF Elements
    <3> QED
      BY <1>2 DEF Elements
  <2> QED
    BY <2>1, <2>2
<1> QED
  BY <1>1, <1>3, <1>4

LEMMA NoElements == Elements(<<>>) = {}
<1>1. Len(<<>>) = 0 /\ 1..0 = {}
  OBVIOUS
<1> QED
  BY <1>1 DEF Elements

LEMMA StoredElements == Stored = Elements(table)
BY DEF Stored, Elements

(* A sequence over the first n numbers is one over the first m, if n <= m. *)
LEMMA MoreGiven ==
  ASSUME NEW n \in Nat, NEW m \in Nat, n <= m
  PROVE  \A s \in Seq(1..n) : s \in Seq(1..m)
<1>1. 1..n \subseteq 1..m
  OBVIOUS
<1> QED
  BY <1>1, SeqMonotonic

LEMMA GivenType ==
  ASSUME TypeOK
  PROVE  /\ MaxRows \in Nat /\ MaxBatches \in Nat /\ MaxAppenders \in Nat
         /\ Widths \subseteq Nat /\ BatchRows \subseteq Nat
         /\ Given \in 0..MaxRows /\ Given \in Nat
         /\ Len(batches) \in Nat
         /\ batches # <<>> => Len(batches) \in 1..Len(batches) /\ Given = batches[Len(batches)]
         /\ \A k \in 1..Len(batches) :
              batches[k] \in 0..MaxRows /\ First(k) \in Nat /\ First(k) >= 1
         /\ \A k \in 1..Len(batches) : k > 1 => First(k) = batches[k - 1] + 1 /\ k - 1 \in 1..Len(batches)
<1>1. /\ MaxRows \in Nat /\ MaxBatches \in Nat /\ MaxAppenders \in Nat
      /\ Widths \subseteq Nat /\ BatchRows \subseteq Nat
  BY TiberiusAppendAssumption
<1>2. batches \in Seq(0..MaxRows)
  BY DEF TypeOK
<1>3. Len(batches) \in Nat /\ \A k \in 1..Len(batches) : batches[k] \in 0..MaxRows
  <2>1. Len(batches) \in Nat
    BY <1>2
  <2>2. \A k \in 1..Len(batches) : batches[k] \in 0..MaxRows
    BY <1>2, ElementOfSeq
  <2> QED
    BY <2>1, <2>2
<1>4. batches # <<>> => Len(batches) \in 1..Len(batches)
  BY <1>2, <1>3, EmptySeq
<1>5. batches # <<>> => Given = batches[Len(batches)] /\ Given \in 0..MaxRows
  BY <1>3, <1>4 DEF Given
<1>6. Given \in 0..MaxRows
  BY <1>1, <1>5 DEF Given
<1>7. \A k \in 1..Len(batches) : k > 1 => First(k) = batches[k - 1] + 1 /\ k - 1 \in 1..Len(batches)
  BY <1>3 DEF First
<1>8. \A k \in 1..Len(batches) : First(k) \in Nat /\ First(k) >= 1
  <2> TAKE k \in 1..Len(batches)
  <2>1. CASE k = 1
    BY <2>1 DEF First
  <2>2. CASE k # 1
    <3>1. k - 1 \in 1..Len(batches) /\ First(k) = batches[k - 1] + 1
      BY <1>3, <1>7, <2>2
    <3>2. batches[k - 1] \in Nat
      BY <1>1, <1>3, <3>1
    <3> QED
      BY <3>1, <3>2
  <2> QED
    BY <2>1, <2>2
<1> QED
  BY <1>1, <1>3, <1>4, <1>5, <1>6, <1>7, <1>8

-----------------------------------------------------------------------------
(* What the batches are after append() was called with one of n rows. *)
LEMMA AppendBatchGives ==
  ASSUME TypeOK, BatchInv, NEW n \in BatchRows, NEW w \in Widths, AppendBatch(n, w)
  PROVE  /\ n \in Nat /\ Given' = Given + n /\ Given' \in 0..MaxRows
         /\ batches' \in Seq(0..MaxRows)
         /\ Len(batches') = Len(batches) + 1
         /\ batches'[Len(batches) + 1] = Given + n
         /\ \A k \in 1..Len(batches) : batches'[k] = batches[k] /\ First(k)' = First(k)
         /\ First(Len(batches))' = Given + 1
<1>1. /\ MaxRows \in Nat /\ n \in Nat /\ Given \in Nat /\ Len(batches) \in Nat
      /\ batches \in Seq(0..MaxRows)
  BY GivenType DEF TypeOK
<1>2. batches' = Append(batches, Given + n) /\ Given + n <= MaxRows
  BY DEF AppendBatch
<1>3. Given + n \in 0..MaxRows
  BY <1>1, <1>2
<1>4. /\ batches' \in Seq(0..MaxRows)
      /\ Len(batches') = Len(batches) + 1
      /\ batches'[Len(batches) + 1] = Given + n
      /\ \A k \in 1..Len(batches) : batches'[k] = batches[k]
  BY <1>1, <1>2, <1>3
<1>5. batches' # <<>>
  BY <1>1, <1>4, EmptySeq
<1>6. Given' = Given + n
  BY <1>4, <1>5 DEF Given
<1>7. \A k \in 1..Len(batches) : First(k)' = First(k)
  <2> SUFFICES ASSUME NEW k \in 1..Len(batches) PROVE First(k)' = First(k)
    OBVIOUS
  <2>1. k = 1 \/ k - 1 \in 1..Len(batches)
    BY <1>1
  <2> QED
    BY <1>4, <2>1 DEF First
<1>8. First(Len(batches))' = Given + 1
  <2>1. CASE batches = <<>>
    <3>1. Len(batches) = 0
      BY <2>1
    <3> QED
      BY <1>4, <2>1, <3>1 DEF First, Given
  <2>2. CASE batches # <<>>
    <3>1. Len(batches) \in 1..Len(batches) /\ Given = batches[Len(batches)]
      BY <2>2, GivenType
    <3>2. Len(batches') # 1 /\ Len(batches') - 1 = Len(batches)
      BY <1>1, <1>4, <3>1
    <3>3. batches'[Len(batches)] = Given
      BY <1>4, <3>1
    <3> QED
      BY <3>2, <3>3 DEF First
  <2> QED
    BY <2>1, <2>2
<1> QED
  BY <1>1, <1>3, <1>4, <1>6, <1>7, <1>8

LEMMA BatchesKept ==
  ASSUME UNCHANGED batches
  PROVE  /\ Given' = Given
         /\ \A k \in 1..Len(batches) : First(k)' = First(k)
         /\ First(Len(batches))' = First(Len(batches))
BY DEF Given, First

LEMMA RowsType ==
  ASSUME TypeOK, BatchInv, appender = "appending"
  PROVE  /\ Rows(Len(batches)) \in Seq(1..Given)
         /\ Elements(Rows(Len(batches))) \subseteq First(Len(batches))..Given
<1> DEFINE f == First(Len(batches))
           m == Given + 1 - f
<1>1. /\ Given = batches[Len(batches)] /\ Given \in Nat /\ f \in Nat /\ f >= 1
      /\ f <= Given + 1
  <2>1. batches # <<>> /\ Len(batches) \in 1..Len(batches) /\ row <= Given + 1 /\ f <= row
    BY GivenType DEF BatchInv
  <2>2. f \in Nat /\ Given \in Nat /\ row \in Nat
    <3>1. f \in Nat /\ Given \in Nat
      BY <2>1, GivenType
    <3>2. row \in Nat
      BY DEF TypeOK
    <3> QED
      BY <3>1, <3>2
  <2>3. f >= 1
    BY <2>1, GivenType
  <2> QED
    BY <2>1, <2>2, <2>3, GivenType
<1>2. Rows(Len(batches)) = [i \in 1..m |-> f + i - 1]
  BY <1>1 DEF Rows
<1> HIDE DEF f
<1>3. m \in Nat /\ \A i \in 1..m : f + i - 1 \in f..Given /\ f + i - 1 \in 1..Given
  BY <1>1
<1> HIDE DEF m
<1>4. /\ Rows(Len(batches)) \in Seq(1..Given) /\ Len(Rows(Len(batches))) = m
      /\ \A i \in 1..m : Rows(Len(batches))[i] = f + i - 1
  <2>1. Rows(Len(batches)) \in [1..m -> 1..Given]
    BY <1>2, <1>3
  <2> QED
    BY <1>2, <1>3, <2>1
<1>5. Elements(Rows(Len(batches))) \subseteq f..Given
  BY <1>3, <1>4 DEF Elements
<1> QED
  BY <1>4, <1>5 DEF f

-----------------------------------------------------------------------------
LEMMA TypeStep ==
  ASSUME IInv, [Next]_vars
  PROVE  TypeOK'
<1>1. TypeOK /\ BatchInv
  BY DEF IInv
<1>2. /\ MaxRows \in Nat /\ MaxAppenders \in Nat /\ Given \in 0..MaxRows
      /\ row \in 0..(MaxRows + 1) /\ opened \in 0..MaxAppenders
      /\ table \in Seq(1..Given) /\ sent \in Seq(1..Given)
      /\ accepted \in Seq(1..Given) /\ acked \in Seq(1..Given)
  BY <1>1, GivenType DEF TypeOK
<1>3. <<>> \in Seq(1..Given)
  BY EmptySeq
<1>4. CASE New
  <2>1. UNCHANGED batches
    BY <1>4 DEF New
  <2>2. Given' = Given
    BY <2>1, BatchesKept
  <2> QED
    BY <1>1, <1>2, <1>4, <2>2 DEF New, TypeOK
<1>5. ASSUME NEW n \in BatchRows, NEW w \in Widths, AppendBatch(n, w)
      PROVE  TypeOK'
  <2>1. n \in Nat /\ Given' = Given + n /\ batches' \in Seq(0..MaxRows)
    BY <1>1, <1>5, AppendBatchGives
  <2>2. Given \in Nat /\ Given' \in Nat /\ Given <= Given' /\ Given + 1 \in 0..(MaxRows + 1)
    BY <1>2, <2>1
  <2>3. \A s \in Seq(1..Given) : s \in Seq(1..Given')
    BY <2>2, MoreGiven
  <2> QED
    BY <1>1, <1>2, <1>5, <2>1, <2>2, <2>3 DEF AppendBatch, TypeOK
<1>6. CASE SendRow
  <2>1. Given' = Given /\ row <= Given /\ row' = row + 1
    BY <1>6, BatchesKept DEF SendRow, MoreRows
  <2>2. row \in 1..Given
    <3>1. batches # <<>> /\ First(Len(batches)) <= row /\ First(Len(batches)) >= 1
      <4>1. batches # <<>> /\ First(Len(batches)) <= row
        BY <1>1, <1>6 DEF BatchInv, SendRow, MoreRows
      <4>2. Len(batches) \in 1..Len(batches)
        BY <1>1, <4>1, GivenType
      <4>3. First(Len(batches)) >= 1
        BY <1>1, <4>2, GivenType
      <4> QED
        BY <4>1, <4>3
    <3>2. First(Len(batches)) \in Nat
      BY <1>1, <3>1, GivenType
    <3> QED
      BY <1>2, <2>1, <3>1, <3>2
  <2>3. sent' \in Seq(1..Given)
    BY <1>2, <1>6, <2>2, AppendedElements DEF SendRow
  <2>4. row' \in 0..(MaxRows + 1)
    BY <1>2, <2>1
  <2> QED
    BY <1>1, <1>6, <2>1, <2>3, <2>4 DEF SendRow, TypeOK
<1>7. CASE SendFails \/ TransportPanics
  <2>1. Given' = Given
    BY <1>7, BatchesKept DEF SendFails, TransportPanics
  <2> QED
    BY <1>1, <1>7, <2>1 DEF SendFails, TransportPanics, TypeOK
<1>8. CASE AppendReturns
  <2>1. Given' = Given
    BY <1>8, BatchesKept DEF AppendReturns
  <2>2. accepted' \in Seq(1..Given)
    <3>1. Rows(Len(batches)) \in Seq(1..Given)
      BY <1>1, <1>8, RowsType DEF AppendReturns
    <3> QED
      BY <1>2, <1>8, <3>1, ConcatenatedElements DEF AppendReturns
  <2> QED
    BY <1>1, <1>8, <2>1, <2>2 DEF AppendReturns, TypeOK
<1>9. CASE Finish \/ FinishFails \/ DropAppender
  <2>1. /\ UNCHANGED << caller, batches, opened >>
        /\ appender' = "none" /\ sent' = <<>> /\ accepted' = <<>> /\ row' = 0 /\ width' = 0
        /\ outcome' \in {"ok", "error"}
        /\ table' \in {table, table \o sent}
        /\ acked' \in {acked, acked \o accepted}
    BY <1>9 DEF Finish, FinishFails, DropAppender, Close
  <2>2. Given' = Given
    BY <2>1, BatchesKept
  <2>3. table' \in Seq(1..Given) /\ acked' \in Seq(1..Given)
    <3>1. table \o sent \in Seq(1..Given) /\ acked \o accepted \in Seq(1..Given)
      BY <1>2, ConcatenatedElements
    <3> QED
      BY <1>2, <2>1, <3>1
  <2> QED
    BY <1>1, <1>2, <1>3, <2>1, <2>2, <2>3 DEF TypeOK
<1>10. CASE UNCHANGED vars
  <2>1. Given' = Given
    BY <1>10, BatchesKept DEF vars
  <2> QED
    BY <1>1, <1>10, <2>1 DEF vars, TypeOK
<1> QED
  BY <1>4, <1>5, <1>6, <1>7, <1>8, <1>9, <1>10 DEF Next

-----------------------------------------------------------------------------
(* What the end of an appender leaves behind. *)
LEMMA Closed ==
  ASSUME Finish \/ FinishFails \/ DropAppender
  PROVE  /\ UNCHANGED << caller, batches >>
         /\ appender' = "none" /\ sent' = <<>> /\ accepted' = <<>>
         /\ Elements(sent)' = {} /\ Elements(accepted)' = {}
<1>1. /\ UNCHANGED << caller, batches >>
      /\ appender' = "none" /\ sent' = <<>> /\ accepted' = <<>>
  BY DEF Finish, FinishFails, DropAppender, Close
<1> QED
  BY <1>1, NoElements DEF Elements

LEMMA BatchStep ==
  ASSUME IInv, [Next]_vars
  PROVE  BatchInv'
<1>1. TypeOK /\ BatchInv
  BY DEF IInv
<1>2. /\ Given \in Nat /\ Len(batches) \in Nat /\ row \in Nat
      /\ \A k \in 1..Len(batches) : batches[k] \in Nat
  <2>1. Given \in Nat /\ Len(batches) \in Nat /\ MaxRows \in Nat
    BY <1>1, GivenType
  <2>2. row \in 0..(MaxRows + 1)
    BY <1>1 DEF TypeOK
  <2>3. \A k \in 1..Len(batches) : batches[k] \in 0..MaxRows
    BY <1>1, GivenType
  <2> QED
    BY <2>1, <2>2, <2>3
<1>3. ASSUME NEW n \in BatchRows, NEW w \in Widths, AppendBatch(n, w)
      PROVE  BatchInv'
  <2>1. /\ n \in Nat /\ Given' = Given + n /\ batches' \in Seq(0..MaxRows)
        /\ Len(batches') = Len(batches) + 1
        /\ batches'[Len(batches) + 1] = Given + n
        /\ \A k \in 1..Len(batches) : batches'[k] = batches[k]
        /\ First(Len(batches))' = Given + 1
    BY <1>1, <1>3, AppendBatchGives
  <2>2. appender' = "appending" /\ row' = Given + 1
    BY <1>3 DEF AppendBatch
  <2>3. \A k \in 1..Len(batches) : batches[k] <= Given
    <3> SUFFICES ASSUME NEW k \in 1..Len(batches) PROVE batches[k] <= Given
      OBVIOUS
    <3>1. batches # <<>>
      BY <1>2
    <3>2. Len(batches) \in 1..Len(batches) /\ Given = batches[Len(batches)] /\ k <= Len(batches)
      BY <1>1, <3>1, GivenType
    <3> QED
      BY <1>1, <3>2 DEF BatchInv
  <2>4. \A j, k \in 1..Len(batches') : j <= k => batches'[j] <= batches'[k]
    <3> SUFFICES ASSUME NEW j \in 1..Len(batches'), NEW k \in 1..Len(batches'), j <= k
                 PROVE  batches'[j] <= batches'[k]
      OBVIOUS
    <3>1. CASE k \in 1..Len(batches)
      <4>1. j \in 1..Len(batches)
        BY <1>2, <3>1
      <4> QED
        BY <1>1, <2>1, <3>1, <4>1 DEF BatchInv
    <3>2. CASE k = Len(batches) + 1 /\ j \in 1..Len(batches)
      <4>1. batches'[k] = Given + n /\ batches'[j] = batches[j] /\ batches[j] <= Given
            /\ batches[j] \in Nat
        BY <1>2, <2>1, <2>3, <3>2
      <4> QED
        BY <1>2, <2>1, <4>1
    <3>3. CASE k = Len(batches) + 1 /\ j = k
      <4>1. batches'[k] = Given + n /\ batches'[j] = Given + n
        BY <2>1, <3>3
      <4> QED
        BY <1>2, <2>1, <4>1
    <3> QED
      BY <1>2, <2>1, <3>1, <3>2, <3>3
  <2>5. batches' # <<>>
    BY <1>2, <2>1, EmptySeq
  <2>6. First(Len(batches))' <= row' /\ row' <= Given' + 1
    BY <1>2, <2>1, <2>2
  <2> QED
    BY <2>2, <2>4, <2>5, <2>6 DEF BatchInv
<1>4. CASE SendRow
  <2>1. /\ UNCHANGED << batches, appender, accepted >> /\ row' = row + 1 /\ row <= Given
        /\ appender = "appending"
    BY <1>4 DEF SendRow, MoreRows
  <2>2. Given' = Given /\ First(Len(batches))' = First(Len(batches))
    BY <2>1, BatchesKept
  <2>3. batches # <<>> /\ First(Len(batches)) <= row /\ First(Len(batches)) \in Nat
    BY <1>1, <2>1, GivenType DEF BatchInv
  <2>4. First(Len(batches)) <= row + 1 /\ row + 1 <= Given + 1
    BY <1>2, <2>1, <2>3
  <2> QED
    BY <1>1, <2>1, <2>2, <2>3, <2>4 DEF BatchInv
<1>5. CASE Finish \/ FinishFails \/ DropAppender
  <2>1. appender' = "none" /\ sent' = <<>> /\ accepted' = <<>> /\ batches' = batches
    BY <1>5, Closed
  <2> QED
    BY <1>1, <2>1 DEF BatchInv
<1>6. CASE New \/ SendFails \/ TransportPanics \/ AppendReturns
  <2>1. UNCHANGED << batches, sent >> /\ appender' # "appending"
        /\ (appender' = "none" => appender = "none" /\ UNCHANGED accepted)
    BY <1>1, <1>6 DEF New, SendFails, TransportPanics, AppendReturns
  <2> QED
    BY <1>1, <2>1 DEF BatchInv
<1>7. CASE UNCHANGED vars
  <2>1. Given' = Given /\ First(Len(batches))' = First(Len(batches))
    BY <1>7, BatchesKept DEF vars
  <2> QED
    BY <1>1, <1>7, <2>1 DEF vars, BatchInv
<1> QED
  BY <1>3, <1>4, <1>5, <1>6, <1>7 DEF Next

(* The rows stored and those in the request are rows that were given. *)
LEMMA RowsAreGiven ==
  ASSUME TypeOK
  PROVE  Stored \subseteq 1..Given /\ Elements(sent) \subseteq 1..Given
<1>1. table \in Seq(1..Given) /\ sent \in Seq(1..Given)
  BY DEF TypeOK
<1>2. \A i \in 1..Len(table) : table[i] \in 1..Given
  BY <1>1, ElementOfSeq
<1>3. \A i \in 1..Len(sent) : sent[i] \in 1..Given
  BY <1>1, ElementOfSeq
<1> QED
  BY <1>2, <1>3 DEF Stored, Elements

(* A row is sent once, and the request goes to the table as a whole. *)
LEMMA OrderStep ==
  ASSUME IInv, [Next]_vars
  PROVE  OrderInv'
<1>1. TypeOK /\ BatchInv /\ OrderInv
  BY DEF IInv
<1>2. /\ Given \in Nat /\ row \in Nat /\ Len(sent) \in Nat
      /\ table \in Seq(1..Given) /\ sent \in Seq(1..Given)
  BY <1>1, GivenType DEF TypeOK
<1>3. Stored \subseteq 1..Given /\ Elements(sent) \subseteq 1..Given
  BY <1>1, RowsAreGiven
<1>4. CASE UNCHANGED << table, sent >> /\ appender' # "appending"
  BY <1>1, <1>4 DEF OrderInv, Stored, Elements
<1>5. CASE UNCHANGED << table, sent, appender, row >>
  BY <1>1, <1>5 DEF OrderInv, Stored, Elements
<1>6. ASSUME NEW n \in BatchRows, NEW w \in Widths, AppendBatch(n, w)
      PROVE  OrderInv'
  <2>1. UNCHANGED << table, sent >> /\ row' = Given + 1
    BY <1>6 DEF AppendBatch
  <2>2. Stored' = Stored /\ Elements(sent)' = Elements(sent)
    BY <2>1 DEF Stored, Elements
  <2>3. \A r \in Stored \cup Elements(sent) : r < Given + 1
    BY <1>2, <1>3
  <2> QED
    BY <1>1, <2>1, <2>2, <2>3 DEF OrderInv
<1>7. CASE SendRow
  <2>1. /\ UNCHANGED table /\ sent' = Append(sent, row) /\ row' = row + 1
        /\ appender = "appending" /\ row <= Given
    BY <1>7 DEF SendRow, MoreRows
  <2>2. \A r \in Stored \cup Elements(sent) : r < row
    BY <1>1, <2>1 DEF OrderInv
  <2>3. Stored' = Stored /\ Elements(sent)' = Elements(sent) \cup {row}
    <3>1. sent \in Seq(Nat) /\ row \in Nat
      BY <1>2, SeqMonotonic
    <3>2. Elements(Append(sent, row)) = Elements(sent) \cup {row}
      BY <3>1, AppendedElements
    <3> QED
      BY <2>1, <3>2 DEF Stored, Elements
  <2>4. row \notin Stored /\ row \notin Elements(sent)
    BY <1>2, <2>2
  <2>5. \A i, j \in 1..Len(sent') : i < j => sent'[i] # sent'[j]
    <3> SUFFICES ASSUME NEW i \in 1..Len(sent'), NEW j \in 1..Len(sent'), i < j
                 PROVE  sent'[i] # sent'[j]
      OBVIOUS
    <3>1. /\ Len(sent') = Len(sent) + 1 /\ sent'[Len(sent) + 1] = row
          /\ \A k \in 1..Len(sent) : sent'[k] = sent[k]
      BY <1>2, <2>1
    <3>2. i \in 1..Len(sent) /\ sent'[i] = sent[i]
      BY <1>2, <3>1
    <3>3. CASE j \in 1..Len(sent)
      BY <1>1, <3>1, <3>2, <3>3 DEF OrderInv
    <3>4. CASE j = Len(sent) + 1
      <4>1. sent[i] \in Elements(sent)
        BY <3>2 DEF Elements
      <4>2. sent'[j] = row /\ sent[i] # row
        BY <2>4, <3>1, <3>4, <4>1
      <4> QED
        BY <3>2, <4>2
    <3> QED
      BY <1>2, <3>1, <3>3, <3>4
  <2>6. \A r \in Stored' \cup Elements(sent)' : r < row'
    <3>1. \A r \in Stored \cup Elements(sent) \cup {row} : r \in Nat /\ r <= row
      BY <1>2, <1>3, <2>2
    <3> QED
      BY <1>2, <2>1, <2>3, <3>1
  <2>7. Stored' \cap Elements(sent)' = {}
    BY <1>1, <2>3, <2>4 DEF OrderInv
  <2> QED
    BY <2>5, <2>6, <2>7 DEF OrderInv
<1>8. CASE Finish \/ FinishFails \/ DropAppender
  <2>1. appender' = "none" /\ sent' = <<>> /\ Elements(sent)' = {}
    BY <1>8, Closed
  <2>2. Len(sent') = 0 /\ 1..0 = {}
    BY <2>1
  <2> QED
    BY <2>1, <2>2 DEF OrderInv
<1> QED
  BY <1>4, <1>5, <1>6, <1>7, <1>8
  DEF Next, New, SendFails, TransportPanics, AppendReturns, vars

-----------------------------------------------------------------------------
(* What was accepted is in the request until it is acknowledged. *)
LEMMA SentStep ==
  ASSUME IInv, [Next]_vars
  PROVE  SentInv' /\ AckedIsStored'
<1>1. TypeOK /\ BatchInv /\ SentInv /\ AckedIsStored
  BY DEF IInv
<1>2. /\ Given \in Nat /\ row \in Nat
      /\ table \in Seq(1..Given) /\ sent \in Seq(1..Given)
      /\ accepted \in Seq(1..Given) /\ acked \in Seq(1..Given)
  BY <1>1, GivenType DEF TypeOK
<1>3. AckedIsStored <=> Elements(acked) \subseteq Stored
  BY DEF AckedIsStored, Elements
<1>4. (AckedIsStored <=> Elements(acked) \subseteq Stored)'
  BY DEF AckedIsStored, Elements
<1>5. CASE UNCHANGED << table, acked >>
  <2>1. AckedIsStored'
    BY <1>1, <1>5 DEF AckedIsStored, Stored
  <2>2. ASSUME NEW n \in BatchRows, NEW w \in Widths, AppendBatch(n, w)
        PROVE  SentInv'
    <3>1. /\ UNCHANGED << sent, accepted >> /\ row' = Given + 1
          /\ First(Len(batches))' = Given + 1
      BY <1>1, <2>2, AppendBatchGives DEF AppendBatch
    <3>2. (Given + 1)..(Given + 1 - 1) = {}
      BY <1>2
    <3>3. First(Len(batches))'..(row' - 1) = {}
      BY <3>1, <3>2
    <3>4. Elements(sent)' = Elements(sent) /\ Elements(accepted)' = Elements(accepted)
      BY <3>1 DEF Elements
    <3> QED
      BY <1>1, <3>2, <3>3, <3>4 DEF SentInv
  <2>3. ASSUME SendRow PROVE SentInv'
    <3>1. /\ UNCHANGED << accepted, batches >> /\ sent' = Append(sent, row) /\ row' = row + 1
          /\ appender = "appending" /\ batches # <<>>
      BY <1>1, <2>3 DEF SendRow, MoreRows, BatchInv
    <3>2. First(Len(batches))' = First(Len(batches)) /\ First(Len(batches)) \in Nat
      BY <1>1, <3>1, BatchesKept, GivenType
    <3>3. Elements(sent)' = Elements(sent) \cup {row}
      <4>1. sent \in Seq(Nat) /\ row \in Nat
        BY <1>2, SeqMonotonic
      <4>2. Elements(Append(sent, row)) = Elements(sent) \cup {row}
        BY <4>1, AppendedElements
      <4> QED
        BY <3>1, <4>2 DEF Elements
    <3>4. First(Len(batches))..row \subseteq First(Len(batches))..(row - 1) \cup {row}
      BY <1>2, <3>2
    <3>5. First(Len(batches))..row \subseteq Elements(sent)'
      BY <1>1, <3>1, <3>3, <3>4 DEF SentInv
    <3>6. row' - 1 = row /\ Elements(accepted)' = Elements(accepted)
      BY <1>2, <3>1 DEF Elements
    <3> QED
      BY <1>1, <3>2, <3>3, <3>5, <3>6 DEF SentInv
  <2>4. ASSUME AppendReturns PROVE SentInv'
    <3>1. /\ UNCHANGED sent /\ accepted' = accepted \o Rows(Len(batches))
          /\ appender = "appending" /\ appender' = "open" /\ row > Given
      BY <1>2, <2>4 DEF AppendReturns, MoreRows
    <3>2. /\ Rows(Len(batches)) \in Seq(1..Given)
          /\ Elements(Rows(Len(batches))) \subseteq First(Len(batches))..Given
      BY <1>1, <3>1, RowsType
    <3>3. Elements(accepted)' = Elements(accepted) \cup Elements(Rows(Len(batches)))
      <4>1. Elements(accepted \o Rows(Len(batches)))
              = Elements(accepted) \cup Elements(Rows(Len(batches)))
        BY <1>2, <3>2, ConcatenatedElements
      <4> QED
        BY <3>1, <4>1 DEF Elements
    <3>4. First(Len(batches))..Given \subseteq First(Len(batches))..(row - 1)
      <4>1. First(Len(batches)) \in Nat
        BY <1>1, <3>1, GivenType DEF BatchInv
      <4> QED
        BY <1>2, <3>1, <4>1
    <3>5. Elements(sent)' = Elements(sent)
      BY <3>1 DEF Elements
    <3> QED
      BY <1>1, <3>1, <3>2, <3>3, <3>4, <3>5 DEF SentInv
  <2>5. ASSUME UNCHANGED << sent, accepted >>, appender' # "appending" PROVE SentInv'
    BY <1>1, <2>5 DEF SentInv, Elements
  <2>6. ASSUME Finish \/ FinishFails \/ DropAppender PROVE SentInv'
    BY <2>6, Closed DEF SentInv
  <2>7. ASSUME UNCHANGED vars PROVE SentInv'
    <3>1. First(Len(batches))' = First(Len(batches))
      BY <2>7, BatchesKept DEF vars
    <3> QED
      BY <1>1, <2>7, <3>1 DEF vars, SentInv, Elements
  <2> QED
    BY <2>1, <2>2, <2>3, <2>4, <2>5, <2>6, <2>7
    DEF Next, New, SendFails, TransportPanics
<1>6. CASE Finish
  <2>1. table' = table \o sent /\ acked' = acked \o accepted
    BY <1>6 DEF Finish
  <2>2. Stored' = Stored \cup Elements(sent)
    <3>1. Elements(table \o sent) = Elements(table) \cup Elements(sent)
      BY <1>2, ConcatenatedElements
    <3> QED
      BY <2>1, <3>1 DEF Stored, Elements
  <2>3. Elements(acked)' = Elements(acked) \cup Elements(accepted)
    <3>1. Elements(acked \o accepted) = Elements(acked) \cup Elements(accepted)
      BY <1>2, ConcatenatedElements
    <3> QED
      BY <2>1, <3>1 DEF Elements
  <2>4. Elements(acked)' \subseteq Stored'
    BY <1>1, <1>3, <2>2, <2>3 DEF SentInv
  <2>5. SentInv'
    BY <1>6, Closed DEF SentInv
  <2> QED
    BY <1>4, <2>4, <2>5
<1>7. CASE FinishFails
  <2>1. table' \in {table, table \o sent} /\ acked' = acked
    BY <1>7 DEF FinishFails
  <2>2. Stored \subseteq Stored'
    <3>1. Elements(table \o sent) = Elements(table) \cup Elements(sent)
      BY <1>2, ConcatenatedElements
    <3> QED
      BY <2>1, <3>1 DEF Stored, Elements
  <2>3. Elements(acked)' = Elements(acked)
    BY <2>1 DEF Elements
  <2>4. SentInv'
    BY <1>7, Closed DEF SentInv
  <2> QED
    BY <1>1, <1>3, <1>4, <2>2, <2>3, <2>4
<1> QED
  BY <1>5, <1>6, <1>7
  DEF Next, New, AppendBatch, SendRow, SendFails, TransportPanics, AppendReturns,
      DropAppender, vars

-----------------------------------------------------------------------------
(* A careful caller finishes an appender only when it has whole batches. *)
LEMMA WholeStep ==
  ASSUME IInv, [Next]_vars
  PROVE  WholeInv'
<1>1. TypeOK /\ BatchInv /\ SentInv /\ WholeInv
  BY DEF IInv
<1>2. /\ Given \in Nat /\ Len(batches) \in Nat /\ row \in Nat
      /\ Stored \subseteq 1..Given
  BY <1>1, GivenType, RowsAreGiven DEF TypeOK
<1>3. CASE New
  <2>1. /\ UNCHANGED << table, caller, sent, batches >>
        /\ appender = "none" /\ appender' # "appending" /\ sent' = <<>>
    BY <1>1, <1>3 DEF New, BatchInv
  <2>2. Stored' = Stored /\ Elements(sent)' = {}
    BY <2>1, NoElements DEF Stored, Elements
  <2>3. \A k \in 1..Len(batches) : Batch(k)' = Batch(k)
    BY <2>1, BatchesKept DEF Batch
  <2> QED
    BY <1>1, <2>1, <2>2, <2>3 DEF WholeInv, Whole
<1>4. ASSUME NEW n \in BatchRows, NEW w \in Widths, AppendBatch(n, w)
      PROVE  WholeInv'
  <2>1. /\ UNCHANGED << table, caller, sent, outcome >>
        /\ appender = "open" /\ appender' = "appending"
        /\ caller = "careful" => outcome = "ok"
    BY <1>1, <1>4 DEF AppendBatch, MayCall, TypeOK
  <2>2. Stored' = Stored /\ Elements(sent)' = Elements(sent)
    BY <2>1 DEF Stored, Elements
  <2>3. /\ Len(batches') = Len(batches) + 1
        /\ batches'[Len(batches) + 1] = Given + n
        /\ First(Len(batches))' = Given + 1
        /\ \A k \in 1..Len(batches) : batches'[k] = batches[k] /\ First(k)' = First(k)
    BY <1>1, <1>4, AppendBatchGives
  <2>4. \A k \in 1..Len(batches) : Batch(k)' = Batch(k)
    BY <2>3 DEF Batch
  <2>5. \A k \in 1..Len(batches') : k \in 1..Len(batches) \/ k = Len(batches')
    BY <1>2, <2>3
  <2>6. First(Len(batches))'..(Given + n) \cap Stored = {}
    <3>1. n \in Nat
      BY <1>1, <1>4, AppendBatchGives
    <3>2. (Given + 1)..(Given + n) \cap 1..Given = {}
      BY <1>2, <3>1
    <3> QED
      BY <1>2, <2>3, <3>2
  <2>7. \A k \in 1..Len(batches') : k = Len(batches') => Batch(k)' \cap Stored = {}
    BY <2>3, <2>6 DEF Batch
  <2> QED
    BY <1>1, <2>1, <2>2, <2>4, <2>5, <2>7 DEF WholeInv, Whole
<1>5. CASE SendRow
  <2>1. /\ UNCHANGED << table, caller, outcome, appender, batches >>
        /\ sent' = Append(sent, row) /\ appender = "appending"
    BY <1>5 DEF SendRow, MoreRows
  <2>2. Stored' = Stored
    BY <2>1 DEF Stored
  <2>3. Elements(sent)' = Elements(sent) \cup {row}
    <3>1. sent \in Seq(Nat) /\ row \in Nat
      <4>1. sent \in Seq(1..Given) /\ 1..Given \subseteq Nat
        BY <1>1 DEF TypeOK
      <4> QED
        BY <1>2, <4>1, SeqMonotonic
    <3>2. Elements(Append(sent, row)) = Elements(sent) \cup {row}
      BY <3>1, AppendedElements
    <3> QED
      BY <2>1, <3>2 DEF Elements
  <2>4. \A k \in 1..Len(batches) : Batch(k)' = Batch(k)
    BY <2>1, BatchesKept DEF Batch
  <2>5. \A k \in 1..Len(batches) : k # Len(batches) => row \notin Batch(k)
    <3> SUFFICES ASSUME NEW k \in 1..Len(batches), k # Len(batches)
                 PROVE  row \notin Batch(k)
      OBVIOUS
    <3>1. Len(batches) \in 1..Len(batches) /\ Len(batches) > 1 /\ k <= Len(batches) - 1
      BY <1>2
    <3>2. /\ First(Len(batches)) = batches[Len(batches) - 1] + 1
          /\ Len(batches) - 1 \in 1..Len(batches)
      BY <1>1, <3>1, GivenType
    <3>3. batches[k] <= batches[Len(batches) - 1] /\ First(Len(batches)) <= row
      BY <1>1, <2>1, <3>1, <3>2 DEF BatchInv
    <3>4. batches[k] \in Nat /\ batches[Len(batches) - 1] \in Nat /\ First(k) \in Nat
      <4>1. MaxRows \in Nat /\ batches[k] \in 0..MaxRows /\ batches[Len(batches) - 1] \in 0..MaxRows
            /\ First(k) \in Nat
        BY <1>1, <3>2, GivenType
      <4> QED
        BY <4>1
    <3>5. row > batches[k]
      BY <1>2, <3>2, <3>3, <3>4
    <3> QED
      BY <1>2, <3>4, <3>5 DEF Batch
  <2> QED
    BY <1>1, <2>1, <2>2, <2>3, <2>4, <2>5 DEF WholeInv, Whole
<1>6. CASE SendFails \/ TransportPanics
  <2>1. /\ UNCHANGED << table, caller, batches >>
        /\ appender' = "open" /\ outcome' # "ok"
    BY <1>6 DEF SendFails, TransportPanics
  <2>2. Stored' = Stored
    BY <2>1 DEF Stored
  <2>3. \A k \in 1..Len(batches) : Batch(k)' = Batch(k)
    BY <2>1, BatchesKept DEF Batch
  <2> QED
    BY <1>1, <2>1, <2>2, <2>3 DEF WholeInv, Whole
<1>7. CASE AppendReturns
  <2>1. /\ UNCHANGED << table, caller, sent, batches >>
        /\ appender = "appending" /\ appender' = "open" /\ row > Given /\ batches # <<>>
    BY <1>1, <1>2, <1>7 DEF AppendReturns, MoreRows, BatchInv
  <2>2. Stored' = Stored /\ Elements(sent)' = Elements(sent)
    BY <2>1 DEF Stored, Elements
  <2>3. \A k \in 1..Len(batches) : Batch(k)' = Batch(k)
    BY <2>1, BatchesKept DEF Batch
  <2>4. Batch(Len(batches)) \subseteq Elements(sent)
    <3>1. Batch(Len(batches)) = First(Len(batches))..Given /\ First(Len(batches)) \in Nat
      BY <1>1, <2>1, GivenType DEF Batch
    <3>2. First(Len(batches))..Given \subseteq First(Len(batches))..(row - 1)
      BY <1>2, <2>1, <3>1
    <3> QED
      BY <1>1, <2>1, <3>1, <3>2 DEF SentInv
  <2> QED
    BY <1>1, <2>1, <2>2, <2>3, <2>4 DEF WholeInv, Whole
<1>8. CASE Finish \/ FinishFails \/ DropAppender
  <2>1. /\ UNCHANGED << caller, batches >>
        /\ appender' = "none" /\ Elements(sent)' = {}
    BY <1>8, Closed
  <2>2. /\ table' \in {table, table \o sent}
        /\ table' = table \/ (appender = "open" /\ (caller = "careful" => outcome = "ok"))
    BY <1>1, <1>8 DEF Finish, FinishFails, DropAppender, MayCall, TypeOK
  <2>3. Stored' = Stored \/ Stored' = Stored \cup Elements(sent)
    <3>1. table \in Seq(1..Given) /\ sent \in Seq(1..Given)
      BY <1>1 DEF TypeOK
    <3>2. Elements(table \o sent) = Elements(table) \cup Elements(sent)
      BY <3>1, ConcatenatedElements
    <3> QED
      BY <2>2, <3>2 DEF Stored, Elements
  <2>4. table' = table => Stored' = Stored
    BY DEF Stored
  <2>5. \A k \in 1..Len(batches) : Batch(k)' = Batch(k)
    BY <2>1, BatchesKept DEF Batch
  <2>6. caller = "careful" => \A k \in 1..Len(batches) : Whole(k, Stored)'
    <3> SUFFICES ASSUME caller = "careful", NEW k \in 1..Len(batches)
                 PROVE  Batch(k) \subseteq Stored' \/ Batch(k) \cap Stored' = {}
      BY <2>5 DEF Whole
    <3>1. Whole(k, Stored)
      BY <1>1 DEF WholeInv
    <3>2. CASE table' = table
      BY <2>4, <3>1, <3>2 DEF Whole
    <3>3. CASE appender = "open" /\ outcome = "ok"
      <4>1. Whole(k, Elements(sent))
        BY <1>1, <3>3 DEF WholeInv
      <4> QED
        BY <2>3, <3>1, <4>1 DEF Whole
    <3> QED
      BY <2>2, <3>2, <3>3
  <2>7. \A k \in 1..Len(batches) : Whole(k, Elements(sent))'
    BY <2>1 DEF Whole
  <2> QED
    BY <2>1, <2>6, <2>7 DEF WholeInv
<1>9. CASE UNCHANGED vars
  <2>1. UNCHANGED << table, caller, appender, sent, outcome, batches >>
    BY <1>9 DEF vars
  <2>2. Stored' = Stored /\ Elements(sent)' = Elements(sent)
    BY <2>1 DEF Stored, Elements
  <2>3. \A k \in 1..Len(batches) : Batch(k)' = Batch(k)
    BY <2>1, BatchesKept DEF Batch
  <2> QED
    BY <1>1, <2>1, <2>2, <2>3 DEF WholeInv, Whole
<1> QED
  BY <1>3, <1>4, <1>5, <1>6, <1>7, <1>8, <1>9 DEF Next

-----------------------------------------------------------------------------
(* The inductive invariant. *)
THEOREM Correct == Spec => []IInv
<1>1. Init => IInv
  <2> SUFFICES ASSUME Init PROVE IInv
    OBVIOUS
  <2>1. MaxRows \in Nat /\ MaxAppenders \in Nat
    BY TiberiusAppendAssumption
  <2>2. <<>> \in Seq(1..Given) /\ <<>> \in Seq(0..MaxRows)
    BY EmptySeq
  <2>3. TypeOK
    BY <2>1, <2>2 DEF Init, TypeOK
  <2>4. Len(batches) = 0 /\ Len(sent) = 0 /\ Len(acked) = 0 /\ 1..0 = {}
    BY DEF Init
  <2>5. Elements(sent) = {} /\ Elements(accepted) = {}
    BY NoElements DEF Init
  <2>6. BatchInv /\ SentInv /\ AckedIsStored
    BY <2>4, <2>5 DEF Init, BatchInv, SentInv, AckedIsStored
  <2>7. OrderInv
    BY <2>4, <2>5 DEF Init, OrderInv
  <2>8. WholeInv
    BY <2>4 DEF Init, WholeInv
  <2> QED
    BY <2>3, <2>6, <2>7, <2>8 DEF IInv
<1>2. IInv /\ [Next]_vars => IInv'
  BY TypeStep, BatchStep, OrderStep, SentStep, WholeStep DEF IInv
<1> QED
  BY <1>1, <1>2, PTL DEF Spec

(* Type correctness: no row is sent that was not given. *)
THEOREM TypeCorrect == Spec => []TypeOK
<1>1. IInv => TypeOK
  BY DEF IInv
<1> QED
  BY <1>1, Correct, PTL

(* Rows of accepted batches are stored once finish() has returned Ok. *)
THEOREM AckedIsAlwaysStored == Spec => []AckedIsStored
<1>1. IInv => AckedIsStored
  BY DEF IInv
<1> QED
  BY <1>1, Correct, PTL

(* A careful caller's batches are stored whole or not at all. *)
THEOREM WholeBatchesAlways == Spec => []WholeBatches
<1>1. IInv => WholeBatches
  BY DEF IInv, WholeInv, Whole, Batch, WholeBatches
<1> QED
  BY <1>1, Correct, PTL

-----------------------------------------------------------------------------
(* A step of the appender is a step of TableAppend, or a stutter: a row     *)
(* that is sent is a new one, and the end stores all that was sent or none. *)
LEMMA PromiseStep ==
  ASSUME IInv, [Next]_vars
  PROVE  [Promise!Next]_(Promise!vars)
<1>1. TypeOK /\ BatchInv /\ OrderInv
  BY DEF IInv
<1>2. ASSUME New, appender' = "open"
      PROVE  Promise!Next
  <2>1. UNCHANGED << table, sent >> /\ appender = "none" /\ appender' # "none"
    BY <1>2 DEF New
  <2>2. Promise!Open
    BY <2>1 DEF Promise!Open
  <2> QED
    BY <2>2 DEF Promise!Next
<1>3. ASSUME SendRow
      PROVE  Promise!Next
  <2>1. /\ UNCHANGED << table, appender >> /\ sent' = Append(sent, row)
        /\ appender = "appending"
    BY <1>3 DEF SendRow, MoreRows
  <2>2. sent \in Seq(Nat) /\ row \in Nat
    <3>1. sent \in Seq(1..Given) /\ 1..Given \subseteq Nat
      BY <1>1 DEF TypeOK
    <3>2. MaxRows \in Nat /\ row \in 0..(MaxRows + 1)
      BY <1>1, GivenType DEF TypeOK
    <3>3. sent \in Seq(Nat)
      BY <3>1, SeqMonotonic
    <3> QED
      BY <3>2, <3>3
  <2>3. /\ Len(sent) \in Nat /\ Len(sent') = Len(sent) + 1
        /\ sent'[Len(sent) + 1] = row
        /\ \A j \in 1..Len(sent) : sent'[j] = sent[j]
    BY <2>1, <2>2
  <2>4. SubSeq(sent', 1, Len(sent)) = sent
    <3>1. sent' \in Seq(Nat)
      BY <2>1, <2>2
    <3>2. /\ SubSeq(sent', 1, Len(sent)) \in Seq(Nat)
          /\ Len(SubSeq(sent', 1, Len(sent))) = Len(sent)
          /\ \A j \in 1..Len(sent) : SubSeq(sent', 1, Len(sent))[j] = sent'[j]
      BY <2>3, <3>1
    <3> QED
      BY <2>2, <2>3, <3>2, SeqEqual
  <2>5. /\ \A j \in 1..Len(table) : table[j] # row
        /\ \A j \in 1..Len(sent) : sent[j] # row
    <3>1. \A r \in Stored \cup Elements(sent) : r < row
      BY <1>1, <2>1 DEF OrderInv
    <3>2. row \notin Stored /\ row \notin Elements(sent)
      BY <2>2, <3>1
    <3> QED
      BY <3>2 DEF Stored, Elements
  <2>6. \A i \in Len(sent) + 1 .. Len(sent') :
          /\ \A j \in 1..Len(table) : table[j] # sent'[i]
          /\ \A j \in 1..(i - 1) : sent'[j] # sent'[i]
    <3> TAKE i \in Len(sent) + 1 .. Len(sent')
    <3>1. i = Len(sent) + 1 /\ sent'[i] = row
      BY <2>3
    <3>2. \A j \in 1..(i - 1) : sent'[j] = sent[j] /\ j \in 1..Len(sent)
      BY <2>3, <3>1
    <3> QED
      BY <2>5, <3>1, <3>2
  <2>7. Len(sent') > Len(sent)
    BY <2>3
  <2>8. Promise!Write
    BY <2>1, <2>4, <2>6, <2>7 DEF Promise!Write
  <2> QED
    BY <2>8 DEF Promise!Next
<1>4. ASSUME Finish \/ FinishFails \/ DropAppender
      PROVE  Promise!Next
  <2>1. appender' = "none" /\ sent' = <<>>
    BY <1>4, Closed
  <2>2. table' \in {table, table \o sent} /\ appender = "open"
    BY <1>4 DEF Finish, FinishFails, DropAppender, MayCall
  <2>3. CASE table' = table
    <3>1. Promise!Abort
      BY <2>1, <2>2, <2>3 DEF Promise!Abort
    <3> QED
      BY <3>1 DEF Promise!Next
  <2>4. CASE table' = table \o sent
    <3>1. Promise!Commit
      BY <2>1, <2>2, <2>4 DEF Promise!Commit
    <3> QED
      BY <3>1 DEF Promise!Next
  <2> QED
    BY <2>2, <2>3, <2>4
<1>5. ASSUME UNCHANGED << table, sent >>, appender = "none" <=> appender' = "none"
      PROVE  UNCHANGED Promise!vars
  BY <1>5 DEF Promise!vars
<1>6. ASSUME NEW n \in BatchRows, NEW w \in Widths, AppendBatch(n, w)
      PROVE  UNCHANGED << table, sent >> /\ (appender = "none" <=> appender' = "none")
  BY <1>6 DEF AppendBatch, MayCall
<1>7. ASSUME \/ New /\ appender' # "open"
             \/ SendFails \/ TransportPanics \/ AppendReturns \/ UNCHANGED vars
      PROVE  UNCHANGED << table, sent >> /\ (appender = "none" <=> appender' = "none")
  BY <1>7 DEF New, SendFails, TransportPanics, AppendReturns, MoreRows, vars
<1> QED
  BY <1>2, <1>3, <1>4, <1>5, <1>6, <1>7 DEF Next

(* TiberiusAppender keeps the promise of an appender. *)
THEOREM KeepsPromise == Spec => AllOrNothing
<1>1. Init => Promise!Init
  BY DEF Init, Promise!Init
<1>2. IInv /\ [Next]_vars => [Promise!Next]_(Promise!vars)
  BY PromiseStep
<1> QED
  BY <1>1, <1>2, Correct, PTL DEF Spec, AllOrNothing, Promise!Spec
=============================================================================
