-------------------------- MODULE SqlAppendProofs --------------------------
(* Theorems about SqlAppend, for every BATCH_SIZE and every batch. *)
EXTENDS SqlAppend, SequenceTheorems, TLAPS

(* Row numbers that increase along a sequence, and from one to another. *)
Increasing(s) == \A i, j \in 1..Len(s) : i < j => s[i] < s[j]
AllBelow(s, t) == \A i \in 1..Len(s), j \in 1..Len(t) : s[i] < t[j]

(* The elements of a concatenation come from its parts. *)
LEMMA ConcatElements ==
  ASSUME NEW S, NEW s \in Seq(S), NEW t \in Seq(S)
  PROVE  /\ Len(s) \in Nat /\ Len(t) \in Nat /\ Len(s \o t) = Len(s) + Len(t)
         /\ \A i \in 1..Len(s) : i \in 1..Len(s \o t) /\ (s \o t)[i] = s[i]
         /\ \A j \in 1..Len(t) : Len(s) + j \in 1..Len(s \o t) /\ (s \o t)[Len(s) + j] = t[j]
         /\ \A k \in 1..Len(s \o t) :
              \/ k \in 1..Len(s) /\ (s \o t)[k] = s[k]
              \/ /\ k - Len(s) \in 1..Len(t) /\ k > Len(s)
                 /\ (s \o t)[k] = t[k - Len(s)]
<1>1. Len(s) \in Nat /\ Len(t) \in Nat /\ Len(s \o t) = Len(s) + Len(t)
  BY ConcatProperties
<1>2. \A k \in 1..Len(s \o t) :
        /\ k <= Len(s) => (s \o t)[k] = s[k]
        /\ k > Len(s) => (s \o t)[k] = t[k - Len(s)]
  BY <1>1, ConcatProperties
<1> QED
  BY <1>1, <1>2

(* Two increasing sequences, all of one below all of the other, increase    *)
(* together.                                                                *)
LEMMA ConcatIncreases ==
  ASSUME NEW s \in Seq(Nat), NEW t \in Seq(Nat),
         Increasing(s), Increasing(t), AllBelow(s, t)
  PROVE  Increasing(s \o t)
<1> SUFFICES ASSUME NEW i \in 1..Len(s \o t), NEW j \in 1..Len(s \o t), i < j
             PROVE  (s \o t)[i] < (s \o t)[j]
  BY DEF Increasing
<1>1. /\ Len(s) \in Nat /\ Len(t) \in Nat /\ Len(s \o t) = Len(s) + Len(t)
      /\ \A k \in 1..Len(s \o t) :
           \/ k \in 1..Len(s) /\ (s \o t)[k] = s[k]
           \/ /\ k - Len(s) \in 1..Len(t) /\ k > Len(s)
              /\ (s \o t)[k] = t[k - Len(s)]
  BY ConcatElements
<1>2. CASE j <= Len(s)
  BY <1>1, <1>2 DEF Increasing
<1>3. CASE i <= Len(s) /\ j > Len(s)
  BY <1>1, <1>3 DEF AllBelow
<1>4. CASE i > Len(s)
  <2>1. /\ i - Len(s) \in 1..Len(t) /\ (s \o t)[i] = t[i - Len(s)]
        /\ j - Len(s) \in 1..Len(t) /\ (s \o t)[j] = t[j - Len(s)]
        /\ i - Len(s) < j - Len(s)
    BY <1>1, <1>4
  <2> QED
    BY <2>1 DEF Increasing
<1> QED
  BY <1>1, <1>2, <1>3, <1>4

(* A subsequence within bounds. *)
LEMMA SubSeqElements ==
  ASSUME NEW S, NEW s \in Seq(S), NEW m \in Nat, NEW n \in Nat, m <= n, n <= Len(s)
  PROVE  /\ SubSeq(s, m + 1, n) \in Seq(S)
         /\ Len(SubSeq(s, m + 1, n)) = n - m
         /\ \A i \in 1..(n - m) : SubSeq(s, m + 1, n)[i] = s[m + i]
<1>1. \A i \in (m + 1)..n : s[i] \in S
  OBVIOUS
<1>2. n - m \in Nat
  OBVIOUS
<1>3. IF m + 1 <= n THEN Len(SubSeq(s, m + 1, n)) = n - (m + 1) + 1
                    ELSE Len(SubSeq(s, m + 1, n)) = 0
  BY <1>1, SubSeqProperties
<1> QED
  BY <1>1, <1>2, <1>3, SubSeqProperties

-----------------------------------------------------------------------------
(* The rows of a batch of n that its first k statements insert. *)
Prefix(k, n) == IF k <= n \div BATCH_SIZE THEN k * BATCH_SIZE ELSE n
Done == Prefix(batch_number, Len(batch))

(* The number of the last row that has been given to a statement. *)
Reached == given - Len(batch) + Done

(* The batch in append() is the last of the rows given. *)
BatchInv ==
  /\ call = "idle" => batch = <<>> /\ batch_number = 0
  /\ call = "append" => appender = "open"
  /\ Len(batch) <= given
  /\ \A i \in 1..Len(batch) : batch[i] = given - Len(batch) + i
  /\ txn = "none" => inserted = <<>>

(* The rows of the table, and behind them the rows of the transaction.      *)
OrderInv ==
  /\ Increasing(table)
  /\ Increasing(inserted)
  /\ AllBelow(table, inserted)
  /\ \A i \in 1..Len(table) : table[i] <= Reached
  /\ \A i \in 1..Len(inserted) : inserted[i] <= Reached

(* As long as nothing has failed, what the transaction holds is what was    *)
(* accepted and then what the statements of this batch have inserted.       *)
ContentInv ==
  appender = "open" /\ ~failed /\ txn = "open" =>
    inserted = accepted \o SubSeq(batch, 1, Done)

IInv == TypeOK /\ BatchInv /\ OrderInv /\ ContentInv

-----------------------------------------------------------------------------
(* The statements of a batch of n rows: a full one while there are full     *)
(* ones, then the remainder, if any, which ends where the batch does.       *)
LEMMA PrefixSteps ==
  ASSUME NEW k \in Nat, NEW n \in Nat
  PROVE  /\ Prefix(k, n) \in 0..n
         /\ Prefix(0, n) = 0
         /\ k < n \div BATCH_SIZE =>
              /\ Prefix(k, n) = k * BATCH_SIZE
              /\ Prefix(k + 1, n) = (k + 1) * BATCH_SIZE
              /\ Prefix(k, n) < Prefix(k + 1, n)
         /\ k = n \div BATCH_SIZE /\ n % BATCH_SIZE > 0 =>
              /\ Prefix(k, n) = n - (n % BATCH_SIZE)
              /\ Prefix(k + 1, n) = n
              /\ Prefix(k, n) < Prefix(k + 1, n)
         /\ k > n \div BATCH_SIZE => Prefix(k, n) = n
         /\ k = n \div BATCH_SIZE /\ n % BATCH_SIZE = 0 => Prefix(k, n) = n
<1> DEFINE B == BATCH_SIZE
           q == n \div BATCH_SIZE
           r == n % BATCH_SIZE
<1>1. B \in Nat \ {0} /\ B = BATCH_SIZE
  BY SqlAppendAssumption
<1>2. q \in Nat /\ r \in 0..(B - 1) /\ n = q * B + r
  BY <1>1
<1>3. /\ k * B \in Nat /\ (k + 1) * B = k * B + B
      /\ k <= q => k * B <= q * B
      /\ k < q => (k + 1) * B <= q * B
  BY <1>1, <1>2
<1>4. Prefix(k, n) = (IF k <= q THEN k * B ELSE n)
      /\ Prefix(k + 1, n) = (IF k + 1 <= q THEN (k + 1) * B ELSE n)
      /\ Prefix(0, n) = (IF 0 <= q THEN 0 * B ELSE n)
  BY DEF Prefix
<1>5. 0 * B = 0 /\ 0 <= q
  BY <1>1, <1>2
<1>6. q * B \in Nat
  BY <1>1, <1>2
<1> HIDE DEF B, q, r
<1>7. Prefix(k, n) \in 0..n /\ Prefix(0, n) = 0
  BY <1>1, <1>2, <1>3, <1>4, <1>5, <1>6
<1>8. k < q => /\ Prefix(k, n) = k * B /\ Prefix(k + 1, n) = (k + 1) * B
               /\ Prefix(k, n) < Prefix(k + 1, n)
  BY <1>1, <1>2, <1>3, <1>4
<1>9. k = q => k * B = n - r
  BY <1>2, <1>6
<1>10. k = q /\ r > 0 => /\ Prefix(k, n) = n - r /\ Prefix(k + 1, n) = n
                         /\ Prefix(k, n) < Prefix(k + 1, n)
  BY <1>1, <1>2, <1>4, <1>9
<1>11. (k > q => Prefix(k, n) = n) /\ (k = q /\ r = 0 => Prefix(k, n) = n)
  BY <1>1, <1>2, <1>4, <1>9
<1> QED
  BY <1>1, <1>7, <1>8, <1>10, <1>11 DEF B, q, r

(* What the state says of itself, in numbers. *)
LEMMA Numbers ==
  ASSUME TypeOK, BatchInv
  PROVE  /\ batch \in Seq(RowIds) /\ Len(batch) \in Nat /\ batch_number \in Nat
         /\ given \in 0..MaxRows /\ MaxRows \in Nat /\ BATCH_SIZE \in Nat \ {0}
         /\ Done \in 0..Len(batch) /\ Reached \in 0..given
         /\ RowIds \subseteq Nat
         /\ call = "idle" => Done = 0 /\ Len(batch) = 0 /\ Reached = given
<1>1. /\ batch \in Seq(RowIds) /\ Len(batch) \in Nat /\ batch_number \in Nat
      /\ given \in 0..MaxRows /\ MaxRows \in Nat /\ BATCH_SIZE \in Nat \ {0}
  BY SqlAppendAssumption DEF TypeOK
<1>2. Done \in 0..Len(batch)
  BY <1>1, PrefixSteps DEF Done
<1>3. Reached \in 0..given
  BY <1>1, <1>2 DEF Reached, BatchInv
<1>4. call = "idle" => Done = 0 /\ Len(batch) = 0
  BY <1>1, <1>2 DEF BatchInv
<1>5. call = "idle" => Reached = given
  BY <1>1, <1>4 DEF Reached
<1> QED
  BY <1>1, <1>2, <1>3, <1>4, <1>5 DEF RowIds

(* The next statement inserts the rows that follow those already inserted.  *)
LEMMA StatementRows ==
  ASSUME TypeOK, BatchInv, Unfinished
  PROVE  LET next == Prefix(batch_number + 1, Len(batch)) IN
         /\ next \in 1..Len(batch) /\ Done < next
         /\ NextStatement = SubSeq(batch, Done + 1, next)
         /\ NextStatement \in Seq(RowIds)
         /\ Len(NextStatement) = next - Done
         /\ \A i \in 1..Len(NextStatement) : NextStatement[i] = Reached + i
<1> DEFINE next == Prefix(batch_number + 1, Len(batch))
<1>1. /\ batch \in Seq(RowIds) /\ Len(batch) \in Nat /\ batch_number \in Nat
      /\ given \in Nat /\ Done \in 0..Len(batch) /\ BATCH_SIZE \in Nat \ {0}
  BY Numbers
<1>2. /\ next \in 0..Len(batch) /\ Done < next
      /\ NextStatement = SubSeq(batch, Done + 1, next)
  <2>1. batch_number + 1 \in Nat
    BY <1>1
  <2>2. next \in 0..Len(batch)
    BY <1>1, <2>1, PrefixSteps
  <2>3. CASE batch_number < full_batches
    <3>1. Done = batch_number * BATCH_SIZE /\ next = (batch_number + 1) * BATCH_SIZE /\ Done < next
      BY <1>1, <2>3, PrefixSteps DEF full_batches, Done
    <3>2. NextStatement = SubSeq(batch, batch_number * BATCH_SIZE + 1,
                                 (batch_number + 1) * BATCH_SIZE)
      BY <2>3 DEF NextStatement
    <3> QED
      BY <2>2, <3>1, <3>2
  <2>4. CASE batch_number = full_batches /\ last_batch_size > 0
    <3>1. Done = Len(batch) - last_batch_size /\ next = Len(batch) /\ Done < next
      BY <1>1, <2>4, PrefixSteps DEF full_batches, last_batch_size, Done
    <3>2. ~(batch_number < full_batches)
      BY <1>1, <2>4
    <3>3. NextStatement = SubSeq(batch, Len(batch) - last_batch_size + 1, Len(batch))
      BY <3>2 DEF NextStatement
    <3> QED
      BY <2>2, <3>1, <3>3
  <2> QED
    BY <2>3, <2>4 DEF Unfinished
<1> HIDE DEF next
<1>3. /\ SubSeq(batch, Done + 1, next) \in Seq(RowIds)
      /\ Len(SubSeq(batch, Done + 1, next)) = next - Done
      /\ \A i \in 1..(next - Done) : SubSeq(batch, Done + 1, next)[i] = batch[Done + i]
  BY <1>1, <1>2, SubSeqElements
<1>4. \A i \in 1..(next - Done) : batch[Done + i] = Reached + i
  <2> TAKE i \in 1..(next - Done)
  <2>1. Done + i \in 1..Len(batch)
    BY <1>1, <1>2
  <2>2. batch[Done + i] = given - Len(batch) + (Done + i)
    BY <2>1 DEF BatchInv
  <2> QED
    BY <1>1, <2>2 DEF Reached
<1>5. next \in 1..Len(batch)
  BY <1>1, <1>2
<1> QED
  BY <1>2, <1>3, <1>4, <1>5 DEF next

(* When no statement is left, all rows have been inserted. *)
LEMMA AllDone ==
  ASSUME TypeOK, BatchInv, ~Unfinished
  PROVE  Done = Len(batch)
<1>1. Len(batch) \in Nat /\ batch_number \in Nat /\ BATCH_SIZE \in Nat \ {0}
  BY Numbers
<1>2. full_batches \in Nat /\ last_batch_size \in Nat
  BY <1>1 DEF full_batches, last_batch_size
<1>3. \/ batch_number > full_batches
      \/ batch_number = full_batches /\ last_batch_size = 0
  BY <1>1, <1>2 DEF Unfinished
<1> QED
  BY <1>1, <1>3, PrefixSteps DEF Done, full_batches, last_batch_size

-----------------------------------------------------------------------------
(* A return from append(), and the ways an appender is closed. *)
LEMMA ReturnType ==
  ASSUME Return
  PROVE  /\ batch' \in Seq(RowIds) /\ Len(batch') = 0 /\ call' = "idle"
         /\ batch_number' = 0 /\ 0 * BATCH_SIZE < 0 + BATCH_SIZE
<1>1. BATCH_SIZE \in Nat \ {0}
  BY SqlAppendAssumption
<1> QED
  BY <1>1 DEF Return

LEMMA TypeStep ==
  ASSUME IInv, [Next]_vars
  PROVE  TypeOK' /\ BatchInv'
<1>1. TypeOK /\ BatchInv
  BY DEF IInv
<1>2. /\ batch \in Seq(RowIds) /\ Len(batch) \in Nat /\ batch_number \in Nat
      /\ given \in 0..MaxRows /\ MaxRows \in Nat /\ BATCH_SIZE \in Nat \ {0}
  BY <1>1, Numbers
<1>3. table \o inserted \in Seq(RowIds) /\ <<>> \in Seq(RowIds)
  BY <1>1 DEF TypeOK
<1>4. CASE BeginSQLite \/ StartTransaction
  <2>1. /\ table' \in {table, table \o inserted} /\ inserted' \in {inserted, <<>>}
        /\ txn' = "open" /\ UNCHANGED connection
        /\ appender' = "open" /\ failed' = FALSE /\ opened' = Append(opened, given)
        /\ accepted' = <<>>
        /\ UNCHANGED << db, client, call, batch, batch_number, given, acked >>
        /\ appender = "none"
    BY <1>4 DEF BeginSQLite, StartTransaction, NewAppender, callVars
  <2>2. opened' \in Seq(0..MaxRows)
    BY <1>1, <1>2, <2>1 DEF TypeOK
  <2> QED
    BY <1>1, <1>3, <2>1, <2>2 DEF TypeOK, BatchInv
<1>5. ASSUME NEW n \in BatchRows, AppendBatch(n) PROVE TypeOK' /\ BatchInv'
  <2>1. /\ n \in Nat /\ given' = given + n /\ given + n <= MaxRows
        /\ call' = "append" /\ appender = "open"
        /\ batch' = [i \in 1..n |-> given + i] /\ batch_number' = 0
        /\ UNCHANGED << db, client, table, txn, inserted, connection, appender, failed,
                        opened, accepted, acked >>
    BY <1>5, SqlAppendAssumption DEF AppendBatch, MayCall, connVars
  <2>2. batch' \in Seq(RowIds) /\ Len(batch') = n
    <3>1. \A i \in 1..n : given + i \in RowIds
      BY <1>2, <2>1 DEF RowIds
    <3>2. batch' \in [1..n -> RowIds]
      BY <2>1, <3>1
    <3> QED
      BY <2>1, <3>2
  <2>3. \A i \in 1..Len(batch') : batch'[i] = given' - Len(batch') + i
    BY <1>2, <2>1, <2>2
  <2>4. given' \in 0..MaxRows /\ Len(batch') <= given'
        /\ batch_number' * BATCH_SIZE < Len(batch') + BATCH_SIZE
    BY <1>2, <2>1, <2>2
  <2> QED
    BY <1>1, <2>1, <2>2, <2>3, <2>4 DEF TypeOK, BatchInv
<1>6. CASE InsertStatement
  <2>1. /\ Unfinished /\ call = "append" /\ batch_number' = batch_number + 1
        /\ UNCHANGED << db, client, appender, call, batch, failed, given, opened,
                        accepted, acked, txn, connection >>
        /\ txn = "open" => inserted' = inserted \o NextStatement /\ table' = table
        /\ txn # "open" => table' = table \o NextStatement /\ inserted' = inserted
    BY <1>6 DEF InsertStatement, Insert
  <2>2. NextStatement \in Seq(RowIds)
    BY <1>1, <2>1, StatementRows
  <2>3. table' \in Seq(RowIds) /\ inserted' \in Seq(RowIds)
    <3>1. table \o NextStatement \in Seq(RowIds) /\ inserted \o NextStatement \in Seq(RowIds)
      BY <1>1, <2>2, ConcatProperties DEF TypeOK
    <3> QED
      BY <1>1, <2>1, <3>1 DEF TypeOK
  <2>4. (batch_number + 1) * BATCH_SIZE < Len(batch) + BATCH_SIZE
    <3>1. batch_number * BATCH_SIZE \in Nat
          /\ (batch_number + 1) * BATCH_SIZE = batch_number * BATCH_SIZE + BATCH_SIZE
      BY <1>2
    <3>2. CASE batch_number < full_batches
      <4>1. Prefix(batch_number, Len(batch)) = batch_number * BATCH_SIZE
            /\ Prefix(batch_number, Len(batch)) < Prefix(batch_number + 1, Len(batch))
        BY <1>2, <3>2, PrefixSteps DEF full_batches
      <4>2. batch_number + 1 \in Nat
        BY <1>2
      <4>3. Prefix(batch_number + 1, Len(batch)) \in 0..Len(batch)
        BY <1>2, <4>2, PrefixSteps
      <4> QED
        BY <1>2, <3>1, <4>1, <4>3
    <3>3. CASE batch_number = full_batches /\ last_batch_size > 0
      <4>1. Prefix(batch_number, Len(batch)) < Prefix(batch_number + 1, Len(batch))
            /\ Prefix(batch_number + 1, Len(batch)) = Len(batch)
        BY <1>2, <3>3, PrefixSteps DEF full_batches, last_batch_size
      <4>2. Prefix(batch_number, Len(batch)) = batch_number * BATCH_SIZE
        BY <1>2, <3>3 DEF Prefix, full_batches
      <4> QED
        BY <1>2, <3>1, <4>1, <4>2
    <3> QED
      BY <2>1, <3>2, <3>3 DEF Unfinished
  <2> QED
    BY <1>1, <1>2, <2>1, <2>3, <2>4 DEF TypeOK, BatchInv
<1>7. CASE InsertFails
  <2>1. /\ UNCHANGED << db, client, appender, given, opened, accepted, acked, table, connection >>
        /\ failed' = TRUE /\ Return
        /\ \/ UNCHANGED << txn, inserted >>
           \/ txn' = "none" /\ inserted' = <<>>
    BY <1>7 DEF InsertFails, InsertError, RollbackTxn, connVars
  <2>2. /\ batch' \in Seq(RowIds) /\ Len(batch') = 0 /\ call' = "idle"
        /\ batch_number' = 0 /\ 0 * BATCH_SIZE < 0 + BATCH_SIZE
        /\ batch' = <<>>
    BY <2>1, ReturnType DEF Return
  <2>3. TypeOK'
    BY <1>1, <1>3, <2>1, <2>2 DEF TypeOK
  <2> QED
    BY <1>1, <1>2, <2>1, <2>2, <2>3 DEF BatchInv
<1>8. CASE AppendReturns
  <2>1. /\ UNCHANGED << db, client, table, txn, inserted, connection, appender, failed,
                        given, opened, acked >>
        /\ accepted' = accepted \o batch /\ Return
    BY <1>8 DEF AppendReturns, connVars
  <2>2. /\ batch' \in Seq(RowIds) /\ Len(batch') = 0 /\ call' = "idle"
        /\ batch_number' = 0 /\ 0 * BATCH_SIZE < 0 + BATCH_SIZE
        /\ batch' = <<>>
    BY <2>1, ReturnType DEF Return
  <2>3. accepted' \in Seq(RowIds)
    BY <1>1, <1>2, <2>1 DEF TypeOK
  <2>4. TypeOK'
    BY <1>1, <2>1, <2>2, <2>3 DEF TypeOK
  <2> QED
    BY <1>1, <1>2, <2>1, <2>2, <2>4 DEF BatchInv
<1>9. CASE Finish \/ FinishFails \/ DropAppender
  <2>1. /\ table' \in {table, table \o inserted}
        /\ inserted' \in {inserted, <<>>} /\ txn' \in {"none", "open"}
        /\ txn' = "none" => inserted' = <<>>
        /\ connection' \in {"up", "down"}
        /\ acked' \in {acked, acked \o accepted}
    BY <1>1, <1>9
    DEF Finish, FinishFails, DropAppender, CommitTxn, RollbackTxn, connVars, TypeOK, BatchInv
  <2>2. /\ appender' = "none" /\ failed' = FALSE /\ accepted' = <<>> /\ Return
        /\ UNCHANGED << db, client, given, opened >>
    BY <1>9 DEF Finish, FinishFails, DropAppender, CloseAppender
  <2>3. /\ batch' \in Seq(RowIds) /\ Len(batch') = 0 /\ call' = "idle"
        /\ batch_number' = 0 /\ 0 * BATCH_SIZE < 0 + BATCH_SIZE
        /\ batch' = <<>>
    BY <2>2, ReturnType DEF Return
  <2>4. acked \o accepted \in Seq(RowIds)
    BY <1>1 DEF TypeOK
  <2>5. TypeOK'
    BY <1>1, <1>3, <2>1, <2>2, <2>3, <2>4 DEF TypeOK
  <2> QED
    BY <1>1, <1>2, <2>1, <2>2, <2>3, <2>5 DEF BatchInv
<1>10. CASE OtherDDL \/ Disconnect
  <2>1. /\ table' \in {table, table \o inserted} /\ inserted' = <<>> /\ txn' = "none"
        /\ connection' \in {"up", "down"}
        /\ UNCHANGED << db, client, appender, call, batch, batch_number, failed, given,
                        opened, accepted, acked >>
    BY <1>1, <1>10 DEF OtherDDL, Disconnect, CommitTxn, callVars, TypeOK
  <2> QED
    BY <1>1, <1>3, <2>1 DEF TypeOK, BatchInv
<1>11. CASE UNCHANGED vars
  BY <1>1, <1>11 DEF vars, connVars, callVars, TypeOK, BatchInv
<1> QED
  BY <1>4, <1>5, <1>6, <1>7, <1>8, <1>9, <1>10, <1>11 DEF Next

-----------------------------------------------------------------------------
(* Only a statement moves a row from the batch to the table; everything     *)
(* else leaves behind at most what was already reached.                     *)
LEMMA ReachedGrows ==
  ASSUME IInv, [Next]_vars, ~InsertStatement
  PROVE  Reached' \in Nat /\ Reached <= Reached'
<1>1. TypeOK /\ BatchInv
  BY DEF IInv
<1>2. /\ Len(batch) \in Nat /\ batch_number \in Nat /\ given \in Nat
      /\ Reached \in 0..given
      /\ call = "idle" => Reached = given /\ Len(batch) = 0
  BY <1>1, Numbers
<1>3. Prefix(0, 0) = 0 /\ \A n \in Nat : Prefix(0, n) = 0
  BY PrefixSteps
<1>4. CASE UNCHANGED << given, batch, batch_number >>
  BY <1>2, <1>4 DEF Reached, Done
<1>5. CASE Return /\ UNCHANGED given
  <2>1. Len(batch') = 0 /\ batch_number' = 0
    BY <1>5 DEF Return
  <2> QED
    BY <1>2, <1>3, <1>5, <2>1 DEF Reached, Done
<1>6. ASSUME NEW n \in BatchRows, AppendBatch(n) PROVE Reached' = given /\ Reached = given
  <2>1. n \in Nat /\ given' = given + n /\ Len(batch') = n /\ batch_number' = 0
        /\ call = "idle"
    BY <1>6, SqlAppendAssumption DEF AppendBatch, MayCall
  <2> QED
    BY <1>2, <1>3, <2>1 DEF Reached, Done
<1>7. ASSUME NEW n \in BatchRows, AppendBatch(n) PROVE Reached' \in Nat /\ Reached <= Reached'
  BY <1>2, <1>6, <1>7
<1> QED
  BY <1>4, <1>5, <1>7
  DEF Next, BeginSQLite, StartTransaction, NewAppender, InsertFails, AppendReturns, Finish,
      FinishFails, DropAppender, CloseAppender, OtherDDL, Disconnect, vars, callVars

(* Committing the transaction, or giving it up, keeps the order. *)
LEMMA OrderKept ==
  ASSUME TypeOK, BatchInv, OrderInv, Reached' \in Nat, Reached <= Reached',
         table' \in {table, table \o inserted}, inserted' \in {inserted, <<>>},
         table' = table \/ inserted' = <<>>
  PROVE  OrderInv'
<1>1. /\ table \in Seq(Nat) /\ inserted \in Seq(Nat) /\ Reached \in Nat
      /\ Len(table) \in Nat /\ Len(inserted) \in Nat
  <2>1. RowIds \subseteq Nat /\ Reached \in Nat
    BY Numbers
  <2>2. table \in Seq(RowIds) /\ inserted \in Seq(RowIds)
    BY DEF TypeOK
  <2>3. table \in Seq(Nat) /\ inserted \in Seq(Nat)
    BY <2>1, <2>2, SeqMonotonic
  <2> QED
    BY <2>1, <2>3
<1>2. \A i \in 1..Len(table) : table[i] \in Nat /\ table[i] <= Reached'
  BY <1>1 DEF OrderInv
<1>3. \A i \in 1..Len(inserted) : inserted[i] \in Nat /\ inserted[i] <= Reached'
  BY <1>1 DEF OrderInv
<1>4. Increasing(inserted') /\ \A i \in 1..Len(inserted') : inserted'[i] <= Reached'
  <2>1. CASE inserted' = inserted
    BY <1>3, <2>1 DEF OrderInv
  <2>2. CASE inserted' = <<>>
    <3>1. Len(inserted') = 0 /\ 1..0 = {}
      BY <2>2
    <3> QED
      BY <3>1 DEF Increasing
  <2> QED
    BY <2>1, <2>2
<1>5. Increasing(table') /\ \A i \in 1..Len(table') : table'[i] <= Reached'
  <2>1. CASE table' = table
    BY <1>2, <2>1 DEF OrderInv
  <2>2. CASE table' = table \o inserted
    <3>1. Increasing(table \o inserted)
      BY <1>1, ConcatIncreases DEF OrderInv
    <3>2. \A k \in 1..Len(table \o inserted) :
            \/ k \in 1..Len(table) /\ (table \o inserted)[k] = table[k]
            \/ /\ k - Len(table) \in 1..Len(inserted)
               /\ (table \o inserted)[k] = inserted[k - Len(table)]
      BY <1>1, ConcatElements
    <3> QED
      BY <1>2, <1>3, <2>2, <3>1, <3>2
  <2> QED
    BY <2>1, <2>2
<1>6. AllBelow(table', inserted')
  <2>1. CASE inserted' = <<>>
    <3>1. Len(inserted') = 0 /\ 1..0 = {}
      BY <2>1
    <3> QED
      BY <3>1 DEF AllBelow
  <2>2. CASE table' = table /\ inserted' = inserted
    BY <2>2 DEF OrderInv
  <2> QED
    BY <2>1, <2>2
<1> QED
  BY <1>4, <1>5, <1>6 DEF OrderInv

(* A statement's rows follow everything that is in the table or in the      *)
(* transaction.                                                             *)
LEMMA OrderInsert ==
  ASSUME IInv, InsertStatement
  PROVE  OrderInv'
<1>1. TypeOK /\ BatchInv /\ OrderInv /\ Unfinished
  BY DEF IInv, InsertStatement
<1> DEFINE next == Prefix(batch_number + 1, Len(batch))
           rows == NextStatement
<1>2. /\ next \in 1..Len(batch) /\ Done < next
      /\ rows \in Seq(RowIds) /\ Len(rows) = next - Done
      /\ \A i \in 1..Len(rows) : rows[i] = Reached + i
  BY <1>1, StatementRows
<1>3. /\ RowIds \subseteq Nat /\ Reached \in Nat /\ given \in Nat /\ Len(batch) \in Nat
      /\ Done \in Nat
  BY <1>1, Numbers
<1>4. table \in Seq(Nat) /\ inserted \in Seq(Nat) /\ rows \in Seq(Nat)
  BY <1>1, <1>2, <1>3, SeqMonotonic DEF TypeOK
<1>5. Reached' = Reached + Len(rows) /\ Reached <= Reached' /\ Reached' \in Nat
  <2>1. Done' = next /\ UNCHANGED << given, batch >>
    BY DEF InsertStatement, Done
  <2>2. Reached' = given - Len(batch) + next /\ Reached = given - Len(batch) + Done
    BY <2>1 DEF Reached
  <2> QED
    BY <1>2, <1>3, <2>2
<1> HIDE DEF rows
<1>6. Increasing(rows) /\ \A i \in 1..Len(rows) : rows[i] <= Reached'
  BY <1>2, <1>3, <1>5 DEF Increasing
<1>7. ASSUME NEW s \in Seq(Nat), Increasing(s), \A i \in 1..Len(s) : s[i] <= Reached
      PROVE  /\ Increasing(s \o rows)
             /\ \A k \in 1..Len(s \o rows) : (s \o rows)[k] <= Reached'
             /\ AllBelow(s, rows)
  <2>1. \A i \in 1..Len(s) : s[i] \in Nat
    BY <1>7
  <2>2. AllBelow(s, rows)
    BY <1>2, <1>3, <1>7, <2>1 DEF AllBelow
  <2>3. Increasing(s \o rows)
    BY <1>4, <1>6, <1>7, <2>2, ConcatIncreases
  <2>4. \A k \in 1..Len(s \o rows) :
          \/ k \in 1..Len(s) /\ (s \o rows)[k] = s[k]
          \/ k - Len(s) \in 1..Len(rows) /\ (s \o rows)[k] = rows[k - Len(s)]
    BY <1>4, <1>7, ConcatElements
  <2>5. \A k \in 1..Len(s \o rows) : (s \o rows)[k] <= Reached'
    BY <1>3, <1>5, <1>6, <1>7, <2>1, <2>4
  <2> QED
    BY <2>2, <2>3, <2>5
<1>8. /\ \A i \in 1..Len(table) : table[i] \in Nat /\ table[i] <= Reached'
      /\ \A i \in 1..Len(inserted) : inserted[i] \in Nat /\ inserted[i] <= Reached'
  <2>1. /\ \A i \in 1..Len(table) : table[i] \in Nat
        /\ \A i \in 1..Len(inserted) : inserted[i] \in Nat
    BY <1>4
  <2>2. /\ \A i \in 1..Len(table) : table[i] <= Reached
        /\ \A i \in 1..Len(inserted) : inserted[i] <= Reached
    BY <1>1 DEF OrderInv
  <2>3. \A n \in Nat : n <= Reached => n <= Reached'
    BY <1>3, <1>5
  <2> QED
    BY <2>1, <2>2, <2>3
<1>9. CASE txn = "open"
  <2>1. inserted' = inserted \o rows /\ table' = table
    BY <1>9 DEF InsertStatement, Insert, rows
  <2>2. /\ Increasing(inserted \o rows) /\ AllBelow(table, rows)
        /\ \A k \in 1..Len(inserted \o rows) : (inserted \o rows)[k] <= Reached'
    BY <1>1, <1>4, <1>7 DEF OrderInv
  <2>3. \A k \in 1..Len(inserted \o rows) :
          \/ k \in 1..Len(inserted) /\ (inserted \o rows)[k] = inserted[k]
          \/ k - Len(inserted) \in 1..Len(rows) /\ (inserted \o rows)[k] = rows[k - Len(inserted)]
    BY <1>4, ConcatElements
  <2>4. AllBelow(table, inserted \o rows)
    BY <1>1, <2>2, <2>3 DEF OrderInv, AllBelow
  <2> QED
    BY <1>1, <1>8, <2>1, <2>2, <2>4 DEF OrderInv
<1>10. CASE txn # "open"
  <2>1. table' = table \o rows /\ inserted' = inserted
    BY <1>10 DEF InsertStatement, Insert, rows
  <2>2. Len(inserted) = 0 /\ 1..0 = {}
    BY <1>1, <1>10 DEF TypeOK, BatchInv
  <2>3. Increasing(table \o rows)
        /\ \A k \in 1..Len(table \o rows) : (table \o rows)[k] <= Reached'
    BY <1>1, <1>4, <1>7 DEF OrderInv
  <2> QED
    BY <2>1, <2>2, <2>3 DEF OrderInv, Increasing, AllBelow
<1> QED
  BY <1>9, <1>10

LEMMA OrderStep ==
  ASSUME IInv, [Next]_vars
  PROVE  OrderInv'
<1>1. TypeOK /\ BatchInv /\ OrderInv
  BY DEF IInv
<1>2. CASE InsertStatement
  BY <1>2, OrderInsert
<1>3. CASE ~InsertStatement
  <2>1. Reached' \in Nat /\ Reached <= Reached'
    BY <1>3, ReachedGrows
  <2>2. /\ table' \in {table, table \o inserted} /\ inserted' \in {inserted, <<>>}
        /\ table' = table \/ inserted' = <<>>
    BY <1>3
    DEF Next, BeginSQLite, StartTransaction, NewAppender, AppendBatch, InsertFails, InsertError,
        AppendReturns, Finish, FinishFails, DropAppender, CloseAppender, OtherDDL, Disconnect,
        CommitTxn, RollbackTxn, vars, connVars, callVars
  <2> QED
    BY <1>1, <2>1, <2>2, OrderKept
<1> QED
  BY <1>2, <1>3

-----------------------------------------------------------------------------
(* What the transaction holds while nothing has failed. *)
LEMMA ContentStep ==
  ASSUME IInv, [Next]_vars
  PROVE  ContentInv'
<1>1. TypeOK /\ BatchInv /\ ContentInv
  BY DEF IInv
<1>2. /\ batch \in Seq(RowIds) /\ Len(batch) \in Nat /\ batch_number \in Nat
      /\ Done \in 0..Len(batch) /\ given \in Nat
      /\ accepted \in Seq(RowIds)
  BY <1>1, Numbers DEF TypeOK
<1>3. \A n \in Nat : Prefix(0, n) = 0
  BY PrefixSteps
<1>4. \A s : SubSeq(s, 1, 0) = <<>>
  BY SubSeqEmpty
<1>5. accepted \o <<>> = accepted
  BY <1>2
<1>6. CASE BeginSQLite \/ StartTransaction
  <2>1. /\ inserted' = <<>> /\ accepted' = <<>>
        /\ UNCHANGED << batch, batch_number, call >> /\ appender = "none"
    BY <1>1, <1>6 DEF BeginSQLite, StartTransaction, NewAppender, callVars, BatchInv
  <2>2. Len(batch) = 0 /\ batch_number = 0
    BY <1>1, <2>1 DEF BatchInv, TypeOK
  <2>3. Done' = 0
    BY <1>3, <2>1, <2>2 DEF Done
  <2> QED
    BY <1>4, <2>1, <2>3 DEF ContentInv
<1>7. ASSUME NEW n \in BatchRows, AppendBatch(n) PROVE ContentInv'
  <2>1. /\ UNCHANGED << appender, failed, txn, inserted, accepted >>
        /\ n \in Nat /\ Len(batch') = n /\ batch_number' = 0 /\ call = "idle"
    BY <1>7, SqlAppendAssumption DEF AppendBatch, MayCall, connVars
  <2>2. Done' = 0 /\ Done = 0
    BY <1>1, <1>3, <2>1, Numbers DEF Done
  <2> QED
    BY <1>1, <1>4, <2>1, <2>2 DEF ContentInv
<1>8. CASE InsertStatement
  <2> DEFINE next == Prefix(batch_number + 1, Len(batch))
  <2>1. /\ UNCHANGED << appender, failed, txn, accepted, batch >> /\ Unfinished
        /\ Done' = next
        /\ txn = "open" => inserted' = inserted \o NextStatement
    BY <1>8 DEF InsertStatement, Insert, Done
  <2>2. next \in 1..Len(batch) /\ Done < next /\ NextStatement = SubSeq(batch, Done + 1, next)
    BY <1>1, <2>1, StatementRows
  <2> HIDE DEF next
  <2>3. SubSeq(batch, 1, next) = SubSeq(batch, 1, Done) \o SubSeq(batch, Done + 1, next)
    BY <1>2, <2>2, ConcatAdjacentSubSeq
  <2>4. SubSeq(batch, 1, Done) \in Seq(RowIds) /\ SubSeq(batch, Done + 1, next) \in Seq(RowIds)
    BY <1>2, <2>2
  <2>5. (accepted \o SubSeq(batch, 1, Done)) \o SubSeq(batch, Done + 1, next)
          = accepted \o (SubSeq(batch, 1, Done) \o SubSeq(batch, Done + 1, next))
    <3> DEFINE head == SubSeq(batch, 1, Done)
               rest == SubSeq(batch, Done + 1, next)
    <3>1. head \in Seq(RowIds) /\ rest \in Seq(RowIds)
      BY <2>4
    <3> HIDE DEF head, rest
    <3>2. accepted \in Seq(RowIds)
      BY <1>2
    <3>3. (accepted \o head) \o rest = accepted \o (head \o rest)
      BY <3>1, <3>2, ConcatAssociative
    <3> QED
      BY <3>3 DEF head, rest
  <2> QED
    BY <1>1, <2>1, <2>2, <2>3, <2>5 DEF ContentInv
<1>9. CASE InsertFails \/ Finish \/ FinishFails \/ DropAppender
  BY <1>9 DEF InsertFails, Finish, FinishFails, DropAppender, CloseAppender, ContentInv
<1>10. CASE AppendReturns
  <2>1. /\ UNCHANGED << appender, failed, txn, inserted >> /\ ~Unfinished
        /\ accepted' = accepted \o batch
        /\ Len(batch') = 0 /\ batch_number' = 0 /\ batch' = <<>>
    BY <1>10 DEF AppendReturns, Return, connVars
  <2>2. Done = Len(batch)
    BY <1>1, <2>1, AllDone
  <2>3. SubSeq(batch, 1, Done) = batch
    BY <1>2, <2>2, SubSeqFull
  <2>4. Done' = 0
    BY <1>3, <2>1 DEF Done
  <2>5. accepted' \o SubSeq(batch', 1, Done') = accepted'
    <3>1. accepted' \in Seq(RowIds)
      BY <1>2, <2>1
    <3> QED
      BY <1>4, <2>4, <3>1
  <2> QED
    BY <1>1, <2>1, <2>3, <2>5 DEF ContentInv
<1>11. CASE OtherDDL \/ Disconnect
  BY <1>11 DEF OtherDDL, Disconnect, CommitTxn, ContentInv
<1>12. CASE UNCHANGED vars
  BY <1>1, <1>12 DEF vars, connVars, callVars, ContentInv, Done
<1> QED
  BY <1>6, <1>7, <1>8, <1>9, <1>10, <1>11, <1>12 DEF Next

(* The inductive invariant. *)
THEOREM Correct == Spec => []IInv
<1>1. Init => IInv
  <2> SUFFICES ASSUME Init PROVE IInv
    OBVIOUS
  <2>1. BATCH_SIZE \in Nat \ {0} /\ MaxRows \in Nat
    BY SqlAppendAssumption
  <2>2. TypeOK
    <3>1. 0 * BATCH_SIZE = 0 /\ Len(<<>>) = 0
      BY <2>1
    <3>2. batch_number * BATCH_SIZE < Len(batch) + BATCH_SIZE
      BY <2>1, <3>1 DEF Init
    <3>3. /\ table \in Seq(RowIds) /\ inserted \in Seq(RowIds) /\ batch \in Seq(RowIds)
          /\ accepted \in Seq(RowIds) /\ acked \in Seq(RowIds) /\ opened \in Seq(0..MaxRows)
      BY DEF Init
    <3>4. /\ db \in Databases /\ client \in Clients /\ txn = "none" /\ connection = "up"
          /\ appender = "none" /\ call = "idle" /\ batch_number = 0 /\ given = 0
      BY DEF Init
    <3>5. failed \in BOOLEAN
      BY DEF Init
    <3>6. batch_number \in Nat /\ given \in 0..MaxRows
      BY <2>1, <3>4
    <3> QED
      BY <3>2, <3>3, <3>4, <3>5, <3>6 DEF TypeOK
  <2>3. BatchInv
    BY <2>1 DEF Init, BatchInv
  <2>4. Len(table) = 0 /\ Len(inserted) = 0 /\ 1..0 = {}
    BY DEF Init
  <2>5. OrderInv
    BY <2>4 DEF OrderInv, Increasing, AllBelow
  <2>6. ContentInv
    BY DEF Init, ContentInv
  <2> QED
    BY <2>2, <2>3, <2>5, <2>6 DEF IInv
<1>2. IInv /\ [Next]_vars => IInv'
  BY TypeStep, OrderStep, ContentStep DEF IInv
<1> QED
  BY <1>1, <1>2, PTL DEF Spec

(* Type correctness of the appender and of the database. *)
THEOREM TypeCorrect == Spec => []TypeOK
<1>1. IInv => TypeOK
  BY DEF IInv
<1> QED
  BY <1>1, Correct, PTL

(* The statements of accepted batches inserted their rows exactly once and  *)
(* in order, whatever BATCH_SIZE and the remainder.                         *)
THEOREM AcceptedIsAlwaysInserted == Spec => []AcceptedIsInserted
<1>1. IInv => AcceptedIsInserted
  <2> SUFFICES ASSUME IInv, appender = "open", call = "idle", ~failed, txn = "open"
               PROVE  inserted = accepted
    BY DEF AcceptedIsInserted
  <2>1. Done = 0 /\ accepted \in Seq(RowIds)
    BY Numbers DEF IInv, TypeOK
  <2>2. inserted = accepted \o SubSeq(batch, 1, 0)
    BY <2>1 DEF IInv, ContentInv
  <2>3. SubSeq(batch, 1, 0) = <<>>
    BY SubSeqEmpty
  <2> QED
    BY <2>1, <2>2, <2>3
<1> QED
  BY <1>1, Correct, PTL

(* No row is committed twice or before an earlier one, even for a caller    *)
(* who goes on after errors and in transactions that ended on their own.    *)
THEOREM NoRowTwiceEver == Spec => []NoRowTwice
<1>1. IInv => NoRowTwice
  BY DEF IInv, OrderInv, Increasing, NoRowTwice
<1> QED
  BY <1>1, Correct, PTL

-----------------------------------------------------------------------------
InTransaction(row) == \E j \in 1..Len(inserted) : inserted[j] = row

(* A careful caller's transaction is open until the first error; and also   *)
(* for a careless one, an open transaction holds what was accepted.         *)
KeptInv ==
  /\ client = "careful" /\ appender = "open" /\ ~failed /\ connection = "up" => txn = "open"
  /\ txn = "open" /\ appender = "open" =>
       /\ \A i \in 1..Len(accepted) : InTransaction(accepted[i])
       /\ \A i \in 1..Done : InTransaction(batch[i])

(* The row is in the table after the step. *)
CommittedNow(row) == \E j \in 1..Len(table') : table'[j] = row

(* Rows stay in the table, and those of the transaction reach it at COMMIT. *)
LEMMA TableGrows ==
  ASSUME TypeOK, \E rows \in Seq(RowIds) : table' = table \o rows
  PROVE  \A row : Committed(row) => CommittedNow(row)
<1> SUFFICES ASSUME NEW rows \in Seq(RowIds), table' = table \o rows,
                    NEW row, NEW i \in 1..Len(table), table[i] = row
             PROVE  CommittedNow(row)
  BY DEF Committed
<1>0. table \in Seq(RowIds)
  BY DEF TypeOK
<1>1. i \in 1..Len(table') /\ table'[i] = row
  BY <1>0, ConcatElements
<1> QED
  BY <1>1 DEF CommittedNow

LEMMA CommitDelivers ==
  ASSUME TypeOK, table' = table \o inserted
  PROVE  \A row : InTransaction(row) => CommittedNow(row)
<1> SUFFICES ASSUME NEW row, NEW j \in 1..Len(inserted), inserted[j] = row
             PROVE  CommittedNow(row)
  BY DEF InTransaction
<1>0. table \in Seq(RowIds) /\ inserted \in Seq(RowIds)
  BY DEF TypeOK
<1>1. Len(table) + j \in 1..Len(table') /\ table'[Len(table) + j] = row
  BY <1>0, ConcatElements
<1> QED
  BY <1>1 DEF CommittedNow

LEMMA KeptStep ==
  ASSUME IInv, KeptInv, [Next]_vars
  PROVE  KeptInv'
<1>1. TypeOK /\ BatchInv
  BY DEF IInv
<1>2. /\ Len(batch) \in Nat /\ Done \in 0..Len(batch) /\ batch \in Seq(RowIds)
      /\ call = "idle" => Done = 0
  BY <1>1, Numbers
<1>3. \A n \in Nat : Prefix(0, n) = 0
  BY PrefixSteps
<1>4. 1..0 = {}
  OBVIOUS
<1>5. CASE BeginSQLite \/ StartTransaction
  <2>1. /\ txn' = "open" /\ accepted' = <<>> /\ UNCHANGED << batch, batch_number >>
        /\ call = "idle"
    BY <1>1, <1>5 DEF BeginSQLite, StartTransaction, NewAppender, callVars, BatchInv, TypeOK
  <2>2. Len(accepted') = 0 /\ Done' = 0
    BY <1>2, <2>1 DEF Done
  <2> QED
    BY <1>4, <2>1, <2>2 DEF KeptInv
<1>6. ASSUME NEW n \in BatchRows, AppendBatch(n) PROVE KeptInv'
  <2>1. /\ UNCHANGED << client, appender, failed, connection, txn, inserted, accepted >>
        /\ n \in Nat /\ Len(batch') = n /\ batch_number' = 0
    BY <1>6, SqlAppendAssumption DEF AppendBatch, connVars
  <2>2. Done' = 0
    BY <1>3, <2>1 DEF Done
  <2> QED
    BY <1>4, <2>1, <2>2 DEF KeptInv, InTransaction
<1>7. CASE InsertStatement
  <2> DEFINE next == Prefix(batch_number + 1, Len(batch))
  <2>1. /\ UNCHANGED << client, appender, failed, connection, txn, accepted, batch >>
        /\ Unfinished /\ Done' = next
        /\ txn = "open" => inserted' = inserted \o NextStatement
    BY <1>7 DEF InsertStatement, Insert, Done
  <2>2. /\ next \in 1..Len(batch) /\ Done < next
        /\ NextStatement = SubSeq(batch, Done + 1, next)
        /\ NextStatement \in Seq(RowIds) /\ Len(NextStatement) = next - Done
    BY <1>1, <2>1, StatementRows
  <2> HIDE DEF next
  <2>3. \A i \in 1..(next - Done) : NextStatement[i] = batch[Done + i]
    BY <1>2, <2>2, SubSeqElements
  <2>4. ASSUME txn = "open", appender = "open"
        PROVE  /\ \A i \in 1..Len(accepted) : InTransaction(accepted[i])'
               /\ \A i \in 1..next : InTransaction(batch[i])'
    <3>0. inserted \in Seq(RowIds)
      BY <1>1 DEF TypeOK
    <3>1. /\ Len(inserted) \in Nat
          /\ \A j \in 1..Len(inserted) : j \in 1..Len(inserted') /\ inserted'[j] = inserted[j]
          /\ \A j \in 1..Len(NextStatement) :
               /\ Len(inserted) + j \in 1..Len(inserted')
               /\ inserted'[Len(inserted) + j] = NextStatement[j]
      <4>1. inserted' = inserted \o NextStatement
        BY <2>1, <2>4
      <4>2. LET grown == inserted \o NextStatement IN
              /\ Len(inserted) \in Nat
              /\ \A j \in 1..Len(inserted) : j \in 1..Len(grown) /\ grown[j] = inserted[j]
              /\ \A j \in 1..Len(NextStatement) :
                   /\ Len(inserted) + j \in 1..Len(grown)
                   /\ grown[Len(inserted) + j] = NextStatement[j]
        BY <2>2, <3>0, ConcatElements
      <4> QED
        BY <4>1, <4>2
    <3>2. \A row : InTransaction(row) => \E j \in 1..Len(inserted') : inserted'[j] = row
      BY <3>1 DEF InTransaction
    <3>3. \A i \in 1..Len(accepted) : InTransaction(accepted[i])'
      BY <2>1, <2>4, <3>2 DEF KeptInv, InTransaction
    <3>4. \A i \in 1..Done : \E j \in 1..Len(inserted') : inserted'[j] = batch[i]
      BY <2>4, <3>2 DEF KeptInv
    <3>5. \A i \in 1..next : i \in 1..Done \/ (i - Done \in 1..(next - Done) /\ i = Done + (i - Done))
      BY <1>2, <2>2
    <3>6. \A i \in 1..(next - Done) : \E j \in 1..Len(inserted') : inserted'[j] = batch[Done + i]
      BY <2>2, <2>3, <3>1
    <3>7. \A i \in 1..next : \E j \in 1..Len(inserted') : inserted'[j] = batch[i]
      BY <3>4, <3>5, <3>6
    <3> QED
      BY <2>1, <3>3, <3>7 DEF InTransaction
  <2> QED
    BY <2>1, <2>4 DEF KeptInv
<1>8. CASE InsertFails
  <2>1. /\ failed' = TRUE /\ Len(batch') = 0 /\ batch_number' = 0
        /\ UNCHANGED << appender, accepted >>
        /\ txn' = "open" => txn = "open" /\ inserted' = inserted
    BY <1>8 DEF InsertFails, InsertError, RollbackTxn, connVars, Return
  <2>2. Done' = 0
    BY <1>3, <2>1 DEF Done
  <2>3. \A i \in 1..Done' : FALSE
    BY <1>4, <2>2
  <2>4. txn' = "open" /\ appender' = "open" =>
          \A i \in 1..Len(accepted') : \E j \in 1..Len(inserted') : inserted'[j] = accepted'[i]
    BY <2>1 DEF KeptInv, InTransaction
  <2> QED
    BY <2>1, <2>3, <2>4 DEF KeptInv, InTransaction
<1>9. CASE AppendReturns
  <2>1. /\ UNCHANGED << client, appender, failed, connection, txn, inserted >> /\ ~Unfinished
        /\ accepted' = accepted \o batch /\ Len(batch') = 0 /\ batch_number' = 0
    BY <1>9 DEF AppendReturns, Return, connVars
  <2>2. Done = Len(batch) /\ Done' = 0
    BY <1>1, <1>3, <2>1, AllDone DEF Done
  <2>3. \A k \in 1..Len(accepted') :
          \/ k \in 1..Len(accepted) /\ accepted'[k] = accepted[k]
          \/ k - Len(accepted) \in 1..Len(batch) /\ accepted'[k] = batch[k - Len(accepted)]
    <3>1. accepted \in Seq(RowIds) /\ batch \in Seq(RowIds)
      BY <1>1 DEF TypeOK
    <3>2. \A k \in 1..Len(accepted \o batch) :
            \/ k \in 1..Len(accepted) /\ (accepted \o batch)[k] = accepted[k]
            \/ /\ k - Len(accepted) \in 1..Len(batch)
               /\ (accepted \o batch)[k] = batch[k - Len(accepted)]
      BY <3>1, ConcatElements
    <3> QED
      BY <2>1, <3>2
  <2>4. ASSUME txn = "open", appender = "open"
        PROVE  \A k \in 1..Len(accepted') : InTransaction(accepted'[k])
    BY <2>2, <2>3, <2>4 DEF KeptInv
  <2>5. \A row : InTransaction(row) <=> \E j \in 1..Len(inserted') : inserted'[j] = row
    BY <2>1 DEF InTransaction
  <2>6. txn' = "open" /\ appender' = "open" =>
          /\ \A k \in 1..Len(accepted') : \E j \in 1..Len(inserted') : inserted'[j] = accepted'[k]
          /\ \A i \in 1..Done' : FALSE
    BY <1>4, <2>1, <2>2, <2>4, <2>5
  <2> QED
    BY <2>1, <2>6 DEF KeptInv, InTransaction
<1>10. CASE Finish \/ FinishFails \/ DropAppender
  BY <1>10 DEF Finish, FinishFails, DropAppender, CloseAppender, KeptInv
<1>11. CASE OtherDDL \/ Disconnect
  BY <1>11 DEF OtherDDL, Disconnect, CommitTxn, KeptInv
<1>12. CASE UNCHANGED vars
  BY <1>12 DEF vars, connVars, callVars, KeptInv, InTransaction, Done
<1> QED
  BY <1>5, <1>6, <1>7, <1>8, <1>9, <1>10, <1>11, <1>12 DEF Next

LEMMA AckedStep ==
  ASSUME IInv, KeptInv, AckedIsCommitted, [Next]_vars
  PROVE  AckedIsCommitted'
<1>0. UNCHANGED << client, db >>
  BY DEF Next, BeginSQLite, StartTransaction, NewAppender, AppendBatch, InsertStatement,
     InsertFails, AppendReturns, Finish, FinishFails, DropAppender, CloseAppender, OtherDDL,
     Disconnect, vars
<1> SUFFICES ASSUME client = "careful" \/ db = "sqlite"
             PROVE  \A i \in 1..Len(acked') : CommittedNow(acked'[i])
  BY <1>0 DEF AckedIsCommitted, Committed, CommittedNow
<1>1. TypeOK /\ BatchInv
  BY DEF IInv
<1>2. \A i \in 1..Len(acked) : Committed(acked[i])
  BY DEF AckedIsCommitted
<1>3. CASE Finish
  <2>1. /\ acked' = acked \o accepted /\ table' = table \o inserted
        /\ appender = "open" /\ connection = "up"
        /\ client = "careful" => ~failed
        /\ txn = "open" \/ db = "mysql"
    BY <1>3 DEF Finish, MayCall, CommitTxn
  <2>2. txn = "open"
    BY <2>1 DEF KeptInv
  <2>3. \A i \in 1..Len(accepted) : InTransaction(accepted[i])
    BY <2>1, <2>2 DEF KeptInv
  <2>4. /\ \A row : InTransaction(row) => CommittedNow(row)
        /\ \A row : Committed(row) => CommittedNow(row)
    BY <1>1, <2>1, CommitDelivers, TableGrows DEF TypeOK
  <2>5. \A k \in 1..Len(acked') :
          \/ k \in 1..Len(acked) /\ acked'[k] = acked[k]
          \/ k - Len(acked) \in 1..Len(accepted) /\ acked'[k] = accepted[k - Len(acked)]
    <3>1. acked \in Seq(RowIds) /\ accepted \in Seq(RowIds)
      BY <1>1 DEF TypeOK
    <3>2. \A k \in 1..Len(acked \o accepted) :
            \/ k \in 1..Len(acked) /\ (acked \o accepted)[k] = acked[k]
            \/ /\ k - Len(acked) \in 1..Len(accepted)
               /\ (acked \o accepted)[k] = accepted[k - Len(acked)]
      BY <3>1, ConcatElements
    <3> QED
      BY <2>1, <3>2
  <2> QED
    BY <1>2, <2>3, <2>4, <2>5
<1>4. CASE ~Finish
  <2>1. acked' = acked
    BY <1>4 DEF Next, BeginSQLite, StartTransaction, NewAppender, AppendBatch,
       InsertStatement, InsertFails, AppendReturns, FinishFails, DropAppender,
       OtherDDL, Disconnect, vars
  <2>2. \/ table' = table
        \/ table' = table \o inserted
        \/ table' = table \o NextStatement /\ Unfinished
    BY <1>4 DEF Next, BeginSQLite, StartTransaction, NewAppender, AppendBatch,
       InsertStatement, Insert, InsertFails, InsertError, AppendReturns, FinishFails,
       DropAppender, OtherDDL, Disconnect, CommitTxn, RollbackTxn, vars, connVars
  <2>3. \A row : Committed(row) => CommittedNow(row)
    <3>1. CASE table' = table
      BY <3>1 DEF Committed, CommittedNow
    <3>2. CASE table' = table \o inserted
      BY <1>1, <3>2, TableGrows DEF TypeOK
    <3>3. CASE table' = table \o NextStatement /\ Unfinished
      BY <1>1, <3>3, TableGrows, StatementRows
    <3> QED
      BY <2>2, <3>1, <3>2, <3>3
  <2> QED
    BY <1>2, <2>1, <2>3
<1> QED
  BY <1>3, <1>4

(* What finish() acknowledged is in the table, for SQLite whatever the      *)
(* caller did, for MySQL if the caller stops at the first error.            *)
THEOREM AckedIsAlwaysCommitted == Spec => []AckedIsCommitted
<1>1. Init => KeptInv /\ AckedIsCommitted
  <2> SUFFICES ASSUME Init PROVE KeptInv /\ AckedIsCommitted
    OBVIOUS
  <2>1. Len(acked) = 0 /\ 1..0 = {} /\ appender = "none"
    BY DEF Init
  <2> QED
    BY <2>1 DEF KeptInv, AckedIsCommitted
<1>2. IInv /\ KeptInv /\ AckedIsCommitted /\ [Next]_vars => KeptInv' /\ AckedIsCommitted'
  BY KeptStep, AckedStep
<1> QED
  BY <1>1, <1>2, Correct, PTL DEF Spec


-----------------------------------------------------------------------------
(* The row before the first one that the open, or last opened, appender was *)
(* given.                                                                   *)
Base == opened[Len(opened)]

(* A careful caller's transaction is a stretch of rows from the first one   *)
(* of the appender, and until something fails it reaches as far as the      *)
(* statements do.  SQLite has no transaction without an appender.           *)
CarefulInv ==
  /\ db = "sqlite" /\ appender = "none" => txn = "none"
  /\ appender = "open" => opened # <<>>
  /\ client = "careful" =>
       /\ call = "append" => ~failed
       /\ \A i \in 1..Len(inserted) : opened # <<>> /\ inserted[i] = Base + i
       /\ appender = "open" /\ ~failed /\ txn = "open" => Reached = Base + Len(inserted)

LEMMA CarefulStep ==
  ASSUME IInv, KeptInv, CarefulInv, [Next]_vars
  PROVE  CarefulInv'
<1>1. TypeOK /\ BatchInv
  BY DEF IInv
<1>2. /\ given \in Nat /\ Len(batch) \in Nat /\ Done \in 0..Len(batch) /\ Reached \in Nat
      /\ call = "idle" => Done = 0 /\ Reached = given
      /\ \A n \in Nat : Prefix(0, n) = 0
      /\ opened \in Seq(0..MaxRows) /\ Len(opened) \in Nat /\ MaxRows \in Nat
      /\ inserted \in Seq(RowIds) /\ Len(inserted) \in Nat
  <2>1. /\ given \in 0..MaxRows /\ MaxRows \in Nat /\ Len(batch) \in Nat
        /\ Done \in 0..Len(batch) /\ Reached \in 0..given
        /\ call = "idle" => Done = 0 /\ Reached = given
    BY <1>1, Numbers
  <2>2. opened \in Seq(0..MaxRows) /\ inserted \in Seq(RowIds)
    BY <1>1 DEF TypeOK
  <2> QED
    BY <2>1, <2>2, PrefixSteps
<1>3. 1..0 = {} /\ Len(<<>>) = 0
  OBVIOUS
<1>4. CASE BeginSQLite \/ StartTransaction
  <2>1. /\ UNCHANGED << db, client, call, batch, batch_number, given >>
        /\ appender' = "open" /\ txn' = "open" /\ failed' = FALSE
        /\ opened' = Append(opened, given) /\ appender = "none"
    BY <1>4 DEF BeginSQLite, StartTransaction, NewAppender, callVars
  <2>2. inserted' = <<>> /\ Len(inserted') = 0
    BY <1>1, <1>3, <1>4 DEF BeginSQLite, StartTransaction, BatchInv
  <2>3. Len(opened') = Len(opened) + 1 /\ opened'[Len(opened) + 1] = given /\ opened' # <<>>
    BY <1>2, <1>3, <2>1
  <2>4. Base' = given
    BY <2>3 DEF Base
  <2>5. call' = "idle"
    BY <1>1, <2>1 DEF BatchInv, TypeOK
  <2>6. Reached' = given
    <3>1. Reached' = Reached
      BY <2>1 DEF Reached, Done
    <3> QED
      BY <1>2, <2>1, <2>5, <3>1
  <2>7. Reached' = Base' + Len(inserted')
    BY <1>2, <2>2, <2>4, <2>6
  <2> QED
    BY <1>3, <2>1, <2>2, <2>3, <2>5, <2>7 DEF CarefulInv
<1>5. ASSUME NEW n \in BatchRows, AppendBatch(n) PROVE CarefulInv'
  <2>1. /\ UNCHANGED << db, client, appender, txn, inserted, failed, opened >>
        /\ client = "careful" => ~failed
        /\ call = "idle" /\ n \in Nat /\ given' = given + n
        /\ Len(batch') = n /\ batch_number' = 0
    BY <1>5, SqlAppendAssumption DEF AppendBatch, MayCall, connVars
  <2>2. Reached' = Reached
    <3>1. Done' = 0
      BY <1>2, <2>1 DEF Done
    <3> QED
      BY <1>2, <2>1, <3>1 DEF Reached
  <2>3. Base' = Base
    BY <2>1 DEF Base
  <2> QED
    BY <2>1, <2>2, <2>3 DEF CarefulInv
<1>6. CASE InsertStatement
  <2> DEFINE next == Prefix(batch_number + 1, Len(batch))
  <2>1. /\ UNCHANGED << db, client, appender, call, txn, failed, opened, given, batch >>
        /\ Unfinished /\ Done' = next /\ call = "append" /\ appender = "open"
        /\ connection = "up"
        /\ txn = "open" => inserted' = inserted \o NextStatement
    BY <1>1, <1>6 DEF InsertStatement, Insert, Done, BatchInv
  <2>2. /\ next \in 1..Len(batch) /\ Done < next
        /\ NextStatement \in Seq(RowIds) /\ Len(NextStatement) = next - Done
        /\ \A i \in 1..Len(NextStatement) : NextStatement[i] = Reached + i
    BY <1>1, <2>1, StatementRows
  <2> HIDE DEF next
  <2>3. Base' = Base
    BY <2>1 DEF Base
  <2>4. ASSUME client = "careful"
        PROVE  /\ \A i \in 1..Len(inserted') : inserted'[i] = Base + i
               /\ Reached' = Base + Len(inserted')
    <3>1. txn = "open" /\ opened # <<>> /\ Reached = Base + Len(inserted)
      BY <2>1, <2>4 DEF CarefulInv, KeptInv
    <3>2. Base \in Nat
      BY <1>2, <3>1, EmptySeq, ElementOfSeq DEF Base
    <3>3. inserted' = inserted \o NextStatement
      BY <2>1, <3>1
    <3>4. /\ Len(inserted') = Len(inserted) + Len(NextStatement)
          /\ \A k \in 1..Len(inserted') :
               \/ k \in 1..Len(inserted) /\ inserted'[k] = inserted[k]
               \/ /\ k - Len(inserted) \in 1..Len(NextStatement)
                  /\ inserted'[k] = NextStatement[k - Len(inserted)]
      <4>1. LET grown == inserted \o NextStatement IN
              /\ Len(grown) = Len(inserted) + Len(NextStatement)
              /\ \A k \in 1..Len(grown) :
                   \/ k \in 1..Len(inserted) /\ grown[k] = inserted[k]
                   \/ /\ k - Len(inserted) \in 1..Len(NextStatement)
                      /\ grown[k] = NextStatement[k - Len(inserted)]
        <5>1. inserted \in Seq(RowIds) /\ NextStatement \in Seq(RowIds)
          BY <1>2, <2>2
        <5> QED
          BY <5>1, ConcatElements
      <4> QED
        BY <3>3, <4>1
    <3>5. \A i \in 1..Len(inserted') : inserted'[i] = Base + i
      <4> TAKE k \in 1..Len(inserted')
      <4>1. CASE k \in 1..Len(inserted) /\ inserted'[k] = inserted[k]
        BY <2>4, <4>1 DEF CarefulInv
      <4>2. CASE /\ k - Len(inserted) \in 1..Len(NextStatement)
                 /\ inserted'[k] = NextStatement[k - Len(inserted)]
        <5>1. inserted'[k] = Reached + (k - Len(inserted))
          BY <2>2, <4>2
        <5>2. k \in Nat
          BY <1>2, <2>2, <3>4
        <5> QED
          BY <1>2, <3>1, <3>2, <5>1, <5>2
      <4> QED
        BY <3>4, <4>1, <4>2
    <3>6. Reached' = Reached + (next - Done)
      BY <1>2, <2>1, <2>2 DEF Reached
    <3> QED
      BY <1>2, <2>2, <3>1, <3>2, <3>4, <3>5, <3>6
  <2>5. appender' = "open" /\ opened' # <<>>
    BY <2>1 DEF CarefulInv
  <2> QED
    BY <2>1, <2>3, <2>4, <2>5 DEF CarefulInv
<1>7. CASE InsertFails
  <2>1. /\ UNCHANGED << db, client, appender, opened >> /\ failed' = TRUE /\ call' = "idle"
        /\ \/ UNCHANGED << txn, inserted >>
           \/ txn' = "none" /\ inserted' = <<>>
    BY <1>7 DEF InsertFails, InsertError, RollbackTxn, connVars, Return
  <2>2. Base' = Base
    BY <2>1 DEF Base
  <2> QED
    BY <1>3, <2>1, <2>2 DEF CarefulInv
<1>8. CASE AppendReturns
  <2>1. /\ UNCHANGED << db, client, appender, opened, txn, inserted, failed, given >>
        /\ ~Unfinished /\ call' = "idle" /\ Len(batch') = 0 /\ batch_number' = 0
    BY <1>8 DEF AppendReturns, Return, connVars
  <2>2. Reached = given
    BY <1>1, <1>2, <2>1, AllDone DEF Reached
  <2>3. Reached' = given
    <3>1. Done' = 0
      BY <1>2, <2>1 DEF Done
    <3> QED
      BY <1>2, <2>1, <3>1 DEF Reached
  <2>4. Base' = Base
    BY <2>1 DEF Base
  <2> QED
    BY <2>1, <2>2, <2>3, <2>4 DEF CarefulInv
<1>9. CASE Finish \/ FinishFails \/ DropAppender
  <2>1. /\ UNCHANGED << client, db, opened >> /\ appender' = "none" /\ call' = "idle"
        /\ inserted' \in {inserted, <<>>}
        /\ db = "sqlite" => txn' = "none"
    BY <1>9 DEF Finish, FinishFails, DropAppender, CloseAppender, Return, CommitTxn,
                RollbackTxn, connVars
  <2>2. Base' = Base
    BY <2>1 DEF Base
  <2> QED
    BY <1>3, <2>1, <2>2 DEF CarefulInv
<1>10. CASE OtherDDL \/ Disconnect
  <2>1. /\ UNCHANGED << client, db, opened, appender, call, failed >>
        /\ inserted' = <<>> /\ txn' = "none"
    BY <1>10 DEF OtherDDL, Disconnect, CommitTxn, callVars
  <2> QED
    BY <1>3, <2>1 DEF CarefulInv
<1>11. CASE UNCHANGED vars
  <2>1. UNCHANGED << client, db, opened, appender, call, failed, inserted, txn >>
        /\ Reached' = Reached /\ Base' = Base
    BY <1>11 DEF vars, connVars, callVars, Reached, Done, Base
  <2> QED
    BY <2>1 DEF CarefulInv
<1> QED
  BY <1>4, <1>5, <1>6, <1>7, <1>8, <1>9, <1>10, <1>11 DEF Next

(* What a careful caller's call leaves of a statement without a transaction:*)
(* there is none.                                                           *)
LEMMA CarefulTable ==
  ASSUME IInv, KeptInv, CarefulInv, [Next]_vars, client = "careful", table' # table
  PROVE  /\ table' = table \o inserted
         /\ call = "idle"
         /\ \/ appender = "open" /\ appender' = "none" /\ ~failed
            \/ appender = "none" /\ db = "mysql"
<1>1. TypeOK /\ BatchInv
  BY DEF IInv
<1>2. CASE InsertStatement
  <2>1. call = "append" /\ appender = "open" /\ connection = "up"
    BY <1>1, <1>2 DEF InsertStatement, BatchInv
  <2>2. txn = "open"
    BY <2>1 DEF KeptInv, CarefulInv
  <2> QED
    BY <1>2, <2>2 DEF InsertStatement, Insert
<1>3. CASE Finish \/ FinishFails
  BY <1>3 DEF Finish, FinishFails, MayCall, CommitTxn, RollbackTxn, CloseAppender
<1>4. CASE StartTransaction \/ OtherDDL
  <2>1. appender = "none" /\ db = "mysql" /\ table' = table \o inserted
    BY <1>4 DEF StartTransaction, OtherDDL, NewAppender, CommitTxn
  <2> QED
    BY <1>1, <2>1 DEF BatchInv, TypeOK
<1>5. ASSUME \/ BeginSQLite \/ InsertFails \/ AppendReturns \/ DropAppender \/ Disconnect
             \/ UNCHANGED vars \/ \E n \in BatchRows : AppendBatch(n)
      PROVE  FALSE
  BY <1>5 DEF BeginSQLite, InsertFails, InsertError, AppendReturns, DropAppender, Disconnect,
              AppendBatch, RollbackTxn, vars, connVars
<1> QED
  BY <1>2, <1>3, <1>4, <1>5 DEF Next

LEMMA PrefixStep ==
  ASSUME IInv, KeptInv, CarefulInv, PrefixCommitted, [Next]_vars
  PROVE  PrefixCommitted'
<1>1. UNCHANGED client
  BY DEF Next, BeginSQLite, StartTransaction, NewAppender, AppendBatch, InsertStatement,
     InsertFails, AppendReturns, Finish, FinishFails, DropAppender, CloseAppender, OtherDDL,
     Disconnect, vars
<1> SUFFICES ASSUME client = "careful",
                    NEW i \in 1..Len(table'), NEW row \in 1..table'[i]
             PROVE  CommittedNow(row)
                    \/ \E k \in 1..Len(opened') : row <= opened'[k] /\ opened'[k] < table'[i]
  BY <1>1 DEF PrefixCommitted, Committed, CommittedNow
<1>2. /\ table \in Seq(RowIds) /\ inserted \in Seq(RowIds) /\ opened \in Seq(0..MaxRows)
      /\ Len(opened) \in Nat /\ MaxRows \in Nat /\ RowIds \subseteq Nat
  BY SqlAppendAssumption DEF IInv, TypeOK, RowIds
<1>3. \A k \in 1..Len(opened) : k \in 1..Len(opened') /\ opened'[k] = opened[k]
  <2>1. opened' = opened \/ opened' = Append(opened, given)
    BY DEF Next, BeginSQLite, StartTransaction, NewAppender, AppendBatch, InsertStatement,
       InsertFails, AppendReturns, Finish, FinishFails, DropAppender, CloseAppender, OtherDDL,
       Disconnect, vars
  <2>2. opened \in Seq(0..MaxRows) /\ given \in 0..MaxRows
    BY DEF IInv, TypeOK
  <2>3. /\ Len(opened) \in Nat /\ Len(Append(opened, given)) = Len(opened) + 1
        /\ \A k \in 1..Len(opened) : Append(opened, given)[k] = opened[k]
    BY <2>2, AppendProperties
  <2> QED
    BY <2>1, <2>3
<1>4. ASSUME i \in 1..Len(table), table'[i] = table[i],
             \A r : Committed(r) => CommittedNow(r)
      PROVE  CommittedNow(row)
             \/ \E k \in 1..Len(opened') : row <= opened'[k] /\ opened'[k] < table'[i]
  <2>1. \/ Committed(row)
        \/ \E k \in 1..Len(opened) : row <= opened[k] /\ opened[k] < table[i]
    BY <1>4 DEF PrefixCommitted
  <2> QED
    BY <1>3, <1>4, <2>1
<1>5. CASE table' = table
  BY <1>4, <1>5 DEF Committed, CommittedNow
<1>6. CASE table' # table
  <2>1. table' = table \o inserted
    BY <1>6, CarefulTable
  <2>2. /\ \A r : Committed(r) => CommittedNow(r)
        /\ \A r : InTransaction(r) => CommittedNow(r)
    BY <1>2, <2>1, TableGrows, CommitDelivers DEF IInv
  <2>3. \/ i \in 1..Len(table) /\ table'[i] = table[i]
        \/ i - Len(table) \in 1..Len(inserted) /\ table'[i] = inserted[i - Len(table)]
    BY <1>2, <2>1, ConcatElements
  <2>4. ASSUME NEW j \in 1..Len(inserted), table'[i] = inserted[j]
        PROVE  CommittedNow(row)
               \/ \E k \in 1..Len(opened') : row <= opened'[k] /\ opened'[k] < table'[i]
    <3>1. opened # <<>> /\ inserted[j] = Base + j
      BY DEF CarefulInv
    <3>2. Len(opened) \in 1..Len(opened) /\ Base = opened[Len(opened)] /\ Base \in Nat
      BY <1>2, <3>1, EmptySeq, ElementOfSeq DEF Base
    <3>3. j \in Nat /\ j >= 1 /\ Len(inserted) \in Nat
      BY <1>2
    <3>4. table'[i] = Base + j /\ row \in Nat /\ row >= 1 /\ row <= Base + j
      BY <2>4, <3>1, <3>2, <3>3
    <3>5. CASE row <= Base
      <4>1. Base < table'[i]
        BY <3>2, <3>3, <3>4
      <4> QED
        BY <1>3, <3>2, <3>5, <4>1
    <3>6. CASE row > Base
      <4>1. row - Base \in 1..Len(inserted) /\ Base + (row - Base) = row
        BY <3>2, <3>3, <3>4, <3>6
      <4>2. inserted[row - Base] = row
        BY <4>1 DEF CarefulInv
      <4> QED
        BY <2>2, <4>1, <4>2 DEF InTransaction
    <3> QED
      BY <3>2, <3>4, <3>5, <3>6
  <2> QED
    BY <1>4, <2>2, <2>3, <2>4
<1> QED
  BY <1>5, <1>6

(* The invariant behind what is known of a careful caller. *)
LEMMA CarefulAlways == Spec => [](IInv /\ KeptInv /\ CarefulInv)
<1>1. Init => KeptInv /\ CarefulInv
  <2> SUFFICES ASSUME Init PROVE KeptInv /\ CarefulInv
    OBVIOUS
  <2>1. Len(inserted) = 0 /\ 1..0 = {} /\ appender = "none" /\ call = "idle" /\ txn = "none"
    BY DEF Init
  <2> QED
    BY <2>1 DEF KeptInv, CarefulInv
<1>2. IInv /\ KeptInv /\ CarefulInv /\ [Next]_vars => KeptInv' /\ CarefulInv'
  BY KeptStep, CarefulStep
<1> QED
  BY <1>1, <1>2, Correct, PTL DEF Spec

(* What is committed of an appender is a prefix of what it was given.       *)
THEOREM PrefixAlwaysCommitted == Spec => []PrefixCommitted
<1>1. Init => PrefixCommitted
  <2> SUFFICES ASSUME Init PROVE PrefixCommitted
    OBVIOUS
  <2>1. Len(table) = 0 /\ 1..0 = {}
    BY DEF Init
  <2> QED
    BY <2>1 DEF PrefixCommitted
<1>2. IInv /\ KeptInv /\ CarefulInv /\ PrefixCommitted /\ [Next]_vars => PrefixCommitted'
  BY PrefixStep
<1> QED
  BY <1>1, <1>2, CarefulAlways, PTL DEF Spec

(* A careful caller's rows become visible at commits only. *)
THEOREM CommitsOnly == Spec => CommitPoints
<1>1. IInv /\ KeptInv /\ CarefulInv /\ [Next]_vars =>
        [client = "careful" /\ table' # table =>
           /\ table' = table \o inserted
           /\ call = "idle"
           /\ \/ appender = "open" /\ appender' = "none" /\ ~failed
              \/ appender = "none" /\ db = "mysql"]_vars
  BY CarefulTable
<1> QED
  BY <1>1, CarefulAlways, PTL DEF Spec, CommitPoints

-----------------------------------------------------------------------------
(* The rows of the next statement are new in the table and the transaction. *)
LEMMA StatementIsNew ==
  ASSUME IInv, Unfinished
  PROVE  /\ NextStatement \in Seq(RowIds) /\ Len(NextStatement) > 0
         /\ \A i \in 1..Len(NextStatement) :
              /\ \A j \in 1..Len(table) : table[j] < NextStatement[i]
              /\ \A j \in 1..Len(inserted) : inserted[j] < NextStatement[i]
              /\ \A j \in 1..(i - 1) : NextStatement[j] < NextStatement[i]
<1> DEFINE next == Prefix(batch_number + 1, Len(batch))
<1>1. TypeOK /\ BatchInv /\ OrderInv
  BY DEF IInv
<1>2. /\ table \in Seq(RowIds) /\ inserted \in Seq(RowIds) /\ RowIds \subseteq Nat
      /\ Reached \in Nat /\ Done \in 0..Len(batch) /\ Len(batch) \in Nat
  <2>1. Done \in 0..Len(batch) /\ Len(batch) \in Nat /\ given \in 0..MaxRows /\ MaxRows \in Nat
        /\ Reached \in 0..given /\ RowIds \subseteq Nat
    BY <1>1, Numbers
  <2> QED
    BY <1>1, <2>1 DEF TypeOK
<1>3. /\ next \in 1..Len(batch) /\ Done < next
      /\ NextStatement \in Seq(RowIds) /\ Len(NextStatement) = next - Done
      /\ \A i \in 1..Len(NextStatement) : NextStatement[i] = Reached + i
  BY <1>1, StatementRows
<1> HIDE DEF next
<1>4. Len(NextStatement) \in Nat /\ Len(NextStatement) > 0
  BY <1>2, <1>3
<1>5. /\ \A j \in 1..Len(table) : table[j] \in Nat /\ table[j] <= Reached
      /\ \A j \in 1..Len(inserted) : inserted[j] \in Nat /\ inserted[j] <= Reached
  <2>1. \A j \in 1..Len(table) : table[j] \in Nat
    BY <1>2, ElementOfSeq
  <2>2. \A j \in 1..Len(inserted) : inserted[j] \in Nat
    BY <1>2, ElementOfSeq
  <2> QED
    BY <1>1, <2>1, <2>2 DEF OrderInv
<1>6. ASSUME NEW i \in 1..Len(NextStatement)
      PROVE  /\ \A j \in 1..Len(table) : table[j] < NextStatement[i]
             /\ \A j \in 1..Len(inserted) : inserted[j] < NextStatement[i]
             /\ \A j \in 1..(i - 1) : NextStatement[j] < NextStatement[i]
  <2>1. NextStatement[i] = Reached + i /\ i \in Nat /\ i >= 1
    BY <1>3, <1>4
  <2>2. \A j \in 1..(i - 1) : NextStatement[j] = Reached + j /\ j < i
    BY <1>3, <1>4
  <2> QED
    BY <1>2, <1>5, <2>1, <2>2
<1> QED
  BY <1>3, <1>4, <1>6

(* A step of SQLite's appender is a step of TableAppend, or a stutter.      *)
LEMMA SQLiteStep ==
  ASSUME IInv, KeptInv, CarefulInv, KeepsPromise, [Next]_vars
  PROVE  [Promise!Next]_(Promise!vars)
<1>0. KeepsPromise' /\ db = "sqlite" /\ client = "careful"
  BY DEF KeepsPromise, Next, BeginSQLite, StartTransaction, NewAppender, AppendBatch,
     InsertStatement, InsertFails, AppendReturns, Finish, FinishFails, DropAppender,
     CloseAppender, OtherDDL, Disconnect, vars
<1>1. TypeOK /\ BatchInv
  BY DEF IInv
<1>2. table \in Seq(RowIds) /\ inserted \in Seq(RowIds) /\ txn \in {"none", "open"}
      /\ appender \in {"none", "open"}
  BY <1>1 DEF TypeOK
<1>3. txn = "none" => inserted = <<>>
  BY <1>1 DEF BatchInv
<1>4. ASSUME UNCHANGED << table, inserted >>,
             (appender = "open" /\ txn = "open") <=> (appender' = "open" /\ txn' = "open")
      PROVE  UNCHANGED Promise!vars
  BY <1>0, <1>4 DEF Promise!vars
<1>5. ASSUME UNCHANGED table, txn' = "none", inserted' = <<>>
      PROVE  [Promise!Next]_(Promise!vars)
  <2>1. CASE appender = "open" /\ txn = "open"
    <3>1. Promise!Abort
      BY <1>0, <1>5, <2>1 DEF Promise!Abort
    <3> QED
      BY <3>1 DEF Promise!Next
  <2>2. CASE txn = "none"
    <3>1. inserted' = inserted
      BY <1>3, <1>5, <2>2
    <3> QED
      BY <1>4, <1>5, <2>2, <3>1
  <2>3. CASE appender = "none"
    BY <1>0, <2>2, <2>3 DEF CarefulInv
  <2> QED
    BY <1>2, <2>1, <2>2, <2>3
<1>6. CASE BeginSQLite
  <2>1. /\ UNCHANGED << table, inserted >> /\ txn = "none"
        /\ appender' = "open" /\ txn' = "open"
    BY <1>6 DEF BeginSQLite, NewAppender
  <2>2. Promise!Open
    BY <1>0, <2>1 DEF Promise!Open
  <2> QED
    BY <2>2 DEF Promise!Next
<1>7. CASE InsertStatement
  <2>1. /\ Unfinished /\ UNCHANGED << appender, txn >>
        /\ call = "append" /\ connection = "up" /\ appender = "open"
    BY <1>1, <1>7 DEF InsertStatement, Insert, BatchInv
  <2>2. txn = "open"
    BY <1>0, <2>1 DEF KeptInv, CarefulInv
  <2>3. inserted' = inserted \o NextStatement /\ UNCHANGED table
    BY <1>7, <2>2 DEF InsertStatement, Insert
  <2>4. /\ NextStatement \in Seq(RowIds) /\ Len(NextStatement) > 0
        /\ \A i \in 1..Len(NextStatement) :
             /\ \A j \in 1..Len(table) : table[j] < NextStatement[i]
             /\ \A j \in 1..Len(inserted) : inserted[j] < NextStatement[i]
             /\ \A j \in 1..(i - 1) : NextStatement[j] < NextStatement[i]
    BY <2>1, StatementIsNew
  <2>5. /\ Len(inserted) \in Nat /\ Len(NextStatement) \in Nat
        /\ Len(inserted') = Len(inserted) + Len(NextStatement)
        /\ \A j \in 1..Len(inserted) : inserted'[j] = inserted[j]
        /\ \A k \in 1..Len(inserted') :
             \/ k \in 1..Len(inserted) /\ inserted'[k] = inserted[k]
             \/ /\ k - Len(inserted) \in 1..Len(NextStatement) /\ k > Len(inserted)
                /\ inserted'[k] = NextStatement[k - Len(inserted)]
    BY <1>2, <2>3, <2>4, ConcatElements
  <2>6. SubSeq(inserted', 1, Len(inserted)) = inserted
    <3>1. inserted' \in Seq(RowIds)
      BY <1>2, <2>3, <2>4
    <3>2. /\ SubSeq(inserted', 1, Len(inserted)) \in Seq(RowIds)
          /\ Len(SubSeq(inserted', 1, Len(inserted))) = Len(inserted)
          /\ \A j \in 1..Len(inserted) : SubSeq(inserted', 1, Len(inserted))[j] = inserted'[j]
      BY <2>5, <3>1
    <3> QED
      BY <1>2, <2>5, <3>2, SeqEqual
  <2>7. /\ \A j \in 1..Len(table) : table[j] \in Nat
        /\ \A j \in 1..Len(inserted) : inserted[j] \in Nat
        /\ \A j \in 1..Len(NextStatement) : NextStatement[j] \in Nat
    <3>1. RowIds \subseteq Nat
      BY SqlAppendAssumption DEF RowIds
    <3>2. \A j \in 1..Len(table) : table[j] \in RowIds
      BY <1>2, ElementOfSeq
    <3>3. \A j \in 1..Len(inserted) : inserted[j] \in RowIds
      BY <1>2, ElementOfSeq
    <3>4. \A j \in 1..Len(NextStatement) : NextStatement[j] \in RowIds
      BY <2>4, ElementOfSeq
    <3> QED
      BY <3>1, <3>2, <3>3, <3>4
  <2>8. \A i \in Len(inserted) + 1 .. Len(inserted') :
          /\ \A j \in 1..Len(table) : table[j] # inserted'[i]
          /\ \A j \in 1..(i - 1) : inserted'[j] # inserted'[i]
    <3> TAKE i \in Len(inserted) + 1 .. Len(inserted')
    <3>0. PICK m \in 1..Len(NextStatement) :
            m = i - Len(inserted) /\ inserted'[i] = NextStatement[m]
      BY <2>5
    <3>1. i \in Nat /\ m \in 1..Len(NextStatement) /\ inserted'[i] = NextStatement[m]
      BY <2>5, <3>0
    <3>2. inserted'[i] \in Nat
      BY <3>1, <2>7
    <3>3. \A j \in 1..Len(table) : table[j] # inserted'[i]
      <4> TAKE j \in 1..Len(table)
      <4>1. table[j] < inserted'[i] /\ table[j] \in Nat
        BY <2>4, <2>7, <3>1
      <4> QED
        BY <3>2, <4>1
    <3>4. \A j \in 1..(i - 1) : inserted'[j] # inserted'[i]
      <4> TAKE j \in 1..(i - 1)
      <4>1. j \in 1..Len(inserted') /\ j < i
        BY <2>5, <3>1
      <4>2. CASE j \in 1..Len(inserted) /\ inserted'[j] = inserted[j]
        <5>1. inserted[j] < NextStatement[m] /\ inserted[j] \in Nat
          BY <2>4, <2>7, <3>1, <4>2
        <5> QED
          BY <3>1, <3>2, <4>2, <5>1
      <4>3. CASE /\ j - Len(inserted) \in 1..Len(NextStatement)
                 /\ inserted'[j] = NextStatement[j - Len(inserted)]
        <5>1. PICK l \in 1..(m - 1) : l = j - Len(inserted)
          BY <2>5, <3>0, <4>1, <4>3
        <5>2. NextStatement[l] < NextStatement[m] /\ NextStatement[l] \in Nat
          BY <2>4, <2>5, <2>7, <3>1, <5>1
        <5> QED
          BY <3>1, <3>2, <4>3, <5>1, <5>2
      <4> QED
        BY <2>5, <4>1, <4>2, <4>3
    <3> QED
      BY <3>3, <3>4
  <2>9. Len(inserted') > Len(inserted)
    BY <2>4, <2>5
  <2>10. Promise!Write
    BY <1>0, <2>1, <2>2, <2>3, <2>6, <2>8, <2>9 DEF Promise!Write
  <2> QED
    BY <2>10 DEF Promise!Next
<1>8. CASE Finish
  <2>1. /\ table' = table \o inserted /\ inserted' = <<>> /\ txn = "open" /\ txn' = "none"
        /\ appender = "open"
    BY <1>0, <1>8 DEF Finish, MayCall, CommitTxn
  <2>2. Promise!Commit
    BY <1>0, <2>1 DEF Promise!Commit
  <2> QED
    BY <2>2 DEF Promise!Next
<1>9. CASE FinishFails \/ DropAppender \/ Disconnect
  <2>1. UNCHANGED table /\ txn' = "none" /\ inserted' = <<>>
    BY <1>0, <1>9 DEF FinishFails, DropAppender, Disconnect, RollbackTxn
  <2> QED
    BY <1>5, <2>1
<1>10. CASE InsertFails
  <2>1. CASE RollbackTxn
    BY <1>5, <2>1 DEF RollbackTxn
  <2>2. CASE UNCHANGED connVars
    BY <1>4, <1>10, <2>2 DEF InsertFails, connVars
  <2> QED
    BY <1>10, <2>1, <2>2 DEF InsertFails, InsertError
<1>11. ASSUME AppendReturns \/ UNCHANGED vars \/ \E n \in BatchRows : AppendBatch(n)
       PROVE  UNCHANGED Promise!vars
  <2>1. UNCHANGED << table, inserted, appender, txn >>
    BY <1>11 DEF AppendReturns, AppendBatch, vars, connVars
  <2> QED
    BY <1>4, <2>1
<1>12. ~StartTransaction /\ ~OtherDDL
  BY <1>0 DEF StartTransaction, OtherDDL
<1> QED
  BY <1>6, <1>7, <1>8, <1>9, <1>10, <1>11, <1>12 DEF Next

(* SQLiteAppender keeps the promise of an appender. *)
THEOREM SQLiteKeepsPromise == Spec => AllOrNothing
<1>1. Init => Promise!Init
  BY DEF Init, Promise!Init, KeepsPromise
<1>2. IInv /\ KeptInv /\ CarefulInv /\ [Next]_vars => [Promise!Next]_(Promise!vars)
  <2> SUFFICES ASSUME IInv, KeptInv, CarefulInv, [Next]_vars
               PROVE  [Promise!Next]_(Promise!vars)
    OBVIOUS
  <2>1. CASE KeepsPromise
    BY <2>1, SQLiteStep
  <2>2. CASE ~KeepsPromise
    <3>1. ~KeepsPromise'
      BY <2>2 DEF KeepsPromise, Next, BeginSQLite, StartTransaction, NewAppender,
         AppendBatch, InsertStatement, InsertFails, AppendReturns, Finish, FinishFails,
         DropAppender, CloseAppender, OtherDDL, Disconnect, vars
    <3> QED
      BY <2>2, <3>1 DEF Promise!vars
  <2> QED
    BY <2>1, <2>2
<1> QED
  BY <1>1, <1>2, CarefulAlways, PTL DEF Spec, AllOrNothing, Promise!Spec

=============================================================================
