-------------------------- MODULE SchemaEditProofs --------------------------
(* Theorems about SchemaEdit, for names of any length.                      *)
EXTENDS SchemaEdit, SequenceTheorems, WellFoundedInduction, TLAPS

(* A set of numbers has a least one. *)
LEMMA LeastNumber ==
  ASSUME NEW T, T \subseteq Nat, T # {}
  PROVE  \E least \in T : \A n \in T : least <= n
<1>1. PICK least \in T : \A n \in T : ~(<<n, least>> \in OpToRel(<, Nat))
  BY NatLessThanWellFounded, WFMin
<1>2. \A n \in T : <<n, least>> \in OpToRel(<, Nat) <=> n < least
  BY DEF OpToRel
<1>3. \A n \in T : ~(n < least)
  BY <1>1, <1>2, Zenon
<1> QED
  BY <1>3

-----------------------------------------------------------------------------
(* The recursive function of FlattenSeq exists. *)
LEMMA FlattenFunction ==
  ASSUME NEW m \in Nat \ {0}, NEW pieces
  PROVE  \E g : g = [i \in 1..m |-> IF i = 1 THEN pieces[i] ELSE g[i - 1] \o pieces[i]]
<1> DEFINE Unfolds(g, n) ==
      g = [i \in 1..n |-> IF i = 1 THEN pieces[i] ELSE g[i - 1] \o pieces[i]]
    T == { n \in Nat : n # 0 /\ ~\E g : Unfolds(g, n) }
<1>1. T = {}
  <2> SUFFICES ASSUME T # {} PROVE FALSE
    OBVIOUS
  <2>1. PICK n \in T : \A k \in T : n <= k
    BY LeastNumber
  <2>2. n \in Nat /\ n # 0 /\ ~\E g : Unfolds(g, n)
    OBVIOUS
  <2>3. CASE n = 1
    <3> DEFINE g == [i \in 1..1 |-> pieces[i]]
    <3>1. g = [i \in 1..1 |-> IF i = 1 THEN pieces[i] ELSE g[i - 1] \o pieces[i]]
      OBVIOUS
    <3>2. Unfolds(g, n)
      BY <2>3, <3>1
    <3> QED
      BY <2>2, <3>2
  <2>4. CASE n # 1
    <3>1. n - 1 \in Nat /\ n - 1 # 0 /\ n - 1 \notin T
      <4> HIDE DEF T
      <4> QED
        BY <2>1, <2>2, <2>4
    <3>2. PICK h : Unfolds(h, n - 1)
      BY <3>1
    <3> DEFINE g == [i \in 1..n |-> IF i = n THEN h[n - 1] \o pieces[n] ELSE h[i]]
    <3>3. \A i \in 1..n : g[i] = IF i = n THEN h[n - 1] \o pieces[n] ELSE h[i]
      OBVIOUS
    <3>4. \A i \in 1..(n - 1) : h[i] = IF i = 1 THEN pieces[i] ELSE h[i - 1] \o pieces[i]
      BY <3>2
    <3>5. ASSUME NEW i \in 1..n
          PROVE  g[i] = IF i = 1 THEN pieces[i] ELSE g[i - 1] \o pieces[i]
      <4>1. CASE i = n
        <5>1. g[i] = h[n - 1] \o pieces[n]
          BY <3>3, <4>1
        <5>2. n - 1 \in 1..n /\ n - 1 # n
          BY <2>2, <3>1
        <5>3. g[n - 1] = h[n - 1]
          BY <3>3, <5>2
        <5> QED
          BY <2>4, <4>1, <5>1, <5>3
      <4>2. CASE i # n
        <5>1. i \in 1..(n - 1) /\ g[i] = h[i]
          BY <2>2, <3>3, <4>2
        <5>2. CASE i = 1
          BY <3>4, <5>1, <5>2
        <5>3. CASE i # 1
          <6>1. i - 1 \in 1..n /\ i - 1 # n
            BY <2>2, <5>1, <5>3
          <6>2. g[i - 1] = h[i - 1]
            BY <3>3, <6>1
          <6> QED
            BY <3>4, <5>1, <5>3, <6>2
        <5> QED
          BY <5>2, <5>3
      <4> QED
        BY <4>1, <4>2
    <3>6. g = [i \in 1..n |-> g[i]]
      OBVIOUS
    <3> HIDE DEF g
    <3>7. Unfolds(g, n)
      BY <3>5, <3>6
    <3> QED
      BY <2>2, <3>7
  <2> QED
    BY <2>3, <2>4
<1> QED
  BY <1>1

(* The pieces lie one behind the other in flat: piece k begins where piece  *)
(* k - 1 ends.                                                              *)
Pieces(pieces, flat, ends) ==
  /\ ends \in [0..Len(pieces) -> Nat]
  /\ ends[0] = 0
  /\ ends[Len(pieces)] = Len(flat)
  /\ \A k \in 1..Len(pieces) :
       /\ ends[k] = ends[k - 1] + Len(pieces[k])
       /\ ends[k] <= Len(flat)
       /\ \A j \in 1..Len(pieces[k]) : flat[ends[k - 1] + j] = pieces[k][j]

LEMMA FlattenPieces ==
  ASSUME NEW S, NEW pieces \in Seq(Seq(S)), pieces # <<>>
  PROVE  /\ FlattenSeq(pieces) \in Seq(S)
         /\ \E ends : Pieces(pieces, FlattenSeq(pieces), ends)
<1> DEFINE m == Len(pieces)
           flatten[i \in 1..m] ==
             IF i = 1 THEN pieces[i] ELSE flatten[i - 1] \o pieces[i]
<1>1. m \in Nat \ {0}
  BY EmptySeq
<1>2. FlattenSeq(pieces) = flatten[m]
  BY <1>1 DEF FlattenSeq
<1>3. flatten = [i \in 1..m |-> IF i = 1 THEN pieces[i] ELSE flatten[i - 1] \o pieces[i]]
  BY <1>1, FlattenFunction, Zenon
<1>4. /\ flatten[1] = pieces[1]
      /\ \A i \in 2..m : flatten[i] = flatten[i - 1] \o pieces[i]
  <2>1. \A i \in 1..m : flatten[i] = IF i = 1 THEN pieces[i] ELSE flatten[i - 1] \o pieces[i]
    <3> HIDE DEF flatten
    <3> QED
      BY <1>3
  <2> HIDE DEF flatten, m
  <2>2. 1 \in 1..m /\ \A i \in 2..m : i \in 1..m /\ i # 1
    BY <1>1
  <2> QED
    BY <2>1, <2>2
<1> HIDE DEF flatten
<1>5. \A i \in 1..m : pieces[i] \in Seq(S)
  BY ElementOfSeq
<1> HIDE DEF m
<1>6. \A i \in 1..m : flatten[i] \in Seq(S)
  <2> DEFINE T == { i \in 1..m : flatten[i] \notin Seq(S) }
  <2>1. T = {}
    <3> SUFFICES ASSUME T # {} PROVE FALSE
      OBVIOUS
    <3>1. PICK n \in T : \A k \in T : n <= k
      <4>1. T \subseteq Nat
        BY <1>1
      <4> HIDE DEF T
      <4> QED
        BY <4>1, LeastNumber
    <3>2. n \in 1..m /\ flatten[n] \notin Seq(S)
      OBVIOUS
    <3>3. n # 1
      BY <1>1, <1>4, <1>5, <3>2
    <3>4. n \in 2..m /\ n - 1 \in 1..m /\ n - 1 \notin T
      <4> HIDE DEF T
      <4> QED
        BY <1>1, <3>1, <3>2, <3>3
    <3>5. flatten[n - 1] \in Seq(S) /\ pieces[n] \in Seq(S)
      BY <1>5, <3>2, <3>4
    <3>6. flatten[n - 1] \o pieces[n] \in Seq(S)
      BY <3>5, ConcatProperties
    <3> QED
      BY <1>4, <3>2, <3>4, <3>6
  <2> QED
    BY <2>1
<1>7. ASSUME NEW i \in 2..m
      PROVE  /\ Len(flatten[i - 1]) \in Nat /\ Len(pieces[i]) \in Nat
             /\ Len(flatten[i]) = Len(flatten[i - 1]) + Len(pieces[i])
             /\ \A j \in 1..Len(flatten[i - 1]) : flatten[i][j] = flatten[i - 1][j]
             /\ \A j \in 1..Len(pieces[i]) :
                  flatten[i][Len(flatten[i - 1]) + j] = pieces[i][j]
  <2>1. i \in 1..m /\ i - 1 \in 1..m
    BY <1>1
  <2>2. PICK s, t : s = flatten[i - 1] /\ t = pieces[i]
    OBVIOUS
  <2>3. s \in Seq(S) /\ t \in Seq(S) /\ flatten[i] = s \o t
    BY <1>4, <1>5, <1>6, <2>1, <2>2
  <2>4. /\ Len(s) \in Nat /\ Len(t) \in Nat /\ Len(s \o t) = Len(s) + Len(t)
        /\ \A j \in 1..Len(s) + Len(t) : (s \o t)[j] = IF j <= Len(s) THEN s[j] ELSE t[j - Len(s)]
    BY <2>3, ConcatProperties
  <2>5. /\ \A j \in 1..Len(s) : (s \o t)[j] = s[j]
        /\ \A j \in 1..Len(t) : (s \o t)[Len(s) + j] = t[j]
    BY <2>4
  <2> QED
    BY <2>2, <2>3, <2>4, <2>5
<1>8. ASSUME NEW i \in 1..m
      PROVE  \A k \in 1..i : /\ Len(flatten[k]) <= Len(flatten[i])
                             /\ \A j \in 1..Len(flatten[k]) : flatten[i][j] = flatten[k][j]
  <2> DEFINE Keeps(n) ==
        \A k \in 1..n : /\ Len(flatten[k]) <= Len(flatten[n])
                        /\ \A j \in 1..Len(flatten[k]) : flatten[n][j] = flatten[k][j]
      T == { n \in 1..m : ~Keeps(n) }
  <2>0. \A n \in 1..m : Len(flatten[n]) \in Nat
    BY <1>6, LenProperties
  <2>1. T = {}
    <3> SUFFICES ASSUME T # {} PROVE FALSE
      OBVIOUS
    <3>0. T \subseteq Nat
      <4> HIDE DEF Keeps
      <4> QED
        BY <1>1
    <3>1. PICK n \in T : \A k \in T : n <= k
      <4> HIDE DEF T
      <4> QED
        BY <3>0, LeastNumber
    <3>2. n \in 1..m /\ ~Keeps(n)
      OBVIOUS
    <3> HIDE DEF T
    <3>3. n # 1
      BY <2>0, <3>2
    <3>4. n \in 2..m /\ n - 1 \in 1..m /\ n - 1 \notin T
      BY <1>1, <3>1, <3>2, <3>3
    <3>5. Keeps(n - 1)
      BY <3>4 DEF T
    <3>6. ASSUME NEW k \in 1..n
          PROVE  /\ Len(flatten[k]) <= Len(flatten[n])
                 /\ \A j \in 1..Len(flatten[k]) : flatten[n][j] = flatten[k][j]
      <4>1. CASE k = n
        BY <2>0, <3>2, <4>1
      <4>2. CASE k # n
        <5>1. k \in 1..(n - 1) /\ k \in 1..m
          BY <1>1, <3>2, <4>2
        <5>2. /\ Len(flatten[k]) <= Len(flatten[n - 1])
              /\ \A j \in 1..Len(flatten[k]) : flatten[n - 1][j] = flatten[k][j]
          BY <3>5, <5>1
        <5>3. /\ Len(flatten[n]) = Len(flatten[n - 1]) + Len(pieces[n])
              /\ Len(pieces[n]) \in Nat
              /\ \A j \in 1..Len(flatten[n - 1]) : flatten[n][j] = flatten[n - 1][j]
          BY <1>7, <3>4
        <5>4. Len(flatten[k]) \in Nat /\ Len(flatten[n - 1]) \in Nat
          BY <2>0, <3>4, <5>1
        <5> QED
          <6>1. Len(flatten[k]) <= Len(flatten[n])
            <7>1. \A a, b, p \in Nat : a <= b => a <= b + p
              OBVIOUS
            <7> QED
              BY <5>2, <5>3, <5>4, <7>1
          <6>2. ASSUME NEW j \in 1..Len(flatten[k])
                PROVE  flatten[n][j] = flatten[k][j]
            <7>1. j \in 1..Len(flatten[n - 1])
              BY <5>2, <5>4
            <7> QED
              BY <5>2, <5>3, <7>1
          <6> QED
            BY <6>1, <6>2
      <4> QED
        BY <4>1, <4>2
    <3>7. Keeps(n)
      BY <3>6
    <3> QED
      BY <3>2, <3>7
  <2>2. Keeps(i)
    BY <2>1
  <2> QED
    BY <2>2
<1>9. m \in 1..m /\ flatten[m] \in Seq(S) /\ Len(flatten[m]) \in Nat
  BY <1>1, <1>6, LenProperties
<1> DEFINE ends == [k \in 0..m |-> IF k = 0 THEN 0 ELSE Len(flatten[k])]
<1>10. /\ ends \in [0..m -> Nat]
       /\ ends[0] = 0 /\ \A k \in 1..m : ends[k] = Len(flatten[k])
  <2>1. \A k \in 0..m : k = 0 \/ k \in 1..m
    BY <1>1
  <2>2. \A k \in 1..m : Len(flatten[k]) \in Nat /\ k \in 0..m /\ k # 0
    BY <1>1, <1>6, LenProperties
  <2>3. 0 \in 0..m
    BY <1>1
  <2> QED
    BY <2>1, <2>2, <2>3
<1> HIDE DEF ends
<1>11. ASSUME NEW k \in 1..m
       PROVE  /\ ends[k] = ends[k - 1] + Len(pieces[k])
              /\ ends[k] <= Len(flatten[m])
              /\ \A j \in 1..Len(pieces[k]) : flatten[m][ends[k - 1] + j] = pieces[k][j]
  <2>1. /\ Len(flatten[k]) <= Len(flatten[m])
        /\ \A j \in 1..Len(flatten[k]) : flatten[m][j] = flatten[k][j]
    BY <1>1, <1>8, <1>9
  <2>2. Len(pieces[k]) \in Nat /\ Len(flatten[k]) \in Nat
    BY <1>5, <1>6, LenProperties
  <2>3. /\ ends[k - 1] \in Nat
        /\ Len(flatten[k]) = ends[k - 1] + Len(pieces[k])
        /\ \A j \in 1..Len(pieces[k]) : flatten[k][ends[k - 1] + j] = pieces[k][j]
    <3>1. CASE k = 1
      BY <1>4, <1>10, <2>2, <3>1
    <3>2. CASE k # 1
      <4>1. k \in 2..m /\ k - 1 \in 1..m
        BY <1>1, <3>2
      <4>2. ends[k - 1] = Len(flatten[k - 1])
        BY <1>10, <4>1
      <4> QED
        BY <1>7, <4>1, <4>2
    <3> QED
      BY <3>1, <3>2
  <2>4. \A j \in 1..Len(pieces[k]) : ends[k - 1] + j \in 1..Len(flatten[k])
    <3>1. \A a, b, f \in Nat : f = a + b => \A j \in 1..b : a + j \in 1..f
      OBVIOUS
    <3>2. ends[k - 1] \in Nat /\ Len(flatten[k]) = ends[k - 1] + Len(pieces[k])
      BY <2>3
    <3> QED
      BY <2>2, <3>1, <3>2
  <2> QED
    BY <1>10, <2>1, <2>3, <2>4
<1>12. Pieces(pieces, flatten[m], ends)
  BY <1>9, <1>10, <1>11 DEF Pieces, m
<1> QED
  BY <1>2, <1>9, <1>12

-----------------------------------------------------------------------------
(* One step of the server's reading of a quoted name, of which rest is what *)
(* it reads from each place on.                                             *)
Reads(text, rest, i) ==
  IF i > Len(text) THEN {}
  ELSE IF text[i] # Quote THEN { << text[i] >> \o s : s \in rest[i + 1] }
  ELSE IF i = Len(text) THEN { <<>> }
  ELSE IF text[i + 1] = Quote THEN { << Quote >> \o s : s \in rest[i + 2] }
  ELSE {}

(* It looks at what follows, and not beyond the end. *)
LEMMA ReadsAhead ==
  ASSUME NEW text, Len(text) \in Nat, NEW g, NEW h, NEW i \in Nat,
         i <= Len(text) => g[i + 1] = h[i + 1],
         i < Len(text) => g[i + 2] = h[i + 2]
  PROVE  Reads(text, g, i) = Reads(text, h, i)
<1>1. CASE i > Len(text)
  BY <1>1 DEF Reads
<1>2. CASE i <= Len(text)
  <2>1. g[i + 1] = h[i + 1] /\ ~(i > Len(text))
    BY <1>2
  <2>2. i # Len(text) => g[i + 2] = h[i + 2]
    BY <1>2
  <2>3. { << text[i] >> \o s : s \in g[i + 1] } = { << text[i] >> \o s : s \in h[i + 1] }
    BY <2>1, Zenon
  <2>4. i # Len(text) =>
          { << Quote >> \o s : s \in g[i + 2] } = { << Quote >> \o s : s \in h[i + 2] }
    BY <2>2, Zenon
  <2> QED
    BY <2>1, <2>3, <2>4, Zenon DEF Reads
<1> QED
  BY <1>1, <1>2

(* The recursive function of Quoted exists: it is made from its end.        *)
LEMMA QuotedFunction ==
  ASSUME NEW text, Len(text) \in Nat
  PROVE  \E g : g = [i \in 2..(Len(text) + 2) |-> Reads(text, g, i)]
<1> DEFINE L == Len(text)
           Unfolds(g, n) == g = [i \in (L + 2 - n)..(L + 2) |-> Reads(text, g, i)]
           T == { n \in 0..L : ~\E g : Unfolds(g, n) }
<1>1. T = {}
  <2> SUFFICES ASSUME T # {} PROVE FALSE
    OBVIOUS
  <2>0. T \subseteq Nat
    OBVIOUS
  <2>1. PICK n \in T : \A k \in T : n <= k
    <3> HIDE DEF T
    <3> QED
      BY <2>0, LeastNumber
  <2>2. n \in 0..L /\ ~\E g : Unfolds(g, n)
    OBVIOUS
  <2>3. CASE n = 0
    <3> DEFINE g == [i \in (L + 2)..(L + 2) |-> {}]
    <3>1. \A i \in (L + 2)..(L + 2) : Reads(text, g, i) = {}
      <4> HIDE DEF g
      <4> QED
        BY DEF Reads
    <3>2. g = [i \in (L + 2)..(L + 2) |-> Reads(text, g, i)]
      <4>1. PICK r : r = [i \in (L + 2)..(L + 2) |-> Reads(text, g, i)]
        OBVIOUS
      <4>2. r = [i \in (L + 2)..(L + 2) |-> {}]
        <5> HIDE DEF g
        <5> QED
          BY <3>1, <4>1
      <4> QED
        BY <4>1, <4>2
    <3> HIDE DEF g
    <3>3. Unfolds(g, n)
      BY <2>3, <3>2
    <3> QED
      BY <2>2, <3>3
  <2>4. CASE n # 0
    <3>1. n - 1 \in 0..L /\ n - 1 \notin T
      <4> HIDE DEF T
      <4> QED
        BY <2>1, <2>2, <2>4
    <3>2. PICK h : Unfolds(h, n - 1)
      <4> HIDE DEF Unfolds
      <4> QED
        BY <3>1
    <3> n \in 0..L
      BY <2>2
    <3>3. PICK first \in Nat : first = L + 2 - n
      <4> HIDE DEF T
      <4> QED
        OBVIOUS
    <3>4. L + 2 - (n - 1) = first + 1 /\ first >= 2 /\ first <= L + 1
      <4> HIDE DEF T
      <4> QED
        BY <2>4, <3>3
    <3>5. h = [i \in (first + 1)..(L + 2) |-> Reads(text, h, i)]
      BY <3>2, <3>4
    <3> DEFINE g == [i \in first..(L + 2) |-> IF i = first THEN Reads(text, h, i) ELSE h[i]]
    <3>6. ASSUME NEW i \in first..(L + 2)
          PROVE  g[i] = Reads(text, h, i)
      <4>1. CASE i = first
        BY <4>1
      <4>2. CASE i # first
        <5>1. i \in (first + 1)..(L + 2)
          BY <3>4, <4>2
        <5>2. h[i] = Reads(text, h, i)
          <6> HIDE DEF g, L
          <6> QED
            BY <3>5, <5>1
        <5> QED
          BY <4>2, <5>2
      <4> QED
        BY <4>1, <4>2
    <3>7. \A i \in (first + 1)..(L + 2) : g[i] = h[i]
      BY <3>4
    <3>8. g = [i \in first..(L + 2) |-> g[i]]
      OBVIOUS
    <3> HIDE DEF g
    <3>9. \A i \in first..(L + 2) : Reads(text, g, i) = Reads(text, h, i)
      <4> SUFFICES ASSUME NEW i \in first..(L + 2)
                   PROVE  Reads(text, g, i) = Reads(text, h, i)
        OBVIOUS
      <4>1. i \in Nat
        OBVIOUS
      <4>2. i <= Len(text) => g[i + 1] = h[i + 1]
        BY <3>4, <3>7
      <4>3. i < Len(text) => g[i + 2] = h[i + 2]
        BY <3>4, <3>7
      <4> QED
        BY <4>1, <4>2, <4>3, ReadsAhead
    <3>10. g = [i \in first..(L + 2) |-> Reads(text, g, i)]
      BY <3>6, <3>8, <3>9
    <3>11. Unfolds(g, n)
      BY <3>3, <3>10
    <3> QED
      BY <2>2, <3>11
  <2> QED
    BY <2>3, <2>4
<1>2. L \in 0..L /\ L + 2 - L = 2
  OBVIOUS
<1>3. \E g : Unfolds(g, L)
  BY <1>1, <1>2
<1> QED
  BY <1>2, <1>3

(* A sequence from place k on is the element there and the sequence from    *)
(* the next place on.                                                       *)
LEMMA OneMore ==
  ASSUME NEW S, NEW s \in Seq(S), NEW k \in 1..Len(s)
  PROVE  << s[k] >> \o SubSeq(s, k + 1, Len(s)) = SubSeq(s, k, Len(s))
<1> DEFINE m == Len(s)
<1>1. m \in Nat /\ k \in Nat /\ k <= m /\ k >= 1
  BY LenProperties
<1>2. s[k] \in S
  BY ElementOfSeq
<1>3. PICK h : h = << s[k] >>
  OBVIOUS
<1>4. h \in Seq(S) /\ Len(h) = 1 /\ h[1] = s[k]
  BY <1>2, <1>3
<1> HIDE DEF m
<1>5. /\ SubSeq(s, k, m) \in Seq(S) /\ Len(SubSeq(s, k, m)) = m - k + 1
      /\ \A i \in 1..(m - k + 1) : SubSeq(s, k, m)[i] = s[k + i - 1]
  <2>1. \A i \in k..m : s[i] \in S
    BY <1>1, ElementOfSeq DEF m
  <2> QED
    BY <1>1, <2>1, SubSeqProperties
<1>6. /\ SubSeq(s, k + 1, m) \in Seq(S) /\ Len(SubSeq(s, k + 1, m)) = m - k
      /\ \A i \in 1..(m - k) : SubSeq(s, k + 1, m)[i] = s[k + i]
  <2>1. \A i \in (k + 1)..m : s[i] \in S
    BY <1>1, ElementOfSeq DEF m
  <2> QED
    BY <1>1, <2>1, SubSeqProperties
<1>7. PICK t, u : t = SubSeq(s, k + 1, m) /\ u = SubSeq(s, k, m)
  OBVIOUS
<1>8. /\ h \o t \in Seq(S) /\ Len(h \o t) = m - k + 1
      /\ (h \o t)[1] = s[k] /\ \A i \in 2..(m - k + 1) : (h \o t)[i] = s[k + i - 1]
  <2>0. t \in Seq(S) /\ Len(t) = m - k
    BY <1>6, <1>7
  <2>1. /\ h \o t \in Seq(S) /\ Len(h \o t) = 1 + (m - k)
        /\ \A i \in 1..(1 + (m - k)) : (h \o t)[i] = IF i <= 1 THEN h[i] ELSE t[i - 1]
    <3>1. /\ h \o t \in Seq(S) /\ Len(h \o t) = Len(h) + Len(t)
          /\ \A i \in 1..(Len(h) + Len(t)) :
               (h \o t)[i] = IF i <= Len(h) THEN h[i] ELSE t[i - Len(h)]
      BY <1>4, <2>0, ConcatProperties
    <3> QED
      BY <1>1, <1>4, <2>0, <3>1
  <2>2. (h \o t)[1] = h[1]
    BY <1>1, <2>1
  <2>3. ASSUME NEW i \in 2..(m - k + 1) PROVE (h \o t)[i] = s[k + i - 1]
    <3>1. (h \o t)[i] = t[i - 1] /\ i - 1 \in 1..(m - k)
      BY <1>1, <2>1
    <3>2. t[i - 1] = s[k + (i - 1)]
      BY <1>6, <1>7, <3>1
    <3>3. k + (i - 1) = k + i - 1
      BY <1>1
    <3> QED
      BY <3>1, <3>2, <3>3
  <2> QED
    BY <1>1, <1>4, <2>1, <2>2, <2>3
<1>9. \A i \in 1..Len(u) : (h \o t)[i] = u[i]
  <2> SUFFICES ASSUME NEW i \in 1..Len(u) PROVE (h \o t)[i] = u[i]
    OBVIOUS
  <2>1. CASE i = 1
    <3>1. u[1] = s[k + 1 - 1] /\ k + 1 - 1 = k
      BY <1>1, <1>5, <1>7
    <3> QED
      BY <1>8, <2>1, <3>1
  <2>2. CASE i # 1
    <3>1. i \in 1..(m - k + 1) /\ i \in 2..(m - k + 1)
      BY <1>1, <1>5, <1>7, <2>2
    <3> QED
      BY <1>5, <1>7, <1>8, <3>1
  <2> QED
    BY <2>1, <2>2
<1>10. h \o t = u
  BY <1>5, <1>7, <1>8, <1>9, SeqEqual
<1> QED
  BY <1>3, <1>7, <1>10 DEF m

(* The server reads the name that was escaped: every quote that is doubled  *)
(* is read as one, and none ends the name before its time.                  *)
LEMMA QuotedReads ==
  ASSUME NEW S, Quote \in S, NEW name \in Seq(S), name # <<>>
  PROVE  LET text == << Quote >> \o FlattenSeq([i \in 1..Len(name) |-> Doubled(name[i])])
                                \o << Quote >>
         IN  text[1] = Quote /\ Quoted(text) = {name}
<1> DEFINE m == Len(name)
           pieces == [i \in 1..m |-> Doubled(name[i])]
           flat == FlattenSeq(pieces)
<1>1. m \in Nat /\ m > 0
  <2>1. m \in Nat \ {0}
    BY EmptySeq
  <2> QED
    BY <2>1
<1>2. \A c \in S : Doubled(c) \in Seq(S)
  <2>1. ASSUME NEW c \in S
        PROVE  << c >> \in Seq(S) /\ << c, c >> \in Seq(S)
    OBVIOUS
  <2> QED
    BY <2>1 DEF Doubled
<1>3. pieces \in Seq(Seq(S)) /\ Len(pieces) = m /\ pieces # <<>>
  <2>1. \A i \in 1..m : name[i] \in S
    BY ElementOfSeq
  <2>2. pieces \in [1..m -> Seq(S)]
    <3> HIDE DEF m
    <3> QED
      BY <1>2, <2>1
  <2> HIDE DEF pieces, m
  <2> QED
    BY <1>1, <2>2
<1>4. \A k \in 1..m : pieces[k] = Doubled(name[k])
  OBVIOUS
<1> HIDE DEF pieces, m
<1>5. flat \in Seq(S)
  BY <1>3, FlattenPieces
<1>17. PICK ends : Pieces(pieces, flat, ends)
  BY <1>3, FlattenPieces
<1>6. /\ ends \in [0..m -> Nat] /\ ends[0] = 0 /\ ends[m] = Len(flat)
      /\ \A k \in 1..m :
           /\ ends[k] = ends[k - 1] + Len(pieces[k])
           /\ ends[k] <= Len(flat)
           /\ \A j \in 1..Len(pieces[k]) : flat[ends[k - 1] + j] = pieces[k][j]
  BY <1>3, <1>17 DEF Pieces
<1> HIDE DEF flat
<1> DEFINE text == << Quote >> \o flat \o << Quote >>
<1>7. /\ Len(flat) \in Nat /\ Len(text) = Len(flat) + 2
      /\ text[1] = Quote /\ text[Len(flat) + 2] = Quote
      /\ \A j \in 1..Len(flat) : text[j + 1] = flat[j]
  <2>1. ASSUME NEW c \in S
        PROVE  << c >> \in Seq(S) /\ Len(<< c >>) = 1 /\ << c >>[1] = c
    OBVIOUS
  <2>2. PICK q : /\ q = << Quote >>
                 /\ q \in Seq(S) /\ Len(q) = 1 /\ q[1] = Quote
    BY <2>1
  <2>3. /\ q \o flat \in Seq(S) /\ Len(flat) \in Nat /\ Len(q \o flat) = 1 + Len(flat)
        /\ (q \o flat)[1] = Quote /\ \A j \in 1..Len(flat) : (q \o flat)[j + 1] = flat[j]
    BY <1>5, <2>2, ConcatProperties
  <2>4. PICK s : s = q \o flat
    OBVIOUS
  <2>5. /\ Len(s \o q) = 2 + Len(flat)
        /\ \A j \in 1..(1 + Len(flat)) : (s \o q)[j] = s[j]
        /\ (s \o q)[Len(flat) + 2] = Quote
    BY <2>2, <2>3, <2>4, ConcatProperties
  <2>6. text = s \o q
    BY <2>2, <2>4
  <2> HIDE DEF text
  <2> QED
    BY <2>3, <2>4, <2>5, <2>6
<1> HIDE DEF text
<1> DEFINE rest[i \in 2..(Len(text) + 2)] == Reads(text, rest, i)
<1>0. Len(text) \in Nat
  BY <1>7
<1>8. Quoted(text) = rest[2]
  BY DEF Quoted, Reads
<1>9. rest = [i \in 2..(Len(text) + 2) |-> Reads(text, rest, i)]
  BY <1>0, QuotedFunction, Zenon
<1>10. ASSUME NEW i \in 2..(Len(text) + 2)
       PROVE  rest[i] = Reads(text, rest, i)
  <2> HIDE DEF rest
  <2> QED
    BY <1>9
<1> HIDE DEF rest
<1>11. rest[ends[m] + 2] = { SubSeq(name, m + 1, m) }
  <2>1. ends[m] + 2 = Len(text) /\ text[Len(text)] = Quote /\ Len(text) \in 2..(Len(text) + 2)
    BY <1>6, <1>7
  <2>2. Reads(text, rest, Len(text)) = { <<>> }
    BY <1>0, <2>1 DEF Reads
  <2>3. SubSeq(name, m + 1, m) = <<>>
    BY <1>1, SubSeqProperties DEF m
  <2> QED
    BY <1>10, <2>1, <2>2, <2>3
<1>12. ASSUME NEW k \in 1..m, rest[ends[k] + 2] = { SubSeq(name, k + 1, m) }
       PROVE  rest[ends[k - 1] + 2] = { SubSeq(name, k, m) }
  <2>1. PICK i \in Nat : i = ends[k - 1] + 2
    BY <1>1, <1>6
  <2>2. PICK c \in S : c = name[k]
    BY ElementOfSeq DEF m
  <2>3. pieces[k] = Doubled(c)
    BY <1>4, <2>2
  <2>4. /\ ends[k - 1] \in Nat /\ ends[k] = ends[k - 1] + Len(pieces[k])
        /\ ends[k] <= Len(flat)
        /\ \A j \in 1..Len(pieces[k]) : flat[ends[k - 1] + j] = pieces[k][j]
    BY <1>1, <1>6
  <2>5. << c >> \o SubSeq(name, k + 1, m) = SubSeq(name, k, m)
    BY <2>2, OneMore DEF m
  <2>8. PICK e \in Nat : e = ends[k - 1] /\ i = e + 2
    BY <2>1, <2>4
  <2>9. Len(flat) \in Nat /\ Len(text) = Len(flat) + 2
    BY <1>7
  <2>6. CASE c # Quote
    <3>1. Len(pieces[k]) = 1 /\ pieces[k][1] = c
      BY <2>3, <2>6 DEF Doubled
    <3>2. /\ i \in 2..(Len(text) + 2) /\ i <= Len(text)
          /\ ends[k] + 2 = i + 1 /\ text[i] = c
      <4>0. ends[k] = ends[k - 1] + 1
        BY <2>4, <3>1
      <4>1. ends[k - 1] + 1 \in 1..Len(flat) /\ flat[ends[k - 1] + 1] = c
        <5>1. ends[k - 1] + 1 \in 1..Len(flat)
          BY <1>7, <2>4, <3>1
        <5>2. 1 \in 1..Len(pieces[k])
          BY <3>1
        <5> QED
          BY <2>4, <3>1, <5>1, <5>2
      <4>2. text[ends[k - 1] + 1 + 1] = c
        BY <1>7, <4>1
      <4>3. ends[k - 1] + 1 + 1 = i /\ ends[k] + 2 = i + 1
        <5>1. e + 1 + 1 = i /\ e + 1 + 2 = i + 1
          BY <2>8
        <5> QED
          BY <2>8, <4>0, <5>1
      <4>4. i \in 2..(Len(text) + 2) /\ i <= Len(text)
        <5>1. e + 1 \in 1..Len(flat)
          BY <2>8, <4>1
        <5>2. \A a, f \in Nat : a + 1 \in 1..f =>
                a + 2 \in 2..(f + 2 + 2) /\ a + 2 <= f + 2
          OBVIOUS
        <5>3. e \in Nat /\ i = e + 2
          BY <2>8
        <5> QED
          BY <2>9, <5>1, <5>2, <5>3
      <4> QED
        BY <4>2, <4>3, <4>4
    <3>3. Reads(text, rest, i) = { << c >> \o s : s \in rest[i + 1] }
      BY <1>7, <2>6, <3>2 DEF Reads
    <3>4. rest[i + 1] = { SubSeq(name, k + 1, m) }
      BY <1>12, <3>2
    <3>5. PICK later : later = SubSeq(name, k + 1, m)
      OBVIOUS
    <3>6. { << c >> \o s : s \in {later} } = { << c >> \o later }
      BY Zenon
    <3> QED
      BY <1>10, <2>1, <2>5, <3>2, <3>3, <3>4, <3>5, <3>6
  <2>7. CASE c = Quote
    <3>1. Len(pieces[k]) = 2 /\ pieces[k][1] = Quote /\ pieces[k][2] = Quote
      BY <2>3, <2>7 DEF Doubled
    <3>2. /\ i \in 2..(Len(text) + 2) /\ i < Len(text)
          /\ ends[k] + 2 = i + 2 /\ text[i] = Quote /\ text[i + 1] = Quote
      <4>1. /\ ends[k - 1] + 1 \in 1..Len(flat) /\ flat[ends[k - 1] + 1] = Quote
            /\ ends[k - 1] + 2 \in 1..Len(flat) /\ flat[ends[k - 1] + 2] = Quote
        <5>0. e + 2 <= Len(flat)
          BY <2>4, <2>8, <3>1
        <5>1. /\ e + 1 \in 1..Len(flat) /\ e + 2 \in 1..Len(flat)
              /\ 1 \in 1..Len(pieces[k]) /\ 2 \in 1..Len(pieces[k])
          <6>1. e + 1 \in 1..Len(flat) /\ e + 2 \in 1..Len(flat)
            BY <2>8, <2>9, <5>0
          <6> QED
            BY <3>1, <6>1
        <5>2. flat[e + 1] = Quote /\ flat[e + 2] = Quote
          BY <2>4, <2>8, <3>1, <5>1
        <5> QED
          BY <2>8, <5>1, <5>2
      <4>2. text[ends[k - 1] + 1 + 1] = Quote /\ text[ends[k - 1] + 2 + 1] = Quote
        BY <1>7, <4>1
      <4>3. e + 1 + 1 = i /\ e + 2 + 1 = i + 1 /\ e + 2 + 2 = i + 2
        BY <2>8
      <4>4. ends[k] = e + 2
        BY <2>4, <2>8, <3>1
      <4>5. i \in 2..(Len(text) + 2) /\ i < Len(text)
        <5>1. e + 2 \in 1..Len(flat)
          BY <2>8, <4>1
        <5> QED
          BY <2>8, <2>9, <5>1
      <4> QED
        BY <2>8, <4>2, <4>3, <4>4, <4>5
    <3>3. Reads(text, rest, i) = { << c >> \o s : s \in rest[i + 2] }
      <4>1. ~(i > Len(text)) /\ i # Len(text)
        BY <1>0, <3>2
      <4> QED
        BY <2>7, <3>2, <4>1, Zenon DEF Reads
    <3>4. rest[i + 2] = { SubSeq(name, k + 1, m) }
      BY <1>12, <3>2
    <3>5. PICK later : later = SubSeq(name, k + 1, m)
      OBVIOUS
    <3>6. { << c >> \o s : s \in {later} } = { << c >> \o later }
      BY Zenon
    <3> QED
      BY <1>10, <2>1, <2>5, <3>2, <3>3, <3>4, <3>5, <3>6
  <2> QED
    BY <2>6, <2>7
<1> DEFINE T == { n \in 0..m : rest[ends[m - n] + 2] # { SubSeq(name, m - n + 1, m) } }
<1>13. T = {}
  <2> SUFFICES ASSUME T # {} PROVE FALSE
    OBVIOUS
  <2>0. T \subseteq Nat
    OBVIOUS
  <2>1. PICK n \in T : \A l \in T : n <= l
    <3> HIDE DEF T
    <3> QED
      BY <2>0, LeastNumber
  <2>2. n \in 0..m /\ rest[ends[m - n] + 2] # { SubSeq(name, m - n + 1, m) }
    OBVIOUS
  <2>3. n # 0
    <3>1. m - 0 = m
      BY <1>1
    <3> QED
      BY <1>11, <2>2, <3>1
  <2>4. n - 1 \in 0..m /\ n - 1 \notin T
    <3> HIDE DEF T
    <3> QED
      BY <1>1, <2>1, <2>2, <2>3
  <2>5. PICK k \in 1..m : k = m - n + 1
    BY <1>1, <2>2, <2>3
  <2>6. m - (n - 1) = k /\ m - n = k - 1
    BY <1>1, <2>2, <2>5
  <2>7. rest[ends[k] + 2] = { SubSeq(name, k + 1, m) }
    BY <2>4, <2>6
  <2> HIDE DEF T
  <2>8. rest[ends[k - 1] + 2] = { SubSeq(name, k, m) }
    BY <1>12, <2>7
  <2> QED
    BY <2>2, <2>5, <2>6, <2>8
<1>14. rest[ends[0] + 2] = { SubSeq(name, 1, m) }
  <2>1. m \in 0..m /\ m - m = 0 /\ 0 + 1 = 1
    BY <1>1
  <2>2. rest[ends[m - m] + 2] = { SubSeq(name, m - m + 1, m) }
    BY <1>13, <2>1
  <2> QED
    BY <2>1, <2>2
<1>15. SubSeq(name, 1, m) = name
  <2>1. /\ SubSeq(name, 1, m) \in Seq(S) /\ Len(SubSeq(name, 1, m)) = m
        /\ \A i \in 1..m : SubSeq(name, 1, m)[i] = name[i]
    <3>1. \A i \in 1..m : name[i] \in S
      BY ElementOfSeq DEF m
    <3> QED
      BY <1>1, <3>1, SubSeqProperties
  <2> QED
    BY <2>1, SeqEqual DEF m
<1>16. Quoted(text) = {name}
  <2>1. ends[0] + 2 = 2
    BY <1>6
  <2> QED
    BY <1>8, <1>14, <1>15, <2>1
<1> QED
  BY <1>7, <1>16 DEF text, flat, pieces, m

-----------------------------------------------------------------------------
(* The words that the server does not take for a name. *)
ReservedIdent(name) == ValidIdent(name) /\ name \in Reserved

(* What the server reads of an escaped name is that name, or a reserved     *)
(* word.                                                                    *)
LEMMA KeysOfName ==
  ASSUME NEW name \in Names
  PROVE  Keys(name) = IF ReservedIdent(name) THEN {} ELSE {name}
<1> DEFINE S == STRING \cup {Quote}
<1>1. /\ name \in Seq(S) /\ name # <<>> /\ Quote \in S
      /\ Len(name) \in Nat /\ Len(name) > 0
      /\ name = [i \in 1..Len(name) |-> name[i]]
  <2>1. name \in Seq(STRING) /\ name # <<>>
    BY NamesAssumption
  <2>2. Len(name) \in Nat \ {0} /\ name \in [1..Len(name) -> STRING]
    BY <2>1, EmptySeq, LenProperties
  <2>3. name \in [1..Len(name) -> S]
    BY <2>2
  <2> HIDE DEF S
  <2>4. name \in Seq(S)
    BY <2>2, <2>3
  <2> QED
    BY <2>1, <2>2, <2>4 DEF S
<1> HIDE DEF S
<1>2. CASE ValidIdent(name)
  <2>1. Escaped(name) = name
    BY <1>2 DEF Escaped
  <2>2. name[1] # Quote
    BY <1>2 DEF ValidIdent, Lower, Quote
  <2>3. \A i \in 1..Len(name) : name[i] \in ValidRest
    BY <1>2 DEF ValidIdent
  <2>4. Folded(name) = name
    <3>1. \A i \in 1..Len(name) : name[i] # "A"
      BY <2>3 DEF ValidRest, Lower
    <3>2. [i \in 1..Len(name) |-> IF name[i] = "A" THEN "a" ELSE name[i]]
            = [i \in 1..Len(name) |-> name[i]]
      BY <3>1
    <3> QED
      BY <1>1, <3>2 DEF Folded
  <2>5. Keys(name) = Unquoted(name)
    BY <2>1, <2>2 DEF Keys, ServerReads
  <2>6. Unquoted(name) = IF name \in Reserved THEN {} ELSE {name}
    BY <2>3, <2>4 DEF Unquoted
  <2> QED
    BY <1>2, <2>5, <2>6 DEF ReservedIdent
<1>3. CASE ~ValidIdent(name)
  <2>1. PICK text : text = << Quote >> \o FlattenSeq([i \in 1..Len(name) |-> Doubled(name[i])])
                              \o << Quote >>
    OBVIOUS
  <2>2. Escaped(name) = text
    BY <1>3, <2>1 DEF Escaped
  <2>3. text[1] = Quote /\ Quoted(text) = {name}
    BY <1>1, <2>1, QuotedReads
  <2> QED
    BY <1>3, <2>2, <2>3 DEF Keys, ServerReads, ReservedIdent
<1> QED
  BY <1>2, <1>3

-----------------------------------------------------------------------------
(* What "me" knows of a name is so: there is no table of a name that it     *)
(* knows to be absent, and under a name that is its own there is its table. *)
KnownInv ==
  \A n \in used :
    /\ expect[n] # "unknown" => ~ReservedIdent(n)
    /\ expect[n] = "absent" => \A o \in catalog : o.name = n => ~IsTable(o) /\ db = "mysql"
    /\ expect[n] = "mine" => [name |-> n, owner |-> "me"] \in catalog

IInv ==
  /\ TypeOK
  /\ KnownInv
  /\ SessionAgrees
  /\ ErrorsExplained

(* The object of a name, if there is one. *)
LEMMA ObjectsOf ==
  ASSUME TypeOK, NEW name
  PROVE  /\ \A o \in Objects(name) : o \in catalog /\ o.name = name
         /\ \A o, p \in Objects(name) : o = p
BY DEF TypeOK, Objects

LEMMA LearnType ==
  ASSUME TypeOK, NEW c \in Clients, NEW name \in used, NEW fact \in {"absent", "mine"},
         Learn(c, name, fact)
  PROVE  expect' \in [used -> {"unknown", "absent", "mine"}]
BY DEF TypeOK, Learn

(* A step that creates or drops nothing but an object of a name, and        *)
(* forgets or learns of no other, keeps what is known of the others.        *)
LEMMA KnownOthers ==
  ASSUME TypeOK, KnownInv, UNCHANGED << db, used >>, NEW name \in used,
         \A o \in (catalog \ catalog') \cup (catalog' \ catalog) : o.name = name,
         NEW n \in used, n # name, expect'[n] \in {"unknown", expect[n]}
  PROVE  /\ expect'[n] # "unknown" => ~ReservedIdent(n)
         /\ expect'[n] = "absent" => \A o \in catalog' : o.name = n => ~IsTable(o) /\ db = "mysql"
         /\ expect'[n] = "mine" => [name |-> n, owner |-> "me"] \in catalog'
<1>1. /\ expect[n] # "unknown" => ~ReservedIdent(n)
      /\ expect[n] = "absent" => \A o \in catalog : o.name = n => ~IsTable(o) /\ db = "mysql"
      /\ expect[n] = "mine" => [name |-> n, owner |-> "me"] \in catalog
  BY DEF KnownInv
<1>2. \A o : o.name = n => (o \in catalog <=> o \in catalog')
  OBVIOUS
<1>3. [name |-> n, owner |-> "me"].name = n
  OBVIOUS
<1> QED
  BY <1>1, <1>2, <1>3

LEMMA AnswerFields ==
  ASSUME NEW c, NEW op, NEW name, NEW result, NEW shown, Answer(c, op, name, result, shown)
  PROVE  /\ answer'.by = c /\ answer'.op = op /\ answer'.name = name
         /\ answer'.result = result /\ answer'.shown = shown /\ answer'.known = expect
BY DEF Answer

(* A call that changes neither the catalogue nor what is known. *)
LEMMA ReadingStep ==
  ASSUME TypeOK, KnownInv, UNCHANGED << db, used, catalog, expect >>,
         answer'.by \in Clients, answer'.result \in {"Ok", "TableExists", "TableNonexistent", "Connector"}
  PROVE  TypeOK' /\ KnownInv'
<1>1. TypeOK'
  BY DEF TypeOK
<1>2. KnownInv'
  BY DEF KnownInv, IsTable
<1> QED
  BY <1>1, <1>2

(* Nothing is known of a reserved word. *)
LEMMA ReservedUnknown ==
  ASSUME TypeOK, KnownInv, NEW name \in used, Keys(name) = {}
  PROVE  expect[name] = "unknown" /\ name \in Reserved
<1>1. ReservedIdent(name)
  BY KeysOfName DEF TypeOK
<1> QED
  BY <1>1 DEF KnownInv, ReservedIdent

(* table_create that succeeds. *)
LEMMA Creates ==
  ASSUME TypeOK, KnownInv, NEW c \in Clients, NEW name \in used,
         UNCHANGED << db, used >>,
         ~ReservedIdent(name), Objects(name) = {},
         catalog' = catalog \cup { [name |-> name, owner |-> c] },
         Answer(c, "create", name, "Ok", {}),
         Learn(c, name, "mine")
  PROVE  IInv'
<1>1. PICK new : new = [name |-> name, owner |-> c]
  OBVIOUS
<1>2. new.name = name /\ new.owner = c /\ c \in Owners /\ c # "view"
  BY <1>1 DEF Clients, Owners
<1>3. catalog' = catalog \cup {new} /\ \A o \in catalog : o.name # name
  BY <1>1 DEF Objects
<1>4. /\ answer'.by = c /\ answer'.op = "create" /\ answer'.name = name
      /\ answer'.result = "Ok" /\ answer'.known = expect
  BY AnswerFields
<1>5. TypeOK'
  <2>1. new \in [name : used, owner : Owners]
    BY <1>1, <1>2
  <2>2. expect' \in [used -> {"unknown", "absent", "mine"}]
    BY LearnType
  <2>3. \A o, p \in catalog' : o.name = p.name => o = p
    BY <1>2, <1>3 DEF TypeOK
  <2> QED
    BY <1>3, <1>4, <2>1, <2>2, <2>3 DEF TypeOK
<1>6. KnownInv'
  <2>1. \A o \in (catalog \ catalog') \cup (catalog' \ catalog) : o.name = name
    BY <1>2, <1>3
  <2>2. ASSUME NEW n \in used, n # name
        PROVE  expect'[n] \in {"unknown", expect[n]}
    BY <2>2 DEF Learn, TypeOK
  <2>3. ASSUME NEW n \in used, n # name
        PROVE  /\ expect'[n] # "unknown" => ~ReservedIdent(n)
               /\ expect'[n] = "absent" => \A o \in catalog' : o.name = n => ~IsTable(o) /\ db = "mysql"
               /\ expect'[n] = "mine" => [name |-> n, owner |-> "me"] \in catalog'
    BY <2>1, <2>2, <2>3, KnownOthers
  <2>4. /\ expect'[name] # "absent"
        /\ expect'[name] = "mine" => [name |-> name, owner |-> "me"] \in catalog'
    <3>1. CASE c = "me"
      BY <1>1, <1>3, <3>1 DEF Learn, TypeOK
    <3>2. CASE c # "me"
      <4>1. expect'[name] = "unknown"
        BY <1>2, <1>3, <3>2 DEF Learn
      <4> QED
        BY <4>1
    <3> QED
      BY <3>1, <3>2
  <2> QED
    BY <2>3, <2>4 DEF KnownInv, IsTable
<1>7. SessionAgrees'
  <2> SUFFICES ASSUME answer'.by = "me"
               PROVE  expect[name] # "mine"
    BY <1>4 DEF SessionAgrees
  <2> QED
    BY <1>3 DEF KnownInv
<1>8. ErrorsExplained'
  BY <1>4 DEF ErrorsExplained
<1> QED
  BY <1>5, <1>6, <1>7, <1>8 DEF IInv

LEMMA TableCreateStep ==
  ASSUME IInv, NEW c \in Clients, NEW name \in used, TableCreate(c, name)
  PROVE  IInv'
<1>0. /\ TypeOK /\ KnownInv /\ UNCHANGED << db, used >>
      /\ Keys(name) = IF ReservedIdent(name) THEN {} ELSE {name}
  BY KeysOfName DEF IInv, TypeOK, TableCreate
<1>1. CASE /\ ~ReservedIdent(name) /\ Objects(name) = {}
           /\ catalog' = catalog \cup { [name |-> name, owner |-> c] }
           /\ Answer(c, "create", name, "Ok", {})
           /\ Learn(c, name, "mine")
  BY <1>0, <1>1, Creates
<1>2. CASE /\ ~ReservedIdent(name)
           /\ \E o \in Objects(name) :
                Answer(c, "create", name,
                       IF IsTable(o) \/ db # "duckdb" THEN "TableExists" ELSE "Connector", {})
           /\ UNCHANGED << catalog, expect >>
  <2>1. PICK o \in catalog :
          /\ o.name = name
          /\ Answer(c, "create", name,
                    IF IsTable(o) \/ db # "duckdb" THEN "TableExists" ELSE "Connector", {})
    BY <1>2 DEF Objects
  <2>2. /\ answer'.by = c /\ answer'.op = "create" /\ answer'.name = name
        /\ answer'.result = IF IsTable(o) \/ db # "duckdb" THEN "TableExists" ELSE "Connector"
        /\ answer'.known = expect
    BY <2>1, AnswerFields
  <2>3. TypeOK' /\ KnownInv'
    BY <1>0, <1>2, <2>2, ReadingStep
  <2>4. expect[name] = "absent" => Misled(name)'
    BY <1>0, <1>2, <2>1 DEF KnownInv, Misled, IsTable
  <2>5. expect[name] = "mine" => IsTable(o)
    <3>1. [name |-> name, owner |-> "me"].name = name /\ IsTable([name |-> name, owner |-> "me"])
      BY DEF IsTable
    <3> QED
      BY <1>0, <2>1, <3>1 DEF KnownInv, TypeOK
  <2>6. SessionAgrees'
    BY <1>0, <2>2, <2>4, <2>5 DEF SessionAgrees
  <2>7. ErrorsExplained'
    BY <1>0, <1>2, <2>1, <2>2 DEF ErrorsExplained, IsTable
  <2> QED
    BY <2>3, <2>6, <2>7 DEF IInv
<1>3. CASE /\ Keys(name) = {}
           /\ Answer(c, "create", name, "Connector", {})
           /\ UNCHANGED << catalog, expect >>
  <2>1. /\ answer'.by = c /\ answer'.op = "create" /\ answer'.name = name
        /\ answer'.result = "Connector" /\ answer'.known = expect
    BY <1>3, AnswerFields
  <2>2. TypeOK' /\ KnownInv'
    BY <1>0, <1>3, <2>1, ReadingStep
  <2>3. expect[name] = "unknown" /\ name \in Reserved
    BY <1>0, <1>3, ReservedUnknown
  <2>4. SessionAgrees' /\ ErrorsExplained'
    BY <2>1, <2>3 DEF SessionAgrees, ErrorsExplained
  <2> QED
    BY <2>2, <2>4 DEF IInv
<1> QED
  BY <1>0, <1>1, <1>2, <1>3 DEF TableCreate

(* table_drop that succeeds. *)
LEMMA Drops ==
  ASSUME TypeOK, KnownInv, NEW c \in Clients, NEW name \in used,
         UNCHANGED << db, used >>,
         ~ReservedIdent(name),
         NEW o \in Objects(name), IsTable(o),
         catalog' = catalog \ {o},
         Answer(c, "drop", name, "Ok", {}),
         Learn(c, name, "absent")
  PROVE  IInv'
<1>1. o \in catalog /\ o.name = name /\ \A p \in catalog : p.name = name => p = o
  BY DEF Objects, TypeOK
<1>2. \A p \in catalog' : p \in catalog /\ p.name # name
  BY <1>1
<1>3. /\ answer'.by = c /\ answer'.op = "drop" /\ answer'.name = name
      /\ answer'.result = "Ok" /\ answer'.known = expect
  BY AnswerFields
<1>4. TypeOK'
  <2>1. expect' \in [used -> {"unknown", "absent", "mine"}]
    BY LearnType
  <2> QED
    BY <1>2, <1>3, <2>1 DEF TypeOK
<1>5. KnownInv'
  <2>1. \A p \in (catalog \ catalog') \cup (catalog' \ catalog) : p.name = name
    BY <1>1
  <2>2. ASSUME NEW n \in used, n # name
        PROVE  expect'[n] \in {"unknown", expect[n]}
    BY <2>2 DEF Learn, TypeOK
  <2>3. ASSUME NEW n \in used, n # name
        PROVE  /\ expect'[n] # "unknown" => ~ReservedIdent(n)
               /\ expect'[n] = "absent" => \A p \in catalog' : p.name = n => ~IsTable(p) /\ db = "mysql"
               /\ expect'[n] = "mine" => [name |-> n, owner |-> "me"] \in catalog'
    BY <2>1, <2>2, <2>3, KnownOthers
  <2>4. expect'[name] # "mine"
    <3>1. CASE c = "me"
      BY <3>1 DEF Learn, TypeOK
    <3>2. CASE c # "me"
      BY <1>1, <3>2 DEF Learn
    <3> QED
      BY <3>1, <3>2
  <2> QED
    BY <1>2, <2>3, <2>4 DEF KnownInv, IsTable
<1>6. SessionAgrees'
  <2>1. ASSUME expect[name] = "absent" PROVE FALSE
    BY <1>1, <2>1 DEF KnownInv
  <2> QED
    BY <1>3, <2>1 DEF SessionAgrees
<1>7. ErrorsExplained'
  BY <1>3 DEF ErrorsExplained
<1> QED
  BY <1>4, <1>5, <1>6, <1>7 DEF IInv

LEMMA TableDropStep ==
  ASSUME IInv, NEW c \in Clients, NEW name \in used, TableDrop(c, name)
  PROVE  IInv'
<1>0. /\ TypeOK /\ KnownInv /\ UNCHANGED << db, used >>
      /\ Keys(name) = IF ReservedIdent(name) THEN {} ELSE {name}
  BY KeysOfName DEF IInv, TypeOK, TableDrop
<1>1. CASE /\ ~ReservedIdent(name)
           /\ \E o \in Objects(name) :
                /\ IsTable(o)
                /\ catalog' = catalog \ {o}
                /\ Answer(c, "drop", name, "Ok", {})
                /\ Learn(c, name, "absent")
  BY <1>0, <1>1, Drops
<1>2. CASE /\ ~ReservedIdent(name)
           /\ \A o \in Objects(name) : ~IsTable(o)
           /\ UNCHANGED catalog
           /\ Answer(c, "drop", name, DropError(Objects(name)), {})
           /\ IF DropError(Objects(name)) = "TableNonexistent"
              THEN Learn(c, name, "absent") ELSE UNCHANGED expect
  <2>1. /\ answer'.by = c /\ answer'.op = "drop" /\ answer'.name = name
        /\ answer'.result = DropError(Objects(name))
        /\ answer'.known = expect
    BY <1>2, AnswerFields
  <2>2. \A o \in catalog : o.name = name => ~IsTable(o)
    BY <1>2 DEF Objects
  <2>3. /\ DropError(Objects(name)) \in {"TableNonexistent", "Connector"}
        /\ DropError(Objects(name)) = "TableNonexistent" =>
             \A o \in catalog : o.name = name => db = "mysql"
        /\ DropError(Objects(name)) = "Connector" => \E o \in catalog : o.name = name
    BY DEF DropError, Objects
  <2>4. TypeOK' /\ KnownInv'
    <3>1. CASE DropError(Objects(name)) = "Connector"
      BY <1>0, <1>2, <2>1, <3>1, ReadingStep
    <3>2. CASE DropError(Objects(name)) = "TableNonexistent" /\ c # "me"
      <4>1. expect' = [n \in used |-> expect[n]]
        BY <1>2, <3>2 DEF Learn
      <4>2. UNCHANGED expect
        BY <1>0, <4>1 DEF TypeOK
      <4> QED
        BY <1>0, <1>2, <2>1, <2>3, <4>2, ReadingStep
    <3>3. CASE DropError(Objects(name)) = "TableNonexistent" /\ c = "me"
      <4>1. expect' = [expect EXCEPT ![name] = "absent"]
        BY <1>2, <3>3 DEF Learn
      <4>2. TypeOK'
        BY <1>0, <1>2, <2>1, <2>3, <4>1 DEF TypeOK
      <4>3. ASSUME NEW n \in used
            PROVE  expect'[n] = IF n = name THEN "absent" ELSE expect[n]
        BY <1>0, <4>1 DEF TypeOK
      <4>4. KnownInv'
        <5>1. ASSUME NEW n \in used
              PROVE  /\ expect'[n] # "unknown" => ~ReservedIdent(n)
                     /\ expect'[n] = "absent" =>
                          \A o \in catalog : o.name = n => ~IsTable(o) /\ db = "mysql"
                     /\ expect'[n] = "mine" => [name |-> n, owner |-> "me"] \in catalog
          <6>1. CASE n = name
            BY <1>2, <2>2, <2>3, <3>3, <4>3, <6>1
          <6>2. CASE n # name
            BY <1>0, <4>3, <6>2 DEF KnownInv
          <6> QED
            BY <6>1, <6>2
        <5> QED
          BY <1>0, <1>2, <5>1 DEF KnownInv, IsTable
      <4> QED
        BY <4>2, <4>4
    <3> QED
      BY <2>3, <3>1, <3>2, <3>3
  <2>5. SessionAgrees'
    <3>1. expect[name] # "mine"
      <4>1. [name |-> name, owner |-> "me"].name = name /\ IsTable([name |-> name, owner |-> "me"])
        BY DEF IsTable
      <4> QED
        BY <1>0, <2>2, <4>1 DEF KnownInv
    <3>2. DropError(Objects(name)) = "Connector" /\ expect[name] = "absent" => Misled(name)'
      BY <1>0, <1>2, <2>2, <2>3 DEF KnownInv, Misled, IsTable
    <3> QED
      BY <1>0, <2>1, <2>3, <3>1, <3>2 DEF SessionAgrees
  <2>6. ErrorsExplained'
    BY <1>0, <1>2, <2>1, <2>2, <2>3 DEF ErrorsExplained, IsTable
  <2> QED
    BY <2>4, <2>5, <2>6 DEF IInv
<1>3. CASE /\ Keys(name) = {}
           /\ Answer(c, "drop", name, "Connector", {})
           /\ UNCHANGED << catalog, expect >>
  <2>1. /\ answer'.by = c /\ answer'.op = "drop" /\ answer'.name = name
        /\ answer'.result = "Connector" /\ answer'.known = expect
    BY <1>3, AnswerFields
  <2>2. TypeOK' /\ KnownInv'
    BY <1>0, <1>3, <2>1, ReadingStep
  <2>3. expect[name] = "unknown" /\ name \in Reserved
    BY <1>0, <1>3, ReservedUnknown
  <2>4. SessionAgrees' /\ ErrorsExplained'
    BY <2>1, <2>3 DEF SessionAgrees, ErrorsExplained
  <2> QED
    BY <2>2, <2>4 DEF IInv
<1> QED
  BY <1>0, <1>1, <1>2, <1>3 DEF TableDrop

(* What table_get and an appender find under a name that is known. *)
LEMMA KnownObject ==
  ASSUME TypeOK, KnownInv, NEW name \in used
  PROVE  /\ expect[name] = "mine" =>
              /\ [name |-> name, owner |-> "me"] \in Objects(name)
              /\ \A o \in Objects(name) : o = [name |-> name, owner |-> "me"]
         /\ expect[name] = "absent" => \A o \in Objects(name) : ~IsTable(o) /\ db = "mysql"
         /\ expect[name] # "unknown" => Keys(name) = {name}
<1>1. ASSUME expect[name] = "mine"
      PROVE  /\ [name |-> name, owner |-> "me"] \in Objects(name)
             /\ \A o \in Objects(name) : o = [name |-> name, owner |-> "me"]
  <2>1. PICK mine : mine = [name |-> name, owner |-> "me"]
    OBVIOUS
  <2>2. mine.name = name /\ mine \in catalog
    BY <1>1, <2>1 DEF KnownInv
  <2>3. mine \in Objects(name) /\ \A o \in Objects(name) : o = mine
    BY <2>2 DEF Objects, TypeOK
  <2> QED
    BY <2>1, <2>3
<1>2. expect[name] = "absent" => \A o \in Objects(name) : ~IsTable(o) /\ db = "mysql"
  BY DEF KnownInv, Objects
<1>3. expect[name] # "unknown" => Keys(name) = {name}
  BY KeysOfName DEF KnownInv, TypeOK
<1> QED
  BY <1>1, <1>2, <1>3

LEMMA TableGetStep ==
  ASSUME IInv, NEW c \in Clients, NEW name \in used, TableGet(c, name)
  PROVE  IInv'
<1>0. /\ TypeOK /\ KnownInv /\ UNCHANGED << db, used, catalog, expect >>
      /\ Keys(name) = IF ReservedIdent(name) THEN {} ELSE {name}
  BY KeysOfName DEF IInv, TypeOK, TableGet
<1>1. PICK result, shown : Answer(c, "get", name, result, shown)
  BY DEF TableGet
<1>2. /\ answer'.by = c /\ answer'.op = "get" /\ answer'.name = name
      /\ answer'.result = result /\ answer'.shown = shown /\ answer'.known = expect
  BY <1>1, AnswerFields
<1>3. CASE \E o \in Objects(name) : Answer(c, "get", name, "Ok", {o.owner})
  <2>1. PICK o \in Objects(name) : result = "Ok" /\ shown = {o.owner}
    <3>1. PICK o \in Objects(name) : Answer(c, "get", name, "Ok", {o.owner})
      BY <1>3
    <3>2. answer'.result = "Ok" /\ answer'.shown = {o.owner}
      BY <3>1, AnswerFields
    <3> QED
      BY <1>2, <3>2
  <2>2. TypeOK' /\ KnownInv'
    BY <1>0, <1>2, <2>1, ReadingStep
  <2>3. expect[name] = "mine" => shown = {"me"}
    <3>1. expect[name] = "mine" => o = [name |-> name, owner |-> "me"]
      BY <1>0, <2>1, KnownObject
    <3>2. [name |-> name, owner |-> "me"].owner = "me"
      OBVIOUS
    <3> QED
      BY <2>1, <3>1, <3>2
  <2>4. expect[name] = "absent" => Misled(name)'
    <3>1. expect[name] = "absent" => ~IsTable(o) /\ db = "mysql"
      BY <1>0, <2>1, KnownObject
    <3>2. o \in catalog /\ o.name = name
      BY <2>1 DEF Objects
    <3> QED
      BY <1>0, <3>1, <3>2 DEF Misled, IsTable
  <2>5. SessionAgrees'
    BY <1>0, <1>2, <2>1, <2>3, <2>4 DEF SessionAgrees
  <2>6. ErrorsExplained'
    BY <1>2, <2>1 DEF ErrorsExplained
  <2> QED
    BY <2>2, <2>5, <2>6 DEF IInv
<1>4. CASE /\ Objects(name) = {}
           /\ Answer(c, "get", name, IF db \in {"mysql", "duckdb"} THEN "Connector" ELSE "Ok", {})
  <2>1. result \in {"Connector", "Ok"} /\ shown = {}
    BY <1>2, <1>4, AnswerFields
  <2>2. TypeOK' /\ KnownInv'
    BY <1>0, <1>2, <2>1, ReadingStep
  <2>3. expect[name] # "mine"
    BY <1>0, <1>4, KnownObject
  <2>4. SessionAgrees'
    BY <1>0, <1>2, <2>1, <2>3 DEF SessionAgrees
  <2>5. ErrorsExplained'
    BY <1>0, <1>2, <1>4, <2>1 DEF ErrorsExplained, Objects
  <2> QED
    BY <2>2, <2>4, <2>5 DEF IInv
<1>5. CASE Keys(name) = {} /\ Answer(c, "get", name, "Connector", {})
  <2>1. result = "Connector"
    BY <1>2, <1>5, AnswerFields
  <2>2. TypeOK' /\ KnownInv'
    BY <1>0, <1>2, <2>1, ReadingStep
  <2>3. expect[name] = "unknown" /\ name \in Reserved
    BY <1>0, <1>5, ReservedUnknown
  <2>4. SessionAgrees' /\ ErrorsExplained'
    BY <1>2, <2>1, <2>3 DEF SessionAgrees, ErrorsExplained
  <2> QED
    BY <2>2, <2>4 DEF IInv
<1>6. GetKeys(name) \subseteq {name} /\ (GetKeys(name) = {} => Keys(name) = {})
  BY <1>0 DEF GetKeys
<1> QED
  BY <1>3, <1>4, <1>5, <1>6 DEF TableGet

LEMMA OpenAppenderStep ==
  ASSUME IInv, NEW c \in Clients, NEW name \in used, OpenAppender(c, name)
  PROVE  IInv'
<1>0. /\ TypeOK /\ KnownInv /\ UNCHANGED << db, used, catalog, expect >>
      /\ Keys(name) = IF ReservedIdent(name) THEN {} ELSE {name}
  BY KeysOfName DEF IInv, TypeOK, OpenAppender
<1>1. PICK result, shown : Answer(c, "append", name, result, shown)
  BY DEF OpenAppender
<1>2. /\ answer'.by = c /\ answer'.op = "append" /\ answer'.name = name
      /\ answer'.result = result /\ answer'.shown = shown /\ answer'.known = expect
  BY <1>1, AnswerFields
<1>3. CASE \E o \in Objects(name) : IsTable(o) /\ Answer(c, "append", name, "Ok", {o.owner})
  <2>1. PICK o \in Objects(name) : IsTable(o) /\ result = "Ok" /\ shown = {o.owner}
    <3>1. PICK o \in Objects(name) : IsTable(o) /\ Answer(c, "append", name, "Ok", {o.owner})
      BY <1>3
    <3>2. answer'.result = "Ok" /\ answer'.shown = {o.owner}
      BY <3>1, AnswerFields
    <3> QED
      BY <1>2, <3>1, <3>2
  <2>2. TypeOK' /\ KnownInv'
    BY <1>0, <1>2, <2>1, ReadingStep
  <2>3. expect[name] = "mine" => shown = {"me"}
    <3>1. expect[name] = "mine" => o = [name |-> name, owner |-> "me"]
      BY <1>0, <2>1, KnownObject
    <3>2. [name |-> name, owner |-> "me"].owner = "me"
      OBVIOUS
    <3> QED
      BY <2>1, <3>1, <3>2
  <2>4. expect[name] # "absent"
    BY <1>0, <2>1, KnownObject
  <2>5. SessionAgrees'
    BY <1>0, <1>2, <2>1, <2>3, <2>4 DEF SessionAgrees
  <2>6. ErrorsExplained'
    BY <1>2, <2>1 DEF ErrorsExplained
  <2> QED
    BY <2>2, <2>5, <2>6 DEF IInv
<1>4. CASE /\ \A key \in AppendKeys(name) : \A o \in Objects(key) : ~IsTable(o)
           /\ Answer(c, "append", name, "Connector", {})
  <2>1. result = "Connector"
    BY <1>2, <1>4, AnswerFields
  <2>2. TypeOK' /\ KnownInv'
    BY <1>0, <1>2, <2>1, ReadingStep
  <2>3. expect[name] # "unknown" => AppendKeys(name) = {name}
    BY <1>0, KnownObject DEF AppendKeys
  <2>4. expect[name] # "mine"
    <3>1. IsTable([name |-> name, owner |-> "me"])
      BY DEF IsTable
    <3> QED
      BY <1>0, <1>4, <2>3, <3>1, KnownObject
  <2>5. SessionAgrees'
    BY <1>0, <1>2, <2>1, <2>4 DEF SessionAgrees
  <2>6. CASE name \in Reserved
    BY <1>2, <2>1, <2>2, <2>5, <2>6 DEF IInv, ErrorsExplained
  <2>7. CASE name \notin Reserved
    <3>1. AppendKeys(name) = {name}
      BY <1>0, <2>7 DEF AppendKeys, ReservedIdent
    <3>2. \A o \in catalog : o.name = name => ~IsTable(o)
      BY <1>4, <3>1 DEF Objects
    <3>3. ErrorsExplained'
      BY <1>0, <1>2, <2>1, <3>2 DEF ErrorsExplained, IsTable
    <3> QED
      BY <2>2, <2>5, <3>3 DEF IInv
  <2> QED
    BY <2>6, <2>7
<1> QED
  BY <1>0, <1>3, <1>4 DEF OpenAppender, AppendKeys

LEMMA TableListStep ==
  ASSUME IInv, NEW c \in Clients, TableList(c)
  PROVE  IInv'
<1>0. TypeOK /\ KnownInv /\ UNCHANGED << db, used, catalog, expect >>
  BY DEF IInv, TableList
<1>1. /\ answer'.by = c /\ answer'.op = "list" /\ answer'.name = <<>>
      /\ answer'.result = "Ok" /\ answer'.shown = { o.name : o \in Listed }
      /\ answer'.known = expect
  BY AnswerFields DEF TableList
<1>2. TypeOK' /\ KnownInv'
  BY <1>0, <1>1, ReadingStep
<1>3. \A n \in used : n # <<>>
  BY <1>0, NamesAssumption DEF TypeOK
<1>4. ASSUME NEW n \in used, ~Misled(n)
      PROVE  /\ expect[n] = "absent" => n \notin answer'.shown
             /\ expect[n] = "mine" => n \in answer'.shown
  <2>1. ASSUME expect[n] = "absent", NEW o \in Listed, o.name = n
        PROVE  FALSE
    <3>1. o \in catalog
      BY DEF Listed
    <3>2. ~IsTable(o) /\ db = "mysql"
      BY <1>0, <2>1, <3>1 DEF KnownInv
    <3> QED
      BY <1>4, <2>1, <3>1, <3>2 DEF Misled
  <2>2. ASSUME expect[n] = "mine"
        PROVE  \E o \in Listed : o.name = n
    <3>1. PICK o : o = [name |-> n, owner |-> "me"]
      OBVIOUS
    <3>2. o \in catalog /\ o.name = n /\ IsTable(o)
      BY <1>0, <2>2, <3>1 DEF KnownInv, IsTable
    <3> QED
      BY <3>2 DEF Listed
  <2> QED
    BY <1>1, <2>1, <2>2
<1>5. SessionAgrees'
  BY <1>0, <1>1, <1>3, <1>4 DEF SessionAgrees, Misled, IsTable
<1>6. ErrorsExplained'
  BY <1>1 DEF ErrorsExplained
<1> QED
  BY <1>2, <1>5, <1>6 DEF IInv

(* What the environment does to the object of a name is not known. *)
LEMMA ForgetStep ==
  ASSUME TypeOK, KnownInv, NEW name \in used, Forget(name),
         catalog' \subseteq [name : used, owner : Owners],
         \A o, p \in catalog' : o.name = p.name => o = p,
         \A o \in (catalog \ catalog') \cup (catalog' \ catalog) : o.name = name
  PROVE  IInv'
<1>1. /\ UNCHANGED << db, used >>
      /\ expect' = [expect EXCEPT ![name] = "unknown"]
      /\ answer'.by = "nobody" /\ answer'.result = "none"
  BY DEF Forget, NoAnswer
<1>2. TypeOK'
  BY <1>1 DEF TypeOK
<1>3. expect'[name] = "unknown" /\ \A n \in used : n # name => expect'[n] = expect[n]
  BY <1>1 DEF TypeOK
<1>4. ASSUME NEW n \in used, n # name
      PROVE  /\ expect'[n] # "unknown" => ~ReservedIdent(n)
             /\ expect'[n] = "absent" => \A o \in catalog' : o.name = n => ~IsTable(o) /\ db = "mysql"
             /\ expect'[n] = "mine" => [name |-> n, owner |-> "me"] \in catalog'
  BY <1>1, <1>3, <1>4, KnownOthers
<1>5. KnownInv'
  BY <1>1, <1>3, <1>4 DEF KnownInv, IsTable
<1>6. SessionAgrees' /\ ErrorsExplained'
  BY <1>1 DEF SessionAgrees, ErrorsExplained
<1> QED
  BY <1>2, <1>5, <1>6 DEF IInv

(* An object that is added where there is none, or one that is removed.     *)
LEMMA OneObject ==
  ASSUME TypeOK, NEW name \in used, NEW owner \in Owners,
         \/ UNCHANGED catalog
         \/ Objects(name) = {} /\ catalog' = catalog \cup { [name |-> name, owner |-> owner] }
         \/ \E o \in Objects(name) : catalog' = catalog \ {o}
  PROVE  /\ catalog' \subseteq [name : used, owner : Owners]
         /\ \A o, p \in catalog' : o.name = p.name => o = p
         /\ \A o \in (catalog \ catalog') \cup (catalog' \ catalog) : o.name = name
<1>1. CASE UNCHANGED catalog
  BY <1>1 DEF TypeOK
<1>2. CASE Objects(name) = {} /\ catalog' = catalog \cup { [name |-> name, owner |-> owner] }
  <2>1. PICK new \in [name : used, owner : Owners] : new = [name |-> name, owner |-> owner]
    OBVIOUS
  <2>2. new.name = name /\ catalog' = catalog \cup {new}
    BY <1>2, <2>1
  <2>3. \A o \in catalog : o.name # name
    BY <1>2 DEF Objects
  <2> QED
    BY <2>2, <2>3 DEF TypeOK
<1>3. CASE \E o \in Objects(name) : catalog' = catalog \ {o}
  BY <1>3 DEF TypeOK, Objects
<1> QED
  BY <1>1, <1>2, <1>3

LEMMA CreateViewStep ==
  ASSUME IInv, NEW name \in used, CreateView(name)
  PROVE  IInv'
<1>1. TypeOK /\ KnownInv /\ Forget(name) /\ "view" \in Owners
  BY DEF IInv, CreateView, Owners
<1>2. Objects(name) = {} /\ catalog' = catalog \cup { [name |-> name, owner |-> "view"] }
  BY DEF CreateView
<1> QED
  BY <1>1, <1>2, OneObject, ForgetStep

LEMMA DropViewStep ==
  ASSUME IInv, NEW name \in used, DropView(name)
  PROVE  IInv'
<1>1. TypeOK /\ KnownInv /\ Forget(name) /\ "view" \in Owners
  BY DEF IInv, DropView, Owners
<1>2. PICK o : o = [name |-> name, owner |-> "view"]
  OBVIOUS
<1>3. o.name = name /\ o \in catalog /\ catalog' = catalog \ {o}
  BY <1>2 DEF DropView
<1>4. \E p \in Objects(name) : catalog' = catalog \ {p}
  BY <1>3 DEF Objects
<1> QED
  BY <1>1, <1>4, OneObject, ForgetStep

LEMMA AnswerLostStep ==
  ASSUME IInv, NEW c \in Clients, NEW name \in used, AnswerLost(c, name)
  PROVE  IInv'
<1>1. TypeOK /\ KnownInv /\ Forget(name) /\ c \in Owners
  BY DEF IInv, AnswerLost, Owners
<1>2. Keys(name) \subseteq {name}
  BY <1>1, KeysOfName DEF TypeOK
<1>3. \/ UNCHANGED catalog
      \/ Objects(name) = {} /\ catalog' = catalog \cup { [name |-> name, owner |-> c] }
      \/ \E o \in Objects(name) : catalog' = catalog \ {o}
  BY <1>2 DEF AnswerLost
<1> QED
  BY <1>1, <1>3, OneObject, ForgetStep

-----------------------------------------------------------------------------
LEMMA InitStep ==
  ASSUME Init
  PROVE  IInv
<1>1. /\ catalog = {} /\ expect = [n \in used |-> "unknown"]
      /\ answer.by = "nobody" /\ answer.result = "none"
  BY DEF Init, NoAnswer
<1>2. db \in Dbs /\ used \subseteq Names
  BY DEF Init
<1> QED
  BY <1>1, <1>2 DEF IInv, TypeOK, KnownInv, SessionAgrees, ErrorsExplained

LEMMA StutterStep ==
  ASSUME IInv, UNCHANGED vars
  PROVE  IInv'
BY DEF IInv, vars, TypeOK, KnownInv, SessionAgrees, ErrorsExplained, Misled, IsTable

(* The inductive invariant, for all names: what "me" knows of a name is so. *)
THEOREM Correct == Spec => []IInv
<1>1. Init => IInv
  BY InitStep
<1>2. IInv /\ [Next]_vars => IInv'
  BY TableCreateStep, TableDropStep, TableGetStep, OpenAppenderStep, TableListStep,
     CreateViewStep, DropViewStep, AnswerLostStep, StutterStep DEF Next
<1> QED
  BY <1>1, <1>2, PTL DEF Spec

(* The variables keep their types, and there is one object of a name. *)
THEOREM TypeCorrect == Spec => []TypeOK
<1>1. IInv => TypeOK
  BY DEF IInv
<1> QED
  BY <1>1, Correct, PTL

(* The calls of a client agree with each other over a name that nobody else *)
(* touches, whatever characters are in it.                                  *)
THEOREM SessionAlwaysAgrees == Spec => []SessionAgrees
<1>1. IInv => SessionAgrees
  BY DEF IInv
<1> QED
  BY <1>1, Correct, PTL

(* table_create, table_drop, table_get and append return the errors that    *)
(* api.rs has for their reasons, and none without a reason.                 *)
THEOREM ErrorsAreExplained == Spec => []ErrorsExplained
<1>1. IInv => ErrorsExplained
  BY DEF IInv
<1> QED
  BY <1>1, Correct, PTL

(* A call creates and drops the table of its very name: no name is folded,  *)
(* split or cut off on its way through the escaping and the server's lexer. *)
THEOREM NoOtherTable == Spec => OnlyThatTable
<1>1. IInv /\ [Next]_vars =>
        [answer'.by \in Clients =>
           \A o \in (catalog \ catalog') \cup (catalog' \ catalog) :
             o.name = answer'.name /\ IsTable(o)]_vars
  <2> SUFFICES ASSUME IInv, [Next]_vars, answer'.by \in Clients
               PROVE  \/ \A o \in (catalog \ catalog') \cup (catalog' \ catalog) :
                           o.name = answer'.name /\ IsTable(o)
                      \/ UNCHANGED vars
    OBVIOUS
  <2>1. ASSUME NEW c \in Clients, NEW name \in used, TableCreate(c, name)
        PROVE  \A o \in (catalog \ catalog') \cup (catalog' \ catalog) :
                 o.name = answer'.name /\ IsTable(o)
    <3>1. Keys(name) \subseteq {name}
      BY KeysOfName DEF IInv, TypeOK
    <3>2. answer'.name = name
      BY <2>1, AnswerFields DEF TableCreate
    <3>3. PICK new : new = [name |-> name, owner |-> c]
      OBVIOUS
    <3>4. new.name = name /\ IsTable(new)
      BY <3>3 DEF IsTable, Clients
    <3>5. UNCHANGED catalog \/ catalog' = catalog \cup {new}
      BY <2>1, <3>1, <3>3 DEF TableCreate
    <3> QED
      BY <3>2, <3>4, <3>5
  <2>2. ASSUME NEW c \in Clients, NEW name \in used, TableDrop(c, name)
        PROVE  \A o \in (catalog \ catalog') \cup (catalog' \ catalog) :
                 o.name = answer'.name /\ IsTable(o)
    <3>1. Keys(name) \subseteq {name}
      BY KeysOfName DEF IInv, TypeOK
    <3>2. answer'.name = name
      BY <2>2, AnswerFields DEF TableDrop
    <3>3. \/ UNCHANGED catalog
          \/ \E o \in Objects(name) : IsTable(o) /\ catalog' = catalog \ {o}
      BY <2>2, <3>1 DEF TableDrop
    <3> QED
      BY <3>2, <3>3 DEF Objects
  <2>3. ASSUME NEW c \in Clients,
               (\E name \in used : TableGet(c, name) \/ OpenAppender(c, name)) \/ TableList(c)
        PROVE  UNCHANGED catalog
    BY <2>3 DEF TableGet, OpenAppender, TableList
  <2>4. ASSUME NEW name \in used,
               (\E c \in Clients : AnswerLost(c, name)) \/ CreateView(name) \/ DropView(name)
        PROVE  FALSE
    BY <2>4 DEF AnswerLost, CreateView, DropView, Forget, NoAnswer, Clients
  <2>5. UNCHANGED catalog =>
          \A o \in (catalog \ catalog') \cup (catalog' \ catalog) :
            o.name = answer'.name /\ IsTable(o)
    OBVIOUS
  <2> QED
    BY <2>1, <2>2, <2>3, <2>4, <2>5 DEF Next
<1> QED
  BY <1>1, Correct, PTL DEF Spec, OnlyThatTable
=============================================================================
