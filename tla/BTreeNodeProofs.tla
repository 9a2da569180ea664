------------------------- MODULE BTreeNodeProofs -------------------------
(***************************************************************************)
(* Proofs about module BTreeNode, for every set of keys, every length of   *)
(* key and of node, and any number of records and nodes.                   *)
(***************************************************************************)
EXTENDS BTreeNode, NatFacts, FiniteSetTheorems, SequenceTheorems, TLAPS

Record == [key : Key \cup {First}, child : Nat]

(* A record fits into half a node. *)
LEMMA RecordLen ==
  ASSUME NEW level, NEW k \in Key \cup {First}
  PROVE  record_len(level, k) \in Nat /\ NodeHeader + record_len(level, k) <= NodeSize \div 2
<1>1. /\ KeyLen[k] \in Nat /\ NodeHeader + KeyLen[k] + LeafLen <= NodeSize \div 2
      /\ LeafLen \in Nat /\ IndexLen \in Nat /\ IndexLen <= LeafLen
      /\ NodeSize \in Nat /\ NodeHeader \in Nat
  BY NodeConstants, ShortRecords
<1> QED BY <1>1 DEF record_len

(* The records of a node have keys, and lengths. *)
LEMMA RecsLen ==
  ASSUME NEW level, NEW recs \in Seq(Record)
  PROVE  /\ Len(recs) \in Nat
         /\ \A i \in 1 .. Len(recs) : recs[i].key \in Key \cup {First}
         /\ \A i \in 1 .. Len(recs) : record_len(level, recs[i].key) \in Nat
<1>1. Len(recs) \in Nat
  BY LenProperties
<1>2. \A i \in 1 .. Len(recs) : recs[i] \in Record
  BY ElementOfSeq
<1>3. \A i \in 1 .. Len(recs) : recs[i].key \in Key \cup {First}
  BY <1>2 DEF Record
<1>4. \A i \in 1 .. Len(recs) : record_len(level, recs[i].key) \in Nat
  BY <1>3, RecordLen
<1> QED BY <1>1, <1>3, <1>4

--------------------------------------------------------------------------
(* The space records use is a sum, defined by recursion. *)
Step(h, level, recs, i) == IF i = 0 THEN 0 ELSE h[i - 1] + record_len(level, recs[i].key)
IsSum(h, level, recs)   == h = [i \in 0 .. Len(recs) |-> Step(h, level, recs, i)]
SumOf(level, recs)      == CHOOSE h : IsSum(h, level, recs)

(* used_space() in these terms. *)
LEMMA UsedIsSum ==
  ASSUME NEW level, NEW recs
  PROVE  used_space(level, recs) = SumOf(level, recs)[Len(recs)]
  BY DEF used_space, SumOf, IsSum, Step

(* There is such a sum: one for the first n records, for every n. *)
LEMMA SumExists ==
  ASSUME NEW level, NEW recs \in Seq(Record)
  PROVE  \E h \in [0 .. Len(recs) -> Nat] : IsSum(h, level, recs)
<1> DEFINE D == 0 .. Len(recs)
           Upto(h, n) == \A i \in D : i <= n => h[i] = Step(h, level, recs, i)
           P == {n \in Nat : \E h \in [D -> Nat] : Upto(h, n)}
<1>0. Len(recs) \in Nat /\ \A i \in 1 .. Len(recs) : record_len(level, recs[i].key) \in Nat
  BY RecsLen
<1>1. 0 \in P
  <2>1. [i \in D |-> 0] \in [D -> Nat] /\ Upto([i \in D |-> 0], 0)
    BY <1>0 DEF Step
  <2> QED BY <2>1
<1>2. ASSUME NEW n \in Nat, n \in P PROVE n + 1 \in P
  <2>1. PICK h \in [D -> Nat] : Upto(h, n)
    BY <1>2
  <2> DEFINE k == [i \in D |-> IF i <= n THEN h[i] ELSE Step(h, level, recs, i)]
  <2>2. ASSUME NEW i \in D
        PROVE  /\ Step(h, level, recs, i) \in Nat
               /\ i <= n + 1 => Step(k, level, recs, i) = Step(h, level, recs, i)
    <3>1. CASE i = 0
      BY <3>1 DEF Step
    <3>2. CASE i # 0
      <4>1. i \in 1 .. Len(recs) /\ i - 1 \in D /\ h[i - 1] \in Nat
        <5>1. i \in 1 .. Len(recs) /\ i - 1 \in D
          BY <1>0, <3>2
        <5> QED BY <2>1, <5>1
      <4>2. i <= n + 1 => k[i - 1] = h[i - 1]
        BY <1>0, <4>1
      <4> HIDE DEF k
      <4> QED BY <1>0, <3>2, <4>1, <4>2 DEF Step
    <3> QED BY <3>1, <3>2
  <2>3. k \in [D -> Nat]
    BY <2>2
  <2>4. ASSUME NEW i \in D, i <= n + 1 PROVE k[i] = Step(k, level, recs, i)
    <3>1. k[i] = IF i <= n THEN h[i] ELSE Step(h, level, recs, i)
      OBVIOUS
    <3>2. i <= n => h[i] = Step(h, level, recs, i)
      BY <2>1
    <3>3. Step(k, level, recs, i) = Step(h, level, recs, i)
      BY <2>2, <2>4
    <3> HIDE DEF k
    <3> QED BY <3>1, <3>2, <3>3
  <2>5. Upto(k, n + 1)
    BY <2>4
  <2> HIDE DEF Upto, k
  <2> QED BY <2>3, <2>5
<1>3. \A n \in Nat : n \in P
  <2> HIDE DEF P
  <2> QED BY <1>1, <1>2, SetInduction
<1>4. PICK h \in [D -> Nat] : Upto(h, Len(recs))
  BY <1>0, <1>3
<1>5. \A i \in D : h[i] = Step(h, level, recs, i)
  BY <1>0, <1>4
<1>6. h = [i \in D |-> Step(h, level, recs, i)]
  BY <1>5
<1> QED BY <1>6 DEF IsSum

(* The space of the first i records. *)
LEMMA SumFacts ==
  ASSUME NEW level, NEW recs \in Seq(Record)
  PROVE  /\ SumOf(level, recs)[0] = 0
         /\ \A i \in 0 .. Len(recs) : SumOf(level, recs)[i] \in Int
         /\ \A i \in 1 .. Len(recs) :
              /\ record_len(level, recs[i].key) \in Nat
              /\ SumOf(level, recs)[i]
                   = SumOf(level, recs)[i - 1] + record_len(level, recs[i].key)
<1> DEFINE h == SumOf(level, recs)
<1>0. Len(recs) \in Nat /\ \A i \in 1 .. Len(recs) : record_len(level, recs[i].key) \in Nat
  BY RecsLen
<1>1. IsSum(h, level, recs)
  BY SumExists DEF SumOf
<1> HIDE DEF h
<1>2. \A i \in 0 .. Len(recs) : h[i] = Step(h, level, recs, i)
  BY <1>1 DEF IsSum
<1>3. h[0] = 0
  BY <1>0, <1>2 DEF Step
<1>4. \A i \in 1 .. Len(recs) : h[i] = h[i - 1] + record_len(level, recs[i].key)
  BY <1>0, <1>2 DEF Step
<1> DEFINE P == {n \in Nat : n <= Len(recs) => h[n] \in Int}
<1>5. 0 \in P
  BY <1>3
<1>6. ASSUME NEW n \in Nat, n \in P PROVE n + 1 \in P
  BY <1>0, <1>4, <1>6
<1>7. \A n \in Nat : n \in P
  <2> HIDE DEF P
  <2> QED BY <1>5, <1>6, SetInduction
<1>8. \A i \in 0 .. Len(recs) : h[i] \in Int
  BY <1>0, <1>7
<1> QED BY <1>0, <1>3, <1>4, <1>8 DEF h

(* Equal records use equal space, wherever they are. *)
SameRecs(s, c, u, d, m) ==
  c + m <= Len(s) /\ d + m <= Len(u) /\ \A j \in 1 .. m : s[c + j] = u[d + j]

SameSpace(level, s, c, u, d, m) ==
  SumOf(level, s)[c + m] - SumOf(level, s)[c] = SumOf(level, u)[d + m] - SumOf(level, u)[d]

LEMMA SumShift ==
  ASSUME NEW level, NEW s \in Seq(Record), NEW u \in Seq(Record),
         NEW c \in Nat, NEW d \in Nat, NEW m \in Nat, SameRecs(s, c, u, d, m)
  PROVE  SameSpace(level, s, c, u, d, m)
<1> USE DEF SameRecs
<1> DEFINE S == SumOf(level, s)
           U == SumOf(level, u)
           P == {n \in Nat : n <= m => S[c + n] - S[c] = U[d + n] - U[d]}
<1>0. Len(s) \in Nat /\ Len(u) \in Nat
  BY LenProperties
<1>1. /\ \A i \in 0 .. Len(s) : S[i] \in Int
      /\ \A i \in 1 .. Len(s) : record_len(level, s[i].key) \in Nat
                                /\ S[i] = S[i - 1] + record_len(level, s[i].key)
  BY SumFacts
<1>2. /\ \A i \in 0 .. Len(u) : U[i] \in Int
      /\ \A i \in 1 .. Len(u) : record_len(level, u[i].key) \in Nat
                                /\ U[i] = U[i - 1] + record_len(level, u[i].key)
  BY SumFacts
<1> HIDE DEF S, U
<1>3. 0 \in P
  <2>1. S[c] \in Int /\ U[d] \in Int /\ c + 0 = c /\ d + 0 = d
    BY <1>0, <1>1, <1>2
  <2>2. S[c + 0] - S[c] = U[d + 0] - U[d]
    BY <2>1
  <2> QED BY <2>2
<1>4. ASSUME NEW n \in Nat, n \in P PROVE n + 1 \in P
  <2> SUFFICES ASSUME n + 1 <= m PROVE S[c + (n + 1)] - S[c] = U[d + (n + 1)] - U[d]
    OBVIOUS
  <2>1. PICK i \in Nat, k \in Nat : i = c + (n + 1) /\ k = d + (n + 1)
    OBVIOUS
  <2>2. /\ i \in 1 .. Len(s) /\ i - 1 \in 0 .. Len(s) /\ c \in 0 .. Len(s)
        /\ k \in 1 .. Len(u) /\ k - 1 \in 0 .. Len(u) /\ d \in 0 .. Len(u)
        /\ i - 1 = c + n /\ k - 1 = d + n
    BY <1>0, <2>1
  <2>3. s[i] = u[k]
    BY <2>1, n + 1 \in 1 .. m
  <2>4. S[i - 1] - S[c] = U[k - 1] - U[d]
    BY <1>4, <2>2
  <2>5. PICK r \in Nat : r = record_len(level, s[i].key)
    BY <1>1, <2>2
  <2>6. S[i] = S[i - 1] + r
    BY <1>1, <2>2, <2>5
  <2>7. U[k] = U[k - 1] + r
    BY <1>2, <2>2, <2>3, <2>5
  <2>8. S[c] \in Int /\ S[i - 1] \in Int /\ U[d] \in Int /\ U[k - 1] \in Int
    BY <1>1, <1>2, <2>2
  <2>9. S[i] - S[c] = U[k] - U[d]
    <3>1. PICK a \in Int, b \in Int, x \in Int, y \in Int :
            a = S[i - 1] /\ b = S[c] /\ x = U[k - 1] /\ y = U[d]
      BY <2>8
    <3>2. a - b = x - y /\ S[i] = a + r /\ U[k] = x + r
      BY <2>4, <2>6, <2>7, <3>1
    <3>3. (a + r) - b = (x + r) - y
      BY <3>2
    <3> QED BY <3>1, <3>2, <3>3
  <2> QED BY <2>1, <2>9
<1>5. \A n \in Nat : n \in P
  <2> HIDE DEF P
  <2> QED BY <1>3, <1>4, SetInduction
<1>6. S[c + m] - S[c] = U[d + m] - U[d]
  BY <1>5
<1> QED BY <1>6 DEF S, U, SameSpace

(* A part of a sequence. *)
LEMMA PartFacts ==
  ASSUME NEW s \in Seq(Record), NEW a \in Nat \ {0}, NEW b \in Nat, b <= Len(s), a <= b + 1
  PROVE  /\ SubSeq(s, a, b) \in Seq(Record)
         /\ Len(SubSeq(s, a, b)) = (b - a) + 1
         /\ \A i \in 1 .. (b - a) + 1 : SubSeq(s, a, b)[i] = s[(a + i) - 1]
<1>1. Len(s) \in Nat /\ \A i \in 1 .. Len(s) : s[i] \in Record
  BY LenProperties, ElementOfSeq
<1>2. \A i \in a .. b : s[i] \in Record
  BY <1>1
<1>3. /\ SubSeq(s, a, b) \in Seq(Record)
      /\ Len(SubSeq(s, a, b)) = IF a <= b THEN b - a + 1 ELSE 0
      /\ \A i \in 1 .. b - a + 1 : SubSeq(s, a, b)[i] = s[a + i - 1]
  BY <1>2, SubSeqProperties
<1> QED BY <1>3

(* A record inserted at position p. *)
LEMMA InsertFacts ==
  ASSUME NEW s \in Seq(Record), NEW p \in 1 .. Len(s) + 1, NEW e \in Record
  PROVE  /\ InsertAt(s, p, e) \in Seq(Record)
         /\ Len(InsertAt(s, p, e)) = Len(s) + 1
         /\ \A i \in 1 .. Len(s) + 1 :
              InsertAt(s, p, e)[i] = IF i < p THEN s[i] ELSE IF i = p THEN e ELSE s[i - 1]
<1> DEFINE A == SubSeq(s, 1, p - 1)
           B == <<e>>
           C == SubSeq(s, p, Len(s))
<1>0. Len(s) \in Nat /\ p \in Nat /\ p >= 1 /\ p <= Len(s) + 1
  BY LenProperties
<1>1. /\ A \in Seq(Record) /\ Len(A) = p - 1
      /\ \A i \in 1 .. p - 1 : A[i] = s[i]
  <2>1. /\ SubSeq(s, 1, p - 1) \in Seq(Record)
        /\ Len(SubSeq(s, 1, p - 1)) = ((p - 1) - 1) + 1
        /\ \A i \in 1 .. ((p - 1) - 1) + 1 : SubSeq(s, 1, p - 1)[i] = s[(1 + i) - 1]
    BY <1>0, PartFacts, p - 1 \in Nat, 1 \in Nat \ {0}
  <2> QED BY <1>0, <2>1
<1>2. B \in Seq(Record) /\ Len(B) = 1 /\ B[1] = e
  OBVIOUS
<1>3. /\ C \in Seq(Record) /\ Len(C) = (Len(s) - p) + 1
      /\ \A i \in 1 .. (Len(s) - p) + 1 : C[i] = s[(p + i) - 1]
  BY <1>0, PartFacts, p \in Nat \ {0}
<1> HIDE DEF A, B, C
<1>4. /\ A \o B \in Seq(Record) /\ Len(A \o B) = p
      /\ \A i \in 1 .. p : (A \o B)[i] = IF i < p THEN s[i] ELSE e
  <2>1. /\ A \o B \in Seq(Record) /\ Len(A \o B) = Len(A) + Len(B)
        /\ \A i \in 1 .. Len(A) + Len(B) : (A \o B)[i] = IF i <= Len(A) THEN A[i] ELSE B[i - Len(A)]
    BY <1>1, <1>2, ConcatProperties
  <2> QED BY <1>0, <1>1, <1>2, <2>1
<1>5. PICK D \in Seq(Record) : D = A \o B
  BY <1>4
<1>6. /\ D \o C \in Seq(Record) /\ Len(D \o C) = Len(D) + Len(C)
      /\ \A i \in 1 .. Len(D) + Len(C) : (D \o C)[i] = IF i <= Len(D) THEN D[i] ELSE C[i - Len(D)]
  BY <1>3, ConcatProperties
<1>7. /\ Len(D) = p /\ Len(D) + Len(C) = Len(s) + 1
      /\ \A i \in 1 .. p : D[i] = IF i < p THEN s[i] ELSE e
  <2>1. Len(D) = p /\ \A i \in 1 .. p : D[i] = IF i < p THEN s[i] ELSE e
    BY <1>4, <1>5
  <2>2. Len(D) + Len(C) = Len(s) + 1
    BY <1>0, <1>3, <2>1
  <2> QED BY <2>1, <2>2
<1>8. InsertAt(s, p, e) = D \o C
  BY <1>5 DEF InsertAt, A, B, C
<1>9. ASSUME NEW i \in 1 .. Len(s) + 1
      PROVE  (D \o C)[i] = IF i < p THEN s[i] ELSE IF i = p THEN e ELSE s[i - 1]
  <2>1. CASE i <= p
    <3>1. (D \o C)[i] = D[i] /\ i \in 1 .. p
      BY <1>0, <1>6, <1>7, <2>1
    <3> QED BY <1>0, <1>7, <3>1
  <2>2. CASE i > p
    <3>1. i - p \in 1 .. (Len(s) - p) + 1 /\ (p + (i - p)) - 1 = i - 1 /\ ~(i < p) /\ i # p /\ ~(i <= p)
      BY <1>0, <2>2
    <3>2. (D \o C)[i] = C[i - p]
      BY <1>6, <1>7, <3>1
    <3>3. C[i - p] = s[(p + (i - p)) - 1]
      BY <1>3, <3>1
    <3> QED BY <3>1, <3>2, <3>3
  <2>3. i <= p \/ i > p
    BY <1>0
  <2> QED BY <2>1, <2>2, <2>3
<1> QED BY <1>6, <1>7, <1>8, <1>9

(* The space of the first c records and of the others. *)
LEMMA UsedParts ==
  ASSUME NEW level, NEW s \in Seq(Record), NEW c \in 0 .. Len(s)
  PROVE  /\ used_space(level, SubSeq(s, 1, c)) = SumOf(level, s)[c]
         /\ used_space(level, SubSeq(s, c + 1, Len(s))) = used_space(level, s) - SumOf(level, s)[c]
<1> DEFINE A == SubSeq(s, 1, c)
           C == SubSeq(s, c + 1, Len(s))
           m == Len(s) - c
<1>0. Len(s) \in Nat /\ c \in Nat /\ m \in Nat /\ c + m = Len(s)
  BY LenProperties
<1>1. /\ A \in Seq(Record) /\ Len(A) = c /\ \A i \in 1 .. c : A[i] = s[i]
  <2>1. /\ SubSeq(s, 1, c) \in Seq(Record)
        /\ Len(SubSeq(s, 1, c)) = (c - 1) + 1
        /\ \A i \in 1 .. (c - 1) + 1 : SubSeq(s, 1, c)[i] = s[(1 + i) - 1]
    BY <1>0, PartFacts, 1 \in Nat \ {0}
  <2> QED BY <1>0, <2>1
<1>2. /\ C \in Seq(Record) /\ Len(C) = m /\ \A i \in 1 .. m : C[i] = s[c + i]
  <2>1. /\ SubSeq(s, c + 1, Len(s)) \in Seq(Record)
        /\ Len(SubSeq(s, c + 1, Len(s))) = (Len(s) - (c + 1)) + 1
        /\ \A i \in 1 .. (Len(s) - (c + 1)) + 1 :
             SubSeq(s, c + 1, Len(s))[i] = s[((c + 1) + i) - 1]
    <3>1. c + 1 \in Nat \ {0} /\ Len(s) <= Len(s) /\ c + 1 <= Len(s) + 1
      BY <1>0
    <3> QED BY <1>0, <3>1, PartFacts
  <2>2. (Len(s) - (c + 1)) + 1 = m /\ \A i \in 1 .. m : ((c + 1) + i) - 1 = c + i
    BY <1>0
  <2> HIDE DEF m
  <2> QED BY <2>1, <2>2
<1>3. /\ SumOf(level, A)[0] = 0 /\ SumOf(level, C)[0] = 0 /\ SumOf(level, s)[0] = 0
      /\ SumOf(level, A)[c] \in Int /\ SumOf(level, C)[m] \in Int
      /\ SumOf(level, s)[c] \in Int /\ SumOf(level, s)[Len(s)] \in Int
  <2> HIDE DEF A, C, m
  <2>1. c \in 0 .. Len(A) /\ m \in 0 .. Len(C) /\ c \in 0 .. Len(s) /\ Len(s) \in 0 .. Len(s)
    BY <1>0, <1>1, <1>2
  <2> QED BY <1>1, <1>2, <2>1, SumFacts
<1> HIDE DEF A, C, m
<1>4. SumOf(level, A)[0 + c] - SumOf(level, A)[0] = SumOf(level, s)[0 + c] - SumOf(level, s)[0]
  <2>1. SameRecs(A, 0, s, 0, c)
    BY <1>0, <1>1 DEF SameRecs
  <2>2. SameSpace(level, A, 0, s, 0, c)
    BY <1>0, <1>1, <1>2, <2>1, SumShift, 0 \in Nat
  <2> QED BY <2>2 DEF SameSpace
<1>5. SumOf(level, C)[0 + m] - SumOf(level, C)[0] = SumOf(level, s)[c + m] - SumOf(level, s)[c]
  <2>1. SameRecs(C, 0, s, c, m)
    BY <1>0, <1>2 DEF SameRecs
  <2>2. SameSpace(level, C, 0, s, c, m)
    BY <1>0, <1>1, <1>2, <2>1, SumShift, 0 \in Nat
  <2> QED BY <2>2 DEF SameSpace
<1>6. 0 + c = c /\ 0 + m = m
  BY <1>0
<1>7. SumOf(level, A)[c] = SumOf(level, s)[c]
  BY <1>3, <1>4, <1>6
<1>8. SumOf(level, C)[m] = SumOf(level, s)[Len(s)] - SumOf(level, s)[c]
  <2>1. c + m = Len(s)
    BY <1>0
  <2>2. SumOf(level, C)[m] - 0 = SumOf(level, s)[Len(s)] - SumOf(level, s)[c]
    BY <1>3, <1>5, <1>6, <2>1
  <2>3. PICK x \in Int : x = SumOf(level, C)[m]
    BY <1>3
  <2>4. x - 0 = x
    BY <2>3
  <2> QED BY <2>2, <2>3, <2>4
<1> QED BY <1>1, <1>2, <1>7, <1>8, UsedIsSum DEF A, C

(* The space of two sequences of records. *)
LEMMA UsedConcat ==
  ASSUME NEW level, NEW s \in Seq(Record), NEW u \in Seq(Record)
  PROVE  /\ used_space(level, s) \in Int /\ used_space(level, u) \in Int
         /\ used_space(level, s \o u) = used_space(level, s) + used_space(level, u)
<1> DEFINE w == s \o u
           a == Len(s)
           b == Len(u)
<1>0. a \in Nat /\ b \in Nat
  BY LenProperties
<1>1. w \in Seq(Record) /\ Len(w) = a + b
      /\ \A i \in 1 .. a + b : w[i] = IF i <= a THEN s[i] ELSE u[i - a]
  BY ConcatProperties
<1>2. /\ SumOf(level, s)[0] = 0 /\ SumOf(level, u)[0] = 0 /\ SumOf(level, w)[0] = 0
      /\ SumOf(level, s)[a] \in Int /\ SumOf(level, u)[b] \in Int
      /\ SumOf(level, w)[a] \in Int /\ SumOf(level, w)[a + b] \in Int
  <2>1. a \in 0 .. Len(s) /\ b \in 0 .. Len(u) /\ a \in 0 .. Len(w) /\ a + b \in 0 .. Len(w)
    BY <1>0, <1>1
  <2> HIDE DEF a, b, w
  <2> QED BY <1>1, <2>1, SumFacts
<1>3. \A j \in 1 .. a : w[0 + j] = s[0 + j]
  BY <1>0, <1>1
<1>4. \A j \in 1 .. b : w[a + j] = u[0 + j]
  BY <1>0, <1>1
<1>5. Len(s) = a /\ Len(u) = b
  OBVIOUS
<1> HIDE DEF w, a, b
<1>6. SumOf(level, w)[0 + a] - SumOf(level, w)[0] = SumOf(level, s)[0 + a] - SumOf(level, s)[0]
  <2>1. SameRecs(w, 0, s, 0, a)
    BY <1>0, <1>1, <1>3, <1>5 DEF SameRecs
  <2>2. SameSpace(level, w, 0, s, 0, a)
    BY <1>0, <1>1, <1>2, <2>1, SumShift, 0 \in Nat
  <2> QED BY <2>2 DEF SameSpace
<1>7. SumOf(level, w)[a + b] - SumOf(level, w)[a] = SumOf(level, u)[0 + b] - SumOf(level, u)[0]
  <2>1. SameRecs(w, a, u, 0, b)
    BY <1>0, <1>1, <1>4, <1>5 DEF SameRecs
  <2>2. SameSpace(level, w, a, u, 0, b)
    BY <1>0, <1>1, <1>2, <2>1, SumShift, 0 \in Nat
  <2> QED BY <2>2 DEF SameSpace
<1>8. 0 + a = a /\ 0 + b = b
  BY <1>0
<1>9. SumOf(level, w)[a + b] = SumOf(level, s)[a] + SumOf(level, u)[b]
  BY <1>2, <1>6, <1>7, <1>8
<1> QED BY <1>1, <1>2, <1>5, <1>9, UsedIsSum DEF w

(* The space of a node with one more record. *)
LEMMA UsedInsert ==
  ASSUME NEW level, NEW s \in Seq(Record), NEW p \in 1 .. Len(s) + 1, NEW e \in Record
  PROVE  used_space(level, InsertAt(s, p, e)) = used_space(level, s) + record_len(level, e.key)
<1> DEFINE w == InsertAt(s, p, e)
           n == Len(s)
           q == p - 1
           m == n - q
<1>0. n \in Nat /\ p \in Nat /\ q \in Nat /\ m \in Nat /\ p + m = n + 1 /\ q + m = n /\ q <= n /\ p <= n + 1
      /\ p = q + 1
  BY LenProperties
<1>1. /\ w \in Seq(Record) /\ Len(w) = n + 1
      /\ \A i \in 1 .. n + 1 : w[i] = IF i < p THEN s[i] ELSE IF i = p THEN e ELSE s[i - 1]
  BY InsertFacts, ZenonT(40)
<1>2. \A j \in 1 .. q : w[0 + j] = s[0 + j]
  BY <1>0, <1>1
<1>3. \A j \in 1 .. m : w[p + j] = s[q + j]
  <2> SUFFICES ASSUME NEW j \in 1 .. m PROVE w[p + j] = s[q + j]
    OBVIOUS
  <2>1. p + j \in 1 .. n + 1 /\ ~(p + j < p) /\ p + j # p /\ (p + j) - 1 = q + j
    BY <1>0
  <2> QED BY <1>1, <2>1
<1>4. w[p] = e
  BY <1>0, <1>1
<1>5. Len(s) = n
  OBVIOUS
<1> HIDE DEF w, n, q, m
<1>6. /\ SumOf(level, s)[0] = 0 /\ SumOf(level, w)[0] = 0
      /\ \A i \in 0 .. n : SumOf(level, s)[i] \in Int
      /\ \A i \in 0 .. n + 1 : SumOf(level, w)[i] \in Int
      /\ \A i \in 1 .. n + 1 : /\ record_len(level, w[i].key) \in Nat
                               /\ SumOf(level, w)[i] = SumOf(level, w)[i - 1] + record_len(level, w[i].key)
  <2>1. /\ SumOf(level, s)[0] = 0 /\ \A i \in 0 .. Len(s) : SumOf(level, s)[i] \in Int
    BY SumFacts
  <2>2. /\ SumOf(level, w)[0] = 0 /\ \A i \in 0 .. Len(w) : SumOf(level, w)[i] \in Int
        /\ \A i \in 1 .. Len(w) : /\ record_len(level, w[i].key) \in Nat
                                  /\ SumOf(level, w)[i] = SumOf(level, w)[i - 1] + record_len(level, w[i].key)
    BY <1>1, SumFacts
  <2>3. Len(w) = n + 1
    BY <1>1
  <2> QED BY <1>5, <2>1, <2>2, <2>3
<1>7. SumOf(level, w)[0 + q] - SumOf(level, w)[0] = SumOf(level, s)[0 + q] - SumOf(level, s)[0]
  <2>1. SameRecs(w, 0, s, 0, q)
    BY <1>0, <1>1, <1>2, <1>5 DEF SameRecs
  <2>2. SameSpace(level, w, 0, s, 0, q)
    BY <1>0, <1>1, <1>2, <2>1, SumShift, 0 \in Nat
  <2> QED BY <2>2 DEF SameSpace
<1>8. SumOf(level, w)[p + m] - SumOf(level, w)[p] = SumOf(level, s)[q + m] - SumOf(level, s)[q]
  <2>1. SameRecs(w, p, s, q, m)
    BY <1>0, <1>1, <1>3, <1>5 DEF SameRecs
  <2>2. SameSpace(level, w, p, s, q, m)
    BY <1>0, <1>1, <1>2, <2>1, SumShift, 0 \in Nat
  <2> QED BY <2>2 DEF SameSpace
<1>9. SumOf(level, w)[p] = SumOf(level, w)[q] + record_len(level, e.key) /\ record_len(level, e.key) \in Nat
  <2>1. p \in 1 .. n + 1 /\ p - 1 = q
    BY <1>0
  <2> QED BY <1>4, <1>6, <2>1
<1>10. PICK x \in Int, y \in Int, z \in Int, a \in Int, b \in Int :
         /\ x = SumOf(level, w)[q] /\ y = SumOf(level, w)[p] /\ z = SumOf(level, w)[n + 1]
         /\ a = SumOf(level, s)[q] /\ b = SumOf(level, s)[n]
  <2>1. q \in 0 .. n + 1 /\ p \in 0 .. n + 1 /\ n + 1 \in 0 .. n + 1 /\ q \in 0 .. n /\ n \in 0 .. n
    BY <1>0
  <2> QED BY <1>6, <2>1
<1>11. 0 + q = q
  BY <1>0
<1>12. x = a
  BY <1>6, <1>7, <1>10, <1>11
<1>13. z - y = b - a
  BY <1>0, <1>8, <1>10
<1>14. z = b + record_len(level, e.key)
  <2>1. PICK r \in Nat : r = record_len(level, e.key)
    BY <1>9
  <2>2. y = x + r
    BY <1>9, <1>10, <2>1
  <2>3. z = b + r
    BY <1>12, <1>13, <2>2
  <2> QED BY <2>1, <2>3
<1> QED BY <1>1, <1>5, <1>10, <1>14, UsedIsSum DEF w
--------------------------------------------------------------------------
(* The loop of the search is a recursion on the width of its range. *)
Body(h, recs, key, first, last) ==
  LET mid == first + ((last + 1 - first) \div 2)
  IN  IF first >= last - 1 THEN first
      ELSE IF recs[mid].key = key THEN mid
      ELSE IF recs[mid].key < key THEN h[<<mid, last>>]
      ELSE h[<<first, mid>>]
IsLoop(h, recs, key) ==
  h = [r \in (1 .. Len(recs)) \X (1 .. Len(recs)) |-> Body(h, recs, key, r[1], r[2])]
LoopOf(recs, key) == CHOOSE h : IsLoop(h, recs, key)

(* Bisect in these terms. *)
LEMMA BisectIsLoop ==
  ASSUME NEW recs, NEW key
  PROVE  Bisect(recs, key) = LoopOf(recs, key)[<<1, Len(recs)>>]
  BY DEF Bisect, LoopOf, IsLoop, Body

(* The middle is strictly inside. *)
LEMMA MidInside ==
  ASSUME NEW first \in Nat, NEW last \in Nat, ~(first >= last - 1)
  PROVE  /\ first + ((last + 1 - first) \div 2) \in Nat
         /\ first < first + ((last + 1 - first) \div 2)
         /\ first + ((last + 1 - first) \div 2) < last
  OBVIOUS

(* There is such a loop: one for ranges of width n, for every n. *)
LEMMA LoopExists ==
  ASSUME NEW recs \in Seq(Record), NEW key
  PROVE  \E h : IsLoop(h, recs, key)
<1> DEFINE D == 1 .. Len(recs)
           Upto(h, n) == \A f \in D, l \in D : l - f <= n => h[<<f, l>>] = Body(h, recs, key, f, l)
           P == {n \in Nat : \E h \in [D \X D -> D] : Upto(h, n)}
<1>0. Len(recs) \in Nat
  BY LenProperties
<1>1. 0 \in P
  <2> DEFINE k == [r \in D \X D |-> r[1]]
  <2>1. k \in [D \X D -> D] /\ \A f \in D, l \in D : k[<<f, l>>] = f
    OBVIOUS
  <2>2. Upto(k, 0)
    <3> SUFFICES ASSUME NEW f \in D, NEW l \in D, l - f <= 0 PROVE k[<<f, l>>] = Body(k, recs, key, f, l)
      OBVIOUS
    <3>1. f >= l - 1
      BY <1>0
    <3> HIDE DEF k
    <3> QED BY <2>1, <3>1 DEF Body
  <2> HIDE DEF k, Upto
  <2> QED BY <2>1, <2>2
<1>2. ASSUME NEW n \in Nat, n \in P PROVE n + 1 \in P
  <2>1. PICK h \in [D \X D -> D] : Upto(h, n)
    BY <1>2
  <2> DEFINE k == [r \in D \X D |-> IF r[2] - r[1] <= n THEN h[r] ELSE Body(h, recs, key, r[1], r[2])]
  <2>2. \A f \in D, l \in D : k[<<f, l>>] = IF l - f <= n THEN h[<<f, l>>] ELSE Body(h, recs, key, f, l)
    OBVIOUS
  <2>3. ASSUME NEW f \in D, NEW l \in D
        PROVE  /\ Body(h, recs, key, f, l) \in D
               /\ l - f <= n + 1 => Body(k, recs, key, f, l) = Body(h, recs, key, f, l)
    <3>1. CASE f >= l - 1
      BY <3>1 DEF Body
    <3>2. CASE ~(f >= l - 1)
      <4>1. PICK mid \in Nat : mid = f + ((l + 1 - f) \div 2) /\ f < mid /\ mid < l
        BY <1>0, <3>2, MidInside
      <4>2. mid \in D /\ h[<<f, mid>>] \in D /\ h[<<mid, l>>] \in D
        <5>1. mid \in D /\ <<f, mid>> \in D \X D /\ <<mid, l>> \in D \X D
          BY <1>0, <4>1
        <5> QED BY <2>1, <5>1
      <4>3. l - f <= n + 1 => k[<<f, mid>>] = h[<<f, mid>>] /\ k[<<mid, l>>] = h[<<mid, l>>]
        <5>1. l - f <= n + 1 => mid - f <= n /\ l - mid <= n
          BY <1>0, <4>1
        <5>2. /\ k[<<f, mid>>] = IF mid - f <= n THEN h[<<f, mid>>] ELSE Body(h, recs, key, f, mid)
              /\ k[<<mid, l>>] = IF l - mid <= n THEN h[<<mid, l>>] ELSE Body(h, recs, key, mid, l)
          BY <2>2, <4>2
        <5> HIDE DEF k
        <5> QED BY <5>1, <5>2
      <4> HIDE DEF k, D
      <4> QED BY <3>2, <4>1, <4>2, <4>3 DEF Body
    <3> QED BY <3>1, <3>2
  <2>4. k \in [D \X D -> D]
    <3>1. \A f \in D, l \in D : h[<<f, l>>] \in D
      BY <2>1
    <3> QED BY <2>3, <3>1
  <2>5. ASSUME NEW f \in D, NEW l \in D, l - f <= n + 1
        PROVE  k[<<f, l>>] = Body(k, recs, key, f, l)
    <3>1. l - f <= n => h[<<f, l>>] = Body(h, recs, key, f, l)
      BY <2>1
    <3> HIDE DEF k
    <3>2. k[<<f, l>>] = IF l - f <= n THEN h[<<f, l>>] ELSE Body(h, recs, key, f, l)
      BY <2>2
    <3>3. Body(k, recs, key, f, l) = Body(h, recs, key, f, l)
      BY <2>3, <2>5
    <3> QED BY <3>1, <3>2, <3>3
  <2>6. Upto(k, n + 1)
    BY <2>5
  <2> HIDE DEF Upto, k
  <2> QED BY <2>4, <2>6
<1>3. \A n \in Nat : n \in P
  <2> HIDE DEF P
  <2> QED BY <1>1, <1>2, SetInduction
<1>4. PICK h \in [D \X D -> D] : Upto(h, Len(recs))
  BY <1>0, <1>3
<1>5. \A f \in D, l \in D : h[<<f, l>>] = Body(h, recs, key, f, l)
  <2>1. \A f \in D, l \in D : l - f <= Len(recs)
    BY <1>0
  <2> QED BY <1>4, <2>1
<1>6. h = [r \in D \X D |-> Body(h, recs, key, r[1], r[2])]
  BY <1>5
<1> QED BY <1>6 DEF IsLoop

(* The records of a node are in the order of their keys. *)
Sorted(recs) == \A i \in 1 .. Len(recs), j \in 1 .. Len(recs) : i < j => recs[i].key < recs[j].key

(* What the loop keeps: the record it returns is not greater than the key, *)
(* those after it are.                                                     *)
LastUpTo(recs, key, p) ==
  /\ p \in 0 .. Len(recs)
  /\ \A i \in 1 .. Len(recs) : i <= p <=> recs[i].key <= key

(* Keys can be compared. *)
LEMMA KeysAreNumbers ==
  ASSUME NEW recs \in Seq(Record)
  PROVE  \A i \in 1 .. Len(recs) : recs[i].key \in Nat
<1>1. \A i \in 1 .. Len(recs) : recs[i].key \in Key \cup {First}
  BY RecsLen
<1>2. Key \cup {First} \subseteq Nat
  BY NodeConstants DEF First
<1> QED BY <1>1, <1>2

(* A loop whose range has the place of the key in it finds the place. *)
LEMMA LoopExact ==
  ASSUME NEW recs \in Seq(Record), NEW key \in Nat, Sorted(recs), NEW h, IsLoop(h, recs, key)
  PROVE  \A f \in 1 .. Len(recs), l \in 1 .. Len(recs) :
           f < l /\ recs[f].key <= key /\ key < recs[l].key => LastUpTo(recs, key, h[<<f, l>>])
<1> DEFINE D == 1 .. Len(recs)
           Fine(f, l) == f < l /\ recs[f].key <= key /\ key < recs[l].key => LastUpTo(recs, key, h[<<f, l>>])
           P == {n \in Nat : \A f \in D, l \in D : l - f <= n => Fine(f, l)}
<1>0. Len(recs) \in Nat /\ \A i \in D : recs[i].key \in Nat
  BY LenProperties, KeysAreNumbers
<1>1. \A f \in D, l \in D : h[<<f, l>>] = Body(h, recs, key, f, l)
  BY DEF IsLoop
<1>2. 0 \in P
  BY <1>0
<1>3. ASSUME NEW n \in Nat, n \in P PROVE n + 1 \in P
  <2>0. \A f \in D, l \in D : l - f <= n => Fine(f, l)
    BY <1>3
  <2> SUFFICES ASSUME NEW f \in D, NEW l \in D, l - f <= n + 1,
                      f < l, recs[f].key <= key, key < recs[l].key
               PROVE  LastUpTo(recs, key, h[<<f, l>>])
    OBVIOUS
  <2>1. CASE f >= l - 1
    <3>1. h[<<f, l>>] = f /\ l = f + 1
      <4>1. h[<<f, l>>] = Body(h, recs, key, f, l)
        BY <1>1
      <4>2. Body(h, recs, key, f, l) = f
        BY <2>1 DEF Body
      <4>3. l = f + 1
        BY <1>0, <2>1
      <4> QED BY <4>1, <4>2, <4>3
    <3>2. ASSUME NEW i \in D PROVE i <= f <=> recs[i].key <= key
      <4>1. CASE i <= f
        BY <1>0, <4>1 DEF Sorted
      <4>2. CASE i > f
        BY <1>0, <3>1, <4>2 DEF Sorted
      <4> QED BY <1>0, <4>1, <4>2
    <3> QED BY <1>0, <3>1, <3>2 DEF LastUpTo
  <2>2. CASE ~(f >= l - 1)
    <3>1. PICK mid \in Nat : mid = f + ((l + 1 - f) \div 2) /\ f < mid /\ mid < l
      BY <1>0, <2>2, MidInside
    <3>2. mid \in D /\ l - mid <= n /\ mid - f <= n
      BY <1>0, <3>1
    <3>3. h[<<f, l>>] = IF recs[mid].key = key THEN mid
                    ELSE IF recs[mid].key < key THEN h[<<mid, l>>] ELSE h[<<f, mid>>]
      BY <1>1, <2>2, <3>1 DEF Body
    <3>4. CASE recs[mid].key = key
      <4>1. h[<<f, l>>] = mid
        BY <3>3, <3>4
      <4>2. ASSUME NEW i \in D PROVE i <= mid <=> recs[i].key <= key
        <5>1. i < mid => recs[i].key < recs[mid].key
          BY <3>2 DEF Sorted
        <5>2. mid < i => recs[mid].key < recs[i].key
          BY <3>2 DEF Sorted
        <5>3. i \in Nat /\ (i < mid \/ i = mid \/ mid < i) /\ recs[i].key \in Nat
          BY <1>0
        <5> QED BY <3>4, <5>1, <5>2, <5>3
      <4> QED BY <1>0, <3>2, <4>1, <4>2 DEF LastUpTo
    <3>5. CASE recs[mid].key < key
      <4>1. h[<<f, l>>] = h[<<mid, l>>]
        BY <1>0, <3>2, <3>3, <3>5
      <4>2. Fine(mid, l)
        BY <2>0, <3>2
      <4>3. recs[mid].key <= key
        BY <1>0, <3>2, <3>5
      <4> QED BY <3>1, <4>1, <4>2, <4>3
    <3>6. CASE ~(recs[mid].key = key) /\ ~(recs[mid].key < key)
      <4>1. h[<<f, l>>] = h[<<f, mid>>]
        BY <3>3, <3>6
      <4>2. Fine(f, mid)
        BY <2>0, <3>2
      <4>3. key < recs[mid].key
        BY <1>0, <3>2, <3>6
      <4> QED BY <3>1, <4>1, <4>2, <4>3
    <3> QED BY <3>4, <3>5, <3>6
  <2> QED BY <2>1, <2>2
<1>4. \A n \in Nat : n \in P
  <2> HIDE DEF P
  <2> QED BY <1>2, <1>3, SetInduction
<1>5. Len(recs) \in P
  BY <1>0, <1>4
<1>6. \A f \in D, l \in D : Fine(f, l)
  <2>1. \A f \in D, l \in D : l - f <= Len(recs) => Fine(f, l)
    BY <1>5
  <2>2. \A f \in D, l \in D : l - f <= Len(recs)
    BY <1>0
  <2> QED BY <2>1, <2>2
<1> QED BY <1>6

(* binary_search() of a node whose records are in order returns the        *)
(* position of the last record whose key is not greater than the one       *)
(* looked for, and -ENOENT (0) only when every record is greater: in       *)
(* every node, of any number of records.                                   *)
THEOREM SearchExact ==
  ASSUME NEW recs \in Seq(Record), recs # <<>>, Sorted(recs), NEW key \in Nat
  PROVE  LastUpTo(recs, key, binary_search(recs, key))
<1> DEFINE n == Len(recs)
<1>0. n \in Nat /\ n # 0 /\ \A i \in 1 .. n : recs[i].key \in Nat
  BY LenProperties, EmptySeq, KeysAreNumbers
<1>1. CASE recs[1].key > key
  <2>1. binary_search(recs, key) = 0
    BY <1>1 DEF binary_search
  <2>2. ASSUME NEW i \in 1 .. n PROVE recs[i].key > key
    BY <1>0, <1>1 DEF Sorted
  <2>3. ASSUME NEW i \in 1 .. n PROVE i <= 0 <=> recs[i].key <= key
    BY <1>0, <2>2
  <2> QED BY <1>0, <2>1, <2>3 DEF LastUpTo
<1>2. CASE ~(recs[1].key > key) /\ recs[n].key <= key
  <2>1. binary_search(recs, key) = n
    BY <1>2 DEF binary_search
  <2>2. ASSUME NEW i \in 1 .. n PROVE i <= n <=> recs[i].key <= key
    BY <1>0, <1>2 DEF Sorted
  <2> QED BY <1>0, <2>1, <2>2 DEF LastUpTo
<1>3. CASE ~(recs[1].key > key) /\ ~(recs[n].key <= key)
  <2>1. binary_search(recs, key) = LoopOf(recs, key)[<<1, n>>]
    BY <1>3, BisectIsLoop DEF binary_search
  <2>2. IsLoop(LoopOf(recs, key), recs, key)
    BY LoopExists DEF LoopOf
  <2>3. 1 \in 1 .. n /\ n \in 1 .. n /\ recs[1].key <= key /\ key < recs[n].key
    BY <1>0, <1>3
  <2>4. 1 < n
    BY <1>0, <2>3
  <2>5. PICK h : h = LoopOf(recs, key)
    OBVIOUS
  <2>6. LastUpTo(recs, key, h[<<1, n>>])
    BY <2>2, <2>3, <2>4, <2>5, LoopExact
  <2> QED BY <2>1, <2>5, <2>6
<1> QED BY <1>1, <1>2, <1>3
--------------------------------------------------------------------------
(* Min is the least element. *)
LEMMA MinIsLeast ==
  ASSUME NEW T \in SUBSET Nat, T # {}
  PROVE  Min(T) \in T /\ \A y \in T : Min(T) <= y
<1>1. \E x \in T : \A y \in T : x <= y
  BY LeastNat
<1> QED BY <1>1 DEF Min

(* The left node takes records until it is more than half full: for a node *)
(* that has no room for the record, this leaves something for the right    *)
(* one, and both parts fit.                                                *)
LEMMA CutFits ==
  ASSUME NEW level, NEW recs \in Seq(Record), recs # <<>>, NEW p \in 1 .. Len(recs) + 1,
         NEW rec \in Record, NEW len \in Nat, record_len(level, rec.key) <= len,
         NodeHeader + len <= NodeSize \div 2,
         NodeHeader + used_space(level, recs) <= NodeSize,
         NodeSize < NodeHeader + used_space(level, recs) + len,
         NEW all, all = InsertAt(recs, p, rec),
         NEW cut, cut = SplitCut(level, all, rec, len, p)
  PROVE  /\ all \in Seq(Record) /\ cut \in 1 .. Len(all) - 1
         /\ NodeHeader + used_space(level, SubSeq(all, 1, cut)) <= NodeSize
         /\ NodeHeader + used_space(level, SubSeq(all, cut + 1, Len(all))) <= NodeSize
<1>0. Len(recs) \in Nat /\ Len(recs) # 0 /\ NodeSize \in Nat /\ NodeHeader \in Nat
  BY LenProperties, EmptySeq, NodeConstants
<1>1. PICK n \in Nat : n = Len(recs) + 1 /\ n > 1 /\ p \in 1 .. n
  BY <1>0
<1>2. all \in Seq(Record) /\ Len(all) = n
      /\ \A i \in 1 .. n : all[i] = IF i < p THEN recs[i] ELSE IF i = p THEN rec ELSE recs[i - 1]
  BY <1>1, InsertFacts
<1>3. PICK hd \in Nat, half \in Nat, size \in Nat :
        /\ hd = NodeHeader /\ half = NodeSize \div 2 /\ size = NodeSize
        /\ half + half <= size /\ size <= half + half + 1
  BY <1>0
<1>3a. hd \in Nat /\ half \in Nat /\ size \in Nat /\ half + half <= size /\ size <= half + half + 1
  BY <1>3
<1>4. PICK rl \in Nat : rl = record_len(level, rec.key) /\ rl <= len /\ hd + len <= half
  <2>1. rec.key \in Key \cup {First}
    BY DEF Record
  <2>2. record_len(level, rec.key) \in Nat
    BY <2>1, RecordLen
  <2> QED BY <1>3, <2>2
<1>4a. rl \in Nat /\ len \in Nat /\ rl <= len /\ hd + len <= half
  BY <1>4
<1>5. PICK used \in Int : used = used_space(level, recs) /\ hd + used <= size /\ size < hd + used + len
  <2>1. used_space(level, recs) \in Int
    BY UsedConcat
  <2> QED BY <1>3, <2>1
<1>5a. hd + used <= size /\ size < hd + used + len /\ used \in Int
  BY <1>5
<1> DEFINE S == SumOf(level, all)
           T(i) == hd + S[i] + IF i < p THEN 0 ELSE len - rl
<1>6. /\ S[0] = 0 /\ \A i \in 0 .. n : S[i] \in Int
      /\ \A i \in 1 .. n : /\ record_len(level, all[i].key) \in Nat
                           /\ S[i] = S[i - 1] + record_len(level, all[i].key)
  BY <1>2, SumFacts
<1>7. \A i \in 0 .. n : /\ used_space(level, SubSeq(all, 1, i)) = S[i]
                        /\ used_space(level, SubSeq(all, i + 1, n)) = S[n] - S[i]
  <2>1. \A i \in 0 .. n : /\ used_space(level, SubSeq(all, 1, i)) = S[i]
                          /\ used_space(level, SubSeq(all, i + 1, n)) = used_space(level, all) - S[i]
    BY <1>2, UsedParts, ZenonT(40)
  <2>2. used_space(level, all) = S[n]
    BY <1>2, UsedIsSum
  <2> QED BY <2>1, <2>2
<1>8. S[n] = used + rl
  <2>1. used_space(level, all) = used_space(level, recs) + record_len(level, rec.key)
    BY UsedInsert
  <2>2. used_space(level, all) = S[n]
    BY <1>2, UsedIsSum
  <2> QED BY <1>4, <1>5, <2>1, <2>2
<1> HIDE DEF S
<1>9. \A i \in 1 .. n : Taken(level, all, rec, len, p, i) = T(i)
  BY <1>1, <1>3, <1>4, <1>7 DEF Taken
<1>10. \A i \in 0 .. n : T(i) \in Int
  <2> SUFFICES ASSUME NEW i \in 0 .. n PROVE T(i) \in Int
    OBVIOUS
  <2>1. PICK b \in Int : b = S[i]
    BY <1>6
  <2>2. hd + b + 0 \in Int /\ hd + b + (len - rl) \in Int
    BY <1>3a, <1>4a
  <2> QED BY <2>1, <2>2
<1>11. ASSUME NEW i \in 1 .. n PROVE T(i) <= T(i - 1) + (half - hd)
  <2>1. i \in 0 .. n /\ i - 1 \in 0 .. n /\ i \in Nat /\ p \in Nat /\ n \in Nat
    BY <1>1
  <2>2. PICK a \in Int, b \in Int, r \in Nat :
          a = S[i - 1] /\ b = S[i] /\ r = record_len(level, all[i].key) /\ b = a + r
    BY <1>6, <2>1
  <2>2a. a \in Int /\ b \in Int /\ r \in Nat /\ b = a + r
    BY <2>2
  <2>3. hd + r <= half
    <3>1. all[i] \in Record
      BY <1>2, ElementOfSeq
    <3>2. all[i].key \in Key \cup {First}
      BY <3>1 DEF Record
    <3>3. NodeHeader + record_len(level, all[i].key) <= NodeSize \div 2
      BY <3>2, RecordLen
    <3> QED BY <1>3, <2>2, <3>3
  <2>4. CASE i = p
    <3>1. r = rl
      BY <1>2, <1>4, <2>2, <2>4
    <3>2. T(i) = hd + b + (len - rl) /\ T(i - 1) = hd + a + 0
      BY <2>1, <2>2, <2>4
    <3>3. hd + b + (len - rl) <= hd + a + 0 + (half - hd)
      BY <1>3a, <1>4a, <2>2a, <3>1
    <3> HIDE DEF T
    <3> QED BY <3>2, <3>3
  <2>5. CASE i < p
    <3>1. T(i) = hd + b + 0 /\ T(i - 1) = hd + a + 0
      BY <2>1, <2>2, <2>5
    <3>2. hd + b + 0 <= hd + a + 0 + (half - hd)
      BY <1>3a, <1>4a, <2>2a, <2>3
    <3> HIDE DEF T
    <3> QED BY <3>1, <3>2
  <2>6. CASE i > p
    <3>1. T(i) = hd + b + (len - rl) /\ T(i - 1) = hd + a + (len - rl)
      BY <2>1, <2>2, <2>6
    <3>2. hd + b + (len - rl) <= hd + a + (len - rl) + (half - hd)
      BY <1>3a, <1>4a, <2>2a, <2>3
    <3> HIDE DEF T
    <3> QED BY <3>1, <3>2
  <2> QED BY <2>1, <2>4, <2>5, <2>6
<1>12. T(0) = hd /\ T(n) = hd + used + len
  <2>1. T(0) = hd + 0 + 0
    BY <1>1, <1>6
  <2>2. T(n) = hd + (used + rl) + (len - rl)
    BY <1>1, <1>8
  <2> HIDE DEF T
  <2> QED BY <1>3, <1>4, <1>5, <2>1, <2>2
<1>13. \A i \in 0 .. n : S[i] + hd <= T(i) /\ T(i) <= hd + S[i] + (len - rl)
  <2> SUFFICES ASSUME NEW i \in 0 .. n
               PROVE  S[i] + hd <= T(i) /\ T(i) <= hd + S[i] + (len - rl)
    OBVIOUS
  <2>1. PICK b \in Int : b = S[i]
    BY <1>6
  <2>2. /\ b + hd <= hd + b + 0 /\ b + hd <= hd + b + (len - rl)
        /\ hd + b + 0 <= hd + b + (len - rl) /\ hd + b + (len - rl) <= hd + b + (len - rl)
    BY <1>3a, <1>4a, <2>1
  <2> QED BY <2>1, <2>2
<1> HIDE DEF T
<1> DEFINE Q == {n} \cup {i \in 1 .. n : T(i) > half}
<1>14. cut = Min(Q)
  BY <1>2, <1>3, <1>9 DEF SplitCut
<1>15. cut \in Q /\ \A i \in Q : cut <= i
  <2>1. Q \in SUBSET Nat /\ Q # {}
    OBVIOUS
  <2> HIDE DEF Q
  <2> QED BY <1>14, <2>1, MinIsLeast
<1>16. n \in 1 .. n /\ n - 1 \in 1 .. n /\ n \in 0 .. n /\ n - 1 \in 0 .. n
  BY <1>1
<1>17. T(n) > half /\ T(n - 1) > half
  <2>1. T(n) <= T(n - 1) + (half - hd) /\ T(n) \in Int /\ T(n - 1) \in Int
    BY <1>10, <1>11, <1>16
  <2>2. PICK x \in Int, y \in Int : x = T(n) /\ y = T(n - 1)
    BY <2>1
  <2>3. x <= y + (half - hd) /\ x = hd + used + len
    BY <1>12, <2>1, <2>2
  <2>4. x > half /\ y > half
    BY <1>3a, <1>4a, <1>5a, <2>2, <2>3
  <2> QED BY <2>2, <2>4
<1>18. cut \in 1 .. n - 1 /\ T(cut) > half
  <2>1. n - 1 \in Q /\ \A i \in Q : i \in 1 .. n /\ T(i) > half
    BY <1>16, <1>17
  <2> HIDE DEF Q
  <2> QED BY <1>15, <2>1
<1>19. cut \in Nat /\ cut \in 0 .. n /\ cut \in 1 .. n /\ cut - 1 \in 0 .. n
  BY <1>18
<1>20. T(cut - 1) <= half
  <2>1. CASE cut = 1
    BY <1>3, <1>4, <1>12, <2>1
  <2>2. CASE cut # 1
    <3>1. cut - 1 \in 1 .. n /\ ~(cut <= cut - 1)
      BY <1>19, <2>2
    <3>2. cut - 1 \notin Q
      <4> HIDE DEF Q
      <4> QED BY <1>15, <3>1
    <3>3. ~(T(cut - 1) > half) /\ T(cut - 1) \in Int
      BY <1>10, <1>19, <3>1, <3>2
    <3> QED BY <1>3, <3>3
  <2> QED BY <2>1, <2>2
<1>21. PICK c \in Int, tc \in Int, tp \in Int : c = S[cut] /\ tc = T(cut) /\ tp = T(cut - 1)
  BY <1>6, <1>10, <1>19
<1>22. tc > half /\ tp <= half /\ tc <= tp + (half - hd) /\ c + hd <= tc /\ tc <= hd + c + (len - rl)
  BY <1>11, <1>13, <1>18, <1>19, <1>20, <1>21
<1>23. hd + c <= size
  BY <1>3a, <1>22
<1>24. hd + ((used + rl) - c) <= size
  BY <1>3a, <1>4a, <1>5a, <1>22
<1>25. NodeHeader + used_space(level, SubSeq(all, 1, cut)) <= NodeSize
  BY <1>3, <1>7, <1>19, <1>21, <1>23
<1>26. NodeHeader + used_space(level, SubSeq(all, cut + 1, Len(all))) <= NodeSize
  BY <1>2, <1>3, <1>7, <1>8, <1>19, <1>21, <1>24
<1> QED BY <1>2, <1>18, <1>25, <1>26
--------------------------------------------------------------------------
(* Trees of any number of nodes. *)
Node == [level : Nat \ {0}, recs : Seq(Record), prev : Nat, next : Nat]

TreeOn(D) ==
  [node : [D -> Node], root : Nat, height : Nat, first_free_id : Nat, avail : Nat,
   limit : Nat, fault : {"none", "todo", "key", "merge"}, torn : BOOLEAN, bug : BOOLEAN]

Tree == UNION {TreeOn(D) : D \in {E \in SUBSET (Nat \ {0}) : IsFiniteSet(E)}}

(* The numbers of the nodes: first_free_id is the least one that is free,  *)
(* every node is in the tree's file, and the file in the metadata area.    *)
NumbersOk(t) ==
  /\ t.first_free_id \notin Used(t)
  /\ \A i \in Nat : i < t.first_free_id => i \in Used(t)
  /\ \A i \in Used(t) : i < t.avail
  /\ t.avail <= t.limit

(* What a tree is made of. *)
LEMMA TreeFacts ==
  ASSUME NEW t \in Tree
  PROVE  /\ \E D \in SUBSET (Nat \ {0}) : IsFiniteSet(D) /\ t \in TreeOn(D) /\ DOMAIN t.node = D
         /\ DOMAIN t.node \subseteq Nat \ {0} /\ IsFiniteSet(DOMAIN t.node)
         /\ t.node \in [DOMAIN t.node -> Node]
         /\ t.height \in Nat /\ t.first_free_id \in Nat /\ t.avail \in Nat /\ t.limit \in Nat
<1>1. PICK D \in SUBSET (Nat \ {0}) : IsFiniteSet(D) /\ t \in TreeOn(D)
  BY DEF Tree
<1>2. t.node \in [D -> Node]
  BY <1>1 DEF TreeOn
<1>3. DOMAIN t.node = D
  BY <1>2
<1>4. t.height \in Nat /\ t.first_free_id \in Nat /\ t.avail \in Nat /\ t.limit \in Nat
  BY <1>1 DEF TreeOn
<1> QED BY <1>1, <1>2, <1>3, <1>4

(* A tree with other nodes is a tree. *)
LEMMA WithNodes ==
  ASSUME NEW t \in Tree, NEW D \in SUBSET (Nat \ {0}), IsFiniteSet(D), NEW f \in [D -> Node]
  PROVE  /\ [t EXCEPT !.node = f] \in Tree /\ [t EXCEPT !.node = f] \in TreeOn(D)
         /\ [t EXCEPT !.node = f].node = f
         /\ [t EXCEPT !.node = f].first_free_id = t.first_free_id
         /\ [t EXCEPT !.node = f].avail = t.avail
         /\ [t EXCEPT !.node = f].limit = t.limit
         /\ [t EXCEPT !.node = f].height = t.height
<1>1. PICK E \in SUBSET (Nat \ {0}) : IsFiniteSet(E) /\ t \in TreeOn(E)
  BY DEF Tree
<1>2. /\ [t EXCEPT !.node = f] \in TreeOn(D)
      /\ [t EXCEPT !.node = f].node = f
      /\ [t EXCEPT !.node = f].first_free_id = t.first_free_id
      /\ [t EXCEPT !.node = f].avail = t.avail
      /\ [t EXCEPT !.node = f].limit = t.limit
      /\ [t EXCEPT !.node = f].height = t.height
  BY <1>1 DEF TreeOn
<1>3. [t EXCEPT !.node = f] \in Tree
  BY <1>2 DEF Tree
<1> QED BY <1>2, <1>3

(* A tree with another first free number is a tree. *)
LEMMA WithFirst ==
  ASSUME NEW t \in Tree, NEW i \in Nat
  PROVE  /\ [t EXCEPT !.first_free_id = i] \in Tree
         /\ [t EXCEPT !.first_free_id = i].node = t.node
         /\ [t EXCEPT !.first_free_id = i].first_free_id = i
         /\ [t EXCEPT !.first_free_id = i].avail = t.avail
         /\ [t EXCEPT !.first_free_id = i].limit = t.limit
         /\ [t EXCEPT !.first_free_id = i].height = t.height
<1>1. PICK E \in SUBSET (Nat \ {0}) : IsFiniteSet(E) /\ t \in TreeOn(E)
  BY DEF Tree
<1>2. /\ [t EXCEPT !.first_free_id = i] \in TreeOn(E)
      /\ [t EXCEPT !.first_free_id = i].node = t.node
      /\ [t EXCEPT !.first_free_id = i].first_free_id = i
      /\ [t EXCEPT !.first_free_id = i].avail = t.avail
      /\ [t EXCEPT !.first_free_id = i].limit = t.limit
      /\ [t EXCEPT !.first_free_id = i].height = t.height
  BY <1>1 DEF TreeOn
<1>3. [t EXCEPT !.first_free_id = i] \in Tree
  BY <1>1, <1>2 DEF Tree
<1> QED BY <1>2, <1>3

(* The tree's file grows, the tree stays. *)
LEMMA GrowFacts ==
  ASSUME NEW t \in Tree, NEW k \in Nat
  PROVE  /\ Grow(t, k) \in Tree /\ Grow(t, k).node = t.node
         /\ Grow(t, k).first_free_id = t.first_free_id
         /\ Grow(t, k).avail = k /\ Grow(t, k).limit = t.limit
         /\ Grow(t, k).height = t.height
<1>1. PICK E \in SUBSET (Nat \ {0}) : IsFiniteSet(E) /\ t \in TreeOn(E)
  BY DEF Tree
<1>2. /\ Grow(t, k) \in TreeOn(E) /\ Grow(t, k).node = t.node
      /\ Grow(t, k).first_free_id = t.first_free_id
      /\ Grow(t, k).avail = k /\ Grow(t, k).limit = t.limit
      /\ Grow(t, k).height = t.height
  BY <1>1 DEF TreeOn, Grow
<1>3. Grow(t, k) \in Tree
  BY <1>1, <1>2 DEF Tree
<1> QED BY <1>2, <1>3

(* The numbers below the first free one are all taken. *)
LEMMA FirstFreeBound ==
  ASSUME NEW t \in Tree, NumbersOk(t)
  PROVE  /\ IsFiniteSet(Used(t)) /\ Cardinality(Used(t)) \in Nat
         /\ t.first_free_id \in Nat \ {0} /\ t.first_free_id <= Cardinality(Used(t))
         /\ Cardinality(Used(t)) <= t.avail
<1>1. DOMAIN t.node \subseteq Nat \ {0} /\ IsFiniteSet(DOMAIN t.node) /\ t.first_free_id \in Nat
      /\ t.avail \in Nat
  BY TreeFacts
<1>2. IsFiniteSet(Used(t)) /\ Cardinality(Used(t)) \in Nat
  <2>1. IsFiniteSet(DOMAIN t.node \cup {0})
    BY <1>1, FS_AddElement
  <2>2. Used(t) = DOMAIN t.node \cup {0}
    BY DEF Used
  <2> QED BY <2>1, <2>2, FS_CardinalityType
<1>3. t.first_free_id # 0
  BY DEF NumbersOk, Used
<1>4. PICK f \in Nat : f = t.first_free_id
  BY <1>1
<1>6. 0 .. f - 1 \subseteq Used(t)
  BY <1>4 DEF NumbersOk
<1>7. IsFiniteSet(0 .. f - 1) /\ Cardinality(0 .. f - 1) = f
  <2>1. 0 \in Int /\ f - 1 \in Int
    BY <1>4
  <2>2. IsFiniteSet(0 .. f - 1) /\ Cardinality(0 .. f - 1) = IF 0 > f - 1 THEN 0 ELSE f - 1 - 0 + 1
    BY <2>1, FS_Interval
  <2> QED BY <1>3, <1>4, <2>2
<1>8. f <= Cardinality(Used(t))
  BY <1>2, <1>6, <1>7, FS_Subset
<1>9. Cardinality(Used(t)) <= t.avail
  <2>1. PICK a \in Nat : a = t.avail
    BY <1>1
  <2>2. Used(t) \subseteq 0 .. a - 1
    BY <1>1, <2>1 DEF Used, NumbersOk
  <2>3. 0 \in Int /\ a - 1 \in Int /\ 0 \in Used(t)
    BY DEF Used
  <2>4. IsFiniteSet(0 .. a - 1) /\ Cardinality(0 .. a - 1) = IF 0 > a - 1 THEN 0 ELSE a - 1 - 0 + 1
    BY <2>3, FS_Interval
  <2>5. Cardinality(Used(t)) <= Cardinality(0 .. a - 1)
    BY <2>2, <2>4, FS_Subset
  <2>6. 0 \in 0 .. a - 1
    BY <2>2, <2>3
  <2>7. Cardinality(0 .. a - 1) = a
    BY <2>4, <2>6
  <2> QED BY <2>1, <2>5, <2>7
<1> QED BY <1>2, <1>3, <1>4, <1>8, <1>9

(* The number after the first free one that is free. *)
LEMMA NextFree ==
  ASSUME NEW id \in Nat, NEW used \in SUBSET Nat, IsFiniteSet(used), id \in used,
         \A i \in Nat : i < id => i \in used,
         NEW next, next = Min((id + 1 .. id + 1 + Cardinality(used)) \ used)
  PROVE  next \in Nat /\ next \notin used /\ \A i \in Nat : i < next => i \in used
<1>1. PICK c \in Nat : c = Cardinality(used)
  BY FS_CardinalityType
<1> DEFINE I == id + 1 .. id + 1 + c
           T == I \ used
<1>2. IsFiniteSet(I) /\ Cardinality(I) = c + 1
  <2>1. id + 1 \in Int /\ id + 1 + c \in Int
    OBVIOUS
  <2>2. IsFiniteSet(I) /\ Cardinality(I) = IF id + 1 > id + 1 + c THEN 0 ELSE (id + 1 + c) - (id + 1) + 1
    BY <2>1, FS_Interval
  <2> QED BY <2>2
<1>3. T # {}
  <2> SUFFICES ASSUME T = {} PROVE FALSE
    OBVIOUS
  <2>1. I \subseteq used
    OBVIOUS
  <2>2. Cardinality(I) <= Cardinality(used)
    BY <2>1, FS_Subset
  <2> QED BY <1>1, <1>2, <2>2
<1>4. T \in SUBSET Nat
  OBVIOUS
<1>5. next \in T /\ \A y \in T : next <= y
  <2> HIDE DEF T
  <2>1. next = Min(T)
    BY <1>1 DEF T
  <2>2. Min(T) \in T /\ \A y \in T : Min(T) <= y
    BY <1>3, <1>4, MinIsLeast
  <2> QED BY <2>1, <2>2
<1>6. next \in Nat /\ next \notin used /\ next <= id + 1 + c
  BY <1>5
<1>7. ASSUME NEW i \in Nat, i < next PROVE i \in used
  <2>1. CASE i <= id
    BY <2>1
  <2>2. CASE i > id
    <3>1. i \in I
      BY <1>6, <1>7, <2>2
    <3>2. i \notin T
      BY <1>5, <1>6, <1>7
    <3> QED BY <3>1, <3>2
  <2> QED BY <2>1, <2>2
<1> QED BY <1>6, <1>7

(* What a new node number does to the tree. *)
Allocated(t, n, r) ==
  /\ r.t \in Tree /\ NumbersOk(r.t)
  /\ r.id \notin Used(t) /\ r.id \in Nat
  /\ DOMAIN r.t.node = DOMAIN t.node \cup {r.id}
  /\ r.t.node[r.id] = n /\ \A i \in DOMAIN t.node : r.t.node[i] = t.node[i]
  /\ r.t.height = t.height /\ r.t.limit = t.limit

(* Taking the first free number, when it is in the tree's file. *)
LEMMA TakeNumberOk ==
  ASSUME NEW t \in Tree, NumbersOk(t), t.first_free_id < t.avail, NEW n \in Node
  PROVE  /\ Allocated(t, n, TakeNumber(t, t.first_free_id, n))
         /\ TakeNumber(t, t.first_free_id, n).err = "0"
         /\ TakeNumber(t, t.first_free_id, n).id = t.first_free_id
         /\ TakeNumber(t, t.first_free_id, n).t.avail = t.avail
         /\ Cardinality(Used(TakeNumber(t, t.first_free_id, n).t)) = Cardinality(Used(t)) + 1
<1>1. PICK id \in Nat : id = t.first_free_id
  BY TreeFacts
<1>2. IsFiniteSet(Used(t)) /\ Used(t) \in SUBSET Nat /\ id # 0 /\ id \notin Used(t)
      /\ Cardinality(Used(t)) \in Nat
  BY <1>1, FirstFreeBound, TreeFacts DEF Used, NumbersOk
<1> DEFINE D == DOMAIN t.node \cup {id}
           f == [i \in D |-> IF i = id THEN n ELSE t.node[i]]
           used == Used(t) \cup {id}
           next == Min((id + 1 .. id + 1 + Cardinality(used)) \ used)
           r == TakeNumber(t, id, n)
<1>3. D \in SUBSET (Nat \ {0}) /\ IsFiniteSet(D) /\ f \in [D -> Node]
  <2>1. DOMAIN t.node \subseteq Nat \ {0} /\ IsFiniteSet(DOMAIN t.node) /\ t.node \in [DOMAIN t.node -> Node]
    BY TreeFacts
  <2> QED BY <1>2, <2>1, FS_AddElement
<1>4. IsFiniteSet(used) /\ Cardinality(used) = Cardinality(Used(t)) + 1 /\ used \in SUBSET Nat
  BY <1>2, FS_AddElement
<1>5. next \in Nat /\ next \notin used /\ \A i \in Nat : i < next => i \in used
  <2>1. id \in used /\ \A i \in Nat : i < id => i \in used
    BY <1>1 DEF NumbersOk
  <2> HIDE DEF used
  <2> QED BY <1>4, <2>1, NextFree
<1>6. r = [t |-> [[t EXCEPT !.node = f] EXCEPT !.first_free_id = next], err |-> "0", id |-> id]
  BY DEF TakeNumber
<1> HIDE DEF next, r
<1>7. PICK u \in Tree : /\ u = [t EXCEPT !.node = f] /\ u.node = f
                        /\ u.avail = t.avail /\ u.limit = t.limit /\ u.height = t.height
  <2> HIDE DEF D, f
  <2>1. PICK w : w = [t EXCEPT !.node = f]
    OBVIOUS
  <2>2. /\ w \in Tree /\ w.node = f
        /\ w.avail = t.avail /\ w.limit = t.limit /\ w.height = t.height
    BY <1>3, <2>1, WithNodes
  <2> QED BY <2>1, <2>2
<1>8. /\ r.t \in Tree /\ r.t.node = f /\ r.t.first_free_id = next
      /\ r.t.avail = t.avail /\ r.t.limit = t.limit /\ r.t.height = t.height
      /\ r.err = "0" /\ r.id = id
  <2>1. r = [t |-> [u EXCEPT !.first_free_id = next], err |-> "0", id |-> id]
    BY <1>6, <1>7
  <2>2. PICK v : v = [u EXCEPT !.first_free_id = next]
    OBVIOUS
  <2>3. /\ v \in Tree /\ v.node = u.node /\ v.first_free_id = next
        /\ v.avail = u.avail /\ v.limit = u.limit /\ v.height = u.height
    BY <1>5, <2>2, WithFirst
  <2>4. r.t = v /\ r.err = "0" /\ r.id = id
    BY <2>1, <2>2
  <2> QED BY <1>7, <2>3, <2>4
<1>9. DOMAIN r.t.node = D /\ Used(r.t) = used
  BY <1>8 DEF Used
<1>10. NumbersOk(r.t)
  <2>1. \A i \in used : i < r.t.avail
    BY <1>1, <1>8 DEF NumbersOk
  <2> HIDE DEF used
  <2> QED BY <1>5, <1>8, <1>9, <2>1 DEF NumbersOk
<1>11. r.t.node[id] = n /\ \A i \in DOMAIN t.node : r.t.node[i] = t.node[i]
  <2>1. \A i \in DOMAIN t.node : i # id
    BY <1>2 DEF Used
  <2> QED BY <1>8, <2>1
<1>12. Allocated(t, n, r)
  BY <1>2, <1>8, <1>9, <1>10, <1>11 DEF Allocated
<1> QED BY <1>1, <1>4, <1>8, <1>9, <1>12 DEF r

(* A new node gets the least free number, one that no node has, and the    *)
(* number is in the tree's file, which grows by a node when it was not; if *)
(* the metadata area has no room for that, nothing changes.  first_free_id *)
(* is the least free number afterwards, which the assertion at the next    *)
(* call rests on.                                                          *)
THEOREM AllocExact ==
  ASSUME NEW t \in Tree, NumbersOk(t), NEW n \in Node,
         NEW r, r = vdfs2_alloc_new_bnode(t, n)
  PROVE  \/ r.err = "0" /\ r.id = t.first_free_id /\ Allocated(t, n, r)
         \/ r.err = "ENOSPC" /\ r.t = t /\ t.avail = t.limit
<1>1. /\ t.first_free_id \in Nat /\ t.avail \in Nat /\ t.limit \in Nat /\ t.avail <= t.limit
  BY TreeFacts DEF NumbersOk
<1>2. t.first_free_id <= t.avail
  BY <1>1, FirstFreeBound
<1>3. CASE t.first_free_id < t.avail
  <2>1. r = TakeNumber(t, t.first_free_id, n)
    BY <1>1, <1>3 DEF vdfs2_alloc_new_bnode
  <2> QED BY <1>3, <2>1, TakeNumberOk
<1>4. CASE ~(t.first_free_id < t.avail)
  <2>1. PICK k \in Nat : k = t.first_free_id + 1 /\ t.avail = t.first_free_id /\ k = t.avail + 1
    BY <1>1, <1>2, <1>4
  <2>2. PICK g \in Tree : /\ g = Grow(t, k) /\ g.node = t.node /\ g.first_free_id = t.first_free_id
                          /\ g.avail = k /\ g.limit = t.limit /\ g.height = t.height
    BY <2>1, GrowFacts
  <2>3. r = IF k > t.limit THEN Err(t, "ENOSPC") ELSE TakeNumber(g, t.first_free_id, n)
    BY <1>4, <2>1, <2>2 DEF vdfs2_alloc_new_bnode
  <2>4. CASE k > t.limit
    BY <1>1, <2>1, <2>3, <2>4 DEF Err
  <2>5. CASE ~(k > t.limit)
    <3>1. Used(g) = Used(t)
      BY <2>2 DEF Used
    <3>2. NumbersOk(g) /\ g.first_free_id < g.avail
      <4>1. Used(t) \subseteq Nat /\ \A i \in Used(t) : i < k
        BY <1>1, <2>1, TreeFacts DEF NumbersOk, Used
      <4> QED BY <1>1, <2>1, <2>2, <2>5, <3>1, <4>1 DEF NumbersOk
    <3>3. r = TakeNumber(g, g.first_free_id, n)
      BY <2>2, <2>3, <2>5
    <3>4. Allocated(g, n, r) /\ r.err = "0" /\ r.id = g.first_free_id
      BY <3>2, <3>3, TakeNumberOk
    <3>5. Allocated(t, n, r)
      BY <2>2, <3>1, <3>4 DEF Allocated
    <3> QED BY <2>2, <3>4, <3>5
  <2> QED BY <2>4, <2>5
<1> QED BY <1>3, <1>4

(* The number of a node that goes is free again, and the first free number *)
(* is lowered to it if it was above it.                                    *)
THEOREM DestroyExact ==
  ASSUME NEW t \in Tree, NumbersOk(t), NEW id \in DOMAIN t.node,
         NEW u, u = vdfs2_destroy_bnode(t, id)
  PROVE  /\ u \in Tree /\ NumbersOk(u)
         /\ DOMAIN u.node = DOMAIN t.node \ {id}
         /\ \A i \in DOMAIN u.node : u.node[i] = t.node[i]
<1> DEFINE D == DOMAIN t.node \ {id}
           f == [i \in D |-> t.node[i]]
           first == IF t.first_free_id > id THEN id ELSE t.first_free_id
<1>1. /\ DOMAIN t.node \subseteq Nat \ {0} /\ IsFiniteSet(DOMAIN t.node)
      /\ t.node \in [DOMAIN t.node -> Node] /\ t.first_free_id \in Nat /\ t.avail \in Nat
  BY TreeFacts
<1>2. D \in SUBSET (Nat \ {0}) /\ IsFiniteSet(D) /\ f \in [D -> Node]
  BY <1>1, FS_RemoveElement
<1>3. PICK v \in Tree : /\ v = [t EXCEPT !.node = f] /\ v.node = f /\ v.first_free_id = t.first_free_id
                        /\ v.avail = t.avail /\ v.limit = t.limit
  <2> HIDE DEF D, f
  <2>1. PICK w : w = [t EXCEPT !.node = f]
    OBVIOUS
  <2>2. /\ w \in Tree /\ w.node = f /\ w.first_free_id = t.first_free_id
        /\ w.avail = t.avail /\ w.limit = t.limit
    BY <1>2, <2>1, WithNodes
  <2> QED BY <2>1, <2>2
<1>4. first \in Nat /\ id \in Nat /\ id # 0
  BY <1>1
<1>5. u = [v EXCEPT !.first_free_id = first]
  BY <1>3 DEF vdfs2_destroy_bnode
<1> HIDE DEF first
<1>6. u \in Tree /\ u.node = f /\ u.first_free_id = first /\ u.avail = t.avail /\ u.limit = t.limit
  <2>1. /\ u \in Tree /\ u.node = v.node /\ u.first_free_id = first
        /\ u.avail = v.avail /\ u.limit = v.limit
    BY <1>4, <1>5, WithFirst
  <2> QED BY <1>3, <2>1
<1>7. Used(u) = Used(t) \ {id} /\ DOMAIN u.node = D
  BY <1>4, <1>6 DEF Used
<1>8. first \notin Used(u) /\ \A i \in Nat : i < first => i \in Used(u)
  BY <1>1, <1>4, <1>7 DEF NumbersOk, first
<1>9. NumbersOk(u)
  BY <1>6, <1>7, <1>8 DEF NumbersOk
<1>10. \A i \in DOMAIN u.node : u.node[i] = t.node[i]
  BY <1>6, <1>7
<1> QED BY <1>6, <1>7, <1>9, <1>10

(* There are k free numbers in the tree's file. *)
Room(t, k) == Cardinality(Used(t)) + k <= t.avail

(* What vdfs2_check_bnode_reserve() is for: once it has succeeded, as many *)
(* new nodes as the reserve has cannot fail, and need nothing of the       *)
(* metadata area.  When it fails, the nodes are as they were.              *)
THEOREM ReserveSuffices ==
  ASSUME NEW t \in Tree, NumbersOk(t)
  PROVE  /\ LET c == vdfs2_check_bnode_reserve(t)
            IN  /\ c.t \in Tree /\ NumbersOk(c.t) /\ c.t.node = t.node
                /\ c.err = "0" => Room(c.t, VDFS2_BNODE_RESERVE(t))
                /\ c.err \in {"0", "ENOSPC"}
         /\ \A k \in Nat, n \in Node :
              Room(t, k + 1) => LET r == vdfs2_alloc_new_bnode(t, n)
                                IN  r.err = "0" /\ r.t.avail = t.avail /\ Room(r.t, k)
<1>1. /\ t.first_free_id \in Nat /\ t.avail \in Nat /\ t.limit \in Nat /\ t.avail <= t.limit
      /\ t.height \in Nat
  BY TreeFacts DEF NumbersOk
<1>2. /\ Cardinality(Used(t)) \in Nat /\ t.first_free_id <= Cardinality(Used(t))
      /\ Cardinality(Used(t)) <= t.avail
  BY FirstFreeBound
<1>3. PICK want \in Nat : want = Cardinality(Used(t)) + VDFS2_BNODE_RESERVE(t)
  BY <1>1, <1>2 DEF VDFS2_BNODE_RESERVE
<1>4. ASSUME NEW k \in Nat, k >= t.avail, k <= t.limit
      PROVE  Grow(t, k) \in Tree /\ NumbersOk(Grow(t, k)) /\ Grow(t, k).node = t.node
             /\ Grow(t, k).avail = k /\ Used(Grow(t, k)) = Used(t)
  <2>1. PICK g \in Tree : /\ g = Grow(t, k) /\ g.node = t.node /\ g.first_free_id = t.first_free_id
                          /\ g.avail = k /\ g.limit = t.limit
    BY GrowFacts
  <2>2. Used(g) = Used(t)
    BY <2>1 DEF Used
  <2>3. Used(t) \subseteq Nat
    BY TreeFacts DEF Used
  <2>4. \A i \in Used(t) : i < k
    BY <1>1, <1>4, <2>3 DEF NumbersOk
  <2>5. NumbersOk(g)
    BY <1>4, <2>1, <2>2, <2>4 DEF NumbersOk
  <2> QED BY <2>1, <2>2, <2>5
<1>5. LET c == vdfs2_check_bnode_reserve(t)
      IN  /\ c.t \in Tree /\ NumbersOk(c.t) /\ c.t.node = t.node
          /\ c.err = "0" => Room(c.t, VDFS2_BNODE_RESERVE(t))
          /\ c.err \in {"0", "ENOSPC"}
  <2> DEFINE c == vdfs2_check_bnode_reserve(t)
  <2>0. c = IF want <= t.avail THEN Ok(t)
            ELSE IF want <= t.limit THEN Ok(Grow(t, want))
            ELSE Err(Grow(t, IF t.avail < t.limit THEN t.limit ELSE t.avail), "ENOSPC")
    BY <1>3 DEF vdfs2_check_bnode_reserve
  <2> HIDE DEF c
  <2>1. CASE want <= t.avail
    <3>1. c.t = t /\ c.err = "0"
      BY <2>0, <2>1 DEF Ok
    <3>2. Room(t, VDFS2_BNODE_RESERVE(t))
      BY <1>3, <2>1 DEF Room
    <3> QED BY <3>1, <3>2 DEF c
  <2>2. CASE ~(want <= t.avail) /\ want <= t.limit
    <3>1. c.t = Grow(t, want) /\ c.err = "0"
      BY <2>0, <2>2 DEF Ok
    <3>2. want >= t.avail
      BY <1>1, <2>2
    <3>3. /\ Grow(t, want) \in Tree /\ NumbersOk(Grow(t, want)) /\ Grow(t, want).node = t.node
          /\ Grow(t, want).avail = want /\ Used(Grow(t, want)) = Used(t)
      BY <1>4, <2>2, <3>2
    <3>4. Room(Grow(t, want), VDFS2_BNODE_RESERVE(t))
      BY <1>3, <3>3 DEF Room
    <3> QED BY <3>1, <3>3, <3>4 DEF c
  <2>3. CASE ~(want <= t.avail) /\ ~(want <= t.limit)
    <3>1. PICK k \in Nat : k = (IF t.avail < t.limit THEN t.limit ELSE t.avail)
                           /\ k >= t.avail /\ k <= t.limit
      BY <1>1
    <3>2. c.t = Grow(t, k) /\ c.err = "ENOSPC"
      BY <2>0, <2>3, <3>1 DEF Err
    <3>3. Grow(t, k) \in Tree /\ NumbersOk(Grow(t, k)) /\ Grow(t, k).node = t.node
      BY <1>4, <3>1
    <3> QED BY <3>2, <3>3 DEF c
  <2> QED BY <2>1, <2>2, <2>3
<1>6. ASSUME NEW k \in Nat, NEW n \in Node, Room(t, k + 1)
      PROVE  LET r == vdfs2_alloc_new_bnode(t, n)
             IN  r.err = "0" /\ r.t.avail = t.avail /\ Room(r.t, k)
  <2>1. t.first_free_id < t.avail
    BY <1>1, <1>2, <1>6 DEF Room
  <2>2. PICK r : r = vdfs2_alloc_new_bnode(t, n)
    OBVIOUS
  <2>3. r = TakeNumber(t, t.first_free_id, n)
    BY <1>1, <2>1, <2>2 DEF vdfs2_alloc_new_bnode
  <2>4. r.err = "0" /\ r.t.avail = t.avail /\ Cardinality(Used(r.t)) = Cardinality(Used(t)) + 1
    BY <2>1, <2>3, TakeNumberOk
  <2>5. Room(r.t, k)
    BY <1>1, <1>2, <1>6, <2>4 DEF Room
  <2> QED BY <2>2, <2>4, <2>5
<1> QED BY <1>5, <1>6
--------------------------------------------------------------------------
(* A sequence is its two parts. *)
LEMMA CutConcat ==
  ASSUME NEW s \in Seq(Record), NEW c \in 1 .. Len(s) - 1
  PROVE  /\ SubSeq(s, 1, c) \in Seq(Record) /\ SubSeq(s, c + 1, Len(s)) \in Seq(Record)
         /\ SubSeq(s, 1, c) # <<>> /\ SubSeq(s, c + 1, Len(s)) # <<>>
         /\ SubSeq(s, 1, c) \o SubSeq(s, c + 1, Len(s)) = s
<1>0. Len(s) \in Nat /\ c \in Nat /\ c >= 1 /\ c < Len(s)
  BY LenProperties
<1>1. PICK A : A = SubSeq(s, 1, c)
  OBVIOUS
<1>2. PICK C : C = SubSeq(s, c + 1, Len(s))
  OBVIOUS
<1>3. A \in Seq(Record) /\ Len(A) = c /\ \A i \in 1 .. c : A[i] = s[i]
  <2>1. /\ SubSeq(s, 1, c) \in Seq(Record) /\ Len(SubSeq(s, 1, c)) = (c - 1) + 1
        /\ \A i \in 1 .. (c - 1) + 1 : SubSeq(s, 1, c)[i] = s[(1 + i) - 1]
    BY <1>0, PartFacts, 1 \in Nat \ {0}
  <2> QED BY <1>0, <1>1, <2>1
<1>4. C \in Seq(Record) /\ Len(C) = Len(s) - c /\ \A i \in 1 .. Len(s) - c : C[i] = s[c + i]
  <2>1. c + 1 \in Nat \ {0} /\ Len(s) <= Len(s) /\ c + 1 <= Len(s) + 1
    BY <1>0
  <2>2. /\ SubSeq(s, c + 1, Len(s)) \in Seq(Record)
        /\ Len(SubSeq(s, c + 1, Len(s))) = (Len(s) - (c + 1)) + 1
        /\ \A i \in 1 .. (Len(s) - (c + 1)) + 1 : SubSeq(s, c + 1, Len(s))[i] = s[((c + 1) + i) - 1]
    BY <1>0, <2>1, PartFacts
  <2>3. (Len(s) - (c + 1)) + 1 = Len(s) - c /\ \A i \in 1 .. Len(s) - c : ((c + 1) + i) - 1 = c + i
    BY <1>0
  <2> QED BY <1>2, <2>2, <2>3
<1>5. /\ A \o C \in Seq(Record) /\ Len(A \o C) = Len(A) + Len(C)
      /\ \A i \in 1 .. Len(A) + Len(C) : (A \o C)[i] = IF i <= Len(A) THEN A[i] ELSE C[i - Len(A)]
  BY <1>3, <1>4, ConcatProperties
<1>6. Len(A) + Len(C) = Len(s)
  BY <1>0, <1>3, <1>4
<1>7. ASSUME NEW i \in 1 .. Len(s) PROVE (A \o C)[i] = s[i]
  <2>1. CASE i <= c
    BY <1>0, <1>3, <1>5, <1>6, <2>1
  <2>2. CASE ~(i <= c)
    <3>1. i - c \in 1 .. Len(s) - c /\ c + (i - c) = i
      BY <1>0, <2>2
    <3>2. (A \o C)[i] = C[i - c]
      BY <1>3, <1>5, <1>6, <2>2
    <3> QED BY <1>4, <3>1, <3>2
  <2> QED BY <2>1, <2>2
<1>8. A \o C = s
  BY <1>5, <1>6, <1>7, SeqEqual
<1>9. A # <<>> /\ C # <<>>
  BY <1>0, <1>3, <1>4, EmptySeq
<1> QED BY <1>1, <1>2, <1>3, <1>4, <1>8, <1>9

(* A record placed after the last one that is smaller. *)
LEMMA InsertSorted ==
  ASSUME NEW recs \in Seq(Record), Sorted(recs), NEW rec \in Record, NEW pos \in 1 .. Len(recs),
         LastUpTo(recs, rec.key, pos), recs[pos].key # rec.key
  PROVE  Sorted(InsertAt(recs, pos + 1, rec))
<1>0. Len(recs) \in Nat /\ pos \in Nat /\ \A i \in 1 .. Len(recs) : recs[i].key \in Nat
  BY LenProperties, KeysAreNumbers
<1>1. PICK w : w = InsertAt(recs, pos + 1, rec)
  OBVIOUS
<1>2. /\ Len(w) = Len(recs) + 1
      /\ \A i \in 1 .. Len(recs) + 1 :
           w[i] = IF i < pos + 1 THEN recs[i] ELSE IF i = pos + 1 THEN rec ELSE recs[i - 1]
  <2>1. pos + 1 \in 1 .. Len(recs) + 1
    BY <1>0
  <2>2. PICK p \in 1 .. Len(recs) + 1 : p = pos + 1
    BY <2>1
  <2>3. /\ Len(InsertAt(recs, p, rec)) = Len(recs) + 1
        /\ \A i \in 1 .. Len(recs) + 1 :
             InsertAt(recs, p, rec)[i] = IF i < p THEN recs[i] ELSE IF i = p THEN rec ELSE recs[i - 1]
    BY InsertFacts
  <2> QED BY <1>1, <2>2, <2>3
<1>3. rec.key \in Nat
  <2>1. Key \cup {First} \subseteq Nat
    BY NodeConstants DEF First
  <2>2. rec.key \in Key \cup {First}
    BY DEF Record
  <2> QED BY <2>1, <2>2
<1>4. \A i \in 1 .. Len(recs) : IF i <= pos THEN recs[i].key < rec.key ELSE rec.key < recs[i].key
  <2> SUFFICES ASSUME NEW i \in 1 .. Len(recs)
               PROVE  IF i <= pos THEN recs[i].key < rec.key ELSE rec.key < recs[i].key
    OBVIOUS
  <2>1. i <= pos <=> recs[i].key <= rec.key
    BY DEF LastUpTo
  <2>2. pos <= pos <=> recs[pos].key <= rec.key
    BY DEF LastUpTo
  <2>3. recs[pos].key < rec.key
    BY <1>0, <1>3, <2>2
  <2>4. i < pos => recs[i].key < recs[pos].key
    BY DEF Sorted
  <2> QED BY <1>0, <1>3, <2>1, <2>3, <2>4
<1>5. ASSUME NEW i \in 1 .. Len(w), NEW j \in 1 .. Len(w), i < j PROVE w[i].key < w[j].key
  <2>0. i \in 1 .. Len(recs) + 1 /\ j \in 1 .. Len(recs) + 1
    BY <1>2
  <2>1. CASE i <= pos /\ j <= pos
    BY <1>0, <1>2, <1>5, <2>0, <2>1 DEF Sorted
  <2>2. CASE i <= pos /\ j = pos + 1
    BY <1>0, <1>2, <1>4, <2>0, <2>2
  <2>3. CASE i <= pos /\ j > pos + 1
    <3>1. i \in 1 .. Len(recs) /\ j - 1 \in 1 .. Len(recs) /\ i < j - 1
      BY <1>0, <2>0, <2>3
    <3>2. w[i] = recs[i] /\ w[j] = recs[j - 1]
      BY <1>0, <1>2, <2>0, <2>3
    <3> QED BY <3>1, <3>2 DEF Sorted
  <2>4. CASE i = pos + 1 /\ j > pos + 1
    <3>1. j - 1 \in 1 .. Len(recs) /\ ~(j - 1 <= pos)
      BY <1>0, <2>0, <2>4
    <3>2. w[i] = rec /\ w[j] = recs[j - 1]
      BY <1>0, <1>2, <2>0, <2>4
    <3> QED BY <1>4, <3>1, <3>2
  <2>5. CASE i > pos + 1 /\ j > pos + 1
    <3>1. i - 1 \in 1 .. Len(recs) /\ j - 1 \in 1 .. Len(recs) /\ i - 1 < j - 1
      BY <1>0, <1>5, <2>0, <2>5
    <3>2. w[i] = recs[i - 1] /\ w[j] = recs[j - 1]
      BY <1>0, <1>2, <2>0, <2>5
    <3> QED BY <3>1, <3>2 DEF Sorted
  <2> QED BY <1>0, <1>5, <2>0, <2>1, <2>2, <2>3, <2>4, <2>5
<1> QED BY <1>1, <1>5 DEF Sorted

(* Trees that differ in their nodes' contents only. *)
SameNumbers(t, u) ==
  /\ DOMAIN u.node = DOMAIN t.node /\ u.first_free_id = t.first_free_id
  /\ u.avail = t.avail /\ u.limit = t.limit /\ u.height = t.height

(* Numbers do not depend on the nodes' contents. *)
LEMMA SameNumbersOk ==
  ASSUME NEW t, NEW u, SameNumbers(t, u), NumbersOk(t)
  PROVE  NumbersOk(u)
  BY DEF SameNumbers, NumbersOk, Used

(* One node has other contents. *)
LEMMA SetNodeFacts ==
  ASSUME NEW t \in Tree, NEW id \in DOMAIN t.node, NEW n \in Node
  PROVE  /\ SetNode(t, id, n) \in Tree /\ SameNumbers(t, SetNode(t, id, n))
         /\ SetNode(t, id, n).node[id] = n
         /\ \A i \in DOMAIN t.node \ {id} : SetNode(t, id, n).node[i] = t.node[i]
<1>1. PICK D \in SUBSET (Nat \ {0}) : IsFiniteSet(D) /\ t \in TreeOn(D) /\ DOMAIN t.node = D
  BY TreeFacts
<1>2. t.node \in [D -> Node] /\ id \in D
  BY <1>1 DEF TreeOn
<1>3. PICK f \in [D -> Node] : f = [t.node EXCEPT ![id] = n]
  BY <1>2
<1>4. SetNode(t, id, n) = [t EXCEPT !.node = f]
  BY <1>3 DEF SetNode
<1>5. PICK u : u = [t EXCEPT !.node = f]
  OBVIOUS
<1>6. /\ u \in Tree /\ u.node = f /\ u.first_free_id = t.first_free_id
      /\ u.avail = t.avail /\ u.limit = t.limit /\ u.height = t.height
  BY <1>1, <1>5, WithNodes
<1>7. f[id] = n /\ DOMAIN f = D /\ \A i \in D \ {id} : f[i] = t.node[i]
  BY <1>2, <1>3
<1> QED BY <1>1, <1>4, <1>5, <1>6, <1>7 DEF SameNumbers

(* One node, if any, has another left neighbour. *)
LEMMA SetPrevFacts ==
  ASSUME NEW t \in Tree, NEW id \in DOMAIN t.node \cup {0}, NEW p \in Nat
  PROVE  /\ SetPrev(t, id, p) \in Tree /\ SameNumbers(t, SetPrev(t, id, p))
         /\ id # 0 => SetPrev(t, id, p).node[id] = [t.node[id] EXCEPT !.prev = p]
         /\ \A i \in DOMAIN t.node \ {id} : SetPrev(t, id, p).node[i] = t.node[i]
<1>1. CASE id = 0
  BY <1>1 DEF SetPrev, SameNumbers, VDFS2_INVALID_NODE_ID
<1>2. CASE id # 0
  <2>1. id \in DOMAIN t.node /\ t.node[id] \in Node
    BY <1>2, TreeFacts
  <2>2. PICK n \in Node : n = [t.node[id] EXCEPT !.prev = p]
    BY <2>1 DEF Node
  <2>3. SetPrev(t, id, p) = SetNode(t, id, n)
    <3>1. PICK D \in SUBSET (Nat \ {0}) : t \in TreeOn(D)
      BY TreeFacts
    <3> QED BY <1>2, <2>1, <2>2, <3>1 DEF SetPrev, SetNode, VDFS2_INVALID_NODE_ID, TreeOn
  <2> QED BY <1>2, <2>1, <2>2, <2>3, SetNodeFacts
<1> QED BY <1>1, <1>2

--------------------------------------------------------------------------
(* A node of t became two in u, which have its records and one more.  They *)
(* are linked where the node was, and no other node has other records.     *)
Split(t, u, id, right, all) ==
  LET n == t.node[id]
      a == u.node[id]
      b == u.node[right]
  IN  /\ a.recs # <<>> /\ b.recs # <<>> /\ a.recs \o b.recs = all
      /\ free_space(a) >= 0 /\ free_space(b) >= 0
      /\ a.level = n.level /\ b.level = n.level
      /\ a.prev = n.prev /\ a.next = right /\ b.prev = id /\ b.next = n.next
      /\ n.next # VDFS2_INVALID_NODE_ID => u.node[n.next] = [t.node[n.next] EXCEPT !.prev = right]
      /\ \A i \in DOMAIN t.node \ {id, n.next} : u.node[i] = t.node[i]

(* A full node and the record that has no room in it. *)
FullNode(t, id, rec, len) ==
  /\ t.node[id].recs # <<>>
  /\ t.node[id].next \in (DOMAIN t.node \ {id}) \cup {VDFS2_INVALID_NODE_ID}
  /\ free_space(t.node[id]) >= 0 /\ free_space(t.node[id]) < len

(* The length a record is given: at least its own, and half a node has     *)
(* room for it.                                                            *)
LenOk(level, rec, len) ==
  record_len(level, rec.key) <= len /\ NodeHeader + len <= NodeSize \div 2

(* The parts of a node, and its free space as a number. *)
LEMMA FreeSpaceInt ==
  ASSUME NEW n \in Node
  PROVE  /\ n.recs \in Seq(Record) /\ n.level \in Nat \ {0} /\ n.prev \in Nat /\ n.next \in Nat
         /\ used_space(n.level, n.recs) \in Int
         /\ free_space(n) = NodeSize - NodeHeader - used_space(n.level, n.recs)
         /\ free_space(n) \in Int /\ NodeSize \in Nat /\ NodeHeader \in Nat
<1>1. n.recs \in Seq(Record) /\ n.level \in Nat \ {0} /\ n.prev \in Nat /\ n.next \in Nat
  BY DEF Node
<1>2. used_space(n.level, n.recs) \in Int
  BY <1>1, UsedConcat
<1>3. NodeSize \in Nat /\ NodeHeader \in Nat
  BY NodeConstants
<1>4. free_space(n) = NodeSize - NodeHeader - used_space(n.level, n.recs)
  BY DEF free_space
<1>5. free_space(n) \in Int
  BY <1>2, <1>3, <1>4
<1> QED BY <1>1, <1>2, <1>3, <1>4, <1>5

(* The split, once the new node is there. *)
LEMMA SplitExact ==
  ASSUME NEW t \in Tree, NEW v \in Tree, NEW id \in DOMAIN t.node, NEW right \in Nat \ {0},
         right \notin DOMAIN t.node, DOMAIN v.node = DOMAIN t.node \cup {right},
         \A i \in DOMAIN t.node : v.node[i] = t.node[i],
         NEW rec \in Record, NEW len \in Nat, LenOk(t.node[id].level, rec, len),
         FullNode(t, id, rec, len), NEW p \in 1 .. Len(t.node[id].recs) + 1,
         NEW r, r = split_bnode(v, id, right, rec, len, p)
  PROVE  /\ r.err = "0" /\ r.t \in Tree /\ SameNumbers(v, r.t)
         /\ Split(t, r.t, id, right, InsertAt(t.node[id].recs, p, rec))
<1>1. t.node \in [DOMAIN t.node -> Node] /\ id \in Nat \ {0}
  BY TreeFacts
<1>2. PICK n \in Node : n = t.node[id] /\ n = v.node[id]
  BY <1>1
<1>3. /\ n.recs \in Seq(Record) /\ n.level \in Nat \ {0} /\ n.prev \in Nat /\ n.next \in Nat
      /\ used_space(n.level, n.recs) \in Int
      /\ free_space(n) = NodeSize - NodeHeader - used_space(n.level, n.recs)
      /\ NodeSize \in Nat /\ NodeHeader \in Nat
  BY FreeSpaceInt
<1>4. PICK all : all = InsertAt(n.recs, p, rec)
  OBVIOUS
<1>5. PICK cut : cut = SplitCut(n.level, all, rec, len, p)
  OBVIOUS
<1>6. /\ all \in Seq(Record) /\ cut \in 1 .. Len(all) - 1
      /\ NodeHeader + used_space(n.level, SubSeq(all, 1, cut)) <= NodeSize
      /\ NodeHeader + used_space(n.level, SubSeq(all, cut + 1, Len(all))) <= NodeSize
  <2>1. n.recs # <<>> /\ p \in 1 .. Len(n.recs) + 1 /\ record_len(n.level, rec.key) <= len
        /\ NodeHeader + len <= NodeSize \div 2
    BY <1>2 DEF FullNode, LenOk
  <2>2. /\ NodeHeader + used_space(n.level, n.recs) <= NodeSize
        /\ NodeSize < NodeHeader + used_space(n.level, n.recs) + len
    <3>1. PICK x \in Int : x = used_space(n.level, n.recs)
      BY <1>3
    <3>2. NodeSize - NodeHeader - x >= 0 /\ NodeSize - NodeHeader - x < len
      BY <1>2, <1>3, <3>1 DEF FullNode
    <3>3. NodeHeader + x <= NodeSize /\ NodeSize < NodeHeader + x + len
      BY <1>3, <3>2
    <3> QED BY <3>1, <3>3
  <2> QED BY <1>3, <1>4, <1>5, <2>1, <2>2, CutFits
<1>7. PICK A \in Seq(Record), C \in Seq(Record) :
        /\ A = SubSeq(all, 1, cut) /\ C = SubSeq(all, cut + 1, Len(all))
        /\ A # <<>> /\ C # <<>> /\ A \o C = all
  <2>1. /\ SubSeq(all, 1, cut) \in Seq(Record) /\ SubSeq(all, cut + 1, Len(all)) \in Seq(Record)
        /\ SubSeq(all, 1, cut) # <<>> /\ SubSeq(all, cut + 1, Len(all)) # <<>>
        /\ SubSeq(all, 1, cut) \o SubSeq(all, cut + 1, Len(all)) = all
    BY <1>6, CutConcat
  <2> QED BY <2>1
<1>8. PICK a \in Node : /\ a = [n EXCEPT !.recs = SubSeq(all, 1, cut), !.next = right]
                        /\ a.recs = A /\ a.level = n.level /\ a.prev = n.prev /\ a.next = right
  <2>1. [n EXCEPT !.recs = A, !.next = right] \in Node
    BY DEF Node
  <2> QED BY <1>7, <2>1 DEF Node
<1>9. PICK b \in Node : /\ b = [level |-> n.level, recs |-> SubSeq(all, cut + 1, Len(all)),
                                prev |-> id, next |-> n.next]
                        /\ b.recs = C /\ b.level = n.level /\ b.prev = id /\ b.next = n.next
  <2>1. PICK w : w = [level |-> n.level, recs |-> C, prev |-> id, next |-> n.next]
    OBVIOUS
  <2>2. w \in Node /\ w.recs = C /\ w.level = n.level /\ w.prev = id /\ w.next = n.next
    BY <1>1, <1>3, <2>1 DEF Node
  <2> QED BY <1>7, <2>1, <2>2
<1>10. free_space(a) >= 0 /\ free_space(b) >= 0
  <2>1. /\ free_space(a) = NodeSize - NodeHeader - used_space(a.level, a.recs)
        /\ free_space(b) = NodeSize - NodeHeader - used_space(b.level, b.recs)
        /\ used_space(a.level, a.recs) \in Int /\ used_space(b.level, b.recs) \in Int
    BY FreeSpaceInt
  <2>2. PICK x \in Int, y \in Int : x = used_space(a.level, a.recs) /\ y = used_space(b.level, b.recs)
    BY <2>1
  <2>3. NodeHeader + x <= NodeSize /\ NodeHeader + y <= NodeSize
    BY <1>6, <1>7, <1>8, <1>9, <2>2
  <2>4. NodeSize - NodeHeader - x >= 0 /\ NodeSize - NodeHeader - y >= 0
    BY <1>3, <2>3
  <2> QED BY <2>1, <2>2, <2>4
<1>11. r = SplitAt(v, id, right, all, cut)
  BY <1>2, <1>4, <1>5 DEF split_bnode, place_into_node, Node
<1>12. ~(free_space(a) < 0) /\ ~(free_space(b) < 0)
  <2>1. PICK x \in Int, y \in Int : x = free_space(a) /\ y = free_space(b)
    BY FreeSpaceInt
  <2>2. x >= 0 /\ y >= 0
    BY <1>10, <2>1
  <2>3. ~(x < 0) /\ ~(y < 0)
    BY <2>2
  <2> QED BY <2>1, <2>3
<1>13. r = Ok(SetPrev(SetNode(SetNode(v, id, a), right, b), n.next, right))
  BY <1>2, <1>7, <1>8, <1>9, <1>11, <1>12 DEF SplitAt
<1>14. PICK v1 \in Tree : /\ v1 = SetNode(v, id, a) /\ SameNumbers(v, v1) /\ v1.node[id] = a
                          /\ \A i \in DOMAIN v.node \ {id} : v1.node[i] = v.node[i]
  BY SetNodeFacts
<1>15. PICK v2 \in Tree : /\ v2 = SetNode(v1, right, b) /\ SameNumbers(v1, v2) /\ v2.node[right] = b
                          /\ \A i \in DOMAIN v1.node \ {right} : v2.node[i] = v1.node[i]
  <2>1. right \in DOMAIN v1.node
    BY <1>14 DEF SameNumbers
  <2> QED BY <2>1, SetNodeFacts
<1>16. DOMAIN v2.node = DOMAIN t.node \cup {right} /\ SameNumbers(v, v2)
  BY <1>14, <1>15 DEF SameNumbers
<1>17. n.next \in (DOMAIN t.node \ {id}) \cup {0} /\ n.next # right /\ n.next # id
  BY <1>1, <1>2 DEF FullNode, VDFS2_INVALID_NODE_ID
<1>18. PICK u : u = SetPrev(v2, n.next, right)
  OBVIOUS
<1>19. /\ u \in Tree /\ SameNumbers(v2, u)
       /\ n.next # 0 => u.node[n.next] = [v2.node[n.next] EXCEPT !.prev = right]
       /\ \A i \in DOMAIN v2.node \ {n.next} : u.node[i] = v2.node[i]
  <2>1. n.next \in DOMAIN v2.node \cup {0} /\ right \in Nat
    BY <1>16, <1>17
  <2> QED BY <1>18, <2>1, SetPrevFacts
<1>20. u.node[id] = a /\ u.node[right] = b
  <2>1. id \in DOMAIN v2.node \ {n.next} /\ right \in DOMAIN v2.node \ {n.next}
        /\ id # right /\ id \in DOMAIN v1.node \ {right}
    BY <1>14, <1>16, <1>17 DEF SameNumbers
  <2> QED BY <1>14, <1>15, <1>19, <2>1
<1>21. ASSUME NEW i \in DOMAIN t.node \ {id} PROVE v2.node[i] = t.node[i]
  <2>1. i \in DOMAIN v.node \ {id} /\ i \in DOMAIN v1.node \ {right}
    BY <1>14 DEF SameNumbers
  <2> QED BY <1>14, <1>15, <2>1
<1>22. \A i \in DOMAIN t.node \ {id, n.next} : u.node[i] = t.node[i]
  BY <1>16, <1>19, <1>21
<1>23. n.next # 0 => u.node[n.next] = [t.node[n.next] EXCEPT !.prev = right]
  BY <1>17, <1>19, <1>21
<1>24. Split(t, u, id, right, all)
  BY <1>2, <1>7, <1>8, <1>9, <1>10, <1>20, <1>22, <1>23 DEF Split, VDFS2_INVALID_NODE_ID
<1>25. r.err = "0" /\ r.t = u
  BY <1>13, <1>14, <1>15, <1>18 DEF Ok
<1>26. SameNumbers(v, u)
  BY <1>16, <1>19 DEF SameNumbers
<1> QED BY <1>2, <1>4, <1>19, <1>24, <1>25, <1>26

(* The record is in the node, in the place its key gives it. *)
PlacedIn(t, u, id, rec, pos) ==
  /\ u.node[id] = [t.node[id] EXCEPT !.recs = InsertAt(@, pos + 1, rec)]
  /\ free_space(u.node[id]) >= 0
  /\ \A i \in DOMAIN t.node \ {id} : u.node[i] = t.node[i]
  /\ DOMAIN u.node = DOMAIN t.node

(* place_key_in_bnode(), for a record whose place binary_search() found in *)
(* a node in order.  The key is refused exactly when the node has it, and  *)
(* without a free node number nothing of the nodes changes.  Otherwise the *)
(* record is in the node or, when the node had no room, the node is split  *)
(* into two that fit, none of them empty, with all of its records and the  *)
(* new one in order and nothing else moved: no assertion of split_bnode()  *)
(* can fail.                                                               *)
THEOREM PlaceExact ==
  ASSUME NEW t \in Tree, NumbersOk(t), NEW id \in DOMAIN t.node,
         t.node[id].recs # <<>>, Sorted(t.node[id].recs), free_space(t.node[id]) >= 0,
         t.node[id].next \in (DOMAIN t.node \ {id}) \cup {VDFS2_INVALID_NODE_ID},
         NEW rec \in Record, NEW len \in Nat, LenOk(t.node[id].level, rec, len),
         NEW pos, pos = binary_search(t.node[id].recs, rec.key), pos # 0,
         NEW r, r = place_key_in_bnode(t, id, pos, rec, len)
  PROVE  /\ r.t \in Tree /\ NumbersOk(r.t)
         /\ r.err = "EEXIST" <=> \E i \in DOMAIN t.node[id].recs : t.node[id].recs[i].key = rec.key
         /\ r.err # "EEXIST" => Sorted(InsertAt(t.node[id].recs, pos + 1, rec))
         /\ \/ r.err = "EEXIST" /\ r.t = t
            \/ r.err = "ENOSPC" /\ r.t.node = t.node
            \/ /\ r.err = "0" /\ r.right = VDFS2_INVALID_NODE_ID
               /\ PlacedIn(t, r.t, id, rec, pos)
            \/ /\ r.err = "0" /\ r.right \notin Used(t)
               /\ DOMAIN r.t.node = DOMAIN t.node \cup {r.right}
               /\ Split(t, r.t, id, r.right, InsertAt(t.node[id].recs, pos + 1, rec))
<1>1. t.node \in [DOMAIN t.node -> Node] /\ id \in Nat \ {0}
  BY TreeFacts
<1>2. PICK n \in Node : n = t.node[id]
  BY <1>1
<1>3. /\ n.recs \in Seq(Record) /\ n.level \in Nat \ {0} /\ n.prev \in Nat /\ n.next \in Nat
      /\ used_space(n.level, n.recs) \in Int /\ free_space(n) \in Int
      /\ free_space(n) = NodeSize - NodeHeader - used_space(n.level, n.recs)
      /\ NodeSize \in Nat /\ NodeHeader \in Nat
  BY FreeSpaceInt
<1>4. rec.key \in Key \cup {First} /\ rec.key \in Nat
  <2>1. Key \cup {First} \subseteq Nat
    BY NodeConstants DEF First
  <2>2. rec.key \in Key \cup {First}
    BY DEF Record
  <2> QED BY <2>1, <2>2
<1>5. LastUpTo(n.recs, rec.key, pos)
  BY <1>2, <1>3, <1>4, SearchExact
<1>6. /\ Len(n.recs) \in Nat /\ DOMAIN n.recs = 1 .. Len(n.recs)
      /\ pos \in 1 .. Len(n.recs) /\ pos + 1 \in 1 .. Len(n.recs) + 1
  <2>1. Len(n.recs) \in Nat /\ DOMAIN n.recs = 1 .. Len(n.recs)
    BY <1>3, LenProperties
  <2> QED BY <1>5, <2>1 DEF LastUpTo
<1>7. \A i \in 1 .. Len(n.recs) : n.recs[i].key \in Nat
  BY <1>3, KeysAreNumbers
<1>8. (\E i \in 1 .. Len(n.recs) : n.recs[i].key = rec.key) <=> n.recs[pos].key = rec.key
  <2>1. ASSUME NEW i \in 1 .. Len(n.recs), n.recs[i].key = rec.key PROVE n.recs[pos].key = rec.key
    <3>1. i <= pos /\ n.recs[pos].key <= rec.key
      BY <1>4, <1>5, <1>6, <1>7, <2>1 DEF LastUpTo
    <3>2. i < pos => n.recs[i].key < n.recs[pos].key
      BY <1>2, <1>6 DEF Sorted
    <3> QED BY <1>4, <1>6, <1>7, <2>1, <3>1, <3>2
  <2> QED BY <1>6, <2>1
<1>9. CASE n.recs[pos].key = rec.key
  <2>1. r = Err(t, "EEXIST")
    BY <1>2, <1>9 DEF place_key_in_bnode
  <2>2. r.err = "EEXIST" /\ r.t = t
    BY <2>1 DEF Err
  <2> QED BY <1>2, <1>6, <1>8, <1>9, <2>2
<1>10. CASE n.recs[pos].key # rec.key
  <2>1. Sorted(InsertAt(n.recs, pos + 1, rec))
    BY <1>2, <1>3, <1>5, <1>6, <1>10, InsertSorted
  <2>2. ~ \E i \in DOMAIN t.node[id].recs : t.node[id].recs[i].key = rec.key
    BY <1>2, <1>6, <1>8, <1>10
  <2>3. PICK all : all = InsertAt(n.recs, pos + 1, rec)
    OBVIOUS
  <2>4. CASE free_space(n) >= len
    <3>1. PICK w : w = [n EXCEPT !.recs = all]
      OBVIOUS
    <3>2. all \in Seq(Record)
      BY <1>3, <1>6, <2>3, InsertFacts
    <3>3. w \in Node /\ w.recs = all /\ w.level = n.level
      BY <3>1, <3>2 DEF Node
    <3>4. place_into_node(n, pos + 1, rec) = w
      BY <2>3, <3>1 DEF place_into_node
    <3>5. r = WithRight(Ok(SetNode(t, id, w)), VDFS2_INVALID_NODE_ID)
      BY <1>2, <1>10, <2>4, <3>4 DEF place_key_in_bnode
    <3>6. r.err = "0" /\ r.t = SetNode(t, id, w) /\ r.right = VDFS2_INVALID_NODE_ID
      BY <3>5 DEF WithRight, Ok
    <3>7. /\ r.t \in Tree /\ SameNumbers(t, r.t) /\ r.t.node[id] = w
          /\ \A i \in DOMAIN t.node \ {id} : r.t.node[i] = t.node[i]
      BY <3>3, <3>6, SetNodeFacts
    <3>8. NumbersOk(r.t)
      BY <3>7, SameNumbersOk
    <3>9. free_space(w) >= 0
      <4>1. used_space(n.level, all) = used_space(n.level, n.recs) + record_len(n.level, rec.key)
        BY <1>3, <1>6, <2>3, UsedInsert
      <4>2. PICK x \in Int, rl \in Nat : x = used_space(n.level, n.recs) /\ rl = record_len(n.level, rec.key)
        BY <1>3, <1>4, RecordLen
      <4>3. NodeSize - NodeHeader - x >= len /\ rl <= len
        BY <1>2, <1>3, <2>4, <4>2 DEF LenOk
      <4>4. NodeSize - NodeHeader - (x + rl) >= 0
        BY <1>3, <4>3
      <4>5. free_space(w) = NodeSize - NodeHeader - (x + rl)
        BY <3>3, <4>1, <4>2 DEF free_space
      <4> QED BY <4>4, <4>5
    <3>10. PlacedIn(t, r.t, id, rec, pos)
      <4>1. w = [t.node[id] EXCEPT !.recs = InsertAt(@, pos + 1, rec)]
        BY <1>2, <2>3, <3>1
      <4> QED BY <3>7, <3>9, <4>1 DEF PlacedIn, SameNumbers
    <3> QED BY <1>2, <2>1, <2>2, <3>6, <3>7, <3>8, <3>10
  <2>5. CASE ~(free_space(n) >= len)
    <3>1. PICK c : c = vdfs2_check_bnode_reserve(t)
      OBVIOUS
    <3>2. r = SplitFull(c, id, pos, rec, len)
      BY <1>2, <1>10, <2>5, <3>1 DEF place_key_in_bnode
    <3>3. c.t \in Tree /\ NumbersOk(c.t) /\ c.t.node = t.node /\ c.err \in {"0", "ENOSPC"}
      BY <3>1, ReserveSuffices
    <3>4. CASE c.err = "ENOSPC"
      <4>1. r = c
        BY <3>2, <3>4 DEF SplitFull
      <4> QED BY <1>2, <2>1, <2>2, <3>3, <3>4, <4>1
    <3>5. CASE c.err = "0"
      <4>1. PICK e \in Node : e = init_new_node_descr(c.t.node[id].level, <<>>)
        <5>1. <<>> \in Seq(Record)
          BY EmptySeq
        <5>2. c.t.node[id].level \in Nat \ {0}
          BY <1>2, <1>3, <3>3
        <5> QED BY <5>1, <5>2 DEF init_new_node_descr, Node, VDFS2_INVALID_NODE_ID
      <4>2. PICK a : a = vdfs2_alloc_new_bnode(c.t, e)
        OBVIOUS
      <4>3. r = SplitInto(a, id, pos, rec, len)
        BY <3>2, <3>5, <4>1, <4>2 DEF SplitFull
      <4>4. \/ a.err = "0" /\ Allocated(c.t, e, a)
            \/ a.err = "ENOSPC" /\ a.t = c.t
        BY <3>3, <4>2, AllocExact
      <4>5. CASE a.err = "ENOSPC" /\ a.t = c.t
        <5>1. r = a
          BY <4>3, <4>5 DEF SplitInto
        <5> QED BY <1>2, <2>1, <2>2, <3>3, <4>5, <5>1
      <4>6. CASE a.err = "0" /\ Allocated(c.t, e, a)
        <5>1. PICK s : s = split_bnode(a.t, id, a.id, rec, len, pos + 1)
          OBVIOUS
        <5>2. r = WithRight(s, a.id)
          BY <4>3, <4>6, <5>1 DEF SplitInto
        <5>3. r.t = s.t /\ r.err = s.err /\ r.right = a.id
          BY <5>2 DEF WithRight
        <5>4. Used(c.t) = Used(t)
          BY <3>3 DEF Used
        <5>5. /\ a.t \in Tree /\ NumbersOk(a.t) /\ a.id \in Nat /\ a.id \notin Used(t)
              /\ DOMAIN a.t.node = DOMAIN t.node \cup {a.id}
              /\ \A i \in DOMAIN t.node : a.t.node[i] = t.node[i]
          BY <3>3, <4>6, <5>4 DEF Allocated
        <5>6. a.id \in Nat \ {0} /\ a.id \notin DOMAIN t.node
          BY <5>5 DEF Used
        <5>7. FullNode(t, id, rec, len)
          <6>1. free_space(n) < len
            BY <1>3, <2>5
          <6> QED BY <1>2, <6>1 DEF FullNode
        <5>8. PICK p \in 1 .. Len(t.node[id].recs) + 1 : p = pos + 1
          BY <1>2, <1>6
        <5>9. PICK at \in Tree, right \in Nat \ {0} : at = a.t /\ right = a.id
          BY <5>5, <5>6
        <5>10. /\ s.err = "0" /\ s.t \in Tree /\ SameNumbers(at, s.t)
               /\ Split(t, s.t, id, right, InsertAt(t.node[id].recs, p, rec))
          BY <5>1, <5>5, <5>6, <5>7, <5>8, <5>9, SplitExact
        <5>11. NumbersOk(s.t) /\ DOMAIN s.t.node = DOMAIN t.node \cup {right}
          BY <5>5, <5>9, <5>10, SameNumbersOk DEF SameNumbers
        <5> QED BY <1>2, <2>1, <2>2, <5>3, <5>5, <5>8, <5>9, <5>10, <5>11
      <4> QED BY <4>4, <4>5, <4>6
    <3> QED BY <3>3, <3>4, <3>5
  <2> QED BY <2>4, <2>5
<1> QED BY <1>9, <1>10

--------------------------------------------------------------------------
(* btree_merge(): when Balance finds room for two nodes in one, the left   *)
(* one has the records of both, in their order, and fits (the assertion    *)
(* after the move cannot fail); the right one is out of the list.          *)
THEOREM MergeExact ==
  ASSUME NEW t \in Tree, NEW left \in DOMAIN t.node, NEW right \in DOMAIN t.node,
         t.node[left].level = t.node[right].level,
         t.node[right].next \in (DOMAIN t.node \ {left, right}) \cup {VDFS2_INVALID_NODE_ID},
         free_space(t.node[left]) + free_space(t.node[right]) >= NodeSize,
         NEW u, u = MoveLeft(t, left, right)
  PROVE  LET next == t.node[right].next
         IN  /\ u \in Tree /\ SameNumbers(t, u)
             /\ u.node[left] = [t.node[left] EXCEPT !.recs = @ \o t.node[right].recs, !.next = next]
             /\ free_space(u.node[left]) >= 0
             /\ next # VDFS2_INVALID_NODE_ID => u.node[next] = [t.node[next] EXCEPT !.prev = left]
             /\ \A i \in DOMAIN t.node \ {left, next} : u.node[i] = t.node[i]
<1>1. t.node \in [DOMAIN t.node -> Node] /\ left \in Nat \ {0}
  BY TreeFacts
<1>2. PICK l \in Node, r \in Node : l = t.node[left] /\ r = t.node[right]
  BY <1>1
<1>3. /\ l.recs \in Seq(Record) /\ used_space(l.level, l.recs) \in Int
      /\ free_space(l) = NodeSize - NodeHeader - used_space(l.level, l.recs)
      /\ r.recs \in Seq(Record) /\ used_space(r.level, r.recs) \in Int /\ r.next \in Nat
      /\ free_space(r) = NodeSize - NodeHeader - used_space(r.level, r.recs)
      /\ NodeSize \in Nat /\ NodeHeader \in Nat
  BY FreeSpaceInt
<1>4. PICK w : w = [l EXCEPT !.recs = l.recs \o r.recs, !.next = r.next]
  OBVIOUS
<1>5. w \in Node /\ w.recs = l.recs \o r.recs /\ w.level = l.level /\ w.next = r.next
  <2>1. l.recs \o r.recs \in Seq(Record)
    BY <1>3, ConcatProperties
  <2> QED BY <1>3, <1>4, <2>1 DEF Node
<1>6. free_space(w) >= 0
  <2>1. used_space(l.level, l.recs \o r.recs) = used_space(l.level, l.recs) + used_space(l.level, r.recs)
    BY <1>3, UsedConcat
  <2>2. PICK x \in Int, y \in Int : x = used_space(l.level, l.recs) /\ y = used_space(r.level, r.recs)
    BY <1>3
  <2>3. l.level = r.level
    BY <1>2
  <2>4. free_space(l) + free_space(r) >= NodeSize
    BY <1>2
  <2>5. (NodeSize - NodeHeader - x) + (NodeSize - NodeHeader - y) >= NodeSize
    BY <1>3, <2>2, <2>4
  <2>6. NodeSize - NodeHeader - (x + y) >= 0
    BY <1>3, <2>5
  <2>7. free_space(w) = NodeSize - NodeHeader - (x + y)
    BY <1>5, <2>1, <2>2, <2>3 DEF free_space
  <2> QED BY <2>6, <2>7
<1>7. PICK v \in Tree : /\ v = SetNode(t, left, w) /\ SameNumbers(t, v) /\ v.node[left] = w
                        /\ \A i \in DOMAIN t.node \ {left} : v.node[i] = t.node[i]
  BY <1>5, SetNodeFacts
<1>8. u = SetPrev(v, r.next, left)
  <2>1. PICK D \in SUBSET (Nat \ {0}) : t \in TreeOn(D) /\ DOMAIN t.node = D
    BY TreeFacts
  <2>2. [t EXCEPT !.node[left].recs = @ \o r.recs, !.node[left].next = r.next] = SetNode(t, left, w)
    <3>1. t.node \in [D -> Node] /\ left \in D
      BY <2>1 DEF TreeOn
    <3>2. w = [[l EXCEPT !.recs = l.recs \o r.recs] EXCEPT !.next = r.next]
      BY <1>4
    <3> QED BY <1>2, <2>1, <3>1, <3>2, ZenonT(60) DEF SetNode, TreeOn, Node
  <2> QED BY <1>2, <1>7, <2>2 DEF MoveLeft
<1>9. r.next \in DOMAIN v.node \cup {0} /\ r.next # left
  BY <1>1, <1>2, <1>7 DEF SameNumbers, VDFS2_INVALID_NODE_ID
<1>10. /\ u \in Tree /\ SameNumbers(v, u)
       /\ r.next # 0 => u.node[r.next] = [v.node[r.next] EXCEPT !.prev = left]
       /\ \A i \in DOMAIN v.node \ {r.next} : u.node[i] = v.node[i]
  BY <1>1, <1>8, <1>9, SetPrevFacts
<1>11. SameNumbers(t, u) /\ DOMAIN v.node = DOMAIN t.node
  BY <1>7, <1>10 DEF SameNumbers
<1>12. u.node[left] = w
  BY <1>7, <1>9, <1>10, <1>11
<1>13. \A i \in DOMAIN t.node \ {left, r.next} : u.node[i] = t.node[i]
  BY <1>7, <1>10, <1>11
<1>14. r.next # 0 => u.node[r.next] = [t.node[r.next] EXCEPT !.prev = left]
  BY <1>7, <1>9, <1>10, <1>11
<1>15. w = [t.node[left] EXCEPT !.recs = @ \o t.node[right].recs, !.next = t.node[right].next]
  BY <1>2, <1>4
<1> QED BY <1>2, <1>6, <1>10, <1>11, <1>12, <1>13, <1>14, <1>15 DEF VDFS2_INVALID_NODE_ID

(* The tree mkfs leaves is one of those the theorems are about: a leaf     *)
(* with the first record.                                                  *)
LEMMA FirstTree ==
  ASSUME NEW limit \in Nat, limit >= 2
  PROVE  MkTree(limit) \in Tree /\ NumbersOk(MkTree(limit))
<1>1. PICK n \in Node : n = init_new_node_descr(VDFS2_BTREE_LEAF_LVL, <<Rec(First, 0)>>)
  <2>1. Rec(First, 0) \in Record
    BY DEF Rec, Record
  <2>2. PICK e \in Record : e = Rec(First, 0)
    BY <2>1
  <2>3. <<e>> \in Seq(Record)
    OBVIOUS
  <2>4. PICK w : w = [level |-> 1, recs |-> <<e>>, prev |-> 0, next |-> 0]
    OBVIOUS
  <2>5. w \in Node
    BY <2>3, <2>4 DEF Node
  <2>6. init_new_node_descr(VDFS2_BTREE_LEAF_LVL, <<Rec(First, 0)>>) = w
    BY <2>2, <2>4 DEF init_new_node_descr, VDFS2_BTREE_LEAF_LVL, VDFS2_INVALID_NODE_ID
  <2> QED BY <2>5, <2>6
<1>2. PICK f \in [{1} -> Node] : f = [i \in {1} |-> n]
  OBVIOUS
<1>3. PICK t : t = MkTree(limit)
  OBVIOUS
<1>4. t = [node |-> f, root |-> 1, height |-> 1, first_free_id |-> 2, avail |-> 2,
           limit |-> limit, fault |-> "none", torn |-> FALSE, bug |-> FALSE]
  BY <1>1, <1>2, <1>3 DEF MkTree
<1>5. t \in TreeOn({1})
  <2>1. PICK D : D = {1}
    OBVIOUS
  <2>2. f \in [D -> Node]
    BY <1>2, <2>1
  <2>3. t \in TreeOn(D)
    BY <1>4, <2>2 DEF TreeOn
  <2> QED BY <2>1, <2>3
<1>6. IsFiniteSet({1}) /\ {1} \in SUBSET (Nat \ {0})
  <2>1. IsFiniteSet({1})
    BY FS_Singleton
  <2> QED BY <2>1
<1>7. t \in Tree
  BY <1>5, <1>6 DEF Tree
<1>8. Used(t) = {0, 1} /\ t.first_free_id = 2 /\ t.avail = 2 /\ t.limit = limit
  BY <1>2, <1>4 DEF Used
<1>9. NumbersOk(t)
  BY <1>8 DEF NumbersOk
<1> QED BY <1>3, <1>7, <1>9

(* One level of a search.  The position found is that of the last record   *)
(* not greater than the key, -ENOENT means that all are greater, and the   *)
(* kernel stops on a "dangling bnode" exactly when the key is beyond the   *)
(* node and not before its right neighbour: the index sent the search too  *)
(* far left.                                                               *)
THEOREM TraverseExact ==
  ASSUME NEW t \in Tree, NEW id \in DOMAIN t.node, NEW key \in Nat,
         t.node[id].recs # <<>>, Sorted(t.node[id].recs),
         t.node[id].next # VDFS2_INVALID_NODE_ID =>
           /\ t.node[id].next \in DOMAIN t.node
           /\ t.node[t.node[id].next].recs # <<>> /\ Sorted(t.node[t.node[id].next].recs),
         NEW f, f = btree_traverse_level(t, key, id)
  PROVE  LET recs == t.node[id].recs
             next == t.node[id].next
         IN  /\ f.err \in {"0", "ENOENT", "BUG"}
             /\ f.err = "0" => f.id = id /\ f.pos # 0 /\ LastUpTo(recs, key, f.pos)
             /\ f.err = "ENOENT" <=> key < recs[1].key
             /\ f.err = "BUG" <=> /\ recs[Len(recs)].key <= key
                                  /\ next # VDFS2_INVALID_NODE_ID
                                  /\ t.node[next].recs[1].key <= key
<1>1. t.node \in [DOMAIN t.node -> Node]
  BY TreeFacts
<1>2. PICK recs \in Seq(Record), next \in Nat : recs = t.node[id].recs /\ next = t.node[id].next
  BY <1>1 DEF Node
<1>3. PICK pos : pos = binary_search(recs, key)
  OBVIOUS
<1>4. LastUpTo(recs, key, pos)
  BY <1>2, <1>3, SearchExact
<1>5. Len(recs) \in Nat \ {0} /\ \A i \in 1 .. Len(recs) : recs[i].key \in Nat
  BY <1>2, EmptySeq, KeysAreNumbers
<1>6. pos \in Nat /\ pos <= Len(recs) /\ (1 <= pos <=> recs[1].key <= key)
      /\ (Len(recs) <= pos <=> recs[Len(recs)].key <= key)
  BY <1>4, <1>5 DEF LastUpTo
<1>7. next # VDFS2_INVALID_NODE_ID =>
        (binary_search(t.node[next].recs, key) # 0 <=> t.node[next].recs[1].key <= key)
  <2> SUFFICES ASSUME next # VDFS2_INVALID_NODE_ID
               PROVE  binary_search(t.node[next].recs, key) # 0 <=> t.node[next].recs[1].key <= key
    OBVIOUS
  <2>1. PICK more \in Seq(Record) : more = t.node[next].recs /\ more # <<>> /\ Sorted(more)
    BY <1>1, <1>2 DEF Node
  <2>2. LastUpTo(more, key, binary_search(more, key))
    BY <2>1, SearchExact
  <2>3. PICK p : p = binary_search(more, key)
    OBVIOUS
  <2>4. Len(more) \in Nat \ {0}
    BY <2>1, EmptySeq
  <2>5. p \in Nat /\ (1 <= p <=> more[1].key <= key)
    BY <2>2, <2>3, <2>4 DEF LastUpTo
  <2>6. p # 0 <=> more[1].key <= key
    BY <2>5
  <2> QED BY <2>1, <2>3, <2>6
<1>8. f = FoundAt(t, key, id, pos)
  BY <1>2, <1>3 DEF btree_traverse_level
<1>9. CASE pos = 0
  <2>1. f = [err |-> "ENOENT"]
    BY <1>8, <1>9 DEF FoundAt
  <2>2. f.err = "ENOENT"
    BY <2>1
  <2>3. key < recs[1].key /\ ~(recs[Len(recs)].key <= key)
    BY <1>5, <1>6, <1>9
  <2> QED BY <1>2, <2>2, <2>3
<1>10. CASE pos # 0
  <2>1. ~(key < recs[1].key)
    BY <1>5, <1>6, <1>10
  <2>2. pos = Len(recs) <=> recs[Len(recs)].key <= key
    BY <1>5, <1>6
  <2>3. CASE recs[Len(recs)].key <= key /\ next # VDFS2_INVALID_NODE_ID /\ t.node[next].recs[1].key <= key
    <3>1. f = [err |-> "BUG"]
      BY <1>2, <1>7, <1>8, <1>10, <2>2, <2>3 DEF FoundAt
    <3>2. f.err = "BUG"
      BY <3>1
    <3> QED BY <1>2, <2>1, <2>3, <3>2
  <2>4. CASE ~(recs[Len(recs)].key <= key /\ next # VDFS2_INVALID_NODE_ID /\ t.node[next].recs[1].key <= key)
    <3>1. f = [err |-> "0", id |-> id, pos |-> pos]
      BY <1>2, <1>7, <1>8, <1>10, <2>2, <2>4 DEF FoundAt
    <3>2. f.err = "0" /\ f.id = id /\ f.pos = pos
      BY <3>1
    <3> QED BY <1>2, <1>4, <1>10, <2>1, <2>4, <3>2
  <2> QED BY <2>3, <2>4
<1> QED BY <1>9, <1>10
==========================================================================
