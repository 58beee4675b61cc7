----------------------------- MODULE ListLemmas -----------------------------
(***************************************************************************)
(* Facts about finite sequences and sets of numbers that the proofs of     *)
(* several components use.                                                 *)
(***************************************************************************)
EXTENDS Integers, Sequences, FiniteSets, SequencesExt, FiniteSetsExt,
        FiniteSetTheorems, SequenceTheorems, TLAPS

\* A set of numbers that is not empty has a least one.
LEMMA LeastNumber ==
  ASSUME NEW T, T \subseteq Nat, T # {}
  PROVE  \E x \in T : \A y \in T : x <= y
<1> DEFINE R == OpToRel(<, Nat)
<1>1. IsWellFoundedOn(R, Nat) BY NatLessThanWellFounded, Zenon
<1>2. \A x, y \in Nat : y < x => <<y, x>> \in R BY DEF OpToRel
<1> HIDE DEF R
<1>3. \E x \in T : \A y \in T : ~(<<y, x>> \in R) BY <1>1, WFMin, Zenon
<1>4. PICK x \in T : \A y \in T : ~(<<y, x>> \in R) BY <1>3
<1>5. \A y \in T : ~(y < x) BY <1>2, <1>4
<1> QED BY <1>5

\* The first position of k.
LEMMA FirstPosition ==
  ASSUME NEW S, NEW s \in Seq(S), NEW k, \E i \in DOMAIN s : s[i] = k
  PROVE  \E j \in DOMAIN s : s[j] = k /\ \A l \in 1..(j - 1) : s[l] # k
<1> DEFINE T == {i \in DOMAIN s : s[i] = k}
<1>1. DOMAIN s = 1..Len(s) /\ Len(s) \in Nat OBVIOUS
<1>2. T \subseteq Nat /\ T # {} BY <1>1
<1>3. PICK j \in T : \A i \in T : j <= i BY <1>2, LeastNumber
<1>4. \A l \in 1..(j - 1) : l \in DOMAIN s /\ ~(j <= l) BY <1>1
<1> QED BY <1>3, <1>4

\* The sequence of a finite set lists its elements once.
LEMMA SetToSeqLists ==
  ASSUME NEW S, IsFiniteSet(S)
  PROVE  LET f == SetToSeq(S) IN
         /\ f \in Seq(S) /\ ToSet(f) = S
         /\ \A i, j \in DOMAIN f : f[i] = f[j] => i = j
<1> DEFINE n == Cardinality(S)
           f == SetToSeq(S)
<1>1. n \in Nat /\ ExistsBijection(1..n, S) BY FS_CardinalityType
<1>2. \E g \in [1..n -> S] : IsInjective(g) BY <1>1 DEF ExistsBijection, Bijection, Injection
<1>3. f \in [1..n -> S] /\ IsInjective(f) BY <1>2 DEF SetToSeq
<1>4. f \in Injection(1..n, S) BY <1>3 DEF Injection
<1>5. IsFiniteSet(1..n) /\ Cardinality(1..n) = n BY <1>1, FS_Interval
<1>6. f \in Surjection(1..n, S) BY <1>4, <1>5, FS_Injection
<1>7. f \in Seq(S) /\ DOMAIN f = 1..n BY <1>1, <1>3
<1>8. ToSet(f) = S BY <1>3, <1>6, <1>7 DEF ToSet, Surjection
<1> QED BY <1>3, <1>7, <1>8 DEF IsInjective

\* What is left of a list without one of its places.
LEMMA RemoveAtElements ==
  ASSUME NEW S, NEW s \in Seq(S), NEW i \in DOMAIN s
  PROVE  LET t == RemoveAt(s, i) IN
         /\ t \in Seq(S) /\ DOMAIN t = 1..(Len(s) - 1)
         /\ \A j \in DOMAIN t : t[j] = s[IF j < i THEN j ELSE j + 1]
<1> DEFINE a == SubSeq(s, 1, i - 1)
           b == SubSeq(s, i + 1, Len(s))
<1>1. i \in 1..Len(s) /\ Len(s) \in Nat OBVIOUS
<1>2. a \in Seq(S) /\ Len(a) = i - 1 /\ \A j \in 1..(i - 1) : a[j] = s[j]
  BY <1>1, SubSeqProperties
<1>3. /\ b \in Seq(S) /\ Len(b) = Len(s) - i
      /\ \A j \in 1..(Len(s) - i) : b[j] = s[i + j]
  BY <1>1, SubSeqProperties
<1> HIDE DEF a, b
<1>4. /\ a \o b \in Seq(S) /\ Len(a \o b) = Len(s) - 1
      /\ \A j \in 1..(Len(s) - 1) : (a \o b)[j] = IF j <= i - 1 THEN a[j] ELSE b[j - (i - 1)]
  <2>1. /\ a \o b \in Seq(S) /\ Len(a \o b) = Len(a) + Len(b)
        /\ \A j \in 1..(Len(a) + Len(b)) :
             (a \o b)[j] = IF j <= Len(a) THEN a[j] ELSE b[j - Len(a)]
    BY <1>2, <1>3, ConcatProperties
  <2>2. Len(a) + Len(b) = Len(s) - 1 BY <1>1, <1>2, <1>3
  <2> QED BY <1>2, <2>1, <2>2
<1>5. ASSUME NEW j \in 1..(Len(s) - 1) PROVE (a \o b)[j] = s[IF j < i THEN j ELSE j + 1]
  <2>1. CASE j < i BY <1>1, <1>2, <1>4, <2>1
  <2>2. CASE ~(j < i)
    <3>1. j - (i - 1) \in 1..(Len(s) - i) /\ i + (j - (i - 1)) = j + 1 BY <1>1, <2>2
    <3>2. ~(j <= i - 1) BY <1>1, <2>2
    <3>3. (a \o b)[j] = b[j - (i - 1)] BY <1>4, <3>2
    <3> QED BY <1>3, <2>2, <3>1, <3>3
  <2> QED BY <2>1, <2>2
<1>6. DOMAIN (a \o b) = 1..(Len(s) - 1) BY <1>4
<1>7. RemoveAt(s, i) = a \o b BY DEF RemoveAt, a, b
<1> QED BY <1>4, <1>5, <1>6, <1>7

\* A key that is not in the list is added to it.
LEMMA AppendElements ==
  ASSUME NEW S, NEW s \in Seq(S), NEW k \in S, k \notin ToSet(s),
         \A i, j \in DOMAIN s : s[i] = s[j] => i = j
  PROVE  LET t == Append(s, k) IN
         ToSet(t) = ToSet(s) \cup {k} /\ \A i, j \in DOMAIN t : t[i] = t[j] => i = j
<1> DEFINE t == Append(s, k)
           n == Len(s)
<1>1. DOMAIN s = 1..n /\ n \in Nat OBVIOUS
<1>2. DOMAIN t = 1..(n + 1) /\ t[n + 1] = k /\ \A i \in 1..n : t[i] = s[i] OBVIOUS
<1> HIDE DEF t
<1>3. DOMAIN t = DOMAIN s \cup {n + 1} BY <1>1, <1>2
<1>4. ToSet(t) = ToSet(s) \cup {k} BY <1>1, <1>2, <1>3 DEF ToSet
<1>5. \A i \in DOMAIN s : s[i] # k BY DEF ToSet
<1>6. \A i, j \in DOMAIN t : t[i] = t[j] => i = j BY <1>1, <1>2, <1>3, <1>5
<1> QED BY <1>4, <1>6 DEF t

\* A list with one more place.
LEMMA InsertAtElements ==
  ASSUME NEW S, NEW s \in Seq(S), NEW e \in S, NEW i \in 1..(Len(s) + 1)
  PROVE  LET t == InsertAt(s, i, e) IN
         /\ t \in Seq(S) /\ DOMAIN t = 1..(Len(s) + 1) /\ Len(t) = Len(s) + 1
         /\ \A j \in DOMAIN t : t[j] = IF j < i THEN s[j] ELSE IF j = i THEN e ELSE s[j - 1]
<1> DEFINE a == SubSeq(s, 1, i - 1)
           b == SubSeq(s, i, Len(s))
           n == Len(s)
<1>1. i \in 1..(n + 1) /\ n \in Nat OBVIOUS
<1>2. a \in Seq(S) /\ Len(a) = i - 1 /\ \A j \in 1..(i - 1) : a[j] = s[j]
  BY <1>1, SubSeqProperties
<1>3. b \in Seq(S) /\ Len(b) = n - i + 1 /\ \A j \in 1..(n - i + 1) : b[j] = s[i + j - 1]
  BY <1>1, SubSeqProperties
<1> DEFINE c == Append(a, e)
<1>4. c \in Seq(S) /\ Len(c) = i /\ c[i] = e /\ \A j \in 1..(i - 1) : c[j] = s[j]
  BY <1>1, <1>2
<1>5. a \o <<e>> = c BY <1>2, AppendIsConcat
<1> HIDE DEF a, b, c
<1>6. /\ c \o b \in Seq(S) /\ Len(c \o b) = n + 1
      /\ \A j \in 1..(n + 1) : (c \o b)[j] = IF j <= i THEN c[j] ELSE b[j - i]
  BY <1>1, <1>3, <1>4, ConcatProperties
<1>7. ASSUME NEW j \in 1..(n + 1)
      PROVE  (c \o b)[j] = IF j < i THEN s[j] ELSE IF j = i THEN e ELSE s[j - 1]
  <2>1. CASE j < i
    <3>1. j \in 1..(i - 1) /\ j <= i BY <1>1, <2>1
    <3>2. (c \o b)[j] = c[j] BY <1>6, <3>1
    <3>3. c[j] = s[j] BY <1>4, <3>1
    <3> QED BY <2>1, <3>2, <3>3
  <2>2. CASE j = i
    <3>1. j <= i /\ ~(j < i) BY <1>1, <2>2
    <3>2. (c \o b)[j] = c[j] BY <1>6, <3>1
    <3> QED BY <1>4, <2>2, <3>1, <3>2
  <2>3. CASE j > i
    <3>1. j - i \in 1..(n - i + 1) /\ i + (j - i) - 1 = j - 1 BY <1>1, <2>3
    <3>2. (c \o b)[j] = b[j - i] BY <1>1, <1>6, <2>3
    <3>3. b[j - i] = s[i + (j - i) - 1] BY <1>3, <3>1
    <3>4. ~(j < i) /\ j # i BY <1>1, <2>3
    <3> QED BY <3>1, <3>2, <3>3, <3>4
  <2>4. j < i \/ j = i \/ j > i BY <1>1
  <2> QED BY <2>1, <2>2, <2>3, <2>4
<1>8. DOMAIN (c \o b) = 1..(n + 1) BY <1>6
<1>9. InsertAt(s, i, e) = c \o b BY <1>5 DEF InsertAt, a, b
<1> QED BY <1>6, <1>7, <1>8, <1>9

\* A function on the first n numbers is a list.
LEMMA FunctionIsList ==
  ASSUME NEW S, NEW n \in Nat, NEW f \in [1..n -> S]
  PROVE  f \in Seq(S) /\ Len(f) = n
OBVIOUS

\* Lists that agree at every place are equal.
LEMMA SameLists ==
  ASSUME NEW S, NEW s \in Seq(S), NEW t \in Seq(S), Len(s) = Len(t),
         \A i \in 1..Len(s) : s[i] = t[i]
  PROVE  s = t
OBVIOUS

\* What was inserted can be removed again.
LEMMA RemoveInserted ==
  ASSUME NEW S, NEW s \in Seq(S), NEW e \in S, NEW i \in 1..(Len(s) + 1)
  PROVE  RemoveAt(InsertAt(s, i, e), i) = s
<1> DEFINE t == InsertAt(s, i, e)
           u == RemoveAt(t, i)
<1>1. Len(s) \in Nat OBVIOUS
<1>2. /\ t \in Seq(S) /\ DOMAIN t = 1..(Len(s) + 1) /\ Len(t) = Len(s) + 1
      /\ \A j \in DOMAIN t : t[j] = IF j < i THEN s[j] ELSE IF j = i THEN e ELSE s[j - 1]
  BY InsertAtElements
<1> HIDE DEF t
<1>3. /\ u \in Seq(S) /\ DOMAIN u = 1..(Len(t) - 1)
      /\ \A j \in DOMAIN u : u[j] = t[IF j < i THEN j ELSE j + 1]
  BY <1>2, RemoveAtElements
<1> HIDE DEF u
<1>4. DOMAIN u = 1..Len(s) BY <1>1, <1>2, <1>3
<1>5. ASSUME NEW j \in 1..Len(s) PROVE u[j] = s[j]
  <2>1. CASE j < i
    <3>1. u[j] = t[j] /\ j \in DOMAIN t BY <1>1, <1>2, <1>3, <1>4, <2>1
    <3> QED BY <1>2, <2>1, <3>1
  <2>2. CASE ~(j < i)
    <3>1. u[j] = t[j + 1] /\ j + 1 \in DOMAIN t BY <1>1, <1>2, <1>3, <1>4, <2>2
    <3>2. ~(j + 1 < i) /\ j + 1 # i /\ (j + 1) - 1 = j BY <1>1, <2>2
    <3> QED BY <1>2, <3>1, <3>2
  <2> QED BY <2>1, <2>2
<1>6. Len(u) = Len(s) BY <1>1, <1>3, <1>4
<1>7. u = s BY <1>3, <1>5, <1>6, SameLists
<1> QED BY <1>7 DEF t, u

\* The least of one number.
LEMMA MinSingleton == ASSUME NEW n \in Int PROVE Min({n}) = n
BY DEF Min
=============================================================================
