------------------------- MODULE MemoryTableProofs -------------------------
(***************************************************************************)
(* Proofs about the in-memory table under the statements that change it.   *)
(***************************************************************************)
EXTENDS MemoryTable, ListLemmas

-----------------------------------------------------------------------------
(***************************************************************************)
(* Tables: functions from places to rows, and how many rows they have      *)
(***************************************************************************)
IsTable(t) ==
  IsFiniteSet(DOMAIN t) /\ DOMAIN t \subseteq Parts \X (Nat \ {0}) /\ t \in [DOMAIN t -> Values]

One(b) == IF b THEN 1 ELSE 0

\* There are finitely many places, and a place is a partition and a position in it.
LEMMA PlacesFacts ==
  ASSUME NEW n \in [Parts -> Nat]
  PROVE  /\ IsFiniteSet(Places(n)) /\ Places(n) \subseteq Parts \X (Nat \ {0})
         /\ \A p, j : <<p, j>> \in Places(n) <=> p \in Parts /\ j \in 1..n[p]
         /\ \A x \in Places(n) : x = <<x[1], x[2]>> /\ x[1] \in Parts /\ x[2] \in 1..n[x[1]]
<1> DEFINE of(p) == {p} \X (1..n[p])
           all == {of(p) : p \in Parts}
<1>1. IsFiniteSet(Parts) BY PartitionsAssumption, FS_Interval DEF Parts
<1>2. IsFiniteSet(all)
  <2> HIDE DEF of
  <2> DEFINE f == [p \in Parts |-> of(p)]
  <2>1. f \in Surjection(Parts, all) BY DEF Surjection
  <2> QED BY <1>1, <2>1, FS_Surjection
<1>3. \A p \in Parts : IsFiniteSet(of(p))
  <2> TAKE p \in Parts
  <2>1. n[p] \in Nat OBVIOUS
  <2>2. IsFiniteSet({p}) BY FS_Singleton
  <2>3. IsFiniteSet(1..n[p]) BY <2>1, FS_Interval
  <2> QED BY <2>2, <2>3, FS_Product
<1>4. \A S \in all : IsFiniteSet(S) BY <1>3
<1>5. IsFiniteSet(UNION all) BY <1>2, <1>4, FS_UNION
<1>6. \A p, j : <<p, j>> \in Places(n) <=> p \in Parts /\ j \in 1..n[p] BY DEF Places
<1>7. \A x \in Places(n) : x = <<x[1], x[2]>> /\ x[1] \in Parts /\ x[2] \in 1..n[x[1]]
  BY DEF Places
<1>8. Places(n) \subseteq Parts \X (Nat \ {0})
  <2> SUFFICES ASSUME NEW x \in Places(n) PROVE x \in Parts \X (Nat \ {0}) OBVIOUS
  <2>1. x = <<x[1], x[2]>> /\ x[1] \in Parts /\ x[2] \in 1..n[x[1]] BY <1>7
  <2>2. n[x[1]] \in Nat BY <2>1
  <2>3. x[2] \in Nat \ {0} BY <2>1, <2>2
  <2> QED BY <2>1, <2>3
<1> QED BY <1>5, <1>6, <1>7, <1>8 DEF Places

\* A number of rows is a number.
LEMMA NumberType ==
  ASSUME NEW t, IsFiniteSet(DOMAIN t), NEW V
  PROVE  /\ IsFiniteSet({x \in DOMAIN t : t[x] \in V}) /\ Number(t, V) \in Nat
         /\ Number(t, V) = 0 <=> \A x \in DOMAIN t : t[x] \notin V
<1> DEFINE S == {x \in DOMAIN t : t[x] \in V}
<1>1. IsFiniteSet(S) BY FS_Subset
<1>2. Cardinality(S) \in Nat BY <1>1, FS_CardinalityType
<1>3. Cardinality(S) = 0 <=> S = {} BY <1>1, FS_EmptySet
<1> QED BY <1>1, <1>2, <1>3 DEF Number

\* One more element counts one more.
LEMMA OneMore ==
  ASSUME NEW S, IsFiniteSet(S), NEW x, x \notin S, NEW T, NEW b \in BOOLEAN,
         T = IF b THEN S \cup {x} ELSE S
  PROVE  IsFiniteSet(T) /\ Cardinality(T) = Cardinality(S) + One(b)
<1>1. Cardinality(S) \in Nat BY FS_CardinalityType
<1>2. CASE b BY <1>1, <1>2, FS_AddElement DEF One
<1>3. CASE ~b BY <1>1, <1>3 DEF One
<1> QED BY <1>2, <1>3

\* A row in a new place.
LEMMA RowAdded ==
  ASSUME NEW t, NEW u, NEW x, IsFiniteSet(DOMAIN t), x \notin DOMAIN t,
         DOMAIN u = DOMAIN t \cup {x}, \A y \in DOMAIN t : u[y] = t[y], NEW V
  PROVE  Number(u, V) = Number(t, V) + One(u[x] \in V)
<1> DEFINE S == {y \in DOMAIN t : t[y] \in V}
           T == {y \in DOMAIN u : u[y] \in V}
<1>1. IsFiniteSet(S) BY NumberType
<1>2. T = IF u[x] \in V THEN S \cup {x} ELSE S OBVIOUS
<1>3. (u[x] \in V) \in BOOLEAN /\ x \notin S OBVIOUS
<1> HIDE DEF S, T
<1>4. Cardinality(T) = Cardinality(S) + One(u[x] \in V) BY <1>1, <1>2, <1>3, OneMore
<1> QED BY <1>4 DEF Number, S, T

\* A row that takes the place of another.
LEMMA RowChanged ==
  ASSUME NEW t, NEW u, NEW x \in DOMAIN t, IsFiniteSet(DOMAIN t),
         DOMAIN u = DOMAIN t, \A y \in DOMAIN t \ {x} : u[y] = t[y], NEW V
  PROVE  Number(u, V) = Number(t, V) - One(t[x] \in V) + One(u[x] \in V)
<1> DEFINE r == [y \in DOMAIN t \ {x} |-> t[y]]
<1>1. DOMAIN r = DOMAIN t \ {x} /\ (\A y \in DOMAIN r : r[y] = t[y]) OBVIOUS
<1> HIDE DEF r
<1>2. IsFiniteSet(DOMAIN r) BY <1>1, FS_Subset
<1>3. Number(t, V) = Number(r, V) + One(t[x] \in V) BY <1>1, <1>2, RowAdded
<1>4. Number(u, V) = Number(r, V) + One(u[x] \in V) BY <1>1, <1>2, RowAdded
<1>5. Number(r, V) \in Nat BY <1>2, NumberType
<1>6. One(t[x] \in V) \in Nat /\ One(u[x] \in V) \in Nat BY DEF One
<1> QED BY <1>3, <1>4, <1>5, <1>6

\* A table without one of its rows, the others in other places.
LEMMA RowRemoved ==
  ASSUME NEW t, NEW u, NEW x \in DOMAIN t, IsFiniteSet(DOMAIN t), IsFiniteSet(DOMAIN u),
         NEW f \in Bijection(DOMAIN u, DOMAIN t \ {x}),
         \A y \in DOMAIN u : u[y] = t[f[y]], NEW V
  PROVE  Number(u, V) = Number(t, V) - One(t[x] \in V)
<1> DEFINE r == [y \in DOMAIN t \ {x} |-> t[y]]
           R == {y \in DOMAIN r : r[y] \in V}
           U == {y \in DOMAIN u : u[y] \in V}
           g == [y \in U |-> f[y]]
<1>1. DOMAIN r = DOMAIN t \ {x} /\ (\A y \in DOMAIN r : r[y] = t[y]) OBVIOUS
<1>2. IsFiniteSet(DOMAIN r) BY <1>1, FS_Subset
<1>f. /\ \A y \in DOMAIN u : f[y] \in DOMAIN t \ {x}
      /\ \A y, z \in DOMAIN u : f[y] = f[z] => y = z
      /\ \A y \in DOMAIN t \ {x} : \E z \in DOMAIN u : f[z] = y
  BY DEF Bijection, Injection, Surjection, IsInjective
<1>3. g \in Bijection(U, R)
  <2>1. g \in [U -> R] BY <1>1, <1>f
  <2>2. \A y, z \in U : g[y] = g[z] => y = z BY <1>f
  <2>3. \A y \in R : \E z \in U : g[z] = y BY <1>1, <1>f
  <2> QED BY <2>1, <2>2, <2>3 DEF Bijection, Injection, Surjection, IsInjective
<1>4. IsFiniteSet(U) BY FS_Subset
<1>5. Cardinality(U) = Cardinality(R)
  <2>1. ExistsBijection(U, R) BY <1>3 DEF ExistsBijection
  <2> QED BY <1>4, <2>1, FS_Bijection
<1>6. Number(u, V) = Number(r, V) BY <1>5 DEF Number
<1> HIDE DEF r
<1>7. Number(t, V) = Number(r, V) + One(t[x] \in V) BY <1>1, <1>2, RowAdded
<1>8. Number(r, V) \in Nat /\ One(t[x] \in V) \in Nat BY <1>2, NumberType DEF One
<1> QED BY <1>6, <1>7, <1>8

-----------------------------------------------------------------------------
(***************************************************************************)
(* What the editor does to the table                                       *)
(***************************************************************************)
\* Slices with the lengths n in the arrays a
Slices(a, n) ==
  a \in [Parts -> Seq(Values)] /\ n \in [Parts -> Nat] /\ \A p \in Parts : n[p] <= Len(a[p])

\* The rows of the slices make a table.
LEMMA TableFacts ==
  ASSUME NEW a, NEW n, Slices(a, n)
  PROVE  /\ IsTable(TableOf(a, n)) /\ DOMAIN TableOf(a, n) = Places(n)
         /\ \A p \in Parts : \A j \in 1..n[p] :
              /\ <<p, j>> \in Places(n) /\ TableOf(a, n)[<<p, j>>] = a[p][j]
              /\ a[p][j] \in Values /\ j \in DOMAIN a[p]
<1>1. n \in [Parts -> Nat] BY DEF Slices
<1>2. /\ IsFiniteSet(Places(n)) /\ Places(n) \subseteq Parts \X (Nat \ {0})
      /\ \A p, j : <<p, j>> \in Places(n) <=> p \in Parts /\ j \in 1..n[p]
      /\ \A x \in Places(n) : x = <<x[1], x[2]>> /\ x[1] \in Parts /\ x[2] \in 1..n[x[1]]
  BY <1>1, PlacesFacts
<1>3. ASSUME NEW p \in Parts, NEW j \in 1..n[p] PROVE j \in DOMAIN a[p] /\ a[p][j] \in Values
  <2>1. a[p] \in Seq(Values) /\ n[p] \in Nat /\ n[p] <= Len(a[p]) BY DEF Slices
  <2> QED BY <2>1
<1>4. DOMAIN TableOf(a, n) = Places(n) BY DEF TableOf
<1>5. \A x \in Places(n) : TableOf(a, n)[x] = a[x[1]][x[2]] BY DEF TableOf
<1>6. \A x \in Places(n) : a[x[1]][x[2]] \in Values BY <1>2, <1>3
<1>7. TableOf(a, n) \in [Places(n) -> Values] BY <1>6 DEF TableOf
<1>8. IsTable(TableOf(a, n)) BY <1>2, <1>4, <1>7 DEF IsTable
<1>9. ASSUME NEW p \in Parts, NEW j \in 1..n[p]
      PROVE  <<p, j>> \in Places(n) /\ TableOf(a, n)[<<p, j>>] = a[p][j]
  <2>1. <<p, j>> \in Places(n) BY <1>2
  <2> QED BY <1>5, <2>1
<1> QED BY <1>3, <1>4, <1>8, <1>9

\* append writes behind the slice, into the array where it is long enough.
LEMMA AppendedFacts ==
  ASSUME NEW s \in Seq(Values), NEW n \in Nat, n <= Len(s), NEW row \in Values
  PROVE  LET u == Appended(s, n, row) IN
         /\ u \in Seq(Values) /\ n + 1 <= Len(u) /\ Len(s) <= Len(u)
         /\ u[n + 1] = row /\ \A j \in 1..n : u[j] = s[j]
<1> DEFINE b == SubSeq(s, 1, n)
           c == Append(b, row)
           d == SubSeq(s, n + 2, Len(s))
<1>1. Len(s) \in Nat OBVIOUS
<1>2. b \in Seq(Values) /\ Len(b) = n /\ \A j \in 1..n : b[j] = s[j] BY <1>1, SubSeqProperties
<1>3. d \in Seq(Values) /\ Len(d) = IF n + 2 <= Len(s) THEN Len(s) - n - 1 ELSE 0
  BY <1>1, SubSeqProperties
<1>4. c \in Seq(Values) /\ Len(c) = n + 1 /\ c[n + 1] = row /\ \A j \in 1..n : c[j] = s[j]
  BY <1>2
<1>5. b \o <<row>> = c BY <1>2, AppendIsConcat
<1> HIDE DEF b, c, d
<1>6. /\ c \o d \in Seq(Values) /\ Len(c \o d) = n + 1 + Len(d)
      /\ \A j \in 1..(n + 1) : (c \o d)[j] = c[j]
  <2>1. /\ c \o d \in Seq(Values) /\ Len(c \o d) = Len(c) + Len(d)
        /\ \A j \in 1..(Len(c) + Len(d)) :
             (c \o d)[j] = IF j <= Len(c) THEN c[j] ELSE d[j - Len(c)]
    BY <1>3, <1>4, ConcatProperties
  <2>2. Len(d) \in Nat BY <1>3
  <2> QED BY <1>4, <2>1, <2>2
<1>7. Len(d) \in Nat /\ n + 1 + Len(d) >= Len(s)
  <2>1. CASE n + 2 <= Len(s) BY <1>1, <1>3, <2>1
  <2>2. CASE ~(n + 2 <= Len(s)) BY <1>1, <1>3, <2>2
  <2> QED BY <2>1, <2>2
<1>8. Appended(s, n, row) = c \o d BY <1>5 DEF Appended, b, d
<1> QED BY <1>4, <1>6, <1>7, <1>8

\* A row behind the slice of one partition is a row in a new place.
LEMMA NewPlace ==
  ASSUME NEW a, NEW n, Slices(a, n), NEW b, NEW m, Slices(b, m), NEW q \in Parts,
         m[q] = n[q] + 1, \A j \in 1..n[q] : b[q][j] = a[q][j],
         \A p \in Parts \ {q} : b[p] = a[p] /\ m[p] = n[p]
  PROVE  /\ \A x \in Places(n) : x \in Places(m) /\ TableOf(b, m)[x] = TableOf(a, n)[x]
         /\ \A V : Number(TableOf(b, m), V)
                     = Number(TableOf(a, n), V) + One(b[q][n[q] + 1] \in V)
<1> DEFINE y == <<q, n[q] + 1>>
<1>1. n \in [Parts -> Nat] /\ m \in [Parts -> Nat] /\ n[q] \in Nat BY DEF Slices
<1>2. /\ IsTable(TableOf(a, n)) /\ DOMAIN TableOf(a, n) = Places(n)
      /\ \A p \in Parts : \A j \in 1..n[p] : TableOf(a, n)[<<p, j>>] = a[p][j]
  BY TableFacts
<1>3. /\ DOMAIN TableOf(b, m) = Places(m)
      /\ \A p \in Parts : \A j \in 1..m[p] : TableOf(b, m)[<<p, j>>] = b[p][j]
  BY TableFacts
<1>4. /\ \A p, j : <<p, j>> \in Places(n) <=> p \in Parts /\ j \in 1..n[p]
      /\ \A x \in Places(n) : x = <<x[1], x[2]>> /\ x[1] \in Parts /\ x[2] \in 1..n[x[1]]
  BY <1>1, PlacesFacts
<1>5. /\ \A p, j : <<p, j>> \in Places(m) <=> p \in Parts /\ j \in 1..m[p]
      /\ \A x \in Places(m) : x = <<x[1], x[2]>> /\ x[1] \in Parts /\ x[2] \in 1..m[x[1]]
  BY <1>1, PlacesFacts
<1>6. \A j : j \in 1..m[q] <=> j \in 1..n[q] \/ j = n[q] + 1 BY <1>1
<1>7. \A p \in Parts : \A j \in 1..n[p] : j \in 1..m[p] /\ b[p][j] = a[p][j] BY <1>6
<1>8. ASSUME NEW x \in Places(n)
      PROVE  x \in Places(m) /\ TableOf(b, m)[x] = TableOf(a, n)[x]
  <2>1. x = <<x[1], x[2]>> /\ x[1] \in Parts /\ x[2] \in 1..n[x[1]] BY <1>4
  <2>2. x[2] \in 1..m[x[1]] /\ b[x[1]][x[2]] = a[x[1]][x[2]] BY <1>7, <2>1
  <2>3. <<x[1], x[2]>> \in Places(m) BY <1>5, <2>1, <2>2
  <2>4. TableOf(b, m)[<<x[1], x[2]>>] = b[x[1]][x[2]] BY <1>3, <2>1, <2>2
  <2>5. TableOf(a, n)[<<x[1], x[2]>>] = a[x[1]][x[2]] BY <1>2, <2>1
  <2> QED BY <2>1, <2>2, <2>3, <2>4, <2>5
<1>9. y \in Places(m) /\ y \notin Places(n) /\ TableOf(b, m)[y] = b[q][n[q] + 1]
  <2>1. n[q] + 1 \in 1..m[q] /\ n[q] + 1 \notin 1..n[q] BY <1>1
  <2> QED BY <1>3, <1>4, <1>5, <2>1
<1>10. ASSUME NEW x \in Places(m), x # y PROVE x \in Places(n)
  <2>1. x = <<x[1], x[2]>> /\ x[1] \in Parts /\ x[2] \in 1..m[x[1]] BY <1>5
  <2>2. x[2] \in 1..n[x[1]]
    <3>1. CASE x[1] = q BY <1>6, <1>10, <2>1, <3>1
    <3>2. CASE x[1] # q BY <2>1, <3>2
    <3> QED BY <3>1, <3>2
  <2>3. <<x[1], x[2]>> \in Places(n) BY <1>4, <2>1, <2>2
  <2> QED BY <2>1, <2>3
<1> HIDE DEF y
<1>11. Places(m) = Places(n) \cup {y} BY <1>8, <1>9, <1>10
<1>12. ASSUME NEW V
       PROVE  Number(TableOf(b, m), V) = Number(TableOf(a, n), V) + One(b[q][n[q] + 1] \in V)
  <2> DEFINE t == TableOf(a, n)
             u == TableOf(b, m)
  <2>1. IsFiniteSet(DOMAIN t) BY <1>2 DEF IsTable
  <2>2. \A x \in DOMAIN t : u[x] = t[x] BY <1>2, <1>8
  <2>3. DOMAIN u = DOMAIN t \cup {y} /\ y \notin DOMAIN t BY <1>2, <1>3, <1>9, <1>11
  <2>4. u[y] = b[q][n[q] + 1] BY <1>9
  <2> HIDE DEF t, u
  <2>5. Number(u, V) = Number(t, V) + One(u[y] \in V) BY <2>1, <2>2, <2>3, RowAdded
  <2> QED BY <2>4, <2>5 DEF t, u
<1> QED BY <1>8, <1>12

\* tableEditor.Insert puts the row in a new place.
Inserted(a, n, q, row, b, m) ==
  b = [a EXCEPT ![q] = Appended(@, n[q], row)] /\ m = [n EXCEPT ![q] = @ + 1]

LEMMA InsertFacts ==
  ASSUME NEW a, NEW n, Slices(a, n), NEW q \in Parts, NEW row \in Values,
         NEW b, NEW m, Inserted(a, n, q, row, b, m)
  PROVE  /\ Slices(b, m) /\ \A p \in Parts : Len(a[p]) <= Len(b[p])
         /\ \A x \in Places(n) : x \in Places(m) /\ TableOf(b, m)[x] = TableOf(a, n)[x]
         /\ \A V : Number(TableOf(b, m), V) = Number(TableOf(a, n), V) + One(row \in V)
<1>1. /\ a \in [Parts -> Seq(Values)] /\ n \in [Parts -> Nat]
      /\ \A p \in Parts : n[p] \in Nat /\ n[p] <= Len(a[p]) /\ a[p] \in Seq(Values)
  BY DEF Slices
<1>2. /\ b[q] \in Seq(Values) /\ n[q] + 1 <= Len(b[q]) /\ Len(a[q]) <= Len(b[q])
      /\ b[q][n[q] + 1] = row /\ \A j \in 1..n[q] : b[q][j] = a[q][j]
  <2>1. b[q] = Appended(a[q], n[q], row) BY <1>1 DEF Inserted
  <2>2. a[q] \in Seq(Values) /\ n[q] \in Nat /\ n[q] <= Len(a[q]) BY <1>1
  <2>3. LET u == Appended(a[q], n[q], row) IN
        /\ u \in Seq(Values) /\ n[q] + 1 <= Len(u) /\ Len(a[q]) <= Len(u)
        /\ u[n[q] + 1] = row /\ \A j \in 1..n[q] : u[j] = a[q][j]
    BY <2>2, AppendedFacts
  <2> QED BY <2>1, <2>3
<1>3. \A p \in Parts \ {q} : b[p] = a[p] /\ m[p] = n[p] BY <1>1 DEF Inserted
<1>4. m \in [Parts -> Nat] /\ m[q] = n[q] + 1 BY <1>1 DEF Inserted
<1>5. b \in [Parts -> Seq(Values)]
  <2>1. DOMAIN b = Parts /\ b = [p \in Parts |-> b[p]] BY <1>1 DEF Inserted
  <2>2. \A p \in Parts : b[p] \in Seq(Values) BY <1>1, <1>2, <1>3
  <2> QED BY <2>1, <2>2
<1>6. Slices(b, m) BY <1>1, <1>2, <1>3, <1>4, <1>5 DEF Slices
<1>7. \A p \in Parts : Len(a[p]) <= Len(b[p])
  <2>1. \A p \in Parts : Len(a[p]) \in Nat BY <1>1
  <2> QED BY <1>2, <1>3, <2>1
<1>8. /\ \A x \in Places(n) : x \in Places(m) /\ TableOf(b, m)[x] = TableOf(a, n)[x]
      /\ \A V : Number(TableOf(b, m), V)
                  = Number(TableOf(a, n), V) + One(b[q][n[q] + 1] \in V)
  BY <1>2, <1>3, <1>4, <1>6, NewPlace
<1> QED BY <1>2, <1>6, <1>7, <1>8

\* The rest of the slice moves up within the array.
LEMMA ShiftedFacts ==
  ASSUME NEW s \in Seq(Values), NEW n \in Nat, n <= Len(s), NEW k \in 1..n
  PROVE  LET u == Shifted(s, n, k) IN
         /\ u \in Seq(Values) /\ Len(u) = Len(s)
         /\ \A j \in 1..Len(s) : u[j] = IF j \in k..(n - 1) THEN s[j + 1] ELSE s[j]
<1> DEFINE u == Shifted(s, n, k)
<1>1. Len(s) \in Nat /\ DOMAIN s = 1..Len(s) /\ \A j \in 1..Len(s) : s[j] \in Values OBVIOUS
<1>2. \A j \in k..(n - 1) : j + 1 \in 1..Len(s) BY <1>1
<1>3. /\ DOMAIN u = 1..Len(s)
      /\ \A j \in 1..Len(s) : u[j] = IF j \in k..(n - 1) THEN s[j + 1] ELSE s[j]
  BY <1>1 DEF Shifted
<1>4. \A j \in 1..Len(s) : u[j] \in Values BY <1>1, <1>2, <1>3
<1>5. u = [j \in 1..Len(s) |-> u[j]] BY <1>1 DEF Shifted
<1> HIDE DEF u
<1>6. u \in [1..Len(s) -> Values] BY <1>4, <1>5
<1>7. u \in Seq(Values) /\ Len(u) = Len(s) BY <1>1, <1>6, FunctionIsList
<1> QED BY <1>3, <1>7 DEF u

\* tableEditor.Delete: the row of one place is gone, the rows behind it have other
\* places, and what the array holds behind the slice is left.
Deleted(a, n, q, k, b, m) ==
  b = [a EXCEPT ![q] = Shifted(@, n[q], k)] /\ m = [n EXCEPT ![q] = @ - 1]

\* the place from which the row in place x has come
From(q, k, x) == IF x[1] = q /\ x[2] >= k THEN <<q, x[2] + 1>> ELSE x

LEMMA DeleteSlices ==
  ASSUME NEW a, NEW n, Slices(a, n), NEW q \in Parts, NEW k \in 1..n[q],
         NEW b, NEW m, Deleted(a, n, q, k, b, m)
  PROVE  /\ Slices(b, m) /\ \A p \in Parts : Len(b[p]) = Len(a[p])
         /\ m[q] = n[q] - 1 /\ \A p \in Parts \ {q} : b[p] = a[p] /\ m[p] = n[p]
         /\ \A j \in 1..Len(a[q]) :
              b[q][j] = IF j \in k..(n[q] - 1) THEN a[q][j + 1] ELSE a[q][j]
<1>1. /\ a \in [Parts -> Seq(Values)] /\ n \in [Parts -> Nat]
      /\ \A p \in Parts : n[p] \in Nat /\ n[p] <= Len(a[p]) /\ a[p] \in Seq(Values)
  BY DEF Slices
<1>2. /\ b[q] \in Seq(Values) /\ Len(b[q]) = Len(a[q])
      /\ \A j \in 1..Len(a[q]) :
           b[q][j] = IF j \in k..(n[q] - 1) THEN a[q][j + 1] ELSE a[q][j]
  <2>1. b[q] = Shifted(a[q], n[q], k) BY <1>1 DEF Deleted
  <2>2. a[q] \in Seq(Values) /\ n[q] \in Nat /\ n[q] <= Len(a[q]) BY <1>1
  <2>3. LET u == Shifted(a[q], n[q], k) IN
        /\ u \in Seq(Values) /\ Len(u) = Len(a[q])
        /\ \A j \in 1..Len(a[q]) : u[j] = IF j \in k..(n[q] - 1) THEN a[q][j + 1] ELSE a[q][j]
    BY <2>2, ShiftedFacts
  <2> QED BY <2>1, <2>3
<1>3. \A p \in Parts \ {q} : b[p] = a[p] /\ m[p] = n[p] BY <1>1 DEF Deleted
<1>4. m \in [Parts -> Nat] /\ m[q] = n[q] - 1
  <2>1. n[q] - 1 \in Nat BY <1>1
  <2> QED BY <1>1, <2>1 DEF Deleted
<1>5. b \in [Parts -> Seq(Values)]
  <2>1. DOMAIN b = Parts /\ b = [p \in Parts |-> b[p]] BY <1>1 DEF Deleted
  <2>2. \A p \in Parts : b[p] \in Seq(Values) BY <1>1, <1>2, <1>3
  <2> QED BY <2>1, <2>2
<1>6. \A p \in Parts : m[p] <= Len(b[p])
  <2>1. n[q] \in Nat /\ Len(a[q]) \in Nat /\ n[q] <= Len(a[q]) BY <1>1
  <2>2. m[q] <= Len(b[q]) BY <1>2, <1>4, <2>1
  <2> QED BY <1>1, <1>3, <2>2
<1> QED BY <1>2, <1>3, <1>4, <1>5, <1>6 DEF Slices

LEMMA DeleteFacts ==
  ASSUME NEW a, NEW n, Slices(a, n), NEW q \in Parts, NEW k \in 1..n[q],
         NEW b, NEW m, Deleted(a, n, q, k, b, m)
  PROVE  /\ \A x \in Places(m) : /\ From(q, k, x) \in Places(n) \ {<<q, k>>}
                                 /\ From(q, k, x)[1] = x[1]
                                 /\ TableOf(b, m)[x] = TableOf(a, n)[From(q, k, x)]
         /\ \A x, y \in Places(m) : From(q, k, x) = From(q, k, y) => x = y
         /\ \A V : Number(TableOf(b, m), V) = Number(TableOf(a, n), V) - One(a[q][k] \in V)
<1>1. /\ Slices(b, m) /\ m[q] = n[q] - 1 /\ \A p \in Parts \ {q} : b[p] = a[p] /\ m[p] = n[p]
      /\ \A j \in 1..Len(a[q]) :
           b[q][j] = IF j \in k..(n[q] - 1) THEN a[q][j + 1] ELSE a[q][j]
  BY DeleteSlices
<1>2. n \in [Parts -> Nat] /\ m \in [Parts -> Nat] /\ n[q] \in Nat /\ n[q] <= Len(a[q])
  BY <1>1 DEF Slices
<1>3. /\ IsTable(TableOf(a, n)) /\ DOMAIN TableOf(a, n) = Places(n)
      /\ \A p \in Parts : \A j \in 1..n[p] : TableOf(a, n)[<<p, j>>] = a[p][j]
  BY TableFacts
<1>4. /\ IsTable(TableOf(b, m)) /\ DOMAIN TableOf(b, m) = Places(m)
      /\ \A p \in Parts : \A j \in 1..m[p] : TableOf(b, m)[<<p, j>>] = b[p][j]
  BY <1>1, TableFacts
<1>5. /\ \A p, j : <<p, j>> \in Places(n) <=> p \in Parts /\ j \in 1..n[p]
      /\ \A x \in Places(n) : x = <<x[1], x[2]>> /\ x[1] \in Parts /\ x[2] \in 1..n[x[1]]
  BY <1>2, PlacesFacts
<1>6. /\ \A p, j : <<p, j>> \in Places(m) <=> p \in Parts /\ j \in 1..m[p]
      /\ \A x \in Places(m) : x = <<x[1], x[2]>> /\ x[1] \in Parts /\ x[2] \in 1..m[x[1]]
  BY <1>2, PlacesFacts
<1>7. ASSUME NEW x \in Places(m)
      PROVE  /\ From(q, k, x) \in Places(n) \ {<<q, k>>} /\ From(q, k, x)[1] = x[1]
             /\ TableOf(b, m)[x] = TableOf(a, n)[From(q, k, x)]
  <2>1. x = <<x[1], x[2]>> /\ x[1] \in Parts /\ x[2] \in 1..m[x[1]] BY <1>6
  <2>2. TableOf(b, m)[x] = b[x[1]][x[2]]
    <3>1. TableOf(b, m)[<<x[1], x[2]>>] = b[x[1]][x[2]] BY <1>4, <2>1
    <3> QED BY <2>1, <3>1
  <2>3. CASE x[1] = q /\ x[2] >= k
    <3>1. From(q, k, x) = <<q, x[2] + 1>> BY <2>3 DEF From
    <3>2. /\ x[2] + 1 \in 1..n[q] /\ x[2] + 1 # k /\ x[2] \in 1..Len(a[q])
          /\ x[2] \in k..(n[q] - 1)
      BY <1>1, <1>2, <2>1, <2>3
    <3>3. b[q][x[2]] = a[q][x[2] + 1] BY <1>1, <3>2
    <3>4. TableOf(a, n)[<<q, x[2] + 1>>] = a[q][x[2] + 1] BY <1>3, <3>2
    <3>5. <<q, x[2] + 1>> \in Places(n) /\ <<q, x[2] + 1>> # <<q, k>> BY <1>5, <3>2
    <3> QED BY <2>2, <2>3, <3>1, <3>3, <3>4, <3>5
  <2>4. CASE ~(x[1] = q /\ x[2] >= k)
    <3>1. From(q, k, x) = x BY <2>4 DEF From
    <3>2. x[2] \in 1..n[x[1]] /\ b[x[1]][x[2]] = a[x[1]][x[2]] /\ x # <<q, k>>
      <4>1. CASE x[1] = q
        <5>1. /\ x[2] \in 1..n[q] /\ x[2] \in 1..Len(a[q]) /\ x[2] # k
              /\ x[2] \notin k..(n[q] - 1)
          BY <1>1, <1>2, <2>1, <2>4, <4>1
        <5> QED BY <1>1, <2>1, <4>1, <5>1
      <4>2. CASE x[1] # q BY <1>1, <2>1, <4>2
      <4> QED BY <4>1, <4>2
    <3>3. TableOf(a, n)[<<x[1], x[2]>>] = a[x[1]][x[2]] BY <1>3, <2>1, <3>2
    <3>4. <<x[1], x[2]>> \in Places(n) BY <1>5, <2>1, <3>2
    <3> QED BY <2>1, <2>2, <3>1, <3>2, <3>3, <3>4
  <2> QED BY <2>3, <2>4
<1>8. ASSUME NEW x \in Places(m), NEW y \in Places(m), From(q, k, x) = From(q, k, y)
      PROVE  x = y
  <2>1. x = <<x[1], x[2]>> /\ x[2] \in Int /\ y = <<y[1], y[2]>> /\ y[2] \in Int
    BY <1>2, <1>6
  <2>2. x[1] = y[1] BY <1>7, <1>8
  <2>3. x[2] = y[2]
    <3>1. CASE x[1] # q BY <1>8, <2>2, <3>1 DEF From
    <3>2. CASE x[1] = q
      <4>1. From(q, k, x)[2] = (IF x[2] >= k THEN x[2] + 1 ELSE x[2]) BY <3>2 DEF From
      <4>2. From(q, k, y)[2] = (IF y[2] >= k THEN y[2] + 1 ELSE y[2]) BY <2>2, <3>2 DEF From
      <4>3. k \in Int BY <1>2
      <4> QED BY <1>8, <2>1, <4>1, <4>2, <4>3
    <3> QED BY <3>1, <3>2
  <2> QED BY <2>1, <2>2, <2>3
<1>9. ASSUME NEW y \in Places(n) \ {<<q, k>>} PROVE \E x \in Places(m) : From(q, k, x) = y
  <2>1. y = <<y[1], y[2]>> /\ y[1] \in Parts /\ y[2] \in 1..n[y[1]] BY <1>5
  <2>2. CASE y[1] = q /\ y[2] > k
    <3>1. y[2] - 1 \in 1..m[q] /\ y[2] - 1 >= k /\ (y[2] - 1) + 1 = y[2]
      BY <1>1, <1>2, <2>1, <2>2
    <3>2. <<q, y[2] - 1>> \in Places(m) BY <1>6, <3>1
    <3>3. From(q, k, <<q, y[2] - 1>>) = <<q, y[2]>> BY <3>1 DEF From
    <3> QED BY <2>1, <2>2, <3>2, <3>3
  <2>3. CASE ~(y[1] = q /\ y[2] > k)
    <3>1. y[1] = q => y[2] # k /\ y[2] < k /\ y[2] \in 1..m[q]
      <4>1. y[1] = q => y[2] # k BY <2>1
      <4> QED BY <1>1, <1>2, <2>1, <2>3, <4>1
    <3>2. y[2] \in 1..m[y[1]] /\ ~(y[1] = q /\ y[2] >= k)
      <4>1. CASE y[1] = q BY <1>2, <2>1, <3>1, <4>1
      <4>2. CASE y[1] # q BY <1>1, <2>1, <4>2
      <4> QED BY <4>1, <4>2
    <3>3. <<y[1], y[2]>> \in Places(m) BY <1>6, <2>1, <3>2
    <3>4. From(q, k, y) = y BY <3>2 DEF From
    <3> QED BY <2>1, <3>3, <3>4
  <2> QED BY <2>2, <2>3
<1>10. ASSUME NEW V
       PROVE  Number(TableOf(b, m), V) = Number(TableOf(a, n), V) - One(a[q][k] \in V)
  <2> DEFINE t == TableOf(a, n)
             u == TableOf(b, m)
             x == <<q, k>>
             f == [y \in DOMAIN u |-> From(q, k, y)]
  <2>1. /\ IsFiniteSet(DOMAIN t) /\ IsFiniteSet(DOMAIN u)
        /\ DOMAIN t = Places(n) /\ DOMAIN u = Places(m)
    BY <1>3, <1>4 DEF IsTable
  <2>2. x \in DOMAIN t /\ t[x] = a[q][k] BY <1>3, <1>5
  <2> HIDE DEF t, u, x
  <2>3. \A y \in DOMAIN u : f[y] \in DOMAIN t \ {x} /\ u[y] = t[f[y]] BY <1>7, <2>1 DEF t, u, x
  <2>4. \A y, z \in DOMAIN u : f[y] = f[z] => y = z BY <1>8, <2>1
  <2>5. \A y \in DOMAIN t \ {x} : \E z \in DOMAIN u : f[z] = y BY <1>9, <2>1 DEF x
  <2>6. f \in [DOMAIN u -> DOMAIN t \ {x}] BY <2>3
  <2> HIDE DEF f
  <2>7. f \in Bijection(DOMAIN u, DOMAIN t \ {x})
    BY <2>4, <2>5, <2>6 DEF Bijection, Injection, Surjection, IsInjective
  <2>8. Number(u, V) = Number(t, V) - One(t[x] \in V) BY <2>1, <2>2, <2>3, <2>7, RowRemoved
  <2> QED BY <2>2, <2>8 DEF t, u
<1> QED BY <1>7, <1>8, <1>10

\* tableEditor.Update changes the row of one place.
Updated(a, q, k, new, b) == b = [a EXCEPT ![q][k] = new]

LEMMA UpdateFacts ==
  ASSUME NEW a, NEW n, Slices(a, n), NEW q \in Parts, NEW k \in 1..n[q], NEW new \in Values,
         NEW b, Updated(a, q, k, new, b)
  PROVE  /\ Slices(b, n) /\ \A p \in Parts : Len(b[p]) = Len(a[p])
         /\ \A x \in Places(n) \ {<<q, k>>} : TableOf(b, n)[x] = TableOf(a, n)[x]
         /\ \A V : Number(TableOf(b, n), V)
                     = Number(TableOf(a, n), V) - One(a[q][k] \in V) + One(new \in V)
<1>1. /\ a \in [Parts -> Seq(Values)] /\ n \in [Parts -> Nat]
      /\ \A p \in Parts : n[p] \in Nat /\ n[p] <= Len(a[p]) /\ a[p] \in Seq(Values)
  BY DEF Slices
<1>2. k \in 1..Len(a[q]) /\ a[q] \in Seq(Values) /\ n[q] \in Nat BY <1>1
<1>3. b[q] = [a[q] EXCEPT ![k] = new] /\ \A p \in Parts \ {q} : b[p] = a[p]
  BY <1>1 DEF Updated
<1>4. /\ b[q] \in Seq(Values) /\ Len(b[q]) = Len(a[q]) /\ b[q][k] = new
      /\ \A j \in 1..Len(a[q]) : j # k => b[q][j] = a[q][j]
  BY <1>2, <1>3
<1>5. b \in [Parts -> Seq(Values)]
  <2>1. DOMAIN b = Parts /\ b = [p \in Parts |-> b[p]] BY <1>1 DEF Updated
  <2>2. \A p \in Parts : b[p] \in Seq(Values) BY <1>1, <1>3, <1>4
  <2> QED BY <2>1, <2>2
<1>6. \A p \in Parts : Len(b[p]) = Len(a[p]) BY <1>3, <1>4
<1>7. Slices(b, n) BY <1>1, <1>5, <1>6 DEF Slices
<1>8. /\ IsTable(TableOf(a, n)) /\ DOMAIN TableOf(a, n) = Places(n)
      /\ \A p \in Parts : \A j \in 1..n[p] :
           <<p, j>> \in Places(n) /\ TableOf(a, n)[<<p, j>>] = a[p][j]
  BY TableFacts
<1>9. /\ DOMAIN TableOf(b, n) = Places(n)
      /\ \A p \in Parts : \A j \in 1..n[p] : TableOf(b, n)[<<p, j>>] = b[p][j]
  BY <1>7, TableFacts
<1>10. ASSUME NEW x \in Places(n) \ {<<q, k>>} PROVE TableOf(b, n)[x] = TableOf(a, n)[x]
  <2>1. x = <<x[1], x[2]>> /\ x[1] \in Parts /\ x[2] \in 1..n[x[1]] BY <1>1, PlacesFacts
  <2>2. b[x[1]][x[2]] = a[x[1]][x[2]]
    <3>1. CASE x[1] = q
      <4>1. x[2] # k BY <2>1, <3>1
      <4>2. x[2] \in 1..Len(a[q]) BY <1>1, <2>1, <3>1
      <4> QED BY <1>4, <3>1, <4>1, <4>2
    <3>2. CASE x[1] # q BY <1>3, <2>1, <3>2
    <3> QED BY <3>1, <3>2
  <2>3. TableOf(a, n)[<<x[1], x[2]>>] = a[x[1]][x[2]] BY <1>8, <2>1
  <2>4. TableOf(b, n)[<<x[1], x[2]>>] = b[x[1]][x[2]] BY <1>9, <2>1
  <2> QED BY <2>1, <2>2, <2>3, <2>4
<1>11. ASSUME NEW V
       PROVE  Number(TableOf(b, n), V)
                = Number(TableOf(a, n), V) - One(a[q][k] \in V) + One(new \in V)
  <2> DEFINE t == TableOf(a, n)
             u == TableOf(b, n)
             x == <<q, k>>
  <2>1. IsFiniteSet(DOMAIN t) /\ DOMAIN t = DOMAIN u /\ DOMAIN t = Places(n)
    BY <1>8, <1>9 DEF IsTable
  <2>2. x \in DOMAIN t /\ t[x] = a[q][k] /\ u[x] = new BY <1>4, <1>8, <1>9
  <2>3. \A y \in DOMAIN t \ {x} : u[y] = t[y] BY <1>10, <2>1
  <2> HIDE DEF t, u, x
  <2>4. Number(u, V) = Number(t, V) - One(t[x] \in V) + One(u[x] \in V)
    <3>1. IsFiniteSet(DOMAIN t) /\ DOMAIN u = DOMAIN t /\ x \in DOMAIN t BY <2>1, <2>2
    <3> QED BY <2>3, <3>1, RowChanged
  <2> QED BY <2>2, <2>4 DEF t, u
<1> QED BY <1>6, <1>7, <1>10, <1>11

-----------------------------------------------------------------------------
(***************************************************************************)
(* The inductive invariant                                                 *)
(***************************************************************************)
\* What a statement is about, and how far it can be
StmtOK ==
  /\ IsTable(before)
  /\ stmt.part \notin stmt.keys
  /\ stmt.kind \in {"insert", "replace"} =>
       stmt.n = Len(stmt.source) /\ stmt.part = 0 /\ stmt.keys = {}
  /\ stmt.kind = "update" /\ stmt.source = <<>> => stmt.where \subseteq 0..(MaxValue - 1)
  /\ stmt.kind = "update" /\ stmt.source # <<>> => 1 \in DOMAIN stmt.source

\* The places of the table as it was whose rows are in V and have been read, and
\* the VALUES that are in the table by now
ReadOf(t, s, V) ==
  {x \in DOMAIN t : t[x] \in V /\ x[1] \notin s.keys /\ (x[1] = s.part => x[2] <= s.pos)}
Read(V) == ReadOf(before, stmt, V)
Stored(v) == {i \in 1..stmt.pos : stmt.source[i] = v}
New == {v \in Values : Before(v) = 0 /\ Stored(v) # {}}

InsertInv ==
  stmt.kind = "insert" =>
    stmt.count = stmt.pos /\ \A v \in Values : Occurs(v) = Before(v) + Cardinality(Stored(v))

ReplaceInv ==
  stmt.kind = "replace" =>
    /\ \A v \in Values : Occurs(v) = IF v \in New THEN 1 ELSE Before(v)
    /\ stmt.count = 2 * stmt.pos - Cardinality(New)

\* The rows that were there stay where they were, and the one partition that has
\* any is opened before anything is inserted.
SelectPlaces ==
  /\ OnePartition(before)
  /\ \A x \in DOMAIN before : x \in DOMAIN Table /\ Table[x] = before[x]
  /\ stmt.keys # {} =>
       stmt.part = 0 /\ Table = before /\ stmt.keys = {p \in Parts : len[p] > 0}
  /\ stmt.part # 0 => DOMAIN before = {stmt.part} \X (1..stmt.n)

SelectInv ==
  stmt.kind = "insertSelect" /\ stmt.undisturbed =>
    /\ SelectPlaces
    /\ \A v \in Values : Occurs(v) = Before(v) + Cardinality(Read({v} \cap stmt.where))
    /\ stmt.count = Cardinality(Read(stmt.where))

\* Rows that have not been read are what they were, also when Update has changed
\* an equal row instead of the one that was read.
UpdatePlaces ==
  /\ OnePartition(before) \/ NoneEqual(before, Values)
  /\ \A x \in DOMAIN before : x \in Read(Values) \/ Table[x] = before[x]

UpdateInv ==
  stmt.kind = "update" =>
    /\ DOMAIN before = Places(len)
    /\ stmt.part # 0 => stmt.n = len[stmt.part]
    /\ stmt.undisturbed =>
         /\ UpdatePlaces
         /\ \A v \in Values : Occurs(v) = Before(v) - Cardinality(Read({v} \cap stmt.where))
                                            + Cardinality(Read(Becoming(v)))
         /\ stmt.count = Cardinality(Read(Changed))
         /\ stmt.matched = Cardinality(Read(stmt.where))

\* In the partition that is read, either nothing was deleted yet, or its one row
\* was; then what is left in the array behind the slice is no row to delete either.
DeletePlaces ==
  /\ OneEach(Table, stmt.where) /\ NoneEqual(Table, stmt.where)
  /\ \A x \in DOMAIN Table : Table[x] \in stmt.where => x[1] \in stmt.keys \cup {stmt.part}
  /\ stmt.part # 0 =>
       \/ /\ stmt.n = len[stmt.part]
          /\ \A j \in 1..stmt.pos : arr[stmt.part][j] \notin stmt.where
       \/ /\ \A j \in 1..len[stmt.part] : arr[stmt.part][j] \notin stmt.where
          /\ \A j \in (stmt.pos + 1)..stmt.n : arr[stmt.part][j] \notin stmt.where

DeleteInv ==
  stmt.kind = "delete" =>
    /\ stmt.count = Number(before, stmt.where) - Number(Table, stmt.where)
    /\ stmt.undisturbed => DeletePlaces

NoError == stmt.undisturbed => stmt.res # "err"

TableInv ==
  /\ StmtOK /\ InsertInv /\ ReplaceInv /\ SelectInv /\ UpdateInv /\ DeleteInv /\ NoError
  /\ OnlySelectedRows

-----------------------------------------------------------------------------
(***************************************************************************)
(* What a step does to the statement and to the table                      *)
(***************************************************************************)
\* The least of a set of numbers.
LEMMA MinFacts ==
  ASSUME NEW S, S \subseteq Nat, S # {}
  PROVE  Min(S) \in S /\ \A y \in S : Min(S) <= y
<1>1. \E x \in S : \A y \in S : x <= y BY LeastNumber
<1> QED BY <1>1 DEF Min

\* What the type invariant says of the statement.
LEMMA StmtFacts ==
  ASSUME TypeOK
  PROVE  /\ stmt.kind \in {"none", "insert", "replace", "delete", "update", "insertSelect"}
         /\ stmt.where \subseteq Values /\ stmt.source \in Seq(Values)
         /\ stmt.keys \subseteq Parts /\ stmt.part \in 0..NumPartitions
         /\ stmt.pos \in Nat /\ stmt.n \in Nat /\ stmt.count \in Nat /\ stmt.matched \in Nat
         /\ stmt.undisturbed \in BOOLEAN /\ stmt.res \in {"ok", "err", "failed"}
         /\ Slices(arr, len)
BY DEF TypeOK, Statements, Slices

\* One more row of the same iterator, or of the VALUES
MoveOn(c, m) ==
  /\ stmt'.kind = stmt.kind /\ stmt'.where = stmt.where /\ stmt'.source = stmt.source
  /\ stmt'.undisturbed = stmt.undisturbed /\ stmt'.res = stmt.res
  /\ stmt'.keys = stmt.keys /\ stmt'.part = stmt.part /\ stmt'.n = stmt.n
  /\ stmt'.pos = stmt.pos + 1 /\ stmt'.count = stmt.count + c /\ stmt'.matched = stmt.matched + m

\* Advance moves on by one row.
LEMMA AdvanceMoves ==
  ASSUME TypeOK, NEW c \in Nat, Advance(c)
  PROVE  MoveOn(c, 0) /\ stmt' \in Statements
<1>1. stmt \in Statements BY DEF TypeOK
<1>2. stmt.pos \in Nat /\ stmt.count \in Nat /\ stmt.matched \in Nat BY StmtFacts
<1>3. stmt.pos + 1 \in Nat /\ stmt.count + c \in Nat /\ stmt.matched = stmt.matched + 0 BY <1>2
<1> QED BY <1>1, <1>3 DEF Advance, MoveOn, Statements

\* The row that an iterator is at.
LEMMA RowFacts ==
  ASSUME TypeOK, HasRow
  PROVE  /\ stmt.part \in Parts /\ stmt.pos + 1 \in 1..stmt.n
         /\ stmt.n <= Len(arr[stmt.part]) /\ Row \in Values
<1>1. stmt.part \in Parts /\ stmt.pos + 1 \in 1..stmt.n
  BY StmtFacts, PartitionsAssumption DEF HasRow, Parts
<1>2. stmt.n <= Len(arr[stmt.part]) /\ arr[stmt.part] \in Seq(Values)
  BY <1>1 DEF TypeOK, HasRow
<1>3. stmt.pos + 1 \in 1..Len(arr[stmt.part]) BY <1>1, <1>2, StmtFacts
<1> QED BY <1>1, <1>2, <1>3 DEF Row

\* The value that is inserted next.
LEMMA ValueFacts ==
  ASSUME TypeOK, StmtOK, HasValue
  PROVE  /\ stmt.kind \in {"insert", "replace"} /\ stmt.n = Len(stmt.source)
         /\ stmt.pos + 1 \in 1..stmt.n /\ Value \in Values
<1>1. stmt.kind \in {"insert", "replace"} BY StmtFacts DEF HasValue, Running, Reads
<1>2. stmt.n = Len(stmt.source) BY <1>1 DEF StmtOK
<1>3. stmt.source \in Seq(Values) /\ stmt.pos + 1 \in 1..stmt.n BY StmtFacts DEF HasValue
<1> QED BY <1>1, <1>2, <1>3 DEF Value

\* The row that Delete and Update find.
LEMMA FoundRow ==
  ASSUME TypeOK, NEW row, NEW p \in Holding(row)
  PROVE  LET k == FirstIndex(p, row) IN
         p \in Parts /\ k \in 1..len[p] /\ arr[p][k] = row /\ \A j \in 1..(k - 1) : arr[p][j] # row
<1>1. p \in Parts /\ At(p, row) # {} BY DEF Holding
<1>2. len[p] \in Nat /\ At(p, row) \subseteq Nat BY <1>1 DEF TypeOK, At
<1>3. /\ FirstIndex(p, row) \in At(p, row)
      /\ \A y \in At(p, row) : FirstIndex(p, row) <= y
  BY <1>1, <1>2, MinFacts DEF FirstIndex
<1> DEFINE k == FirstIndex(p, row)
<1>4. k \in 1..len[p] /\ arr[p][k] = row BY <1>3 DEF At
<1>5. ASSUME NEW j \in 1..(k - 1) PROVE arr[p][j] # row
  <2>1. j \in 1..len[p] /\ ~(k <= j) BY <1>2, <1>4
  <2> QED BY <1>3, <2>1 DEF At
<1> QED BY <1>1, <1>4, <1>5

\* The insertion goes around the partitions.
LEMMA NextInsertFacts ==
  ASSUME TypeOK
  PROVE  insert \in Parts /\ NextInsert \in Parts
<1>1. insert \in 1..NumPartitions BY DEF TypeOK, Parts
<1> QED BY <1>1, PartitionsAssumption DEF NextInsert, Parts

\* A step that inserts a row
LEMMA InsertStep ==
  ASSUME TypeOK, NEW row \in Values, Insert(row)
  PROVE  /\ Slices(arr', len') /\ insert' \in Parts /\ \A p \in Parts : Len(arr[p]) <= Len(arr'[p])
         /\ \A x \in Places(len) : x \in Places(len') /\ Table'[x] = Table[x]
         /\ \A V : Number(Table', V) = Number(Table, V) + One(row \in V)
<1>1. Slices(arr, len) /\ insert \in Parts /\ NextInsert \in Parts BY StmtFacts, NextInsertFacts
<1>2. Inserted(arr, len, insert, row, arr', len') BY DEF Insert, Inserted
<1>3. /\ Slices(arr', len') /\ \A p \in Parts : Len(arr[p]) <= Len(arr'[p])
      /\ \A x \in Places(len) :
           x \in Places(len') /\ TableOf(arr', len')[x] = TableOf(arr, len)[x]
      /\ \A V : Number(TableOf(arr', len'), V) = Number(TableOf(arr, len), V) + One(row \in V)
  BY <1>1, <1>2, InsertFacts
<1>4. insert' \in Parts BY <1>1 DEF Insert
<1> QED BY <1>3, <1>4 DEF Table

\* A step that deletes a row
LEMMA DeleteStep ==
  ASSUME TypeOK, NEW row, NEW p \in Holding(row), Delete(p, row)
  PROVE  LET k == FirstIndex(p, row) IN
         /\ Slices(arr', len') /\ \A q \in Parts : Len(arr'[q]) = Len(arr[q])
         /\ Deleted(arr, len, p, k, arr', len')
         /\ \A V : Number(Table', V) = Number(Table, V) - One(row \in V)
<1> DEFINE k == FirstIndex(p, row)
<1>1. Slices(arr, len) /\ p \in Parts /\ k \in 1..len[p] /\ arr[p][k] = row
  BY StmtFacts, FoundRow
<1>2. Deleted(arr, len, p, k, arr', len') BY DEF Delete, Deleted
<1> HIDE DEF k
<1>3. Slices(arr', len') /\ \A q \in Parts : Len(arr'[q]) = Len(arr[q])
  BY <1>1, <1>2, DeleteSlices
<1>4. \A V : Number(TableOf(arr', len'), V) = Number(TableOf(arr, len), V) - One(arr[p][k] \in V)
  BY <1>1, <1>2, DeleteFacts
<1> QED BY <1>1, <1>2, <1>3, <1>4 DEF Table, k

\* A step that deletes a row and inserts it again
LEMMA ReplaceStep ==
  ASSUME TypeOK, NEW row \in Values, NEW p \in Holding(row), Replace(p, row)
  PROVE  /\ Slices(arr', len') /\ insert' \in Parts
         /\ \A V : Number(Table', V) = Number(Table, V)
<1> DEFINE k == FirstIndex(p, row)
           a == [arr EXCEPT ![p] = Shifted(@, len[p], FirstIndex(p, row))]
           n == [len EXCEPT ![p] = @ - 1]
<1>1. /\ Slices(arr, len) /\ insert \in Parts /\ NextInsert \in Parts
      /\ p \in Parts /\ k \in 1..len[p] /\ arr[p][k] = row
  BY StmtFacts, NextInsertFacts, FoundRow
<1>2. Deleted(arr, len, p, k, a, n) BY DEF Deleted
<1>3. /\ arr' = [a EXCEPT ![insert] = Appended(@, n[insert], row)]
      /\ len' = [n EXCEPT ![insert] = @ + 1] /\ insert' = NextInsert
  BY DEF Replace
<1> HIDE DEF a, n, k
<1>4. Inserted(a, n, insert, row, arr', len') BY <1>3 DEF Inserted
<1>5. Slices(a, n) BY <1>1, <1>2, DeleteSlices
<1>6. \A V : Number(TableOf(a, n), V) = Number(TableOf(arr, len), V) - One(row \in V)
  BY <1>1, <1>2, DeleteFacts
<1>7. /\ Slices(arr', len')
      /\ \A V : Number(TableOf(arr', len'), V) = Number(TableOf(a, n), V) + One(row \in V)
  BY <1>1, <1>4, <1>5, InsertFacts
<1>8. ASSUME NEW V PROVE Number(Table', V) = Number(Table, V)
  <2>1. IsFiniteSet(DOMAIN TableOf(arr, len)) BY <1>1, TableFacts DEF IsTable
  <2>2. Number(TableOf(arr, len), V) \in Nat /\ One(row \in V) \in Nat
    BY <2>1, NumberType DEF One
  <2> QED BY <1>6, <1>7, <2>2 DEF Table
<1> QED BY <1>1, <1>3, <1>7, <1>8

\* A step that updates a row: nothing, or one row that is equal to the one read
LEMMA UpdateStep ==
  ASSUME TypeOK, NEW row, NEW new \in Values, Update(row, new)
  PROVE  \/ Holding(row) = {} /\ arr' = arr
         \/ \E p \in Holding(row) : Updated(arr, p, FirstIndex(p, row), new, arr')
BY DEF Update, Updated

\* The statements that may begin, and what is known when one has begun.
Starts(k, w, src) ==
  /\ Begin(k, w, src)
  /\ k \in {"insert", "replace", "delete", "update", "insertSelect"}
  /\ w \in SUBSET Values /\ src \in Seq(Values)
  /\ k = "update" /\ src = <<>> => w \subseteq 0..(MaxValue - 1)
  /\ k = "update" /\ src # <<>> => 1 \in DOMAIN src

\* The steps, with the ways to begin a statement put together.
LEMMA NextCases ==
  ASSUME Next
  PROVE  \/ \E k, w, src : Starts(k, w, src)
         \/ OpenPartition \/ EndPartition \/ SkipRow \/ DeleteRow \/ UpdateRow \/ InsertSelected
         \/ InsertValue \/ ReplaceValue \/ Fail \/ End
<1>1. ASSUME NEW k \in Kinds \cap {"delete", "insertSelect"}, NEW w \in SUBSET Values,
             Begin(k, w, <<>>)
      PROVE  \E j, v, src : Starts(j, v, src)
  <2>1. Starts(k, w, <<>>) BY <1>1 DEF Starts
  <2> QED BY <2>1
<1>2. ASSUME NEW k \in Kinds \cap {"update"}, NEW w \in Updatable, Begin(k, w, <<>>)
      PROVE  \E j, v, src : Starts(j, v, src)
  <2>1. w \subseteq 0..(MaxValue - 1) BY DEF Updatable
  <2>2. w \in SUBSET Values BY <2>1, BoundsAssumption DEF Values
  <2>3. Starts(k, w, <<>>) BY <1>2, <2>1, <2>2 DEF Starts
  <2> QED BY <2>3
<1>3. ASSUME NEW k \in Kinds \cap {"update"}, NEW w \in SUBSET Values, NEW c \in Values,
             Begin(k, w, <<c>>)
      PROVE  \E j, v, src : Starts(j, v, src)
  <2>1. <<c>> \in Seq(Values) /\ <<c>> # <<>> /\ 1 \in DOMAIN <<c>> OBVIOUS
  <2>2. Starts(k, w, <<c>>) BY <1>3, <2>1 DEF Starts
  <2> QED BY <2>2
<1>4. ASSUME NEW k \in Kinds \cap {"insert", "replace"}, NEW a \in Values, NEW b \in Values,
             Begin(k, {}, <<a, b>>)
      PROVE  \E j, v, src : Starts(j, v, src)
  <2>1. <<a, b>> \in Seq(Values) OBVIOUS
  <2>2. Starts(k, {}, <<a, b>>) BY <1>4, <2>1 DEF Starts
  <2> QED BY <2>2
<1> QED BY <1>1, <1>2, <1>3, <1>4 DEF Next

\* A statement that begins has done nothing yet.
LEMMA BeginFacts ==
  ASSUME TypeOK, NEW k, NEW w, NEW src, Starts(k, w, src)
  PROVE  /\ stmt' \in Statements
         /\ stmt'.kind = k /\ stmt'.where = w /\ stmt'.source = src /\ stmt'.n = Len(src)
         /\ stmt'.undisturbed = Undisturbed(k, w) /\ stmt'.res = "ok"
         /\ stmt'.keys = IF k \in {"insert", "replace"} THEN {} ELSE {p \in Parts : len[p] > 0}
         /\ stmt'.part = 0 /\ stmt'.pos = 0 /\ stmt'.count = 0 /\ stmt'.matched = 0
         /\ before' = Table /\ UNCHANGED <<arr, len, insert>>
<1> DEFINE u == Undisturbed(k, w)
           ks == IF k \in {"insert", "replace"} THEN {} ELSE {p \in Parts : len[p] > 0}
<1>1. u \in BOOLEAN BY DEF Undisturbed
<1>2. ks \in SUBSET Parts /\ Len(src) \in Nat /\ 0 \in 0..NumPartitions
  BY PartitionsAssumption DEF Starts
<1>3. /\ stmt' = [NoStmt EXCEPT !.kind = k, !.where = w, !.source = src, !.n = Len(src),
                                !.undisturbed = u, !.keys = ks]
      /\ before' = Table /\ UNCHANGED <<arr, len, insert>>
  BY DEF Starts, Begin
<1> HIDE DEF u, ks
<1>4. stmt' = [kind |-> k, where |-> w, source |-> src, keys |-> ks, part |-> 0, pos |-> 0,
               n |-> Len(src), count |-> 0, matched |-> 0, undisturbed |-> u, res |-> "ok"]
  BY <1>3 DEF NoStmt
<1>5. stmt' \in Statements BY <1>1, <1>2, <1>4 DEF Statements, Starts
<1>6. /\ stmt'.kind = k /\ stmt'.where = w /\ stmt'.source = src /\ stmt'.n = Len(src)
      /\ stmt'.undisturbed = u /\ stmt'.res = "ok" /\ stmt'.keys = ks
      /\ stmt'.part = 0 /\ stmt'.pos = 0 /\ stmt'.count = 0 /\ stmt'.matched = 0
  BY <1>4
<1> QED BY <1>3, <1>5, <1>6 DEF u, ks

\* The next partition of an iterator
LEMMA OpenFacts ==
  ASSUME TypeOK, OpenPartition
  PROVE  \E p \in stmt.keys :
           /\ p \in Parts /\ stmt' \in Statements
           /\ stmt'.kind = stmt.kind /\ stmt'.where = stmt.where /\ stmt'.source = stmt.source
           /\ stmt'.undisturbed = stmt.undisturbed /\ stmt'.res = stmt.res
           /\ stmt'.count = stmt.count /\ stmt'.matched = stmt.matched
           /\ stmt'.keys = stmt.keys \ {p} /\ stmt'.part = p /\ stmt'.pos = 0 /\ stmt'.n = len[p]
<1> DEFINE p == NextPartition
<1>1. stmt.keys # {} /\ stmt.keys \subseteq Parts /\ Parts \subseteq Nat
  BY StmtFacts DEF OpenPartition, Parts
<1>2. p \in stmt.keys /\ p \in Parts BY <1>1, MinFacts DEF NextPartition
<1>3. len[p] \in Nat /\ p \in 0..NumPartitions BY <1>2, PartitionsAssumption DEF TypeOK, Parts
<1>4. stmt' = [stmt EXCEPT !.part = p, !.keys = @ \ {p}, !.pos = 0, !.n = len[p]]
  BY DEF OpenPartition
<1>5. stmt \in Statements BY DEF TypeOK
<1> HIDE DEF p
<1>6. /\ stmt' \in Statements
      /\ stmt'.kind = stmt.kind /\ stmt'.where = stmt.where /\ stmt'.source = stmt.source
      /\ stmt'.undisturbed = stmt.undisturbed /\ stmt'.res = stmt.res
      /\ stmt'.count = stmt.count /\ stmt'.matched = stmt.matched
      /\ stmt'.keys = stmt.keys \ {p} /\ stmt'.part = p /\ stmt'.pos = 0 /\ stmt'.n = len[p]
  BY <1>3, <1>4, <1>5 DEF Statements
<1> QED BY <1>2, <1>6

\* The end of a partition only leaves it.
LEMMA EndPartitionFacts ==
  ASSUME TypeOK, EndPartition
  PROVE  /\ stmt' \in Statements
         /\ stmt'.kind = stmt.kind /\ stmt'.where = stmt.where /\ stmt'.source = stmt.source
         /\ stmt'.undisturbed = stmt.undisturbed /\ stmt'.res = stmt.res
         /\ stmt'.count = stmt.count /\ stmt'.matched = stmt.matched
         /\ stmt'.keys = stmt.keys /\ stmt'.part = 0 /\ stmt'.pos = stmt.pos /\ stmt'.n = stmt.n
<1>1. stmt \in Statements /\ 0 \in 0..NumPartitions BY PartitionsAssumption DEF TypeOK
<1> QED BY <1>1 DEF EndPartition, Statements

\* What UPDATE makes of a row is a row.
LEMMA ApplyFacts ==
  ASSUME TypeOK, StmtOK, stmt.kind = "update", NEW row \in stmt.where
  PROVE  ApplyUpdates(row) \in Values
<1>1. stmt.source \in Seq(Values) /\ stmt.where \subseteq Values BY StmtFacts
<1>2. CASE stmt.source = <<>>
  <2>1. row \in 0..(MaxValue - 1) BY <1>2 DEF StmtOK
  <2> QED BY <1>2, <2>1, BoundsAssumption DEF ApplyUpdates, Values
<1>3. CASE stmt.source # <<>>
  <2>1. 1 \in DOMAIN stmt.source BY <1>3 DEF StmtOK
  <2> QED BY <1>1, <1>3, <2>1 DEF ApplyUpdates
<1> QED BY <1>2, <1>3

\* UpdateRow moves on by one row, which it counts when it changes it.
LEMMA UpdateMoves ==
  ASSUME TypeOK, UpdateRow
  PROVE  MoveOn(One(ApplyUpdates(Row) # Row), 1) /\ stmt' \in Statements
<1> DEFINE c == IF ApplyUpdates(Row) = Row THEN stmt.count ELSE stmt.count + 1
<1>1. stmt \in Statements BY DEF TypeOK
<1>2. stmt.pos \in Nat /\ stmt.count \in Nat /\ stmt.matched \in Nat BY StmtFacts
<1>3. stmt' = [stmt EXCEPT !.pos = @ + 1, !.matched = @ + 1, !.count = c] BY DEF UpdateRow
<1>4. c \in Nat /\ c = stmt.count + One(ApplyUpdates(Row) # Row) BY <1>2 DEF One
<1> HIDE DEF c
<1>p. stmt.pos + 1 \in Nat /\ stmt.matched + 1 \in Nat BY <1>2
<1>5. stmt' \in Statements BY <1>1, <1>3, <1>4, <1>p DEF Statements
<1> QED BY <1>1, <1>2, <1>3, <1>4, <1>5 DEF MoveOn, Statements

-----------------------------------------------------------------------------
(***************************************************************************)
(* Types                                                                   *)
(***************************************************************************)
LEMMA InitType == Init => TypeOK /\ StmtOK
<1> SUFFICES ASSUME Init PROVE TypeOK /\ StmtOK OBVIOUS
<1>1. arr \in [Parts -> Seq(Values)]
  <2>1. \A n \in Nat : \A f \in [1..n -> Values] : f \in Seq(Values) BY FunctionIsList
  <2>2. \A p \in Parts : arr[p] \in UNION {[1..n -> Values] : n \in 0..MaxRows} BY DEF Init
  <2>3. \A p \in Parts : arr[p] \in Seq(Values) BY <2>1, <2>2
  <2>4. arr = [p \in Parts |-> arr[p]] BY DEF Init
  <2> QED BY <2>3, <2>4
<1>2. len \in [Parts -> Nat] /\ \A p \in Parts : len[p] <= Len(arr[p]) BY <1>1 DEF Init
<1>3. stmt = NoStmt /\ before = Table /\ insert \in Parts /\ stmts = 0 BY DEF Init
<1>4. stmt \in Statements BY <1>3, PartitionsAssumption DEF NoStmt, Statements
<1>5. stmt.pos = 0 /\ stmt.n = 0 /\ stmt.part = 0 /\ stmt.keys = {} /\ stmt.kind = "none"
  BY <1>3 DEF NoStmt
<1>6. Slices(arr, len) BY <1>1, <1>2 DEF Slices
<1>7. IsTable(before) BY <1>3, <1>6, TableFacts DEF Table
<1> QED BY <1>1, <1>2, <1>3, <1>4, <1>5, <1>7 DEF TypeOK, StmtOK

\* A step that reads on keeps what is known of the statement.
LEMMA MoveKeepsStmt ==
  ASSUME TypeOK, StmtOK, NEW c, NEW m, MoveOn(c, m), stmt' \in Statements, stmt.pos < stmt.n,
         stmt.part # 0 => Len(arr[stmt.part]) <= Len(arr'[stmt.part]),
         Slices(arr', len'), insert' \in Parts, UNCHANGED <<before, stmts>>
  PROVE  TypeOK' /\ StmtOK'
<1>1. stmt.pos \in Nat /\ stmt.n \in Nat /\ stmt.part \in 0..NumPartitions BY StmtFacts
<1>2. stmt'.pos <= stmt'.n BY <1>1 DEF MoveOn
<1>3. stmt'.part # 0 => stmt'.n <= Len(arr'[stmt'.part])
  <2> SUFFICES ASSUME stmt.part # 0 PROVE stmt.n <= Len(arr'[stmt.part]) BY DEF MoveOn
  <2>1. stmt.part \in Parts BY <1>1, PartitionsAssumption DEF Parts
  <2>2. Len(arr[stmt.part]) \in Nat /\ Len(arr'[stmt.part]) \in Nat
    BY <2>1 DEF TypeOK, Slices
  <2> QED BY <1>1, <2>2 DEF TypeOK
<1>4. TypeOK' BY <1>2, <1>3 DEF TypeOK, Slices
<1>5. StmtOK' BY DEF StmtOK, MoveOn, IsTable
<1> QED BY <1>4, <1>5

\* A statement that has ended
Over(r, u) ==
  stmt' = [kind |-> "none", where |-> {}, source |-> <<>>, keys |-> {}, part |-> 0,
           pos |-> 0, n |-> 0, count |-> 0, matched |-> 0, undisturbed |-> u, res |-> r]

\* After a statement the table can be in any state that it leaves.
LEMMA NoStmtOK ==
  ASSUME TypeOK, StmtOK, NEW r \in {"ok", "err", "failed"}, NEW u \in BOOLEAN, Over(r, u),
         UNCHANGED <<arr, len, insert, before, stmts>>
  PROVE  TypeOK' /\ StmtOK' /\ stmt'.kind = "none" /\ stmt'.res = r /\ stmt'.undisturbed = u
<1>2. stmt' \in Statements BY PartitionsAssumption DEF Over, Statements
<1>3. /\ stmt'.pos = 0 /\ stmt'.n = 0 /\ stmt'.part = 0 /\ stmt'.keys = {}
      /\ stmt'.kind = "none" /\ stmt'.res = r /\ stmt'.undisturbed = u
  BY DEF Over
<1>4. TypeOK' BY <1>2, <1>3 DEF TypeOK
<1>5. StmtOK' BY <1>3 DEF StmtOK, IsTable
<1> QED BY <1>3, <1>4, <1>5

\* End, Fail, and a DELETE that does not find its row
LEMMA EndedStep ==
  ASSUME TypeOK, StmtOK, End \/ Fail \/ (DeleteRow /\ Holding(Row) = {})
  PROVE  /\ TypeOK' /\ StmtOK' /\ stmt'.kind = "none"
         /\ stmt'.res = "err" => DeleteRow /\ stmt'.undisturbed = stmt.undisturbed
<1>1. CASE End
  <2>1. Over("ok", TRUE) BY <1>1 DEF End, NoStmt, Over
  <2> QED BY <1>1, <2>1, NoStmtOK DEF End
<1>2. CASE Fail
  <2>1. Over("failed", TRUE) BY <1>2 DEF Fail, NoStmt, Over
  <2> QED BY <1>2, <2>1, NoStmtOK DEF Fail
<1>3. CASE DeleteRow /\ Holding(Row) = {}
  <2>1. Over("err", stmt.undisturbed) BY <1>3 DEF DeleteRow, NoStmt, Over
  <2>2. stmt.undisturbed \in BOOLEAN BY StmtFacts
  <2> QED BY <1>3, <2>1, <2>2, NoStmtOK DEF DeleteRow
<1> QED BY <1>1, <1>2, <1>3

\* A stuttering step keeps the types.
LEMMA UnchangedType ==
  ASSUME TypeOK, StmtOK, UNCHANGED vars
  PROVE  TypeOK' /\ StmtOK'
BY DEF TypeOK, StmtOK, vars, IsTable

\* Every step keeps the types.
LEMMA TypeStep ==
  ASSUME TypeOK, StmtOK, [Next]_vars
  PROVE  TypeOK' /\ StmtOK'
<1>s. Slices(arr, len) /\ insert \in Parts /\ stmts \in Nat BY StmtFacts DEF TypeOK
<1>g. \A p \in Parts : Len(arr[p]) <= Len(arr[p]) BY DEF TypeOK
<1>p. stmt.part # 0 => stmt.part \in Parts BY StmtFacts, PartitionsAssumption DEF Parts
<1>1. ASSUME NEW k, NEW w, NEW src, Starts(k, w, src) PROVE TypeOK' /\ StmtOK'
  <2>1. /\ stmt' \in Statements /\ stmt'.kind = k /\ stmt'.where = w /\ stmt'.source = src
        /\ stmt'.n = Len(src) /\ stmt'.part = 0 /\ stmt'.pos = 0
        /\ stmt'.keys = IF k \in {"insert", "replace"} THEN {} ELSE {p \in Parts : len[p] > 0}
        /\ before' = Table /\ UNCHANGED <<arr, len, insert>>
    BY <1>1, BeginFacts
  <2>2. stmts' \in Nat /\ Len(src) \in Nat BY <1>1, <1>s DEF Starts, Begin
  <2>3. IsTable(before') BY <1>s, <2>1, TableFacts DEF Table
  <2>4. 0 \notin Parts BY DEF Parts
  <2>5. TypeOK' BY <2>1, <2>2 DEF TypeOK
  <2>6. StmtOK' BY <1>1, <2>1, <2>3, <2>4 DEF StmtOK, Starts
  <2> QED BY <2>5, <2>6
<1>2. CASE OpenPartition
  <2>1. PICK p \in stmt.keys :
          /\ p \in Parts /\ stmt' \in Statements
          /\ stmt'.kind = stmt.kind /\ stmt'.where = stmt.where /\ stmt'.source = stmt.source
          /\ stmt'.keys = stmt.keys \ {p} /\ stmt'.part = p /\ stmt'.pos = 0 /\ stmt'.n = len[p]
    BY <1>2, OpenFacts
  <2>2. UNCHANGED <<arr, len, insert, before, stmts>> BY <1>2 DEF OpenPartition
  <2>3. len[p] \in Nat /\ len[p] <= Len(arr[p]) BY <2>1 DEF TypeOK
  <2>4. TypeOK' BY <2>1, <2>2, <2>3 DEF TypeOK
  <2>5. StmtOK' BY <2>1, <2>2 DEF StmtOK, IsTable
  <2> QED BY <2>4, <2>5
<1>3. CASE EndPartition
  <2>1. /\ stmt' \in Statements
        /\ stmt'.kind = stmt.kind /\ stmt'.where = stmt.where /\ stmt'.source = stmt.source
        /\ stmt'.keys = stmt.keys /\ stmt'.part = 0 /\ stmt'.pos = stmt.pos /\ stmt'.n = stmt.n
    BY <1>3, EndPartitionFacts
  <2>2. UNCHANGED <<arr, len, insert, before, stmts>> BY <1>3 DEF EndPartition
  <2>3. 0 \notin stmt.keys BY StmtFacts DEF Parts
  <2>4. TypeOK' BY <2>1, <2>2 DEF TypeOK
  <2>5. StmtOK' BY <2>1, <2>2, <2>3 DEF StmtOK, IsTable
  <2> QED BY <2>4, <2>5
<1>4. CASE SkipRow
  <2>1. MoveOn(0, 0) /\ stmt' \in Statements BY <1>4, AdvanceMoves DEF SkipRow
  <2>2. UNCHANGED <<arr, len, insert, before, stmts>> /\ stmt.pos < stmt.n
    BY <1>4 DEF SkipRow, HasRow
  <2> QED BY <1>s, <1>g, <1>p, <2>1, <2>2, MoveKeepsStmt
<1>5. CASE DeleteRow
  <2>1. CASE Holding(Row) = {} BY <1>5, <2>1, EndedStep
  <2>2. ASSUME NEW p \in Holding(Row), Delete(p, Row), Advance(1) PROVE TypeOK' /\ StmtOK'
    <3>1. MoveOn(1, 0) /\ stmt' \in Statements BY <2>2, AdvanceMoves
    <3>2. Slices(arr', len') /\ \A q \in Parts : Len(arr'[q]) = Len(arr[q])
      BY <2>2, DeleteStep
    <3>3. UNCHANGED <<insert, before, stmts>> /\ stmt.pos < stmt.n
      BY <1>5 DEF DeleteRow, HasRow
    <3>4. stmt.part # 0 => Len(arr[stmt.part]) <= Len(arr'[stmt.part])
      BY <1>g, <1>p, <3>2
    <3> QED BY <1>s, <3>1, <3>2, <3>3, <3>4, MoveKeepsStmt
  <2> QED BY <1>5, <2>1, <2>2 DEF DeleteRow
<1>6. CASE UpdateRow
  <2>1. stmt' \in Statements /\ MoveOn(One(ApplyUpdates(Row) # Row), 1) BY <1>6, UpdateMoves
  <2>2. UNCHANGED <<len, insert, before, stmts>> /\ stmt.pos < stmt.n
    BY <1>6 DEF UpdateRow, HasRow
  <2>3. ApplyUpdates(Row) \in Values BY <1>6, ApplyFacts DEF UpdateRow
  <2>4. Slices(arr', len') /\ \A q \in Parts : Len(arr[q]) <= Len(arr'[q])
    <3>1. CASE arr' = arr BY <1>s, <1>g, <2>2, <3>1
    <3>2. CASE arr' # arr
      <4>1. Update(Row, ApplyUpdates(Row)) BY <1>6, <3>2 DEF UpdateRow
      <4>2. PICK p \in Holding(Row) :
              Updated(arr, p, FirstIndex(p, Row), ApplyUpdates(Row), arr')
        BY <2>3, <3>2, <4>1, UpdateStep
      <4>3. p \in Parts /\ FirstIndex(p, Row) \in 1..len[p] BY FoundRow
      <4>4. Slices(arr', len) /\ \A q \in Parts : Len(arr'[q]) = Len(arr[q])
        BY <1>s, <2>3, <4>2, <4>3, UpdateFacts
      <4> QED BY <1>g, <2>2, <4>4
    <3> QED BY <3>1, <3>2
  <2> QED BY <1>s, <1>p, <2>1, <2>2, <2>4, MoveKeepsStmt
<1>7. ASSUME NEW row \in Values, Insert(row), stmt.pos < stmt.n, Advance(1),
             UNCHANGED <<before, stmts>>
      PROVE  TypeOK' /\ StmtOK'
  <2>1. MoveOn(1, 0) /\ stmt' \in Statements BY <1>7, AdvanceMoves
  <2>2. Slices(arr', len') /\ insert' \in Parts /\ \A p \in Parts : Len(arr[p]) <= Len(arr'[p])
    BY <1>7, InsertStep
  <2> QED BY <1>7, <1>p, <2>1, <2>2, MoveKeepsStmt
<1>8. CASE InsertSelected
  <2>1. Row \in Values /\ stmt.pos < stmt.n BY <1>8, RowFacts DEF InsertSelected, HasRow
  <2> QED BY <1>7, <1>8, <2>1 DEF InsertSelected
<1>9. CASE InsertValue
  <2>1. Value \in Values /\ stmt.pos < stmt.n BY <1>9, ValueFacts DEF InsertValue, HasValue
  <2> QED BY <1>7, <1>9, <2>1 DEF InsertValue
<1>10. CASE ReplaceValue
  <2>1. Value \in Values /\ stmt.pos < stmt.n BY <1>10, ValueFacts DEF ReplaceValue, HasValue
  <2>2. CASE Holding(Value) = {} /\ Insert(Value) /\ Advance(1)
    BY <1>7, <1>10, <2>1, <2>2 DEF ReplaceValue
  <2>3. ASSUME NEW p \in Holding(Value), Replace(p, Value), Advance(2) PROVE TypeOK' /\ StmtOK'
    <3>1. MoveOn(2, 0) /\ stmt' \in Statements BY <2>3, AdvanceMoves
    <3>2. Slices(arr', len') /\ insert' \in Parts BY <2>1, <2>3, ReplaceStep
    <3>3. stmt.part = 0 /\ UNCHANGED <<before, stmts>>
      BY <1>10, ValueFacts DEF ReplaceValue, StmtOK
    <3> QED BY <2>1, <3>1, <3>2, <3>3, MoveKeepsStmt
  <2> QED BY <1>10, <2>2, <2>3 DEF ReplaceValue
<1>11. CASE Fail \/ End BY <1>11, EndedStep
<1>12. CASE UNCHANGED vars BY <1>12, UnchangedType
<1>13. CASE Next
  BY <1>1, <1>2, <1>3, <1>4, <1>5, <1>6, <1>8, <1>9, <1>10, <1>11, <1>13, NextCases
<1> QED BY <1>12, <1>13

\* The slices stay within their arrays, insert names a partition, and an iterator
\* never reads behind the array it was opened on (tableIter.getRow,
\* tableEditor.Insert).
THEOREM TypeCorrect == Spec => []TypeOK
<1>1. Init => TypeOK /\ StmtOK BY InitType
<1>2. TypeOK /\ StmtOK /\ [Next]_vars => (TypeOK /\ StmtOK)' BY TypeStep
<1> QED BY <1>1, <1>2, PTL DEF Spec

-----------------------------------------------------------------------------
(***************************************************************************)
(* OnlySelectedRows                                                        *)
(***************************************************************************)
LEMMA Numbers ==
  ASSUME TypeOK, StmtOK
  PROVE  /\ \A V : Number(Table, V) \in Nat /\ Number(before, V) \in Nat
         /\ IsTable(Table) /\ DOMAIN Table = Places(len)
<1>1. IsTable(Table) /\ DOMAIN Table = Places(len) BY StmtFacts, TableFacts DEF Table
<1>2. IsFiniteSet(DOMAIN Table) /\ IsFiniteSet(DOMAIN before) BY <1>1 DEF StmtOK, IsTable
<1> QED BY <1>1, <1>2, NumberType

\* The table is a matter of the slices alone.
LEMMA SameTable ==
  ASSUME UNCHANGED <<arr, len, before>>
  PROVE  UNCHANGED Table /\ \A v : Occurs(v)' = Occurs(v) /\ Before(v)' = Before(v)
BY DEF Table, TableOf, Occurs, Before, Number, Places

\* One of a row.
LEMMA OneFacts ==
  /\ \A row \in Values : One(row \in Values) = 1
  /\ \A row, v : One(row \in {v}) = IF row = v THEN 1 ELSE 0
BY DEF One

\* The kind of a statement that has a row to read, or a value to insert
LEMMA KindFacts ==
  ASSUME TypeOK, StmtOK
  PROVE  /\ HasRow => stmt.kind \notin {"none", "insert", "replace"}
         /\ HasValue => stmt.kind \in {"insert", "replace"}
BY StmtFacts DEF HasRow, HasValue, Running, Reads, StmtOK

\* Every step keeps OnlySelectedRows.
LEMMA OnlyStep ==
  ASSUME TypeOK, StmtOK, OnlySelectedRows, [Next]_vars
  PROVE  OnlySelectedRows'
<1>n. \A V : Number(Table, V) \in Nat /\ Number(before, V) \in Nat BY Numbers
<1>f. /\ stmt.pos \in Nat /\ stmt.count \in Nat /\ stmt.where \subseteq Values BY StmtFacts
<1>1. ASSUME NEW k, NEW w, NEW src, Starts(k, w, src) PROVE OnlySelectedRows'
  <2>1. /\ stmt'.pos = 0 /\ stmt'.count = 0 /\ before' = Table /\ UNCHANGED <<arr, len>>
    BY <1>1, BeginFacts
  <2>2. Table' = Table BY <2>1 DEF Table
  <2>3. Growth' = 0 BY <1>n, <2>1, <2>2 DEF Growth
  <2>4. \A v : Occurs(v)' = Before(v)' /\ Before(v)' \in Nat
    BY <1>n, <2>1, <2>2 DEF Occurs, Before
  <2>5. OthersKept' BY <2>4 DEF OthersKept
  <2>6. \A v : Occurs(v)' >= Before(v)' BY <2>4
  <2>7. /\ Growth' = -(stmt'.count) /\ Growth' = stmt'.count
        /\ Growth' = 2 * (stmt'.pos) - stmt'.count
    <3>1. \A c \in Int : c + c = 0 => c = -c OBVIOUS
    <3>2. Growth' = stmt'.count /\ stmt'.count \in Int /\ stmt'.count + stmt'.count = 0
      BY <2>1, <2>3
    <3>3. Growth' = 2 * (stmt'.pos) - stmt'.count BY <2>1, <2>3
    <3> QED BY <3>1, <3>2, <3>3
  <2> QED BY <2>3, <2>5, <2>6, <2>7 DEF OnlySelectedRows
<1>2. CASE OpenPartition \/ EndPartition
  <2>1. /\ stmt'.kind = stmt.kind /\ stmt'.where = stmt.where /\ stmt'.count = stmt.count
        /\ stmt.kind # "replace"
    <3>1. CASE OpenPartition BY <3>1, OpenFacts DEF OpenPartition, StmtOK
    <3>2. CASE EndPartition BY <3>2, EndPartitionFacts DEF EndPartition, StmtOK
    <3> QED BY <1>2, <3>1, <3>2
  <2>2. UNCHANGED <<arr, len, before>> BY <1>2 DEF OpenPartition, EndPartition
  <2>3. UNCHANGED Table /\ \A v : Occurs(v)' = Occurs(v) /\ Before(v)' = Before(v)
    BY <2>2, SameTable
  <2>4. Growth' = Growth BY <2>2, <2>3 DEF Growth
  <2>5. OthersKept' = OthersKept BY <2>1, <2>3 DEF OthersKept
  <2> QED BY <2>1, <2>3, <2>4, <2>5 DEF OnlySelectedRows
<1>4. CASE SkipRow
  <2>1. MoveOn(0, 0) BY <1>4, AdvanceMoves DEF SkipRow
  <2>2. UNCHANGED <<arr, len, before>> /\ stmt.kind # "replace"
    BY <1>4, KindFacts DEF SkipRow
  <2>3. UNCHANGED Table /\ \A v : Occurs(v)' = Occurs(v) /\ Before(v)' = Before(v)
    BY <2>2, SameTable
  <2>4. Growth' = Growth BY <2>2, <2>3 DEF Growth
  <2>5. OthersKept' = OthersKept BY <2>1, <2>3 DEF OthersKept, MoveOn
  <2>6. stmt'.kind = stmt.kind /\ stmt'.where = stmt.where /\ stmt'.count = stmt.count
    BY <1>f, <2>1 DEF MoveOn
  <2> QED BY <2>2, <2>3, <2>4, <2>5, <2>6 DEF OnlySelectedRows
<1>5. CASE DeleteRow
  <2>1. CASE Holding(Row) = {}
    <3>1. stmt'.kind = "none" BY <1>5, <2>1, EndedStep
    <3> QED BY <3>1 DEF OnlySelectedRows
  <2>2. ASSUME NEW p \in Holding(Row), Delete(p, Row), Advance(1) PROVE OnlySelectedRows'
    <3>1. MoveOn(1, 0) BY <2>2, AdvanceMoves
    <3>2. \A V : Number(Table', V) = Number(Table, V) - One(Row \in V) BY <2>2, DeleteStep
    <3>3. /\ before' = before /\ stmt.kind = "delete" /\ Row \in stmt.where /\ Row \in Values
      BY <1>5, RowFacts DEF DeleteRow
    <3>4. Growth' = Growth - 1
      <4>1. Number(Table', Values) = Number(Table, Values) - 1 BY <3>2, <3>3, OneFacts
      <4> QED BY <1>n, <3>3, <4>1 DEF Growth
    <3>5. \A v \in Values \ stmt.where : Occurs(v)' = Occurs(v) /\ Before(v)' = Before(v)
      <4> TAKE v \in Values \ stmt.where
      <4>1. Row # v BY <3>3
      <4>2. One(Row \in {v}) = 0 BY <4>1, OneFacts
      <4>3. Number(Table', {v}) = Number(Table, {v}) BY <1>n, <3>2, <4>2
      <4> QED BY <3>3, <4>3 DEF Occurs, Before
    <3>6. Growth = -stmt.count /\ OthersKept BY <3>3 DEF OnlySelectedRows
    <3>7. Growth' = -stmt'.count BY <1>f, <3>1, <3>4, <3>6 DEF MoveOn
    <3>8. OthersKept' BY <3>1, <3>5, <3>6 DEF OthersKept, MoveOn
    <3> QED BY <3>1, <3>3, <3>7, <3>8 DEF OnlySelectedRows, MoveOn
  <2> QED BY <1>5, <2>1, <2>2 DEF DeleteRow
<1>6. CASE UpdateRow
  <2>1. MoveOn(One(ApplyUpdates(Row) # Row), 1) BY <1>6, UpdateMoves
  <2>2. /\ UNCHANGED <<len, before>> /\ stmt.kind = "update" /\ Row \in stmt.where
        /\ ApplyUpdates(Row) \in Values /\ Row \in Values
    BY <1>6, ApplyFacts, RowFacts DEF UpdateRow
  <2>3. Growth = 0 /\ \A v \in Values \ stmt.where : Occurs(v) >= Before(v)
    BY <2>2 DEF OnlySelectedRows
  <2>4. Growth' = 0 /\ \A v \in Values \ stmt.where : Occurs(v)' >= Before(v)'
    <3>1. CASE arr' = arr
      <4>1. UNCHANGED Table /\ \A v : Occurs(v)' = Occurs(v) /\ Before(v)' = Before(v)
        BY <2>2, <3>1, SameTable
      <4> QED BY <2>2, <2>3, <4>1 DEF Growth
    <3>2. CASE arr' # arr
      <4>1. Update(Row, ApplyUpdates(Row)) BY <1>6, <3>2 DEF UpdateRow
      <4>2. PICK p \in Holding(Row) :
              Updated(arr, p, FirstIndex(p, Row), ApplyUpdates(Row), arr')
        BY <2>2, <3>2, <4>1, UpdateStep
      <4>3. /\ p \in Parts /\ FirstIndex(p, Row) \in 1..len[p]
            /\ arr[p][FirstIndex(p, Row)] = Row
        BY FoundRow
      <4>4. Slices(arr, len) BY StmtFacts
      <4>5. \A V : Number(TableOf(arr', len), V) = Number(TableOf(arr, len), V)
                     - One(arr[p][FirstIndex(p, Row)] \in V) + One(ApplyUpdates(Row) \in V)
        BY <2>2, <4>2, <4>3, <4>4, UpdateFacts
      <4>6. \A V : Number(Table', V) = Number(Table, V)
                                        - One(Row \in V) + One(ApplyUpdates(Row) \in V)
        BY <2>2, <4>3, <4>5 DEF Table
      <4>7. Number(Table', Values) = Number(Table, Values) BY <1>n, <2>2, <4>6, OneFacts
      <4>8. Growth' = 0 BY <2>2, <2>3, <4>7 DEF Growth
      <4>9. ASSUME NEW v \in Values \ stmt.where PROVE Occurs(v)' >= Before(v)'
        <5>1. Row # v BY <2>2
        <5>2. Number(Table', {v}) = Number(Table, {v}) - 0 + One(ApplyUpdates(Row) \in {v})
          BY <4>6, <5>1, OneFacts
        <5>3. One(ApplyUpdates(Row) \in {v}) \in Nat BY DEF One
        <5>4. Number(Table, {v}) >= Number(before, {v}) BY <2>3 DEF Occurs, Before
        <5>5. Number(Table', {v}) >= Number(before, {v}) BY <1>n, <5>2, <5>3, <5>4
        <5> QED BY <2>2, <5>5 DEF Occurs, Before
      <4> QED BY <4>8, <4>9
    <3> QED BY <3>1, <3>2
  <2> QED BY <2>1, <2>2, <2>4 DEF OnlySelectedRows, MoveOn
<1>7. ASSUME NEW row \in Values, Insert(row), before' = before
      PROVE  /\ Growth' = Growth + 1
             /\ \A v : v # row => Occurs(v)' = Occurs(v) /\ Before(v)' = Before(v)
  <2>1. \A V : Number(Table', V) = Number(Table, V) + One(row \in V) BY <1>7, InsertStep
  <2>2. Number(Table', Values) = Number(Table, Values) + 1 BY <2>1, OneFacts
  <2>3. Growth' = Growth + 1 BY <1>n, <1>7, <2>2 DEF Growth
  <2>4. ASSUME NEW v, v # row PROVE Occurs(v)' = Occurs(v) /\ Before(v)' = Before(v)
    <3>1. One(row \in {v}) = 0 BY <2>4, OneFacts
    <3>2. Number(Table', {v}) = Number(Table, {v}) BY <1>n, <2>1, <3>1
    <3> QED BY <1>7, <3>2 DEF Occurs, Before
  <2> QED BY <2>3, <2>4
<1>8. CASE InsertSelected
  <2>1. /\ MoveOn(1, 0) /\ before' = before /\ stmt.kind = "insertSelect"
        /\ Insert(Row) /\ Row \in stmt.where /\ Row \in Values
    BY <1>8, AdvanceMoves, RowFacts DEF InsertSelected
  <2>2. Growth = stmt.count /\ OthersKept BY <2>1 DEF OnlySelectedRows
  <2>3. /\ Growth' = Growth + 1
        /\ \A v : v # Row => Occurs(v)' = Occurs(v) /\ Before(v)' = Before(v)
    BY <1>7, <2>1
  <2>4. Growth' = stmt'.count BY <1>f, <2>1, <2>2, <2>3 DEF MoveOn
  <2>5. \A v \in Values \ stmt.where : v # Row BY <2>1
  <2>6. OthersKept' BY <2>1, <2>2, <2>3, <2>5 DEF OthersKept, MoveOn
  <2> QED BY <2>1, <2>4, <2>6 DEF OnlySelectedRows, MoveOn
<1>9. CASE InsertValue
  <2>1. /\ MoveOn(1, 0) /\ before' = before /\ stmt.kind = "insert"
        /\ Insert(Value) /\ Value \in Values
    BY <1>9, AdvanceMoves, ValueFacts DEF InsertValue
  <2>2. Growth = stmt.count BY <2>1 DEF OnlySelectedRows
  <2>3. Growth' = Growth + 1 BY <1>7, <2>1
  <2>4. Growth' = stmt'.count BY <1>f, <2>1, <2>2, <2>3 DEF MoveOn
  <2> QED BY <2>1, <2>4 DEF OnlySelectedRows, MoveOn
<1>10. CASE ReplaceValue
  <2>1. before' = before /\ stmt.kind = "replace" /\ Value \in Values
    BY <1>10, ValueFacts DEF ReplaceValue
  <2>2. Growth = 2 * stmt.pos - stmt.count BY <2>1 DEF OnlySelectedRows
  <2>3. stmt'.kind = "replace" /\ Growth' = 2 * stmt'.pos - stmt'.count
    <3>1. ASSUME Insert(Value), Advance(1)
          PROVE  stmt'.kind = "replace" /\ Growth' = 2 * stmt'.pos - stmt'.count
      <4>1. MoveOn(1, 0) BY <3>1, AdvanceMoves
      <4>2. Growth' = Growth + 1 BY <1>7, <2>1, <3>1
      <4> QED BY <1>f, <2>1, <2>2, <4>1, <4>2 DEF MoveOn
    <3>2. ASSUME NEW p \in Holding(Value), Replace(p, Value), Advance(2)
          PROVE  stmt'.kind = "replace" /\ Growth' = 2 * stmt'.pos - stmt'.count
      <4>1. MoveOn(2, 0) BY <3>2, AdvanceMoves
      <4>2. Number(Table', Values) = Number(Table, Values) BY <2>1, <3>2, ReplaceStep
      <4>3. Growth' = Growth BY <2>1, <4>2 DEF Growth
      <4> QED BY <1>f, <2>1, <2>2, <4>1, <4>3 DEF MoveOn
    <3> QED BY <1>10, <3>1, <3>2 DEF ReplaceValue
  <2> QED BY <2>3 DEF OnlySelectedRows
<1>11. CASE Fail \/ End
  <2>1. stmt'.kind = "none" BY <1>11, EndedStep
  <2> QED BY <2>1 DEF OnlySelectedRows
<1>12. CASE UNCHANGED vars
  <2>1. UNCHANGED <<arr, len, before, stmt>> BY <1>12 DEF vars
  <2>2. UNCHANGED Table /\ \A v : Occurs(v)' = Occurs(v) /\ Before(v)' = Before(v)
    BY <2>1, SameTable
  <2>3. Growth' = Growth /\ OthersKept' = OthersKept BY <2>1, <2>2 DEF Growth, OthersKept
  <2> QED BY <2>1, <2>2, <2>3 DEF OnlySelectedRows
<1>13. CASE Next
  BY <1>1, <1>2, <1>4, <1>5, <1>6, <1>8, <1>9, <1>10, <1>11, <1>13, NextCases
<1> QED BY <1>12, <1>13

-----------------------------------------------------------------------------
(***************************************************************************)
(* INSERT and REPLACE with VALUES                                          *)
(***************************************************************************)
\* Reading a row is not for these two.
LEMMA ReadingKinds ==
  ASSUME TypeOK, StmtOK,
         \/ OpenPartition \/ EndPartition \/ SkipRow
         \/ DeleteRow \/ UpdateRow \/ InsertSelected
  PROVE  stmt'.kind \in {"none", "delete", "update", "insertSelect"}
<1>0. ASSUME stmt.part # 0 \/ stmt.keys # {}, stmt'.kind = stmt.kind
      PROVE  stmt'.kind \in {"none", "delete", "update", "insertSelect"}
  BY <1>0, StmtFacts DEF StmtOK
<1>1. CASE OpenPartition BY <1>0, <1>1, OpenFacts DEF OpenPartition
<1>2. CASE EndPartition BY <1>0, <1>2, EndPartitionFacts DEF EndPartition
<1>3. CASE SkipRow BY <1>0, <1>3, AdvanceMoves DEF SkipRow, HasRow, MoveOn
<1>4. CASE DeleteRow
  <2>1. CASE Holding(Row) = {} BY <1>4, <2>1, EndedStep
  <2>2. CASE Advance(1) BY <1>4, <2>2, AdvanceMoves DEF DeleteRow, MoveOn
  <2> QED BY <1>4, <2>1, <2>2 DEF DeleteRow
<1>5. CASE UpdateRow BY <1>5, UpdateMoves DEF UpdateRow, MoveOn
<1>6. CASE InsertSelected BY <1>6, AdvanceMoves DEF InsertSelected, MoveOn
<1> QED BY <1>1, <1>2, <1>3, <1>4, <1>5, <1>6

\* Finitely many VALUES are stored.
LEMMA StoredFinite ==
  ASSUME TypeOK
  PROVE  /\ \A v : IsFiniteSet(Stored(v)) /\ Cardinality(Stored(v)) \in Nat
         /\ IsFiniteSet(New) /\ Cardinality(New) \in Nat
<1>1. stmt.pos \in Nat BY StmtFacts
<1>2. IsFiniteSet(1..stmt.pos) BY <1>1, FS_Interval
<1>3. \A v : IsFiniteSet(Stored(v)) BY <1>2, FS_Subset DEF Stored
<1>4. IsFiniteSet(Values) BY BoundsAssumption, FS_Interval DEF Values
<1>5. IsFiniteSet(New) BY <1>4, FS_Subset DEF New
<1> QED BY <1>3, <1>5, FS_CardinalityType

\* One more of the VALUES is stored.
LEMMA StoredStep ==
  ASSUME TypeOK, StmtOK, HasValue, NEW c, NEW m, MoveOn(c, m), before' = before
  PROVE  /\ \A v : Cardinality(Stored(v)') = Cardinality(Stored(v)) + One(Value = v)
         /\ New' = New \cup {v \in Values : Before(v) = 0 /\ v = Value}
         /\ \A v : Before(v)' = Before(v)
<1>1. stmt.pos \in Nat /\ stmt'.pos = stmt.pos + 1 /\ stmt'.source = stmt.source
  BY StmtFacts DEF MoveOn
<1>2. 1..stmt'.pos = (1..stmt.pos) \cup {stmt.pos + 1} /\ stmt.pos + 1 \notin 1..stmt.pos
  BY <1>1
<1>3. \A v : Stored(v)' = IF Value = v THEN Stored(v) \cup {stmt.pos + 1} ELSE Stored(v)
  BY <1>1, <1>2 DEF Stored, Value
<1>4. ASSUME NEW v PROVE Cardinality(Stored(v)') = Cardinality(Stored(v)) + One(Value = v)
  <2>1. stmt.pos + 1 \notin Stored(v) BY <1>2 DEF Stored
  <2>2. IsFiniteSet(Stored(v)) BY StoredFinite
  <2> QED BY <1>3, <2>1, <2>2, OneMore
<1>5. \A v : Before(v)' = Before(v) BY DEF Before, Number
<1>6. New' = New \cup {v \in Values : Before(v) = 0 /\ v = Value} BY <1>3, <1>5 DEF New
<1> QED BY <1>4, <1>5, <1>6

\* The rows of the table are the rows of the slices.
LEMMA RowAt ==
  ASSUME TypeOK
  PROVE  \A p \in Parts : \A j \in 1..len[p] :
           <<p, j>> \in Places(len) /\ Table[<<p, j>>] = arr[p][j]
<1>1. Slices(arr, len) BY StmtFacts
<1>2. ASSUME NEW p \in Parts, NEW j \in 1..len[p]
      PROVE  <<p, j>> \in Places(len) /\ TableOf(arr, len)[<<p, j>>] = arr[p][j]
  BY <1>1, TableFacts
<1> QED BY <1>2 DEF Table

\* The editor finds a row exactly when the table has one.
LEMMA HoldingFacts ==
  ASSUME TypeOK, StmtOK, NEW row
  PROVE  Holding(row) = {} <=> Occurs(row) = 0
<1>1. IsFiniteSet(DOMAIN Table) /\ DOMAIN Table = Places(len) BY Numbers DEF IsTable
<1>2. Occurs(row) = 0 <=> \A x \in Places(len) : Table[x] # row BY <1>1, NumberType DEF Occurs
<1>3. \A p \in Parts : \A j \in 1..len[p] : <<p, j>> \in Places(len) /\ Table[<<p, j>>] = arr[p][j]
  BY RowAt
<1>4. \A x \in Places(len) : x = <<x[1], x[2]>> /\ x[1] \in Parts /\ x[2] \in 1..len[x[1]]
  BY PlacesFacts DEF TypeOK
<1>5. Holding(row) = {} <=> \A p \in Parts : \A j \in 1..len[p] : arr[p][j] # row
  BY DEF Holding, At
<1>6. ASSUME \A p \in Parts : \A j \in 1..len[p] : arr[p][j] # row, NEW x \in Places(len)
      PROVE  Table[x] # row
  <2>1. Table[<<x[1], x[2]>>] = arr[x[1]][x[2]] BY <1>3, <1>4
  <2> QED BY <1>4, <1>6, <2>1
<1>7. ASSUME \A x \in Places(len) : Table[x] # row, NEW p \in Parts, NEW j \in 1..len[p]
      PROVE  arr[p][j] # row
  BY <1>3, <1>7
<1> QED BY <1>2, <1>5, <1>6, <1>7

\* Every step keeps the invariants of INSERT and REPLACE.
LEMMA ValuesStep ==
  ASSUME TypeOK, StmtOK, InsertInv, ReplaceInv, [Next]_vars
  PROVE  InsertInv' /\ ReplaceInv'
<1>n. \A V : Number(Table, V) \in Nat /\ Number(before, V) \in Nat BY Numbers
<1>f. stmt.pos \in Nat /\ stmt.count \in Nat BY StmtFacts
<1>c. \A v : Cardinality(Stored(v)) \in Nat BY StoredFinite
<1>1. ASSUME NEW k, NEW w, NEW src, Starts(k, w, src) PROVE InsertInv' /\ ReplaceInv'
  <2>1. /\ stmt'.pos = 0 /\ stmt'.count = 0 /\ before' = Table /\ UNCHANGED <<arr, len>>
    BY <1>1, BeginFacts
  <2>2. Table' = Table BY <2>1 DEF Table
  <2>3. \A v : Occurs(v)' = Before(v)' /\ Before(v)' \in Nat
    BY <1>n, <2>1, <2>2 DEF Occurs, Before
  <2>4. \A v : Stored(v)' = {} BY <2>1 DEF Stored
  <2>5. New' = {} BY <2>4 DEF New
  <2>6. \A v : Cardinality(Stored(v)') = 0 BY <2>4, FS_EmptySet
  <2>7. Cardinality(New') = 0 BY <2>5, FS_EmptySet
  <2>8. InsertInv' BY <2>1, <2>3, <2>6 DEF InsertInv
  <2>9. ReplaceInv' BY <2>1, <2>3, <2>5, <2>7 DEF ReplaceInv
  <2> QED BY <2>8, <2>9
<1>2. ASSUME stmt'.kind \in {"none", "delete", "update", "insertSelect"}
      PROVE  InsertInv' /\ ReplaceInv'
  BY <1>2 DEF InsertInv, ReplaceInv
<1>3. CASE \/ OpenPartition \/ EndPartition \/ SkipRow
           \/ DeleteRow \/ UpdateRow \/ InsertSelected
  BY <1>2, <1>3, ReadingKinds
<1>4. CASE InsertValue
  <2>1. /\ MoveOn(1, 0) /\ before' = before /\ stmt.kind = "insert" /\ HasValue
        /\ Insert(Value) /\ Value \in Values
    BY <1>4, AdvanceMoves, ValueFacts DEF InsertValue
  <2>2. \A V : Number(Table', V) = Number(Table, V) + One(Value \in V) BY <2>1, InsertStep
  <2>3. /\ \A v : Cardinality(Stored(v)') = Cardinality(Stored(v)) + One(Value = v)
        /\ \A v : Before(v)' = Before(v)
    BY <2>1, StoredStep
  <2>4. ASSUME NEW v \in Values PROVE Occurs(v)' = Before(v)' + Cardinality(Stored(v)')
    <3>1. One(Value \in {v}) = One(Value = v) /\ One(Value = v) \in Nat BY DEF One
    <3>2. Occurs(v)' = Occurs(v) + One(Value = v) BY <2>2, <3>1 DEF Occurs
    <3>3. Occurs(v) = Before(v) + Cardinality(Stored(v)) BY <2>1 DEF InsertInv
    <3>4. Before(v) \in Nat BY <1>n DEF Before
    <3> QED BY <1>c, <2>3, <3>1, <3>2, <3>3, <3>4
  <2>5. stmt'.kind = "insert" /\ stmt'.count = stmt'.pos BY <1>f, <2>1 DEF MoveOn, InsertInv
  <2> QED BY <2>4, <2>5 DEF InsertInv, ReplaceInv
<1>5. CASE ReplaceValue
  <2>1. before' = before /\ stmt.kind = "replace" /\ HasValue /\ Value \in Values
    BY <1>5, ValueFacts DEF ReplaceValue
  <2>2. /\ \A v \in Values : Occurs(v) = IF v \in New THEN 1 ELSE Before(v)
        /\ stmt.count = 2 * stmt.pos - Cardinality(New)
    BY <2>1 DEF ReplaceInv
  <2>3. IsFiniteSet(New) /\ Cardinality(New) \in Nat BY StoredFinite
  <2>4. \A v : Before(v) \in Nat /\ Occurs(v) \in Nat BY <1>n DEF Before, Occurs
  <2>5. ASSUME Holding(Value) = {}, Insert(Value), Advance(1) PROVE InsertInv' /\ ReplaceInv'
    <3>1. MoveOn(1, 0) BY <2>5, AdvanceMoves
    <3>2. \A V : Number(Table', V) = Number(Table, V) + One(Value \in V) BY <2>1, <2>5, InsertStep
    <3>3. /\ New' = New \cup {v \in Values : Before(v) = 0 /\ v = Value}
          /\ \A v : Before(v)' = Before(v)
      BY <2>1, <3>1, StoredStep
    <3>4. Occurs(Value) = 0 BY <2>5, HoldingFacts
    <3>5. Value \notin New /\ Before(Value) = 0 BY <2>1, <2>2, <3>4
    <3>6. New' = New \cup {Value} BY <2>1, <3>3, <3>5
    <3>7. Cardinality(New') = Cardinality(New) + 1 BY <2>3, <3>5, <3>6, FS_AddElement
    <3>8. ASSUME NEW v \in Values PROVE Occurs(v)' = IF v \in New' THEN 1 ELSE Before(v)'
      <4>1. Occurs(v)' = Occurs(v) + One(Value \in {v}) BY <3>2 DEF Occurs
      <4>2. CASE v = Value
        <5>1. One(Value \in {v}) = 1 BY <4>2, OneFacts
        <5> QED BY <3>4, <3>6, <4>1, <4>2, <5>1
      <4>3. CASE v # Value
        <5>1. One(Value \in {v}) = 0 BY <4>3, OneFacts
        <5>2. Occurs(v)' = Occurs(v) BY <2>4, <4>1, <5>1
        <5> QED BY <2>2, <3>3, <3>6, <4>3, <5>2
      <4> QED BY <4>2, <4>3
    <3>9. stmt'.kind = "replace" /\ stmt'.count = 2 * stmt'.pos - Cardinality(New')
      BY <1>f, <2>1, <2>2, <2>3, <3>1, <3>7 DEF MoveOn
    <3> QED BY <3>8, <3>9 DEF InsertInv, ReplaceInv
  <2>6. ASSUME NEW p \in Holding(Value), Replace(p, Value), Advance(2)
        PROVE  InsertInv' /\ ReplaceInv'
    <3>1. MoveOn(2, 0) BY <2>6, AdvanceMoves
    <3>2. \A V : Number(Table', V) = Number(Table, V) BY <2>1, <2>6, ReplaceStep
    <3>3. /\ New' = New \cup {v \in Values : Before(v) = 0 /\ v = Value}
          /\ \A v : Before(v)' = Before(v)
      BY <2>1, <3>1, StoredStep
    <3>4. Occurs(Value) # 0 BY <2>6, HoldingFacts
    <3>5. Value \in New \/ Before(Value) # 0 BY <2>1, <2>2, <3>4
    <3>6. New' = New BY <3>3, <3>5
    <3>7. \A v \in Values : Occurs(v)' = IF v \in New' THEN 1 ELSE Before(v)'
      BY <2>2, <3>2, <3>3, <3>6 DEF Occurs
    <3>8. stmt'.kind = "replace" /\ stmt'.count = 2 * stmt'.pos - Cardinality(New')
      BY <1>f, <2>1, <2>2, <2>3, <3>1, <3>6 DEF MoveOn
    <3> QED BY <3>7, <3>8 DEF InsertInv, ReplaceInv
  <2> QED BY <1>5, <2>5, <2>6 DEF ReplaceValue
<1>6. CASE Fail \/ End BY <1>2, <1>6, EndedStep
<1>7. CASE UNCHANGED vars
  <2>1. UNCHANGED <<arr, len, before, stmt>> BY <1>7 DEF vars
  <2>2. \A v : Occurs(v)' = Occurs(v) /\ Before(v)' = Before(v) BY <2>1, SameTable
  <2>3. \A v : Stored(v)' = Stored(v) BY <2>1 DEF Stored
  <2>4. New' = New BY <2>2, <2>3 DEF New
  <2> QED BY <2>1, <2>2, <2>3, <2>4 DEF InsertInv, ReplaceInv
<1>8. CASE Next BY <1>1, <1>3, <1>4, <1>5, <1>6, <1>8, NextCases
<1> QED BY <1>7, <1>8

-----------------------------------------------------------------------------
(***************************************************************************)
(* The places that have been read                                          *)
(***************************************************************************)
LEMMA ReadFinite ==
  ASSUME StmtOK, NEW s, NEW V
  PROVE  /\ IsFiniteSet(ReadOf(before, s, V)) /\ Cardinality(ReadOf(before, s, V)) \in Nat
         /\ \A x \in DOMAIN before : x = <<x[1], x[2]>> /\ x[1] \in Parts /\ x[2] \in Nat \ {0}
<1>1. IsFiniteSet(DOMAIN before) /\ DOMAIN before \subseteq Parts \X (Nat \ {0})
  BY DEF StmtOK, IsTable
<1>2. IsFiniteSet(ReadOf(before, s, V)) BY <1>1, FS_Subset DEF ReadOf
<1>3. \A x \in DOMAIN before : x = <<x[1], x[2]>> /\ x[1] \in Parts /\ x[2] \in Nat \ {0}
  BY <1>1
<1> QED BY <1>2, <1>3, FS_CardinalityType

\* A statement that begins has read nothing,
LEMMA NothingRead ==
  ASSUME NEW t, NEW s, \A x \in DOMAIN t : x[1] \in s.keys, NEW V
  PROVE  ReadOf(t, s, V) = {} /\ Cardinality(ReadOf(t, s, V)) = 0
<1>1. ReadOf(t, s, V) = {} BY DEF ReadOf
<1> QED BY <1>1, FS_EmptySet

\* one that is finished has read everything,
LEMMA EverythingRead ==
  ASSUME StmtOK, stmt.keys = {}, stmt.part = 0, NEW V
  PROVE  Cardinality(Read(V)) = Number(before, V)
<1>1. \A x \in DOMAIN before : x[1] \in Parts BY ReadFinite
<1>2. Read(V) = {x \in DOMAIN before : before[x] \in V} BY <1>1 DEF Read, ReadOf, Parts
<1> QED BY <1>2 DEF Number

\* and in between one place after the other is read.
LEMMA OnePlaceRead ==
  ASSUME TypeOK, StmtOK, NEW c, NEW m, MoveOn(c, m), <<stmt.part, stmt.pos + 1>> \in DOMAIN before,
         NEW V
  PROVE  LET x == <<stmt.part, stmt.pos + 1>> IN
         /\ ReadOf(before, stmt', V) = IF before[x] \in V THEN Read(V) \cup {x} ELSE Read(V)
         /\ x \notin Read(V)
         /\ Cardinality(ReadOf(before, stmt', V)) = Cardinality(Read(V)) + One(before[x] \in V)
<1> DEFINE x == <<stmt.part, stmt.pos + 1>>
<1>1. stmt.pos \in Nat /\ stmt.part \notin stmt.keys BY StmtFacts DEF StmtOK
<1>2. \A y \in DOMAIN before : y = <<y[1], y[2]>> /\ y[2] \in Nat \ {0} BY ReadFinite
<1>3. stmt'.keys = stmt.keys /\ stmt'.part = stmt.part /\ stmt'.pos = stmt.pos + 1 BY DEF MoveOn
<1>4. x[1] = stmt.part /\ x[2] = stmt.pos + 1 OBVIOUS
<1>5. x \notin Read(V) BY <1>1, <1>4 DEF Read, ReadOf
<1>6. \A y \in DOMAIN before : y[1] = stmt.part => (y[2] <= stmt.pos + 1 <=> y[2] <= stmt.pos \/ y = x)
  BY <1>1, <1>2
<1>7. \A y \in DOMAIN before : y = x => y[1] \notin stmt.keys /\ y[1] = stmt.part BY <1>1, <1>4
<1>8. ReadOf(before, stmt', V) = IF before[x] \in V THEN Read(V) \cup {x} ELSE Read(V)
  <2> HIDE DEF x
  <2> QED BY <1>3, <1>6, <1>7 DEF Read, ReadOf, x
<1>9. IsFiniteSet(Read(V)) BY ReadFinite DEF Read
<1>10. Cardinality(ReadOf(before, stmt', V)) = Cardinality(Read(V)) + One(before[x] \in V)
  <2> DEFINE S == Read(V)
             T == ReadOf(before, stmt', V)
             b == before[x] \in V
  <2>1. b \in BOOLEAN /\ x \notin S /\ IsFiniteSet(S) BY <1>5, <1>9
  <2>2. T = IF b THEN S \cup {x} ELSE S BY <1>8
  <2> HIDE DEF S, T, b, x
  <2>3. Cardinality(T) = Cardinality(S) + One(b) BY <2>1, <2>2, OneMore
  <2> QED BY <2>3 DEF S, T, b
<1> QED BY <1>5, <1>8, <1>10

\* Opening a partition reads nothing yet.
LEMMA OpenReads ==
  ASSUME TypeOK, StmtOK, OpenPartition, NEW V
  PROVE  ReadOf(before, stmt', V) = Read(V)
<1>1. PICK p \in stmt.keys : stmt'.keys = stmt.keys \ {p} /\ stmt'.part = p /\ stmt'.pos = 0
  BY OpenFacts
<1>2. \A y \in DOMAIN before : y[1] \in Parts /\ y[2] \in Nat \ {0} BY ReadFinite
<1>3. stmt.part = 0 /\ 0 \notin Parts BY DEF OpenPartition, Parts
<1>4. \A y \in DOMAIN before : ~(y[2] <= 0) /\ y[1] # stmt.part BY <1>2, <1>3
<1> QED BY <1>1, <1>4 DEF Read, ReadOf

\* At the end of a partition there is nothing left to read in it.
LEMMA EndReads ==
  ASSUME TypeOK, StmtOK, EndPartition, NEW V,
         \A x \in DOMAIN before : x[1] = stmt.part => x[2] <= stmt.n
  PROVE  ReadOf(before, stmt', V) = Read(V)
<1>1. stmt'.keys = stmt.keys /\ stmt'.part = 0 /\ stmt.pos = stmt.n
  BY EndPartitionFacts DEF EndPartition
<1>2. \A y \in DOMAIN before : y[1] # 0 BY ReadFinite DEF Parts
<1> QED BY <1>1, <1>2 DEF Read, ReadOf

\* What is selected depends on the statement alone.
LEMMA SameChoice ==
  ASSUME stmt'.where = stmt.where, stmt'.source = stmt.source
  PROVE  /\ \A u : ApplyUpdates(u)' = ApplyUpdates(u)
         /\ \A v : Becoming(v)' = Becoming(v)
         /\ Changed' = Changed
<1>1. \A u : ApplyUpdates(u)' = ApplyUpdates(u) BY DEF ApplyUpdates
<1>2. \A v : Becoming(v)' = Becoming(v)
  <2> TAKE v
  <2>1. Becoming(v)' = {u \in stmt'.where : ApplyUpdates(u)' = v} BY DEF Becoming
  <2> QED BY <1>1, <2>1 DEF Becoming
<1>3. Changed' = Changed
  <2>1. Changed' = {u \in stmt'.where : ApplyUpdates(u)' # u} BY DEF Changed
  <2> QED BY <1>1, <2>1 DEF Changed
<1> QED BY <1>1, <1>2, <1>3

\* The statement that begins finds the table as it is and has read nothing of it.
LEMMA BeginReads ==
  ASSUME TypeOK, StmtOK, NEW k, NEW w, NEW src, Starts(k, w, src), k \notin {"insert", "replace"}
  PROVE  /\ Table' = Table /\ before' = Table /\ DOMAIN Table = Places(len) /\ len' = len
         /\ stmt'.keys = {p \in Parts : len[p] > 0}
         /\ \A x \in DOMAIN Table : x[1] \in stmt'.keys
         /\ \A V : ReadOf(before', stmt', V) = {} /\ Cardinality(ReadOf(before', stmt', V)) = 0
<1>1. /\ stmt'.keys = {p \in Parts : len[p] > 0}
      /\ before' = Table /\ UNCHANGED <<arr, len>>
  BY BeginFacts
<1>2. Table' = Table BY <1>1 DEF Table
<1>3. DOMAIN Table = Places(len) BY Numbers
<1>4. len \in [Parts -> Nat] BY DEF TypeOK
<1>5. \A x \in Places(len) : x[1] \in Parts /\ x[2] \in 1..len[x[1]] BY <1>4, PlacesFacts
<1>6. \A x \in DOMAIN Table : x[1] \in stmt'.keys
  <2> TAKE x \in DOMAIN Table
  <2>1. x[1] \in Parts /\ x[2] \in 1..len[x[1]] BY <1>3, <1>5
  <2>2. len[x[1]] \in Nat BY <1>4, <2>1
  <2> QED BY <1>1, <2>1, <2>2
<1>7. \A V : ReadOf(before', stmt', V) = {} /\ Cardinality(ReadOf(before', stmt', V)) = 0
  BY <1>1, <1>6, NothingRead
<1> QED BY <1>1, <1>2, <1>3, <1>6, <1>7

\* A table with one partition in use has the places of that one.
LEMMA OnePart ==
  ASSUME NEW n \in [Parts -> Nat], NEW t, DOMAIN t = Places(n), OnePartition(t),
         NEW p \in Parts, n[p] > 0
  PROVE  DOMAIN t = {p} \X (1..n[p]) /\ {q \in Parts : n[q] > 0} = {p}
<1>1. /\ \A q, j : <<q, j>> \in Places(n) <=> q \in Parts /\ j \in 1..n[q]
      /\ \A x \in Places(n) : x = <<x[1], x[2]>> /\ x[1] \in Parts /\ x[2] \in 1..n[x[1]]
  BY PlacesFacts
<1>2. \A q \in Parts : n[q] > 0 => <<q, 1>> \in Places(n)
  <2> TAKE q \in Parts
  <2>1. n[q] \in Nat OBVIOUS
  <2>2. n[q] > 0 => 1 \in 1..n[q] BY <2>1
  <2> QED BY <1>1, <2>2
<1>3. \A x \in Places(n) : x[1] = p
  <2>1. <<p, 1>> \in Places(n) /\ <<p, 1>>[1] = p BY <1>2
  <2> QED BY <2>1 DEF OnePartition
<1>4. \A q \in Parts : n[q] > 0 => q = p
  <2> TAKE q \in Parts
  <2>1. <<q, 1>>[1] = q OBVIOUS
  <2> QED BY <1>2, <1>3, <2>1
<1>5. Places(n) = {p} \X (1..n[p])
  <2>1. \A x \in Places(n) : x \in {p} \X (1..n[p])
    <3> TAKE x \in Places(n)
    <3>1. x = <<x[1], x[2]>> /\ x[1] = p /\ x[2] \in 1..n[p] BY <1>1, <1>3
    <3> QED BY <3>1
  <2>2. \A x \in {p} \X (1..n[p]) : x \in Places(n) BY <1>1
  <2> QED BY <2>1, <2>2
<1> QED BY <1>4, <1>5

-----------------------------------------------------------------------------
(***************************************************************************)
(* INSERT ... SELECT                                                       *)
(***************************************************************************)
\* The conclusion of SelectInv
SelectDone ==
  /\ SelectPlaces
  /\ \A v \in Values : Occurs(v) = Before(v) + Cardinality(Read({v} \cap stmt.where))
  /\ stmt.count = Cardinality(Read(stmt.where))

\* Begin, when one partition is in use.
LEMMA SelectBegins ==
  ASSUME TypeOK, StmtOK, NEW w, NEW src, Starts("insertSelect", w, src), OnePartition(Table)
  PROVE  SelectDone'
<1>1. /\ Table' = Table /\ before' = Table /\ DOMAIN Table = Places(len) /\ len' = len
      /\ stmt'.keys = {p \in Parts : len[p] > 0}
      /\ \A V : ReadOf(before', stmt', V) = {} /\ Cardinality(ReadOf(before', stmt', V)) = 0
  BY BeginReads
<1>2. stmt'.part = 0 /\ stmt'.count = 0 BY BeginFacts
<1>3. SelectPlaces' BY <1>1, <1>2 DEF SelectPlaces, OnePartition
<1>5. Cardinality(Read(stmt.where)') = 0 BY <1>1 DEF Read
<1>6. ASSUME NEW v \in Values
      PROVE  Occurs(v)' = Before(v)' + Cardinality(Read({v} \cap stmt.where)')
  <2>1. Cardinality(Read({v} \cap stmt.where)') = 0 BY <1>1 DEF Read
  <2>2. Number(Table, {v}) \in Nat BY Numbers
  <2>3. Occurs(v)' = Number(Table, {v}) /\ Before(v)' = Number(Table, {v})
    BY <1>1 DEF Occurs, Before
  <2> QED BY <2>1, <2>2, <2>3
<1> QED BY <1>2, <1>3, <1>5, <1>6 DEF SelectDone

\* OpenPartition opens that one partition.
LEMMA SelectOpens ==
  ASSUME TypeOK, StmtOK, SelectDone, OpenPartition
  PROVE  SelectDone'
<1>1. PICK p \in stmt.keys :
        /\ p \in Parts /\ stmt'.where = stmt.where /\ stmt'.count = stmt.count
        /\ stmt'.keys = stmt.keys \ {p} /\ stmt'.part = p /\ stmt'.n = len[p]
  BY OpenFacts
<1>2. UNCHANGED <<arr, len, before>> BY DEF OpenPartition
<1>3. Table' = Table /\ \A v : Occurs(v)' = Occurs(v) /\ Before(v)' = Before(v)
  BY <1>2, SameTable
<1>4. \A V : ReadOf(before', stmt', V) = Read(V) BY <1>2, OpenReads
<1>5. len \in [Parts -> Nat] BY DEF TypeOK
<1>6. /\ OnePartition(before) /\ Table = before /\ stmt.keys = {q \in Parts : len[q] > 0}
      /\ \A x \in DOMAIN before : x \in DOMAIN Table /\ Table[x] = before[x]
  BY <1>1 DEF SelectDone, SelectPlaces
<1>7. DOMAIN before = Places(len) BY <1>6, Numbers
<1>8. len[p] > 0 BY <1>1, <1>6
<1>9. DOMAIN before = {p} \X (1..len[p]) /\ stmt.keys = {p}
  <2>1. p \in Parts /\ OnePartition(before) BY <1>1, <1>6
  <2>2. DOMAIN before = {p} \X (1..len[p]) /\ {q \in Parts : len[q] > 0} = {p}
    BY <1>5, <1>7, <1>8, <2>1, OnePart
  <2> QED BY <1>6, <2>2
<1>10. SelectPlaces'
  <2>1. stmt'.keys = {} /\ DOMAIN before' = {stmt'.part} \X (1..stmt'.n) BY <1>1, <1>2, <1>9
  <2> QED BY <1>2, <1>3, <1>6, <2>1 DEF SelectPlaces, OnePartition
<1>11. \A v \in Values : Occurs(v)' = Before(v)' + Cardinality(Read({v} \cap stmt.where)')
  <2> TAKE v \in Values
  <2>1. Read({v} \cap stmt.where)' = Read({v} \cap stmt.where) BY <1>1, <1>4 DEF Read
  <2> QED BY <1>3, <2>1 DEF SelectDone
<1>12. Read(stmt.where)' = Read(stmt.where) BY <1>1, <1>4 DEF Read
<1> QED BY <1>1, <1>10, <1>11, <1>12 DEF SelectDone

\* EndPartition leaves no row unread.
LEMMA SelectCloses ==
  ASSUME TypeOK, StmtOK, SelectDone, EndPartition
  PROVE  SelectDone'
<1>1. /\ stmt'.where = stmt.where /\ stmt'.count = stmt.count
      /\ stmt'.keys = stmt.keys /\ stmt'.part = 0
  BY EndPartitionFacts
<1>2. UNCHANGED <<arr, len, before>> /\ stmt.part # 0 BY DEF EndPartition
<1>3. Table' = Table /\ \A v : Occurs(v)' = Occurs(v) /\ Before(v)' = Before(v)
  BY <1>2, SameTable
<1>4. /\ OnePartition(before) /\ stmt.keys = {} /\ DOMAIN before = {stmt.part} \X (1..stmt.n)
      /\ \A x \in DOMAIN before : x \in DOMAIN Table /\ Table[x] = before[x]
  BY <1>2 DEF SelectDone, SelectPlaces
<1>5. \A x \in DOMAIN before : x[2] <= stmt.n
  <2>1. stmt.n \in Nat BY StmtFacts
  <2> QED BY <1>4, <2>1
<1>6. \A V : ReadOf(before', stmt', V) = Read(V) BY <1>2, <1>5, EndReads
<1>7. SelectPlaces' BY <1>1, <1>2, <1>3, <1>4 DEF SelectPlaces, OnePartition
<1>8. \A v \in Values : Occurs(v)' = Before(v)' + Cardinality(Read({v} \cap stmt.where)')
  <2> TAKE v \in Values
  <2>1. Read({v} \cap stmt.where)' = Read({v} \cap stmt.where) BY <1>1, <1>6 DEF Read
  <2> QED BY <1>3, <2>1 DEF SelectDone
<1>9. Read(stmt.where)' = Read(stmt.where) BY <1>1, <1>6 DEF Read
<1> QED BY <1>1, <1>7, <1>8, <1>9 DEF SelectDone

\* A row is read, and inserted when it is selected.
LEMMA SelectReads ==
  ASSUME TypeOK, StmtOK, SelectDone, SkipRow \/ InsertSelected
  PROVE  SelectDone'
<1> DEFINE x0 == <<stmt.part, stmt.pos + 1>>
           b == One(Row \in stmt.where)
<1>1. HasRow /\ before' = before BY DEF SkipRow, InsertSelected
<1>2. /\ stmt.part \in Parts /\ stmt.pos + 1 \in 1..stmt.n /\ Row \in Values BY <1>1, RowFacts
<1>3. /\ OnePartition(before) /\ stmt.keys = {} /\ DOMAIN before = {stmt.part} \X (1..stmt.n)
      /\ \A x \in DOMAIN before : x \in DOMAIN Table /\ Table[x] = before[x]
  <2>1. stmt.part # 0 BY <1>2 DEF Parts
  <2> QED BY <2>1 DEF SelectDone, SelectPlaces
<1>4. DOMAIN Table = Places(len) /\ \A V : Number(Table, V) \in Nat /\ Number(before, V) \in Nat
  BY Numbers
<1>5. x0 \in DOMAIN before BY <1>2, <1>3
<1>6. Row = before[x0]
  <2>1. len \in [Parts -> Nat] BY DEF TypeOK
  <2>2. stmt.pos + 1 \in 1..len[stmt.part] BY <1>3, <1>4, <1>5, <2>1, PlacesFacts
  <2>3. Table[x0] = arr[stmt.part][stmt.pos + 1] BY <1>2, <2>2, RowAt
  <2> QED BY <1>3, <1>5, <2>3 DEF Row
<1>7. /\ MoveOn(b, 0)
      /\ \A x \in DOMAIN before : x \in DOMAIN Table' /\ Table'[x] = before[x]
      /\ \A v : Number(Table', {v}) = Number(Table, {v}) + One(Row \in {v} \cap stmt.where)
  <2>1. CASE SkipRow
    <3>1. b = 0 /\ \A v : One(Row \in {v} \cap stmt.where) = 0 BY <2>1 DEF SkipRow, One
    <3>2. UNCHANGED <<arr, len, before>> /\ MoveOn(0, 0) BY <2>1, AdvanceMoves DEF SkipRow
    <3>3. Table' = Table BY <3>2, SameTable
    <3> QED BY <1>3, <1>4, <3>1, <3>2, <3>3
  <2>2. CASE InsertSelected
    <3>1. Row \in stmt.where /\ Insert(Row) /\ MoveOn(1, 0)
      BY <2>2, AdvanceMoves DEF InsertSelected
    <3>2. b = 1 /\ \A v : One(Row \in {v} \cap stmt.where) = One(Row \in {v}) BY <3>1 DEF One
    <3>3. /\ Slices(arr', len')
          /\ \A x \in Places(len) : x \in Places(len') /\ Table'[x] = Table[x]
          /\ \A V : Number(Table', V) = Number(Table, V) + One(Row \in V)
      BY <1>2, <3>1, InsertStep
    <3>4. DOMAIN Table' = Places(len') BY <3>3, TableFacts DEF Table
    <3> QED BY <1>3, <1>4, <3>1, <3>2, <3>3, <3>4
  <2> QED BY <2>1, <2>2
<1> HIDE DEF x0
<1>8. \A V : Cardinality(ReadOf(before, stmt', V)) = Cardinality(Read(V)) + One(Row \in V)
  <2> TAKE V
  <2>1. Cardinality(ReadOf(before, stmt', V)) = Cardinality(Read(V)) + One(before[x0] \in V)
    BY <1>5, <1>7, OnePlaceRead DEF x0
  <2> QED BY <1>6, <2>1
<1>9. \A V : Cardinality(Read(V)) \in Nat BY ReadFinite DEF Read
<1>10. \A V : One(Row \in V) \in Nat BY DEF One
<1>11. stmt'.where = stmt.where /\ stmt'.keys = {} /\ stmt'.part = stmt.part /\ stmt'.n = stmt.n
  BY <1>3, <1>7 DEF MoveOn
<1>12. SelectPlaces' BY <1>1, <1>3, <1>7, <1>11 DEF SelectPlaces, OnePartition
<1>13. ASSUME NEW v \in Values
       PROVE  Occurs(v)' = Before(v)' + Cardinality(Read({v} \cap stmt.where)')
  <2> DEFINE V == {v} \cap stmt.where
  <2>1. Read(V)' = ReadOf(before, stmt', V) BY <1>1, <1>11 DEF Read
  <2>2. Occurs(v)' = Occurs(v) + One(Row \in V) BY <1>7 DEF Occurs
  <2>3. Occurs(v) = Before(v) + Cardinality(Read(V)) BY DEF SelectDone
  <2>4. Before(v)' = Before(v) /\ Before(v) \in Nat BY <1>1, <1>4 DEF Before
  <2> HIDE DEF V
  <2>5. Occurs(v)' = Before(v)' + Cardinality(Read(V)')
    BY <1>8, <1>9, <1>10, <2>1, <2>2, <2>3, <2>4
  <2> QED BY <2>5 DEF V
<1>14. stmt'.count = Cardinality(Read(stmt.where)')
  <2>1. Read(stmt.where)' = ReadOf(before, stmt', stmt.where) BY <1>1, <1>11 DEF Read
  <2>2. stmt'.count = stmt.count + b BY <1>7 DEF MoveOn
  <2> QED BY <1>8, <2>1, <2>2 DEF SelectDone
<1> QED BY <1>12, <1>13, <1>14 DEF SelectDone

\* Every step keeps the invariant of INSERT ... SELECT.
LEMMA SelectStep ==
  ASSUME TypeOK, StmtOK, SelectInv, [Next]_vars
  PROVE  SelectInv'
<1> SUFFICES ASSUME stmt'.kind = "insertSelect", stmt'.undisturbed PROVE SelectDone'
  BY DEF SelectInv, SelectDone
<1>1. ASSUME NEW k, NEW w, NEW src, Starts(k, w, src) PROVE SelectDone'
  <2>1. k = "insertSelect" /\ Undisturbed(k, w) BY <1>1, BeginFacts
  <2>2. OnePartition(Table) BY <2>1 DEF Undisturbed
  <2> QED BY <1>1, <2>1, <2>2, SelectBegins
<1>2. ASSUME stmt.kind = stmt'.kind, stmt.undisturbed = stmt'.undisturbed PROVE SelectDone
  BY <1>2 DEF SelectInv, SelectDone
<1>3. CASE OpenPartition
  <2>1. SelectDone BY <1>2, <1>3, OpenFacts
  <2> QED BY <1>3, <2>1, SelectOpens
<1>4. CASE EndPartition
  <2>1. SelectDone BY <1>2, <1>4, EndPartitionFacts
  <2> QED BY <1>4, <2>1, SelectCloses
<1>5. CASE SkipRow \/ InsertSelected
  <2>1. SelectDone BY <1>2, <1>5, AdvanceMoves DEF SkipRow, InsertSelected, MoveOn
  <2> QED BY <1>5, <2>1, SelectReads
<1>6. CASE DeleteRow
  <2>1. CASE Holding(Row) = {} BY <1>6, <2>1, EndedStep
  <2>2. CASE Advance(1) BY <1>6, <2>2, AdvanceMoves DEF DeleteRow, MoveOn
  <2> QED BY <1>6, <2>1, <2>2 DEF DeleteRow
<1>7. CASE UpdateRow BY <1>7, UpdateMoves DEF UpdateRow, MoveOn
<1>8. CASE InsertValue BY <1>8, AdvanceMoves DEF InsertValue, MoveOn
<1>9. CASE ReplaceValue BY <1>9, AdvanceMoves DEF ReplaceValue, MoveOn
<1>10. CASE Fail \/ End BY <1>10, EndedStep
<1>11. CASE UNCHANGED vars
  <2>1. UNCHANGED <<arr, len, before, stmt>> BY <1>11 DEF vars
  <2>2. Table' = Table /\ \A v : Occurs(v)' = Occurs(v) /\ Before(v)' = Before(v)
    BY <2>1, SameTable
  <2>4. SelectPlaces' = SelectPlaces BY <2>1, <2>2 DEF SelectPlaces, OnePartition
  <2>5. SelectDone BY <1>2, <2>1
  <2>6. \A v \in Values : Read({v} \cap stmt.where)' = Read({v} \cap stmt.where)
    BY <2>1 DEF Read, ReadOf
  <2>7. Read(stmt.where)' = Read(stmt.where) BY <2>1 DEF Read, ReadOf
  <2> QED BY <2>1, <2>2, <2>4, <2>5, <2>6, <2>7 DEF SelectDone
<1>12. CASE Next
  BY <1>1, <1>3, <1>4, <1>5, <1>6, <1>7, <1>8, <1>9, <1>10, <1>12, NextCases
<1> QED BY <1>11, <1>12

-----------------------------------------------------------------------------
(***************************************************************************)
(* UPDATE                                                                  *)
(***************************************************************************)
\* The parts of UpdateInv
UpdateShape == DOMAIN before = Places(len) /\ (stmt.part # 0 => stmt.n = len[stmt.part])
UpdateCounts ==
  /\ \A v \in Values : Occurs(v) = Before(v) - Cardinality(Read({v} \cap stmt.where))
                                     + Cardinality(Read(Becoming(v)))
  /\ stmt.count = Cardinality(Read(Changed))
  /\ stmt.matched = Cardinality(Read(stmt.where))

\* Begin.
LEMMA UpdateBegins ==
  ASSUME TypeOK, StmtOK, NEW w, NEW src, Starts("update", w, src)
  PROVE  UpdateShape' /\ (stmt'.undisturbed => UpdatePlaces' /\ UpdateCounts')
<1>1. /\ Table' = Table /\ before' = Table /\ DOMAIN Table = Places(len) /\ len' = len
      /\ \A V : Cardinality(ReadOf(before', stmt', V)) = 0
  BY BeginReads
<1>2. /\ stmt'.part = 0 /\ stmt'.count = 0 /\ stmt'.matched = 0
      /\ stmt'.undisturbed = Undisturbed("update", w)
  BY BeginFacts
<1>3. UpdateShape' BY <1>1, <1>2 DEF UpdateShape
<1>4. stmt'.undisturbed => UpdatePlaces'
  BY <1>1, <1>2 DEF UpdatePlaces, OnePartition, NoneEqual, Undisturbed
<1>5. \A v \in Values : Occurs(v)' = Before(v)' - Cardinality(Read({v} \cap stmt.where)')
                                       + Cardinality(Read(Becoming(v))')
  <2> TAKE v \in Values
  <2>1. Cardinality(Read({v} \cap stmt.where)') = 0 /\ Cardinality(Read(Becoming(v))') = 0
    BY <1>1 DEF Read
  <2>2. Number(Table, {v}) \in Nat BY Numbers
  <2>3. Occurs(v)' = Number(Table, {v}) /\ Before(v)' = Number(Table, {v})
    BY <1>1 DEF Occurs, Before
  <2> QED BY <2>1, <2>2, <2>3
<1>6. Cardinality(Read(Changed)') = 0 /\ Cardinality(Read(stmt.where)') = 0 BY <1>1 DEF Read
<1> QED BY <1>2, <1>3, <1>4, <1>5, <1>6 DEF UpdateCounts

\* Nothing is read, and nothing changes.
LEMMA UpdateRests ==
  ASSUME UpdateCounts, UpdatePlaces, UNCHANGED <<arr, len, before>>,
         stmt'.where = stmt.where, stmt'.source = stmt.source,
         stmt'.count = stmt.count, stmt'.matched = stmt.matched,
         \A V : ReadOf(before, stmt', V) = Read(V)
  PROVE  UpdatePlaces' /\ UpdateCounts'
<1>1. Table' = Table /\ \A v : Occurs(v)' = Occurs(v) /\ Before(v)' = Before(v) BY SameTable
<1>2. (\A v : Becoming(v)' = Becoming(v)) /\ Changed' = Changed BY SameChoice
<1>3. Read(Values)' = Read(Values) BY DEF Read
<1>4. UpdatePlaces' BY <1>1, <1>3 DEF UpdatePlaces, OnePartition, NoneEqual
<1>5. \A v \in Values : Occurs(v)' = Before(v)' - Cardinality(Read({v} \cap stmt.where)')
                                       + Cardinality(Read(Becoming(v))')
  <2> TAKE v \in Values
  <2>1. Read({v} \cap stmt.where)' = Read({v} \cap stmt.where) BY DEF Read
  <2>2. Read(Becoming(v))' = Read(Becoming(v)) BY <1>2 DEF Read
  <2> QED BY <1>1, <2>1, <2>2 DEF UpdateCounts
<1>6. Read(Changed)' = Read(Changed) /\ Read(stmt.where)' = Read(stmt.where) BY <1>2 DEF Read
<1> QED BY <1>4, <1>5, <1>6 DEF UpdateCounts

\* What UpdateRow does to the table: the row becomes the new one, perhaps in another
\* place that has an equal row.
LEMMA UpdateRowStep ==
  ASSUME TypeOK, StmtOK, UpdateShape, UpdateRow
  PROVE  LET new == ApplyUpdates(Row)
         IN /\ \A v : Number(Table', {v}) = Number(Table, {v}) - One(Row \in {v}) + One(new \in {v})
            /\ \E y \in Places(len) :
                 /\ Table[y] = Row /\ \A x \in Places(len) \ {y} : Table'[x] = Table[x]
                 /\ y[1] = stmt.part => y[2] <= stmt.pos + 1
<1> DEFINE new == ApplyUpdates(Row)
           x0 == <<stmt.part, stmt.pos + 1>>
<1>1. HasRow /\ Row \in stmt.where /\ stmt.kind = "update" /\ len' = len BY DEF UpdateRow
<1>2. stmt.part \in Parts /\ stmt.pos + 1 \in 1..stmt.n /\ Row \in Values BY <1>1, RowFacts
<1>3. stmt.pos + 1 \in 1..len[stmt.part]
  <2>1. stmt.part # 0 BY <1>2 DEF Parts
  <2> QED BY <1>2, <2>1 DEF UpdateShape
<1>4. x0 \in Places(len) /\ Table[x0] = Row BY <1>2, <1>3, RowAt DEF Row
<1>5. stmt.pos \in Nat /\ Slices(arr, len) BY StmtFacts
<1>6. \A V : Number(Table, V) \in Nat BY Numbers
<1>7. CASE new = Row
  <2>1. arr' = arr BY <1>7 DEF UpdateRow
  <2>2. Table' = Table BY <1>1, <2>1 DEF Table
  <2>3. \A v : Number(Table', {v}) = Number(Table, {v}) - One(Row \in {v}) + One(new \in {v})
    <3> TAKE v
    <3>1. One(Row \in {v}) \in Nat /\ One(new \in {v}) = One(Row \in {v}) BY <1>7 DEF One
    <3> QED BY <1>6, <2>2, <3>1
  <2>4. x0[1] = stmt.part /\ x0[2] <= stmt.pos + 1 BY <1>5
  <2> QED BY <1>4, <2>2, <2>3, <2>4
<1>8. CASE new # Row
  <2>1. Update(Row, new) BY <1>8 DEF UpdateRow
  <2>2. new \in Values BY <1>1, ApplyFacts
  <2>3. stmt.part \in Holding(Row) BY <1>2, <1>3 DEF Holding, At, Row
  <2>4. PICK p \in Holding(Row) : Updated(arr, p, FirstIndex(p, Row), new, arr')
    BY <2>1, <2>2, <2>3, UpdateStep
  <2> DEFINE k == FirstIndex(p, Row)
             y == <<p, k>>
  <2>5. p \in Parts /\ k \in 1..len[p] /\ arr[p][k] = Row /\ \A j \in 1..(k - 1) : arr[p][j] # Row
    BY <2>4, FoundRow
  <2>6. Updated(arr, p, k, new, arr') BY <2>4
  <2> HIDE DEF k, new
  <2>7. /\ \A x \in Places(len) \ {<<p, k>>} : TableOf(arr', len)[x] = TableOf(arr, len)[x]
        /\ \A V : Number(TableOf(arr', len), V)
                    = Number(TableOf(arr, len), V) - One(arr[p][k] \in V) + One(new \in V)
    BY <1>5, <2>2, <2>5, <2>6, UpdateFacts
  <2>8. /\ \A x \in Places(len) \ {y} : Table'[x] = Table[x]
        /\ \A v : Number(Table', {v}) = Number(Table, {v}) - One(Row \in {v}) + One(new \in {v})
    BY <1>1, <2>5, <2>7 DEF Table
  <2>9. y \in Places(len) /\ Table[y] = Row BY <2>5, RowAt
  <2>10. p = stmt.part => k <= stmt.pos + 1
    <3> SUFFICES ASSUME p = stmt.part, ~(k <= stmt.pos + 1) PROVE FALSE OBVIOUS
    <3>1. k \in Nat /\ stmt.pos + 1 \in Nat
      <4>1. len[p] \in Nat BY <2>5 DEF TypeOK
      <4> QED BY <1>5, <2>5, <4>1
    <3>2. stmt.pos + 1 \in 1..(k - 1) BY <1>5, <3>1
    <3>3. arr[stmt.part][stmt.pos + 1] = Row BY DEF Row
    <3> QED BY <2>5, <3>2, <3>3
  <2>11. y[1] = p /\ y[2] = k OBVIOUS
  <2>12. \E z \in Places(len) :
           /\ Table[z] = Row /\ \A x \in Places(len) \ {z} : Table'[x] = Table[x]
           /\ z[1] = stmt.part => z[2] <= stmt.pos + 1
    <3> HIDE DEF y
    <3> QED BY <2>8, <2>9, <2>10, <2>11
  <2> QED BY <2>8, <2>12 DEF new
<1> QED BY <1>7, <1>8

\* The row that is read was there when the statement began.
LEMMA UpdateReadsOld ==
  ASSUME TypeOK, StmtOK, UpdateShape, UpdatePlaces, HasRow
  PROVE  LET x0 == <<stmt.part, stmt.pos + 1>>
         IN x0 \in DOMAIN before /\ x0 \notin Read(Values) /\ before[x0] = Row
<1> DEFINE x0 == <<stmt.part, stmt.pos + 1>>
<1>1. stmt.part \in Parts /\ stmt.pos + 1 \in 1..stmt.n BY RowFacts
<1>2. stmt.pos + 1 \in 1..len[stmt.part]
  <2>1. stmt.part # 0 BY <1>1 DEF Parts
  <2> QED BY <1>1, <2>1 DEF UpdateShape
<1>3. x0 \in DOMAIN before /\ Table[x0] = Row BY <1>1, <1>2, RowAt DEF Row, UpdateShape
<1>4. x0 \notin Read(Values)
  <2>1. x0[1] = stmt.part /\ x0[2] = stmt.pos + 1 /\ stmt.pos \in Nat BY StmtFacts
  <2>2. ~(x0[2] <= stmt.pos) BY <2>1
  <2> HIDE DEF x0
  <2> QED BY <2>1, <2>2 DEF Read, ReadOf
<1>5. before[x0] = Row
  <2> HIDE DEF x0
  <2> QED BY <1>3, <1>4 DEF UpdatePlaces
<1> QED BY <1>3, <1>4, <1>5

\* What has not been read stays as it was.
LEMMA UpdateRowPlaces ==
  ASSUME TypeOK, StmtOK, UpdateShape, UpdatePlaces, SkipRow \/ UpdateRow, NEW c, NEW m, MoveOn(c, m)
  PROVE  UpdatePlaces'
<1> DEFINE x0 == <<stmt.part, stmt.pos + 1>>
<1>1. HasRow /\ before' = before BY DEF SkipRow, UpdateRow
<1>2. x0 \in DOMAIN before /\ x0 \notin Read(Values) /\ before[x0] = Row BY <1>1, UpdateReadsOld
<1>3. x0[1] = stmt.part /\ x0[2] = stmt.pos + 1 /\ stmt.pos \in Nat BY StmtFacts
<1>4. before[x0] \in Values BY <1>1, <1>2, RowFacts
<1>5. Read(Values)' = Read(Values) \cup {x0}
  <2>1. ReadOf(before, stmt', Values) = Read(Values) \cup {x0} BY <1>2, <1>4, OnePlaceRead
  <2> QED BY <1>1, <2>1 DEF Read
<1> HIDE DEF x0
<1>6. ASSUME NEW x \in DOMAIN before, x \notin Read(Values), x # x0 PROVE Table'[x] = before[x]
  <2>1. Table[x] = before[x] BY <1>6 DEF UpdatePlaces
  <2>2. CASE SkipRow
    <3>1. Table' = Table BY <2>2, SameTable DEF SkipRow
    <3> QED BY <2>1, <3>1
  <2>3. CASE UpdateRow
    <3>1. PICK y \in Places(len) :
            /\ Table[y] = Row /\ \A z \in Places(len) \ {y} : Table'[z] = Table[z]
            /\ y[1] = stmt.part => y[2] <= stmt.pos + 1
      BY <2>3, UpdateRowStep
    <3>2. DOMAIN before = Places(len) BY DEF UpdateShape
    <3>3. CASE x # y BY <2>1, <3>1, <3>2, <3>3
    <3>4. CASE x = y
      <4>1. before[x] = Row /\ Row \in Values BY <2>1, <3>1, <3>4, <1>1, RowFacts
      <4>2. ~NoneEqual(before, Values) BY <1>2, <1>6, <4>1 DEF NoneEqual
      <4>3. OnePartition(before) BY <4>2 DEF UpdatePlaces
      <4>4. x[1] = stmt.part BY <1>2, <1>3, <4>3 DEF OnePartition
      <4>5. x[2] <= stmt.pos + 1 BY <3>1, <3>4, <4>4
      <4>6. x = <<x[1], x[2]>> /\ x[2] \in Nat BY ReadFinite
      <4>7. x[2] # stmt.pos + 1 BY <1>6, <4>4, <4>6 DEF x0
      <4>8. x[2] <= stmt.pos BY <1>3, <4>5, <4>6, <4>7
      <4>9. stmt.part \notin stmt.keys BY DEF StmtOK
      <4>10. x \in Read(Values) BY <4>1, <4>4, <4>8, <4>9 DEF Read, ReadOf
      <4> QED BY <1>6, <4>10
    <3> QED BY <3>3, <3>4
  <2> QED BY <2>2, <2>3
<1>7. \A x \in DOMAIN before : x \in Read(Values)' \/ Table'[x] = before[x] BY <1>5, <1>6
<1> QED BY <1>1, <1>7 DEF UpdatePlaces, OnePartition, NoneEqual

\* What has been read is counted, and has become what it should.
LEMMA UpdateRowCounts ==
  ASSUME TypeOK, StmtOK, UpdateShape, UpdatePlaces, UpdateCounts, stmt.kind = "update",
         SkipRow \/ UpdateRow
  PROVE  UpdateCounts'
<1> DEFINE new == ApplyUpdates(Row)
           sel == Row \in stmt.where
<1>1. HasRow /\ before' = before BY DEF SkipRow, UpdateRow
<1>2. MoveOn(One(sel /\ new # Row), One(sel)) /\ stmt'.where = stmt.where /\ stmt'.source = stmt.source
  <2>1. CASE SkipRow
    <3>1. ~sel /\ MoveOn(0, 0) BY <2>1, AdvanceMoves DEF SkipRow
    <3> QED BY <3>1 DEF One, MoveOn
  <2>2. CASE UpdateRow
    <3>1. sel /\ MoveOn(One(new # Row), 1) BY <2>2, UpdateMoves DEF UpdateRow
    <3> QED BY <3>1 DEF One, MoveOn
  <2> QED BY <2>1, <2>2
<1>3. \A V : Number(Table, V) \in Nat /\ Number(before, V) \in Nat BY Numbers
<1>4. \A v : Number(Table', {v})
                = Number(Table, {v}) - One(sel /\ Row \in {v}) + One(sel /\ new \in {v})
  <2>1. CASE SkipRow
    <3>1. Table' = Table BY <2>1, SameTable DEF SkipRow
    <3>2. \A v : One(sel /\ Row \in {v}) = 0 /\ One(sel /\ new \in {v}) = 0
      BY <2>1 DEF SkipRow, One
    <3> HIDE DEF sel, new
    <3> TAKE v
    <3>3. Number(Table, {v}) \in Nat BY <1>3
    <3> QED BY <3>1, <3>2, <3>3
  <2>2. CASE UpdateRow
    <3>1. \A v : Number(Table', {v}) = Number(Table, {v}) - One(Row \in {v}) + One(new \in {v})
      BY <2>2, UpdateRowStep
    <3>2. \A v : /\ One(sel /\ Row \in {v}) = One(Row \in {v})
                 /\ One(sel /\ new \in {v}) = One(new \in {v})
      BY <2>2 DEF UpdateRow, One
    <3> QED BY <3>1, <3>2
  <2> QED BY <2>1, <2>2
<1>5. \A V : Cardinality(ReadOf(before, stmt', V)) = Cardinality(Read(V)) + One(Row \in V)
  <2> TAKE V
  <2> DEFINE x0 == <<stmt.part, stmt.pos + 1>>
  <2>1. x0 \in DOMAIN before /\ before[x0] = Row BY <1>1, UpdateReadsOld
  <2>2. Cardinality(ReadOf(before, stmt', V)) = Cardinality(Read(V)) + One(before[x0] \in V)
    BY <1>2, <2>1, OnePlaceRead
  <2> QED BY <2>1, <2>2
<1>6. \A V : Cardinality(Read(V)) \in Nat BY ReadFinite DEF Read
<1>7. \A b : One(b) \in Nat BY DEF One
<1>8. (\A v : Becoming(v)' = Becoming(v)) /\ Changed' = Changed BY <1>2, SameChoice
<1>9. ASSUME NEW v \in Values
      PROVE  Occurs(v)' = Before(v)' - Cardinality(Read({v} \cap stmt.where)')
                            + Cardinality(Read(Becoming(v))')
  <2> DEFINE V == {v} \cap stmt.where
             B == Becoming(v)
  <2>1. Read(V)' = ReadOf(before, stmt', V) BY <1>1, <1>2 DEF Read
  <2>2. Read(Becoming(v))' = ReadOf(before, stmt', B) BY <1>1, <1>8 DEF Read
  <2>3. One(Row \in V) = One(sel /\ Row \in {v}) BY DEF One
  <2>4. One(Row \in B) = One(sel /\ new \in {v})
    <3>1. Row \in B <=> sel /\ new = v BY DEF Becoming
    <3> HIDE DEF B, sel, new
    <3> QED BY <3>1 DEF One
  <2>5. Occurs(v) = Before(v) - Cardinality(Read(V)) + Cardinality(Read(B)) BY DEF UpdateCounts
  <2>6. Before(v)' = Before(v) /\ Before(v) \in Nat BY <1>1, <1>3 DEF Before
  <2> HIDE DEF V, B, new, sel
  <2>7. Occurs(v)' = Occurs(v) - One(Row \in V) + One(Row \in B) BY <1>4, <2>3, <2>4 DEF Occurs
  <2>8. /\ Cardinality(Read(V)') = Cardinality(Read(V)) + One(Row \in V)
        /\ Cardinality(Read(Becoming(v))') = Cardinality(Read(B)) + One(Row \in B)
    BY <1>5, <2>1, <2>2
  <2>9. Occurs(v)' = Before(v)' - Cardinality(Read(V)') + Cardinality(Read(Becoming(v))')
    BY <1>6, <1>7, <2>5, <2>6, <2>7, <2>8
  <2> QED BY <2>9 DEF V
<1>10. stmt'.count = Cardinality(Read(Changed)')
  <2>1. Read(Changed)' = ReadOf(before, stmt', Changed) BY <1>1, <1>8 DEF Read
  <2>2. Row \in Changed <=> sel /\ new # Row BY DEF Changed
  <2>3. One(Row \in Changed) = One(sel /\ new # Row) BY <2>2 DEF One
  <2>4. stmt'.count = stmt.count + One(sel /\ new # Row) BY <1>2 DEF MoveOn
  <2>5. stmt.count = Cardinality(Read(Changed)) BY DEF UpdateCounts
  <2> HIDE DEF sel, new
  <2> QED BY <1>5, <2>1, <2>3, <2>4, <2>5
<1>11. stmt'.matched = Cardinality(Read(stmt.where)')
  <2>1. Read(stmt.where)' = ReadOf(before, stmt', stmt.where) BY <1>1, <1>2 DEF Read
  <2>2. stmt'.matched = stmt.matched + One(sel) BY <1>2 DEF MoveOn
  <2> QED BY <1>5, <2>1, <2>2 DEF UpdateCounts
<1> QED BY <1>9, <1>10, <1>11 DEF UpdateCounts

\* Every step keeps the invariant of UPDATE.
LEMMA UpdateInvStep ==
  ASSUME TypeOK, StmtOK, UpdateInv, [Next]_vars
  PROVE  UpdateInv'
<1> DEFINE Goal == UpdateShape /\ (stmt.undisturbed => UpdatePlaces /\ UpdateCounts)
<1>i. UpdateInv' <=> (stmt'.kind = "update" => Goal')
  BY DEF UpdateInv, UpdateShape, UpdateCounts
<1> SUFFICES ASSUME stmt'.kind = "update" PROVE Goal' BY <1>i
<1>1. ASSUME NEW k, NEW w, NEW src, Starts(k, w, src) PROVE Goal'
  <2>1. k = "update" BY <1>1, BeginFacts
  <2> QED BY <1>1, <2>1, UpdateBegins
<1>2. ASSUME stmt.kind = stmt'.kind PROVE Goal
  BY <1>2 DEF UpdateInv, UpdateShape, UpdateCounts
<1>3. len \in [Parts -> Nat] /\ stmt.undisturbed \in BOOLEAN BY StmtFacts DEF TypeOK
<1>4. CASE OpenPartition
  <2>1. PICK p \in stmt.keys :
          /\ p \in Parts /\ stmt'.where = stmt.where /\ stmt'.source = stmt.source
          /\ stmt'.undisturbed = stmt.undisturbed /\ stmt'.kind = stmt.kind
          /\ stmt'.count = stmt.count /\ stmt'.matched = stmt.matched
          /\ stmt'.part = p /\ stmt'.n = len[p]
    BY <1>4, OpenFacts
  <2>2. UNCHANGED <<arr, len, before>> BY <1>4 DEF OpenPartition
  <2>3. \A V : ReadOf(before, stmt', V) = Read(V) BY <1>4, OpenReads
  <2>4. Goal BY <1>2, <2>1
  <2>5. UpdateShape' BY <2>1, <2>2, <2>4 DEF UpdateShape
  <2>6. ASSUME UpdatePlaces, UpdateCounts PROVE UpdatePlaces' /\ UpdateCounts'
    BY <2>1, <2>2, <2>3, <2>6, UpdateRests
  <2> QED BY <2>1, <2>4, <2>5, <2>6
<1>5. CASE EndPartition
  <2>1. /\ stmt'.where = stmt.where /\ stmt'.source = stmt.source
        /\ stmt'.undisturbed = stmt.undisturbed /\ stmt'.kind = stmt.kind
        /\ stmt'.count = stmt.count /\ stmt'.matched = stmt.matched /\ stmt'.part = 0
    BY <1>5, EndPartitionFacts
  <2>2. UNCHANGED <<arr, len, before>> /\ stmt.part # 0 BY <1>5 DEF EndPartition
  <2>3. Goal BY <1>2, <2>1
  <2>4. \A x \in DOMAIN before : x[1] = stmt.part => x[2] <= stmt.n
    <3> TAKE x \in DOMAIN before
    <3>1. DOMAIN before = Places(len) /\ stmt.n = len[stmt.part] BY <2>2, <2>3 DEF UpdateShape
    <3>2. x[1] \in Parts /\ x[2] \in 1..len[x[1]] BY <1>3, <3>1, PlacesFacts
    <3>3. len[x[1]] \in Nat BY <1>3, <3>2
    <3> QED BY <3>1, <3>2, <3>3
  <2>5. \A V : ReadOf(before, stmt', V) = Read(V) BY <1>5, <2>4, EndReads
  <2>6. UpdateShape' BY <2>1, <2>2, <2>3 DEF UpdateShape
  <2>7. ASSUME UpdatePlaces, UpdateCounts PROVE UpdatePlaces' /\ UpdateCounts'
    BY <2>1, <2>2, <2>5, <2>7, UpdateRests
  <2> QED BY <2>1, <2>3, <2>6, <2>7
<1>6. CASE SkipRow \/ UpdateRow
  <2>1. PICK c, m : MoveOn(c, m) BY <1>6, AdvanceMoves, UpdateMoves DEF SkipRow
  <2>2. /\ stmt'.undisturbed = stmt.undisturbed /\ stmt'.kind = stmt.kind
        /\ stmt'.part = stmt.part /\ stmt'.n = stmt.n
    BY <2>1 DEF MoveOn
  <2>3. Goal BY <1>2, <2>2
  <2>4. UNCHANGED <<len, before>> BY <1>6 DEF SkipRow, UpdateRow
  <2>5. UpdateShape' BY <2>2, <2>3, <2>4 DEF UpdateShape
  <2>6. ASSUME UpdatePlaces, UpdateCounts PROVE UpdatePlaces' /\ UpdateCounts'
    BY <1>6, <2>1, <2>2, <2>3, <2>6, UpdateRowPlaces, UpdateRowCounts
  <2> QED BY <2>2, <2>3, <2>5, <2>6
<1>7. CASE DeleteRow
  <2>1. CASE Holding(Row) = {} BY <1>7, <2>1, EndedStep
  <2>2. CASE Advance(1) BY <1>7, <2>2, AdvanceMoves DEF DeleteRow, MoveOn
  <2> QED BY <1>7, <2>1, <2>2 DEF DeleteRow
<1>8. CASE InsertSelected BY <1>8, AdvanceMoves DEF InsertSelected, MoveOn
<1>9. CASE InsertValue BY <1>9, AdvanceMoves DEF InsertValue, MoveOn
<1>10. CASE ReplaceValue BY <1>10, AdvanceMoves DEF ReplaceValue, MoveOn
<1>11. CASE Fail \/ End BY <1>11, EndedStep
<1>12. CASE UNCHANGED vars
  <2>1. UNCHANGED <<arr, len, before, stmt>> BY <1>12 DEF vars
  <2>2. Goal BY <1>2, <2>1
  <2>3. UpdateShape' BY <2>1, <2>2 DEF UpdateShape
  <2>4. \A V : ReadOf(before, stmt', V) = Read(V) BY <2>1 DEF Read
  <2>5. ASSUME UpdatePlaces, UpdateCounts PROVE UpdatePlaces' /\ UpdateCounts'
    BY <2>1, <2>4, <2>5, UpdateRests
  <2> QED BY <2>1, <2>2, <2>3, <2>5
<1>13. CASE Next
  <2> HIDE DEF Goal
  <2> QED BY <1>1, <1>4, <1>5, <1>6, <1>7, <1>8, <1>9, <1>10, <1>11, <1>13, NextCases
<1> QED BY <1>12, <1>13

-----------------------------------------------------------------------------
(***************************************************************************)
(* DELETE                                                                  *)
(***************************************************************************)
\* In a partition that is opened nothing was deleted.
LEMMA DeleteOpens ==
  ASSUME TypeOK, StmtOK, DeletePlaces, OpenPartition
  PROVE  DeletePlaces'
<1>1. PICK p \in stmt.keys :
        /\ p \in Parts /\ stmt'.where = stmt.where /\ stmt'.keys = stmt.keys \ {p}
        /\ stmt'.part = p /\ stmt'.pos = 0 /\ stmt'.n = len[p]
  BY OpenFacts
<1>2. UNCHANGED <<arr, len, before>> /\ stmt.part = 0 BY DEF OpenPartition
<1>3. Table' = Table BY <1>2, SameTable
<1>4. IsTable(Table) BY Numbers
<1>5. \A x \in DOMAIN Table : x[1] # 0 BY <1>4 DEF IsTable, Parts
<1>6. \A x \in DOMAIN Table : Table[x] \in stmt.where => x[1] \in stmt'.keys \cup {stmt'.part}
  BY <1>1, <1>2, <1>5 DEF DeletePlaces
<1>7. OneEach(Table, stmt.where) /\ NoneEqual(Table, stmt.where) BY DEF DeletePlaces
<1>8. stmt'.n = len[stmt'.part] /\ \A j \in 1..stmt'.pos : arr[stmt'.part][j] \notin stmt'.where
  BY <1>1
<1> QED BY <1>1, <1>2, <1>3, <1>6, <1>7, <1>8 DEF DeletePlaces

\* When the iterator of a partition is at its end, no row to delete is left there.
LEMMA DeleteCloses ==
  ASSUME TypeOK, StmtOK, DeletePlaces, EndPartition
  PROVE  DeletePlaces'
<1>1. stmt'.where = stmt.where /\ stmt'.keys = stmt.keys /\ stmt'.part = 0 BY EndPartitionFacts
<1>2. UNCHANGED <<arr, len, before>> /\ stmt.part # 0 /\ stmt.pos = stmt.n BY DEF EndPartition
<1>3. Table' = Table BY <1>2, SameTable
<1>4. \A j \in 1..len[stmt.part] : arr[stmt.part][j] \notin stmt.where
  BY <1>2 DEF DeletePlaces
<1>5. DOMAIN Table = Places(len) BY Numbers
<1>6. ASSUME NEW x \in DOMAIN Table, Table[x] \in stmt.where PROVE x[1] \in stmt.keys
  <2>1. x = <<x[1], x[2]>> /\ x[1] \in Parts /\ x[2] \in 1..len[x[1]]
    BY <1>5, PlacesFacts DEF TypeOK
  <2>2. Table[<<x[1], x[2]>>] = arr[x[1]][x[2]] BY <2>1, RowAt
  <2>3. arr[x[1]][x[2]] \in stmt.where BY <1>6, <2>1, <2>2
  <2>4. x[1] # stmt.part BY <1>4, <2>1, <2>3
  <2> QED BY <1>6, <2>4 DEF DeletePlaces
<1>7. OneEach(Table, stmt.where) /\ NoneEqual(Table, stmt.where) BY DEF DeletePlaces
<1> QED BY <1>1, <1>3, <1>6, <1>7 DEF DeletePlaces

\* A row that is passed over is not one to delete.
LEMMA DeleteSkips ==
  ASSUME TypeOK, StmtOK, DeletePlaces, SkipRow
  PROVE  DeletePlaces'
<1>1. MoveOn(0, 0) /\ UNCHANGED <<arr, len, before>> /\ Row \notin stmt.where
  BY AdvanceMoves DEF SkipRow
<1>2. /\ stmt'.where = stmt.where /\ stmt'.keys = stmt.keys /\ stmt'.part = stmt.part
      /\ stmt'.n = stmt.n /\ stmt'.pos = stmt.pos + 1
  BY <1>1 DEF MoveOn
<1>3. Table' = Table BY <1>1, SameTable
<1>4. stmt.pos \in Nat /\ stmt.n \in Nat BY StmtFacts
<1>5. OneEach(Table, stmt.where) /\ NoneEqual(Table, stmt.where) BY DEF DeletePlaces
<1>6. \A x \in DOMAIN Table : Table[x] \in stmt.where => x[1] \in stmt'.keys \cup {stmt'.part}
  BY <1>2 DEF DeletePlaces
<1>7. ASSUME \A j \in 1..stmt.pos : arr[stmt.part][j] \notin stmt.where
      PROVE  \A j \in 1..(stmt.pos + 1) : arr[stmt.part][j] \notin stmt.where
  <2> TAKE j \in 1..(stmt.pos + 1)
  <2>1. j \in 1..stmt.pos \/ j = stmt.pos + 1 BY <1>4
  <2> QED BY <1>1, <1>7, <2>1 DEF Row
<1>8. \A j \in (stmt.pos + 1 + 1)..stmt.n : j \in (stmt.pos + 1)..stmt.n BY <1>4
<1>9. stmt.part # 0 =>
        \/ /\ stmt.n = len[stmt.part]
           /\ \A j \in 1..(stmt.pos + 1) : arr[stmt.part][j] \notin stmt.where
        \/ /\ \A j \in 1..len[stmt.part] : arr[stmt.part][j] \notin stmt.where
           /\ \A j \in (stmt.pos + 1 + 1)..stmt.n : arr[stmt.part][j] \notin stmt.where
  BY <1>7, <1>8 DEF DeletePlaces
<1> QED BY <1>1, <1>2, <1>3, <1>5, <1>6, <1>9 DEF DeletePlaces

\* A row to delete is found, and it is the one that was read.
LEMMA DeleteFinds ==
  ASSUME TypeOK, StmtOK, DeletePlaces, HasRow, Row \in stmt.where
  PROVE  /\ stmt.n = len[stmt.part] /\ stmt.part \in Parts
         /\ stmt.pos + 1 \in 1..len[stmt.part] /\ arr[stmt.part][stmt.pos + 1] = Row
         /\ stmt.part \in Holding(Row)
         /\ \A p \in Holding(Row) : p = stmt.part /\ FirstIndex(p, Row) = stmt.pos + 1
<1>1. stmt.part \in Parts /\ stmt.pos + 1 \in 1..stmt.n BY RowFacts
<1>2. stmt.part # 0 /\ stmt.pos + 1 \in (stmt.pos + 1)..stmt.n
  <2>1. stmt.pos \in Nat /\ stmt.n \in Nat BY StmtFacts
  <2> QED BY <1>1, <2>1 DEF Parts
<1>3. stmt.n = len[stmt.part] BY <1>2 DEF DeletePlaces, Row
<1>4. stmt.pos + 1 \in 1..len[stmt.part] /\ arr[stmt.part][stmt.pos + 1] = Row
  BY <1>1, <1>3 DEF Row
<1>5. stmt.part \in Holding(Row) BY <1>1, <1>4 DEF Holding, At
<1>6. ASSUME NEW p \in Holding(Row) PROVE p = stmt.part /\ FirstIndex(p, Row) = stmt.pos + 1
  <2> DEFINE k == FirstIndex(p, Row)
             x == <<p, k>>
             y == <<stmt.part, stmt.pos + 1>>
  <2>1. p \in Parts /\ k \in 1..len[p] /\ arr[p][k] = Row BY FoundRow
  <2> HIDE DEF k
  <2>2. x \in Places(len) /\ Table[x] = Row BY <2>1, RowAt
  <2>3. y \in Places(len) /\ Table[y] = Row BY <1>1, <1>4, RowAt
  <2>4. DOMAIN Table = Places(len) BY Numbers
  <2>5. x = y
    <3> HIDE DEF x, y
    <3> QED BY <2>2, <2>3, <2>4 DEF DeletePlaces, NoneEqual
  <2> QED BY <2>5 DEF k
<1> QED BY <1>1, <1>3, <1>4, <1>5, <1>6

\* With the row that it deletes, a partition loses the only one.
LEMMA DeleteDeletes ==
  ASSUME TypeOK, StmtOK, DeletePlaces, HasRow, Row \in stmt.where,
         NEW p \in Holding(Row), Delete(p, Row), Advance(1)
  PROVE  DeletePlaces'
<1> DEFINE q == stmt.part
           k == stmt.pos + 1
<1>1. /\ stmt.n = len[q] /\ q \in Parts /\ k \in 1..len[q] /\ arr[q][k] = Row
      /\ p = q /\ FirstIndex(p, Row) = k
  BY DeleteFinds
<1>2. Slices(arr, len) /\ stmt.pos \in Nat /\ stmt.n \in Nat BY StmtFacts
<1>3. Slices(arr', len') /\ Deleted(arr, len, q, k, arr', len')
  <2>1. /\ Slices(arr', len')
        /\ Deleted(arr, len, p, FirstIndex(p, Row), arr', len')
    BY DeleteStep
  <2> QED BY <1>1, <2>1
<1>4. /\ stmt'.where = stmt.where /\ stmt'.keys = stmt.keys /\ stmt'.part = q
      /\ stmt'.n = stmt.n /\ stmt'.pos = k
  BY AdvanceMoves DEF MoveOn
<1> HIDE DEF q, k
<1>5. /\ len'[q] = len[q] - 1
      /\ \A j \in 1..Len(arr[q]) :
           arr'[q][j] = IF j \in k..(len[q] - 1) THEN arr[q][j + 1] ELSE arr[q][j]
  BY <1>1, <1>2, <1>3, DeleteSlices
<1>6. /\ \A x \in Places(len') : /\ From(q, k, x) \in Places(len) \ {<<q, k>>}
                                 /\ From(q, k, x)[1] = x[1]
                                 /\ Table'[x] = Table[From(q, k, x)]
      /\ \A x, y \in Places(len') : From(q, k, x) = From(q, k, y) => x = y
  BY <1>1, <1>2, <1>3, DeleteFacts DEF Table
<1>7. DOMAIN Table = Places(len) BY Numbers
<1>8. DOMAIN Table' = Places(len') BY <1>3, TableFacts DEF Table
<1>9. OneEach(Table, stmt.where) /\ NoneEqual(Table, stmt.where) BY DEF DeletePlaces
<1>10. OneEach(Table', stmt.where)
  <2> SUFFICES ASSUME NEW x \in Places(len'), NEW y \in Places(len'), x[1] = y[1],
                      Table'[x] \in stmt.where, Table'[y] \in stmt.where
               PROVE  x = y
    BY <1>8 DEF OneEach
  <2>1. /\ From(q, k, x) \in Places(len) /\ From(q, k, y) \in Places(len)
        /\ From(q, k, x)[1] = From(q, k, y)[1]
        /\ Table[From(q, k, x)] \in stmt.where /\ Table[From(q, k, y)] \in stmt.where
    BY <1>6
  <2>2. From(q, k, x) = From(q, k, y) BY <1>7, <1>9, <2>1 DEF OneEach
  <2> QED BY <1>6, <2>2
<1>11. NoneEqual(Table', stmt.where)
  <2> SUFFICES ASSUME NEW x \in Places(len'), NEW y \in Places(len'), Table'[x] = Table'[y],
                      Table'[x] \in stmt.where
               PROVE  x = y
    BY <1>8 DEF NoneEqual
  <2>1. /\ From(q, k, x) \in Places(len) /\ From(q, k, y) \in Places(len)
        /\ Table[From(q, k, x)] \in stmt.where /\ Table[From(q, k, x)] = Table[From(q, k, y)]
    BY <1>6
  <2>2. From(q, k, x) = From(q, k, y) BY <1>7, <1>9, <2>1 DEF NoneEqual
  <2> QED BY <1>6, <2>2
<1>12. ASSUME NEW x \in Places(len'), Table'[x] \in stmt.where PROVE x[1] \in stmt.keys \cup {q}
  <2>1. /\ From(q, k, x) \in Places(len) /\ From(q, k, x)[1] = x[1]
        /\ Table[From(q, k, x)] \in stmt.where
    BY <1>6, <1>12
  <2> QED BY <1>7, <2>1 DEF DeletePlaces, q
<1>13. ASSUME NEW x \in Places(len), x # <<q, k>>, x[1] = q PROVE Table[x] \notin stmt.where
  <2> DEFINE y == <<q, k>>
  <2>1. y \in Places(len) /\ y[1] = q /\ Table[y] = Row BY <1>1, RowAt
  <2>2. x # y BY <1>13
  <2> HIDE DEF y
  <2> QED BY <1>7, <1>9, <1>13, <2>1, <2>2 DEF OneEach
<1>14. ASSUME NEW j \in 1..len[q], j # k PROVE arr[q][j] \notin stmt.where
  <2>1. <<q, j>> \in Places(len) /\ Table[<<q, j>>] = arr[q][j] BY <1>1, RowAt
  <2>2. <<q, j>> # <<q, k>> /\ <<q, j>>[1] = q BY <1>14
  <2> QED BY <1>13, <2>1, <2>2
<1>15. len[q] \in Nat /\ Len(arr[q]) \in Nat /\ len[q] <= Len(arr[q]) /\ k \in Nat
  BY <1>1, <1>2 DEF Slices
<1>16. ASSUME NEW j \in 1..len'[q] PROVE arr'[q][j] \notin stmt.where
  <2>1. j \in 1..Len(arr[q]) BY <1>5, <1>15
  <2>2. CASE j \in k..(len[q] - 1)
    <3>1. j + 1 \in 1..len[q] /\ j + 1 # k BY <1>15, <2>2
    <3> QED BY <1>5, <1>14, <2>1, <2>2, <3>1
  <2>3. CASE j \notin k..(len[q] - 1)
    <3>1. j \in 1..len[q] /\ j # k BY <1>1, <1>5, <1>15, <1>16, <2>3
    <3> QED BY <1>5, <1>14, <2>1, <2>3, <3>1
  <2> QED BY <2>2, <2>3
<1>17. ASSUME NEW j \in (k + 1)..stmt.n PROVE arr'[q][j] \notin stmt.where
  <2>1. j \in 1..Len(arr[q]) /\ j \in 1..len[q] /\ j # k BY <1>1, <1>15
  <2>2. CASE j \in k..(len[q] - 1)
    <3>1. j + 1 \in 1..len[q] /\ j + 1 # k BY <1>15, <2>2
    <3> QED BY <1>5, <1>14, <2>1, <2>2, <3>1
  <2>3. CASE j \notin k..(len[q] - 1) BY <1>5, <1>14, <2>1, <2>3
  <2> QED BY <2>2, <2>3
<1> QED BY <1>4, <1>8, <1>10, <1>11, <1>12, <1>16, <1>17 DEF DeletePlaces

\* The count of a DELETE is the number of rows in WHERE that are gone.
DeleteCount == stmt.count = Number(before, stmt.where) - Number(Table, stmt.where)

\* Every step keeps the invariant of DELETE, which so finds its rows.
LEMMA DeleteInvStep ==
  ASSUME TypeOK, StmtOK, DeleteInv, NoError, [Next]_vars
  PROVE  DeleteInv' /\ NoError'
<1> DEFINE Goal == DeleteCount /\ (stmt.undisturbed => DeletePlaces)
           Inv == (stmt.kind = "delete" => Goal) /\ NoError
<1>i. DeleteInv' /\ NoError' <=> Inv' BY DEF DeleteInv, DeleteCount
<1>g. Inv BY DEF DeleteInv, DeleteCount
<1>n. \A V : Number(Table, V) \in Nat /\ Number(before, V) \in Nat BY Numbers
<1>f. stmt.undisturbed \in BOOLEAN /\ stmt.count \in Nat BY StmtFacts
<1> SUFFICES Inv' BY <1>i
<1>1. ASSUME NEW k, NEW w, NEW src, Starts(k, w, src) PROVE Inv'
  <2>1. /\ stmt'.kind = k /\ stmt'.where = w /\ stmt'.part = 0 /\ stmt'.count = 0
        /\ stmt'.undisturbed = Undisturbed(k, w) /\ stmt'.res = "ok"
    BY <1>1, BeginFacts
  <2>2. NoError' BY <2>1 DEF NoError
  <2>3. ASSUME k = "delete" PROVE Goal'
    <3>1. /\ Table' = Table /\ before' = Table
          /\ \A x \in DOMAIN Table : x[1] \in stmt'.keys
      BY <1>1, <2>3, BeginReads
    <3>2. DeleteCount' BY <1>n, <2>1, <3>1 DEF DeleteCount
    <3>3. ASSUME Undisturbed("delete", w) PROVE DeletePlaces'
      <4>1. OneEach(Table, w) /\ NoneEqual(Table, w) BY <3>3 DEF Undisturbed
      <4> QED BY <2>1, <3>1, <4>1 DEF DeletePlaces
    <3> QED BY <2>1, <2>3, <3>2, <3>3
  <2> QED BY <2>1, <2>2, <2>3
<1>2. CASE OpenPartition
  <2>1. /\ stmt'.kind = stmt.kind /\ stmt'.where = stmt.where /\ stmt'.count = stmt.count
        /\ stmt'.undisturbed = stmt.undisturbed /\ stmt'.res = stmt.res
    BY <1>2, OpenFacts
  <2>2. Table' = Table /\ before' = before BY <1>2, SameTable DEF OpenPartition
  <2>3. DeletePlaces => DeletePlaces' BY <1>2, DeleteOpens
  <2> QED BY <1>g, <2>1, <2>2, <2>3 DEF DeleteCount, NoError
<1>3. CASE EndPartition
  <2>1. /\ stmt'.kind = stmt.kind /\ stmt'.where = stmt.where /\ stmt'.count = stmt.count
        /\ stmt'.undisturbed = stmt.undisturbed /\ stmt'.res = stmt.res
    BY <1>3, EndPartitionFacts
  <2>2. Table' = Table /\ before' = before BY <1>3, SameTable DEF EndPartition
  <2>3. DeletePlaces => DeletePlaces' BY <1>3, DeleteCloses
  <2> QED BY <1>g, <2>1, <2>2, <2>3 DEF DeleteCount, NoError
<1>4. CASE SkipRow
  <2>1. /\ stmt'.kind = stmt.kind /\ stmt'.where = stmt.where /\ stmt'.count = stmt.count
        /\ stmt'.undisturbed = stmt.undisturbed /\ stmt'.res = stmt.res
    BY <1>4, <1>f, AdvanceMoves DEF SkipRow, MoveOn
  <2>2. Table' = Table /\ before' = before BY <1>4, SameTable DEF SkipRow
  <2>3. DeletePlaces => DeletePlaces' BY <1>4, DeleteSkips
  <2> QED BY <1>g, <2>1, <2>2, <2>3 DEF DeleteCount, NoError
<1>5. CASE DeleteRow
  <2>1. HasRow /\ Row \in stmt.where /\ stmt.kind = "delete" /\ before' = before
    BY <1>5 DEF DeleteRow
  <2>2. CASE Holding(Row) = {}
    <3>1. /\ stmt'.kind = "none"
          /\ stmt'.res = "err" => stmt'.undisturbed = stmt.undisturbed
      BY <1>5, <2>2, EndedStep
    <3>2. ~stmt.undisturbed BY <1>g, <2>1, <2>2, DeleteFinds
    <3> QED BY <3>1, <3>2 DEF NoError
  <2>3. ASSUME NEW p \in Holding(Row), Delete(p, Row), Advance(1) PROVE Inv'
    <3>1. /\ stmt'.kind = stmt.kind /\ stmt'.where = stmt.where /\ stmt'.count = stmt.count + 1
          /\ stmt'.undisturbed = stmt.undisturbed /\ stmt'.res = stmt.res
      BY <2>3, AdvanceMoves DEF MoveOn
    <3>2. Number(Table', stmt.where) = Number(Table, stmt.where) - 1
      <4>1. Number(Table', stmt.where) = Number(Table, stmt.where) - One(Row \in stmt.where)
        BY <2>3, DeleteStep
      <4> QED BY <2>1, <4>1 DEF One
    <3>3. DeleteCount'
      <4>1. stmt.count = Number(before, stmt.where) - Number(Table, stmt.where)
        BY <1>g, <2>1 DEF DeleteCount
      <4>2. stmt'.count = Number(before, stmt.where) - Number(Table', stmt.where)
        BY <1>n, <3>1, <3>2, <4>1
      <4> QED BY <2>1, <3>1, <4>2 DEF DeleteCount
    <3>4. DeletePlaces => DeletePlaces' BY <2>1, <2>3, DeleteDeletes
    <3> QED BY <1>g, <2>1, <3>1, <3>3, <3>4 DEF NoError
  <2> QED BY <1>5, <2>2, <2>3 DEF DeleteRow
<1>6. CASE UpdateRow BY <1>6, <1>g, UpdateMoves DEF UpdateRow, MoveOn, NoError
<1>7. CASE InsertSelected BY <1>7, <1>g, AdvanceMoves DEF InsertSelected, MoveOn, NoError
<1>8. CASE InsertValue BY <1>8, <1>g, AdvanceMoves DEF InsertValue, MoveOn, NoError
<1>9. CASE ReplaceValue BY <1>9, <1>g, AdvanceMoves DEF ReplaceValue, MoveOn, NoError
<1>10. CASE Fail \/ End
  <2>1. stmt'.kind = "none" /\ (stmt'.res = "err" => DeleteRow) BY <1>10, EndedStep
  <2>2. stmt'.res # "err" BY <1>10 DEF Fail, End, NoStmt
  <2> QED BY <2>1, <2>2 DEF NoError
<1>11. CASE UNCHANGED vars
  <2>1. UNCHANGED <<arr, len, before, stmt>> BY <1>11 DEF vars
  <2>2. Table' = Table BY <2>1, SameTable
  <2>3. Goal' = Goal BY <2>1, <2>2 DEF DeleteCount, DeletePlaces, OneEach, NoneEqual
  <2> QED BY <1>g, <2>1, <2>3 DEF NoError
<1>12. CASE Next
  <2> HIDE DEF Inv
  <2> QED BY <1>1, <1>2, <1>3, <1>4, <1>5, <1>6, <1>7, <1>8, <1>9, <1>10, <1>12, NextCases
<1> QED BY <1>11, <1>12

-----------------------------------------------------------------------------
(***************************************************************************)
(* The theorems                                                            *)
(***************************************************************************)
\* The table in which no statement has begun.
LEMMA InitInv == Init => TypeOK /\ TableInv
<1> SUFFICES ASSUME Init PROVE TypeOK /\ TableInv OBVIOUS
<1>1. TypeOK /\ StmtOK BY InitType
<1>2. stmt.kind = "none" /\ stmt.res = "ok" BY DEF Init, NoStmt
<1>3. InsertInv /\ ReplaceInv /\ SelectInv /\ UpdateInv /\ DeleteInv /\ NoError
  BY <1>2 DEF InsertInv, ReplaceInv, SelectInv, UpdateInv, DeleteInv, NoError
<1>4. OnlySelectedRows BY <1>2 DEF OnlySelectedRows
<1> QED BY <1>1, <1>3, <1>4 DEF TableInv

\* Every step keeps the inductive invariant.
LEMMA InvStep ==
  ASSUME TypeOK, TableInv, [Next]_vars
  PROVE  TypeOK' /\ TableInv'
<1>1. /\ StmtOK /\ InsertInv /\ ReplaceInv /\ SelectInv /\ UpdateInv /\ DeleteInv /\ NoError
      /\ OnlySelectedRows
  BY DEF TableInv
<1>2. TypeOK' /\ StmtOK' BY <1>1, TypeStep
<1>3. OnlySelectedRows' BY <1>1, OnlyStep
<1>4. InsertInv' /\ ReplaceInv' BY <1>1, ValuesStep
<1>5. SelectInv' BY <1>1, SelectStep
<1>6. UpdateInv' BY <1>1, UpdateInvStep
<1>7. DeleteInv' /\ NoError' BY <1>1, DeleteInvStep
<1> QED BY <1>2, <1>3, <1>4, <1>5, <1>6, <1>7 DEF TableInv

\* How many of the rows v were selected.
LEMMA SelectedFacts ==
  ASSUME TypeOK, StmtOK, NEW v
  PROVE  Number(before, {v} \cap stmt.where) = Selected(v)
<1>1. IsFiniteSet(DOMAIN before) BY DEF StmtOK, IsTable
<1>2. CASE v \in stmt.where
  <2>1. {v} \cap stmt.where = {v} BY <1>2
  <2> QED BY <1>2, <2>1 DEF Selected, Before
<1>3. CASE v \notin stmt.where
  <2>1. {v} \cap stmt.where = {} BY <1>3
  <2>2. Number(before, {}) = 0 BY <1>1, NumberType
  <2> QED BY <1>3, <2>1, <2>2 DEF Selected
<1> QED BY <1>2, <1>3

\* The result of a statement that is finished, for each kind.
LEMMA SelectResult ==
  ASSUME TypeOK, StmtOK, SelectInv, stmt.kind = "insertSelect", stmt.undisturbed, Finished
  PROVE  Result
<1>1. stmt.keys = {} /\ stmt.part = 0 BY DEF Finished, Reads
<1>2. \A V : Cardinality(Read(V)) = Number(before, V) BY <1>1, EverythingRead
<1>3. ASSUME NEW v \in Values PROVE Occurs(v) = Expected(v)
  <2>1. Occurs(v) = Before(v) + Cardinality(Read({v} \cap stmt.where)) BY DEF SelectInv
  <2>2. Occurs(v) = Before(v) + Selected(v) BY <1>2, <2>1, SelectedFacts
  <2> QED BY <2>2 DEF Expected
<1>4. stmt.count = ExpectedCount
  <2>1. stmt.count = Number(before, stmt.where) BY <1>2 DEF SelectInv
  <2> QED BY <2>1 DEF ExpectedCount
<1> QED BY <1>3, <1>4 DEF Result

\* UPDATE
LEMMA UpdateResult ==
  ASSUME TypeOK, StmtOK, UpdateInv, stmt.kind = "update", stmt.undisturbed, Finished
  PROVE  Result
<1>1. stmt.keys = {} /\ stmt.part = 0 BY DEF Finished, Reads
<1>2. \A V : Cardinality(Read(V)) = Number(before, V) BY <1>1, EverythingRead
<1>3. ASSUME NEW v \in Values PROVE Occurs(v) = Expected(v)
  <2>1. Occurs(v) = Before(v) - Cardinality(Read({v} \cap stmt.where))
                      + Cardinality(Read(Becoming(v)))
    BY DEF UpdateInv
  <2>2. Occurs(v) = Before(v) - Selected(v) + Number(before, Becoming(v))
    BY <1>2, <2>1, SelectedFacts
  <2> QED BY <2>2 DEF Expected
<1>4. stmt.count = ExpectedCount
  <2>1. stmt.count = Number(before, Changed) BY <1>2 DEF UpdateInv
  <2> QED BY <2>1 DEF ExpectedCount
<1>5. stmt.matched = Number(before, stmt.where) BY <1>2 DEF UpdateInv
<1> QED BY <1>3, <1>4, <1>5 DEF Result

\* DELETE
LEMMA DeleteResult ==
  ASSUME TypeOK, StmtOK, DeleteInv, OnlySelectedRows, stmt.kind = "delete", stmt.undisturbed,
         Finished
  PROVE  Result
<1>1. stmt.keys = {} /\ stmt.part = 0 BY DEF Finished, Reads
<1>2. IsTable(Table) /\ \A V : Number(Table, V) \in Nat /\ Number(before, V) \in Nat BY Numbers
<1>3. \A x \in DOMAIN Table : Table[x] \notin stmt.where
  <2>1. \A x \in DOMAIN Table : x[1] # 0 BY <1>2 DEF IsTable, Parts
  <2> QED BY <1>1, <2>1 DEF DeleteInv, DeletePlaces
<1>4. IsFiniteSet(DOMAIN Table) BY <1>2 DEF IsTable
<1>5. ASSUME NEW v \in Values PROVE Occurs(v) = Expected(v)
  <2>1. CASE v \in stmt.where
    <3>1. Occurs(v) = 0
      <4>1. \A x \in DOMAIN Table : Table[x] \notin {v} BY <1>3, <2>1
      <4> QED BY <1>4, <4>1, NumberType DEF Occurs
    <3>2. Before(v) \in Nat /\ Selected(v) = Before(v) BY <1>2, <2>1 DEF Before, Selected
    <3>3. Occurs(v) = Before(v) - Selected(v) BY <3>1, <3>2
    <3> QED BY <3>3 DEF Expected
  <2>2. CASE v \notin stmt.where
    <3>1. Occurs(v) = Before(v) BY <2>2 DEF OnlySelectedRows, OthersKept
    <3>2. Before(v) \in Nat /\ Selected(v) = 0 BY <1>2, <2>2 DEF Before, Selected
    <3>3. Occurs(v) = Before(v) - Selected(v) BY <3>1, <3>2
    <3> QED BY <3>3 DEF Expected
  <2> QED BY <2>1, <2>2
<1>6. stmt.count = ExpectedCount
  <2>1. Number(Table, stmt.where) = 0 BY <1>3, <1>4, NumberType
  <2>2. stmt.count = Number(before, stmt.where) - Number(Table, stmt.where) BY DEF DeleteInv
  <2>3. stmt.count = Number(before, stmt.where) BY <1>2, <2>1, <2>2
  <2> QED BY <2>3 DEF ExpectedCount
<1> QED BY <1>5, <1>6 DEF Result

\* INSERT and REPLACE
LEMMA ValuesResult ==
  ASSUME TypeOK, StmtOK, InsertInv, ReplaceInv, stmt.kind \in {"insert", "replace"}, Finished
  PROVE  Result
<1>1. /\ stmt.pos = stmt.n /\ stmt.n = Len(stmt.source) /\ stmt.source \in Seq(Values)
      /\ stmt.n \in Nat
  BY StmtFacts DEF Finished, Reads, StmtOK
<1>2. DOMAIN stmt.source = 1..stmt.pos BY <1>1
<1>3. \A v : Given(v) = Cardinality(Stored(v)) BY <1>2 DEF Given, Stored
<1>4. \A v : IsFiniteSet(Stored(v)) /\ Cardinality(Stored(v)) \in Nat BY StoredFinite
<1>5. \A v : Given(v) > 0 <=> Stored(v) # {}
  <2> TAKE v
  <2>1. Cardinality(Stored(v)) = 0 <=> Stored(v) = {} BY <1>4, FS_EmptySet
  <2> QED BY <1>3, <1>4, <2>1
<1>6. New = {v \in Values : Before(v) = 0 /\ Given(v) > 0} BY <1>5 DEF New
<1>7. CASE stmt.kind = "insert"
  <2>1. \A v \in Values : Occurs(v) = Before(v) + Given(v) BY <1>3, <1>7 DEF InsertInv
  <2>2. \A v \in Values : Occurs(v) = Expected(v) BY <1>7, <2>1 DEF Expected
  <2>3. stmt.count = ExpectedCount BY <1>1, <1>7 DEF InsertInv, ExpectedCount
  <2> QED BY <1>7, <2>2, <2>3 DEF Result
<1>8. CASE stmt.kind = "replace"
  <2>1. \A v \in Values :
          Occurs(v) = IF Before(v) = 0 /\ Given(v) > 0 THEN 1 ELSE Before(v)
    BY <1>6, <1>8 DEF ReplaceInv
  <2>2. \A v \in Values : Occurs(v) = Expected(v) BY <1>8, <2>1 DEF Expected
  <2>3. stmt.count = 2 * stmt.n - Cardinality({v \in Values : Before(v) = 0 /\ Given(v) > 0})
    BY <1>1, <1>6, <1>8 DEF ReplaceInv
  <2>4. stmt.count = ExpectedCount BY <1>8, <2>3 DEF ExpectedCount
  <2> QED BY <1>8, <2>2, <2>4 DEF Result
<1> QED BY <1>7, <1>8

\* The inductive invariant implies the result.
LEMMA ResultFollows ==
  ASSUME TypeOK, TableInv
  PROVE  StatementResult
<1>1. /\ StmtOK /\ InsertInv /\ ReplaceInv /\ SelectInv /\ UpdateInv /\ DeleteInv /\ NoError
      /\ OnlySelectedRows
  BY DEF TableInv
<1>2. ASSUME Finished, stmt.undisturbed PROVE Result
  <2>1. stmt.kind \in {"insert", "replace", "delete", "update", "insertSelect"}
    BY <1>2, StmtFacts DEF Finished, Running
  <2>2. CASE stmt.kind \in {"insert", "replace"} BY <1>1, <1>2, <2>2, ValuesResult
  <2>3. CASE stmt.kind = "delete" BY <1>1, <1>2, <2>3, DeleteResult
  <2>4. CASE stmt.kind = "update" BY <1>1, <1>2, <2>4, UpdateResult
  <2>5. CASE stmt.kind = "insertSelect" BY <1>1, <1>2, <2>5, SelectResult
  <2> QED BY <2>1, <2>2, <2>3, <2>4, <2>5
<1> QED BY <1>1, <1>2 DEF StatementResult, NoError

\* The inductive invariant holds in every state: where the statement in progress is,
\* which of the rows that it found at its beginning it has dealt with, and where the
\* others are (memory/table.go, tableIter and tableEditor).
THEOREM InvariantHolds == Spec => [](TypeOK /\ TableInv)
<1>1. Init => TypeOK /\ TableInv BY InitInv
<1>2. TypeOK /\ TableInv /\ [Next]_vars => (TypeOK /\ TableInv)' BY InvStep
<1> QED BY <1>1, <1>2, PTL DEF Spec

\* However a statement reads the slices that it is changing, and wherever it ends: no
\* row outside of its WHERE clause is lost or doubled, and the count it reports is the
\* number of rows by which the table has grown or shrunk (tableEditor.Insert, Delete
\* and Update under InsertInto, DeleteFrom and Update.Execute).
THEOREM OnlySelected == Spec => []OnlySelectedRows
<1>1. TypeOK /\ TableInv => OnlySelectedRows BY DEF TableInv
<1> QED BY <1>1, InvariantHolds, PTL

\* A statement whose rows do not get in their own way leaves, for tables of any size
\* and any number of partitions, exactly the table that SQL asks for, reports the
\* right count, and as a DELETE never fails to find its row (InsertInto, DeleteFrom
\* and Update.Execute over the in-memory table).
THEOREM StatementsCorrect == Spec => []StatementResult
<1>1. TypeOK /\ TableInv => StatementResult BY ResultFollows
<1> QED BY <1>1, InvariantHolds, PTL
=============================================================================
