-------------------------- MODULE AlterTableProofs --------------------------
(***************************************************************************)
(* Proofs about ALTER TABLE, for any column names, any number of rows and  *)
(* any number of statements.                                               *)
(***************************************************************************)
EXTENDS AlterTable, ListLemmas

-----------------------------------------------------------------------------
(* The schemas that the table makes *)

\* A new schema of n slots holds columns of the old one.
LEMMA OthersType ==
  ASSUME NEW S, NEW sch \in Seq(S), NEW name, NEW n \in Nat
  PROVE  LET t == Others(sch, name, n) IN
         t \in Seq(S \cup {NilColumn}) /\ Len(t) = n /\ DOMAIN t = 1..n
<1> DEFINE kept == {k \in DOMAIN sch : sch[k].name # name}
           nth(i) == {k \in kept : Cardinality({j \in kept : j <= k}) = i}
           x(i) == IF nth(i) = {} THEN NilColumn ELSE sch[Min(nth(i))]
<1>1. ASSUME NEW i PROVE x(i) \in S \cup {NilColumn}
  <2>1. CASE nth(i) = {} BY <2>1
  <2>2. CASE nth(i) # {}
    <3>1. DOMAIN sch \subseteq Nat OBVIOUS
    <3>2. nth(i) \subseteq DOMAIN sch OBVIOUS
    <3> DEFINE T == nth(i)
    <3>3. x(i) = sch[Min(T)] BY <2>2
    <3> HIDE DEF nth, x
    <3>4. \E a \in T : \A b \in T : a <= b
      <4> HIDE DEF T
      <4> QED BY <2>2, <3>1, <3>2, LeastNumber DEF T
    <3>5. Min(T) \in T BY <3>4 DEF Min
    <3> QED BY <3>2, <3>3, <3>5
  <2> QED BY <2>1, <2>2
<1>2. Others(sch, name, n) = [i \in 1..n |-> x(i)] BY DEF Others
<1> HIDE DEF x
<1>3. \A i \in 1..n : x(i) \in S \cup {NilColumn} BY <1>1
<1>4. [i \in 1..n |-> x(i)] \in Seq(S \cup {NilColumn}) BY <1>3
<1> QED BY <1>2, <1>4

\* Without the only column of its name a schema has all the others, in their order.
LEMMA DroppedOne ==
  ASSUME NEW S, NEW sch \in Seq(S), NEW k \in DOMAIN sch,
         \A j \in DOMAIN sch : sch[j].name = sch[k].name => j = k
  PROVE  Dropped(sch, sch[k].name) = RemoveAt(sch, k)
<1> DEFINE name == sch[k].name
           kept == {m \in DOMAIN sch : sch[m].name # name}
           upTo(m) == {j \in kept : j <= m}
           nth(i) == {m \in kept : Cardinality(upTo(m)) = i}
           t == RemoveAt(sch, k)
<1>1. DOMAIN sch = 1..Len(sch) /\ Len(sch) \in Nat /\ k \in 1..Len(sch) OBVIOUS
<1>2. kept = (1..Len(sch)) \ {k} BY <1>1
<1> HIDE DEF kept, name
<1>3. ASSUME NEW m \in kept PROVE Cardinality(upTo(m)) = IF m < k THEN m ELSE m - 1
  <2>0. m \in 1..Len(sch) /\ m # k BY <1>2
  <2>1. IsFiniteSet(1..m) /\ Cardinality(1..m) = m BY <1>1, <2>0, FS_Interval
  <2>2. CASE m < k
    <3>1. upTo(m) = 1..m BY <1>1, <1>2, <2>0, <2>2
    <3> QED BY <2>1, <2>2, <3>1
  <2>3. CASE ~(m < k)
    <3>1. upTo(m) = (1..m) \ {k} /\ k \in 1..m BY <1>1, <1>2, <2>0, <2>3
    <3>2. Cardinality((1..m) \ {k}) = m - 1 BY <2>1, <3>1, FS_RemoveElement
    <3> QED BY <2>3, <3>1, <3>2
  <2> QED BY <2>2, <2>3
<1> HIDE DEF upTo
<1>4. ASSUME NEW i \in 1..(Len(sch) - 1) PROVE nth(i) = {IF i < k THEN i ELSE i + 1}
  <2>1. (IF i < k THEN i ELSE i + 1) \in kept BY <1>1, <1>2
  <2>2. ASSUME NEW m \in kept
        PROVE  Cardinality(upTo(m)) = i <=> m = IF i < k THEN i ELSE i + 1
    <3>1. m \in 1..Len(sch) /\ m # k BY <1>2
    <3>2. Cardinality(upTo(m)) = IF m < k THEN m ELSE m - 1 BY <1>3
    <3> QED BY <1>1, <3>1, <3>2
  <2> QED BY <2>1, <2>2
<1>5. ASSUME NEW i \in 1..(Len(sch) - 1)
      PROVE  (IF nth(i) = {} THEN NilColumn ELSE sch[Min(nth(i))]) = sch[IF i < k THEN i ELSE i + 1]
  <2> DEFINE m == IF i < k THEN i ELSE i + 1
  <2>1. m \in Int BY <1>1
  <2>2. nth(i) = {m} BY <1>4
  <2> HIDE DEF m, nth
  <2>3. Min(nth(i)) = m BY <2>1, <2>2, MinSingleton
  <2> QED BY <2>2, <2>3 DEF m
<1>6. /\ DOMAIN t = 1..(Len(sch) - 1) /\ t \in Seq(S)
      /\ \A i \in DOMAIN t : t[i] = sch[IF i < k THEN i ELSE i + 1]
  BY RemoveAtElements
<1>7. Dropped(sch, name) =
        [i \in 1..(Len(sch) - 1) |-> IF nth(i) = {} THEN NilColumn ELSE sch[Min(nth(i))]]
  BY DEF Dropped, Others, kept, upTo
<1> HIDE DEF t, nth
<1>8. t = [i \in 1..(Len(sch) - 1) |-> t[i]] BY <1>6
<1>9. Dropped(sch, name) = t BY <1>5, <1>6, <1>7, <1>8
<1> QED BY <1>9 DEF t, name

\* The orders that a statement can give.
LEMMA OrderKinds ==
  ASSUME NEW o \in Orders
  PROVE  /\ o.kind \in {"nil", "first", "after"}
         /\ o.kind = "nil" <=> o = NoOrder
         /\ o.kind = "after" => o.column \in Names
BY DEF Orders, NoOrder

\* A column is written after one that is there, or at the front.
LEMMA PlacesType ==
  ASSUME NEW S, NEW sch \in Seq(S), NEW o \in Orders
  PROVE  Places(sch, o) \subseteq 0..Len(sch)
<1>1. DOMAIN sch = 1..Len(sch) /\ Len(sch) \in Nat OBVIOUS
<1>2. o.kind \in {"nil", "first", "after"} BY OrderKinds
<1>3. CASE o.kind = "nil" BY <1>1, <1>3 DEF Places
<1>4. CASE o.kind = "first" BY <1>1, <1>4 DEF Places
<1>5. CASE o.kind = "after" BY <1>1, <1>5 DEF Places
<1> QED BY <1>2, <1>3, <1>4, <1>5

\* Every row becomes longer by the new value.
LEMMA RowsInserted ==
  ASSUME rows \in Seq(Seq(Nat)), NEW k \in Nat, NEW val \in Nat,
         \A r \in DOMAIN rows : k <= Len(rows[r]), rows' = InsertValueInRows(k, val)
  PROVE  /\ rows' \in Seq(Seq(Nat)) /\ DOMAIN rows' = DOMAIN rows
         /\ \A r \in DOMAIN rows :
              /\ Len(rows'[r]) = Len(rows[r]) + 1 /\ rows'[r] = InsertAt(rows[r], k + 1, val)
<1> DEFINE T == Seq(Nat)
<1>0. rows \in Seq(T) /\ DOMAIN rows = 1..Len(rows) /\ Len(rows) \in Nat OBVIOUS
<1>1. \A r \in DOMAIN rows : rows[r] \in T BY <1>0
<1>2. ASSUME NEW row \in Seq(Nat), k <= Len(row)
      PROVE  LET t == InsertAt(row, k + 1, val) IN t \in T /\ Len(t) = Len(row) + 1
  <2>1. Len(row) \in Nat OBVIOUS
  <2>2. k + 1 \in 1..(Len(row) + 1) BY <1>2, <2>1
  <2> QED BY <2>2, InsertAtElements
<1> HIDE DEF T
<1>3. rows' = [r \in DOMAIN rows |-> InsertAt(rows[r], k + 1, val)] BY DEF InsertValueInRows
<1>4. \A r \in DOMAIN rows : rows'[r] = InsertAt(rows[r], k + 1, val) BY <1>3
<1>5. \A r \in DOMAIN rows : rows'[r] \in T /\ Len(rows'[r]) = Len(rows[r]) + 1
  BY <1>1, <1>2, <1>4 DEF T
<1>6. rows' \in [1..Len(rows) -> T] BY <1>0, <1>3, <1>5
<1>7. rows' \in Seq(T) BY <1>0, <1>6, FunctionIsList
<1> QED BY <1>0, <1>3, <1>4, <1>5, <1>7 DEF T

\* What AddColumn of the table makes of a schema that is not longer than the rows.
LEMMA AddedType ==
  ASSUME NEW S, NEW sch \in Seq(S \cup {NilColumn}), NEW col \in S, NEW o \in Orders,
         col.id \in Nat, rows \in Seq(Seq(Nat)), \A r \in DOMAIN rows : Len(rows[r]) >= Len(sch),
         panicked \in BOOLEAN, TableAddColumn(sch, col, o)
  PROVE  /\ schema' \in Seq(S \cup {NilColumn}) /\ rows' \in Seq(Seq(Nat)) /\ panicked' \in BOOLEAN
         /\ DOMAIN rows' = DOMAIN rows
         /\ \/ Len(schema') = Len(sch) /\ rows' = rows
            \/ /\ Len(schema') = Len(sch) + 1
               /\ \A r \in DOMAIN rows : Len(rows'[r]) = Len(rows[r]) + 1
<1> DEFINE T == S \cup {NilColumn}
<1>0. sch \in Seq(T) /\ Len(sch) \in Nat /\ col \in T /\ NilColumn \in T OBVIOUS
<1>r. \A r \in DOMAIN rows : Len(rows[r]) \in Nat OBVIOUS
<1> HIDE DEF T
<1>1. Places(sch, o) \subseteq 0..Len(sch) BY <1>0, PlacesType
<1>2. ASSUME NEW k \in 0..Len(sch), schema' = InsertAt(sch, k + 1, col),
             rows' = InsertValueInRows(k, col.id)
      PROVE  /\ schema' \in Seq(T) /\ Len(schema') = Len(sch) + 1
             /\ rows' \in Seq(Seq(Nat)) /\ DOMAIN rows' = DOMAIN rows
             /\ \A r \in DOMAIN rows : Len(rows'[r]) = Len(rows[r]) + 1
  <2>1. k \in Nat /\ k + 1 \in 1..(Len(sch) + 1) BY <1>0
  <2>2. schema' \in Seq(T) /\ Len(schema') = Len(sch) + 1 BY <1>0, <1>2, <2>1, InsertAtElements
  <2>3. \A r \in DOMAIN rows : k <= Len(rows[r]) BY <1>0, <1>r
  <2> QED BY <1>2, <2>1, <2>2, <2>3, RowsInserted
<1>3. ASSUME schema' = Append(sch, NilColumn), rows' = InsertValueInRows(0, col.id)
      PROVE  /\ schema' \in Seq(T) /\ Len(schema') = Len(sch) + 1
             /\ rows' \in Seq(Seq(Nat)) /\ DOMAIN rows' = DOMAIN rows
             /\ \A r \in DOMAIN rows : Len(rows'[r]) = Len(rows[r]) + 1
  <2>1. \A r \in DOMAIN rows : 0 <= Len(rows[r]) BY <1>r
  <2>2. schema' \in Seq(T) /\ Len(schema') = Len(sch) + 1 BY <1>0, <1>3
  <2> QED BY <1>3, <2>1, <2>2, RowsInserted
<1>4. \/ \E k \in 0..Len(sch) : /\ schema' = InsertAt(sch, k + 1, col)
                                /\ rows' = InsertValueInRows(k, col.id) /\ UNCHANGED panicked
      \/ /\ schema' = Append(sch, NilColumn) /\ rows' = InsertValueInRows(0, col.id)
         /\ UNCHANGED panicked
      \/ panicked' = TRUE /\ schema' = sch /\ UNCHANGED rows
  BY <1>1 DEF TableAddColumn
<1> QED BY <1>0, <1>2, <1>3, <1>4 DEF T

\* A column that IndexOf finds.
LEMMA IndexOfType ==
  ASSUME TypeOK, NEW name, IndexOf(name) # 0
  PROVE  IndexOf(name) \in DOMAIN schema /\ Lower[schema[IndexOf(name)].name] = Lower[name]
<1> DEFINE I == {i \in 1..Len(schema) : Lower[schema[i].name] = Lower[name]}
<1>1. IndexOf(name) = IF I # {} THEN Min(I) ELSE 0 BY DEF IndexOf, SelectInSeq
<1>2. DOMAIN schema = 1..Len(schema) BY DEF TypeOK
<1>3. I # {} /\ I \subseteq Nat BY <1>1
<1>4. \E a \in I : \A b \in I : a <= b BY <1>3, LeastNumber
<1>5. Min(I) \in I BY <1>4 DEF Min
<1> QED BY <1>1, <1>2, <1>3, <1>5

\* Without a hole, every slot of the schema is a column.
LEMMA NoHole ==
  ASSUME TypeOK, ~HasNil, NEW k \in DOMAIN schema
  PROVE  /\ schema[k] \in Columns(nextId - 1)
         /\ schema[k].name \in Names /\ schema[k].id \in 1..(nextId - 1)
<1> DEFINE T == Columns(nextId - 1) \cup {NilColumn}
<1>1. schema \in Seq(T) BY DEF TypeOK
<1> HIDE DEF T
<1>2. schema[k] \in T BY <1>1
<1>3. schema[k] # NilColumn BY DEF HasNil, Range
<1>4. schema[k] \in Columns(nextId - 1) BY <1>2, <1>3 DEF T
<1> QED BY <1>4 DEF Columns

\* The order that ModifyColumn works out is one that a statement could give.
LEMMA OrderForType ==
  ASSUME TypeOK, ~HasNil, NEW name, NEW o \in Orders
  PROVE  OrderFor(name, o) \in Orders
<1> DEFINE I == {i \in 1..Len(schema) : schema[i].name = name}
           at == SelectInSeq(schema, LAMBDA c : c.name = name)
<1>0. DOMAIN schema = 1..Len(schema) /\ Len(schema) \in Nat BY DEF TypeOK
<1>1. at = IF I # {} THEN Min(I) ELSE 0 BY DEF SelectInSeq
<1>2. at \in 0..Len(schema)
  <2>1. CASE I = {} BY <1>0, <1>1, <2>1
  <2>2. CASE I # {}
    <3>1. I \subseteq Nat OBVIOUS
    <3>2. \E a \in I : \A b \in I : a <= b BY <2>2, <3>1, LeastNumber
    <3>3. Min(I) \in I BY <3>2 DEF Min
    <3> QED BY <1>0, <1>1, <2>2, <3>3
  <2> QED BY <2>1, <2>2
<1> HIDE DEF at
<1>3. CASE o.kind # "nil"
  <2>1. OrderFor(name, o) = o BY <1>3 DEF OrderFor
  <2> QED BY <2>1
<1>4. CASE o.kind = "nil" /\ at <= 1
  <2>1. OrderFor(name, o) = [kind |-> "first", column |-> "none"] BY <1>4 DEF OrderFor, at
  <2> QED BY <2>1 DEF Orders
<1>5. CASE o.kind = "nil" /\ ~(at <= 1)
  <2>1. OrderFor(name, o) = [kind |-> "after", column |-> schema[at - 1].name]
    BY <1>5 DEF OrderFor, at
  <2>2. at - 1 \in DOMAIN schema BY <1>0, <1>2, <1>5
  <2>3. schema[at - 1].name \in Names BY <2>2, NoHole
  <2> QED BY <2>1, <2>3 DEF Orders
<1> QED BY <1>3, <1>4, <1>5

-----------------------------------------------------------------------------
(* Types, and rows that are long enough *)

\* No stored row is shorter than the schema.
LongRows == \A r \in DOMAIN rows : Len(rows[r]) >= Len(schema)

\* A statement counts as one.
LEMMA StatementType ==
  ASSUME TypeOK, NEW op \in Statements, NEW plain, Statement(op, plain)
  PROVE  alters' \in 0..MaxAlters /\ done' \subseteq Statements
BY LowerAssumption DEF TypeOK, Statement, Ready, Statements

\* AddColumn of the table keeps the rows as long as the schema.
LEMMA AddedLongRows ==
  ASSUME NEW S, NEW sch \in Seq(S \cup {NilColumn}), NEW col \in S, NEW o \in Orders,
         col.id \in Nat, rows \in Seq(Seq(Nat)), \A r \in DOMAIN rows : Len(rows[r]) >= Len(sch),
         panicked \in BOOLEAN, TableAddColumn(sch, col, o)
  PROVE  /\ schema' \in Seq(S \cup {NilColumn}) /\ rows' \in Seq(Seq(Nat)) /\ panicked' \in BOOLEAN
         /\ LongRows'
<1> DEFINE T == S \cup {NilColumn}
<1>1. /\ schema' \in Seq(T) /\ rows' \in Seq(Seq(Nat)) /\ panicked' \in BOOLEAN
      /\ DOMAIN rows' = DOMAIN rows
      /\ \/ Len(schema') = Len(sch) /\ rows' = rows
         \/ /\ Len(schema') = Len(sch) + 1
            /\ \A r \in DOMAIN rows : Len(rows'[r]) = Len(rows[r]) + 1
  BY AddedType
<1>2. Len(sch) \in Nat /\ \A r \in DOMAIN rows : Len(rows[r]) \in Nat OBVIOUS
<1> HIDE DEF T
<1>3. \A r \in DOMAIN rows : Len(rows'[r]) >= Len(schema') BY <1>1, <1>2
<1>4. \A r \in DOMAIN rows' : Len(rows'[r]) >= Len(schema') BY <1>1, <1>3
<1> QED BY <1>1, <1>4 DEF LongRows, T

\* ADD COLUMN keeps types and long rows.
LEMMA AddColumnTypes ==
  ASSUME TypeOK, LongRows, NEW n \in Names, NEW o \in Orders, AddColumn(n, o)
  PROVE  TypeOK' /\ LongRows'
<1> DEFINE S == Columns(nextId)
           col == Column(n, nextId)
<1>1. nextId \in Nat /\ nextId' = nextId + 1 /\ nextId' - 1 = nextId BY DEF TypeOK, AddColumn
<1>2. col \in S /\ col.id \in Nat BY <1>1 DEF Column, Columns, TypeOK
<1>3. Columns(nextId - 1) \cup {NilColumn} \subseteq S \cup {NilColumn} BY <1>1 DEF Columns
<1>4. schema \in Seq(Columns(nextId - 1) \cup {NilColumn}) BY DEF TypeOK
<1>5. TableAddColumn(schema, col, o) BY DEF AddColumn
<1>6. alters' \in 0..MaxAlters /\ done' \subseteq Statements
  BY StatementType DEF AddColumn, Statements
<1> HIDE DEF col, S
<1>7. schema \in Seq(S \cup {NilColumn}) BY <1>3, <1>4
<1>8. /\ schema' \in Seq(S \cup {NilColumn}) /\ rows' \in Seq(Seq(Nat)) /\ panicked' \in BOOLEAN
      /\ LongRows'
  BY <1>2, <1>5, <1>7, AddedLongRows DEF TypeOK, LongRows
<1>9. schema' \in Seq(Columns(nextId' - 1) \cup {NilColumn}) BY <1>1, <1>8 DEF S
<1> QED BY <1>1, <1>6, <1>8, <1>9 DEF TypeOK

\* DROP COLUMN keeps types and long rows.
LEMMA DropColumnTypes ==
  ASSUME TypeOK, LongRows, NEW n \in Names, DropColumn(n)
  PROVE  TypeOK' /\ LongRows'
<1> DEFINE S == Columns(nextId - 1) \cup {NilColumn}
           t == Dropped(schema, n)
<1>1. schema \in Seq(S) BY DEF TypeOK
<1>2. schema' = t /\ rows' = rows /\ nextId' = nextId /\ panicked' = panicked
  BY DEF DropColumn
<1>3. Len(schema) \in Nat /\ Len(schema) - 1 \in Nat /\ Len(schema) # 0
  BY DEF DropColumn, NamesOf, TypeOK
<1>4. alters' \in 0..MaxAlters /\ done' \subseteq Statements
  BY StatementType DEF DropColumn, Statements
<1> HIDE DEF S
<1>5. t \in Seq(S \cup {NilColumn}) /\ Len(t) = Len(schema) - 1
  BY <1>1, <1>3, OthersType DEF Dropped
<1> HIDE DEF t
<1>6. S \cup {NilColumn} = S BY DEF S
<1>7. schema' \in Seq(Columns(nextId' - 1) \cup {NilColumn}) BY <1>2, <1>5, <1>6 DEF S
<1>8. \A r \in DOMAIN rows : Len(rows[r]) \in Nat BY DEF TypeOK
<1>9. LongRows' BY <1>2, <1>3, <1>5, <1>8 DEF LongRows
<1> QED BY <1>2, <1>4, <1>7, <1>9 DEF TypeOK

\* RENAME and MODIFY COLUMN keep types and long rows.
LEMMA ModifyTypes ==
  ASSUME TypeOK, LongRows, NEW n \in Names, NEW m \in Names, NEW o \in Orders,
         ~HasNil, IndexOf(n) # 0, nextId' = nextId,
         alters' \in 0..MaxAlters, done' \subseteq Statements,
         TableModifyColumn(n, Column(m, schema[IndexOf(n)].id), o)
  PROVE  TypeOK' /\ LongRows'
<1> DEFINE S == Columns(nextId - 1)
           col == Column(m, schema[IndexOf(n)].id)
           t == Dropped(schema, n)
<1>1. IndexOf(n) \in DOMAIN schema BY IndexOfType
<1>2. schema[IndexOf(n)].id \in 1..(nextId - 1) BY <1>1, NoHole
<1>3. col \in S /\ col.id \in Nat BY <1>2 DEF Column, Columns
<1>4. schema \in Seq(S \cup {NilColumn}) BY DEF TypeOK
<1>5. Len(schema) \in Nat /\ Len(schema) - 1 \in Nat BY <1>1 DEF TypeOK
<1> HIDE DEF S, col, t
<1>6. CASE n \notin NamesOf(schema)
  <2>1. panicked' = TRUE /\ schema' = schema /\ rows' = rows
    BY <1>6 DEF TableModifyColumn
  <2> QED BY <2>1 DEF TypeOK, LongRows
<1>7. CASE n \in NamesOf(schema)
  <2>1. TableAddColumn(t, col, OrderFor(n, o)) BY <1>7 DEF TableModifyColumn, t, col
  <2>2. OrderFor(n, o) \in Orders BY OrderForType
  <2> DEFINE U == S \cup {NilColumn}
  <2>3. schema \in Seq(U) /\ U \cup {NilColumn} = U BY <1>4
  <2> HIDE DEF U
  <2>4. t \in Seq(U \cup {NilColumn}) /\ Len(t) = Len(schema) - 1
    BY <1>5, <2>3, OthersType DEF Dropped, t
  <2>5. t \in Seq(S \cup {NilColumn}) BY <2>3, <2>4 DEF U
  <2>6. \A r \in DOMAIN rows : Len(rows[r]) \in Nat BY DEF TypeOK
  <2>7. \A r \in DOMAIN rows : Len(rows[r]) >= Len(t) BY <1>5, <2>4, <2>6 DEF LongRows
  <2>8. /\ schema' \in Seq(S \cup {NilColumn}) /\ rows' \in Seq(Seq(Nat))
        /\ panicked' \in BOOLEAN /\ LongRows'
    BY <1>3, <2>1, <2>2, <2>5, <2>7, AddedLongRows DEF TypeOK
  <2> QED BY <2>8 DEF TypeOK, S
<1> QED BY <1>6, <1>7

\* A row that is inserted has an id for every column.
LEMMA InsertRowTypes ==
  ASSUME TypeOK, LongRows, InsertRow
  PROVE  /\ TypeOK' /\ LongRows'
         /\ DOMAIN rows' = DOMAIN rows \cup {Len(rows) + 1} /\ rows'[Len(rows) + 1] = Ids(schema)
         /\ \A r \in DOMAIN rows : rows'[r] = rows[r]
<1> DEFINE row == Ids(schema)
           T == Seq(Nat)
           n == Len(rows)
<1>1. rows' = Append(rows, row) BY DEF InsertRow, Ids
<1>2. /\ schema' = schema /\ nextId' = nextId /\ panicked' = panicked /\ alters' = alters
      /\ done' = done
  BY DEF InsertRow
<1>3. DOMAIN schema = 1..Len(schema) /\ Len(schema) \in Nat BY DEF TypeOK
<1>4. \A k \in DOMAIN schema : schema[k].id \in Nat
  <2>1. ~HasNil BY DEF InsertRow
  <2> QED BY <2>1, NoHole DEF TypeOK
<1>5. row \in [1..Len(schema) -> Nat] BY <1>3, <1>4 DEF Ids
<1>6. row \in T /\ Len(row) = Len(schema) BY <1>3, <1>5, FunctionIsList
<1>7. rows \in Seq(T) /\ n \in Nat /\ DOMAIN rows = 1..n BY DEF TypeOK
<1>8. \A r \in 1..n : rows[r] \in T BY <1>7
<1> HIDE DEF row, T
<1>9. /\ rows' \in Seq(T) /\ DOMAIN rows' = 1..(n + 1) /\ rows'[n + 1] = row
      /\ \A r \in 1..n : rows'[r] = rows[r]
  BY <1>1, <1>6, <1>7
<1> HIDE DEF n
<1>10. 1..(n + 1) = (1..n) \cup {n + 1} BY <1>7
<1>11. \A r \in 1..n : Len(rows[r]) >= Len(schema) BY <1>7 DEF LongRows
<1>12. Len(row) >= Len(schema) BY <1>3, <1>6
<1>13. \A r \in DOMAIN rows' : Len(rows'[r]) >= Len(schema') BY <1>2, <1>9, <1>10, <1>11, <1>12
<1>14. TypeOK' BY <1>2, <1>9 DEF TypeOK, T
<1> QED BY <1>7, <1>9, <1>10, <1>13, <1>14 DEF LongRows, row, n

\* Every step keeps types and long rows.
LEMMA TypeStep == TypeOK /\ LongRows /\ [Next]_vars => TypeOK' /\ LongRows'
<1> SUFFICES ASSUME TypeOK, LongRows, [Next]_vars PROVE TypeOK' /\ LongRows'
  OBVIOUS
<1>1. ASSUME NEW n \in Names, NEW o \in Orders, AddColumn(n, o) PROVE TypeOK' /\ LongRows'
  BY <1>1, AddColumnTypes
<1>2. ASSUME NEW n \in Names, DropColumn(n) PROVE TypeOK' /\ LongRows'
  BY <1>2, DropColumnTypes
<1>3. ASSUME NEW n \in Names, NEW m \in Names, RenameColumn(n, m) PROVE TypeOK' /\ LongRows'
  <2>1. NoOrder \in Orders BY DEF Orders
  <2>2. alters' \in 0..MaxAlters /\ done' \subseteq Statements
    BY <1>3, StatementType DEF RenameColumn, Statements
  <2> QED BY <1>3, <2>1, <2>2, ModifyTypes DEF RenameColumn
<1>4. ASSUME NEW n \in Names, NEW m \in Names, NEW o \in Orders, ModifyColumn(n, m, o)
      PROVE  TypeOK' /\ LongRows'
  <2>2. alters' \in 0..MaxAlters /\ done' \subseteq Statements
    BY <1>4, StatementType DEF ModifyColumn, Statements
  <2> QED BY <1>4, <2>2, ModifyTypes DEF ModifyColumn
<1>5. CASE NilDereference
  <2>1. alters' \in 0..MaxAlters /\ done' \subseteq Statements
    BY <1>5, StatementType DEF NilDereference, Statements
  <2> QED BY <1>5, <2>1 DEF NilDereference, TypeOK, LongRows
<1>6. CASE InsertRow BY <1>6, InsertRowTypes
<1>7. CASE UNCHANGED vars BY <1>7 DEF vars, TypeOK, LongRows
<1> QED BY <1>1, <1>2, <1>3, <1>4, <1>5, <1>6, <1>7 DEF Next

\* A table starts with two columns and no rows.
LEMMA InitFacts == Init => TypeOK /\ LongRows /\ PlainSchema /\ RowsMatchSchema
<1> SUFFICES ASSUME Init PROVE TypeOK /\ LongRows /\ PlainSchema /\ RowsMatchSchema
  OBVIOUS
<1> DEFINE S == Columns(2)
<1>1. PICK n \in Names, m \in Names : schema = <<Column(n, 1), Column(m, 2)>> BY DEF Init
<1>2. Column(n, 1) \in S /\ Column(m, 2) \in S BY DEF Column, Columns
<1>3. /\ rows = <<>> /\ nextId = 3 /\ nextId - 1 = 2 /\ panicked = FALSE /\ alters = 0 /\ done = {}
      /\ DOMAIN rows = {}
  BY DEF Init
<1>4. DOMAIN schema = {1, 2} /\ Len(schema) = 2 BY <1>1
<1>5. schema[1] = Column(n, 1) /\ schema[2] = Column(m, 2) BY <1>1
<1>6. Lower[schema[1].name] # Lower[schema[2].name] /\ schema[1].id # schema[2].id
  BY <1>5 DEF Init, Column
<1>7. Distinct(schema) BY <1>4, <1>6 DEF Distinct
<1> HIDE DEF S
<1>8. schema \in Seq(S) /\ schema \in Seq(S \cup {NilColumn}) BY <1>1, <1>2
<1>9. schema # <<>> BY <1>4
<1>10. rows \in Seq(Seq(Nat))
  <2> DEFINE T == Seq(Nat)
  <2> HIDE DEF T
  <2>1. <<>> \in Seq(T) OBVIOUS
  <2> QED BY <1>3, <2>1 DEF T
<1>11. alters \in 0..MaxAlters /\ done \subseteq Statements BY <1>3, LowerAssumption
<1>12. schema \in Seq(Columns(nextId - 1)) /\ schema \in Seq(Columns(nextId - 1) \cup {NilColumn})
  BY <1>3, <1>8 DEF S
<1>15. nextId \in Nat \ {0} BY <1>3
<1>13. panicked \in BOOLEAN BY <1>3
<1>14. TypeOK BY <1>10, <1>11, <1>12, <1>13, <1>15 DEF TypeOK
<1> QED BY <1>3, <1>7, <1>9, <1>12, <1>14 DEF LongRows, PlainSchema, RowsMatchSchema

\* The schema, the rows and the bookkeeping keep their types, and no row is ever
\* shorter than the schema: DROP, RENAME and MODIFY COLUMN leave rows that are too
\* long, but none that a column's position could run past.
THEOREM TypeCorrect == Spec => [](TypeOK /\ LongRows)
BY InitFacts, TypeStep, PTL DEF Spec

-----------------------------------------------------------------------------
(* Schemas without columns that could be taken for each other *)

\* A schema without one of its columns.
LEMMA DistinctRemoved ==
  ASSUME NEW S, NEW sch \in Seq(S), NEW k \in DOMAIN sch, Distinct(sch)
  PROVE  LET t == RemoveAt(sch, k) IN
         /\ Distinct(t)
         /\ \A j \in DOMAIN t : /\ Lower[t[j].name] # Lower[sch[k].name] /\ t[j].id # sch[k].id
                                /\ \E i \in DOMAIN sch : t[j] = sch[i]
<1> DEFINE t == RemoveAt(sch, k)
           at(j) == IF j < k THEN j ELSE j + 1
<1>1. DOMAIN sch = 1..Len(sch) /\ Len(sch) \in Nat OBVIOUS
<1>2. DOMAIN t = 1..(Len(sch) - 1) /\ \A j \in DOMAIN t : t[j] = sch[at(j)]
  BY RemoveAtElements
<1> HIDE DEF t
<1>3. \A j \in DOMAIN t : at(j) \in DOMAIN sch /\ at(j) # k BY <1>1, <1>2
<1>4. \A i, j \in DOMAIN t : i # j => at(i) # at(j) BY <1>1, <1>2
<1> HIDE DEF at
<1>5. Distinct(t) BY <1>2, <1>3, <1>4 DEF Distinct
<1>6. \A j \in DOMAIN t : Lower[t[j].name] # Lower[sch[k].name] /\ t[j].id # sch[k].id
  BY <1>2, <1>3 DEF Distinct
<1> QED BY <1>2, <1>3, <1>5, <1>6 DEF t

\* A schema with a new column.
LEMMA DistinctInserted ==
  ASSUME NEW S, NEW sch \in Seq(S), NEW col \in S, NEW k \in 1..(Len(sch) + 1), Distinct(sch),
         \A j \in DOMAIN sch : Lower[sch[j].name] # Lower[col.name] /\ sch[j].id # col.id
  PROVE  Distinct(InsertAt(sch, k, col))
<1> DEFINE t == InsertAt(sch, k, col)
           at(j) == IF j < k THEN j ELSE j - 1
<1>1. DOMAIN sch = 1..Len(sch) /\ Len(sch) \in Nat OBVIOUS
<1>2. /\ DOMAIN t = 1..(Len(sch) + 1)
      /\ \A j \in DOMAIN t : t[j] = IF j < k THEN sch[j] ELSE IF j = k THEN col ELSE sch[j - 1]
  BY InsertAtElements
<1> HIDE DEF t
<1>3. t[k] = col BY <1>1, <1>2
<1>4. \A j \in DOMAIN t : j # k => t[j] = sch[at(j)] /\ at(j) \in DOMAIN sch BY <1>1, <1>2
<1>5. \A i, j \in DOMAIN t : i # j /\ i # k /\ j # k => at(i) # at(j) BY <1>1, <1>2
<1> HIDE DEF at
<1>6. ASSUME NEW i \in DOMAIN t, NEW j \in DOMAIN t, i # j
      PROVE  Lower[t[i].name] # Lower[t[j].name] /\ t[i].id # t[j].id
  <2>1. CASE i = k BY <1>3, <1>4, <1>6, <2>1
  <2>2. CASE j = k BY <1>3, <1>4, <1>6, <2>2
  <2>3. CASE i # k /\ j # k BY <1>4, <1>5, <1>6, <2>3 DEF Distinct
  <2> QED BY <2>1, <2>2, <2>3
<1>7. Distinct(t) BY <1>6 DEF Distinct
<1> QED BY <1>7 DEF t

\* Such a schema has one column of a name that it has.
LEMMA OneOfName ==
  ASSUME NEW S, NEW sch \in Seq(S), Distinct(sch), NEW k \in DOMAIN sch
  PROVE  \A j \in DOMAIN sch : \/ sch[j].name = sch[k].name \/ sch[j].id = sch[k].id
                               \/ Lower[sch[j].name] = Lower[sch[k].name]
                               => j = k
BY DEF Distinct

\* After plain statements every slot has a column.
LEMMA PlainFacts ==
  ASSUME TypeOK, PlainSchema, "odd" \notin done
  PROVE  /\ ~panicked /\ ~HasNil /\ Len(schema) \in Nat \ {0} /\ DOMAIN schema = 1..Len(schema)
         /\ schema \in Seq(Columns(nextId - 1)) /\ Distinct(schema)
         /\ \A k \in DOMAIN schema : schema[k].name \in Names /\ schema[k].id \in 1..(nextId - 1)
<1> DEFINE S == Columns(nextId - 1)
<1>1. ~panicked /\ schema # <<>> /\ schema \in Seq(S) /\ Distinct(schema) BY DEF PlainSchema
<1>2. NilColumn \notin S BY DEF NilColumn, Columns
<1>3. \A c \in S : c.name \in Names /\ c.id \in 1..(nextId - 1) BY DEF Columns
<1> HIDE DEF S
<1>4. \A k \in DOMAIN schema : schema[k] \in S BY <1>1
<1>5. ~HasNil BY <1>2, <1>4 DEF HasNil, Range
<1>6. Len(schema) \in Nat \ {0} /\ DOMAIN schema = 1..Len(schema) BY <1>1
<1> QED BY <1>1, <1>3, <1>4, <1>5, <1>6 DEF S

\* The first column of a name is the only one.
LEMMA FoundAt ==
  ASSUME TypeOK, PlainSchema, "odd" \notin done, NEW n, Spelt(n)
  PROVE  LET k == IndexOf(n) IN
         /\ k \in DOMAIN schema /\ schema[k].name = n
         /\ SelectInSeq(schema, LAMBDA c : c.name = n) = k
         /\ Dropped(schema, n) = RemoveAt(schema, k)
<1> DEFINE S == Columns(nextId - 1)
<1>1. schema \in Seq(S) /\ Distinct(schema) /\ DOMAIN schema = 1..Len(schema) /\ Len(schema) \in Nat
  BY PlainFacts
<1> HIDE DEF S
<1>2. PICK k \in DOMAIN schema : schema[k].name = n BY DEF Spelt, NamesOf
<1>3. \A j \in DOMAIN schema : \/ schema[j].name = schema[k].name
                               \/ Lower[schema[j].name] = Lower[schema[k].name]
                               => j = k
  BY <1>1, OneOfName
<1>4. k \in Int BY <1>1
<1>5. {i \in 1..Len(schema) : Lower[schema[i].name] = Lower[n]} = {k} BY <1>1, <1>2, <1>3
<1>6. {i \in 1..Len(schema) : schema[i].name = n} = {k} BY <1>1, <1>2, <1>3
<1>7. Min({k}) = k BY <1>4, MinSingleton
<1>8. IndexOf(n) = k BY <1>5, <1>7 DEF IndexOf, SelectInSeq
<1>9. SelectInSeq(schema, LAMBDA c : c.name = n) = k BY <1>6, <1>7 DEF SelectInSeq
<1>10. Dropped(schema, n) = RemoveAt(schema, k) BY <1>1, <1>2, <1>3, DroppedOne
<1> QED BY <1>2, <1>8, <1>9, <1>10

-----------------------------------------------------------------------------
(* What plain statements do *)

\* A column that has one place goes there.
LEMMA OnePlace ==
  ASSUME NEW sch, NEW col, NEW o, NEW k, Places(sch, o) = {k}, TableAddColumn(sch, col, o)
  PROVE  /\ schema' = InsertAt(sch, k + 1, col) /\ rows' = InsertValueInRows(k, col.id)
         /\ panicked' = panicked
<1> DEFINE at == Places(sch, o)
<1>1. at = {k} /\ at # {} /\ ~(\E i, j \in at : i # j) OBVIOUS
<1>2. PICK j \in at : /\ schema' = InsertAt(sch, j + 1, col)
                      /\ rows' = InsertValueInRows(j, col.id) /\ UNCHANGED panicked
  BY <1>1 DEF TableAddColumn
<1> QED BY <1>1, <1>2

\* The one place after a column.
LEMMA PlaceAfter ==
  ASSUME NEW S, NEW sch \in Seq(S), Distinct(sch), NEW k \in DOMAIN sch, NEW o,
         o.kind = "after", o.column = sch[k].name
  PROVE  Places(sch, o) = {k}
<1>1. \A j \in DOMAIN sch : sch[j].name = sch[k].name => j = k BY OneOfName
<1> QED BY <1>1 DEF Places

\* No later statement takes away that one was odd.
LEMMA PlainStatement ==
  ASSUME NEW op, NEW plain \in BOOLEAN, Statement(op, plain), "odd" \notin done'
  PROVE  plain /\ "odd" \notin done /\ done' = done \cup {op}
<1>1. done' = done \cup {op} \cup (IF plain THEN {} ELSE {"odd"}) BY DEF Statement
<1>2. plain BY <1>1
<1> QED BY <1>1, <1>2

\* ADD COLUMN.
LEMMA PlainAdd ==
  ASSUME TypeOK, PlainSchema, NEW n \in Names, NEW o \in Orders, AddColumn(n, o),
         "odd" \notin done'
  PROVE  /\ "odd" \notin done /\ Fresh(n) /\ panicked' = panicked /\ nextId' = nextId + 1
         /\ \E k \in 0..Len(schema) :
              /\ schema' = InsertAt(schema, k + 1, Column(n, nextId))
              /\ rows' = InsertValueInRows(k, nextId)
              /\ o.kind = "first" => k = 0
              /\ o.kind = "after" => k # 0 /\ schema[k].name = o.column
<1>1. "odd" \notin done /\ Fresh(n) /\ SpeltOrder(o)
  <2> DEFINE plain == ~HasNil /\ SpeltOrder(o) /\ Fresh(n)
  <2>1. Statement("add", plain) /\ plain \in BOOLEAN BY DEF AddColumn
  <2> HIDE DEF plain
  <2>2. plain /\ "odd" \notin done BY <2>1, PlainStatement
  <2> QED BY <2>2 DEF plain
<1> DEFINE S == Columns(nextId - 1)
           col == Column(n, nextId)
<1>2. /\ schema \in Seq(S) /\ Distinct(schema) /\ DOMAIN schema = 1..Len(schema)
      /\ Len(schema) \in Nat \ {0}
  BY <1>1, PlainFacts
<1>3. TableAddColumn(schema, col, o) /\ nextId' = nextId + 1 BY DEF AddColumn
<1>4. col.id = nextId BY DEF Column
<1> HIDE DEF S, col
<1>5. \E k \in 0..Len(schema) :
        /\ Places(schema, o) = {k}
        /\ o.kind = "first" => k = 0
        /\ o.kind = "after" => k # 0 /\ schema[k].name = o.column
  <2>1. o.kind \in {"nil", "first", "after"} BY OrderKinds
  <2>2. CASE o.kind = "nil"
    <3>1. Places(schema, o) = {Len(schema)} BY <1>2, <2>2 DEF Places
    <3> QED BY <1>2, <2>2, <3>1
  <2>3. CASE o.kind = "first"
    <3>1. Places(schema, o) = {0} BY <2>3 DEF Places
    <3> QED BY <1>2, <2>3, <3>1
  <2>4. CASE o.kind = "after"
    <3>1. PICK k \in DOMAIN schema : schema[k].name = o.column
      BY <1>1, <2>4 DEF SpeltOrder, Spelt, NamesOf
    <3>2. Places(schema, o) = {k} BY <1>2, <2>4, <3>1, PlaceAfter
    <3>3. k \in 0..Len(schema) /\ k # 0 BY <1>2
    <3> QED BY <2>4, <3>1, <3>2, <3>3
  <2> QED BY <2>1, <2>2, <2>3, <2>4
<1>6. PICK k \in 0..Len(schema) :
        /\ Places(schema, o) = {k}
        /\ o.kind = "first" => k = 0
        /\ o.kind = "after" => k # 0 /\ schema[k].name = o.column
  BY <1>5
<1>7. /\ schema' = InsertAt(schema, k + 1, col) /\ rows' = InsertValueInRows(k, col.id)
      /\ panicked' = panicked
  BY <1>3, <1>6, OnePlace
<1> QED BY <1>1, <1>3, <1>4, <1>6, <1>7 DEF col

\* DROP COLUMN.
LEMMA PlainDrop ==
  ASSUME TypeOK, PlainSchema, NEW n \in Names, DropColumn(n), "odd" \notin done'
  PROVE  /\ "odd" \notin done /\ panicked' = panicked /\ nextId' = nextId /\ Len(schema) > 1
         /\ \E k \in DOMAIN schema : schema' = RemoveAt(schema, k)
<1> DEFINE plain == Len(schema) > 1
<1>1. Statement("drop", plain) /\ plain \in BOOLEAN BY DEF DropColumn
<1> HIDE DEF plain
<1>2. plain /\ "odd" \notin done BY <1>1, PlainStatement
<1>3. Spelt(n) BY DEF DropColumn, Spelt
<1>4. IndexOf(n) \in DOMAIN schema /\ Dropped(schema, n) = RemoveAt(schema, IndexOf(n))
  BY <1>2, <1>3, FoundAt
<1> QED BY <1>2, <1>4 DEF DropColumn, plain

\* RENAME and MODIFY COLUMN take a column out and put it back.
LEMMA PlainMove ==
  ASSUME TypeOK, PlainSchema, "odd" \notin done, NEW n \in Names, NEW m \in Names, NEW o \in Orders,
         Spelt(n), SpeltOrder(o), o.kind = "after" => o.column # n,
         TableModifyColumn(n, Column(m, schema[IndexOf(n)].id), o)
  PROVE  LET k == IndexOf(n) IN
         /\ k \in DOMAIN schema /\ schema[k].name = n /\ panicked' = panicked
         /\ \E j \in 0..(Len(schema) - 1) :
              /\ schema' = InsertAt(RemoveAt(schema, k), j + 1, Column(m, schema[k].id))
              /\ o.kind = "nil" => j = k - 1
              /\ o.kind = "first" => j = 0
              /\ o.kind = "after" => j # 0 /\ RemoveAt(schema, k)[j].name = o.column
<1> DEFINE S == Columns(nextId - 1)
           k == IndexOf(n)
           t == RemoveAt(schema, k)
           ord == OrderFor(n, o)
           col == Column(m, schema[k].id)
           at(i) == IF i < k THEN i ELSE i - 1
<1>1. /\ schema \in Seq(S) /\ Distinct(schema) /\ DOMAIN schema = 1..Len(schema)
      /\ Len(schema) \in Nat \ {0}
  BY PlainFacts
<1>2. /\ k \in DOMAIN schema /\ schema[k].name = n
      /\ SelectInSeq(schema, LAMBDA c : c.name = n) = k /\ Dropped(schema, n) = t
  BY FoundAt
<1>3. TableAddColumn(t, col, ord) BY <1>2 DEF TableModifyColumn, Spelt
<1>4. \/ o.kind # "nil" /\ ord = o
      \/ o.kind = "nil" /\ k <= 1 /\ ord = [kind |-> "first", column |-> "none"]
      \/ /\ o.kind = "nil" /\ ~(k <= 1)
         /\ ord = [kind |-> "after", column |-> schema[k - 1].name]
  BY <1>2 DEF OrderFor
<1> HIDE DEF S, k, col, ord
<1>5. /\ t \in Seq(S) /\ DOMAIN t = 1..(Len(schema) - 1)
      /\ \A j \in DOMAIN t : t[j] = schema[IF j < k THEN j ELSE j + 1]
  BY <1>1, <1>2, RemoveAtElements
<1>6. Distinct(t) BY <1>1, <1>2, DistinctRemoved
<1> HIDE DEF t
<1>7. ASSUME NEW i \in DOMAIN schema, i # k
      PROVE  at(i) \in DOMAIN t /\ at(i) # 0 /\ t[at(i)] = schema[i]
  <2>1. at(i) \in DOMAIN t /\ at(i) # 0 BY <1>1, <1>2, <1>5, <1>7
  <2>2. (IF at(i) < k THEN at(i) ELSE at(i) + 1) = i BY <1>1, <1>2, <1>7
  <2> QED BY <1>5, <2>1, <2>2
<1>8. ASSUME NEW i \in DOMAIN schema, i # k, ord.kind = "after", ord.column = schema[i].name
      PROVE  Places(t, ord) = {at(i)} /\ at(i) \in 0..(Len(schema) - 1)
  <2>1. at(i) \in DOMAIN t /\ t[at(i)] = schema[i] BY <1>7, <1>8
  <2> HIDE DEF at
  <2>2. Places(t, ord) = {at(i)} BY <1>5, <1>6, <1>8, <2>1, PlaceAfter
  <2> QED BY <1>1, <1>5, <2>1, <2>2
<1>9. \E j \in 0..(Len(schema) - 1) :
        /\ Places(t, ord) = {j}
        /\ o.kind = "nil" => j = k - 1
        /\ o.kind = "first" => j = 0
        /\ o.kind = "after" => j # 0 /\ t[j].name = o.column
  <2>1. CASE o.kind = "nil" /\ k <= 1
    <3>1. k = 1 /\ 0 \in 0..(Len(schema) - 1) BY <1>1, <1>2, <2>1
    <3>2. ord.kind = "first" BY <1>4, <2>1
    <3>3. Places(t, ord) = {0} BY <3>2 DEF Places
    <3> QED BY <2>1, <3>1, <3>3
  <2>2. CASE o.kind = "nil" /\ ~(k <= 1)
    <3>1. k - 1 \in DOMAIN schema /\ k - 1 # k /\ at(k - 1) = k - 1 BY <1>1, <1>2, <2>2
    <3>2. ord.kind = "after" /\ ord.column = schema[k - 1].name BY <1>4, <2>2
    <3>3. Places(t, ord) = {at(k - 1)} /\ at(k - 1) \in 0..(Len(schema) - 1)
      BY <1>8, <3>1, <3>2
    <3> QED BY <2>2, <3>1, <3>3
  <2>3. CASE o.kind = "first"
    <3>1. 0 \in 0..(Len(schema) - 1) BY <1>1
    <3>2. ord = o BY <1>4, <2>3
    <3>3. Places(t, ord) = {0} BY <2>3, <3>2 DEF Places
    <3> QED BY <2>3, <3>1, <3>3
  <2>4. CASE o.kind = "after"
    <3>1. PICK i \in DOMAIN schema : schema[i].name = o.column
      BY <2>4 DEF SpeltOrder, Spelt, NamesOf
    <3>2. i # k BY <1>2, <2>4, <3>1
    <3>3. ord = o BY <1>4, <2>4
    <3>4. Places(t, ord) = {at(i)} /\ at(i) \in 0..(Len(schema) - 1)
      BY <1>8, <2>4, <3>1, <3>2, <3>3
    <3>5. at(i) # 0 /\ t[at(i)] = schema[i] BY <1>7, <3>2
    <3> QED BY <2>4, <3>1, <3>4, <3>5
  <2>5. o.kind \in {"nil", "first", "after"} BY OrderKinds
  <2> QED BY <2>1, <2>2, <2>3, <2>4, <2>5
<1>10. PICK j \in 0..(Len(schema) - 1) :
        /\ Places(t, ord) = {j}
        /\ o.kind = "nil" => j = k - 1
        /\ o.kind = "first" => j = 0
        /\ o.kind = "after" => j # 0 /\ t[j].name = o.column
  BY <1>9
<1>11. schema' = InsertAt(t, j + 1, col) /\ panicked' = panicked BY <1>3, <1>10, OnePlace
<1> QED BY <1>2, <1>10, <1>11 DEF t, col, k

-----------------------------------------------------------------------------
(* The schema stays intact *)

\* ADD COLUMN.
LEMMA PlainSchemaAdd ==
  ASSUME TypeOK, PlainSchema, NEW n \in Names, NEW o \in Orders, AddColumn(n, o),
         "odd" \notin done'
  PROVE  /\ ~panicked' /\ schema' # <<>>
         /\ schema' \in Seq(Columns(nextId' - 1)) /\ Distinct(schema')
<1> DEFINE S == Columns(nextId)
           col == Column(n, nextId)
<1>1. "odd" \notin done /\ Fresh(n) /\ panicked' = panicked /\ nextId' = nextId + 1 BY PlainAdd
<1>2. PICK k \in 0..Len(schema) : schema' = InsertAt(schema, k + 1, col) BY PlainAdd
<1>3. /\ ~panicked /\ schema \in Seq(Columns(nextId - 1)) /\ Distinct(schema)
      /\ Len(schema) \in Nat
      /\ \A j \in DOMAIN schema : schema[j].name \in Names /\ schema[j].id \in 1..(nextId - 1)
  BY <1>1, PlainFacts
<1>4. nextId \in Nat \ {0} /\ nextId' - 1 = nextId BY <1>1 DEF TypeOK
<1>5. col \in S /\ col.name = n /\ col.id = nextId BY <1>4 DEF Column, Columns
<1>6. Columns(nextId - 1) \subseteq S BY <1>4 DEF Columns
<1>7. \A j \in DOMAIN schema : Lower[schema[j].name] # Lower[col.name] /\ schema[j].id # col.id
  BY <1>1, <1>3, <1>4, <1>5 DEF Fresh, NamesOf
<1> HIDE DEF S, col
<1>8. schema \in Seq(S) BY <1>3, <1>6
<1>9. k + 1 \in 1..(Len(schema) + 1) BY <1>3
<1>10. Distinct(schema') BY <1>2, <1>3, <1>5, <1>7, <1>8, <1>9, DistinctInserted
<1>11. schema' \in Seq(S) /\ Len(schema') = Len(schema) + 1
  BY <1>2, <1>5, <1>8, <1>9, InsertAtElements
<1>12. schema' # <<>> BY <1>3, <1>11
<1> QED BY <1>1, <1>3, <1>4, <1>10, <1>11, <1>12 DEF S

\* DROP COLUMN.
LEMMA PlainSchemaDrop ==
  ASSUME TypeOK, PlainSchema, NEW n \in Names, DropColumn(n), "odd" \notin done'
  PROVE  /\ ~panicked' /\ schema' # <<>>
         /\ schema' \in Seq(Columns(nextId' - 1)) /\ Distinct(schema')
<1> DEFINE S == Columns(nextId - 1)
<1>1. "odd" \notin done /\ panicked' = panicked /\ nextId' = nextId /\ Len(schema) > 1
  BY PlainDrop
<1>2. PICK k \in DOMAIN schema : schema' = RemoveAt(schema, k) BY PlainDrop
<1>3. ~panicked /\ schema \in Seq(S) /\ Distinct(schema) /\ Len(schema) \in Nat
  BY <1>1, PlainFacts
<1> HIDE DEF S
<1>4. schema' \in Seq(S) /\ DOMAIN schema' = 1..(Len(schema) - 1)
  BY <1>2, <1>3, RemoveAtElements
<1>5. Distinct(schema') BY <1>2, <1>3, DistinctRemoved
<1>6. 1 \in DOMAIN schema' BY <1>1, <1>3, <1>4
<1>7. schema' # <<>> BY <1>6
<1> QED BY <1>1, <1>3, <1>4, <1>5, <1>7 DEF S

\* RENAME and MODIFY COLUMN.
LEMMA PlainSchemaMove ==
  ASSUME TypeOK, PlainSchema, "odd" \notin done, NEW n \in Names, NEW m \in Names, NEW o \in Orders,
         Spelt(n), SpeltOrder(o), o.kind = "after" => o.column # n, m = n \/ Fresh(m),
         nextId' = nextId, TableModifyColumn(n, Column(m, schema[IndexOf(n)].id), o)
  PROVE  /\ ~panicked' /\ schema' # <<>>
         /\ schema' \in Seq(Columns(nextId' - 1)) /\ Distinct(schema')
<1> DEFINE S == Columns(nextId - 1)
           k == IndexOf(n)
           col == Column(m, schema[k].id)
           t == RemoveAt(schema, k)
<1>1. k \in DOMAIN schema /\ schema[k].name = n /\ panicked' = panicked BY PlainMove
<1>2. PICK j \in 0..(Len(schema) - 1) : schema' = InsertAt(t, j + 1, col) BY PlainMove
<1>3. /\ ~panicked /\ schema \in Seq(S) /\ Distinct(schema) /\ Len(schema) \in Nat \ {0}
      /\ schema[k].id \in 1..(nextId - 1)
  BY <1>1, PlainFacts
<1>4. col \in S /\ col.name = m /\ col.id = schema[k].id BY <1>3 DEF Column, Columns
<1> HIDE DEF S, col, k
<1>5. t \in Seq(S) /\ DOMAIN t = 1..(Len(schema) - 1) BY <1>1, <1>3, RemoveAtElements
<1>6. Distinct(t) /\ \A i \in DOMAIN t : /\ Lower[t[i].name] # Lower[schema[k].name]
                                         /\ t[i].id # schema[k].id
                                         /\ \E l \in DOMAIN schema : t[i] = schema[l]
  BY <1>1, <1>3, DistinctRemoved
<1> HIDE DEF t
<1>7. \A i \in DOMAIN t : Lower[t[i].name] # Lower[col.name] /\ t[i].id # col.id
  BY <1>1, <1>4, <1>6 DEF Fresh, NamesOf
<1>8. Len(t) = Len(schema) - 1 BY <1>3, <1>5
<1>9. j + 1 \in 1..(Len(t) + 1) BY <1>3, <1>8
<1>10. Distinct(schema') BY <1>2, <1>4, <1>5, <1>6, <1>7, <1>9, DistinctInserted
<1>11. schema' \in Seq(S) /\ Len(schema') = Len(t) + 1
  BY <1>2, <1>4, <1>5, <1>9, InsertAtElements
<1>12. schema' # <<>> BY <1>3, <1>8, <1>11
<1> QED BY <1>1, <1>3, <1>10, <1>11, <1>12 DEF S

\* What a plain RENAME COLUMN may say.
LEMMA PlainRename ==
  ASSUME NEW n \in Names, NEW m \in Names, RenameColumn(n, m), "odd" \notin done'
  PROVE  "odd" \notin done /\ Spelt(n) /\ Fresh(m)
<1> DEFINE plain == Spelt(n) /\ Fresh(m)
<1>1. Statement("rename", plain) /\ plain \in BOOLEAN BY DEF RenameColumn
<1> HIDE DEF plain
<1>2. plain /\ "odd" \notin done BY <1>1, PlainStatement
<1> QED BY <1>2 DEF plain

\* What a plain MODIFY COLUMN may say.
LEMMA PlainModify ==
  ASSUME NEW n \in Names, NEW m \in Names, NEW o \in Orders, ModifyColumn(n, m, o),
         "odd" \notin done'
  PROVE  /\ "odd" \notin done /\ Spelt(n) /\ SpeltOrder(o) /\ o.column # n
         /\ m = n \/ Fresh(m)
<1> DEFINE plain == /\ Spelt(n) /\ SpeltOrder(o)
                    /\ o.column # n
                    /\ m = n \/ Fresh(m)
<1>1. Statement("modify", plain) /\ plain \in BOOLEAN BY DEF ModifyColumn
<1> HIDE DEF plain
<1>2. plain /\ "odd" \notin done BY <1>1, PlainStatement
<1> QED BY <1>2 DEF plain

\* A step that leaves the schema alone.
LEMMA PlainSchemaSame ==
  ASSUME PlainSchema, UNCHANGED <<schema, nextId, panicked, done>>
  PROVE  PlainSchema'
BY DEF PlainSchema, Distinct

\* Plain statements keep the schema free of holes and of columns that could be taken
\* for each other.
LEMMA PlainSchemaStep == TypeOK /\ PlainSchema /\ [Next]_vars => PlainSchema'
<1> SUFFICES ASSUME TypeOK, PlainSchema, [Next]_vars PROVE PlainSchema'
  OBVIOUS
<1> DEFINE Goal == /\ ~panicked' /\ schema' # <<>>
                   /\ schema' \in Seq(Columns(nextId' - 1)) /\ Distinct(schema')
<1>0. PlainSchema' <=> ("odd" \notin done' => Goal) BY DEF PlainSchema, Distinct
<1>1. ASSUME NEW n \in Names, NEW o \in Orders, AddColumn(n, o), "odd" \notin done' PROVE Goal
  BY <1>1, PlainSchemaAdd
<1>2. ASSUME NEW n \in Names, DropColumn(n), "odd" \notin done' PROVE Goal
  BY <1>2, PlainSchemaDrop
<1>3. ASSUME NEW n \in Names, NEW m \in Names, RenameColumn(n, m), "odd" \notin done' PROVE Goal
  <2>1. "odd" \notin done /\ Spelt(n) /\ Fresh(m) BY <1>3, PlainRename
  <2>2. NoOrder \in Orders /\ NoOrder.kind = "nil" BY DEF Orders, NoOrder
  <2>3. SpeltOrder(NoOrder) BY <2>2 DEF SpeltOrder
  <2>4. nextId' = nextId /\ TableModifyColumn(n, Column(m, schema[IndexOf(n)].id), NoOrder)
    BY <1>3 DEF RenameColumn
  <2> QED BY <2>1, <2>2, <2>3, <2>4, PlainSchemaMove
<1>4. ASSUME NEW n \in Names, NEW m \in Names, NEW o \in Orders, ModifyColumn(n, m, o),
             "odd" \notin done'
      PROVE  Goal
  <2>1. /\ "odd" \notin done /\ Spelt(n) /\ SpeltOrder(o) /\ o.column # n
        /\ m = n \/ Fresh(m)
    BY <1>4, PlainModify
  <2>2. nextId' = nextId /\ TableModifyColumn(n, Column(m, schema[IndexOf(n)].id), o)
    BY <1>4 DEF ModifyColumn
  <2> QED BY <2>1, <2>2, PlainSchemaMove
<1> HIDE DEF Goal
<1>5. CASE NilDereference
  <2>1. "odd" \in done' BY <1>5 DEF NilDereference, Statement
  <2> QED BY <1>0, <2>1
<1>6. CASE InsertRow BY <1>6, PlainSchemaSame DEF InsertRow
<1>7. CASE UNCHANGED vars BY <1>7, PlainSchemaSame DEF vars
<1> QED BY <1>0, <1>1, <1>2, <1>3, <1>4, <1>5, <1>6, <1>7 DEF Next

\* What the runs check follows.
LEMMA PlainIsIntact == TypeOK /\ PlainSchema => SchemaIntact
<1> SUFFICES ASSUME TypeOK, PlainSchema, "odd" \notin done
             PROVE  /\ ~panicked /\ ~HasNil
                    /\ \A j, k \in DOMAIN schema :
                         Lower[schema[j].name] = Lower[schema[k].name] => j = k
  BY DEF SchemaIntact
<1> QED BY PlainFacts DEF Distinct

\* Statements that spell the columns they refer to as the schema does, give new
\* columns new names and do not place a column after itself never leave a hole or two
\* columns of one name in the schema, and never panic.
THEOREM SchemaStaysIntact == Spec => []SchemaIntact
<1>1. Init => TypeOK /\ LongRows /\ PlainSchema BY InitFacts
<1>2. TypeOK /\ LongRows /\ PlainSchema /\ [Next]_vars => (TypeOK /\ LongRows /\ PlainSchema)'
  BY TypeStep, PlainSchemaStep
<1> QED BY <1>1, <1>2, PlainIsIntact, PTL DEF Spec

-----------------------------------------------------------------------------
(* Rows and schema change together *)

\* The ids of a schema with one more column.
LEMMA IdsInserted ==
  ASSUME NEW S, NEW sch \in Seq(S), NEW col \in S, NEW k \in 1..(Len(sch) + 1),
         \A c \in S : c.id \in Nat
  PROVE  Ids(InsertAt(sch, k, col)) = InsertAt(Ids(sch), k, col.id)
<1> DEFINE t == InsertAt(sch, k, col)
           s == Ids(sch)
           e == col.id
           u == InsertAt(s, k, e)
<1>1. DOMAIN sch = 1..Len(sch) /\ Len(sch) \in Nat OBVIOUS
<1>2. \A i \in DOMAIN sch : sch[i].id \in Nat OBVIOUS
<1>3. s \in [1..Len(sch) -> Nat] /\ \A i \in 1..Len(sch) : s[i] = sch[i].id BY <1>1, <1>2 DEF Ids
<1>4. s \in Seq(Nat) /\ Len(s) = Len(sch) BY <1>1, <1>3, FunctionIsList
<1>e. e \in Nat /\ k \in 1..(Len(s) + 1) BY <1>4
<1>5. /\ t \in Seq(S) /\ DOMAIN t = 1..(Len(sch) + 1) /\ Len(t) = Len(sch) + 1
      /\ \A j \in DOMAIN t : t[j] = IF j < k THEN sch[j] ELSE IF j = k THEN col ELSE sch[j - 1]
  BY InsertAtElements
<1> HIDE DEF s, t, e
<1>u. /\ u \in Seq(Nat) /\ DOMAIN u = 1..(Len(s) + 1)
      /\ \A j \in DOMAIN u : u[j] = IF j < k THEN s[j] ELSE IF j = k THEN e ELSE s[j - 1]
  <2> DEFINE N == Nat
  <2>1. s \in Seq(N) /\ e \in N /\ k \in 1..(Len(s) + 1) BY <1>4, <1>e
  <2> HIDE DEF N
  <2>2. /\ u \in Seq(N) /\ DOMAIN u = 1..(Len(s) + 1)
        /\ \A j \in DOMAIN u : u[j] = IF j < k THEN s[j] ELSE IF j = k THEN e ELSE s[j - 1]
    BY ONLY <2>1, InsertAtElements
  <2> QED BY <2>2 DEF N
<1>6. /\ u \in Seq(Nat) /\ DOMAIN u = 1..(Len(sch) + 1)
      /\ \A j \in DOMAIN u : u[j] = IF j < k THEN s[j] ELSE IF j = k THEN e ELSE s[j - 1]
  BY <1>4, <1>u
<1> HIDE DEF u
<1>7. ASSUME NEW j \in 1..(Len(sch) + 1) PROVE u[j] = t[j].id
  <2>1. CASE j < k
    <3>1. j \in 1..Len(sch) BY <1>1, <2>1
    <3> QED BY <1>3, <1>5, <1>6, <2>1, <3>1
  <2>2. CASE j = k
    <3>1. ~(j < k) BY <1>1, <2>2
    <3> QED BY <1>5, <1>6, <2>2, <3>1 DEF e
  <2>3. CASE j > k
    <3>1. j - 1 \in 1..Len(sch) /\ ~(j < k) /\ j # k BY <1>1, <2>3
    <3> QED BY <1>3, <1>5, <1>6, <3>1
  <2>4. j < k \/ j = k \/ j > k BY <1>1
  <2> QED BY <2>1, <2>2, <2>3, <2>4
<1>8. u = [j \in 1..(Len(sch) + 1) |-> u[j]] BY <1>6
<1>9. Ids(t) = [j \in 1..(Len(sch) + 1) |-> t[j].id] BY <1>5 DEF Ids
<1>10. Ids(t) = u BY <1>7, <1>8, <1>9
<1> QED BY <1>10 DEF t, u, s, e

\* ADD COLUMN changes the rows as it changes the schema.
LEMMA RowsMatchAdd ==
  ASSUME TypeOK, LongRows, PlainSchema, RowsMatchSchema,
         NEW n \in Names, NEW o \in Orders, AddColumn(n, o), done' \subseteq {"add"}
  PROVE  \A r \in DOMAIN rows' : rows'[r] = Ids(schema')
<1> DEFINE S == Columns(nextId)
           col == Column(n, nextId)
<1>1. "odd" \notin done' OBVIOUS
<1>2. "odd" \notin done BY <1>1, PlainAdd
<1>3. PICK k \in 0..Len(schema) : /\ schema' = InsertAt(schema, k + 1, col)
                                  /\ rows' = InsertValueInRows(k, nextId)
  BY <1>1, PlainAdd
<1>4. schema \in Seq(Columns(nextId - 1)) /\ Len(schema) \in Nat BY <1>2, PlainFacts
<1>5. nextId \in Nat \ {0} /\ rows \in Seq(Seq(Nat)) BY DEF TypeOK
<1>6. col \in S /\ col.id = nextId /\ \A c \in S : c.id \in Nat BY <1>5 DEF Column, Columns
<1>7. Columns(nextId - 1) \subseteq S BY <1>5 DEF Columns
<1>8. done \subseteq {"add"} BY DEF AddColumn, Statement
<1>9. \A r \in DOMAIN rows : rows[r] = Ids(schema) BY <1>8 DEF RowsMatchSchema, Ids
<1> HIDE DEF S, col
<1>10. schema \in Seq(S) BY <1>4, <1>7
<1>11. k \in Nat /\ k + 1 \in 1..(Len(schema) + 1) BY <1>4
<1>12. Ids(schema') = InsertAt(Ids(schema), k + 1, nextId)
  BY <1>3, <1>6, <1>10, <1>11, IdsInserted
<1>13. \A r \in DOMAIN rows : Len(rows[r]) \in Nat BY <1>5
<1>14. \A r \in DOMAIN rows : k <= Len(rows[r]) BY <1>4, <1>13 DEF LongRows
<1>15. /\ DOMAIN rows' = DOMAIN rows
       /\ \A r \in DOMAIN rows : rows'[r] = InsertAt(rows[r], k + 1, nextId)
  BY <1>3, <1>5, <1>11, <1>14, RowsInserted
<1> QED BY <1>9, <1>12, <1>15

\* Every step keeps the rows in step with the schema.
LEMMA RowsMatchStep ==
  TypeOK /\ LongRows /\ PlainSchema /\ RowsMatchSchema /\ [Next]_vars => RowsMatchSchema'
<1> SUFFICES ASSUME TypeOK, LongRows, PlainSchema, RowsMatchSchema, [Next]_vars
             PROVE  RowsMatchSchema'
  OBVIOUS
<1> DEFINE Goal == \A r \in DOMAIN rows' : rows'[r] = Ids(schema')
<1>1. LongRows' BY TypeStep
<1>2. LongRows' /\ (done' \subseteq {"add"} => Goal) => RowsMatchSchema'
  BY DEF LongRows, RowsMatchSchema, Ids
<1>3. ASSUME NEW n \in Names, NEW o \in Orders, AddColumn(n, o), done' \subseteq {"add"} PROVE Goal
  BY <1>3, RowsMatchAdd
<1>4. CASE InsertRow
  <2>1. /\ DOMAIN rows' = DOMAIN rows \cup {Len(rows) + 1} /\ rows'[Len(rows) + 1] = Ids(schema)
        /\ \A r \in DOMAIN rows : rows'[r] = rows[r]
    BY <1>4, InsertRowTypes
  <2>2. schema' = schema /\ done' = done BY <1>4 DEF InsertRow
  <2>3. done \subseteq {"add"} => \A r \in DOMAIN rows : rows[r] = Ids(schema)
    BY DEF RowsMatchSchema, Ids
  <2>4. done' \subseteq {"add"} => Goal BY <2>1, <2>2, <2>3
  <2> QED BY <1>1, <1>2, <2>4
<1> HIDE DEF Goal
<1>5. ASSUME NEW op \in Statements, NEW plain, Statement(op, plain), op # "add"
      PROVE  ~(done' \subseteq {"add"})
  BY <1>5 DEF Statement
<1>6. ASSUME NEW n \in Names, DropColumn(n) PROVE ~(done' \subseteq {"add"})
  BY <1>5, <1>6 DEF DropColumn, Statements
<1>7. ASSUME NEW n \in Names, NEW m \in Names, RenameColumn(n, m) PROVE ~(done' \subseteq {"add"})
  BY <1>5, <1>7 DEF RenameColumn, Statements
<1>8. ASSUME NEW n \in Names, NEW m \in Names, NEW o \in Orders, ModifyColumn(n, m, o)
      PROVE  ~(done' \subseteq {"add"})
  BY <1>5, <1>8 DEF ModifyColumn, Statements
<1>9. CASE NilDereference
  <2>1. ~(done' \subseteq {"add"}) BY <1>5, <1>9 DEF NilDereference, Statements
  <2> QED BY <1>1, <1>2, <2>1
<1>10. CASE UNCHANGED vars BY <1>10 DEF vars, RowsMatchSchema
<1> QED BY <1>1, <1>2, <1>3, <1>4, <1>6, <1>7, <1>8, <1>9, <1>10 DEF Next

\* Whatever is altered, no stored row is shorter than the schema, and as long as
\* columns have only been added a row has its values where the schema has the columns.
THEOREM RowsMatch == Spec => []RowsMatchSchema
<1> DEFINE Inv == TypeOK /\ LongRows /\ PlainSchema /\ RowsMatchSchema
<1>1. Init => Inv BY InitFacts
<1>2. Inv /\ [Next]_vars => Inv' BY TypeStep, PlainSchemaStep, RowsMatchStep
<1>3. Inv => RowsMatchSchema OBVIOUS
<1> QED BY <1>1, <1>2, <1>3, PTL DEF Spec

-----------------------------------------------------------------------------
(* Columns keep their places *)

\* A column that is put back where it was.
LEMMA MovedInPlace ==
  ASSUME NEW S, NEW sch \in Seq(S), NEW k \in DOMAIN sch, NEW col \in S, col.id = sch[k].id
  PROVE  Ids(InsertAt(RemoveAt(sch, k), k, col)) = Ids(sch)
<1> DEFINE t == RemoveAt(sch, k)
           u == InsertAt(t, k, col)
<1>1. DOMAIN sch = 1..Len(sch) /\ Len(sch) \in Nat /\ k \in 1..Len(sch) OBVIOUS
<1>2. /\ t \in Seq(S) /\ DOMAIN t = 1..(Len(sch) - 1)
      /\ \A j \in DOMAIN t : t[j] = sch[IF j < k THEN j ELSE j + 1]
  BY RemoveAtElements
<1> HIDE DEF t
<1>3. Len(t) = Len(sch) - 1
  <2>1. Len(sch) - 1 \in Nat BY <1>1
  <2> QED BY <1>2, <2>1
<1>4. k \in 1..(Len(t) + 1) /\ Len(t) + 1 = Len(sch) BY <1>1, <1>3
<1>u. /\ DOMAIN u = 1..(Len(t) + 1)
      /\ \A j \in DOMAIN u : u[j] = IF j < k THEN t[j] ELSE IF j = k THEN col ELSE t[j - 1]
  <2>1. t \in Seq(S) /\ k \in 1..(Len(t) + 1) /\ col \in S BY <1>2, <1>4
  <2> QED BY ONLY <2>1, InsertAtElements
<1>5. /\ DOMAIN u = 1..Len(sch)
      /\ \A j \in DOMAIN u : u[j] = IF j < k THEN t[j] ELSE IF j = k THEN col ELSE t[j - 1]
  BY <1>4, <1>u
<1> HIDE DEF u
<1>6. ASSUME NEW j \in 1..Len(sch) PROVE u[j].id = sch[j].id
  <2>1. CASE j < k
    <3>1. j \in DOMAIN t BY <1>1, <1>2, <2>1
    <3> QED BY <1>2, <1>5, <2>1, <3>1
  <2>2. CASE j = k
    <3>1. ~(j < k) BY <1>1, <2>2
    <3> QED BY <1>5, <2>2, <3>1
  <2>3. CASE j > k
    <3>1. j - 1 \in DOMAIN t /\ ~(j - 1 < k) /\ (j - 1) + 1 = j /\ ~(j < k) /\ j # k
      BY <1>1, <1>2, <2>3
    <3> QED BY <1>2, <1>5, <3>1
  <2>4. j < k \/ j = k \/ j > k BY <1>1
  <2> QED BY <2>1, <2>2, <2>3, <2>4
<1>7. Ids(u) = Ids(sch) BY <1>1, <1>5, <1>6 DEF Ids
<1> QED BY <1>7 DEF u, t

\* Where a column with an order comes, and what is left without it.
LEMMA PlacedInOrder ==
  ASSUME NEW S, NEW sch \in Seq(S), NEW j \in 0..Len(sch), NEW col \in S, NEW o \in Orders \ {NoOrder},
         \A i \in DOMAIN sch : sch[i].id # col.id,
         o.kind = "first" => j = 0, o.kind = "after" => j # 0 /\ sch[j].name = o.column,
         NEW t, t = InsertAt(sch, j + 1, col)
  PROVE  /\ {i \in 1..Len(t) : t[i].id = col.id} = {j + 1}
         /\ IF o.kind = "first" THEN j + 1 = 1 ELSE j + 1 > 1 /\ t[(j + 1) - 1].name = o.column
         /\ RemoveAt(t, j + 1) = sch
<1> DEFINE n == Len(sch)
           p == j + 1
<1>1. DOMAIN sch = 1..n /\ n \in Nat OBVIOUS
<1>2. j + 1 \in 1..(n + 1) /\ j \in Int /\ j + 1 \in Int BY <1>1
<1>3. /\ t \in Seq(S) /\ DOMAIN t = 1..(n + 1) /\ Len(t) = n + 1
      /\ \A i \in DOMAIN t :
           t[i] = IF i < j + 1 THEN sch[i] ELSE IF i = j + 1 THEN col ELSE sch[i - 1]
  <2>1. p \in 1..(Len(sch) + 1) /\ t = InsertAt(sch, p, col) BY <1>2
  <2> HIDE DEF p, n
  <2>2. /\ t \in Seq(S) /\ DOMAIN t = 1..(Len(sch) + 1) /\ Len(t) = Len(sch) + 1
        /\ \A i \in DOMAIN t : t[i] = IF i < p THEN sch[i] ELSE IF i = p THEN col ELSE sch[i - 1]
    BY <2>1, InsertAtElements
  <2> QED BY <2>2 DEF p, n
<1> HIDE DEF n
<1>4. ASSUME NEW i \in 1..(n + 1) PROVE t[i].id = col.id <=> i = j + 1
  <2>1. CASE i < j + 1
    <3>1. i \in DOMAIN sch /\ i # j + 1 BY <1>1, <2>1
    <3> QED BY <1>3, <2>1, <3>1
  <2>2. CASE i = j + 1
    <3>1. ~(i < j + 1) BY <1>2, <2>2
    <3> QED BY <1>3, <2>2, <3>1
  <2>3. CASE i > j + 1
    <3>1. i - 1 \in DOMAIN sch /\ ~(i < j + 1) /\ i # j + 1 BY <1>1, <1>2, <2>3
    <3> QED BY <1>3, <3>1
  <2>4. i < j + 1 \/ i = j + 1 \/ i > j + 1 BY <1>1, <1>2
  <2> QED BY <2>1, <2>2, <2>3, <2>4
<1>5. {i \in 1..Len(t) : t[i].id = col.id} = {j + 1} BY <1>2, <1>3, <1>4 DEF n
<1>6. RemoveAt(t, j + 1) = sch BY <1>2, RemoveInserted DEF n
<1>7. o.kind \in {"first", "after"} BY OrderKinds
<1>8. CASE o.kind = "first" BY <1>5, <1>6, <1>8
<1>9. CASE o.kind = "after"
  <2>1. j # 0 /\ sch[j].name = o.column /\ j + 1 > 1 /\ j < j + 1 /\ j \in DOMAIN t /\ (j + 1) - 1 = j
    BY <1>1, <1>3, <1>9 DEF n
  <2>2. t[j] = sch[j] BY <1>3, <2>1
  <2> QED BY <1>5, <1>6, <1>9, <2>1, <2>2
<1> QED BY <1>7, <1>8, <1>9

\* A column that is found at one place, in its order.
LEMMA OrderAtPlace ==
  ASSUME NEW n, NEW o, NEW id, NEW p \in Nat \ {0},
         id = IF nextId' # nextId THEN nextId ELSE schema[IndexOf(n)].id,
         {i \in 1..Len(schema') : schema'[i].id = id} = {p},
         IF o.kind = "first" THEN p = 1 ELSE p > 1 /\ schema'[p - 1].name = o.column,
         RemoveAt(schema', p) = IF nextId' # nextId THEN schema ELSE RemoveAt(schema, IndexOf(n))
  PROVE  OrderKept(n, o)
<1> DEFINE I == {i \in 1..Len(schema') :
                   schema'[i].id = IF nextId' # nextId THEN nextId ELSE schema[IndexOf(n)].id}
           at == IF I # {} THEN Min(I) ELSE 0
<1>1. I = {p} OBVIOUS
<1>2. Min({p}) = p BY MinSingleton
<1> HIDE DEF I
<1>3. at = p /\ p # 0 BY <1>1, <1>2
<1> HIDE DEF at
<1>4. OrderKept(n, o) <=>
        /\ at # 0
        /\ IF o.kind = "first" THEN at = 1 ELSE at > 1 /\ schema'[at - 1].name = o.column
        /\ RemoveAt(schema', at) = IF nextId' # nextId THEN schema ELSE RemoveAt(schema, IndexOf(n))
  BY DEF OrderKept, SelectInSeq, at, I
<1> QED BY <1>3, <1>4

\* ADD COLUMN with an order.
LEMMA AddKeepsPlaces ==
  ASSUME TypeOK, PlainSchema, NEW n \in Names, NEW o \in Orders \ {NoOrder}, AddColumn(n, o),
         "odd" \notin done'
  PROVE  OrderKept(n, o)
<1> DEFINE S == Columns(nextId)
           col == Column(n, nextId)
<1>1. "odd" \notin done /\ nextId' = nextId + 1 BY PlainAdd
<1>2. PICK k \in 0..Len(schema) :
        /\ schema' = InsertAt(schema, k + 1, col)
        /\ o.kind = "first" => k = 0
        /\ o.kind = "after" => k # 0 /\ schema[k].name = o.column
  BY PlainAdd
<1>3. /\ schema \in Seq(Columns(nextId - 1)) /\ Len(schema) \in Nat
      /\ \A j \in DOMAIN schema : schema[j].id \in 1..(nextId - 1)
  BY <1>1, PlainFacts
<1>4. nextId \in Nat \ {0} /\ nextId' # nextId BY <1>1 DEF TypeOK
<1>5. col \in S /\ col.id = nextId BY <1>4 DEF Column, Columns
<1>6. Columns(nextId - 1) \subseteq S BY <1>4 DEF Columns
<1>7. \A j \in DOMAIN schema : schema[j].id # col.id BY <1>3, <1>4, <1>5
<1> HIDE DEF S, col
<1>8. schema \in Seq(S) BY <1>3, <1>6
<1>9. /\ {i \in 1..Len(schema') : schema'[i].id = col.id} = {k + 1}
      /\ IF o.kind = "first" THEN k + 1 = 1
         ELSE k + 1 > 1 /\ schema'[(k + 1) - 1].name = o.column
      /\ RemoveAt(schema', k + 1) = schema
  <2> DEFINE u == schema'
             q == schema
  <2>1. /\ q \in Seq(S) /\ k \in 0..Len(q) /\ col \in S /\ o \in Orders \ {NoOrder}
        /\ \A i \in DOMAIN q : q[i].id # col.id
        /\ o.kind = "first" => k = 0
        /\ o.kind = "after" => k # 0 /\ q[k].name = o.column
        /\ u = InsertAt(q, k + 1, col)
    BY <1>2, <1>5, <1>7, <1>8
  <2> HIDE DEF u, q
  <2>2. {i \in 1..Len(u) : u[i].id = col.id} = {k + 1} BY ONLY <2>1, PlacedInOrder
  <2>3. IF o.kind = "first" THEN k + 1 = 1 ELSE k + 1 > 1 /\ u[(k + 1) - 1].name = o.column
    BY ONLY <2>1, PlacedInOrder
  <2>4. RemoveAt(u, k + 1) = q BY ONLY <2>1, PlacedInOrder
  <2> QED BY <2>2, <2>3, <2>4 DEF u, q
<1> DEFINE p == k + 1
           id == nextId
<1>10. p \in Nat \ {0} BY <1>3
<1>11. /\ {i \in 1..Len(schema') : schema'[i].id = id} = {p}
       /\ IF o.kind = "first" THEN p = 1 ELSE p > 1 /\ schema'[p - 1].name = o.column
       /\ RemoveAt(schema', p) = IF nextId' # nextId THEN schema ELSE RemoveAt(schema, IndexOf(n))
  BY <1>4, <1>5, <1>9
<1>12. id = IF nextId' # nextId THEN nextId ELSE schema[IndexOf(n)].id BY <1>4
<1> HIDE DEF p, id
<1> QED BY <1>10, <1>11, <1>12, OrderAtPlace

\* RENAME COLUMN, and MODIFY COLUMN without an order.
LEMMA MoveKeepsPlace ==
  ASSUME TypeOK, PlainSchema, "odd" \notin done, NEW n \in Names, NEW m \in Names, Spelt(n),
         TableModifyColumn(n, Column(m, schema[IndexOf(n)].id), NoOrder)
  PROVE  Ids(schema') = Ids(schema)
<1> DEFINE S == Columns(nextId - 1)
           k == IndexOf(n)
           col == Column(m, schema[k].id)
<1>1. NoOrder \in Orders /\ NoOrder.kind = "nil" BY DEF Orders, NoOrder
<1>2. SpeltOrder(NoOrder) BY <1>1 DEF SpeltOrder
<1>3. /\ k \in DOMAIN schema
      /\ \E j \in 0..(Len(schema) - 1) :
           /\ schema' = InsertAt(RemoveAt(schema, k), j + 1, col)
           /\ NoOrder.kind = "nil" => j = k - 1
  BY <1>1, <1>2, PlainMove
<1>4. schema \in Seq(S) /\ Len(schema) \in Nat /\ DOMAIN schema = 1..Len(schema)
      /\ schema[k].id \in 1..(nextId - 1)
  BY <1>3, PlainFacts
<1>5. col \in S /\ col.id = schema[k].id BY <1>4 DEF Column, Columns
<1> HIDE DEF S, col, k
<1>6. (k - 1) + 1 = k BY <1>3, <1>4
<1>7. schema' = InsertAt(RemoveAt(schema, k), k, col) BY <1>1, <1>3, <1>6
<1> QED BY <1>3, <1>4, <1>5, <1>7, MovedInPlace

\* MODIFY COLUMN with an order.
LEMMA MoveKeepsOrder ==
  ASSUME TypeOK, PlainSchema, "odd" \notin done, NEW n \in Names, NEW m \in Names,
         NEW o \in Orders \ {NoOrder},
         Spelt(n), SpeltOrder(o), o.kind = "after" => o.column # n, nextId' = nextId,
         TableModifyColumn(n, Column(m, schema[IndexOf(n)].id), o)
  PROVE  OrderKept(n, o)
<1> DEFINE S == Columns(nextId - 1)
           k == IndexOf(n)
           id == schema[k].id
           col == Column(m, schema[k].id)
           t == RemoveAt(schema, k)
<1>1. k \in DOMAIN schema BY PlainMove
<1>2. PICK j \in 0..(Len(schema) - 1) :
        /\ schema' = InsertAt(t, j + 1, col)
        /\ o.kind = "first" => j = 0
        /\ o.kind = "after" => j # 0 /\ t[j].name = o.column
  <2>1. o \in Orders OBVIOUS
  <2>2. \E j \in 0..(Len(schema) - 1) :
          /\ schema' = InsertAt(t, j + 1, col)
          /\ o.kind = "nil" => j = k - 1
          /\ o.kind = "first" => j = 0
          /\ o.kind = "after" => j # 0 /\ t[j].name = o.column
    BY <2>1, PlainMove, Zenon
  <2> HIDE DEF k, t, col
  <2> QED BY <2>2
<1>3. /\ schema \in Seq(S) /\ Distinct(schema) /\ Len(schema) \in Nat \ {0}
      /\ schema[k].id \in 1..(nextId - 1)
  BY <1>1, PlainFacts
<1>4. col \in S /\ col.id = schema[k].id BY <1>3 DEF Column, Columns
<1> HIDE DEF S, col, k
<1>5. t \in Seq(S) /\ DOMAIN t = 1..(Len(schema) - 1) BY <1>1, <1>3, RemoveAtElements
<1>6. \A i \in DOMAIN t : t[i].id # schema[k].id BY <1>1, <1>3, DistinctRemoved
<1> HIDE DEF t
<1>7. Len(t) = Len(schema) - 1
  <2>1. Len(schema) - 1 \in Nat BY <1>3
  <2> QED BY <1>5, <2>1
<1>8. j \in 0..Len(t) /\ \A i \in DOMAIN t : t[i].id # col.id BY <1>4, <1>6, <1>7
<1>9. /\ {i \in 1..Len(schema') : schema'[i].id = col.id} = {j + 1}
      /\ IF o.kind = "first" THEN j + 1 = 1
         ELSE j + 1 > 1 /\ schema'[(j + 1) - 1].name = o.column
      /\ RemoveAt(schema', j + 1) = t
  <2> DEFINE u == schema'
             q == t
             l == j
  <2>1. /\ q \in Seq(S) /\ l \in 0..Len(q) /\ col \in S /\ o \in Orders \ {NoOrder}
        /\ \A i \in DOMAIN q : q[i].id # col.id
        /\ o.kind = "first" => l = 0
        /\ o.kind = "after" => l # 0 /\ q[l].name = o.column
        /\ u = InsertAt(q, l + 1, col)
    BY <1>2, <1>4, <1>5, <1>8
  <2> HIDE DEF u, q, l
  <2>2. {i \in 1..Len(u) : u[i].id = col.id} = {l + 1} BY ONLY <2>1, PlacedInOrder
  <2>3. IF o.kind = "first" THEN l + 1 = 1 ELSE l + 1 > 1 /\ u[(l + 1) - 1].name = o.column
    BY ONLY <2>1, PlacedInOrder
  <2>4. RemoveAt(u, l + 1) = q BY ONLY <2>1, PlacedInOrder
  <2> QED BY <2>2, <2>3, <2>4 DEF u, q, l
<1> DEFINE p == j + 1
<1>10. p \in Nat \ {0} BY <1>3
<1>11. /\ {i \in 1..Len(schema') : schema'[i].id = id} = {p}
       /\ IF o.kind = "first" THEN p = 1 ELSE p > 1 /\ schema'[p - 1].name = o.column
       /\ RemoveAt(schema', p) = IF nextId' # nextId THEN schema ELSE RemoveAt(schema, IndexOf(n))
  BY <1>4, <1>9 DEF t, k
<1>12. id = IF nextId' # nextId THEN nextId ELSE schema[IndexOf(n)].id BY DEF k
<1> HIDE DEF p, id
<1> QED BY <1>10, <1>11, <1>12, OrderAtPlace

\* A column that is added or moved with an order comes first or directly after the
\* column that was named, and all others keep their order; one that is renamed, or
\* modified without an order, keeps its place.
THEOREM PlacesKept == Spec => ColumnsKeepPlaces
<1> DEFINE Inv == TypeOK /\ LongRows /\ PlainSchema
           Kept == \A n, m \in Names : "odd" \notin done' =>
                     /\ RenameColumn(n, m) \/ ModifyColumn(n, m, NoOrder) => Ids(schema') = Ids(schema)
                     /\ \A o \in Orders \ {NoOrder} :
                          AddColumn(n, o) \/ ModifyColumn(n, m, o) => OrderKept(n, o)
<1>1. Init => Inv BY InitFacts
<1>2. Inv /\ [Next]_vars => Inv' BY TypeStep, PlainSchemaStep
<1>3. Inv => Kept
  <2> SUFFICES ASSUME TypeOK, PlainSchema, NEW n \in Names, NEW m \in Names, "odd" \notin done'
               PROVE  /\ RenameColumn(n, m) \/ ModifyColumn(n, m, NoOrder) => Ids(schema') = Ids(schema)
                      /\ \A o \in Orders \ {NoOrder} :
                           AddColumn(n, o) \/ ModifyColumn(n, m, o) => OrderKept(n, o)
    OBVIOUS
  <2>1. ASSUME RenameColumn(n, m) PROVE Ids(schema') = Ids(schema)
    <3>1. "odd" \notin done /\ Spelt(n) BY <2>1, PlainRename
    <3>2. TableModifyColumn(n, Column(m, schema[IndexOf(n)].id), NoOrder)
      BY <2>1 DEF RenameColumn
    <3> QED BY <3>1, <3>2, MoveKeepsPlace
  <2>2. ASSUME ModifyColumn(n, m, NoOrder) PROVE Ids(schema') = Ids(schema)
    <3>1. NoOrder \in Orders BY DEF Orders
    <3>2. "odd" \notin done /\ Spelt(n) BY <2>2, <3>1, PlainModify
    <3>3. TableModifyColumn(n, Column(m, schema[IndexOf(n)].id), NoOrder)
      BY <2>2 DEF ModifyColumn
    <3> QED BY <3>2, <3>3, MoveKeepsPlace
  <2>3. ASSUME NEW o \in Orders \ {NoOrder}, AddColumn(n, o) PROVE OrderKept(n, o)
    BY <2>3, AddKeepsPlaces
  <2>4. ASSUME NEW o \in Orders \ {NoOrder}, ModifyColumn(n, m, o) PROVE OrderKept(n, o)
    <3>1. "odd" \notin done /\ Spelt(n) /\ SpeltOrder(o) /\ o.column # n BY <2>4, PlainModify
    <3>2. TableModifyColumn(n, Column(m, schema[IndexOf(n)].id), o) /\ nextId' = nextId
      BY <2>4 DEF ModifyColumn
    <3> QED BY <3>1, <3>2, MoveKeepsOrder
  <2> QED BY <2>1, <2>2, <2>3, <2>4
<1> HIDE DEF Kept
<1>4. Inv /\ [Next]_vars => [Kept]_vars BY <1>3
<1>5. ColumnsKeepPlaces <=> [][Kept]_vars BY DEF ColumnsKeepPlaces, Kept
<1> HIDE DEF Inv
<1> QED BY <1>1, <1>2, <1>4, <1>5, PTL DEF Spec
=============================================================================
