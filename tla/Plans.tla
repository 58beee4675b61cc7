------------------------------- MODULE Plans -------------------------------
(***************************************************************************)
(* Query plans (sql/plan): the expressions and the nodes that the parser   *)
(* makes, the analyzer rewrites and the iterators execute, the schema of a *)
(* node, and the rows a resolved plan stands for.                          *)
(*                                                                         *)
(* A name is a sequence of tokens, so that the String() of an expression   *)
(* without a name is a name too.  A value is a number or Null, and 1 and 0 *)
(* are true and false.  A table holds a sequence of partitions, each a     *)
(* sequence of rows.  Evaluating an expression that cannot be evaluated is *)
(* Bad, the error.                                                         *)
(***************************************************************************)
EXTENDS Integers, Sequences, SequencesExt, FiniteSets, FiniteSetsExt, TLC

CONSTANTS
    Null, Bad,
    Columns      \* the names of the columns of each table

-----------------------------------------------------------------------------
(* Expressions *)

UCol(t, n) == [op |-> "ucol", tbl |-> t, name |-> n]      \* UnresolvedColumn
DCol(t, n) == [op |-> "dcol", tbl |-> t, name |-> n]      \* deferredColumn
Field(i, t, n) == [op |-> "field", tbl |-> t, name |-> n, at |-> i] \* GetField, from 1
Lit(v) == [op |-> "lit", v |-> v, bool |-> FALSE]          \* Literal of type Int64
BoolLit(v) == [op |-> "lit", v |-> v, bool |-> TRUE]       \* and of type Boolean
Alias(n, e) == [op |-> "alias", alias |-> n, kid |-> e]
Star(t) == [op |-> "star", star |-> t]
UFun(fn, e) == [op |-> "ufun", ufn |-> fn, kid |-> e]     \* UnresolvedFunction
Agg(fn, e) == [op |-> "agg", agg |-> fn, kid |-> e]
Bin(fn, l, r) == [op |-> "bin", fn |-> fn, l |-> l, r |-> r]

\* And, Comparison and Arithmetic on numbers (Expressions has them in full)
Binary(fn, l, r) ==
    IF Bad \in {l, r} THEN Bad
    ELSE IF fn = "and"
    THEN IF 0 \in {l, r} THEN 0 ELSE IF Null \in {l, r} THEN Null ELSE 1
    ELSE IF Null \in {l, r} THEN Null
    ELSE CASE fn = "=" -> IF l = r THEN 1 ELSE 0
           [] fn = ">" -> IF l > r THEN 1 ELSE 0
           [] fn = "+" -> l + r

\* Eval
RECURSIVE EvalE(_, _)
EvalE(e, row) ==
    CASE e.op = "field" -> IF e.at \in DOMAIN row THEN row[e.at] ELSE Bad
      [] e.op = "lit" -> e.v
      [] e.op = "alias" -> EvalE(e.kid, row)
      [] e.op = "bin" -> Binary(e.fn, EvalE(e.l, row), EvalE(e.r, row))
      [] OTHER -> Bad

EvalAll(exprs, row) == [i \in 1 .. Len(exprs) |-> EvalE(exprs[i], row)]

\* sql.EvaluateCondition
EvaluateCondition(e, row) == EvalE(e, row) \notin {Null, Bad, 0}

-----------------------------------------------------------------------------
(* Nodes *)

Node(op, kids, exprs) == [op |-> op, kids |-> kids, exprs |-> exprs]

UTable(n) == [op |-> "utable", kids |-> <<>>, exprs |-> <<>>, table |-> n] \* UnresolvedTable
\* ResolvedTable: cols are the columns the table was projected to, filters what it was
\* given to filter its rows with
Table(n) ==
    [op |-> "table", kids |-> <<>>, exprs |-> <<>>, table |-> n,
     cols |-> [i \in DOMAIN Columns[n] |-> i], filters |-> <<>>]
TableAlias(n, k) == [op |-> "talias", kids |-> <<k>>, exprs |-> <<>>, table |-> n]
\* schema is the schema that SubqueryAlias remembers, <<>> before it was asked for one
SubqueryAlias(n, k) ==
    [op |-> "subquery", kids |-> <<k>>, exprs |-> <<>>, table |-> n, schema |-> <<>>]
Project(es, k) == Node("project", <<k>>, es)
GroupBy(aggs, by, k) ==
    [op |-> "groupby", kids |-> <<k>>, exprs |-> aggs \o by, aggregates |-> Len(aggs)]
Filter(e, k) == Node("filter", <<k>>, <<e>>)
Having(e, k) == Node("having", <<k>>, <<e>>)
\* desc[i] tells whether the order of the i-th field is Descending
Sort(es, desc, k) == [op |-> "sort", kids |-> <<k>>, exprs |-> es, desc |-> desc]
Distinct(k) == Node("distinct", <<k>>, <<>>)
OrderedDistinct(k) == Node("ordered", <<k>>, <<>>)
Limit(n, k) == [op |-> "limit", kids |-> <<k>>, exprs |-> <<>>, size |-> n]
Offset(n, k) == [op |-> "offset", kids |-> <<k>>, exprs |-> <<>>, size |-> n]
Union(l, r) == Node("union", <<l, r>>, <<>>)
NaturalJoin(l, r) == Node("natural", <<l, r>>, <<>>)
CrossJoin(l, r) == Node("cross", <<l, r>>, <<>>)
Join(typ, cond, l, r) == [op |-> "join", kids |-> <<l, r>>, exprs |-> <<cond>>, typ |-> typ]
\* IndexedTableAccess: index gives the places in the table of the columns of its index,
\* key what was looked up last, <<>> at first
IndexedTable(t, index) ==
    [op |-> "iaccess", kids |-> <<>>, exprs |-> <<>>, table |-> t.table, cols |-> t.cols,
     filters |-> t.filters, index |-> index, key |-> <<>>]
\* IndexedJoin: keys are the expressions over the primary row that are looked up
IndexedJoin(typ, cond, keys, l, r) ==
    [op |-> "ijoin", kids |-> <<l, r>>, exprs |-> <<cond>>, typ |-> typ, keys |-> keys]
\* Exchange
Exchange(k) == Node("exchange", <<k>>, <<>>)
\* the array in column i is taken apart
Generate(i, k) == [op |-> "generate", kids |-> <<k>>, exprs |-> <<>>, at |-> i]

Aggregates(n) == SubSeq(n.exprs, 1, n.aggregates)
Grouping(n) == SubSeq(n.exprs, n.aggregates + 1, Len(n.exprs))

\* String(), and the name an expression gives its column: Name() or else String()
RECURSIVE Str(_)
Str(e) ==
    CASE e.op \in {"ucol", "dcol", "field"} -> IF e.tbl = "" THEN e.name ELSE <<e.tbl>> \o e.name
      [] e.op = "lit" -> <<ToString(e.v)>>
      [] e.op = "alias" -> Str(e.kid) \o <<"as">> \o e.alias
      [] e.op = "star" -> <<"*">>
      [] e.op = "ufun" -> <<e.ufn>> \o Str(e.kid)
      [] e.op = "agg" -> <<e.agg>> \o Str(e.kid)
      [] e.op = "bin" -> Str(e.l) \o <<e.fn>> \o Str(e.r)

NameOf(e) ==
    CASE e.op \in {"ucol", "dcol", "field"} -> e.name
      [] e.op = "alias" -> e.alias
      [] e.op = "ufun" -> <<e.ufn>>
      [] OTHER -> Str(e)

\* Table() of the expressions that are Tableable
TableOf(e) == IF e.op \in {"ucol", "dcol", "field"} THEN e.tbl ELSE ""

Column(n, t) == [name |-> n, source |-> t]
ColumnsFor(exprs) == [i \in DOMAIN exprs |-> Column(NameOf(exprs[i]), TableOf(exprs[i]))]

\* Schema(), without the types
RECURSIVE Schema(_)
Schema(n) ==
    CASE n.op \in {"table", "iaccess"} ->
            [i \in DOMAIN n.cols |-> Column(Columns[n.table][n.cols[i]], n.table)]
      [] n.op = "subquery" ->
            LET s == Schema(n.kids[1])
            IN  IF n.schema # <<>> THEN n.schema
                ELSE [i \in DOMAIN s |-> Column(s[i].name, n.table)]
      [] n.op = "project" -> ColumnsFor(n.exprs)
      [] n.op = "groupby" -> ColumnsFor(Aggregates(n))
      [] n.op \in {"cross", "join", "ijoin", "natural"} -> Schema(n.kids[1]) \o Schema(n.kids[2])
      [] n.op \in {"utable", "empty"} -> <<>>
      [] OTHER -> Schema(n.kids[1])

Width(n) == Len(Schema(n))

-----------------------------------------------------------------------------
(* The rows of a resolved plan: what each node means, whole relations at a *)
(* time and with no iterator in sight.                                     *)

DistinctOf(rows) ==
    LET firsts == {i \in DOMAIN rows : \A j \in 1 .. (i - 1) : rows[j] # rows[i]}
    IN  [k \in 1 .. Cardinality(firsts) |->
            rows[CHOOSE i \in firsts : Cardinality({j \in firsts : j <= i}) = k]]

\* NULL comes before every number, and after it when the order is descending
SortsBefore(a, b, desc) ==
    IF desc THEN a # Null /\ (b = Null \/ a > b)
    ELSE b # Null /\ (a = Null \/ a < b)

RowBefore(x, y, desc) ==
    \E i \in DOMAIN desc :
        /\ SortsBefore(x[i], y[i], desc[i])
        /\ \A j \in 1 .. (i - 1) : x[j] = y[j]

SortedBy(rows, exprs, desc) ==
    LET key == [i \in DOMAIN rows |-> EvalAll(exprs, rows[i])]
        before(i, j) == RowBefore(key[i], key[j], desc)
        rank == [i \in DOMAIN rows |->
                   Cardinality({j \in DOMAIN rows : before(j, i) \/ (~before(i, j) /\ j <= i)})]
    IN  [k \in DOMAIN rows |-> rows[CHOOSE i \in DOMAIN rows : rank[i] = k]]

SumOf(vals) == FoldLeft(+, 0, vals)
NotNull(vals) == SelectSeq(vals, LAMBDA v : v # Null)

\* The aggregation fn of the values vals.  AVG is NULL when one of them is and 0 for
\* none of them (avg_test.go); it is kept as the pair of the sum and the count.
AggregateOf(fn, vals) ==
    LET some == NotNull(vals)
    IN  CASE fn = "count" -> Len(some)
          [] fn = "countdistinct" -> Cardinality(ToSet(some))
          [] fn = "sum" -> IF some = <<>> THEN Null ELSE SumOf(some)
          [] fn = "min" -> IF some = <<>> THEN Null ELSE Min(ToSet(some))
          [] fn = "max" -> IF some = <<>> THEN Null ELSE Max(ToSet(some))
          [] fn = "first" -> IF some = <<>> THEN Null ELSE Head(some)
          [] fn = "last" -> IF some = <<>> THEN Null ELSE Last(some)
          [] fn = "avg" -> IF Len(some) < Len(vals) THEN Null
                           ELSE IF vals = <<>> THEN 0 ELSE <<SumOf(vals), Len(vals)>>

\* One column of a group: an aggregation of its rows, or a plain expression, which
\* takes its value from the last of them.
RECURSIVE ColumnOf(_, _)
ColumnOf(e, rows) ==
    CASE e.op = "alias" -> ColumnOf(e.kid, rows)
      [] e.op = "agg" ->
            AggregateOf(e.agg, [i \in DOMAIN rows |->
                                  IF e.kid.op = "star" THEN 1 ELSE EvalE(e.kid, rows[i])])
      [] OTHER -> IF rows = <<>> THEN Null ELSE EvalE(e, Last(rows))

GroupsOf(rows, by) ==
    LET key(r) == EvalAll(by, r)
        keys == DistinctOf([i \in DOMAIN rows |-> key(rows[i])])
    IN  IF by = <<>> THEN <<rows>>
        ELSE [k \in DOMAIN keys |-> SelectSeq(rows, LAMBDA r : key(r) = keys[k])]

\* One row for each element of the array in column c, which is [array |-> ...] or Null
ElementsOf(row, c) ==
    IF row[c] = Null THEN <<>>
    ELSE [i \in DOMAIN row[c].array |-> [row EXCEPT ![c] = row[c].array[i]]]

\* distinctRows of an OrderedDistinct: a row goes when it is like the one before it
AdjacentDistinct(rows) ==
    LET kept == SelectSeq([i \in DOMAIN rows |-> i], LAMBDA i : i = 1 \/ rows[i] # rows[i - 1])
    IN  [k \in DOMAIN kept |-> rows[kept[k]]]

\* Every row of l with the rows of r that cond accepts, in order; an outer join keeps
\* the rows without a partner, with w NULLs in place of it.
Nulls(w) == [i \in 1 .. w |-> Null]
JoinOf(typ, cond, l, r, wl, wr) ==
    LET accepted(x, y) == EvaluateCondition(cond, x \o y)
        partners(x) == SelectSeq(r, LAMBDA y : accepted(x, y))
        ofLeft(x) == IF partners(x) = <<>> /\ typ = "left" THEN <<x \o Nulls(wr)>>
                     ELSE [i \in DOMAIN partners(x) |-> x \o partners(x)[i]]
        owners(y) == SelectSeq(l, LAMBDA x : accepted(x, y))
        ofRight(y) == IF owners(y) = <<>> THEN <<Nulls(wl) \o y>>
                      ELSE [i \in DOMAIN owners(y) |-> owners(y)[i] \o y]
    IN  IF typ = "right" THEN FlattenSeq([i \in DOMAIN r |-> ofRight(r[i])])
        ELSE FlattenSeq([i \in DOMAIN l |-> ofLeft(l[i])])

\* memory's tableIter: the filters see the whole row, and what passes is projected
projectOnRow(cols, row) ==
    IF row = Bad \/ cols = [i \in DOMAIN row |-> i] THEN row ELSE [c \in DOMAIN cols |-> row[cols[c]]]
TableRows(n, rows) ==
    LET passes(r) == r = Bad \/ \A f \in DOMAIN n.filters : EvaluateCondition(n.filters[f], r)
        passed == SelectSeq(rows, passes)
    IN  [i \in DOMAIN passed |-> projectOnRow(n.cols, passed[i])]

\* SetIndexLookup on the IndexedTableAccess of a plan.  An Exchange reads the table below
\* the IndexedTableAccess, so the lookup has no effect there.
RECURSIVE WithLookup(_, _)
WithLookup(n, key) ==
    IF n.op = "iaccess" THEN [n EXCEPT !.key = key]
    ELSE IF n.op = "exchange" THEN n
    ELSE [n EXCEPT !.kids = [i \in DOMAIN n.kids |-> WithLookup(n.kids[i], key)]]

\* The rows that the table gives of a partition: those that the index gives when there
\* is a lookup, filtered and projected.  A NULL key makes the index fail, and a row that
\* cannot be read is found under every key.
PartitionRows(n, rows) ==
    TableRows(n, IF n.op = "table" \/ n.key = <<>> THEN rows
                 ELSE IF Null \in ToSet(n.key) THEN <<Bad>>
                 ELSE SelectSeq(rows, LAMBDA r : r = Bad \/ [i \in DOMAIN n.index |-> r[n.index[i]]] = n.key))

\* db gives the partitions of each table
RECURSIVE Rows(_, _)
Rows(n, db) ==
    LET of(k) == Rows(n.kids[k], db)
    IN  CASE n.op \in {"table", "iaccess"} -> 
                FlattenSeq([p \in DOMAIN db[n.table] |-> PartitionRows(n, db[n.table][p])])
          [] n.op \in {"talias", "subquery", "exchange"} -> of(1)
          [] n.op \in {"filter", "having"} ->
                SelectSeq(of(1), LAMBDA r : EvaluateCondition(n.exprs[1], r))
          [] n.op = "project" -> [i \in DOMAIN of(1) |-> EvalAll(n.exprs, of(1)[i])]
          [] n.op = "groupby" ->
                LET gs == GroupsOf(of(1), Grouping(n))
                IN  [g \in DOMAIN gs |-> [i \in 1 .. n.aggregates |-> ColumnOf(n.exprs[i], gs[g])]]
          [] n.op = "sort" -> SortedBy(of(1), n.exprs, n.desc)
          [] n.op = "distinct" -> DistinctOf(of(1))
          [] n.op = "ordered" -> AdjacentDistinct(of(1))
          [] n.op = "limit" -> SubSeq(of(1), 1, Min({n.size, Len(of(1))}))
          [] n.op = "offset" -> SubSeq(of(1), n.size + 1, Len(of(1)))
          [] n.op = "generate" -> FlattenSeq([i \in DOMAIN of(1) |-> ElementsOf(of(1)[i], n.at)])
          [] n.op = "union" -> of(1) \o of(2)
          [] n.op = "cross" -> JoinOf("inner", Lit(1), of(1), of(2), 0, 0)
          [] n.op = "join" ->
                JoinOf(n.typ, n.exprs[1], of(1), of(2), Width(n.kids[1]), Width(n.kids[2]))
          [] n.op = "ijoin" ->
                LET typ == IF n.typ = "inner" THEN "inner" ELSE "left"
                    found(x) == Rows(WithLookup(n.kids[2], EvalAll(n.keys, x)), db)
                IN  FlattenSeq([i \in DOMAIN of(1) |->
                       JoinOf(typ, n.exprs[1], <<of(1)[i]>>, found(of(1)[i]), 0, Width(n.kids[2]))])
          [] n.op = "empty" -> <<>>
=============================================================================
