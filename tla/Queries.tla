------------------------------ MODULE Queries ------------------------------
(***************************************************************************)
(* SELECT statements: the plan the parser makes of one (sql/parse/parse.go *)
(* from the syntax tree on), and the answer it should have, by names and   *)
(* whole relations, with no plan in sight.                                 *)
(*                                                                         *)
(* A clause that is absent is <<>>.  An expression of the syntax tree is   *)
(* written as the unresolved expression that exprToExpression makes of it. *)
(***************************************************************************)
EXTENDS Plans

CONSTANT Views     \* the statement behind each view

\* What stands for an error
Err == [op |-> "error"]

\* FROM: a table or view with its alias ("" for none), a subquery, a join
FromTable(n, as) == [op |-> "table", table |-> n, as |-> as]
FromSelect(q, as) == [op |-> "sub", q |-> q, as |-> as]
FromJoin(typ, on, l, r) == [op |-> "join", typ |-> typ, on |-> on, l |-> l, r |-> r]

Select(from, exprs) ==
    [op |-> "select", from |-> from, where |-> <<>>, exprs |-> exprs, by |-> <<>>, having |-> <<>>,
     distinct |-> FALSE, order |-> <<>>, desc |-> <<>>, limit |-> <<>>, offset |-> <<>>]
Unite(typ, l, r) == [op |-> "union", typ |-> typ, l |-> l, r |-> r]

-----------------------------------------------------------------------------
(* The parser *)

\* isAggregate
RECURSIVE isAggregate(_)
isAggregate(e) ==
    CASE e.op \in {"ufun", "agg"} -> TRUE
      [] e.op = "alias" -> isAggregate(e.kid)
      [] e.op = "bin" -> isAggregate(e.l) \/ isAggregate(e.r)
      [] OTHER -> FALSE

\* selectToProjectOrGroupBy: a number in GROUP BY stands for the expression it selects
GroupingExpr(e, exprs) ==
    IF e.op = "lit" /\ e.v \in DOMAIN exprs
    THEN IF exprs[e.v].op = "alias" THEN UCol("", exprs[e.v].alias) ELSE exprs[e.v]
    ELSE e

selectToProjectOrGroupBy(q, child) ==
    IF q.by = <<>> /\ \A i \in DOMAIN q.exprs : ~isAggregate(q.exprs[i]) THEN Project(q.exprs, child)
    ELSE GroupBy(q.exprs, [i \in DOMAIN q.by |-> GroupingExpr(q.by[i], q.exprs)], child)

RECURSIVE convertSelectStatement(_)

\* tableExprsToTable and tableExprToTable
JoinTables(f, l, r) ==
    IF f.typ = "natural" THEN NaturalJoin(l, r)
    ELSE IF f.on = <<>> THEN CrossJoin(l, r)
    ELSE Join(f.typ, f.on[1], l, r)

RECURSIVE tableExprToTable(_)
tableExprToTable(f) ==
    CASE f.op = "table" -> IF f.as = "" THEN UTable(f.table) ELSE TableAlias(f.as, UTable(f.table))
      [] f.op = "sub" -> SubqueryAlias(f.as, convertSelectStatement(f.q))
      [] f.op = "join" ->
            JoinTables(f, tableExprToTable(f.l), tableExprToTable(f.r))

\* having, orderBy, offset and limit: a clause that is there wraps the plan so far
WhereOf(q, n) == IF q.where = <<>> THEN n ELSE Filter(q.where[1], n)
HavingOf(q, n) == IF q.having = <<>> THEN n ELSE Having(q.having[1], n)
DistinctIf(q, n) == IF q.distinct THEN Distinct(n) ELSE n
OrderByOf(q, n) == IF q.order = <<>> THEN n ELSE Sort(q.order, q.desc, n)
OffsetOf(q, n) == IF q.offset = <<>> THEN n ELSE Offset(q.offset[1], n)
LimitOf(q, n) == IF q.limit = <<>> THEN n ELSE Limit(q.limit[1], n)

\* In a session with another sql_select_limit, a SELECT without a limit is parsed as
\* the same SELECT with that one: another statement of the same kind.
convertSelect(q) ==
    LimitOf(q, OffsetOf(q, OrderByOf(q, DistinctIf(q, HavingOf(q,
        selectToProjectOrGroupBy(q, WhereOf(q, tableExprToTable(q.from))))))))

\* convertUnion: UNION is the same as UNION ALL
convertSelectStatement(q) ==
    IF q.op = "select" THEN convertSelect(q)
    ELSE DistinctIf([distinct |-> q.typ = "distinct"],
                    Union(convertSelectStatement(q.l), convertSelectStatement(q.r)))

-----------------------------------------------------------------------------
(* The answer.  A relation is its columns, each with its name and the      *)
(* tables it can be qualified with, and its rows.                          *)

Named(n, ts) == [name |-> n, tbls |-> ts]

\* Every name becomes the position of the one column it can mean; names in aliases,
\* which gives expressions over the same columns, mean those when no column has them.
BindName(e, at, aliases) ==
    IF Cardinality(at) = 1 THEN Field(CHOOSE i \in at : TRUE, e.tbl, e.name)
    ELSE IF at = {} /\ e.tbl = "" /\ e.name \in DOMAIN aliases THEN aliases[e.name]
    ELSE Err
AggOrErr(fn, kid) == IF kid = Err THEN Err ELSE Agg(fn, kid)
BinOrErr(fn, l, r) == IF Err \in {l, r} THEN Err ELSE Bin(fn, l, r)

RECURSIVE Bind(_, _, _)
Bind(e, cols, aliases) ==
    CASE e.op = "ucol" ->
            BindName(e, {i \in DOMAIN cols : cols[i].name = e.name /\ (e.tbl = "" \/ e.tbl \in cols[i].tbls)},
                     aliases)
      [] e.op \in {"ufun", "agg"} ->
            AggOrErr(IF e.op = "ufun" THEN e.ufn ELSE e.agg, Bind(e.kid, cols, aliases))
      [] e.op = "bin" -> BinOrErr(e.fn, Bind(e.l, cols, aliases), Bind(e.r, cols, aliases))
      [] e.op = "alias" -> Bind(e.kid, cols, aliases)
      [] OTHER -> e

\* The value of a bound expression for a group of rows
RECURSIVE ValueOf(_, _)
ValueOf(e, rows) ==
    CASE e.op = "bin" -> Binary(e.fn, ValueOf(e.l, rows), ValueOf(e.r, rows))
      [] e.op = "lit" -> e.v
      [] OTHER -> ColumnOf(e, rows)

IsTrue(v) == v \notin {Null, Bad, 0}

RECURSIVE Answer(_, _)

\* NATURAL JOIN: one column for each common name, then the others.  An entry of places is
\* <<place on the left or 0, place on the right or 0>>.
NaturalPlaces(l, r) ==
    LET match(i) == {j \in DOMAIN r : r[j].name = l[i].name}
        pairs == [i \in DOMAIN l |-> IF match(i) = {} THEN <<i, 0>> ELSE <<i, CHOOSE j \in match(i) : TRUE>>]
        others == [j \in DOMAIN r |-> IF \E i \in DOMAIN l : l[i].name = r[j].name THEN <<0, 0>> ELSE <<0, j>>]
    IN  SelectSeq(pairs, LAMBDA p : p[2] # 0) \o SelectSeq(pairs, LAMBDA p : p[2] = 0)
          \o SelectSeq(others, LAMBDA p : p[2] # 0)
NaturalRows(x, rows, places) ==
    LET common == {p \in ToSet(places) : 0 \notin ToSet(p)}
        pairs == SelectSeq(rows, LAMBDA y : \A p \in common : x[p[1]] # Null /\ x[p[1]] = y[p[2]])
        row(y) == [k \in DOMAIN places |-> IF places[k][1] # 0 THEN x[places[k][1]] ELSE y[places[k][2]]]
    IN  [k \in DOMAIN pairs |-> row(pairs[k])]
NaturalColumn(p, l, r) ==
    IF p[1] = 0 THEN r[p[2]] ELSE IF p[2] = 0 THEN l[p[1]]
    ELSE Named(l[p[1]].name, l[p[1]].tbls \union r[p[2]].tbls)
NaturalOf(l, r, places) ==
    [cols |-> [k \in DOMAIN places |-> NaturalColumn(places[k], l.cols, r.cols)],
     rows |-> FlattenSeq([i \in DOMAIN l.rows |-> NaturalRows(l.rows[i], r.rows, places)])]

\* What FROM gives, Err when a name in it is not right
JoinOn(typ, on, l, r) ==
    IF on = Err THEN Err
    ELSE [cols |-> l.cols \o r.cols, rows |-> JoinOf(typ, on, l.rows, r.rows, Len(l.cols), Len(r.cols))]
FromJoined(f, l, r) ==
    IF Err \in {l, r} THEN Err
    ELSE IF f.typ = "natural" THEN NaturalOf(l, r, NaturalPlaces(l.cols, r.cols))
    ELSE JoinOn(f.typ, IF f.on = <<>> THEN Lit(1) ELSE Bind(f.on[1], l.cols \o r.cols, <<>>), l, r)
Renamed(a, name) ==
    IF a = Err THEN Err
    ELSE [a EXCEPT !.cols = [i \in DOMAIN @ |-> Named(@[i].name, {name})]]
FromRelation(f, db) ==
    IF f.op = "table" /\ f.table \notin DOMAIN Views
    THEN [cols |-> [i \in DOMAIN Columns[f.table] |-> Named(Columns[f.table][i], {f.table})],
          rows |-> FlattenSeq(db[f.table])]
    ELSE Answer(IF f.op = "sub" THEN f.q ELSE Views[f.table], db)

RECURSIVE FromOf(_, _)
FromOf(f, db) ==
    IF f.op = "join" THEN FromJoined(f, FromOf(f.l, db), FromOf(f.r, db))
    ELSE Renamed(FromRelation(f, db), IF f.as = "" THEN f.table ELSE f.as)

\* The select list with the columns that * stands for, bound, with their names
SelectedStar(e, cols) ==
    LET fields == [i \in DOMAIN cols |-> [name |-> cols[i].name, e |-> Field(i, "", cols[i].name)]]
    IN  SelectSeq(fields, LAMBDA f : e.star = "" \/ e.star \in cols[f.e.at].tbls)
Selected(q, cols) ==
    FlattenSeq([i \in DOMAIN q.exprs |->
        LET e == q.exprs[i]
        IN  IF e.op = "star" THEN SelectedStar(e, cols)
            ELSE <<[name |-> IF e.op \in {"alias", "ucol"} THEN NameOf(e) ELSE Str(e), e |-> Bind(e, cols, <<>>)]>>])
AliasesOf(sel) ==
    [n \in {sel[i].name : i \in DOMAIN sel} |-> (SelectSeq(sel, LAMBDA s : s.name = n)[1]).e]

\* A name in GROUP BY, HAVING or ORDER BY means a column of the select list first, one of
\* FROM else; a number is a place of the select list.
Late(e, cols, sel, aliases) ==
    IF e.op = "lit" THEN IF e.v \in DOMAIN sel THEN sel[e.v].e ELSE Err
    ELSE IF e.op = "ucol" /\ e.tbl = "" /\ e.name \in DOMAIN aliases THEN aliases[e.name]
    ELSE Bind(e, cols, aliases)

\* The clauses with their names bound; HAVING compares what it names with a number
Clauses(q, cols, sel, aliases) ==
    [sel |-> [i \in DOMAIN sel |-> sel[i].e],
     names |-> [i \in DOMAIN sel |-> sel[i].name],
     where |-> IF q.where = <<>> THEN Lit(1) ELSE Bind(q.where[1], cols, aliases),
     by |-> [i \in DOMAIN q.by |-> Late(q.by[i], cols, sel, aliases)],
     having |-> IF q.having = <<>> THEN Lit(1)
                ELSE BinOrErr(q.having[1].fn, Late(q.having[1].l, cols, sel, aliases), q.having[1].r),
     order |-> [i \in DOMAIN q.order |-> Late(q.order[i], cols, sel, aliases)]]
BoundClauses(q, cols, sel) == Clauses(q, cols, sel, AliasesOf(sel))
Meaningless(c) ==
    \/ Err \in ToSet(c.sel) \union ToSet(c.by) \union ToSet(c.order) \union {c.where, c.having}
    \/ \E i \in DOMAIN c.by : isAggregate(c.by[i])

\* FROM, WHERE, GROUP BY, HAVING, the select list, DISTINCT, ORDER BY, OFFSET and LIMIT, in
\* this order; a result row goes with its sort key
Chosen(rows, c) == SelectSeq(rows, LAMBDA r : EvaluateCondition(c.where, r))
Grouped(q, rows, c) ==
    IF q.by # <<>> \/ \E i \in DOMAIN q.exprs : isAggregate(q.exprs[i]) THEN GroupsOf(rows, c.by)
    ELSE [i \in DOMAIN rows |-> <<rows[i]>>]
Kept(groups, c) == SelectSeq(groups, LAMBDA g : IsTrue(ValueOf(c.having, g)))
Results(groups, c) ==
    [g \in DOMAIN groups |-> [row |-> [i \in DOMAIN c.sel |-> ValueOf(c.sel[i], groups[g])],
                              key |-> [i \in DOMAIN c.order |-> ValueOf(c.order[i], groups[g])]]]
Different(q, rs) ==
    LET first(g) == \A h \in 1 .. (g - 1) : rs[h].row # rs[g].row
        places == SelectSeq([g \in DOMAIN rs |-> g], LAMBDA g : ~q.distinct \/ first(g))
    IN  [k \in DOMAIN places |-> rs[places[k]]]
InOrder(rs, desc) ==
    LET before(i, j) == RowBefore(rs[i].key, rs[j].key, desc)
        rank == [i \in DOMAIN rs |-> Cardinality({j \in DOMAIN rs : before(j, i) \/ (~before(i, j) /\ j <= i)})]
    IN  [k \in DOMAIN rs |-> rs[CHOOSE i \in DOMAIN rs : rank[i] = k].row]
Page(rows, first, q) == SubSeq(rows, first, IF q.limit = <<>> THEN Len(rows) ELSE Min({Len(rows), first + q.limit[1] - 1}))

RowsOf(q, rows, c) ==
    Page(InOrder(Different(q, Results(Kept(Grouped(q, Chosen(rows, c), c), c), c)), q.desc),
         IF q.offset = <<>> THEN 1 ELSE q.offset[1] + 1, q)
AnswerFrom(q, rows, c) ==
    IF Meaningless(c) THEN Err
    ELSE [cols |-> [i \in DOMAIN c.names |-> Named(c.names[i], {})], rows |-> RowsOf(q, rows, c)]
AnswerOfSelect(q, from) ==
    IF from = Err THEN Err ELSE AnswerFrom(q, from.rows, BoundClauses(q, from.cols, Selected(q, from.cols)))

AnswerOfUnion(q, l, r) ==
    IF Err \in {l, r} \/ Len(l.cols) # Len(r.cols) THEN Err
    ELSE [cols |-> l.cols,
          rows |-> IF q.typ = "all" THEN l.rows \o r.rows ELSE DistinctOf(l.rows \o r.rows)]

Answer(q, db) ==
    IF q.op = "select" THEN AnswerOfSelect(q, FromOf(q.from, db))
    ELSE AnswerOfUnion(q, Answer(q.l, db), Answer(q.r, db))
=============================================================================
