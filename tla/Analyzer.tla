------------------------------ MODULE Analyzer ------------------------------
(***************************************************************************)
(* The analyzer (sql/analyzer): the rules that turn the plan of a SELECT   *)
(* with unresolved names into one that can be run.  A batch applies its    *)
(* rules in order, once or until a pass changes nothing; one step is one   *)
(* rule.                                                                   *)
(*                                                                         *)
(* A rule that walks the plan is a record with the rule's name and what    *)
(* its closure has captured; TransformUp threads the variables that the    *)
(* closure assigns as a state.  A rule that fails makes the plan Err.      *)
(* Letter case, column types and warnings are left out.                    *)
(***************************************************************************)
EXTENDS Queries

CONSTANTS
    Statements,  \* the queries that may be analyzed
    Databases,   \* the contents they are checked on
    Indexes,     \* <<table, sequence of columns>> of each index
    Parallelisms, \* the parallelism the analyzer may be built with
    MaxPasses    \* the passes of a batch after which the model stops

VARIABLES
    query,
    parallelism,
    node,        \* the plan so far
    prev,        \* the plan before this pass of the batch
    batch, rule, \* the next rule is the rule-th of the batch-th batch
    pass,        \* passes of this batch that are over
    status       \* "running" | "done" | "error"

vars == <<query, parallelism, node, prev, batch, rule, pass, status>>

-----------------------------------------------------------------------------
(* Expressions *)

IsColumn(e) == e.op \in {"ucol", "dcol", "field"}
IsNameable(e) == IsColumn(e) \/ e.op \in {"alias", "ufun"}

ExprKids(e) ==
    CASE e.op \in {"alias", "ufun", "agg"} -> <<e.kid>>
      [] e.op = "bin" -> <<e.l, e.r>>
      [] OTHER -> <<>>
WithExprKids(e, ks) ==
    CASE Len(ks) = 1 -> [e EXCEPT !.kid = ks[1]]
      [] Len(ks) = 2 -> [e EXCEPT !.l = ks[1], !.r = ks[2]]
      [] OTHER -> e

\* sql.Inspect: an expression and all below it, in the order of the visit
RECURSIVE SubExprs(_)
SubExprs(e) == <<e>> \o FlattenSeq([i \in DOMAIN ExprKids(e) |-> SubExprs(ExprKids(e)[i])])
SubExprsOf(exprs) == FlattenSeq([i \in DOMAIN exprs |-> SubExprs(exprs[i])])
FieldsOf(exprs) == SelectSeq(SubExprsOf(exprs), LAMBDA e : e.op = "field")
containsAggregation(e) == \E x \in ToSet(SubExprs(e)) : x.op = "agg"

\* findExprNameables: the names of the outermost expressions that have one
RECURSIVE findExprNameables(_)
findExprNameables(e) ==
    IF IsNameable(e) THEN <<NameOf(e)>>
    ELSE FlattenSeq([i \in DOMAIN ExprKids(e) |-> findExprNameables(ExprKids(e)[i])])

\* Resolved: COUNT(*) is
RECURSIVE ResolvedExpr(_)
ResolvedExpr(e) ==
    /\ e.op \notin {"ucol", "dcol", "star", "ufun"}
    /\ \A i \in DOMAIN ExprKids(e) :
          ResolvedExpr(ExprKids(e)[i]) \/ (e.op = "agg" /\ e.agg = "count" /\ e.kid.op = "star")

\* splitConjunction and JoinAnd
RECURSIVE splitConjunction(_)
splitConjunction(e) ==
    IF e.op = "bin" /\ e.fn = "and" THEN splitConjunction(e.l) \o splitConjunction(e.r) ELSE <<e>>
JoinAnd(es) == FoldLeft(LAMBDA a, b : Bin("and", a, b), Head(es), Tail(es))

\* The first and the last place of a column in a schema, 0 for none
Places(schema, t, n) == {i \in DOMAIN schema : schema[i].name = n /\ schema[i].source = t}
FirstPlace(schema, t, n) == LET p == Places(schema, t, n) IN IF p = {} THEN 0 ELSE Min(p)
LastPlace(schema, t, n) == LET p == Places(schema, t, n) IN IF p = {} THEN 0 ELSE Max(p)

-----------------------------------------------------------------------------
(* What the closures do to one expression *)

\* qualifyExpression
qualifyExpression(e, cols, tables) ==
    LET sources == {c.source : c \in {d \in cols : d.name = e.name}}
    IN  IF IsColumn(e)
        THEN IF e.tbl # ""
             THEN IF e.tbl \notin DOMAIN tables THEN Err
                  ELSE IF tables[e.tbl] \notin sources THEN e
                  ELSE UCol(tables[e.tbl], e.name)
             ELSE IF sources = {} THEN e
             ELSE IF Cardinality(sources) = 1 THEN UCol(CHOOSE t \in sources : TRUE, e.name)
             ELSE Err
        ELSE IF e.op = "star"
        THEN IF e.star = "" THEN e ELSE IF e.star \in DOMAIN tables THEN Star(tables[e.star]) ELSE Err
        ELSE WithExprKids(e, [i \in DOMAIN ExprKids(e) |->
                                IF ExprKids(e)[i].op = "star" THEN Star("") ELSE ExprKids(e)[i]])

\* mutant: a column that is not found has no second chance
resolveColumnExpressionOnce(e, schema) ==
    LET i == LastPlace(schema, e.tbl, e.name)
    IN  IF i # 0 THEN Field(i, e.tbl, e.name) ELSE Err

\* resolveColumnExpression: of columns with the same name the last is taken; a column
\* that is not found is given a second chance
resolveColumnExpression(e, schema) ==
    LET i == LastPlace(schema, e.tbl, e.name)
    IN  IF i # 0 THEN Field(i, e.tbl, e.name)
        ELSE IF e.op = "ucol" THEN DCol(e.tbl, e.name) ELSE Err

\* evalFilter
IsBool(e, v) == e.op = "lit" /\ e.bool /\ e.v = v
evalExpression(e) ==
    IF e.op = "bin" /\ e.fn = "and"
    THEN IF IsBool(e.l, 0) \/ IsBool(e.r, 1) THEN e.l
         ELSE IF IsBool(e.r, 0) \/ IsBool(e.l, 1) THEN e.r
         ELSE e
    ELSE IF e.op = "lit" \/ FieldsOf(<<e>>) # <<>> \/ EvalE(e, <<>>) = Bad THEN e
    ELSE IF e.op = "bin" /\ e.fn \in {"=", ">"} THEN BoolLit(EvalE(e, <<>>))
    ELSE Lit(EvalE(e, <<>>))

RECURSIVE TransformExpr(_, _)
\* fixFieldIndexes
fixFieldIndexes(schema, e) == TransformExpr(e, [rule |-> "fix", schema |-> schema])

ExprRule(e, r) ==
    CASE r.rule = "replace" ->
            \* replaceExpressions
            LET t == IF e.tbl \in DOMAIN r.aliases THEN r.aliases[e.tbl] ELSE e.tbl
            IN  IF e.op \in {"field", "ucol"} /\ <<t, e.name>> \in DOMAIN r.replacements
                THEN UCol(r.replacements[<<t, e.name>>][1], r.replacements[<<t, e.name>>][2])
                ELSE e
      [] r.rule = "qualify" -> qualifyExpression(e, r.columns, r.tables)
      [] r.rule = "resolve" ->
            IF IsColumn(e) /\ e.op # "field" THEN resolveColumnExpression(e, r.schema) ELSE e
      [] r.rule = "functions" -> IF e.op = "ufun" THEN Agg(e.ufn, e.kid) ELSE e
      [] r.rule = "rename" ->
            IF e.op = "ucol" /\ e.name \in DOMAIN r.renames /\ r.aliases[e.name] # r.at
            THEN UCol("", r.renames[e.name]) ELSE e
      [] r.rule = "tokens" -> IF e.op = "field" /\ e.at < 0 THEN r.columns[-e.at] ELSE e
      [] r.rule = "child" ->
            \* aggregationChildEquals: the field of the other side that has this name
            LET same == SelectSeq(r.fields, LAMBDA f : f.name = e.name /\ (e.tbl = "" \/ f.tbl = e.tbl))
            IN  IF e.op \in {"ucol", "field"} /\ same # <<>> THEN Last(same) ELSE e
      [] r.rule = "eval" -> evalExpression(e)
      [] r.rule = "fix" ->
            LET i == FirstPlace(r.schema, e.tbl, e.name)
            IN  IF e.op # "field" THEN e ELSE IF i = 0 THEN Err ELSE Field(i, e.tbl, e.name)
      [] r.rule = "fixany" ->
            LET good == SelectSeq(r.schemas, LAMBDA s : fixFieldIndexes(s, e) # Err)
            IN  IF good = <<>> THEN e ELSE fixFieldIndexes(good[1], e)
      [] r.rule = "reindex" ->
            LET i == LastPlace(r.schema, e.tbl, e.name)
            IN  IF e.op # "field" THEN e ELSE IF i = 0 THEN Err ELSE Field(i, e.tbl, e.name)

TransformExpr(e, r) ==
    LET ks == [i \in DOMAIN ExprKids(e) |-> TransformExpr(ExprKids(e)[i], r)]
    IN  IF \E i \in DOMAIN ks : ks[i] = Err THEN Err ELSE ExprRule(WithExprKids(e, ks), r)

-----------------------------------------------------------------------------
(* Plans *)

\* An IndexedJoin does not show its condition (it is no Expressioner).
Exprs(n) == IF n.op = "ijoin" THEN <<>> ELSE n.exprs

RECURSIVE Resolved(_)
Resolved(n) ==
    /\ n.op \notin {"utable", "natural"}
    /\ \A i \in DOMAIN Exprs(n) : ResolvedExpr(n.exprs[i])
    /\ \A k \in DOMAIN n.kids : Resolved(n.kids[k])

\* plan.Inspect: a node and all below it, those of subqueries too
RECURSIVE NodesOf(_)
NodesOf(n) == <<n>> \o FlattenSeq([k \in DOMAIN n.kids |-> NodesOf(n.kids[k])])
Has(n, ops) == \E m \in ToSet(NodesOf(n)) : m.op \in ops

KidSchemas(n) == FlattenSeq([k \in DOMAIN n.kids |-> Schema(n.kids[k])])

\* TransformExpressions
TransformExprs(n, r) ==
    LET es == [i \in DOMAIN Exprs(n) |-> TransformExpr(n.exprs[i], r)]
    IN  IF es = <<>> THEN n
        ELSE IF \E i \in DOMAIN es : es[i] = Err THEN Err
        ELSE [n EXCEPT !.exprs = es]

RECURSIVE Rule(_, _, _)

\* TransformUp, with the state of the closure; it does not enter a subquery
RECURSIVE TransformUp(_, _, _)
TransformKids(n, r, st) ==
    LET append(acc, u) == [kids |-> Append(acc.kids, u.node), st |-> u.st]
    IN  IF n.op = "subquery" THEN [kids |-> n.kids, st |-> st]
        ELSE FoldLeft(LAMBDA acc, k : append(acc, TransformUp(k, r, acc.st)), [kids |-> <<>>, st |-> st], n.kids)
RuleAbove(n, r, below) ==
    IF \E k \in DOMAIN below.kids : below.kids[k] = Err THEN [node |-> Err, st |-> below.st]
    ELSE Rule([n EXCEPT !.kids = below.kids], r, below.st)
TransformUp(n, r, st) == RuleAbove(n, r, TransformKids(n, r, st))
Up(n, r) == TransformUp(n, r, <<>>).node
UpBy(n, name) == Up(n, [rule |-> name])

-----------------------------------------------------------------------------
(* The rules that run once before the others *)

\* resolveViews
resolveViews(n) ==
    IF n.op = "utable" /\ n.table \in DOMAIN Views
    THEN SubqueryAlias(n.table, convertSelectStatement(Views[n.table])) ELSE n

RECURSIVE Analyze(_)
\* resolveSubqueries.  The schema that the SubqueryAlias is asked for next, in
\* qualifyColumns, is the one it keeps.
WithAnalyzed(n, child) ==
    IF child = Err THEN Err
    ELSE [n EXCEPT !.kids = <<child>>,
                   !.schema = [i \in 1 .. Width(child) |-> Column(Schema(child)[i].name, n.table)]]
resolveSubqueries(n) == IF n.op # "subquery" THEN n ELSE WithAnalyzed(n, Analyze(n.kids[1]))

\* resolveTables
resolveTables(n) ==
    IF n.op # "utable" THEN n ELSE IF n.table \in DOMAIN Columns THEN Table(n.table) ELSE Err

\* checkAliases: no projection may use an alias that it defines
RECURSIVE UsesAlias(_, _)
UsesAlias(e, a) ==
    IF e.op = "alias" THEN e.alias # a /\ UsesAlias(e.kid, a)
    ELSE \/ IsNameable(e) /\ NameOf(e) = a
         \/ \E i \in DOMAIN ExprKids(e) : UsesAlias(ExprKids(e)[i], a)
checkAliases(n) ==
    IF \E p \in ToSet(NodesOf(n)) :
          /\ p.op = "project"
          /\ \E a \in ToSet(SubExprsOf(p.exprs)) :
                a.op = "alias" /\ \E i \in DOMAIN p.exprs : UsesAlias(p.exprs[i], a.alias)
    THEN Err ELSE n

-----------------------------------------------------------------------------
(* Names *)

\* resolveNaturalJoin, with the replacements it adds.  A TableAlias whose child is not a
\* table makes the conversion in resolveNaturalJoins panic.
resolveNaturalJoin(n, st) ==
    LET ls == Schema(n.kids[1])
        rs == Schema(n.kids[2])
        at == [i \in DOMAIN ls |-> {j \in DOMAIN rs : rs[j].name = ls[i].name}]
        left(i) == Field(i, ls[i].source, ls[i].name)
        right(j) == Field(Len(ls) + j, rs[j].source, rs[j].name)
        common == SelectSeq([i \in DOMAIN ls |-> i], LAMBDA i : at[i] # {})
        others == SelectSeq([i \in DOMAIN ls |-> i], LAMBDA i : at[i] = {})
        key(i) == LET j == Min(at[i]) IN <<rs[j].source, rs[j].name>>
        add(m, i) == (key(i) :> <<ls[i].source, ls[i].name>>) @@ m
        replacements == FoldLeft(add, st.replacements, common)
        rest == SelectSeq([j \in DOMAIN rs |-> j],
                          LAMBDA j : <<rs[j].source, rs[j].name>> \notin DOMAIN replacements)
        conds == [k \in DOMAIN common |-> Bin("=", left(common[k]), right(Min(at[common[k]])))]
    IN  IF ~Resolved(n.kids[1]) \/ ~Resolved(n.kids[2]) THEN [node |-> n, st |-> st]
        ELSE IF common = <<>> THEN [node |-> CrossJoin(n.kids[1], n.kids[2]), st |-> st]
        ELSE [node |-> Project([k \in DOMAIN common |-> left(common[k])]
                                 \o [k \in DOMAIN others |-> left(others[k])]
                                 \o [k \in DOMAIN rest |-> right(rest[k])],
                               Join("inner", JoinAnd(conds), n.kids[1], n.kids[2])),
              st |-> [st EXCEPT !.replacements = replacements]]

resolveNaturalJoins(n, st) ==
    CASE n.op = "talias" ->
            IF n.kids[1].op # "table" THEN [node |-> Err, st |-> st]
            ELSE [node |-> n, st |-> [st EXCEPT !.aliases = (n.table :> n.kids[1].table) @@ @]]
      [] n.op = "natural" -> resolveNaturalJoin(n, st)
      [] OTHER -> [node |-> TransformExprs(n, [rule |-> "replace", replacements |-> st.replacements,
                                               aliases |-> st.aliases]),
                   st |-> st]

\* getNodeAvailableColumns and getNodeAvailableTables
RECURSIVE AvailableColumns(_)
AvailableColumns(n) ==
    LET listed(es) == {Column(NameOf(e), TableOf(e)) :
                          e \in {x \in ToSet(es) : x.op \in {"alias", "field", "ucol"}}}
    IN  CASE n.op \in {"table", "subquery"} -> ToSet(Schema(n))
          [] n.op = "project" -> listed(n.exprs)
          [] n.op = "groupby" -> listed(Aggregates(n))
          [] OTHER -> UNION {AvailableColumns(n.kids[k]) : k \in DOMAIN n.kids}

RECURSIVE AvailableTables(_, _)
AvailableTables(tables, n) ==
    CASE n.op \in {"subquery", "table"} -> (n.table :> n.table) @@ tables
      [] n.op = "talias" ->
            IF n.kids[1].op \notin {"table", "utable"} THEN tables
            ELSE (n.kids[1].table :> n.kids[1].table) @@ (n.table :> n.kids[1].table) @@ tables
      [] OTHER -> FoldLeft(AvailableTables, tables, n.kids)

qualifyColumns(n) ==
    IF Resolved(n) THEN n
    ELSE TransformExprs(n, [rule |-> "qualify",
                            columns |-> UNION {AvailableColumns(n.kids[k]) : k \in DOMAIN n.kids},
                            tables |-> FoldLeft(AvailableTables, <<>>, n.kids)])

resolveColumns(n) ==
    IF Resolved(n) \/ \E k \in DOMAIN n.kids : ~Resolved(n.kids[k]) THEN n
    ELSE TransformExprs(n, [rule |-> "resolve", schema |-> KidSchemas(n)])

\* resolveStar
StarFields(s, schema) ==
    LET at == SelectSeq([i \in DOMAIN schema |-> i], LAMBDA i : s.star \in {"", schema[i].source})
    IN  [k \in DOMAIN at |-> Field(at[k], schema[at[k]].source, schema[at[k]].name)]
expandStars(es, schema) ==
    FlattenSeq([i \in DOMAIN es |-> IF es[i].op = "star" THEN StarFields(es[i], schema) ELSE <<es[i]>>])
resolveStar(n) ==
    LET es == IF n.op = "project" THEN n.exprs ELSE Aggregates(n)
        schema == Schema(n.kids[1])
    IN  IF n.op \notin {"project", "groupby"} \/ Resolved(n) \/ ~Resolved(n.kids[1]) THEN n
        ELSE IF \E i \in DOMAIN es : es[i].op = "star" /\ es[i].star # "" /\ StarFields(es[i], schema) = <<>>
        THEN Err
        ELSE IF n.op = "project" THEN Project(expandStars(es, schema), n.kids[1])
        ELSE GroupBy(expandStars(es, schema), Grouping(n), n.kids[1])

resolveFunctions(n) == IF Resolved(n) THEN n ELSE TransformExprs(n, [rule |-> "functions"])

-----------------------------------------------------------------------------
(* ORDER BY *)

resolveOrderByLiterals(n) ==
    LET schema == Schema(n.kids[1])
        position(e) == e.op = "lit" /\ ~e.bool
        field(e) == IF position(e) THEN UCol("", schema[e.v].name)
                    ELSE IF e.op = "agg" THEN UCol("", Str(e))
                    ELSE e
    IN  IF n.op # "sort" \/ ~Resolved(n.kids[1]) THEN n
        ELSE IF \E i \in DOMAIN n.exprs : position(n.exprs[i]) /\ n.exprs[i].v \notin DOMAIN schema THEN Err
        ELSE Sort([i \in DOMAIN n.exprs |-> field(n.exprs[i])], n.desc, n.kids[1])

\* pushSortDown
RECURSIVE pushSortDown(_)
WithKid(n, kid) == IF kid = Err THEN Err ELSE [n EXCEPT !.kids = <<kid>>]
SortBelow(s, child) == [s EXCEPT !.kids = child.kids]
pushSortDown(s) ==
    LET child == s.kids[1]
    IN  IF child.op \in {"project", "groupby"} THEN WithKid(child, SortBelow(s, child))
        ELSE IF child.op = "table" THEN s
        ELSE IF Len(child.kids) # 1 THEN Err
        ELSE WithKid(child, pushSortDown(SortBelow(s, child)))

\* The columns an operation makes, and as its parent sees them
Made(n) == IF n.op = "groupby" THEN Aggregates(n) ELSE IF n.op = "project" THEN n.exprs ELSE <<>>
AsFields(es) == [i \in DOMAIN es |-> Field(i, TableOf(es[i]), NameOf(es[i]))]

\* fixSortDependencies.  The code writes the fields into the old node's slice of
\* expressions; only the node that is replaced here still has that slice, because
\* every rule that resolves expressions makes a new one.
fixSortDependencies(s, missing) ==
    LET child == s.kids[1]
        more == Made(child) \o [i \in DOMAIN missing |-> UCol("", missing[i])]
        below == IF child.op = "project" THEN Project(more, child.kids[1])
                 ELSE GroupBy(more, Grouping(child), child.kids[1])
    IN  IF child.op \notin {"project", "groupby"} THEN Err
        ELSE Project(AsFields(Made(child)), Sort(s.exprs, s.desc, below))

resolveOrderBy(n) ==
    LET child == n.kids[1]
        made == {e.alias : e \in {x \in ToSet(Made(child)) : x.op = "alias"}}
        known == {c.name : c \in ToSet(Schema(child))}
        names == FlattenSeq([i \in DOMAIN n.exprs |-> findExprNameables(n.exprs[i])])
        missing == SelectSeq(names, LAMBDA x : x \notin made \union known)
    IN  IF n.op # "sort" \/ ~Resolved(child) \/ missing = <<>> THEN n
        ELSE IF ToSet(names) \intersect made = {} THEN pushSortDown(n)
        ELSE fixSortDependencies(n, missing)

-----------------------------------------------------------------------------
(* GROUP BY and HAVING *)

\* findAllColumns
ColumnNames(es) == {e.name : e \in {x \in ToSet(SubExprsOf(es)) : x.op = "ucol"}}

\* resolveGroupingColumns: an alias that GROUP BY uses is computed below the GroupBy,
\* with the columns that the rest of it needs; a column with the name of such an alias
\* is given another name
resolveGroupingColumns(n) ==
    LET aggs == Aggregates(n)
        grouping == ColumnNames(Grouping(n))
        needed == ColumnNames(SelectSeq(aggs, LAMBDA e : e.op # "alias" \/ e.alias \notin grouping))
        \* one expression: what stays, what goes below, the places of the aliases
        step(acc, e) ==
            IF e.op # "alias" \/ containsAggregation(e) \/ e.alias \notin acc.left
            THEN [acc EXCEPT !.new = Append(@, e)]
            ELSE [new |-> Append(acc.new, UCol("", e.alias)), below |-> Append(acc.below, e),
                  aliases |-> (e.alias :> Len(acc.new) + 1) @@ acc.aliases, left |-> acc.left \ {e.alias}]
        acc == FoldLeft(step, [new |-> <<>>, below |-> <<>>, aliases |-> <<>>, left |-> grouping], aggs)
        missing == SetToSeq(needed) \o SetToSeq(acc.left)
        renames == [c \in ToSet(missing) \intersect DOMAIN acc.aliases |-> c \o <<"_01">>]
        column(c) == IF c \in DOMAIN renames THEN Alias(renames[c], UCol("", c)) ELSE UCol("", c)
        renamed == [i \in DOMAIN acc.new |->
                      TransformExpr(acc.new[i], [rule |-> "rename", renames |-> renames,
                                                 aliases |-> acc.aliases, at |-> i])]
    IN  IF n.op # "groupby" \/ Resolved(n) \/ Grouping(n) = <<>> \/ acc.below = <<>> THEN n
        ELSE GroupBy(renamed, Grouping(n),
                     Project(acc.below \o [i \in DOMAIN missing |-> column(missing[i])], n.kids[1]))

\* The aggregations of an expression, each replaced by a field with its number as a token
RECURSIVE Detach(_, _)
Detach(e, k) ==
    LET l == Detach(e.l, k)
        r == Detach(e.r, k + Len(l.aggs))
        x == Detach(e.kid, k)
    IN  CASE e.op = "agg" -> [e |-> Field(-(k + 1), "", Str(e)), aggs |-> <<e>>]
          [] e.op = "bin" -> [e |-> Bin(e.fn, l.e, r.e), aggs |-> l.aggs \o r.aggs]
          [] e.op \in {"alias", "ufun"} -> [e |-> [e EXCEPT !.kid = x.e], aggs |-> x.aggs]
          [] OTHER -> [e |-> e, aggs |-> <<>>]

\* fixAggregations: plain expressions and aggregations apart, put together by a Project
fixAggregations(n) ==
    LET step(acc, p) ==
            LET d == Detach(p, Len(acc.aggs))
                fields == [k \in 1 .. (Len(acc.aggs) + Len(d.aggs)) |->
                             IF k <= Len(acc.aggs) THEN Lit(0)
                             ELSE Field(k, "", Str(d.aggs[k - Len(acc.aggs)]))]
            IN  IF d.aggs = <<>>
                THEN [aggs |-> Append(acc.aggs, p),
                      exprs |-> Append(acc.exprs, Field(Len(acc.aggs) + 1, TableOf(p), NameOf(p)))]
                ELSE [aggs |-> acc.aggs \o d.aggs,
                      exprs |-> Append(acc.exprs, TransformExpr(d.e, [rule |-> "tokens", columns |-> fields]))]
        acc == FoldLeft(step, [aggs |-> <<>>, exprs |-> <<>>], Aggregates(n))
    IN  Project(acc.exprs, GroupBy(acc.aggs, Grouping(n), n.kids[1]))

\* mutant: an aggregation by itself counts as hidden
containsHiddenAggregationAny(e) == containsAggregation(e)

containsHiddenAggregation(e) == e.op # "agg" /\ containsAggregation(e)
reorderAggregations(n) ==
    IF n.op = "groupby" /\ \E i \in 1 .. n.aggregates : containsHiddenAggregation(n.exprs[i])
    THEN fixAggregations(n) ELSE n

\* findGroupBy: Err when there is none
RECURSIVE findGroupBy(_)
findGroupBy(n) ==
    IF Len(n.kids) # 1 THEN Err
    ELSE IF n.kids[1].op = "groupby" THEN n.kids[1] ELSE findGroupBy(n.kids[1])

\* What the columns of a GroupBy may be carried through on their way up to the Having
Carriers == {"filter", "sort", "limit", "offset", "distinct", "having"}

CarryColumns(n, cols, child) ==
    LET base == Width(child) - Len(cols)
    IN  IF child = Err THEN Err
        ELSE IF n.op \in Carriers THEN [n EXCEPT !.kids = <<child>>]
        ELSE Project(n.exprs \o [i \in DOMAIN cols |-> Field(base + i, TableOf(cols[i]), NameOf(cols[i]))], child)
RECURSIVE addColumnsToGroupBy(_, _)
addColumnsToGroupBy(n, cols) ==
    IF n.op = "groupby" THEN GroupBy(Aggregates(n) \o cols, Grouping(n), n.kids[1])
    ELSE IF n.op \in Carriers \union {"project"} THEN CarryColumns(n, cols, addColumnsToGroupBy(n.kids[1], cols))
    ELSE Err

\* pushColumnsUp: the columns cols of the GroupBy, and where they are above.  A column
\* that a Project does not have yet gets the position in the Project as its index.
ProjectColumns(n, below, schema) ==
    LET seen(c) == {i \in DOMAIN n.exprs :
                      LET e == n.exprs[i] IN \/ e.op = "field" /\ e.at = c
                                             \/ e.op = "alias" /\ e.kid.op = "field" /\ e.kid.at = c}
        step(acc, c) ==
            IF seen(c) # {} THEN [acc EXCEPT !.cols = Append(@, Max(seen(c)))]
            ELSE [exprs |-> Append(acc.exprs, Field(Len(acc.exprs) + 1, schema[c].source, schema[c].name)),
                  cols |-> Append(acc.cols, Len(acc.exprs) + 1)]
    IN  FoldLeft(step, [exprs |-> n.exprs, cols |-> <<>>], below.cols)
PushUp(n, below) ==
    LET project(acc) == [node |-> Project(acc.exprs, below.node), cols |-> acc.cols]
    IN  IF below.node = Err THEN below
        ELSE IF n.op \in Carriers THEN [below EXCEPT !.node = [n EXCEPT !.kids = <<below.node>>]]
        ELSE project(ProjectColumns(n, below, Schema(below.node)))
RECURSIVE pushColumnsUp(_, _)
pushColumnsUp(n, cols) ==
    IF n.op = "groupby" THEN [node |-> n, cols |-> cols]
    ELSE IF n.op \in Carriers \union {"project"} THEN PushUp(n, pushColumnsUp(n.kids[1], cols))
    ELSE [node |-> Err, cols |-> <<>>]

\* aggregationEquals: any two COUNTs are equal
aggregationEquals(a, b) ==
    LET c == IF b.op = "alias" THEN b.kid ELSE b
    IN  /\ c.op = "agg" /\ c.agg = a.agg
        /\ \/ a.agg \in {"count", "countdistinct"}
           \/ TransformExpr(a.kid, [rule |-> "child", fields |-> FieldsOf(<<c.kid>>)]) = c.kid

\* replaceAggregations: the Having over fields instead of aggregations, and whether that
\* has changed its schema.  places has, for each aggregation that d has detached from the
\* condition, the columns of the GroupBy that are equal to it.
NoHaving == [node |-> Err, grown |-> FALSE]
HavingOver(h, d, final, up) ==
    [node |-> Having(TransformExpr(d.e, [rule |-> "tokens", columns |-> final]), up.kids[1]),
     grown |-> Width(up) # Width(h)]
HavingFields(h, d, places, up, schema) ==
    [k \in DOMAIN d.aggs |->
        LET before(empty) == Cardinality({i \in 1 .. k : (places[i] = {}) = empty})
            i == up.cols[before(FALSE)]
        IN  IF places[k] = {} THEN Field(Width(h.kids[1]) + before(TRUE), "", Str(d.aggs[k]))
            ELSE Field(i, schema[i].source, schema[i].name)]
ReplaceUp(h, d, places, up) ==
    IF up.node = Err THEN NoHaving
    ELSE HavingOver(h, d, HavingFields(h, d, places, up, Schema(up.node)), up.node)
ReplaceAdded(h, d, places, added) ==
    LET found == SelectSeq([k \in DOMAIN places |-> k], LAMBDA k : places[k] # {})
    IN  IF added = Err THEN NoHaving
        ELSE ReplaceUp(h, d, places, pushColumnsUp(added, [k \in DOMAIN found |-> Min(places[found[k]])]))
ReplaceNew(h, d, places) ==
    LET new == SelectSeq([k \in DOMAIN places |-> k], LAMBDA k : places[k] = {})
    IN  ReplaceAdded(h, d, places, addColumnsToGroupBy(h, [k \in DOMAIN new |-> d.aggs[new[k]]]))
ReplaceIn(h, g, d) ==
    IF g = Err THEN NoHaving
    ELSE ReplaceNew(h, d, [k \in DOMAIN d.aggs |->
                            {i \in 1 .. g.aggregates : aggregationEquals(d.aggs[k], g.exprs[i])}])
replaceAggregations(h) == ReplaceIn(h, findGroupBy(h), Detach(h.exprs[1], 0))

AllFields(schema) == [i \in DOMAIN schema |-> Field(i, schema[i].source, schema[i].name)]

\* pushMissingColumnsUp
MissingFields(schema, missing) ==
    [k \in DOMAIN missing |->
        LET i == Min({j \in DOMAIN schema : schema[j].name = missing[k]})
        IN  Field(i, schema[i].source, schema[i].name)]
pushMissing(h, schema, missing) ==
    IF ToSet(missing) \subseteq {c.name : c \in ToSet(schema)}
    THEN addColumnsToGroupBy(h, MissingFields(schema, missing)) ELSE Err
pushMissingColumnsUp(h, g, missing) == IF g = Err THEN Err ELSE pushMissing(h, Schema(g.kids[1]), missing)

\* resolveHaving; a Project takes away the columns it has added for the condition
HavingColumns(h) ==
    SelectSeq(findExprNameables(h.exprs[1]), LAMBDA x : x \notin {c.name : c \in ToSet(Schema(h))})
HavingProject(schema, h) == IF h = Err THEN Err ELSE Project(AllFields(schema), h)
HavingWith(n, r, missing) ==
    IF missing = <<>> /\ ~r.grown THEN r.node
    ELSE HavingProject(Schema(n), IF missing = <<>> THEN r.node
                                  ELSE pushMissingColumnsUp(r.node, findGroupBy(r.node), missing))
HavingAfter(n, r) == IF r.node = Err THEN Err ELSE HavingWith(n, r, HavingColumns(r.node))
resolveHaving(n) ==
    IF n.op # "having" \/ ~Resolved(n.kids[1]) THEN n
    ELSE HavingAfter(n, IF containsAggregation(n.exprs[1]) THEN replaceAggregations(n)
                        ELSE [node |-> n, grown |-> FALSE])

-----------------------------------------------------------------------------
(* The other default rules *)

\* mergeUnionSchemas, for columns of one type
mergeUnionSchemas(n) == IF n.op = "union" /\ Width(n.kids[1]) # Width(n.kids[2]) THEN Err ELSE n

\* reorderProjection: a Sort or a Filter below the Project needs an alias that the Project
\* makes, so it is made below that.  st has the aliases not yet made.
reorderBelow(n, st) ==
    LET required == SelectSeq(SubExprsOf(n.exprs), LAMBDA e : e.op \in {"ucol", "dcol"} /\ e.tbl = "" /\ e.name \in DOMAIN st.new)
        names == DistinctOf([i \in DOMAIN required |-> required[i].name])
    IN  IF n.op \notin {"sort", "filter"} \/ required = <<>> THEN [node |-> n, st |-> st]
        ELSE [node |-> [n EXCEPT !.kids = <<Project(AllFields(Schema(n.kids[1]))
                                                      \o [i \in DOMAIN names |-> st.new[names[i]]],
                                                    n.kids[1])>>],
              st |-> [did |-> TRUE, new |-> [a \in DOMAIN st.new \ ToSet(names) |-> st.new[a]]]]

ReorderedProject(n, child, schema) ==
    LET at(a) == {i \in DOMAIN schema : schema[i].name = a}
        below(e) == IF e.op = "alias" /\ at(e.alias) # {} THEN Field(Min(at(e.alias)), "", e.alias) ELSE e
    IN  IF child = Err THEN Err ELSE Project([i \in DOMAIN n.exprs |-> below(n.exprs[i])], child)
ReorderedOver(n, child) == ReorderedProject(n, child, Schema(child))
ReorderedWith(n, u) == IF ~u.st.did THEN n ELSE ReorderedOver(n, UpBy(u.node, "resolve_columns"))
reorderProjection(n) ==
    LET new == [a \in {e.alias : e \in {x \in ToSet(n.exprs) : x.op = "alias"}} |->
                  Last(SelectSeq(n.exprs, LAMBDA e : e.op = "alias" /\ e.alias = a))]
    IN  IF n.op # "project" \/ Has(n.kids[1], {"natural"}) THEN n
        ELSE ReorderedWith(n, TransformUp(n.kids[1], [rule |-> "reorder_below"], [did |-> FALSE, new |-> new]))

\* moveJoinConditionsToFilter: what only one side is needed for becomes a Filter there
Sources(schema) == {c.source : c \in ToSet(schema)}
TablesOf(e) == {f.tbl : f \in ToSet(FieldsOf(<<e>>))}
Moving(conds, schema) == SelectSeq(conds, LAMBDA e : TablesOf(e) \subseteq Sources(schema))
FilterOrErr(e, n) == IF e = Err THEN Err ELSE Filter(e, n)
FilteredSide(n, moves) == IF moves = <<>> THEN n ELSE FilterOrErr(fixFieldIndexes(Schema(n), JoinAnd(moves)), n)
JoinSides(l, r, stay) ==
    IF Err \in {l, r} THEN Err
    ELSE IF stay = <<>> THEN CrossJoin(l, r)
    ELSE Join("inner", JoinAnd(stay), l, r)
MoveConditions(n, conds, left, right) ==
    JoinSides(FilteredSide(n.kids[1], left), FilteredSide(n.kids[2], right),
              SelectSeq(conds, LAMBDA e : e \notin ToSet(left) \union ToSet(right)))
SplitMoves(n, conds) ==
    MoveConditions(n, conds, Moving(conds, Schema(n.kids[1])), Moving(conds, Schema(n.kids[2])))
moveJoinConditionsToFilter(n) ==
    IF n.op # "join" \/ n.typ # "inner" THEN n ELSE SplitMoves(n, splitConjunction(n.exprs[1]))

EvaluatedFilter(e, n) ==
    IF IsBool(e, 0) THEN Node("empty", <<>>, <<>>)
    ELSE IF IsBool(e, 1) THEN n.kids[1]
    ELSE Filter(e, n.kids[1])
evalFilter(n) ==
    IF n.op # "filter" THEN n ELSE EvaluatedFilter(TransformExpr(n.exprs[1], [rule |-> "eval"]), n)

\* optimizeDistinct
RECURSIVE TopSorts(_)
TopSorts(n) ==
    IF n.op = "sort" THEN <<n>> ELSE FlattenSeq([k \in DOMAIN n.kids |-> TopSorts(n.kids[k])])
optimizeDistinct(n) ==
    LET sorts == SelectSeq(TopSorts(n), LAMBDA s : s.exprs[1].op = "field")
        f == sorts[1].exprs[1]
    IN  IF n.op = "distinct" /\ sorts # <<>> /\ Places(Schema(n), f.tbl, f.name) # {}
        THEN OrderedDistinct(n.kids[1]) ELSE n

-----------------------------------------------------------------------------
(* Columns that nobody uses *)

Names(es) == {<<f.tbl, f.name>> : f \in ToSet(FieldsOf(es))}

RECURSIVE findUsedColumns(_)
findUsedColumns(n) ==
    LET made == SelectSeq(Made(n), LAMBDA e : e.op # "field")
    IN  IF n.op = "subquery" THEN {}
        ELSE (CASE n.op = "project" -> Names(made)
                [] n.op = "groupby" -> Names(made \o Grouping(n))
                [] OTHER -> Names(Exprs(n)))
               \union UNION {findUsedColumns(n.kids[k]) : k \in DOMAIN n.kids}

WithColumns(n, remaining) ==
    IF remaining = <<>> THEN n.kids[1]
    ELSE IF n.op = "project" THEN Project(remaining, n.kids[1])
    ELSE GroupBy(remaining, Grouping(n), n.kids[1])
pruneUnusedColumns(n, used) ==
    IF n.op \notin {"project", "groupby"} THEN n
    ELSE WithColumns(n, SelectSeq(Made(n), LAMBDA e : e.op # "field" \/ e.tbl = "" \/ <<e.tbl, e.name>> \in used))

OrErr(n, r) == IF n = Err THEN Err ELSE Up(n, r)
PruneBelow(n, used) ==
    OrErr(Up(n, [rule |-> "prune", used |-> used]), [rule |-> "prune_subqueries", used |-> used])

\* pruneSubqueryColumns: of columns with the same name, the source of the last.  The
\* SubqueryAlias keeps the schema it had.
SubqueryColumns(schema, wanted) ==
    {<<schema[Max({i \in DOMAIN schema : schema[i].name = c})].source, c>> : c \in wanted}
PruneSubquery(n, schema, wanted) ==
    IF wanted \subseteq {c.name : c \in ToSet(schema)}
    THEN WithKid(n, PruneBelow(n.kids[1], SubqueryColumns(schema, wanted) \union findUsedColumns(n.kids[1])))
    ELSE Err
pruneSubqueryColumns(n, used) ==
    IF n.op # "subquery" THEN n
    ELSE PruneSubquery(n, Schema(n.kids[1]), {u[2] : u \in {x \in used : x[1] = n.table}})

Reindexed(n, schema) == IF schema = <<>> THEN n ELSE TransformExprs(n, [rule |-> "reindex", schema |-> schema])
fixRemainingFieldsIndexes(n) ==
    IF n.op = "subquery" THEN WithKid(n, UpBy(n.kids[1], "fix_remaining")) ELSE Reindexed(n, KidSchemas(n))

pruneColumns(n) ==
    IF ~Resolved(n) THEN n
    ELSE OrErr(PruneBelow(n, {<<c.source, c.name>> : c \in ToSet(Schema(n))} \union findUsedColumns(n)),
               [rule |-> "fix_remaining"])

-----------------------------------------------------------------------------
(* Filters and columns that the table takes care of, and indexes in joins *)

\* fixFieldIndexesForExpressions
WithCondition(n, cond) == IF cond = Err THEN Err ELSE [n EXCEPT !.exprs = <<cond>>]
FixCondition(m) == IF m.op # "join" THEN m ELSE WithCondition(m, fixFieldIndexes(Schema(m), m.exprs[1]))
fixFieldIndexesForExpressions(n) ==
    IF n.kids = <<>> THEN n
    ELSE FixCondition(TransformExprs(n, [rule |-> "fixany", schemas |-> [k \in DOMAIN n.kids |-> Schema(n.kids[k])]]))

\* findFieldsByTable: the columns of a table in the order of their first use
findFieldsByTable(n, t) ==
    LET fields == FieldsOf(FlattenSeq([i \in DOMAIN NodesOf(n) |-> Exprs(NodesOf(n)[i])]))
        ofTable == SelectSeq(fields, LAMBDA f : f.tbl = t)
    IN  DistinctOf([i \in DOMAIN ofTable |-> ofTable[i].name])

\* findFilters and exprToTableFilters: the conditions that are about one table only
findFilters(n, t) ==
    LET filters == SelectSeq(NodesOf(n), LAMBDA m : m.op = "filter")
        conds == FlattenSeq([i \in DOMAIN filters |-> splitConjunction(filters[i].exprs[1])])
    IN  SelectSeq(conds, LAMBDA e : TablesOf(e) = {t})

\* mutant: a filter that the table handles is about the columns it is projected to
HandledFiltersProjected(n, filters, names) ==
    [i \in DOMAIN filters |-> fixFieldIndexes([k \in DOMAIN names |-> Column(names[k], n.table)], filters[i])]

\* pushdownTable for a memory table, which handles every filter that is about it
HandledFilters(n, filters, names) == [i \in DOMAIN filters |-> fixFieldIndexes(Schema(n), filters[i])]
WithPushdown(n, filters, names) ==
    LET place(c) == CHOOSE i \in DOMAIN Columns[n.table] : Columns[n.table][i] = c
    IN  IF \E i \in DOMAIN filters : filters[i] = Err THEN Err
        ELSE [n EXCEPT !.filters = filters,
                       !.cols = IF names = <<>> THEN @ ELSE [k \in DOMAIN names |-> place(names[k])]]
PushdownBoth(n, filters, names) == WithPushdown(n, HandledFilters(n, filters, names), names)
pushdownTable(n, root) == PushdownBoth(n, findFilters(root, n.table), findFieldsByTable(root, n.table))

\* pushdownFilter
FilterRest(n, unhandled) == IF unhandled = <<>> THEN n.kids[1] ELSE Filter(JoinAnd(unhandled), n.kids[1])
pushdownFilter(n, handled) ==
    IF handled = {} THEN n
    ELSE FilterRest(n, SelectSeq(splitConjunction(n.exprs[1]), LAMBDA e : e \notin handled))

\* transformPushdown: handled are the filters that tables so far have taken
transformPushdown(n, root, handled) ==
    IF n.op = "table" THEN [node |-> pushdownTable(n, root), st |-> handled \union ToSet(findFilters(root, n.table))]
    ELSE [node |-> fixFieldIndexesForExpressions(IF n.op = "filter" THEN pushdownFilter(n, handled) ELSE n),
          st |-> handled]

\* pushdown, without the lookups of AssignIndexes
pushdown(n) ==
    IF ~Resolved(n) \/ \E m \in ToSet(NodesOf(n)) : m.op = "join" /\ m.typ # "inner" THEN n
    ELSE TransformUp(n, [rule |-> "pushdown", root |-> n], {}).node

\* joinExprsByTable: the sides of the equalities that are about table t
joinExprsByTable(conds, t) ==
    LET sides(e) == IF \/ e.op # "bin" \/ e.fn # "="
                       \/ Cardinality(TablesOf(e.l)) # 1 \/ Cardinality(TablesOf(e.r)) # 1
                    THEN <<>> ELSE <<e.l, e.r>>
    IN  SelectSeq(FlattenSeq([i \in DOMAIN conds |-> sides(conds[i])]), LAMBDA e : TablesOf(e) = {t})

\* IndexByExpression: every expression of the index is among these, which may be more
IndexFor(t, es) ==
    {i \in Indexes : i[1] = t /\ \A c \in ToSet(i[2]) : \E e \in ToSet(es) : e.op = "field" /\ e.name = c}

\* findJoinIndexes and getJoinIndexes: the indexes for table t, of the last join of the plan
findJoinIndexes(root, t) ==
    LET joins == SelectSeq(NodesOf(root), LAMBDA m : m.op = "join")
        conds == splitConjunction(Last(joins).exprs[1])
    IN  IF joins # <<>> /\ \A i \in DOMAIN conds : conds[i].op = "bin" /\ conds[i].fn = "="
        THEN IndexFor(t, joinExprsByTable(conds, t)) ELSE {}

findTableName(n) ==
    LET tables == SelectSeq(NodesOf(n), LAMBDA m : m.op = "table")
    IN  IF tables = <<>> THEN "" ELSE Last(tables).table

\* analyzeJoinIndexes and transformJoins: the side with an index is the secondary one
IndexedOver(n, cond, keys, primary, secondary) ==
    IF cond = Err THEN Err ELSE IndexedJoin(n.typ, cond, keys, primary, secondary)
PlacesIn(t, index) == [i \in DOMAIN index |-> CHOOSE c \in DOMAIN Columns[t] : Columns[t][c] = index[i]]
IndexedKeys(n, found, keys, p, s) ==
    IF \E i \in DOMAIN keys : keys[i] = Err THEN n
    ELSE IndexedOver(n, fixFieldIndexes(Schema(n.kids[p]) \o Schema(n.kids[s]), n.exprs[1]), keys, n.kids[p],
                     Up(n.kids[s], [rule |-> "indexed", index |-> (CHOOSE i \in found : TRUE)[2]]))
FixKeys(keys, schema) == [i \in DOMAIN keys |-> fixFieldIndexes(schema, keys[i])]
KeysOf(n, p) == joinExprsByTable(splitConjunction(n.exprs[1]), findTableName(n.kids[p]))
Usable(n, root, p, s) == findJoinIndexes(root, findTableName(n.kids[s])) # {} /\ KeysOf(n, p) # <<>>
IndexedWith(n, root, p, s) ==
    IndexedKeys(n, findJoinIndexes(root, findTableName(n.kids[s])), FixKeys(KeysOf(n, p), Schema(n.kids[p])), p, s)
transformJoins(n, root) ==
    IF n.op # "join" THEN n
    ELSE IF n.typ # "right" /\ Usable(n, root, 1, 2) THEN IndexedWith(n, root, 1, 2)
    ELSE IF n.typ # "left" /\ Usable(n, root, 2, 1) THEN IndexedWith(n, root, 2, 1)
    ELSE n

FixIndexes(joined) ==
    IF joined = Err \/ ~Has(joined, {"ijoin"}) THEN joined ELSE UpBy(joined, "fix_indexes")
optimizeJoins(n) ==
    IF ~Resolved(n) \/ Len(SelectSeq(NodesOf(n), LAMBDA m : m.op = "table")) > 2 THEN n
    ELSE FixIndexes(Up(n, [rule |-> "join", root |-> n]))

\* eraseProjection
eraseProjection(n) == IF n.op = "project" /\ Schema(n) = Schema(n.kids[1]) THEN n.kids[1] ELSE n

-----------------------------------------------------------------------------
(* Validation, and the rule that runs last *)

validateOrderBy(n) == IF n.op = "sort" /\ \E i \in DOMAIN n.exprs : n.exprs[i].op = "agg" THEN Err ELSE n

\* validateGroupBy, only when the plan is a GroupBy
RECURSIVE isValidAgg(_, _)
isValidAgg(valid, e) ==
    IF e.op = "alias" THEN isValidAgg(valid, e.kid) ELSE e.op = "agg" \/ Str(e) \in valid
validateGroupBy(n) ==
    IF /\ n.op = "groupby" /\ Grouping(n) # <<>>
       /\ \E i \in 1 .. n.aggregates : ~isValidAgg({Str(e) : e \in ToSet(Grouping(n))}, n.exprs[i])
    THEN Err ELSE n

validateUnionSchemasMatch(n) ==
    IF \E m \in ToSet(NodesOf(n)) : m.op = "union" /\ Width(m.kids[1]) # Width(m.kids[2]) THEN Err ELSE n

isParallelizable(n) ==
    /\ \A m \in ToSet(NodesOf(n)) :
          m.op \in {"filter", "project", "talias", "exchange", "table", "iaccess"}
    /\ Last(NodesOf(n)).op \in {"table", "iaccess"}

\* parallelize and removeRedundantExchanges
withoutExchanges(n) == IF n.op = "exchange" THEN n.kids[1] ELSE n
removeRedundantExchanges(n) ==
    IF n.op = "exchange" THEN Exchange(UpBy(n.kids[1], "without_exchanges")) ELSE n
parallelize(n) ==
    IF parallelism <= 1 \/ ~Resolved(n) THEN n
    ELSE UpBy(UpBy(n, "exchange"), "remove_redundant")

-----------------------------------------------------------------------------
(* Rules and batches *)

\* What the closure of a rule does to one node
Rule(n, r, st) ==
    LET just(m) == [node |-> m, st |-> st]
    IN  CASE r.rule = "resolve_views" -> just(resolveViews(n))
          [] r.rule = "resolve_subqueries" -> just(resolveSubqueries(n))
          [] r.rule = "resolve_tables" -> just(resolveTables(n))
          [] r.rule = "resolve_natural_joins" -> resolveNaturalJoins(n, st)
          [] r.rule = "resolve_orderby_literals" -> just(resolveOrderByLiterals(n))
          [] r.rule = "resolve_orderby" -> just(resolveOrderBy(n))
          [] r.rule = "resolve_grouping_columns" -> just(resolveGroupingColumns(n))
          [] r.rule = "qualify_columns" -> just(qualifyColumns(n))
          [] r.rule = "resolve_columns" -> just(resolveColumns(n))
          [] r.rule = "resolve_star" -> just(resolveStar(n))
          [] r.rule = "resolve_functions" -> just(resolveFunctions(n))
          [] r.rule = "resolve_having" -> just(resolveHaving(n))
          [] r.rule = "merge_union_schemas" -> just(mergeUnionSchemas(n))
          [] r.rule = "reorder_aggregations" -> just(reorderAggregations(n))
          [] r.rule = "reorder_projection" -> just(reorderProjection(n))
          [] r.rule = "reorder_below" -> reorderBelow(n, st)
          [] r.rule = "move_join_conds_to_filter" -> just(moveJoinConditionsToFilter(n))
          [] r.rule = "eval_filter" -> just(evalFilter(n))
          [] r.rule = "prune" -> just(pruneUnusedColumns(n, r.used))
          [] r.rule = "prune_subqueries" -> just(pruneSubqueryColumns(n, r.used))
          [] r.rule = "fix_remaining" -> just(fixRemainingFieldsIndexes(n))
          [] r.rule = "pushdown" -> transformPushdown(n, r.root, st)
          [] r.rule = "join" -> just(transformJoins(n, r.root))
          [] r.rule = "indexed" -> just(IF n.op = "table" THEN IndexedTable(n, PlacesIn(n.table, r.index)) ELSE n)
          [] r.rule = "fix_indexes" -> just(fixFieldIndexesForExpressions(n))
          [] r.rule = "erase_projection" -> just(eraseProjection(n))
          [] r.rule = "exchange" -> just(IF isParallelizable(n) THEN Exchange(n) ELSE n)
          [] r.rule = "remove_redundant" -> just(removeRedundantExchanges(n))
          [] r.rule = "without_exchanges" -> just(withoutExchanges(n))

\* Rules that look at the whole plan, that only want a resolved one, or an unresolved one
WholePlan ==
    {"check_aliases", "optimize_distinct", "prune_columns", "pushdown", "optimize_joins",
     "validate_resolved", "validate_order_by", "validate_group_by", "validate_union_schemas", "parallelize"}
WantResolved ==
    {"merge_union_schemas", "reorder_aggregations", "move_join_conds_to_filter", "eval_filter", "erase_projection"}
WantUnresolved == {"resolve_grouping_columns", "reorder_projection"}

Apply(name, n) ==
    CASE name = "check_aliases" -> checkAliases(n)
      [] name = "optimize_distinct" -> optimizeDistinct(n)
      [] name = "prune_columns" -> pruneColumns(n)
      [] name = "pushdown" -> pushdown(n)
      [] name = "optimize_joins" -> optimizeJoins(n)
      [] name = "validate_resolved" -> IF Resolved(n) THEN n ELSE Err
      [] name = "validate_order_by" -> validateOrderBy(n)
      [] name = "validate_group_by" -> validateGroupBy(n)
      [] name = "validate_union_schemas" -> validateUnionSchemasMatch(n)
      [] name = "parallelize" -> parallelize(n)
      [] name = "resolve_natural_joins" ->
            TransformUp(n, [rule |-> name], [replacements |-> <<>>, aliases |-> <<>>]).node
      [] name \notin WholePlan \union {"resolve_natural_joins"} ->
            IF (name \in WantResolved /\ ~Resolved(n)) \/ (name \in WantUnresolved /\ Resolved(n)) THEN n
            ELSE UpBy(n, name)

OnceBeforeDefault == <<"resolve_views", "resolve_subqueries", "resolve_tables", "check_aliases">>
DefaultRules ==
    <<"resolve_natural_joins", "resolve_orderby_literals", "resolve_orderby", "resolve_grouping_columns",
      "qualify_columns", "resolve_columns", "resolve_star", "resolve_functions", "resolve_having",
      "merge_union_schemas", "reorder_aggregations", "reorder_projection", "move_join_conds_to_filter",
      "eval_filter", "optimize_distinct">>
OnceAfterDefault == <<"prune_columns", "pushdown", "optimize_joins", "erase_projection">>
DefaultValidationRules ==
    <<"validate_resolved", "validate_order_by", "validate_group_by", "validate_union_schemas">>
OnceAfterAll == <<"parallelize">>

Batches == <<OnceBeforeDefault, DefaultRules, OnceAfterDefault, DefaultValidationRules, OnceAfterAll>>
Once(b) == b # 2

\* evalOnce and Eval, in one go, for the plan of a subquery
EvalOnce(rules, n) == FoldLeft(LAMBDA m, name : IF m = Err THEN Err ELSE Apply(name, m), n, rules)

RECURSIVE EvalBatch(_, _, _)
EvalBatch(b, n, k) ==
    LET m == EvalOnce(Batches[b], n)
    IN  IF Once(b) \/ m = Err \/ m = n \/ k = MaxPasses THEN m ELSE EvalBatch(b, m, k + 1)

Analyze(n) == FoldLeft(LAMBDA m, b : IF m = Err THEN Err ELSE EvalBatch(b, m, 1), n, [b \in DOMAIN Batches |-> b])

-----------------------------------------------------------------------------

Init ==
    /\ query \in Statements
    /\ parallelism \in Parallelisms
    /\ node = convertSelectStatement(query)
    /\ prev = node
    /\ batch = 1 /\ rule = 1 /\ pass = 0
    /\ status = "running"

\* One rule of evalOnce
ApplyRule ==
    /\ status = "running" /\ rule <= Len(Batches[batch])
    /\ \E n \in {Apply(Batches[batch][rule], node)} :
          \/ /\ n # Err
             /\ node' = n /\ rule' = rule + 1
             /\ UNCHANGED status
          \/ /\ n = Err
             /\ status' = "error"
             /\ UNCHANGED <<node, rule>>
    /\ UNCHANGED <<query, parallelism, prev, batch, pass>>

\* Eval after evalOnce: the next batch, or the same one again when the plan has changed
EndPass ==
    /\ status = "running" /\ rule > Len(Batches[batch]) /\ pass < MaxPasses
    /\ prev' = node /\ rule' = 1
    /\ IF Once(batch) \/ node = prev
       THEN /\ batch' = batch + (IF batch = Len(Batches) THEN 0 ELSE 1)
            /\ pass' = 0
            /\ status' = IF batch = Len(Batches) THEN "done" ELSE status
       ELSE /\ pass' = pass + 1
            /\ UNCHANGED <<batch, status>>
    /\ UNCHANGED <<query, parallelism, node>>

Next == ApplyRule \/ EndPass

Spec == Init /\ [][Next]_vars

-----------------------------------------------------------------------------

Count(r, rows) == Cardinality({i \in DOMAIN rows : rows[i] = r})
SameRows(a, b) ==
    IF Has(node, {"ijoin"})
    THEN \A r \in ToSet(a) \union ToSet(b) : Count(r, a) = Count(r, b)
    ELSE a = b

\* What the statement reads: its tables and views, and its joins
RECURSIVE FromItems(_)
FromItems(f) ==
    CASE f.op = "join" -> FromItems(f.l) \o FromItems(f.r) \o <<f>>
      [] f.op = "sub" -> IF f.q.op = "union" THEN FromItems(f.q.l.from) \o FromItems(f.q.r.from) ELSE FromItems(f.q.from)
      [] f.op = "table" -> IF f.table \in DOMAIN Views THEN FromItems(Views[f.table].from) ELSE <<f>>
Items(q) == IF q.op = "union" THEN FromItems(q.l.from) \o FromItems(q.r.from) ELSE FromItems(q.from)

\* One table twice: fields, filters and columns are found by the name of the table, so its
\* two uses are mixed up
ReadsTwice(q) ==
    LET tables == SelectSeq(Items(q), LAMBDA f : f.op = "table")
    IN  \E i, j \in DOMAIN tables : i # j /\ tables[i].table = tables[j].table

\* A table's star leaves out the columns that a natural join takes from the other table
StarOfNatural(q) ==
    /\ \E f \in ToSet(Items(q)) : f.op = "join" /\ f.typ = "natural"
    /\ q.op = "select" /\ \E i \in DOMAIN q.exprs : q.exprs[i].op = "star" /\ q.exprs[i].star # ""

\* A UNION DISTINCT is taken for sorted when the SELECT on one side is
SortedSide(q) == q.op = "union" /\ q.typ = "distinct" /\ (q.l.order # <<>> \/ q.r.order # <<>>)

\* A SubqueryAlias has the schema it had before its columns were pruned
StaleSchema(n) ==
    \E m \in ToSet(NodesOf(n)) : m.op = "subquery" /\ Len(m.schema) # Width(m.kids[1])

\* The keys of an indexed join are looked up in the order of its condition, as many as
\* that has, whatever the columns of the index are
KeysDiffer(n) ==
    \E j \in ToSet(NodesOf(n)) :
        /\ j.op = "ijoin"
        /\ LET t == CHOOSE m \in ToSet(NodesOf(j.kids[2])) : m.op = "iaccess"
               conds == splitConjunction(j.exprs[1])
           IN  \/ Len(conds) # Len(t.index)
               \/ \E i \in DOMAIN conds : <<t.table, Columns[t.table][t.index[i]]>> \notin Names(<<conds[i]>>)

\* GROUP BY an aggregation, by its number or its alias, is accepted
GroupsByAggregate(q) ==
    q.op = "select" /\ \E i \in DOMAIN q.by :
        LET e == GroupingExpr(q.by[i], q.exprs)
        IN  isAggregate(e) \/ \E k \in DOMAIN q.exprs : q.exprs[k].op = "alias" /\ isAggregate(q.exprs[k]) /\ NameOf(e) = q.exprs[k].alias

Answers(answer, rows) == answer # Err /\ SameRows(rows, answer.rows)

\* The plan of an accepted statement gives the answer of the statement, whatever the rules
\* of both batches have moved, merged, pruned, pushed into tables and renumbered, and a
\* statement with a name that means nothing, or two things, is not accepted.  The six
\* disjuncts name the statements for which the code is known to go wrong.
AnswerKept ==
    status = "done" =>
        \/ ReadsTwice(query) \/ StarOfNatural(query) \/ SortedSide(query) \/ GroupsByAggregate(query)
        \/ StaleSchema(node) \/ KeysDiffer(node)
        \/ \A db \in Databases :
              Answers(Answer(query, db), Rows(node, db))

\* A statement that has an answer is accepted: no order in which the rules meet its names
\* loses one of them.  Not so for UNION (the columns of the right side are pruned by the
\* names of the left), HAVING and ORDER BY an aggregation, which find an aggregation by
\* the text it had before its columns were qualified.
Accepted ==
    status = "error" =>
        \/ query.op = "union" \/ query.having # <<>>
        \/ \E i \in DOMAIN query.order : isAggregate(query.order[i])
        \/ \A db \in Databases : Answer(query, db) = Err

\* The rules reach a plan that none of them changes, for every statement and within a few
\* passes, instead of undoing each other's work until the thousandth.
Settles == pass < MaxPasses
=============================================================================
