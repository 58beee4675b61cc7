--------------------------- MODULE AssignIndexes ---------------------------
(***************************************************************************)
(* How the analyzer finds index lookups for the filters of a plan          *)
(* (sql/analyzer/assign_indexes.go) and pushes them, with the filters,     *)
(* into the tables (sql/analyzer/pushdown.go, filters.go).                 *)
(*                                                                         *)
(* The plan is a chain of Filter nodes over the cross join of the tables.  *)
(* A filter is a tree of and, or, not over predicates on one column: a     *)
(* comparison with a literal (swapped when the literal is on the left), in *)
(* and notin with a list, between, and other for what no index answers.    *)
(***************************************************************************)
EXTENDS IndexLookup

CONSTANTS
    TableOf,      \* the table of each column
    Tables,       \* the contents that the tables may have
    Registries,   \* the sequences of indexes that may be registered
    Predicates(_),  \* the predicates a filter with so many connectives may get
    MaxSize       \* bound on the connectives of a plan's filters

ASSUME AssignAssumption == MaxSize \in Nat

VARIABLES
    tables,       \* the rows of each table
    registry,     \* the registered indexes, in the order of their registration
    chain         \* the expressions of the Filter nodes, the topmost last

vars == <<tables, registry, chain>>

Comparisons == {"=", "<", ">", "<=", ">="}

RECURSIVE findTables(_)
findTables(e) ==
    CASE e.op \in {"and", "or"} -> findTables(e.l) \union findTables(e.r)
      [] e.op = "not" -> findTables(e.e)
      [] OTHER -> {TableOf[e.col]}

\* The result for no table
NoIndexes == [t \in {} |-> Null]
For(t, l) == [x \in {t} |-> l]

\* IndexByExpression: the first index all of whose expressions are asked for.
IndexByExpression(cols) ==
    LET matching == {i \in DOMAIN registry : ToSet(registry[i].cols) \subseteq cols}
    IN  IF matching = {} THEN {}
        ELSE {registry[CHOOSE i \in matching : \A j \in matching : i <= j]}

canMergeIndexes(l1, l2) == IsMergeable(l1, l2)

comparisonIndexLookup(op, idx, keys) ==
    CASE op = "=" -> {Get(idx, keys)}
      [] op = ">" -> IF IsDescend(idx) THEN {DescendGreater(idx, keys)} ELSE {}
      [] op = ">=" -> IF IsAscend(idx) THEN {AscendGreaterOrEqual(idx, keys)} ELSE {}
      [] op = "<" -> IF IsAscend(idx) THEN {AscendLessThan(idx, keys)} ELSE {}
      [] op = "<=" -> IF IsDescend(idx) THEN {DescendLessOrEqual(idx, keys)} ELSE {}

\* mutant: one of the two ranges will do
betweenAscends(idx, uppers, lowers) ==
    IF IsAscend(idx) /\ IsDescend(idx) THEN {AscendRange(idx, lowers, uppers)} ELSE {}

betweenIndexLookup(idx, uppers, lowers) ==
    IF IsAscend(idx) /\ IsDescend(idx)
    THEN {Union(AscendRange(idx, lowers, uppers), DescendRange(idx, uppers, lowers))}
    ELSE {}

\* The lookup made for the index of one column, if there is one: lookups gives
\* those of each candidate.
ForColumn(lookups) ==
    LET found == UNION {{<<idx.table, l>> : l \in lookups[idx]} : idx \in DOMAIN lookups}
    IN  IF found = {} THEN NoIndexes ELSE LET f == CHOOSE f \in found : TRUE IN For(f[1], f[2])

\* in and notin: one lookup for each value, merged one after the other.
inLookup(idx, negate, keys) ==
    LET one(k) == IF negate THEN Not(idx, <<k>>) ELSE Get(idx, <<k>>)
        all == FoldLeft(LAMBDA l, k : IF negate THEN Intersection(l, one(k)) ELSE Union(l, one(k)),
                        one(Head(keys)), Tail(keys))
    IN  IF \/ negate /\ ~IsNegate(idx)
           \/ Len(keys) > 1 /\ ~canMergeIndexes(one(keys[1]), one(keys[2]))
        THEN {} ELSE {all}

\* Lookups of the left side go first; one of the right side that cannot be merged
\* into it is given up.
indexesIntersection(left, right) ==
    [t \in DOMAIN left \union DOMAIN right |->
        IF t \notin DOMAIN left THEN right[t]
        ELSE IF t \in DOMAIN right /\ canMergeIndexes(left[t], right[t])
             THEN Intersection(left[t], right[t])
             ELSE left[t]]

RECURSIVE splitConjunction(_)
splitConjunction(e) ==
    IF e.op = "and" THEN splitConjunction(e.l) \o splitConjunction(e.r) ELSE <<e>>

-----------------------------------------------------------------------------
(* Indexes over several columns, for predicates of one conjunction *)

\* extractColumnExpr: the predicates that can be looked up, a negated one by the
\* predicate it negates.  The group is the Go type of the comparison.
RECURSIVE ColumnExpr(_)
ColumnExpr(e) == IF e.op = "not" THEN ColumnExpr(e.e) ELSE e
Extracted(e) == ColumnExpr(e).op \in Comparisons \union {"between"}

\* groupExpressionsByOperator of the predicates on table t: groups of positions in
\* the conjunction, in the order of their first member.
groupsOf(exprs, t) ==
    LET on == {i \in DOMAIN exprs : Extracted(exprs[i]) /\ TableOf[ColumnExpr(exprs[i]).col] = t}
        group(i) == {j \in on : exprs[j].op = exprs[i].op}
        heads == {i \in on : \A j \in group(i) : i <= j}
    IN  [n \in 1 .. Cardinality(heads) |-> group(SetToSortSeq(heads, <)[n])]

\* findColumn: the first predicate of the group on the column.
findColumn(exprs, group, col) ==
    CHOOSE i \in group : /\ ColumnExpr(exprs[i]).col = col
                         /\ \A j \in group : ColumnExpr(exprs[j]).col = col => i <= j

\* ExpressionsWithIndexes: the longest list of columns with an index of their own.
ExpressionsWithIndexes(cols) ==
    LET lists == {registry[i].cols : i \in {j \in DOMAIN registry :
                     Len(registry[j].cols) > 1 /\ ToSet(registry[j].cols) \subseteq cols}}
    IN  IF lists = {} THEN {}
        ELSE ToSet(CHOOSE l \in lists : \A k \in lists : Len(k) <= Len(l))

\* getMultiColumnIndexForExpressions for one group: the lookup, if any.  A group of
\* negations gets none.
MultiColumn(exprs, group) ==
    LET cols == {ColumnExpr(exprs[i]).col : i \in group}
        op == exprs[CHOOSE i \in group : TRUE].op
        of(idx) == [k \in DOMAIN idx.cols |-> findColumn(exprs, group, idx.cols[k])]
        made(idx) ==
            IF op \in Comparisons
            THEN comparisonIndexLookup(op, idx, [k \in DOMAIN idx.cols |-> exprs[of(idx)[k]].lit])
            ELSE IF op = "between"
            THEN betweenIndexLookup(idx, [k \in DOMAIN idx.cols |-> exprs[of(idx)[k]].hi],
                                    [k \in DOMAIN idx.cols |-> exprs[of(idx)[k]].lo])
            ELSE {}
    IN  IF ExpressionsWithIndexes(cols) = {} THEN {}
        ELSE UNION {made(idx) : idx \in IndexByExpression(ExpressionsWithIndexes(cols))}

\* The predicates of a group are marked used when an index was found for them, even
\* when it made no lookup of them.
MultiUsed(exprs, group) ==
    LET cols == {ColumnExpr(exprs[i]).col : i \in group}
    IN  IF exprs[CHOOSE i \in group : TRUE].op = "not" \/ ExpressionsWithIndexes(cols) = {} THEN {}
        ELSE {findColumn(exprs, group, c) : c \in
                UNION {ToSet(idx.cols) : idx \in IndexByExpression(ExpressionsWithIndexes(cols))}}

getMultiColumnIndexes(exprs) ==
    LET groups == UNION {ToSet(groupsOf(exprs, t)) : t \in {TableOf[c] : c \in DOMAIN TableOf}}
        lookups(t) == SelectSeq([n \in DOMAIN groupsOf(exprs, t) |->
                                    MultiColumn(exprs, groupsOf(exprs, t)[n])], LAMBDA s : s # {})
        having == {t \in {TableOf[c] : c \in DOMAIN TableOf} : lookups(t) # <<>>}
    IN  [result |-> FoldLeft(indexesIntersection, NoIndexes,
                       FlattenSeq([n \in 1 .. Cardinality(having) |->
                          LET t == SetToSeq(having)[n]
                          IN  [k \in DOMAIN lookups(t) |-> For(t, CHOOSE l \in lookups(t)[k] : TRUE)]])),
         used |-> UNION {MultiUsed(exprs, g) : g \in groups}]

-----------------------------------------------------------------------------
(* getIndexes *)

Cmp(op, e) == [op |-> op, col |-> e.col, lit |-> e.lit, swapped |-> e.swapped]
Side(op, e, lit) == [op |-> op, col |-> e.col, lit |-> lit, swapped |-> FALSE]
NotE(e) == [op |-> "not", e |-> e]
Join(op, l, r) == [op |-> op, l |-> l, r |-> r]

RECURSIVE getIndexes(_)
RECURSIVE getNegatedIndexes(_)
getIndexes(e) ==
    CASE e.op = "or" ->
           LET left == getIndexes(e.l)
               right == getIndexes(e.r)
           IN  IF /\ Cardinality(findTables(e)) = 1
                  /\ DOMAIN left = DOMAIN right
                  /\ \A t \in DOMAIN left : canMergeIndexes(left[t], right[t])
               THEN [t \in DOMAIN left |-> Union(left[t], right[t])]
               ELSE NoIndexes
      [] e.op = "and" ->
           LET exprs == splitConjunction(e)
               multi == getMultiColumnIndexes(exprs)
           IN  FoldLeft(LAMBDA res, i : IF i \in multi.used THEN res
                                        ELSE indexesIntersection(res, getIndexes(exprs[i])),
                        multi.result, [i \in 1 .. Len(exprs) |-> i])
      [] e.op = "not" -> getNegatedIndexes(e.e)
      \* getComparisonIndex: the literal goes to the right whatever the operator
      [] e.op \in Comparisons ->
           ForColumn([idx \in IndexByExpression({e.col}) |-> comparisonIndexLookup(e.op, idx, <<e.lit>>)])
      [] e.op = "between" ->
           ForColumn([idx \in IndexByExpression({e.col}) |-> betweenIndexLookup(idx, <<e.hi>>, <<e.lo>>)])
      [] e.op \in {"in", "notin"} ->
           ForColumn([idx \in IndexByExpression({e.col}) |-> inLookup(idx, e.op = "notin", e.lits)])
      [] OTHER -> NoIndexes

getNegatedIndexes(e) ==
    CASE e.op = "not" -> getIndexes(e.e)
      [] e.op = "=" ->
           ForColumn([idx \in IndexByExpression({e.col}) |->
                        IF IsNegate(idx) THEN {Not(idx, <<e.lit>>)} ELSE {}])
      [] e.op = ">" -> getIndexes(Cmp("<=", e))
      [] e.op = ">=" -> getIndexes(Cmp("<", e))
      [] e.op = "<" -> getIndexes(Cmp(">=", e))
      [] e.op = "<=" -> getIndexes(Cmp(">", e))
      [] e.op = "between" -> getIndexes(Join("or", Side("<", e, e.lo), Side(">", e, e.hi)))
      [] e.op = "or" -> getIndexes(Join("and", NotE(e.l), NotE(e.r)))
      [] e.op = "and" -> getIndexes(Join("or", NotE(e.l), NotE(e.r)))
      [] OTHER -> NoIndexes

\* assignIndexes: the Filter nodes are inspected from the top down.
assignIndexes(es) ==
    FoldLeft(LAMBDA res, e : indexesIntersection(res, getIndexes(e)), NoIndexes, Reverse(es))

-----------------------------------------------------------------------------
(* What filters mean, by the expressions' own evaluation *)

Mirror == [o \in Comparisons |-> CASE o = "<" -> ">" [] o = ">" -> "<" [] o = "<=" -> ">="
                                   [] o = ">=" -> "<=" [] o = "=" -> "="]
Compares(op, x, y) ==
    CASE op = "=" -> x = y [] op = "<" -> x < y [] op = ">" -> x > y
      [] op = "<=" -> x <= y [] op = ">=" -> x >= y
Truth(b) == IF b THEN "true" ELSE "false"

\* Or answers false, not NULL, when one side is NULL and the other false.
Or(x, y) == IF "true" \in {x, y} THEN "true" ELSE IF x = "null" /\ y = "null" THEN "null" ELSE "false"

RECURSIVE Eval(_, _)
Eval(e, env) ==
    CASE e.op = "and" -> Both(Eval(e.l, env), Eval(e.r, env))
      [] e.op = "or" -> Or(Eval(e.l, env), Eval(e.r, env))
      [] e.op = "not" -> Negated(Eval(e.e, env))
      [] OTHER ->
           LET v == env[e.col]
               op == IF e.swapped THEN Mirror[e.op] ELSE e.op
           IN  CASE e.op = "other" -> Truth(v = Null)
                 [] e.op \in Comparisons -> Test(v, e.lit, Compares(op, v, e.lit.n))
                 [] v = Null -> "null"
                 [] e.op = "in" -> Truth(\E i \in DOMAIN e.lits : e.lits[i].n = v)
                 [] e.op = "notin" -> Truth(\A i \in DOMAIN e.lits : e.lits[i].n # v)
                 [] e.op = "between" ->
                      IF Null \in {e.lo.n, e.hi.n} THEN "null" ELSE Truth(e.lo.n <= v /\ v <= e.hi.n)

-----------------------------------------------------------------------------
(* pushdown *)

Names == DOMAIN tables

\* The rows the tables are combined to: one position of each.
Joined(rows) ==
    FoldLeft(LAMBDA fs, t : {f @@ (t :> i) : f \in fs, i \in rows[t]}, {<<>>}, SetToSeq(Names))
Env(f) == [c \in DOMAIN TableOf |-> tables[TableOf[c]][f[TableOf[c]]][c]]

conjuncts == [i \in DOMAIN chain |-> splitConjunction(chain[i])]

\* findFilters and HandledFilters: a conjunct on one table is that table's.
tableFilters(t) == {e \in UNION {ToSet(conjuncts[i]) : i \in DOMAIN chain} : findTables(e) = {t}}
handledFilters == UNION {tableFilters(t) : t \in Names}

\* pushdownTable: the table reads what the lookup finds and keeps what passes its
\* filters, whose columns are all its own.
pushdownTable(t, indexes) ==
    LET read == IF t \in DOMAIN indexes THEN Values(indexes[t], tables[t]) ELSE DOMAIN tables[t]
        env(i) == [c \in {c \in DOMAIN TableOf : TableOf[c] = t} |-> tables[t][i][c]]
    IN  {i \in read : \A e \in tableFilters(t) : Eval(e, env(i)) = "true"}

\* pushdownFilter: what no table handles stays in the Filter nodes.
getUnhandledFilters == UNION {ToSet(conjuncts[i]) : i \in DOMAIN chain} \ handledFilters

Pushed(indexes) ==
    {f \in Joined([t \in Names |-> pushdownTable(t, indexes)]) :
        \A e \in getUnhandledFilters : Eval(e, Env(f)) = "true"}

Unpushed == {f \in Joined([t \in Names |-> DOMAIN tables[t]]) :
                \A i \in DOMAIN chain : Eval(chain[i], Env(f)) = "true"}

-----------------------------------------------------------------------------
(* Plans, grown from predicates *)

RECURSIVE Size(_)
Size(e) == CASE e.op \in {"and", "or"} -> 1 + Size(e.l) + Size(e.r)
             [] e.op = "not" -> 1 + Size(e.e)
             [] OTHER -> 0

Top == Last(chain)
Replace(e) == chain' = [chain EXCEPT ![Len(chain)] = e] /\ UNCHANGED <<tables, registry>>

Init == /\ tables \in Tables
        /\ registry \in Registries
        /\ \E p \in Predicates(0) : chain = <<p>>

PlanSize == FoldLeft(LAMBDA n, e : n + Size(e), Len(chain) - 1, chain)
Room == PlanSize < MaxSize

Negate == Room /\ Replace(NotE(Top))
Conjoin == Room /\ \E p \in Predicates(PlanSize + 1) : Replace(Join("and", Top, p))
Disjoin == Room /\ \E p \in Predicates(PlanSize + 1) : Replace(Join("or", Top, p))
AddFilter == /\ Room
             /\ \E p \in Predicates(PlanSize + 1) : chain' = Append(chain, p)
             /\ UNCHANGED <<tables, registry>>

Next == Negate \/ Conjoin \/ Disjoin \/ AddFilter

Spec == Init /\ [][Next]_vars

-----------------------------------------------------------------------------
(* Properties *)

RECURSIVE PredicatesOf(_)
PredicatesOf(e) ==
    CASE e.op \in {"and", "or"} -> PredicatesOf(e.l) \union PredicatesOf(e.r)
      [] e.op = "not" -> PredicatesOf(e.e)
      [] OTHER -> {e}
RECURSIVE NegatedOr(_, _)
NegatedOr(e, under) ==
    CASE e.op = "or" -> under \/ NegatedOr(e.l, under) \/ NegatedOr(e.r, under)
      [] e.op = "and" -> NegatedOr(e.l, under) \/ NegatedOr(e.r, under)
      [] e.op = "not" -> NegatedOr(e.e, TRUE)
      [] OTHER -> FALSE

AllPredicates == UNION {PredicatesOf(chain[i]) : i \in DOMAIN chain}

\* Where the index and the expression disagree in the code: an inequality with the
\* literal on the left is looked up as if it were on the right; BETWEEN x AND x is
\* the union of two empty ranges; several BETWEENs on one index leave out the
\* corners; an unsigned literal is another key to pilosa; NOT (x OR NULL) is true.
Disagree ==
    \/ \E e \in AllPredicates : e.op \in Comparisons \ {"="} /\ e.swapped
    \/ \E e \in AllPredicates : e.op = "between" /\ e.lo.n = e.hi.n
    \/ \E e1, e2 \in AllPredicates : e1.op = "between" /\ e2.op = "between" /\ e1.col # e2.col
    \/ \E e \in AllPredicates :
          \/ e.op \in Comparisons /\ e.lit.type = "uint"
          \/ e.op \in {"in", "notin"} /\ \E i \in DOMAIN e.lits : e.lits[i].type = "uint"
    \/ \E i \in DOMAIN chain : NegatedOr(chain[i], FALSE)

\* A plan whose tables read through the lookups found for its filters, and keep the
\* filters pushed down to them, answers exactly the rows of the plan without any
\* pushdown, whatever indexes are registered and whatever is NULL (assignIndexes,
\* pushdown), or it fails in a lookup.
PushdownKeepsAnswer ==
    LET indexes == assignIndexes(chain)
    IN  \/ Disagree
        \/ \E t \in DOMAIN indexes : Fails(indexes[t], tables[t])
        \/ Pushed(indexes) = Unpushed
=============================================================================
