----------------------------- MODULE RowIters -----------------------------
(***************************************************************************)
(* The row iterators of the plan nodes (sql/plan, sql/table_iter.go,       *)
(* sql/row.go) and the aggregation buffers of GROUP BY (sql/expression/    *)
(* function/aggregation).  A caller asks a plan for an iterator, asks the  *)
(* iterator for rows and closes it; one step is one such call, with all    *)
(* the calls it makes below.                                               *)
(*                                                                         *)
(* An iterator is a value: the node it runs, the iterators it holds (a     *)
(* second one only while the code's field is not nil), whether its span is *)
(* still open, and its own fields pos, row (<<>> is nil) and buf.  A call  *)
(* of Next returns the iterator it leaves behind, what it answers, and the *)
(* number of open things that nothing refers to any more.                  *)
(*                                                                         *)
(* Opening a table or one of its partitions may fail in any call, and so   *)
(* may closing one; reading the row Bad always fails, and the query may be *)
(* cancelled.                                                              *)
(***************************************************************************)
EXTENDS Plans

CONSTANTS
    PlanSet,     \* the plans that may be run
    Contents     \* the databases they may be run on

VARIABLES
    plan, db,    \* what is run
    it,          \* the iterator the caller holds, <<>> for none
    phase,       \* "new" | "open" | "eof" | "err" | "failed" | "closed"
    out,         \* the rows the caller has been given
    cancelled,   \* the context is done
    faulty,      \* something has failed or was cancelled
    leaked       \* things that stay open and that no iterator refers to

vars == <<plan, db, it, phase, out, cancelled, faulty, leaked>>

\* What fails in a call, if anything
Faults == {"none", "open", "close"}

\* What a call may find: the tables, whether they can be opened and closed, ctx.Done()
Env(fault) == [db |-> db, ok |-> fault # "open", shut |-> fault # "close", done |-> cancelled]

-----------------------------------------------------------------------------
(* Aggregations: NewBuffer, Update, Merge and Eval.  A buffer is a tuple. *)

NewBuffer(fn) ==
    CASE fn = "count" -> <<0>>
      [] fn = "countdistinct" -> <<{}>>
      [] fn = "avg" -> <<0, 0, FALSE>>
      [] OTHER -> <<Null>>

\* The value an aggregation looks at: COUNT(*) counts every row, and COUNT(DISTINCT *)
\* takes the whole row.
Operand(a, row) ==
    IF a.kid.op # "star" THEN EvalE(a.kid, row) ELSE IF a.agg = "countdistinct" THEN row ELSE 1

CountUpdate(b) == <<b[1] + 1>>
CountDistinctUpdate(b, v) == <<b[1] \union {v}>>
AvgUpdate(b, v) ==
    IF b[3] THEN b ELSE IF v = Null THEN [b EXCEPT ![3] = TRUE] ELSE <<b[1] + v, b[2] + 1, FALSE>>
SumUpdate(b, v) == IF b[1] = Null THEN <<v>> ELSE <<b[1] + v>>
MinUpdate(b, v) == IF b[1] = Null \/ v < b[1] THEN <<v>> ELSE b
MaxUpdate(b, v) == IF b[1] = Null \/ v > b[1] THEN <<v>> ELSE b
FirstUpdate(b, v) == IF b[1] = Null THEN <<v>> ELSE b
LastUpdate(v) == <<v>>

\* NULL changes no buffer but that of Avg.  CountDistinct looks at the value before it
\* looks at the error, and an evaluation that fails has no value.
Update(a, b, row) ==
    LET v == Operand(a, row)
    IN  CASE v = Bad -> IF a.agg = "countdistinct" THEN b ELSE Bad
          [] v # Bad /\ a.agg = "avg" -> AvgUpdate(b, v)
          [] v = Null /\ a.agg # "avg" -> b
          [] v \notin {Bad, Null} /\ a.agg # "avg" ->
                CASE a.agg = "count" -> CountUpdate(b)
                  [] a.agg = "countdistinct" -> CountDistinctUpdate(b, v)
                  [] a.agg = "sum" -> SumUpdate(b, v)
                  [] a.agg = "min" -> MinUpdate(b, v)
                  [] a.agg = "max" -> MaxUpdate(b, v)
                  [] a.agg = "first" -> FirstUpdate(b, v)
                  [] a.agg = "last" -> LastUpdate(v)

\* mutant: the counts are not added
CountMergeOver(b, partial) == partial

CountMerge(b, partial) == <<b[1] + partial[1]>>
CountDistinctMerge(b, partial) == <<b[1] \union partial[1]>>
\* the partial buffer's NULL mark is taken from the other buffer
AvgMerge(b, partial) == <<b[1] + partial[1], b[2] + partial[2], b[3]>>
FirstMerge(b) == b
LastMerge(partial) == partial

\* Min, Max and Sum evaluate their argument on the partial buffer as if it were a row.
Merge(a, b, partial) ==
    CASE a.agg = "count" -> CountMerge(b, partial)
      [] a.agg = "countdistinct" -> CountDistinctMerge(b, partial)
      [] a.agg = "avg" -> AvgMerge(b, partial)
      [] a.agg = "first" -> FirstMerge(b)
      [] a.agg = "last" -> LastMerge(partial)
      [] OTHER -> Update(a, b, partial)

AvgEval(b) == IF b[3] THEN Null ELSE IF b[2] = 0 THEN 0 ELSE <<b[1], b[2]>>
EvalAgg(fn, b) ==
    CASE fn = "countdistinct" -> Cardinality(b[1])
      [] fn = "avg" -> AvgEval(b)
      [] OTHER -> b[1]

\* fillBuffer, updateBuffer and evalBuffer: a plain expression has a buffer too, which
\* is nil before the first row
RECURSIVE fillBuffer(_)
fillBuffer(e) ==
    CASE e.op = "agg" -> NewBuffer(e.agg) [] e.op = "alias" -> fillBuffer(e.kid) [] OTHER -> <<>>

RECURSIVE updateBuffer(_, _, _)
updateBuffer(e, b, row) ==
    CASE e.op = "agg" -> Update(e, b, row)
      [] e.op = "alias" -> updateBuffer(e.kid, b, row)
      [] OTHER -> IF EvalE(e, row) = Bad THEN Bad ELSE <<EvalE(e, row)>>

RECURSIVE evalBuffer(_, _)
evalBuffer(e, b) ==
    CASE e.op = "agg" -> EvalAgg(e.agg, b)
      [] e.op = "alias" -> evalBuffer(e.kid, b)
      [] OTHER -> IF b = <<>> THEN Null ELSE b[1]

fillBuffers(aggs) == [i \in DOMAIN aggs |-> fillBuffer(aggs[i])]
updateBuffers(aggs, bs, row) == [i \in DOMAIN aggs |-> updateBuffer(aggs[i], bs[i], row)]
evalBuffers(aggs, bs) == [i \in DOMAIN aggs |-> evalBuffer(aggs[i], bs[i])]

-----------------------------------------------------------------------------
(* Opening *)

Iter(n, kids) == [node |-> n, kids |-> kids, span |-> TRUE, pos |-> 0, row |-> <<>>, buf |-> <<>>]

\* TableRowIter: pos counts the partitions that were taken, buf holds what is left of
\* the current one when open is TRUE; parts tells whether the partitions are open
TableIter(n) ==
    [node |-> n, kids |-> <<>>, span |-> n.op = "table", pos |-> 0, buf |-> <<>>,
     open |-> FALSE, parts |-> TRUE]

Opened(i, leak) == [res |-> "ok", it |-> i, leak |-> leak]
NotOpened(leak) == [res |-> "err", it |-> <<>>, leak |-> leak]

\* RowIter: a table asks for its partitions; the other nodes open their first child (a
\* union and the joins leave the second for later) and finish the span when that fails,
\* which Generate forgets
RECURSIVE RowIter(_, _)
OpenedOver(n, kid) ==
    IF kid.res = "err" THEN NotOpened(kid.leak + (IF n.op = "generate" THEN 1 ELSE 0))
    ELSE Opened(Iter(n, <<kid.it>>), kid.leak)
RowIter(n, env) ==
    IF n.op \notin {"table", "iaccess"} THEN OpenedOver(n, RowIter(n.kids[1], env))
    ELSE IF env.ok THEN Opened(TableIter(n), 0)
    ELSE NotOpened(0)

-----------------------------------------------------------------------------
(* Closing, and what is open *)

\* Spans, partition iterators and row iterators of a tree that are open
RECURSIVE OpenIn(_)
OpenIn(i) ==
    LET own == IF i.span THEN 1 ELSE 0
    IN  IF i.kids = <<>> THEN own + (IF i.open THEN 1 ELSE 0) + (IF i.parts THEN 1 ELSE 0)
        ELSE own + SumOf([k \in DOMAIN i.kids |-> OpenIn(i.kids[k])])

\* Close: what fails to close does not keep the rest from being closed, and the error is
\* what the caller gets
RECURSIVE Close(_)
Close(i) ==
    IF i.kids = <<>> THEN [i EXCEPT !.span = FALSE, !.open = FALSE, !.parts = FALSE]
    ELSE [i EXCEPT !.span = FALSE, !.buf = <<>>,
                   !.kids = [k \in DOMAIN i.kids |-> Close(i.kids[k])]]

-----------------------------------------------------------------------------
(* Next *)

Answer(i, res, row, leak) == [it |-> i, res |-> res, row |-> row, leak |-> leak]
Give(i, row, leak) == Answer(i, "row", row, leak)
Eof(i, leak) == Answer(i, "eof", <<>>, leak)
Fail(i, leak) == Answer(i, "err", <<>>, leak)

\* TableRowIter.Next: when the rows of a partition, or the partitions, cannot be closed at
\* their end, the call fails and Close will try again
RECURSIVE NextOfTable(_, _)
NextOfTable(i, env) ==
    IF env.done THEN Fail(i, 0)
    ELSE IF ~i.open
    THEN IF i.pos = Len(env.db[i.node.table])
         THEN IF env.shut THEN Eof([i EXCEPT !.parts = FALSE], 0) ELSE Fail(i, 0)
         ELSE IF ~env.ok THEN Fail(i, 0)
         ELSE NextOfTable([i EXCEPT !.open = TRUE, !.pos = @ + 1,
                                    !.buf = PartitionRows(i.node, env.db[i.node.table][i.pos + 1])], env)
    ELSE IF i.buf = <<>> THEN IF env.shut THEN NextOfTable([i EXCEPT !.open = FALSE], env) ELSE Fail(i, 0)
    ELSE IF Head(i.buf) = Bad THEN Fail(i, 0)
    ELSE Give([i EXCEPT !.buf = Tail(@)], Head(i.buf), 0)

\* conditionIsTrue, and FilterIter's EvaluateCondition
Accepts(n, row) == EvaluateCondition(n.exprs[1], row)

\* sorter.Less: the values change places when the order is descending
Less(a, b, n) ==
    LET av(k) == EvalE(n.exprs[k], IF n.desc[k] THEN b ELSE a)
        bv(k) == EvalE(n.exprs[k], IF n.desc[k] THEN a ELSE b)
    IN  \E k \in DOMAIN n.exprs :
            /\ \A j \in 1 .. (k - 1) : av(j) = bv(j)
            /\ \/ av(k) = Null /\ bv(k) # Null
               \/ Null \notin {av(k), bv(k)} /\ av(k) < bv(k)

\* sort.Stable
Insert(rows, r, n) ==
    LET k == Cardinality({j \in DOMAIN rows : ~Less(r, rows[j], n)})
    IN  SubSeq(rows, 1, k) \o <<r>> \o SubSeq(rows, k + 1, Len(rows))
Stable(rows, n) == FoldLeft(LAMBDA s, r : Insert(s, r, n), <<>>, rows)

\* groupByGroupingIter.compute, one row: buf holds the keys with their buffers, in the
\* order in which the keys came
Compute(buf, n, row) ==
    LET key == EvalAll(Grouping(n), row)
        at == {k \in DOMAIN buf : buf[k].key = key}
        new == [key |-> key, bs |-> updateBuffers(Aggregates(n), fillBuffers(Aggregates(n)), row)]
    IN  IF at = {} THEN Append(buf, new)
        ELSE [buf EXCEPT ![CHOOSE k \in at : TRUE].bs = updateBuffers(Aggregates(n), @, row)]

Failed(buf) == \E k \in DOMAIN buf : \E j \in DOMAIN buf[k].bs : buf[k].bs[j] = Bad

RECURSIVE NextRow(_, _)
RECURSIVE NextInner(_, _)
RECURSIVE Drain(_, _, _, _)

\* What a call below leaves open is left open by this one
Leaking(r, leak) == [r EXCEPT !.leak = @ + leak]

\* The loops that read their child to its end: the child, its rows, "eof" or "err"
DrainOn(r, rows, leak, env) ==
    IF r.res = "row" THEN Drain(r.it, Append(rows, r.row), leak + r.leak, env)
    ELSE [it |-> r.it, rows |-> rows, res |-> r.res, leak |-> leak + r.leak]
Drain(i, rows, leak, env) == DrainOn(NextRow(i, env), rows, leak, env)

\* A loop goes round again, or the child's row is the answer
Again(i, r, env) == Leaking(NextInner(i, env), r.leak)
GiveOn(i, r) == Give(i, r.row, r.leak)

\* FilterIter, which runs Having too
FilterRow(i, r, env) ==
    IF EvalE(i.node.exprs[1], r.row) = Bad THEN Fail(i, r.leak)
    ELSE IF Accepts(i.node, r.row) THEN GiveOn(i, r) ELSE Again(i, r, env)
\* projectRow
ProjectRow(i, row, leak) == IF Bad \in ToSet(row) THEN Fail(i, leak) ELSE Give(i, row, leak)
OffsetRow(i, r, env) == IF i.pos < i.node.size THEN Again([i EXCEPT !.pos = @ + 1], r, env) ELSE GiveOn(i, r)
DistinctRow(i, r, env) ==
    IF r.row \in ToSet(i.buf) THEN Again(i, r, env) ELSE GiveOn([i EXCEPT !.buf = Append(@, r.row)], r)
OrderedDistinctRow(i, r, env) == IF i.row = r.row THEN Again(i, r, env) ELSE GiveOn([i EXCEPT !.row = r.row], r)

\* The nodes with one child: its next row, and what becomes of it
UnaryRow(i, r, env) ==
    CASE i.node.op \in {"filter", "having"} -> FilterRow(i, r, env)
      [] i.node.op = "project" -> ProjectRow(i, EvalAll(i.node.exprs, r.row), r.leak)
      [] i.node.op = "offset" -> OffsetRow(i, r, env)
      [] i.node.op = "distinct" -> DistinctRow(i, r, env)
      [] i.node.op = "ordered" -> OrderedDistinctRow(i, r, env)
      [] i.node.op \in {"talias", "subquery"} -> GiveOn(i, r)
AfterChild(i, r, env) ==
    IF r.res # "row" THEN Answer([i EXCEPT !.kids[1] = r.it], r.res, <<>>, r.leak)
    ELSE UnaryRow([i EXCEPT !.kids[1] = r.it], r, env)
NextOfUnary(i, env) == AfterChild(i, NextRow(i.kids[1], env), env)

LimitRow(i, r) == Answer([i EXCEPT !.kids[1] = r.it, !.pos = @ + 1], r.res, r.row, r.leak)

\* mutant: one row more than the limit
NextOfLimitOver(i, env) == IF i.pos > i.node.size THEN Eof(i, 0) ELSE LimitRow(i, NextRow(i.kids[1], env))

\* limitIter: the child is not asked once the limit is reached, nor is it closed
NextOfLimit(i, env) == IF i.pos >= i.node.size THEN Eof(i, 0) ELSE LimitRow(i, NextRow(i.kids[1], env))

\* sortIter and the two iterators of GroupBy: everything is computed before the first
\* row; pos is the next row to give, from 1, and 0 before that
NextBuffered(i, leak) ==
    IF i.pos > Len(i.buf) THEN Eof(i, leak) ELSE Give([i EXCEPT !.pos = @ + 1], i.buf[i.pos], leak)
Buffered(i, rows, leak) == NextBuffered([i EXCEPT !.buf = rows, !.pos = 1], leak)
GroupsRead(n, rows) ==
    IF Grouping(n) # <<>> THEN FoldLeft(LAMBDA b, row : Compute(b, n, row), <<>>, rows)
    ELSE <<[key |-> <<>>, bs |-> FoldLeft(LAMBDA bs, row : updateBuffers(Aggregates(n), bs, row),
                                          fillBuffers(Aggregates(n)), rows)]>>
GroupRows(i, groups, leak) ==
    IF Failed(groups) THEN Fail([i EXCEPT !.pos = 1], leak)
    ELSE Buffered(i, [g \in DOMAIN groups |-> evalBuffers(Aggregates(i.node), groups[g].bs)], leak)
WholeRead(i, d) ==
    IF d.res = "err" THEN Fail([i EXCEPT !.kids[1] = d.it], d.leak)
    ELSE IF i.node.op = "sort" THEN Buffered([i EXCEPT !.kids[1] = d.it], Stable(d.rows, i.node), d.leak)
    ELSE GroupRows([i EXCEPT !.kids[1] = d.it], GroupsRead(i.node, d.rows), d.leak)
NextOfWhole(i, env) == IF i.pos = 0 THEN WholeRead(i, Drain(i.kids[1], <<>>, 0, env)) ELSE NextBuffered(i, 0)

\* mutant: the left side is not closed
ClosedLeftOpen(left) == left

\* unionIter: at the end of the left side it is closed and the right one takes its
\* place; pos is 1 once nextIter is nil
ClosedLeft(left) == Close(left)
UnionFirst(i, s, leak) == Answer([i EXCEPT !.kids[1] = s.it, !.pos = 1], s.res, s.row, leak + s.leak)
UnionRight(i, left, right, leak, env) ==
    IF ~env.shut THEN Fail([i EXCEPT !.kids[1] = left], leak)
    ELSE IF right.res = "err" THEN Fail([i EXCEPT !.kids[1] = left, !.pos = 1], leak + right.leak)
    ELSE UnionFirst(i, NextRow(right.it, env), leak + right.leak + OpenIn(left))
UnionRow(i, r, env) ==
    IF r.res # "eof" \/ i.pos = 1 THEN Answer([i EXCEPT !.kids[1] = r.it], r.res, r.row, r.leak)
    ELSE UnionRight(i, ClosedLeft(r.it), RowIter(i.node.kids[2], env), r.leak, env)
NextOfUnion(i, env) == UnionRow(i, NextRow(i.kids[1], env), env)

\* crossJoinIterator and indexedJoinIter: row is the left row; at the end of the right
\* side its iterator is dropped, not closed; pos is 1 once the row has found a partner
LoadPrimary(i, p, env) ==
    IF p.res # "row" THEN Answer([i EXCEPT !.kids[1] = p.it], p.res, <<>>, p.leak)
    ELSE Leaking(NextInner([i EXCEPT !.kids[1] = p.it, !.row = p.row, !.pos = 0], env), p.leak)
\* the right side is opened for each row of the left one
OpenRight(i, r, env) ==
    IF r.res = "err" THEN Fail(i, r.leak)
    ELSE Leaking(NextInner([i EXCEPT !.kids = <<i.kids[1], r.it>>], env), r.leak)
RightOf(i) ==
    IF i.node.op = "cross" THEN i.node.kids[2] ELSE WithLookup(i.node.kids[2], EvalAll(i.node.keys, i.row))
RightEnds(i, leak, env) ==
    LET n == i.node
        dropped == [i EXCEPT !.kids = <<i.kids[1]>>, !.row = <<>>]
    IN  IF n.op = "ijoin" /\ i.pos = 0 /\ n.typ # "inner"
        THEN Give(dropped, i.row \o Nulls(Width(n.kids[2])), leak)
        ELSE Leaking(NextInner(dropped, env), leak)
JoinRow(i, row, leak, env) ==
    IF i.node.op = "cross" \/ Accepts(i.node, row) THEN Give([i EXCEPT !.pos = 1], row, leak)
    ELSE Leaking(NextInner(i, env), leak)
LoadSecondary(i, s, env) ==
    CASE s.res = "err" -> Fail([i EXCEPT !.kids[2] = s.it], s.leak)
      [] s.res = "eof" -> RightEnds(i, s.leak + OpenIn(s.it), env)
      [] s.res = "row" -> JoinRow([i EXCEPT !.kids[2] = s.it], i.row \o s.row, s.leak, env)
NextOfJoin(i, env) ==
    IF i.row = <<>> THEN LoadPrimary(i, NextRow(i.kids[1], env), env)
    ELSE IF Len(i.kids) = 1 THEN OpenRight(i, RowIter(RightOf(i), env), env)
    ELSE LoadSecondary(i, NextRow(i.kids[2], env), env)

\* generateIter: row is the row whose array is being taken apart, pos how far
GenerateFrom(i, array, env) ==
    IF i.pos = Len(array) THEN NextInner([i EXCEPT !.row = <<>>], env)
    ELSE Give([i EXCEPT !.pos = @ + 1], [i.row EXCEPT ![i.node.at] = array[i.pos + 1]], 0)
NextOfGenerate(i, env) ==
    IF i.row = <<>> THEN LoadPrimary(i, NextRow(i.kids[1], env), env)
    ELSE GenerateFrom(i, IF i.row[i.node.at] = Null THEN <<>> ELSE i.row[i.node.at].array, env)

NextInner(i, env) ==
    LET op == i.node.op
    IN  CASE op \in {"table", "iaccess"} -> NextOfTable(i, env)
          [] op = "limit" -> NextOfLimit(i, env)
          [] op \in {"sort", "groupby"} -> NextOfWhole(i, env)
          [] op = "union" -> NextOfUnion(i, env)
          [] op \in {"cross", "ijoin"} -> NextOfJoin(i, env)
          [] op = "generate" -> NextOfGenerate(i, env)
          [] OTHER -> NextOfUnary(i, env)

\* spanIter.Next: the span ends with the rows or with an error
EndSpan(r) == IF r.res = "row" THEN r ELSE [r EXCEPT !.it.span = FALSE]
NextRow(i, env) == EndSpan(NextInner(i, env))

-----------------------------------------------------------------------------
(* The caller *)

Init ==
    /\ plan \in PlanSet /\ db \in Contents
    /\ it = <<>> /\ phase = "new" /\ out = <<>>
    /\ cancelled = FALSE /\ faulty = FALSE /\ leaked = 0

CallRowIter(fault) ==
    /\ phase = "new"
    /\ \E r \in {RowIter(plan, Env(fault))} :
           /\ it' = r.it
           /\ phase' = IF r.res = "ok" THEN "open" ELSE "failed"
           /\ leaked' = leaked + r.leak
    /\ faulty' = (faulty \/ fault # "none")
    /\ UNCHANGED <<plan, db, out, cancelled>>

CallNext(fault) ==
    /\ phase = "open"
    /\ \E r \in {NextRow(it, Env(fault))} :
           /\ it' = r.it
           /\ phase' = IF r.res = "row" THEN "open" ELSE r.res
           /\ out' = IF r.res = "row" THEN Append(out, r.row) ELSE out
           /\ leaked' = leaked + r.leak
    /\ faulty' = (faulty \/ fault # "none")
    /\ UNCHANGED <<plan, db, cancelled>>

CallClose ==
    /\ phase \in {"open", "eof", "err"}
    /\ it' = Close(it) /\ phase' = "closed"
    /\ UNCHANGED <<plan, db, out, cancelled, faulty, leaked>>

Cancel ==
    /\ phase = "open" /\ ~cancelled
    /\ cancelled' = TRUE /\ faulty' = TRUE
    /\ UNCHANGED <<plan, db, it, phase, out, leaked>>

Next == (\E fault \in Faults : CallRowIter(fault) \/ CallNext(fault)) \/ CallClose \/ Cancel

Spec == Init /\ [][Next]_vars

-----------------------------------------------------------------------------
(* Properties *)

RECURSIVE Holds(_, _)
\* Some node of the plan has one of these operations.
Holds(n, ops) == n.op \in ops \/ \E k \in DOMAIN n.kids : Holds(n.kids[k], ops)

\* A row that cannot be read, or whose NULL an indexed join looks up (the first column
\* of t is the key of every indexed join here), which makes the index fail
Unreadable(t, row) == row = Bad \/ (t = "t" /\ Holds(plan, {"ijoin"}) /\ row[1] = Null)
BadRow == \E t \in DOMAIN db : \E row \in ToSet(FlattenSeq(db[t])) : Unreadable(t, row)

\* What the database may be: r in the place of the rows that cannot be read
Readings == {<<1, 2>>, <<9, 9>>}
Read(t, row, r) == IF Unreadable(t, row) THEN r ELSE row
Reading(r) ==
    [t \in DOMAIN db |-> [p \in DOMAIN db[t] |-> [k \in DOMAIN db[t][p] |-> Read(t, db[t][p][k], r)]]]

Gives(rows) ==
    /\ IsPrefix(out, rows)
    /\ phase = "eof" => out = rows

\* The rows that the iterators give, one by one and in whatever order they read, open
\* and drop their children, are the rows of the plan, in its order: always a prefix,
\* and all of them at io.EOF.  A table that cannot be opened or closed, a row that cannot
\* be read and a cancelled query are never taken for the end of the rows: what was given
\* is right whatever an unreadable row holds, and so is an answer that has ended, which
\* then did not need that row.  Without them there is no error.
AnswerIsPlan ==
    /\ \A d \in IF BadRow THEN {Reading(r) : r \in Readings} ELSE {db} : Gives(Rows(plan, d))
    /\ phase \in {"err", "failed"} => faulty \/ BadRow

\* A cross join or an indexed join forgets the iterator of its right side at its end,
\* which is only safe when that end has closed everything: not below a Limit.
RECURSIVE DropsUnread(_)
DropsUnread(n) ==
    \/ n.op \in {"cross", "ijoin"} /\ Holds(n.kids[2], {"limit"})
    \/ \E k \in DOMAIN n.kids : DropsUnread(n.kids[k])

\* After Close, or when there is no iterator to close because opening has failed, no
\* span, partition iterator or row iterator is left open, wherever the rows stopped:
\* at their end, in the middle, at an error or below a limit.  The two exceptions are
\* DropsUnread and the span of a Generate whose child cannot be opened.
NothingLeftOpen ==
    phase \in {"closed", "failed"} =>
        \/ leaked = 0 /\ (it = <<>> \/ OpenIn(it) = 0)
        \/ DropsUnread(plan)
        \/ faulty /\ Holds(plan, {"generate"})

\* Folding Update over rows
Buffer(a, rows) == FoldLeft(LAMBDA b, r : Update(a, b, r), NewBuffer(a.agg), rows)

\* Aggregating two parts of a sequence of rows apart and merging the buffers gives the
\* aggregation of the whole, for the aggregations that merge: FIRST, LAST and AVG do
\* not, and MIN, MAX and SUM only when their argument is the first column.
MergeIsUpdate ==
    \A fn \in {"count", "countdistinct", "sum", "min", "max"}, k \in 0 .. Len(out) :
        LET a == Agg(fn, Field(1, "", <<"a">>))
            left == SubSeq(out, 1, k)
            right == SubSeq(out, k + 1, Len(out))
        IN  EvalAgg(fn, Merge(a, Buffer(a, left), Buffer(a, right)))
              = AggregateOf(fn, [i \in DOMAIN out |-> out[i][1]])
=============================================================================
