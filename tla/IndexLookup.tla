---------------------------- MODULE IndexLookup ----------------------------
(***************************************************************************)
(* What an index answers to a lookup, for the three kinds of index of the  *)
(* repository: pilosa (sql/index/pilosa/index.go, lookup.go), and the      *)
(* mergeable and unmergeable indexes of memory tables (memory/*_index.go). *)
(*                                                                         *)
(* A lookup is a tree.  Its leaf looks keys up in one index:               *)
(*   get: the keys; asc: at least lo and below hi; desc: above lo and at   *)
(*   most hi; not: everything but the keys.                                *)
(* A pilosa lookup carries the operations to apply to its own rows, in     *)
(* order; a memory lookup that was merged is an "and" or an "or" of parts. *)
(*                                                                         *)
(* A key is a number with the Go type the parser gave it: "narrow" is the  *)
(* smallest signed type the literal fits (values up to NarrowMax), "wide"  *)
(* an int64, "uint" an unsigned one.  Columns hold wide numbers or NULL.   *)
(***************************************************************************)
EXTENDS Mapping, FiniteSets, SequencesExt

CONSTANTS
    Null,
    NarrowMax,   \* the largest value of a narrow type
    Indexes,     \* the indexes that there may be
    Contents     \* the sequences of rows a table may hold

ASSUME LookupAssumption == NarrowMax \in Nat

-----------------------------------------------------------------------------
(* Making lookups *)

Leaf(idx, kind, lo, hi) == [idx |-> idx, kind |-> kind, lo |-> lo, hi |-> hi, ops |-> <<>>, parts |-> <<>>]

IsAscend(idx) == idx.driver # "unmergeable"
IsDescend(idx) == idx.driver # "unmergeable"
IsNegate(idx) == idx.driver # "unmergeable"

Get(idx, keys) == Leaf(idx, "get", keys, <<>>)
AscendGreaterOrEqual(idx, keys) == Leaf(idx, "asc", keys, <<>>)
AscendLessThan(idx, keys) == Leaf(idx, "asc", <<>>, keys)
AscendRange(idx, gte, lt) == Leaf(idx, "asc", gte, lt)
DescendGreater(idx, keys) == Leaf(idx, "desc", keys, <<>>)
DescendLessOrEqual(idx, keys) == Leaf(idx, "desc", <<>>, keys)
DescendRange(idx, lte, gt) == Leaf(idx, "desc", gt, lte)
Not(idx, keys) == Leaf(idx, "not", keys, <<>>)

\* IsMergeable: pilosa lookups merge when they share a pilosa index, which there is
\* one of for each table; memory lookups merge with every mergeable one.
IsMergeable(l1, l2) ==
    /\ l1.idx.driver = l2.idx.driver
    /\ l1.idx.driver # "unmergeable"
    /\ l1.idx.driver = "pilosa" => l1.idx.table = l2.idx.table

\* The parts of a memory lookup that is to be merged again with the same operation.
PartsOf(l, kind) == IF l.kind = kind THEN l.parts ELSE <<l>>

Merge(l1, l2, kind) ==
    IF l1.idx.driver = "pilosa"
    THEN [l1 EXCEPT !.ops = Append(@, <<kind, l2>>)]
    ELSE [Leaf(l1.idx, kind, <<>>, <<>>) EXCEPT !.parts = PartsOf(l1, kind) \o PartsOf(l2, kind)]

Intersection(l1, l2) == Merge(l1, l2, "and")
Union(l1, l2) == Merge(l1, l2, "or")

-----------------------------------------------------------------------------
(* The index itself, built from the rows of a table as savePartition does *)

Value(row, col) == row[col]

Saved(idx, rows) ==
    LET f(st, i) ==
          FoldLeft(LAMBDA s, c :
                     LET v == Value(rows[i], c)
                     IN  IF v = Null THEN s
                         ELSE [m |-> getRowID(s.m, c, v),
                               bits |-> s.bits \union {<<c, rowIDOf(s.m, c, v), i - 1>>}],
                   [st EXCEPT !.m = putLocation(st.m, i - 1, i)], idx.cols)
    IN  FoldLeft(f, [m |-> newMapping(ToSet(idx.cols)), bits |-> {}],
                 [i \in 1 .. Len(rows) |-> i])

SavedIndex == [x \in Indexes \X Contents |-> Saved(x[1], x[2])]

-----------------------------------------------------------------------------
(* Pilosa lookups.  A bitmap row is {S}, or {} for Go's nil. *)

intersect(r1, r2) ==
    IF r1 = {} THEN r2 ELSE IF r2 = {} THEN {}
    ELSE {(CHOOSE s \in r1 : TRUE) \intersect (CHOOSE s \in r2 : TRUE)}
union(r1, r2) ==
    IF r1 = {} THEN r2 ELSE IF r2 = {} THEN r1
    ELSE {(CHOOSE s \in r1 : TRUE) \union (CHOOSE s \in r2 : TRUE)}
difference(r1, r2) ==
    IF r1 = {} THEN r2 ELSE IF r2 = {} THEN r1
    ELSE {(CHOOSE s \in r1 : TRUE) \ (CHOOSE s \in r2 : TRUE)}

\* field.Row: the columns of one row of a field.
FieldRow(sv, c, id) == {b[3] : b \in {x \in sv.bits : x[1] = c /\ x[2] = id}}
\* The union of several, nil for none.
FieldRows(sv, c, ids) == IF ids = {} THEN {} ELSE {UNION {FieldRow(sv, c, id) : id \in ids}}

\* Encoded keys are equal when the numbers are and both are signed or unsigned.
Encoded(key) == IF key.type = "uint" THEN <<"uint", key.n>> ELSE key.n

\* The filters of newAscendLookup and newDescendLookup for the i-th key.
Ascends(l, i, v) == (l.lo # <<>> => v >= l.lo[i].n) /\ (l.hi # <<>> => v < l.hi[i].n)
Descends(l, i, v) == (l.lo # <<>> => v > l.lo[i].n) /\ (l.hi # <<>> => v <= l.hi[i].n)

\* intersectExpressions of the three lookups.  A key that was never met is left
\* out of a get; a get leaves the row of no key out of a not.
KeyIDs(sv, c, key) ==
    IF key.type = "uint" THEN {} ELSE rowID(sv.m, c, Encoded(key))

ExpressionRow(l, sv, i) ==
    LET c == l.idx.cols[i]
        met == ToSet(Bucket(sv.m.ids[c]))
    IN  CASE l.kind = "get" -> FieldRows(sv, c, KeyIDs(sv, c, l.lo[i]))
          [] l.kind = "asc" -> FieldRows(sv, c, filter(sv.m, c, {v \in met : Ascends(l, i, v)}))
          [] l.kind = "desc" -> FieldRows(sv, c, filter(sv.m, c, {v \in met : Descends(l, i, v)}))
          [] l.kind = "not" ->
               LET none == KeyIDs(sv, c, l.lo[i]) = {}
               IN  difference(FieldRows(sv, c, 1 .. getMaxRowID(sv.m, c)),
                              IF none THEN {{}} ELSE FieldRows(sv, c, KeyIDs(sv, c, l.lo[i])))

intersectExpressions(l, sv) ==
    FoldLeft(LAMBDA row, i :
               IF l.kind = "get" /\ KeyIDs(sv, l.idx.cols[i], l.lo[i]) = {} THEN row
               ELSE intersect(row, ExpressionRow(l, sv, i)),
             {}, [i \in 1 .. Len(l.idx.cols) |-> i])

\* values: the operations are applied in the order in which they were merged; a
\* range and a negation skip one that found nothing.
RECURSIVE values(_, _)
values(l, rows) ==
    FoldLeft(LAMBDA row, op :
               LET r == values(op[2], rows)
               IN  IF r = {} /\ l.kind # "get" THEN row
                   ELSE IF op[1] = "and" THEN intersect(row, r) ELSE union(row, r),
             intersectExpressions(l, SavedIndex[l.idx, rows]), l.ops)

\* A leaf that cannot be evaluated: a NULL key cannot be encoded; a get or a not
\* needs the bucket of the field; a range decodes every value as the type of its
\* key, into which it may not fit.
LeafFails(l, sv) ==
    \E i \in DOMAIN l.idx.cols :
        LET bucket == sv.m.ids[l.idx.cols[i]]
            keys == {k[i] : k \in {l.lo, l.hi} \ {<<>>}}
        IN  \/ l.kind \in {"get", "not"} /\ (bucket = NoBucket \/ \E k \in keys : k.n = Null)
            \/ /\ l.kind \in {"asc", "desc"} /\ Bucket(bucket) # <<>>
               /\ \E k \in keys : \/ k.n = Null \/ k.type = "uint"
                                  \/ k.type = "narrow" /\ \E v \in ToSet(bucket) : v > NarrowMax

RECURSIVE PilosaFails(_, _)
PilosaFails(l, rows) ==
    LeafFails(l, SavedIndex[l.idx, rows]) \/ \E i \in DOMAIN l.ops : PilosaFails(l.ops[i][2], rows)

-----------------------------------------------------------------------------
(* Memory lookups evaluate an expression on every row *)

\* Whether a row is looked up: "true", "false" or "null".
Both(x, y) == IF "false" \in {x, y} THEN "false" ELSE IF "null" \in {x, y} THEN "null" ELSE "true"
Either(x, y) == IF "true" \in {x, y} THEN "true" ELSE IF "null" \in {x, y} THEN "null" ELSE "false"
Negated(x) == CASE x = "true" -> "false" [] x = "false" -> "true" [] x = "null" -> "null"
Test(v, key, holds) ==
    IF v = Null \/ key.n = Null THEN "null" ELSE IF holds THEN "true" ELSE "false"

RECURSIVE EvalExpression(_, _)
EvalExpression(l, row) ==
    LET at(i) == Value(row, l.idx.cols[i])
        all == FoldLeft(LAMBDA b, i : Both(b, Test(at(i), l.lo[i], at(i) = l.lo[i].n)), "true",
                        [i \in 1 .. Len(l.idx.cols) |-> i])
        parts(Op(_, _), unit) == FoldLeft(LAMBDA b, p : Op(b, EvalExpression(p, row)), unit, l.parts)
        above(holds) == IF l.lo = <<>> THEN "true" ELSE Test(at(1), l.lo[1], holds)
        below(holds) == IF l.hi = <<>> THEN "true" ELSE Test(at(1), l.hi[1], holds)
    IN  CASE l.kind = "get" -> all
          [] l.kind = "not" -> Negated(all)
          [] l.kind = "asc" -> Both(above(at(1) >= l.lo[1].n), below(at(1) < l.hi[1].n))
          [] l.kind = "desc" -> Both(above(at(1) > l.lo[1].n), below(at(1) <= l.hi[1].n))
          [] l.kind = "and" -> parts(Both, "true")
          [] l.kind = "or" -> parts(Either, "false")

\* A memory lookup panics on a NULL key, except a single get, and on a range over
\* several columns.
RECURSIVE MemoryFails(_, _)
MemoryFails(l, merged) ==
    \/ l.kind \in {"asc", "desc"} /\ Len(l.idx.cols) > 1
    \/ /\ l.kind # "get" \/ merged
       /\ \E k \in ToSet(l.lo) \union ToSet(l.hi) : k.n = Null
    \/ \E i \in DOMAIN l.parts : MemoryFails(l.parts[i], TRUE)

-----------------------------------------------------------------------------
\* Values of a lookup over the rows of its table, as positions; it may fail, and
\* does in pilosa when there is no row, for want of the bucket of locations.
Fails(l, rows) ==
    IF l.idx.driver = "pilosa" THEN rows = <<>> \/ PilosaFails(l, rows) ELSE MemoryFails(l, FALSE)

Values(l, rows) ==
    IF l.idx.driver = "pilosa"
    THEN locations(SavedIndex[l.idx, rows].m, UNION values(l, rows))
    ELSE {i \in DOMAIN rows : EvalExpression(l, rows[i]) = "true"}
=============================================================================
