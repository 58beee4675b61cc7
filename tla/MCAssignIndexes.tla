-------------------------- MODULE MCAssignIndexes --------------------------
(* Table t has every row over two values and NULL, or few rows; table u  *)
(* has one column.                                                            *)
EXTENDS AssignIndexes

MCTableOf == [a |-> "t", b |-> "t", c |-> "u"]
Row(x, y) == [a |-> x, b |-> y]
Vals == <<Null, 2, 1>>
AllRows == [i \in 1 .. 9 |-> Row(Vals[1 + (i % 3)], Vals[1 + ((i \div 3) % 3)])] \o <<Row(5, 2), Row(1, 5)>>
URows == <<[c |-> 1], [c |-> 2]>>
MCTables == {[t |-> AllRows, u |-> URows],
             [t |-> <<Row(1, 2), Row(Null, 1), Row(1, 1)>>, u |-> <<[c |-> 2]>>]}

Idx(cols, d) == [table |-> MCTableOf[cols[1]], cols |-> cols, driver |-> d]
MCRegistries ==
    UNION {{<<Idx(<<"a">>, d), Idx(<<"b">>, d), Idx(<<"c">>, d)>>,
            <<Idx(<<"b", "a">>, d), Idx(<<"c">>, d)>>,
            <<Idx(<<"b">>, d), Idx(<<"a", "b">>, d)>>} : d \in {"pilosa", "mergeable"}}
    \union {<<Idx(<<"a">>, "pilosa"), Idx(<<"b">>, "mergeable")>>,
            <<Idx(<<"a">>, "mergeable"), Idx(<<"b">>, "unmergeable")>>,
            <<Idx(<<"a", "b">>, "unmergeable"), Idx(<<"a">>, "pilosa")>>}

N(n) == [type |-> "narrow", n |-> n]
W(n) == [type |-> "wide", n |-> n]
U(n) == [type |-> "uint", n |-> n]
C(c, op, l) == [op |-> op, col |-> c, lit |-> l, swapped |-> FALSE]
Bt(c, l, h) == [op |-> "between", col |-> c, lo |-> l, hi |-> h, swapped |-> FALSE]
In(c, op, ls) == [op |-> op, col |-> c, lits |-> ls, swapped |-> FALSE]
Few == {C("a", "<", W(2)), C("b", "=", W(1)), C("a", "=", W(2)), [op |-> "other", col |-> "b", swapped |-> FALSE]}
More ==
    {C("a", op, W(2)) : op \in Comparisons} \union {C("b", op, W(1)) : op \in {"=", "<=", ">"}}
    \union {C("a", "=", W(4)), C("b", "=", W(Null)), C("a", ">", N(1)), C("c", "=", W(2)), C("a", "=", U(2)),
            [C("a", "<", W(2)) EXCEPT !.swapped = TRUE], [C("b", "=", W(2)) EXCEPT !.swapped = TRUE]}
    \union {Bt("a", W(1), W(2)), Bt("b", W(1), W(2)), Bt("a", W(2), W(2))}
    \union {In("a", "in", <<W(1), W(5)>>), In("b", "notin", <<W(2), W(4)>>), In("a", "notin", <<W(1)>>)}
    \union {[op |-> "other", col |-> "b", swapped |-> FALSE]}
MCPredicates(n) == IF n < 2 THEN More ELSE Few
MCIndexes == UNION {ToSet(r) : r \in MCRegistries}
MCContents == UNION {{x.t, x.u} : x \in MCTables}
=============================================================================
