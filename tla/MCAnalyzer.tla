----------------------------- MODULE MCAnalyzer -----------------------------
(***************************************************************************)
(* SELECT statements over t(a, b) and u(a, c), which has an index on a,    *)
(* and the view v.                                                         *)
(***************************************************************************)
EXTENDS Analyzer

a == UCol("", <<"a">>)
b == UCol("", <<"b">>)
c == UCol("", <<"c">>)
ta == UCol("t", <<"a">>)
tb == UCol("t", <<"b">>)
ua == UCol("u", <<"a">>)
uc == UCol("u", <<"c">>)
n == UCol("", <<"n">>)
as(e) == Alias(<<"n">>, e)
Sum(e) == UFun("sum", e)
CountAll == UFun("count", Star(""))
All == <<Star("")>>

MCColumns == [t |-> <<<<"a">>, <<"b">>>>, u |-> <<<<"a">>, <<"c">>>>]
T == FromTable("t", "")
U == FromTable("u", "")
MCViews == [v |-> [Select(T, <<b, as(Bin("+", a, b))>>) EXCEPT !.where = <<Bin(">", b, Lit(1))>>]]
MCIndexes == {<<"u", <<<<"a">>>>>>, <<"t", <<<<"b">>, <<"a">>>>>>}

Where(q, e) == [q EXCEPT !.where = <<e>>]
OrderBy(q, es, desc) == [q EXCEPT !.order = es, !.desc = desc]
By(q, es) == [q EXCEPT !.by = es]
Ha(q, e) == [q EXCEPT !.having = <<e>>]

Lists == {All, <<a>>, <<b, a>>, <<as(Bin("+", a, b))>>, <<a, as(Bin("+", a, Lit(1)))>>, <<as(b)>>, <<Bin("+", a, b), Lit(1)>>}
Conds == {Bin("=", a, Lit(1)), Bin("and", Bin(">", b, Lit(1)), Bin("=", a, b)),
          Bin("and", Bin("=", Lit(1), Lit(1)), Bin("=", a, Lit(2))), Bin("=", Lit(1), Lit(0)), Bin("=", n, Lit(2))}
Orders == {<<a>>, <<b, a>>, <<Lit(1)>>, <<n>>, <<n, b>>, <<Bin("+", a, b)>>}

OneTable ==
    LET plain == {Select(f, l) : f \in {T, FromTable("t", "x")}, l \in Lists}
        filtered == {Where(q, e) : q \in plain, e \in Conds}
    IN  plain \union filtered
          \union {OrderBy(q, o, [i \in DOMAIN o |-> i = 1]) : q \in plain \union {Select(T, l) : l \in Lists}, o \in Orders}

Eq == Bin("=", ta, ua)
Joins ==
    LET on(typ, e) == FromJoin(typ, <<e>>, T, U)
        froms == {FromJoin("natural", <<>>, T, U), FromJoin("cross", <<>>, T, U), on("inner", Eq), on("left", Eq), on("right", Eq),
                  on("inner", Bin("and", Eq, Bin(">", tb, Lit(1)))), on("left", Bin("and", Eq, Bin(">", uc, Lit(1)))),
                  on("inner", Bin(">", ta, ua)),
                  on("inner", Bin("and", Eq, Bin("=", tb, uc))), on("right", Bin("and", Eq, Bin("=", tb, uc)))}
        plain == {Select(f, l) : f \in froms, l \in {All, <<c, b>>, <<uc, ta>>, <<as(Bin("+", tb, uc)), ta>>, <<Star("u"), b>>}}
    IN  plain \union {Where(q, e) : q \in plain, e \in {Bin("=", tb, Lit(2)), Bin("and", Bin("=", uc, Lit(1)), Bin(">", b, c)), Bin("=", a, Lit(1))}}
          \union {OrderBy(q, o, [i \in DOMAIN o |-> i = 1]) : q \in plain, o \in {<<c>>, <<tb, uc>>, <<n>>}}
          \union {[OrderBy(q, <<b>>, <<FALSE>>) EXCEPT !.limit = <<1>>] : q \in plain}

Groups ==
    LET lists == {<<a, Sum(b)>>, <<CountAll, a>>, <<a, as(Sum(b))>>, <<Bin("+", Sum(b), a), a>>, <<as(a), CountAll>>,
                  <<as(Bin("+", Sum(b), Lit(1)))>>, <<Sum(b), CountAll>>}
        plain == {By(Select(T, l), g) : l \in lists, g \in {<<>>, <<a>>, <<Lit(1)>>, <<n>>}}
    IN  plain
          \union {Where(q, Bin(">", b, Lit(1))) : q \in plain}
          \union {OrderBy(q, o, <<TRUE>>) : q \in plain, o \in {<<a>>, <<n>>, <<Lit(2)>>, <<Sum(b)>>}}
          \union {Ha(q, e) : q \in plain, e \in {Bin(">", Sum(b), Lit(2)), Bin(">", n, Lit(2)), Bin(">", CountAll, Lit(1)), Bin("=", a, Lit(1))}}

Inner == {Select(T, <<a, as(Bin("+", a, b))>>), Select(T, <<a, b>>), Where(Select(T, <<a, b, as(b)>>), Bin(">", b, Lit(1))),
          By(Select(T, <<a, as(Sum(b))>>), <<a>>), OrderBy(Select(T, <<b, a>>), <<b>>, <<TRUE>>), Select(T, All),
          [OrderBy(Select(T, <<a, b>>), <<b>>, <<FALSE>>) EXCEPT !.limit = <<2>>]}
Nested ==
    LET froms == {FromSelect(q, "s") : q \in Inner} \union {FromTable("v", "")}
        plain == {Select(f, l) : f \in froms, l \in {All, <<a>>, <<n>>, <<b>>, <<n, Alias(<<"m">>, a)>>, <<UCol("s", <<"a">>)>>}}
    IN  plain \union {Where(q, e) : q \in plain, e \in {Bin(">", a, Lit(1)), Bin("=", n, Lit(3))}}
          \union {OrderBy(q, <<a>>, <<TRUE>>) : q \in plain}
          \union {Select(FromJoin("inner", <<Bin("=", UCol("s", <<"a">>), ua)>>, f, U), l) : f \in froms, l \in {All, <<c>>, <<c, n>>}}

Distincts ==
    {OrderBy([Select(T, l) EXCEPT !.distinct = TRUE], o, [i \in DOMAIN o |-> FALSE]) : l \in Lists, o \in {<<>>, <<Lit(1)>>}}
Limits ==
    {[q EXCEPT !.limit = k, !.offset = o] : q \in {Select(T, l) : l \in Lists} \union {OrderBy(Select(T, l), <<b>>, <<FALSE>>) : l \in Lists},
          k \in {<<>>, <<2>>}, o \in {<<>>, <<1>>}}
Unions ==
    {Unite(typ, x, y) : typ \in {"all", "distinct"},
        x \in {Select(T, <<a>>), Select(T, <<a, b>>), Where(Select(T, <<a, b>>), Bin(">", b, Lit(1))), OrderBy(Select(T, <<a>>), <<a>>, <<FALSE>>)},
        y \in {Select(U, <<c>>), Select(U, <<a, c>>), Where(Select(U, <<c, a>>), Bin("=", a, Lit(1))), Select(T, <<a, b>>), Select(U, <<Bin("+", a, Lit(0))>>)}}

MCStatements == OneTable \union Inner \union Joins \union Groups \union Nested \union Distincts \union Limits \union Unions

MCDatabases ==
    {[t |-> <<<<<<1, 2>>, <<2, 1>>>>, <<<<1, 1>>, <<1, 2>>>>>>, u |-> <<<<<<1, 1>>, <<1, 3>>>>, <<<<3, 1>>>>>>],
     [t |-> <<<<<<2, Null>>, <<1, 3>>>>>>, u |-> <<<<>>>>]}
=============================================================================
