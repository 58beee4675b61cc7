---------------------------- MODULE MCRowIters ----------------------------
(***************************************************************************)
(* Row iterators.  A behaviour either runs a plan of up to three operators *)
(* over tables t and u with two columns and g, whose second column holds   *)
(* arrays, or a nested loop join (JoinIter); the variables of the other    *)
(* rest.                                                                   *)
(***************************************************************************)
EXTENDS RowIters, JoinIter

A == Field(1, "t", <<"a">>)
B == Field(2, "t", <<"b">>)

MCColumns == [t |-> <<<<"a">>, <<"b">>>>, u |-> <<<<"a">>, <<"b">>>>, g |-> <<<<"a">>, <<"b">>>>]

ByIndex(t, l, r) == IndexedJoin(t, Bin("=", A, Field(3, "u", <<"a">>)), <<A>>, l, r)
Accessed == IndexedTable(Table("u"), <<1>>)

T == Table("t")
U == Table("u")

\* u after pushdown: filtered on its second column and projected to the first
Pushed == [U EXCEPT !.cols = <<1>>, !.filters = <<Bin(">", Field(2, "u", <<"b">>), Lit(1))>>]

Bases ==
    {T, CrossJoin(T, Pushed), Union(T, U), Union(Limit(1, T), U),
     CrossJoin(T, U), CrossJoin(T, Filter(Bin(">", B, Lit(1)), U)), CrossJoin(T, Limit(1, U)),
     ByIndex("inner", T, Accessed),
     ByIndex("left", T, Filter(Bin(">", B, Lit(1)), Accessed))}

Unary(k) ==
    {TableAlias("x", k), Filter(Bin("=", A, Lit(1)), k), Project(<<B, Bin("+", A, B)>>, k),
     Limit(0, k), Limit(2, k), Offset(1, k), Distinct(k),
     Sort(<<A, B>>, <<FALSE, TRUE>>, k), Sort(<<B>>, <<TRUE>>, k),
     GroupBy(<<Agg("count", Star("")), Agg("sum", B), A, Agg("avg", B)>>, <<>>, k),
     GroupBy(<<A, Alias(<<"n">>, Agg("countdistinct", B)), Agg("min", B)>>, <<A>>, k)}

\* Plans that need their child sorted, or arrays
Special ==
    {OrderedDistinct(Sort(<<A, B>>, <<FALSE, TRUE>>, Project(<<A, B>>, k))) : k \in Bases}
      \union {GroupBy(<<B, Agg("max", A), Agg("last", A), Agg("first", A)>>, <<B>>, k) : k \in Bases}
      \union {Generate(2, Table("g")), Filter(Bin("=", A, Lit(1)), Generate(2, Table("g"))),
              Limit(2, Generate(2, Table("g"))), CrossJoin(T, Generate(2, Table("g")))}

MCPlanSet == UNION {UNION {Unary(j) : j \in Unary(k)} : k \in Bases} \union Special \union Bases

G == <<<<>>, <<<<1, [array |-> <<1, 2>>]>>, <<2, Null>>>>, <<<<1, [array |-> <<3>>]>>>>>>

MCContents ==
    {[t |-> t, u |-> u, g |-> G] :
        t \in {<<>>, <<<<>>, <<<<1, 2>>, <<2, 1>>>>, <<<<1, 1>>, <<1, 2>>>>>>, <<<<<<2, Null>>, <<1, 1>>>>, <<<<Null, 2>>>>>>},
        u \in {<<<<<<1, 1>>, <<1, 2>>>>, <<<<3, 1>>>>>>, <<<<>>>>, <<<<<<1, 2>>, Bad>>>>}}

-----------------------------------------------------------------------------
\* no plan, and no join
PlanRests ==
    /\ plan = T /\ db = [t |-> <<>>, u |-> <<>>, g |-> G]
    /\ it = <<>> /\ phase = "closed" /\ out = <<>>
    /\ cancelled = TRUE /\ faulty = FALSE /\ leaked = 0
JoinRests ==
    /\ nl = 0 /\ nr = 0 /\ matching = {} /\ typ = "inner" /\ mode = "memory"
    /\ primaryRow = 0 /\ taken = 0 /\ foundMatch = FALSE /\ secondary = -1 /\ passes = 0
    /\ rows = <<>> /\ rowsPos = 0 /\ disposed = TRUE /\ lost = FALSE /\ joined = <<>> /\ res = "eof"

MCInit == (Init /\ JoinRests) \/ (PlanRests /\ JoinInit)
MCNext == (Next /\ UNCHANGED joinVars) \/ (JoinNext /\ UNCHANGED vars)
\* the caller of a join goes on asking until io.EOF
MCSpec == MCInit /\ [][MCNext]_<<vars, joinVars>> /\ WF_<<vars, joinVars>>(JoinNext /\ UNCHANGED vars)
=============================================================================
