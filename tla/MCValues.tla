------------------------------ MODULE MCValues ------------------------------
(***************************************************************************)
(* Types, expressions and built-in functions share one instance: integers  *)
(* of 2 to 6 bits, floats of 3 and 4 digits, short texts, instants in      *)
(* hours.  A behaviour explores one of the three areas; the variables of   *)
(* the others rest.                                                        *)
(***************************************************************************)
EXTENDS Builtins

VARIABLE area

B == [i8 |-> 2, i16 |-> 3, i24 |-> 4, i32 |-> 5, i64 |-> 6, byte |-> 2]
M == [f32 |-> 3, f64 |-> 4]
Lens == {-1, 0, 1, 2, 3, 8, 9, 10, 33, 65, 127}
Colls == {<<"", "">>, <<"", "binary">>, <<"latin1", "">>, <<"utf8mb4", "utf8mb4_bin">>, <<"utf8", "">>, <<"latin1", "utf8mb4_bin">>, <<"", "nocoll">>}
Wd(l) == <<l, 0, 0>>
Members == {<<>>, <<Wd(1)>>, <<Wd(1), Wd(2)>>, <<Wd(1), <<1, 1, 0>>>>, <<Wd(1), <<1, 0, 1>>>>, <<Wd(1), Wd(2), Wd(3), Wd(4), Wd(5), Wd(6)>>}
MCDefs ==
  {[Def(n) EXCEPT !.unsigned = u] : n \in DOMAIN IntegerNames, u \in BOOLEAN}
  \cup {Def(n) : n \in {"float", "double", "date", "datetime", "timestamp", "time", "year", "json", "polygon"}}
  \cup {[Def("decimal") EXCEPT !.len = p, !.scale = s] : p \in {-1, 1, 2, 3, 6}, s \in {-1, 0, 1, 2}}
  \cup {[Def("bit") EXCEPT !.len = n] : n \in {-1, 0, 1, 3, 6, 7}}
  \cup {[Def(n) EXCEPT !.len = l] : n \in {"tinyblob", "mediumblob", "longblob", "blob", "binary", "varbinary"}, l \in Lens}
  \cup {[Def(n) EXCEPT !.len = l, !.charset = c[1], !.collate = c[2]] : n \in CharacterTypeNames \ {"enum", "set"}, l \in Lens, c \in Colls}
  \cup {[Def(n) EXCEPT !.vals = m, !.charset = c[1], !.collate = c[2]] : n \in {"enum", "set"}, m \in Members, c \in Colls}
\* a float64 of four digits, in quarters: 0.25, 3.75, 26 and 208 are among them
Floats == {Float(n) : n \in {-144, -6, -4, -2, -1, 0, 1, 2, 4, 6, 9, 10, 15, 16, 104, 416, 832}} \cup {Infinity, NegInfinity, NaN}
Numbers == {SInt(n) : n \in {-32, -31, -9, -8, -5, -4, -3, -2, -1, 0, 1, 2, 3, 4, 7, 8, 9, 31}} \cup {UInt(n) : n \in {0, 1, 3, 4, 15, 16, 31, 32, 60, 63}} \cup Floats
Literals == {Text(<<"num", n, 1>>) : n \in {0, 1, 7}} \cup {Text(<<"num", n, 2>>) : n \in {0, -1, 12, 27, 70, 99}} \cup {Text(<<"fix", n>>) : n \in {0, 149, 150, 995, -995, 994}}
Clocks == {Text(<<"clock", neg, h, m, s, d, f>>) : neg \in BOOLEAN, h \in {0, 12, 838, 900}, m \in {0, 59, 60}, s \in {0, 59}, d \in {2}, f \in {0, 5, 50, 99}}
MCInputs(t) ==
  {Null} \cup
  CASE t[1] \in {"num", "bit"} -> Numbers \cup Literals \cup {Text(<<"str", l, n>>) : l \in 1..3, n \in 1..4} \cup {Time(3)}
    [] t[1] = "json" -> {SInt(3), SInt(31), UInt(63), Text(<<"num", 4, 1>>), Text(<<"num", 27, 2>>), Text(<<"fix", 150>>), Text(<<"str", 1, 1>>), Float(6), NaN, Infinity}
    [] t[1] = "decimal" -> {SInt(n) : n \in {-10, -1, 0, 1, 9, 10}} \cup Floats \cup Literals
    [] t[1] = "string" -> {Text(<<"str", l, n>>) : l \in {1, 2}, n \in {1, 3, 8, 9, 10, 32, 33, 34}} \cup {SInt(3), Time(50)}
    [] t[1] = "datetime" -> {Time(n) : n \in {0, 24, 47, 48, 50, 95, 96, 97, 143, 144, 145, 200, 89999, 90000, 90001}} \cup {Text(<<"date", n>>) : n \in {0, 24, 60, 144, 90000, 90024}} \cup {Text(<<"zerodate">>), SInt(1)}
    [] t[1] = "timespan" -> Clocks \cup {SInt(n) : n \in {-5, 0, 59, 60, 999, 1000, 1234, 1260, -1234, 9999, 10000, 123456, -123456, 8385959, 9999999, 10000000}} \cup Floats \cup {Float(n) : n \in {-5120, 5120, 14336}} \cup {Text(<<"fix", n>>) : n \in {-150, 25, 150, 2600, 5950}} \cup {Text(<<"num", 59, 2>>)} \cup {<<"dur", n>> : n \in {-1, 5, 100, 400000000}}
    [] t[1] = "year" -> {SInt(n) : n \in {-1, 0, 1, 69, 70, 99, 100, 1900, 1901, 2155, 2156}} \cup Literals \cup {Text(<<"num", 2000, 4>>)}
                         \cup {Float(n) : n \in {4, 6, 7680, 8192}} \cup {NaN, Infinity} \cup {UInt(40)}
                         \cup {Time(n) : n \in {5, 10000, Instant(1900, 12, 31, 23), Instant(1901, 1, 1, 0), Instant(2155, 12, 31, 23), Instant(2156, 1, 1, 0)}}
    [] t[1] \in {"enum", "set"} -> {SInt(n) : n \in {-1, 0, 1, 2, 3, 31}} \cup {UInt(63)} \cup Floats \cup {Text(<<"num", 1, 1>>)} \cup {Text(<<"words", ws>>) : ws \in {<<>>, <<Wd(1)>>, <<<<1, 1, 1>>>>, <<Wd(2), Wd(1), Wd(2)>>, <<Wd(9)>>}}
EnumT == <<"enum", <<Wd(1), Wd(2)>>, Collation_Default>>
VarT == CreateString("VarChar", 8, Collation_Default)
F1 == Field(1, Boolean, TRUE)
F2 == Field(2, <<"num", "Uint8">>, FALSE)
F3 == Field(3, VarT, TRUE)
F4 == Field(4, Datetime, FALSE)
F5 == Field(5, EnumT, FALSE)
L0 == Literal(SInt(0), Int64)
L1 == Literal(SInt(1), Int64)
LN == Literal(Null, NullType)
LF == Literal(Float(1), Float64)
LZ == Literal(Float(0), Float64)
L23 == Literal(SInt(23), Int64)
L31 == Literal(SInt(-31), Int64)
LT == Literal(Text(<<"fix", 50>>), LongText)
LS == Literal(Text(<<"str", 1, 2>>), LongText)
LB == Literal(Text(<<"str", 0, 1>>), LongText)
MCLeaves == {F1, F2, F3, F4, F5, L0, L1, LN, LF, LZ, LT, LS, LB}
Interval(e, u) == <<"interval", u, <<e>>>>
Tup(s) == <<"tuple", "", s>>
Targets == {"binary", "char", "date", "datetime", "decimal", "double", "json", "signed", "time", "unsigned"}
Units == {"HOUR", "DAY", "WEEK", "MONTH", "QUARTER", "YEAR"}
Deep(e) ==
  {Node(op, <<e>>) : op \in {"not", "isnull", "minus"}} \cup {Node(op, <<e, x>>) : op \in {"and", "or"}, x \in {F1}}
  \cup {<<"case", <<TRUE, TRUE>>, <<F1, e, L1, LS>>>>, <<"convert", "signed", <<e>>>>}
Operators(e, xs) ==
  {Node(op, <<e>>) : op \in {"not", "isnull", "istrue", "isfalse", "minus", "alias"}}
  \cup {<<"convert", t, <<e>>>> : t \in Targets}
  \cup {<<"case", <<TRUE, TRUE>>, <<F1, e, L1, LS>>>>, <<"case", <<FALSE, FALSE>>, <<e, LN, F1, L1>>>>,
        <<"case", <<FALSE, FALSE>>, <<e, LN>>>>}
  \cup {Node(op, <<e, x>>) : op \in {"and", "or", "=", "<"} \cup ArithmeticOps \cup {"like", "regexp"}, x \in xs}
  \cup {Node("in", <<e, Tup(<<x>>)>>) : x \in xs} \cup {Node("in", <<e, Tup(<<L1, x>>)>>) : x \in xs}
  \cup {Node("in", <<Tup(<<e, L0>>), Tup(<<Tup(<<F1, L0>>), L0>>)>>), Node("in", <<Tup(<<e, L0>>), Tup(<<Tup(<<F1, L0>>)>>)>>),
        Node("=", <<Tup(<<e, L0>>), Tup(<<L1, L0>>)>>)}
  \cup {Node("between", <<e, x, y>>) : x \in xs \ {L1, LZ, LS}, y \in {F1, LS, F4}}
  \cup {Node(op, <<e, Interval(x, u)>>) : op \in {"+", "-"}, x \in {F1, L1, L23, L31, LN, LS}, u \in Units}
  \cup {Node("*", <<e, Interval(L1, "DAY")>>), Node("+", <<Interval(L1, "DAY"), e>>), Node("-", <<Interval(L1, "DAY"), e>>)}
MCAbove(e, n) == IF n = 0 THEN Operators(e, MCLeaves) ELSE Deep(e)
Day0(y, m, d, h) == Time(Instant(y, m, d, h))
W1 == Text(<<"words", <<Wd(1)>>>>)
MCRows == {<<SInt(1), UInt(3), Text(<<"str", 1, 2>>), Day0(4, 1, 31, 5), W1>>,
           <<Null, UInt(0), Null, Day0(3, 11, 30, 0), W1>>,
           <<SInt(-2), UInt(2), Text(<<"fix", 50>>), Day0(4, 12, 29, 0), W1>>}
MCSub == {<<>>, <<SInt(1)>>, <<Null>>, <<SInt(1), SInt(2)>>, <<<<"list", <<SInt(1), SInt(2)>>>>>>, <<<<"list", <<>>>>>>}

VarF == CreateString("VarChar", 8, Collation_Default)
T(s) == <<Str(s), VarF, FALSE>>
I(n) == <<SInt(n), Int64, FALSE>>
N(t) == <<Null, t, TRUE>>
DateArg(y, m, d) == <<Time(Instant(y, m, d, 5)), Datetime, FALSE>>
MCArguments ==
  {T(s) : s \in {<<>>, <<97>>, <<97, 66, 32>>, <<195, 169, 98>>, <<49, 50>>, <<44, 97, 44, 195, 169>>, <<32, 82, 98, 112, 109>>, <<97, 0>>,
     <<34, 92, 110, 34>>, <<92, 117, 48, 48, 52, 49>>, <<92, 117, 48, 48, 101>>, <<92, 117, 100, 56, 48, 48>>, <<92>>, <<89, 87, 74, 106>>}}
  \cup {I(n) : n \in {-32, -1, 0, 3, 17, 27, 31}} \cup {<<UInt(n), Uint64, FALSE>> : n \in {3, 63}}
  \cup {<<Float(n), Float64, FALSE>> : n \in {-6, 0, 2, 9, 10, 120}}
  \cup {<<SInt(-2), <<"num", "Int8">>, FALSE>>, <<SInt(15), Int32, FALSE>>}
  \cup {N(VarF), N(Int64), N(NullType), N(Datetime), N(<<"json">>), N(ArrayOfText)}
  \cup {<<<<"json", 400>>, <<"json">>, FALSE>>, <<<<"list", <<Str(<<97>>), Null>>>>, ArrayOfText, FALSE>>, <<<<"list", <<Str(<<98>>), Str(<<97>>)>>>>, ArrayOfText, FALSE>>, <<<<"list", <<>>>>, ArrayOfText, FALSE>>, <<<<"list", <<SInt(1), SInt(2)>>>>, <<"tuple", <<Int64, Int64>>>>, FALSE>>}
  \cup {DateArg(y, m, d) : y \in 1..7, m \in {1, 2, 12}, d \in {1, 3, 4, 5, 10, 28}} \cup {DateArg(y, 12, d) : y \in 1..7, d \in {29, 30, 31}}
Small == {T(<<97>>), T(<<>>), T(<<195, 169>>), I(1), I(-2), N(VarF)}
Nums == {I(-32), I(-1), I(0), I(2), I(3), N(Int64)}
FirstOthers(f) ==
  IF f \in {"if", "replace", "lpad", "rpad", "substring", "substring_index", "regexp_matches"}
  THEN CASE f = "if" -> {<<x, y>> : x \in {T(<<97>>), I(1), N(Int64)}, y \in {I(1), N(VarF)}}
         [] f = "replace" -> {<<x, y>> : x \in Small, y \in {T(<<98>>), N(VarF)}}
         [] f \in {"lpad", "rpad"} -> {<<x, y>> : x \in Nums \cup {T(<<97>>)}, y \in {T(<<>>), T(<<120, 195, 169>>), N(VarF)}}
         [] f = "substring" -> {<<x>> : x \in Nums} \cup {<<x, y>> : x \in Nums, y \in {I(0), I(1), I(9), I(31), N(Int64), T(<<97>>)}}
         [] f = "substring_index" -> {<<x, y>> : x \in Small, y \in Nums}
         [] f = "regexp_matches" -> {<<x>> : x \in Small \cup {T(<<40>>)}} \cup {<<T(<<65>>), x>> : x \in {T(<<105>>), T(<<120>>), N(VarF)}}
  ELSE IF f \in {"date_add", "date_sub"} THEN {<<<<v, u, FALSE>>>> : v \in {SInt(1), Null, Str(<<97>>)}, u \in {"MONTH", "DAY"}} \cup {<<>>}
  ELSE IF f \in {"greatest", "least"} THEN {<<>>} \cup {<<x>> : x \in {T(<<97>>), T(<<49>>), I(1), <<Float(6), Float64, FALSE>>, <<UInt(40), Uint64, FALSE>>, N(NullType), DateArg(2, 1, 1)}} \cup {<<<<Float(6), Float64, FALSE>>, I(1)>>, <<I(2), I(1)>>}
  ELSE IF f = "json_extract" THEN {<<>>} \cup {<<x>> : x \in {T(<<36>>), T(<<36, 46, 97>>), T(<<97>>), N(VarF)}} \cup {<<T(<<36>>), T(<<36, 46, 97>>)>>}
  ELSE IF f = "yearweek" THEN {<<>>, <<I(1)>>, <<I(-1)>>, <<T(<<97>>)>>}
  ELSE IF f = "round" THEN {<<>>} \cup {<<x>> : x \in {I(1), I(-1), N(Int64), T(<<97>>), <<Float(-6), Float64, FALSE>>}}
  ELSE IF f = "log" THEN {<<>>, <<I(3)>>, <<N(Int64)>>}
  ELSE IF Defaults[f] = {1} THEN {<<>>}
  ELSE IF Defaults[f] = {0} \/ 0 \in Defaults[f] THEN {<<>>}
  ELSE {<<x>> : x \in Small \cup {I(3)}} \cup {<<>>}
Nested == [lpad |-> {<<I(3), T(<<195, 169>>)>>}, reverse |-> {<<>>}, to_base64 |-> {<<>>}, from_base64 |-> {<<>>}, upper |-> {<<>>},
  substring |-> {<<I(-1)>>, <<I(2), I(1)>>}, coalesce |-> {<<I(1)>>}, concat |-> {<<T(<<97>>)>>}, if |-> {<<N(Int64), I(1)>>}, length |-> {<<>>},
  round |-> {<<I(-1)>>}, abs |-> {<<>>}, json_unquote |-> {<<>>}, nullif |-> {<<I(1)>>}, yearweek |-> {<<I(3)>>}, replace |-> {<<T(<<97>>), T(<<195, 169>>)>>},
  greatest |-> {<<T(<<49>>)>>, <<I(0)>>}]
MCOthers(f, arg, d) ==
  IF d = 1 THEN IF Kind(arg[1]) = "int" => arg[1][2] \in -32..31 THEN IF f \in DOMAIN Nested THEN Nested[f] ELSE {} ELSE {}
  ELSE IF Kind(arg[1]) = "time" /\ arg # DateArg(4, 2, 28) THEN IF f = "yearweek" THEN FirstOthers(f) ELSE {}
  ELSE FirstOthers(f)
MCClock == {Time(100), Time(60000)}
MCContext == [user |-> Str(<<97>>), database |-> Str(<<97>>), version |-> Str(<<56>>), connection_id |-> UInt(3)]

TypesIdle == typ = Boolean /\ val = SInt(0) /\ from = SInt(0) /\ machine \in Machines
ExprIdle == expr = Unresolved(L0) /\ row = <<>> /\ level = Levels /\ sub = NoSubquery
FunctionsIdle == argument = <<Null, NullType, TRUE>> /\ call = <<"none", <<>>>> /\ depth = Depth

Init ==
  \/ area = "types" /\ TypesInit /\ ExprIdle /\ FunctionsIdle
  \/ area = "expressions" /\ TypesIdle /\ ExprInit /\ FunctionsIdle
  \/ area = "functions" /\ TypesIdle /\ ExprIdle /\ FunctionsInit

Next ==
  /\ UNCHANGED area
  /\ \/ area = "types" /\ TypesNext /\ UNCHANGED <<exprVars, functionVars>>
     \/ area = "expressions" /\ ExprNext /\ UNCHANGED <<typesVars, functionVars>>
     \/ area = "functions" /\ FunctionsNext /\ UNCHANGED <<typesVars, exprVars>>

Spec == Init /\ [][Next]_<<area, typesVars, exprVars, functionVars>>

\* What an expression or a call of a function declares (its type, and whether it
\* can be NULL) is what it evaluates to.
Declared == ResultFits /\ CallFits

\* Functions agree with each other where they compute the same: those on texts, and
\* GREATEST and LEAST with their arguments.
FunctionLaws == TextLaws /\ ExtremeIsArgument

\* Dates are counted as the calendar does: by INTERVAL, and by YEARWEEK.
CalendarLaws == IntervalLands /\ WeekLaws
=============================================================================
