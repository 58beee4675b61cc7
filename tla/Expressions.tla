---------------------------- MODULE Expressions ----------------------------
(***************************************************************************)
(* sql/expression: what the operators of SQL expressions evaluate to, the  *)
(* type and the nullability they declare, how a tree of them is rewritten, *)
(* and the value a subquery keeps between two evaluations.                 *)
(*                                                                         *)
(* An expression is <<operator, argument, children>>.  The argument is     *)
(* what the Go struct holds besides its children: <<value, type>> of a     *)
(* literal, <<index, type, nullable>> of a field, the target of a CAST,    *)
(* the unit of an interval, <<has operand, has ELSE>> of a CASE.  A        *)
(* pattern is a text <<"str", letter, length>>, which matches the texts of *)
(* that letter; <<"str", 0, 1>> is one that does not compile.              *)
(***************************************************************************)
EXTENDS Types

Boolean == <<"num", "Int8">>
Int64 == <<"num", "Int64">>
Uint64 == <<"num", "Uint64">>
Float64 == <<"num", "Float64">>
Datetime == <<"datetime", "Datetime">>
LongText == LongString("Text", Collation_Default)
LongBlob == LongString("Blob", Collation_binary)
NullType == <<"nulltype">>
CastDecimal == <<"decimal", DecimalTypeMaxPrecision, DecimalTypeMaxScale>>

Bool(b) == <<"bool", IF b THEN 1 ELSE 0>>

\* type.go: the predicates on types
IsNumber(t) == t[1] = "num"
IsFloat(t) == IsNumber(t) /\ t[2] \in FloatBase
IsSigned(t) == IsNumber(t) /\ t[2] \in DOMAIN SignedBase \ {"Int24"}
IsUnsigned(t) == IsNumber(t) /\ t[2] \in DOMAIN UnsignedBase \ {"Uint24"}
IsInteger(t) == IsSigned(t) \/ IsUnsigned(t)
IsText(t) == t[1] \in {"string", "json"}
IsTime(t) == t[1] = "datetime"
NumColumns(t) == IF t[1] = "tuple" THEN Len(t[2]) ELSE 1

\* ConvertToBool: a text is the number it holds, or false
ConvertToBool(v) ==
  CASE Kind(v) \in {"bool", "int", "uint", "float", "time", "dur"} -> Bool(Num(v) # 0)
    [] Kind(v) = "text" -> Bool(Num(v)[1] \in {"num", "fix"} /\ Num(v)[2] # 0)
    [] OTHER -> Err

\* EvaluateCondition: as ConvertToBool, but a float is rounded to an integer
\* first, half away from zero, and a text is cut to one
Round(h) == IF Finite(h) THEN One * Sign(h) * ((Abs(h) + One \div 2) \div One) ELSE h
Condition(v) ==
  CASE Kind(v) \in {"bool", "int", "uint", "time", "dur"} -> Num(v) # 0
    [] Kind(v) = "float" -> ToInt(Round(Num(v)), W) # 0
    [] Kind(v) = "text" /\ Num(v)[1] \in {"num", "fix"} -> ToInt(Num(ToFloat64E(v)), W) # 0
    [] OTHER -> FALSE

-----------------------------------------------------------------------------
(* convert.go.                                                             *)

CastType(target) ==
  CASE target = "binary" -> LongBlob [] target = "char" -> LongText
    [] target = "date" -> <<"datetime", "Date">> [] target = "datetime" -> Datetime
    [] target = "decimal" -> CastDecimal [] target = "double" -> Float64
    [] target = "json" -> <<"json">> [] target = "signed" -> Int64
    [] target = "time" -> <<"timespan">> [] target = "unsigned" -> Uint64

\* handleUnsignedErrors: a negative integer, or the text of one, is taken as
\* the uint64 of its bits; any other failure is 0
handleUnsignedErrors(v) ==
  CASE Kind(v) = "int" -> UInt(Wrap(Num(v)))
    [] Kind(v) = "text" /\ ~Failed(ToInt64E(v)) -> UInt(Wrap(Num(v)[2]))
    [] OTHER -> UInt(0)

\* mutant: a CAST that fails is NULL whatever the target
CastResultNull(target, v, c) == IF Failed(c) /\ target # "json" THEN Null ELSE c

\* what a CAST makes of a conversion that fails: NULL, the zero of its type, or
\* the bits of a negative number.  Only a CAST to JSON is an error
CastResult(target, v, c) ==
  CASE target \in {"binary", "char", "time", "date", "datetime"} -> IF Failed(c) THEN Null ELSE c
    [] target \in {"decimal", "double", "signed"} -> IF Failed(c) THEN Zero(CastType(target)) ELSE c
    [] target = "unsigned" -> IF Failed(c) THEN handleUnsignedErrors(v) ELSE c
    [] target = "json" -> c

\* the value's text, when it is a document: its bytes as they are
JSONOf(v) ==
  CASE Kind(v) \in {"int", "uint"} -> <<"json", 100 * Num(v)>>
    [] Kind(v) = "float" /\ Finite(Num(v)) -> <<"json", 25 * Num(v)>>
    [] Kind(v) = "bool" -> <<"json", OtherDoc(Num(v))>>
    [] Kind(v) = "json" -> v
    [] Kind(v) = "text" /\ Num(v)[1] \in {"num", "fix"} -> <<"json", IF Num(v)[1] = "num" THEN 100 * Num(v)[2] ELSE Num(v)[2]>>
    [] OTHER -> Err

\* convertValue
convertValue(v, target) ==
  CastResult(target, v, IF target = "json" THEN JSONOf(v) ELSE Convert(CastType(target), v))

-----------------------------------------------------------------------------
(* comparison.go and between.go.                                           *)

\* castLeftAndRight: what both sides are converted to when their types differ
castLeftAndRight(lt, rt) ==
  IF IsNumber(lt) \/ IsNumber(rt)
  THEN IF IsFloat(lt) \/ IsFloat(rt) THEN "double" ELSE IF IsSigned(lt) \/ IsSigned(rt) THEN "signed" ELSE "unsigned"
  ELSE "char"

\* the operands converted to one type
CompareAs(t, l, r) == IF Failed(l) \/ Failed(r) THEN Err ELSE Compare(t, l, r)

\* comparison.Compare.  The types are compared with ==, which panics on two
\* types that hold a slice or a map
CompareOperands(lt, l, rt, r) ==
  LET to == castLeftAndRight(lt, rt) IN
  CASE l = Null \/ r = Null -> Null
    [] l # Null /\ r # Null /\ lt[1] = rt[1] /\ lt[1] \in {"enum", "set", "tuple"} -> Panic
    [] OTHER -> CompareAs(IF lt = rt THEN lt ELSE CastType(to), IF lt = rt THEN l ELSE convertValue(l, to),
                          IF lt = rt THEN r ELSE convertValue(r, to))

ComparisonOps == {"=", "<", "<=", ">", ">="}

\* the Boolean an operator makes of the result of a comparison
Ordered(op, c) ==
  IF Failed(c) \/ c = Null THEN c
  ELSE Bool(CASE op = "=" -> Num(c) = 0 [] op = "<" -> Num(c) < 0 [] op = "<=" -> Num(c) <= 0
              [] op = ">" -> Num(c) > 0 [] op = ">=" -> Num(c) >= 0)

Comparison(op, lt, l, rt, r) == Ordered(op, CompareOperands(lt, l, rt, r))

\* the elements of a list, or the values of a subquery, converted and compared in
\* their order: the first that fails or is equal ends the loop
CompareElement(pt, left, v) == IF Failed(v) THEN v ELSE CompareAs(pt, left, Convert(pt, v))
CompareElements(pt, left, vs) == [i \in DOMAIN vs |-> CompareElement(pt, left, vs[i])]
Ends(cs) == {i \in DOMAIN cs : Failed(cs[i]) \/ cs[i] = SInt(0)}

\* the loop of In.Eval, and that of NotIn.Eval
Member(cs) ==
  IF Ends(cs) = {} THEN Bool(FALSE) ELSE IF Failed(cs[Min(Ends(cs))]) THEN cs[Min(Ends(cs))] ELSE Bool(TRUE)
NotMember(cs) ==
  IF Ends(cs) = {} THEN Bool(TRUE) ELSE IF Failed(cs[Min(Ends(cs))]) THEN cs[Min(Ends(cs))] ELSE Bool(FALSE)

Negate(v) == IF Kind(v) = "bool" THEN Bool(Num(v) = 0) ELSE v

\* In.Eval and NotIn.Eval of a list: the operand is evaluated and converted, the
\* columns of the elements are counted, then the elements are evaluated
OperandStops(pt, l, left, types) ==
  IF Failed(l) \/ l = Null THEN <<l>>
  ELSE IF Failed(left) \/ \E i \in DOMAIN types : NumColumns(types[i]) # NumColumns(pt) THEN <<Err>>
  ELSE <<>>
In(stops, cs) == IF stops # <<>> THEN stops[1] ELSE Member(cs)
NotIn(stops, cs) == IF stops # <<>> THEN stops[1] ELSE NotMember(cs)
ListEval(op, stops, cs) == IF op = "in" THEN In(stops, cs) ELSE NotIn(stops, cs)
EvalList(op, pt, l, left, types, vs) == ListEval(op, OperandStops(pt, l, left, types), CompareElements(pt, left, vs))

\* the operands as converted, each up to the first that is NULL or failed, and
\* the comparisons of the first with the bounds
WithinBounds(cs, cmp) ==
  LET stop == {i \in 1..3 : Failed(cs[i]) \/ cs[i] = Null} IN
  IF stop # {} THEN cs[Min(stop)]
  ELSE IF Failed(cmp[2]) THEN cmp[2] ELSE IF Failed(cmp[3]) THEN cmp[3] ELSE Bool(Num(cmp[2]) >= 0 /\ Num(cmp[3]) <= 0)

\* Between.Eval: in the promoted type of the value, each bound evaluated and
\* converted before the next
BetweenConverted(pt, cs) == WithinBounds(cs, [i \in 2..3 |-> Compare(pt, cs[1], cs[i])])
Between(pt, vs) ==
  BetweenConverted(pt, [i \in 1..3 |-> IF Failed(vs[i]) \/ vs[i] = Null THEN vs[i] ELSE Convert(pt, vs[i])])

\* Regexp.compareRegexp and Like.Eval, of texts.  A pattern that does not
\* compile is an error of REGEXP; the pool of LIKE hands out a nil that is
\* asserted to be a Matcher
Match(op, l, r, text, pattern, cached) ==
  IF Failed(l) \/ l = Null THEN l ELSE IF Failed(text) THEN Err
  ELSE IF Failed(r) \/ r = Null THEN r ELSE IF Failed(pattern) THEN Err
  ELSE IF Num(pattern) = <<"str", 0, 1>> THEN IF op = "like" /\ cached THEN Panic ELSE Err
  ELSE Bool(TextRank(Num(pattern)) = TextRank(Num(text)))

-----------------------------------------------------------------------------
(* interval.go.                                                            *)

CONSTANT MaxDuration       \* the hours a time.Duration holds (2562047 in the code)

\* the fields of a TimeDelta that EvalDelta sets, each an int64
Delta(n, unit) ==
  LET none == [years |-> 0, months |-> 0, days |-> 0, hours |-> 0] IN
  CASE unit = "HOUR" -> [none EXCEPT !.hours = n] [] unit = "DAY" -> [none EXCEPT !.days = n]
    [] unit = "WEEK" -> [none EXCEPT !.days = Signed(7 * n)] [] unit = "MONTH" -> [none EXCEPT !.months = n]
    [] unit = "QUARTER" -> [none EXCEPT !.months = Signed(3 * n)] [] unit = "YEAR" -> [none EXCEPT !.years = n]

\* a time.Duration, an int64 of nanoseconds, here in hours
Duration(hours) == ((hours + MaxDuration) % (2 * MaxDuration)) - MaxDuration

\* TimeDelta.apply: years and months first, the day cut to the month's length,
\* then the days and the hours, each as a Duration.  A month past December that
\* falls on a December is moved one year too far
MonthAfter(m, mod) == IF m \in 1..12 THEN m ELSE IF mod = 0 THEN 12 ELSE IF m < 1 THEN 12 + mod ELSE mod
YearsAfter(m) == IF m < 1 THEN Trunc(m, 12) - 1 ELSE IF m > 12 THEN m \div 12 ELSE 0
Land(n, y, mo, d) == Instant(y, mo, Min({d, MonthLength(y, mo)}), n % 24)
LandIn(n, y, m, d) == Land(n, y + YearsAfter(m), MonthAfter(m, m - 12 * Trunc(m, 12)), d)
apply(n, td, sign) ==
  LandIn(n, YearOf(n) + td.years * sign, MonthOf(n) + td.months * sign, DayOf(n))
    + Duration(24 * td.days * sign) + Duration(td.hours * sign)

\* ValidateTime
ValidateTime(n) == IF n > MaxDatetime THEN Null ELSE Time(n)

-----------------------------------------------------------------------------
(* arithmetic.go.                                                          *)

Quot(a, b) == Sign(a) * Sign(b) * (Abs(a) \div Abs(b))

IntegerOp(op, a, b) ==
  CASE op = "+" -> a + b [] op = "-" -> a - b [] op = "*" -> Wrap(a) * Wrap(b)
    [] op \in {"/", "div"} -> Quot(a, b) [] op = "%" -> a - b * Quot(a, b)
    [] op = "&" -> FieldOf(BitsOf(Wrap(a)) \cap BitsOf(Wrap(b)))
    [] op = "|" -> FieldOf(BitsOf(Wrap(a)) \cup BitsOf(Wrap(b)))
    [] op = "^" -> FieldOf((BitsOf(Wrap(a)) \cup BitsOf(Wrap(b))) \ (BitsOf(Wrap(a)) \cap BitsOf(Wrap(b))))
    [] op = "<<" -> IF b >= W THEN 0 ELSE a * 2^b
    [] op = ">>" -> IF b >= W THEN 0 ELSE a \div 2^b

\* IEEE: the nearest float64, an infinity past the largest, NaN where no number
\* is right
FloatSum(a, b) ==
  IF Finite(a) /\ Finite(b) THEN Rounding(a + b, 1)
  ELSE IF ~Finite(a) /\ ~Finite(b) THEN IF a = b THEN Float(a) ELSE NaN ELSE IF Finite(a) THEN Float(b) ELSE Float(a)
FloatProduct(a, b) ==
  IF ~Finite(a) \/ ~Finite(b) THEN Inf(Sign(a) * Sign(b))
  ELSE IF b # 0 /\ Abs(a) > (One * MaxFloat64) \div Abs(b) THEN Inf(Sign(a) * Sign(b)) ELSE Rounding(a * b, One)
FloatQuotient(a, b) ==
  IF ~Finite(a) /\ ~Finite(b) THEN NaN
  ELSE IF ~Finite(b) THEN Float(0)
  ELSE IF b = 0 THEN Inf(Sign(a))
  ELSE IF ~Finite(a) THEN Inf(Sign(a) * Sign(b)) ELSE Rounding(Sign(b) * One * a, Abs(b))
FloatOp(op, a, b) ==
  CASE NaN \in {Float(a), Float(b)} -> NaN
    [] NaN \notin {Float(a), Float(b)} /\ op = "+" -> FloatSum(a, b)
    [] NaN \notin {Float(a), Float(b)} /\ op = "-" -> FloatSum(a, -b)
    [] NaN \notin {Float(a), Float(b)} /\ op = "*" -> FloatProduct(a, b)
    [] NaN \notin {Float(a), Float(b)} /\ op = "/" -> FloatQuotient(a, b)

ArithmeticOps == {"+", "-", "*", "/", "&", "|", "^", "<<", ">>", "div", "%"}

\* plus, minus, mult, div, bitAnd, ..., of two values of the operation's type.
\* An integer divided by zero panics, the other results wrap
Apply(op, l, r) ==
  CASE Kind(l) = Kind(r) /\ Kind(l) \in {"int", "uint"} ->
         IF op \in {"/", "div", "%"} /\ Num(r) = 0 THEN Panic
         ELSE IF Kind(l) = "int" THEN SInt(Signed(IntegerOp(op, Num(l), Num(r)))) ELSE UInt(Wrap(IntegerOp(op, Num(l), Num(r))))
    [] Kind(l) = "float" /\ Kind(r) = "float" -> FloatOp(op, Num(l), Num(r))
    [] OTHER -> Err

ApplyTo(op, a, b) == IF Failed(a) \/ Failed(b) THEN Err ELSE Apply(op, a, b)

\* Arithmetic.Type of operands that are no intervals
ArithmeticType(op, lt, rt) ==
  CASE op \in {"+", "-", "*", "/"} ->
         IF IsTime(lt) /\ IsTime(rt) THEN Int64
         ELSE IF IsInteger(lt) /\ IsInteger(rt) THEN IF IsUnsigned(lt) /\ IsUnsigned(rt) THEN Uint64 ELSE Int64
         ELSE Float64
    [] op \in {"<<", ">>"} -> Uint64
    [] OTHER -> IF IsUnsigned(lt) /\ IsUnsigned(rt) THEN Uint64 ELSE Int64

Arithmetic(op, t, l, r) == IF Null \in {l, r} THEN Null ELSE ApplyTo(op, Convert(t, l), Convert(t, r))

\* EvalDelta: the number of an interval
DeltaOf(n) == IF Failed(n) \/ n = Null THEN n ELSE Convert(Int64, n)

\* Arithmetic.Eval of a date and an INTERVAL n unit.  A NULL date is answered
\* before anything is added.  A NULL n makes a nil *TimeDelta that is not a nil
\* interface, so Add dereferences it
DateArithmetic(op, v, num, date, unit) ==
  IF v = Null THEN Null
  ELSE IF Failed(date) \/ op \notin {"+", "-"} THEN Err
  ELSE IF num = Null THEN Panic
  ELSE ValidateTime(apply(Num(date), Delta(Num(num), unit), IF op = "+" THEN 1 ELSE -1))

\* the bits of the Go integer that holds a value of a type
GoWidth(t) ==
  CASE ~IsNumber(t) -> W
    [] IsNumber(t) /\ t[2] \in {"Int24", "Uint24"} -> Bits.i32
    [] IsNumber(t) /\ t[2] \in DOMAIN SignedBase \ {"Int24"} -> SignedBase[t[2]]
    [] IsNumber(t) /\ t[2] \in DOMAIN UnsignedBase \ {"Uint24"} -> UnsignedBase[t[2]]
    [] OTHER -> W

\* UnaryMinus.Eval: the result wraps in the width of the operand, which is
\* first cast to a signed integer of that width
MinusOf(v, w) ==
  LET neg == (-Num(v)) % 2^w IN
  CASE v = NaN -> NaN
    [] Kind(v) = "float" /\ v # NaN -> Float(-Num(v))
    [] Kind(v) \in {"int", "uint"} -> SInt(IF neg >= 2^(w - 1) THEN neg - 2^w ELSE neg)
    [] OTHER -> Err
OrZero(v) == IF Failed(v) THEN Float(0) ELSE v
UnaryMinus(t, v) ==
  IF v = Null THEN Null ELSE MinusOf(IF IsNumber(t) THEN v ELSE OrZero(Convert(Float64, v)), GoWidth(t))

UnaryMinusType(t) ==
  CASE ~IsNumber(t) -> Float64 [] t = Uint64 -> Int64 [] t = <<"num", "Uint32">> -> <<"num", "Int32">>
    [] OTHER -> t

-----------------------------------------------------------------------------
(* Trees of expressions.                                                   *)

Op(e) == e[1]
Arg(e) == e[2]
Children(e) == e[3]
Left(e) == e[3][1]
Right(e) == e[3][2]
Literal(v, t) == <<"lit", <<v, t>>, <<>>>>
Field(i, t, nullable) == <<"field", <<i, t, nullable>>, <<>>>>
Node(op, kids) == <<op, "", kids>>

IsInterval(e) == Op(e) = "interval"
Placeholders == {"unresolved", "star"}     \* every method of theirs but Resolved panics

RECURSIVE Resolved(_)
Resolved(e) == Op(e) \notin Placeholders /\ \A i \in DOMAIN Children(e) : Resolved(Children(e)[i])

\* TransformUp: children first, then the node that WithChildren makes of them
RECURSIVE TransformUp(_, _)
TransformUp(e, f) ==
  LET kids == [i \in DOMAIN Children(e) |-> TransformUp(Children(e)[i], f)]
      made == <<Op(e), Arg(e), kids>>
  IN IF made \in DOMAIN f THEN f[made] ELSE made

\* whether NewLike and NewRegexp keep their matcher: the pattern reads no field
RECURSIVE Inspected(_)
Inspected(e) == {Op(e)} \cup UNION {Inspected(Children(e)[i]) : i \in DOMAIN Children(e)}
Cached(e) == "field" \notin Inspected(Right(e))

PredicateOps == ComparisonOps \cup {"and", "or", "not", "isnull", "istrue", "isfalse", "in", "notin", "between", "regexp", "like"}

\* the children of CASE are the operand, the conditions and values in turn, ELSE
CaseBase(e) == IF Arg(e)[1] THEN 1 ELSE 0
CaseBranches(e) == (Len(Children(e)) - CaseBase(e)) \div 2
CaseCond(e, b) == Children(e)[CaseBase(e) + 2 * b - 1]
CaseValue(e, b) == Children(e)[CaseBase(e) + 2 * b]
CaseElse(e) == Children(e)[Len(Children(e))]

\* Tuple.Type
TupleType(types) == IF Len(types) = 1 THEN types[1] ELSE <<"tuple", types>>

RECURSIVE Type(_)
\* Case.Type: the first branch that is not NULL; ELSE is read without a test
CaseType(e) ==
  LET typed == {b \in 1..CaseBranches(e) : Type(CaseValue(e, b)) # NullType}
  IN IF typed # {} THEN Type(CaseValue(e, Min(typed))) ELSE IF Arg(e)[2] THEN Type(CaseElse(e)) ELSE Panic

Type(e) ==
  CASE Op(e) \in {"lit", "field"} -> Arg(e)[2]
    [] Op(e) \in PredicateOps -> Boolean
    [] Op(e) = "convert" -> CastType(Arg(e))
    [] Op(e) = "minus" -> UnaryMinusType(Type(Left(e)))
    [] Op(e) = "alias" -> Type(Left(e))
    [] Op(e) = "interval" -> Uint64
    [] Op(e) = "tuple" -> TupleType([i \in DOMAIN Children(e) |-> Type(Children(e)[i])])
    [] Op(e) = "case" -> CaseType(e)
    [] Op(e) \in ArithmeticOps ->
         IF IsInterval(Left(e)) \/ IsInterval(Right(e)) THEN Datetime
         ELSE ArithmeticType(Op(e), Type(Left(e)), Type(Right(e)))

RECURSIVE IsNullable(_)
IsNullable(e) ==
  CASE Op(e) = "lit" -> Arg(e)[1] = Null
    [] Op(e) = "field" -> Arg(e)[3]
    [] Op(e) \in {"isnull", "istrue", "isfalse"} -> FALSE
    [] Op(e) = "tuple" -> Len(Children(e)) = 1 /\ IsNullable(Left(e))
    [] Op(e) = "case" -> ~Arg(e)[2] \/ IsNullable(CaseElse(e)) \/ \E b \in 1..CaseBranches(e) : IsNullable(CaseValue(e, b))
    [] OTHER -> \/ \E i \in DOMAIN Children(e) : IsNullable(Children(e)[i])
                \/ Op(e) = "convert" /\ Arg(e) \in {"date", "datetime"}
                \/ Op(e) \in ArithmeticOps /\ Type(e) = Datetime

\* mutant: a NULL on the left of AND is answered before the right is looked at
AndFirst(l, r) ==
  IF Failed(l) THEN l ELSE IF l = Null THEN Null ELSE IF ConvertToBool(l) = Bool(FALSE) THEN Bool(FALSE)
  ELSE IF Failed(r) THEN r ELSE IF r = Null THEN Null ELSE Bool(ConvertToBool(r) # Bool(FALSE))

\* And.Eval.  The right side is evaluated only when the left is not false; a
\* value that has no truth value is taken as true
And(l, r) ==
  CASE Failed(l) -> l
    [] ~Failed(l) /\ l # Null /\ ConvertToBool(l) = Bool(FALSE) -> Bool(FALSE)
    [] OTHER -> IF Failed(r) THEN r
                ELSE IF r # Null /\ ConvertToBool(r) = Bool(FALSE) THEN Bool(FALSE)
                ELSE IF Null \in {l, r} THEN Null ELSE Bool(TRUE)

\* Or.Eval.  The last line answers false when only one side is NULL
Or(l, r) ==
  CASE Failed(l) -> l
    [] ~Failed(l) /\ l # Null /\ ConvertToBool(l) = Bool(TRUE) -> Bool(TRUE)
    [] OTHER -> IF Failed(r) THEN r
                ELSE IF r # Null /\ ConvertToBool(r) = Bool(TRUE) THEN Bool(TRUE)
                ELSE IF l = Null /\ r = Null THEN Null ELSE Bool(FALSE)

\* Not.Eval, IsNull.Eval and IsTrue.Eval, of which IsFalse is the inverted one
Not(v) == IF v = Null THEN Null ELSE Negate(ConvertToBool(v))
IsNull(v) == Bool(v = Null)
IsTrue(v, invert) == IF v = Null THEN Bool(FALSE) ELSE IF invert THEN Negate(ConvertToBool(v)) ELSE ConvertToBool(v)

\* GetField.Eval
GetField(i, row) == IF i \in DOMAIN row THEN row[i] ELSE Err

\* Tuple.Eval: of one element, that element
Tuple(vs) == IF Len(vs) = 1 THEN vs[1] ELSE <<"list", vs>>

RECURSIVE Eval(_, _)
\* Case.Eval: an operand that is NULL leaves the conditions as they are
CaseHolds(ot, operand, ct, c) ==
  IF Failed(c) \/ operand = Null THEN c ELSE Comparison("=", ot, operand, ct, c)
CaseAnswer(e, vs, holds) ==
  LET stop == {b \in DOMAIN holds : Failed(holds[b]) \/ Condition(holds[b])} IN
  CASE Arg(e)[1] /\ Failed(vs[1]) -> vs[1]
    [] ~(Arg(e)[1] /\ Failed(vs[1])) /\ stop = {} -> IF Arg(e)[2] THEN vs[Len(vs)] ELSE Null
    [] OTHER -> IF Failed(holds[Min(stop)]) THEN holds[Min(stop)] ELSE vs[CaseBase(e) + 2 * Min(stop)]
CaseEval(e, ts, vs) ==
  LET cond(b) == CaseBase(e) + 2 * b - 1 IN
  CaseAnswer(e, vs, [b \in 1..CaseBranches(e) |->
                       CaseHolds(ts[1], IF Arg(e)[1] THEN vs[1] ELSE Null, ts[cond(b)], vs[cond(b)])])

\* date + INTERVAL, INTERVAL + date and date - INTERVAL: the left operand, then
\* the right one; an interval on the left can only be added
IntervalEval(e, date, delta, first, both, unit) ==
  LET operands == IF first THEN <<delta, date>> ELSE <<date, delta>>
      stop == {i \in 1..2 : Failed(operands[i])}
  IN IF both THEN Err
     ELSE IF stop # {} THEN operands[Min(stop)]
     ELSE DateArithmetic(IF first /\ Op(e) # "+" THEN "none" ELSE Op(e), date, delta, Convert(Datetime, date), unit)

\* the operators that evaluate their operands in order before anything else
StrictEval(e, ts, vs) ==
  LET stop == {i \in DOMAIN vs : Failed(vs[i])} IN
  CASE stop # {} -> vs[Min(stop)]
    [] stop = {} /\ Op(e) \in ComparisonOps \cup {"regexp"} ->
         Comparison(IF Op(e) = "regexp" THEN "=" ELSE Op(e), ts[1], vs[1], ts[2], vs[2])
    [] stop = {} /\ Op(e) = "not" -> Not(vs[1])
    [] stop = {} /\ Op(e) = "isnull" -> IsNull(vs[1])
    [] stop = {} /\ Op(e) \in {"istrue", "isfalse"} -> IsTrue(vs[1], Op(e) = "isfalse")
    [] stop = {} /\ Op(e) = "minus" -> UnaryMinus(ts[1], vs[1])
    [] stop = {} /\ Op(e) = "convert" -> IF vs[1] = Null THEN Null ELSE convertValue(vs[1], Arg(e))
    [] stop = {} /\ Op(e) = "alias" -> vs[1]
    [] stop = {} /\ Op(e) = "tuple" -> Tuple(vs)
    [] stop = {} /\ Op(e) \in ArithmeticOps -> Arithmetic(Op(e), ArithmeticType(Op(e), ts[1], ts[2]), vs[1], vs[2])

\* Eval of an operator, from the types and the values of its operands.  They are
\* evaluated lazily by AND, OR, CASE, IN and BETWEEN; an evaluation has no effect
Operator(e, ts, vs, row, list) ==
  CASE Op(e) = "and" -> And(vs[1], vs[2])
    [] Op(e) = "or" -> Or(vs[1], vs[2])
    [] Op(e) = "case" -> CaseEval(e, ts, vs)
    [] Op(e) = "interval" -> Panic
    [] Op(e) \in ArithmeticOps /\ (IsInterval(Left(e)) \/ IsInterval(Right(e))) ->
         LET i == IF IsInterval(Left(e)) THEN 1 ELSE 2 IN
         IntervalEval(e, vs[3 - i], DeltaOf(Eval(Left(Children(e)[i]), row)), i = 1, IsInterval(Children(e)[3 - i]), Arg(Children(e)[i]))
    [] Op(e) \in {"in", "notin"} /\ Op(Right(e)) # "tuple" -> Err
    [] Op(e) \in {"in", "notin"} /\ Op(Right(e)) = "tuple" ->
         EvalList(Op(e), Promote(ts[1]), vs[1], Convert(Promote(ts[1]), vs[1]), [i \in DOMAIN list |-> Type(list[i])],
                  [i \in DOMAIN list |-> Eval(list[i], row)])
    [] Op(e) = "between" -> Between(Promote(ts[1]), vs)
    [] Op(e) \in {"like", "regexp"} /\ (Op(e) = "like" \/ (IsText(ts[1]) /\ IsText(ts[2]))) ->
         Match(Op(e), vs[1], vs[2], Convert(LongText, vs[1]), Convert(LongText, vs[2]), Cached(e))
    [] OTHER -> StrictEval(e, ts, vs)

Eval(e, row) ==
  CASE Op(e) = "lit" -> Arg(e)[1]
    [] Op(e) = "field" -> GetField(Arg(e)[1], row)
    [] OTHER -> Operator(e, [i \in DOMAIN Children(e) |-> Type(Children(e)[i])],
                         [i \in DOMAIN Children(e) |-> Eval(Children(e)[i], row)], row, Children(e)[Len(Children(e))][3])

\* SetField.Eval: the row with the field's value converted to its type
SetField(f, v, c, row) ==
  IF Op(f) # "field" \/ Arg(f)[1] \notin DOMAIN row \/ Failed(v) \/ Failed(c) THEN <<>>
  ELSE [row EXCEPT ![Arg(f)[1]] = c]

\* Column.Check, of every column in Schema.CheckRow before a table takes the row
Check(f, v) == IF v = Null THEN Arg(f)[3] ELSE ~Failed(Convert(Arg(f)[2], v))

-----------------------------------------------------------------------------
(* subquery.go: the value is kept, as a scalar by Eval and as a slice by   *)
(* EvalMultiple.  A subquery is [rows, value, answer]: the first column of *)
(* its rows, what is kept, and the last answer.                            *)

NoValue == <<"nil", 0>>

SubqueryEval(s) ==
  LET elems == Num(s.value)
      kept == IF Kind(s.value) # "list" THEN s.value
              ELSE IF Len(elems) > 1 THEN Err ELSE IF elems = <<>> THEN Panic ELSE elems[1]
  IN IF s.value # NoValue THEN [s EXCEPT !.answer = kept]
     ELSE CASE Len(s.rows) = 0 -> [s EXCEPT !.answer = Null]
            [] Len(s.rows) > 1 -> [s EXCEPT !.answer = Err]
            [] OTHER -> [s EXCEPT !.answer = s.rows[1], !.value = IF s.rows[1] = Null THEN NoValue ELSE s.rows[1]]

\* mutant: only the first row is kept
SubqueryEvalFirst(s) ==
  IF s.value # NoValue THEN [s EXCEPT !.answer = s.value]
  ELSE [s EXCEPT !.answer = <<"list", s.rows>>, !.value = <<"list", [i \in DOMAIN s.rows \ {2} |-> s.rows[i]]>>]

SubqueryEvalMultiple(s) ==
  IF s.value # NoValue THEN [s EXCEPT !.answer = IF Kind(s.value) = "list" THEN s.value ELSE Panic]
  ELSE [s EXCEPT !.answer = <<"list", s.rows>>, !.value = <<"list", s.rows>>]

-----------------------------------------------------------------------------
(* An expression the parser builds bottom up, with columns the analyzer    *)
(* resolves; rows that an UPDATE rewrites; a subquery read once per row.   *)

CONSTANTS Leaves,          \* literals and fields
          Above(_, _),     \* the expressions above a given one at a given level
          Levels,          \* how many operators are put on top of each other
          Rows,            \* the rows of the table the expression reads
          SubqueryRows     \* what the subquery may return

VARIABLES expr, row, level, sub

exprVars == <<expr, row, level, sub>>

Unresolved(e) == <<"unresolved", e, <<>>>>

NoSubquery == [rows |-> <<>>, value |-> NoValue, answer |-> NoValue, multiple |-> FALSE]

\* a statement with an expression on a row, or with a subquery
ExprInit ==
  /\ row \in Rows /\ level = 0
  /\ \/ expr \in {Unresolved(e) : e \in Leaves} /\ sub = NoSubquery
     \/ /\ expr = Literal(Null, NullType) /\ row = (CHOOSE r \in Rows : TRUE)
        /\ sub \in [rows : SubqueryRows, value : {NoValue}, answer : {NoValue}, multiple : BOOLEAN]

\* the parser puts an operator above the expression
Build ==
  /\ level < Levels /\ ~Resolved(expr)
  /\ \E e \in Above(expr, level) : expr' = e
  /\ level' = level + 1
  /\ UNCHANGED <<row, sub>>

\* the analyzer replaces the unresolved column, wherever it is
Resolve ==
  /\ ~Resolved(expr)
  /\ \E e \in Leaves : /\ expr' = TransformUp(expr, [u \in {Unresolved(e)} |-> e])
                        /\ expr' # expr
  /\ UNCHANGED <<row, level, sub>>

\* UPDATE ... SET field = expr
Assign(f, new) ==
  /\ new # <<>> /\ Check(f, new[Arg(f)[1]])
  /\ row' = new
AssignValue(f, v) == Op(f) = "field" /\ Assign(f, SetField(f, v, IF v = Null THEN Null ELSE Convert(Arg(f)[2], v), row))
Update ==
  /\ Resolved(expr) /\ level = 1
  /\ \E f \in Leaves : AssignValue(f, Eval(expr, row))
  /\ level' = Levels + 1
  /\ UNCHANGED <<expr, sub>>

\* the subquery is evaluated for one more row
ReadSubquery ==
  /\ expr = Literal(Null, NullType) /\ level = 0
  /\ sub' = IF sub.multiple THEN SubqueryEvalMultiple(sub) ELSE SubqueryEval(sub)
  /\ UNCHANGED <<expr, row, level>>

ExprNext == Build \/ Resolve \/ Update \/ ReadSubquery

-----------------------------------------------------------------------------
RECURSIVE Nodes(_)
Nodes(e) == {e} \cup UNION {Nodes(Children(e)[i]) : i \in DOMAIN Children(e)}

\* where the code panics: an integer divided by zero, operands whose types hold
\* a slice or a map, a LIKE pattern that does not compile, a NULL interval, and
\* the type of a CASE without ELSE whose values are all NULL
MayPanic(e) ==
  \/ Op(e) \in {"/", "div", "%", "like"}
  \/ Op(e) \in ComparisonOps \cup {"case", "regexp"}
       /\ \E i, j \in DOMAIN Children(e) : i # j /\ Type(Children(e)[i])[1] = Type(Children(e)[j])[1]
                                         /\ Type(Children(e)[i])[1] \in {"enum", "set", "tuple"}
  \/ IsInterval(e) /\ IsNullable(e)
  \/ Op(e) = "case" /\ Type(e) = Panic

\* the types of the values of a CASE differ, or a small unsigned integer is
\* negated: the value need not be one of the declared type
LooseType(e) ==
  \/ Op(e) = "case" /\ Cardinality({Type(CaseValue(e, b)) : b \in 1..CaseBranches(e)}
                                    \cup IF Arg(e)[2] THEN {Type(CaseElse(e))} ELSE {}) > 1
  \/ Op(e) = "minus" /\ Type(e)[2] \in DOMAIN UnsignedBase

\* a value of the type, as Fits of a function's result; NaN is one of the floats
OfType(t, v, c) == ~Failed(c) /\ (v = NaN \/ Compare(t, c, v) = SInt(0))

\* a date before the first that DATETIME holds: ValidateTime looks at the last
BeforeRange(v) ==
  Kind(v) = "time" /\ Num(v) < MinDatetime /\ \E e \in Nodes(expr) : IsInterval(e)

FitsResult(v, t) ==
  /\ v = Null => IsNullable(expr) \/ \E e \in Nodes(expr) : Op(e) = "convert" /\ Arg(e) \in {"char", "binary", "time"}
  /\ (~Failed(v) /\ v # Null) => OfType(t, v, Convert(t, v)) \/ BeforeRange(v) \/ \E e \in Nodes(expr) : LooseType(e)
  /\ v = Panic => \E e \in Nodes(expr) : MayPanic(e)

\* What an expression declares is what it evaluates to, on every row: NULL only
\* if it is nullable (or a CAST to CHAR, BINARY or TIME failed, which IsNullable
\* leaves out), any other value one of its type (but for a date before the first
\* of DATETIME, which subtracting an interval can reach), and a panic only at the
\* places where this code has one.  Operators are chosen, columns pruned and results
\* encoded by these declarations without looking at values.
ResultFits == Resolved(expr) => FitsResult(Eval(expr, row), Type(expr))

Truth(v) == IF v = Null THEN Null ELSE IF Failed(v) THEN Err ELSE ConvertToBool(v)

\* AND, OR and NOT of Kleene's logic
RefAnd(a, b) == IF Bool(FALSE) \in {a, b} THEN Bool(FALSE) ELSE IF Null \in {a, b} THEN Null ELSE Bool(TRUE)
RefOr(a, b) == IF Bool(TRUE) \in {a, b} THEN Bool(TRUE) ELSE IF Null \in {a, b} THEN Null ELSE Bool(FALSE)

\* the same operands, or those given, under another operator
With(op) == Node(op, Children(expr))
Swapped(op) == Node(op, <<Right(expr), Left(expr)>>)
Upper0 == Node("<=", <<Left(expr), Children(expr)[3]>>)
Negation == Node("not", <<expr>>)

\* what is evaluated to look at the expression
Probes ==
  {expr, Negation} \cup {Children(expr)[i] : i \in DOMAIN Children(expr)}
  \cup (IF Op(expr) \in ComparisonOps THEN {With(op) : op \in ComparisonOps} \cup {Swapped("="), Swapped("<")} ELSE {})
  \cup (IF Op(expr) = "in" THEN {With("notin"), With("="), Left(Right(expr))} ELSE {})
  \cup (IF Op(expr) = "between" THEN {With(">="), Upper0} ELSE {})

Agree(v, value, types) ==
  LET holds(e) == Condition(value[e])
      same == types[1][1] \notin {"enum", "set", "tuple"} /\ \A i \in DOMAIN types : types[i] = types[1]
      l == Truth(value[Left(expr)])
      r == Truth(value[Right(expr)])
      one == Left(Right(expr))
  IN /\ (Op(expr) = "and" /\ Err \notin {l, r}) => v = RefAnd(l, r)
     /\ (Op(expr) = "or" /\ Err \notin {l, r}) => v = IF {l, r} = {Null, Bool(FALSE)} THEN Bool(FALSE) ELSE RefOr(l, r)
     /\ ~Failed(v) /\ ~Failed(value[Negation]) => ~(Condition(v) /\ holds(Negation))
     /\ (Op(expr) \in ComparisonOps /\ ~Failed(v) /\ v # Null) =>
            /\ Cardinality({op \in {"<", "=", ">"} : holds(With(op))}) = 1
            /\ holds(With("<=")) = ~holds(With(">")) /\ holds(With(">=")) = ~holds(With("<"))
            /\ value[Swapped("=")] = value[With("=")]
            /\ value[Swapped("<")] = value[With(">")] \/ NaN \in {value[Left(expr)], value[Right(expr)]}
     /\ Op(expr) = "in" => value[With("notin")] = Negate(v)
     /\ (Op(expr) = "in" /\ Len(Right(expr)[3]) = 1 /\ same /\ ~Failed(v)) =>
            v = IF value[one] = Null /\ value[Left(expr)] # Null THEN Bool(FALSE) ELSE value[With("=")]
     /\ (Op(expr) = "between" /\ same /\ ~Failed(v) /\ v # Null) => Condition(v) = (holds(With(">=")) /\ holds(Upper0))
AgreeOn(value, types) == Agree(value[expr], value, types)

\* The predicates agree with each other and with three valued logic.  AND is
\* Kleene's, and so is OR but for NULL OR FALSE, which is FALSE.  A condition and
\* its negation never hold together.  Exactly one of <, = and > holds and the
\* operands can be swapped, but for NaN, which is > from both sides.  x IN (y) and
\* BETWEEN say what = and <= say when the types are the same, but for a NULL y:
\* then = is NULL, IN is FALSE and NOT IN is TRUE.  What NOT IN answers is the
\* negation of what IN does.
PredicatesAgree ==
  Resolved(expr) =>
    AgreeOn([e \in Probes |-> Eval(e, row)], [i \in DOMAIN Children(expr) |-> Type(Children(expr)[i])])

\* A subquery answers every row as a subquery that keeps nothing would, but for
\* a scalar that is itself an array, which is read as a list of rows the second
\* time.
SubqueryStable ==
  LET fresh == [sub EXCEPT !.value = NoValue] IN
  sub.answer # NoValue =>
    \/ sub.answer = (IF sub.multiple THEN SubqueryEvalMultiple(fresh) ELSE SubqueryEval(fresh)).answer
    \/ ~sub.multiple /\ Len(sub.rows) = 1 /\ Kind(sub.rows[1]) = "list"

MonthCount(n) == 12 * YearOf(n) + MonthOf(n)

\* what MaxDuration and the width of an int64 keep from being n units
DurationWraps(n, unit) ==
  LET hours == CASE unit = "HOUR" -> n [] unit = "DAY" -> 24 * n [] unit = "WEEK" -> 168 * n [] OTHER -> 0
  IN hours \notin -MaxDuration..(MaxDuration - 1)
FieldWraps(n, unit) ==
  LET field == CASE unit = "WEEK" -> 7 * n [] unit = "QUARTER" -> 3 * n [] OTHER -> n
  IN Signed(field) # field

\* a December that is reached across the end of a year
LateDecember(from0, months) == MonthOf(from0) + months > 12 /\ (MonthOf(from0) + months) % 12 = 0

\* n units after from0
LandsInMonth(from0, to, months) ==
  /\ DayOf(to) = Min({DayOf(from0), MonthLength(YearOf(to), MonthOf(to))})
  /\ to % 24 = from0 % 24
  /\ MonthCount(to) = MonthCount(from0) + months
Lands(from0, to, n, unit) ==
  CASE unit = "YEAR" -> LandsInMonth(from0, to, 12 * n)
    [] unit \in {"MONTH", "QUARTER"} ->
         LET months == (IF unit = "QUARTER" THEN 3 ELSE 1) * n
         IN FieldWraps(n, unit) \/ LateDecember(from0, months) \/ LandsInMonth(from0, to, months)
    [] OTHER -> \/ FieldWraps(n, unit) \/ DurationWraps(n, unit)
                \/ to = from0 + n * (CASE unit = "HOUR" -> 1 [] unit = "DAY" -> 24 [] unit = "WEEK" -> 168)
LandsFrom(value) ==
  LET n == value[Left(Right(expr))] IN
  Kind(value[expr]) = "time" =>
    Lands(Num(Convert(Datetime, value[Left(expr)])), Num(value[expr]),
          Num(Convert(Int64, n)) * (IF Op(expr) = "+" THEN 1 ELSE -1), Arg(Right(expr)))

\* date + INTERVAL and date - INTERVAL land where the calendar says: in the
\* month so many months away, on the same day or the last of the month, or
\* exactly so many hours away.  The exceptions are the code's: a December reached
\* across the end of a year is a year late, days and hours past what a
\* time.Duration holds wrap around, and so do weeks and quarters past an int64.
IntervalLands ==
  (Resolved(expr) /\ Op(expr) \in {"+", "-"} /\ IsInterval(Right(expr))) =>
    LandsFrom([e \in {expr, Left(expr), Left(Right(expr))} |-> Eval(e, row)])
=============================================================================
