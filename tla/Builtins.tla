----------------------------- MODULE Builtins ------------------------------
(***************************************************************************)
(* sql/expression/function: the built-in functions, how each evaluates its *)
(* arguments, and the type and the nullability it declares.                *)
(*                                                                         *)
(* An argument is <<value, type, nullable>>.  A text is <<"chars", bytes>> *)
(* or, when it is a number's literal, <<"num", n, length>>; 195 followed   *)
(* by 169 is the two byte character of UTF-8 here.  Arguments are          *)
(* evaluated in their order, and the first that is NULL or cannot be       *)
(* converted decides.                                                      *)
(***************************************************************************)
EXTENDS Expressions

Seqs == INSTANCE SequencesExt

CONSTANTS Base64Line,     \* length of a line of TO_BASE64 (76 in the code)
          SniffLen        \* bytes IS_BINARY looks at (8000 in the code)

Int32 == <<"num", "Int32">>
ArrayOfText == <<"array", LongText>>
TypeNull == <<"type", 0>>       \* sql.Null, the type, used as a value

-----------------------------------------------------------------------------
(* Bytes and characters.                                                   *)

IsDigit(c) == c \in 48..57
RECURSIVE Decimal(_)
Decimal(ds) == IF ds = <<>> THEN 0 ELSE 10 * Decimal(Seqs!Front(ds)) + Seqs!Last(ds) - 48
RECURSIVE Digits(_, _)
Digits(n, len) == IF len = 0 THEN <<>> ELSE Digits(n \div 10, len - 1) \o <<48 + (n % 10)>>

\* a text of bytes, as the parser of numbers sees it
Str(s) ==
  LET neg == Len(s) > 1 /\ s[1] = 45
      ds == IF neg THEN Tail(s) ELSE s
  IN IF Len(ds) \in 1..3 /\ \A i \in DOMAIN ds : IsDigit(ds[i])
     THEN Text(<<"num", IF neg THEN -Decimal(ds) ELSE Decimal(ds), Len(s)>>)
     ELSE Text(<<"chars", s>>)

\* the bytes of a text
Bytes(v) ==
  LET x == Num(v) IN
  CASE x[1] = "chars" -> x[2]
    [] x[1] = "num" -> IF x[2] < 0 THEN <<45>> \o Digits(-x[2], IF x[2] < -9 THEN 2 ELSE 1)
                       ELSE Digits(x[2], IF x[3] > 1 THEN x[3] ELSE IF x[2] > 99 THEN 3 ELSE IF x[2] > 9 THEN 2 ELSE 1)
    [] x[1] = "fix" -> Digits(Abs(x[2]) \div 100, 1) \o <<46>> \o Digits(Abs(x[2]) % 100, 2)
    [] OTHER -> Digits(IF x[1] = "date" THEN x[2] ELSE 0, 10)

\* []rune(s): a byte that is no character becomes U+FFFD
RECURSIVE Runes(_)
Runes(s) ==
  IF s = <<>> THEN <<>>
  ELSE IF s[1] < 128 THEN <<<<s[1]>>>> \o Runes(Tail(s))
  ELSE IF Len(s) > 1 /\ s[1] \in 194..223 /\ s[2] \in 128..191 THEN <<SubSeq(s, 1, 2)>> \o Runes(SubSeq(s, 3, Len(s)))
  ELSE IF Len(s) > 2 /\ s[1] \in 224..239 /\ s[2] \in 128..191 /\ s[3] \in 128..191
       THEN <<SubSeq(s, 1, 3)>> \o Runes(SubSeq(s, 4, Len(s)))
  ELSE <<<<239, 191, 189>>>> \o Runes(Tail(s))

Flat(rs) == Seqs!FlattenSeq(rs)
Valid(s) == Flat(Runes(s)) = s

\* findSubsequence, and strings.Index: 0 when it is not there
Find(s, t) ==
  LET at == {i \in 1..(Len(s) - Len(t) + 1) : SubSeq(s, i, i + Len(t) - 1) = t}
  IN IF at = {} THEN 0 ELSE Min(at)

\* strings.Split, and the Split of a regular expression that is a literal
RECURSIVE Split(_, _)
Split(s, d) ==
  IF d = <<>> THEN Runes(s)
  ELSE LET i == Find(s, d) IN
       IF i = 0 THEN <<s>> ELSE <<SubSeq(s, 1, i - 1)>> \o Split(SubSeq(s, i + Len(d), Len(s)), d)

RECURSIVE Join(_, _)
Join(parts, d) ==
  IF parts = <<>> THEN <<>> ELSE IF Len(parts) = 1 THEN parts[1] ELSE parts[1] \o d \o Join(Tail(parts), d)

Times(s, n) == Flat([i \in 1..n |-> s])
Lower(s) == [i \in DOMAIN s |-> IF s[i] \in 65..90 THEN s[i] + 32 ELSE s[i]]
Upper(s) == [i \in DOMAIN s |-> IF s[i] \in 97..122 THEN s[i] - 32 ELSE s[i]]
IsSpace(c) == c \in {9, 10, 13, 32}
TrimStart(s) == LET ks == {i \in DOMAIN s : ~IsSpace(s[i])} IN IF ks = {} THEN <<>> ELSE SubSeq(s, Min(ks), Len(s))
TrimEnd(s) == Seqs!Reverse(TrimStart(Seqs!Reverse(s)))

-----------------------------------------------------------------------------
(* String functions, of the bytes of their arguments.                      *)

\* mutant: the start and the length count bytes, not characters
SubstringBytes(s, start, length) ==
  LET from0 == IF start < 0 THEN Len(s) + start ELSE start - 1
  IN IF from0 < 0 \/ from0 >= Len(s) \/ length <= 0 THEN <<>>
     ELSE SubSeq(s, from0 + 1, Min({from0 + length, Len(s)}))

\* Substring.Eval: a negative start counts from the end, 0 is before the text
Substring(s, start, length) ==
  LET r == Runes(s)
      from0 == IF start < 0 THEN Len(r) + start ELSE start - 1
  IN IF from0 < 0 \/ from0 >= Len(r) \/ length <= 0 THEN <<>>
     ELSE Flat(SubSeq(r, from0 + 1, Min({from0 + length, Len(r)})))

\* the end of the slice is a sum of two int64: one that wraps is below the start
SliceWraps(s, start, length) ==
  LET n == Len(Runes(s))
      from0 == IF start < 0 THEN n + start ELSE start - 1
  IN from0 \in 0..(n - 1) /\ length > 0 /\ Signed(from0 + length) < from0

LeftOf(s, n) == IF n <= 0 THEN <<>> ELSE Flat(SubSeq(Runes(s), 1, Min({n, Len(Runes(s))})))

\* SubstringIndex.Eval: the smallest int64 has no negation
SubstringIndex(s, d, count) ==
  LET parts == Split(s, d)
      n == Len(parts)
  IN IF count > 0 THEN Join(SubSeq(parts, 1, Min({count, n})), d)
     ELSE IF Signed(-count) < 0 THEN <<>>
     ELSE Join(SubSeq(parts, (IF -count < n THEN n + count ELSE 0) + 1, n), d)

\* padString: lengths are in bytes
padString(s, n, pad, left) ==
  LET need == n - Len(s)
      fill == SubSeq(Times(pad, need \div Len(pad) + 1), 1, need)
  IN IF n <= 0 THEN <<>> ELSE IF Len(s) >= n THEN SubSeq(s, 1, n) ELSE IF pad = <<>> THEN <<>>
     ELSE IF left THEN fill \o s ELSE s \o fill

Replace(s, f, t) == IF f = <<>> THEN s ELSE Join(Split(s, f), t)

Base64Of(i) == IF i < 26 THEN 65 + i ELSE IF i < 52 THEN 71 + i ELSE IF i < 62 THEN i - 4 ELSE IF i = 62 THEN 43 ELSE 47
Sextet(c) == CHOOSE i \in 0..63 : Base64Of(i) = c
IsBase64(c) == c \in 65..90 \cup 97..122 \cup 48..57 \cup {43, 47}

\* base64.StdEncoding, three bytes as four characters
RECURSIVE Encode(_)
Encode(s) ==
  LET at(i) == IF i <= Len(s) THEN s[i] ELSE 0
      n == 65536 * at(1) + 256 * at(2) + at(3)
      four == [k \in 1..4 |-> IF k > Len(s) + 1 THEN 61 ELSE Base64Of((n \div 64^(4 - k)) % 64)]
  IN IF s = <<>> THEN <<>> ELSE four \o Encode(SubSeq(s, 4, Len(s)))

\* TO_BASE64: a line break after every Base64Line characters but the last
RECURSIVE Broken(_)
Broken(s) ==
  IF Len(s) <= Base64Line THEN s ELSE SubSeq(s, 1, Base64Line) \o <<10>> \o Broken(SubSeq(s, Base64Line + 1, Len(s)))
ToBase64(s) == Broken(Encode(s))

\* DecodeString skips line breaks; <<-1>> is an error
Corrupt == <<-1>>
RECURSIVE Decode(_)
Decode(s) ==
  LET pads == {i \in 1..4 : s[i] = 61}
      n == MapThenSumSet(LAMBDA k : (IF s[k] = 61 THEN 0 ELSE Sextet(s[k])) * 64^(4 - k), 1..4)
      three == <<n \div 65536, (n \div 256) % 256, n % 256>>
      rest == Decode(SubSeq(s, 5, Len(s)))
  IN IF s = <<>> THEN <<>>
     ELSE IF Len(s) < 4 THEN Corrupt
     ELSE IF pads \notin {{}, {4}, {3, 4}} \/ (pads # {} /\ Len(s) > 4) \/ \E i \in (1..4) \ pads : ~IsBase64(s[i]) THEN Corrupt
     ELSE IF rest = Corrupt THEN Corrupt
     ELSE SubSeq(three, 1, 3 - Cardinality(pads)) \o rest
FromBase64(s) == Decode(SelectSeq(s, LAMBDA c : c \notin {10, 13}))

\* Soundex.Eval; a letter's code is a digit, 48 for the letters that have none
SoundexCode(c) ==
  CASE c \in {66, 70, 80, 86} -> 49 [] c \in {67, 71, 74, 75, 81, 83, 88, 90} -> 50 [] c \in {68, 84} -> 51
    [] c = 76 -> 52 [] c \in {77, 78} -> 53 [] c = 82 -> 54 [] OTHER -> 48
Soundex(s) ==
  LET step(acc, c) ==
        IF acc[2] = 0 /\ c \notin 65..90 THEN acc
        ELSE IF acc[2] = 0 THEN <<<<c>>, SoundexCode(c)>>
        ELSE IF SoundexCode(c) \in {48, acc[2]} THEN acc
        ELSE <<acc[1] \o <<SoundexCode(c)>>, SoundexCode(c)>>
      b == Seqs!FoldLeft(step, <<<<>>, 0>>, Upper(s))[1]
  IN b \o Times(<<48>>, IF Len(b) < 4 THEN 4 - Len(b) ELSE 0)

Hex(c) == IF IsDigit(c) THEN c - 48 ELSE IF c \in 97..102 THEN c - 87 ELSE IF c \in 65..70 THEN c - 55 ELSE -1

\* decodeEscapedUnicode: the bytes of \uXXXX.  A surrogate has no bytes, and
\* the slice of length -1 panics
Unicode(hex) ==
  LET n == MapThenSumSet(LAMBDA k : Hex(hex[k]) * 16^(4 - k), 1..4) IN
  IF n < 128 THEN <<n>> ELSE IF n < 2048 THEN <<192 + n \div 64, 128 + (n % 64)>>
  ELSE <<224 + n \div 4096, 128 + ((n \div 64) % 64), 128 + (n % 64)>>
IsSurrogate(hex) == Hex(hex[1]) = 13 /\ Hex(hex[2]) >= 8

Escaped == [c \in {34, 98, 102, 110, 114, 116, 92} |->
             CASE c = 98 -> 8 [] c = 102 -> 12 [] c = 110 -> 10 [] c = 114 -> 13 [] c = 116 -> 9 [] OTHER -> c]

\* unquote: the escapes, before the quotes around the result are dropped.  The
\* length of a \u escape is checked one byte short, and the slice panics
RECURSIVE Unescape(_)
Unescape(s) ==
  LET then(bytes, k) == LET r == Unescape(SubSeq(s, k + 1, Len(s))) IN IF Failed(r) THEN r ELSE <<"ok", bytes \o r[2]>>
      hex == SubSeq(s, 3, 6)
  IN IF s = <<>> THEN <<"ok", <<>>>>
     ELSE IF s[1] # 92 THEN then(<<s[1]>>, 1)
     ELSE IF Len(s) = 1 THEN Err
     ELSE IF s[2] \in DOMAIN Escaped THEN then(<<Escaped[s[2]]>>, 2)
     ELSE IF s[2] # 117 THEN then(<<s[2]>>, 2)
     ELSE IF Len(s) < 5 THEN Err
     ELSE IF Len(s) = 5 THEN Panic
     ELSE IF \E i \in 1..4 : Hex(hex[i]) = -1 THEN Err
     ELSE IF IsSurrogate(hex) THEN Panic ELSE then(Unicode(hex), 6)

unquote(s) ==
  LET r == Unescape(s)
      n == Len(r[2])
  IN IF Failed(r) THEN r
     ELSE IF n > 1 /\ r[2][1] = 34 /\ r[2][n] = 34 THEN Str(SubSeq(r[2], 2, n - 1)) ELSE Str(r[2])

\* RegexpMatches.Eval for a pattern that is a literal: the matches, NULL when
\* there is none; "(" does not compile and only the flag i is known
RegexpMatches(s, p, flags) ==
  LET i == IF flags = <<>> THEN FALSE ELSE TRUE
      parts == Split(IF i THEN Lower(s) ELSE s, IF i THEN Lower(p) ELSE p)
      count == IF p = <<>> THEN Len(Runes(s)) + 1 ELSE Len(parts) - 1
  IN IF p = <<40>> \/ \E k \in DOMAIN flags : flags[k] # 105 THEN Err
     ELSE IF count = 0 THEN Null ELSE <<"list", [k \in 1..count |-> Str(p)]>>

-----------------------------------------------------------------------------
(* Numeric functions.  A logarithm is kept by its sign.                    *)

CeilOf(h) == One * (-((-h) \div One))
FloorOf(h) == One * (h \div One)
\* math.Round(x * 10^d) / 10^d, half away from zero
RoundDigitsOf(h, d) ==
  LET unit == One * 10^(-d) IN
  IF d > 0 THEN h ELSE Sign(h) * ((2 * Abs(h) + unit) \div (2 * unit)) * unit

Sqrt(h) ==
  IF h < 0 THEN NaN
  ELSE LET r == CHOOSE n \in 0..(One * h) : n * n <= One * h /\ (n + 1) * (n + 1) > One * h
       IN Rounding(IF One * h - r * r > r THEN r + 1 ELSE r, 1)

\* math.Pow of a whole exponent
RECURSIVE Power(_, _)
Power(h, n) ==
  IF n = 0 THEN Float(One) ELSE IF n < 0 THEN FloatOp("/", One, Num(Power(h, -n))) ELSE FloatOp("*", h, Num(Power(h, n - 1)))

computeLog(v, base) ==
  IF v <= 0 \/ base = One \/ base <= 0 THEN Err ELSE Float(Sign(v - One) * Sign(base - One))

\* Ceil, Floor and Round: an integer stays (Ceil, Floor) or is rounded as a
\* float64 and cut again, anything that is no number becomes an int32 or 0
RoundedFrom(f, d, t, v, x) ==
  LET ints == f = "round"
      of(h) == CASE f = "ceil" -> CeilOf(h) [] f = "floor" -> FloorOf(h) [] ints -> RoundDigitsOf(h, d)
  IN
  IF ~IsNumber(t) THEN IF Failed(x) THEN SInt(0) ELSE SInt(ToInt(of(Num(x)), Bits.i32))
  ELSE IF ~ints /\ ~IsFloat(t) THEN v
  ELSE IF Kind(v) = "float" THEN Float(of(Num(v)))
  ELSE IF ~ints \/ Kind(v) \notin {"int", "uint"} THEN Err
  ELSE IF Kind(v) = "uint" THEN UInt(ToUint(of(Num(x)), GoWidth(t)))
  ELSE SInt(ToInt(of(Num(x)), GoWidth(t)))
Rounded(f, d, t, v) == RoundedFrom(f, d, t, v, Convert(Float64, v))

\* the digits of ROUND: NULL and what is no number count as 0
RoundDigits(v) ==
  CASE Kind(v) = "float" -> ToInt(Num(v), W) [] Kind(v) \in {"int", "uint"} -> Num(v)
    [] v = Null -> 0 [] OTHER -> Trunc(Num(OrZero(Convert(Float64, v))), One)

\* AbsVal.Eval: the smallest integer is its own negation
AbsVal(t, v) ==
  CASE Kind(v) = "uint" -> v
    [] Kind(v) = "int" -> SInt(IF Num(v) = -(2^(GoWidth(t) - 1)) THEN Num(v) ELSE Abs(Num(v)))
    [] Kind(v) = "float" -> Float(Abs(Num(v)))
    [] OTHER -> Null

-----------------------------------------------------------------------------
(* GREATEST and LEAST.                                                     *)

compRetType(types) ==
  LET all(P(_)) == \A i \in DOMAIN types : P(types[i])
      firstNull == {i \in DOMAIN types : types[i] = NullType}
      bad == {i \in DOMAIN types : ~(IsNumber(types[i]) \/ IsText(types[i]) \/ IsTime(types[i]) \/ types[i] = NullType)}
  IN IF bad # {} /\ (firstNull = {} \/ Min(bad) < Min(firstNull)) THEN Err
     ELSE IF firstNull # {} THEN NullType
     ELSE IF all(IsText) THEN LongText
     ELSE IF all(LAMBDA t : IsNumber(t) /\ ~IsFloat(t)) THEN Int64
     ELSE IF all(IsTime) THEN Datetime ELSE Float64

\* cmp, and the first argument is always taken
Better(greatest, first, x, y) == first \/ (IF greatest THEN x > y ELSE x < y)

\* a text: the selected text, and the selected number unless it holds none
CompText(greatest, t, acc, first, b, f) ==
  [acc EXCEPT !.str = IF t = LongText /\ (first \/ CharsCompare(b, acc.str) = (IF greatest THEN 1 ELSE -1)) THEN b ELSE acc.str,
              !.num = IF ~Failed(f) /\ Better(greatest, first, Num(f), acc.num) THEN Num(f) ELSE acc.num]

\* one more argument.  The selected number is a float64: an integer is compared
\* with it cut to an integer, and kept as the nearest float
CompStep(greatest, t, acc, v, first) ==
  CASE acc.done # NoValue -> acc
    [] acc.done = NoValue /\ v = Null -> [acc EXCEPT !.done = Null]
    [] acc.done = NoValue /\ Kind(v) = "uint" /\ Num(v) >= 2^(W - 1) -> [acc EXCEPT !.done = Err]
    [] acc.done = NoValue /\ Kind(v) \in {"int", "uint"} /\ Num(v) < 2^(W - 1) ->
         IF Better(greatest, first, Num(v), ToInt(acc.num, W)) THEN [acc EXCEPT !.num = Num(ToFloat64E(v))] ELSE acc
    [] acc.done = NoValue /\ Kind(v) = "float" -> IF Better(greatest, first, Num(v), acc.num) THEN [acc EXCEPT !.num = Num(v)] ELSE acc
    [] acc.done = NoValue /\ Kind(v) = "text" -> CompText(greatest, t, acc, first, Bytes(v), Convert(Float64, v))
    [] acc.done = NoValue /\ Kind(v) = "time" -> IF Better(greatest, first, Num(v), acc.time) THEN [acc EXCEPT !.time = Num(v)] ELSE acc
    [] OTHER -> [acc EXCEPT !.done = Err]

\* the selected value, as one of the type of the call
Selected(t, end) ==
  IF end.done # NoValue THEN end.done
  ELSE CASE t = Int64 -> SInt(ToInt(end.num, W)) [] t = LongText -> Str(end.str)
         [] t = Datetime -> Time(end.time) [] OTHER -> Float(end.num)

\* compEval
compEval(greatest, t, vs) ==
  LET step(acc, i) == CompStep(greatest, t, acc, vs[i], i = 1) IN
  IF t = NullType THEN Null
  ELSE Selected(t, Seqs!FoldLeft(step, [num |-> 0, str |-> <<>>, time |-> -1, done |-> NoValue], [i \in DOMAIN vs |-> i]))

-----------------------------------------------------------------------------
(* Date functions.                                                         *)

Weekday(n) == (n \div 24 + 6) % 7       \* of Go: 0 is Sunday

\* getDate: what is no date is the zero date, whatever the range
getDate(v) ==
  CASE Kind(v) = "time" -> Num(v)
    [] Kind(v) = "text" /\ Num(v)[1] = "date" -> Num(v)[2]
    [] OTHER -> zeroTime

DateParts == {"year", "month", "day", "weekday", "hour", "dayofweek", "dayofyear"}
DatePart(part, n) ==
  CASE part = "year" -> YearOf(n) [] part = "month" -> MonthOf(n) [] part = "day" -> DayOf(n)
    [] part = "weekday" -> (Weekday(n) + 6) % 7 [] part = "hour" -> n % 24
    [] part = "dayofweek" -> Weekday(n) + 1
    [] part = "dayofyear" -> DayOfYear(YearOf(n), MonthOf(n)) + DayOf(n)

calcDaysInYear(y) == IF y % 4 = 0 /\ (y % 100 # 0 \/ (y % 400 = 0 /\ y # 0)) THEN 366 ELSE 365

calcDaynr(y, m, d) ==
  LET yy == IF m <= 2 THEN y - 1 ELSE y
      sum == 365 * y + 31 * (m - 1) + d - (IF m <= 2 THEN 0 ELSE (m * 4 + 23) \div 10)
  IN IF y = 0 /\ m = 0 THEN 0 ELSE sum + Trunc(yy, 4) - ((Trunc(yy, 100) + 1) * 3) \div 4

calcWeekday(daynr, sundayFirst) == (daynr + 5 + (IF sundayFirst THEN 1 ELSE 0)) % 7

\* weekMode: Monday first, and whether week 1 is the first that starts in the
\* year rather than the first with four days in it
MondayFirst(mode) == mode % 2 = 1
FirstWeekday(mode) == ((mode \div 4) % 2 = 1) = MondayFirst(mode)

\* mutant: the year is not moved on for the last days of December
calcWeekSameYear(y0, m, d, mode) ==
  LET first == calcDaynr(y0, 1, 1)
      wd == calcWeekday(first, ~MondayFirst(mode))
      days == calcDaynr(y0, m, d) - (first - wd)
  IN <<y0, days \div 7 + 1>>

\* calcWeek, with weekBehaviourYear always set
calcWeek(y0, m, d, mode) ==
  LET fw == FirstWeekday(mode)
      wd0 == calcWeekday(calcDaynr(y0, 1, 1), ~MondayFirst(mode))
      before == m = 1 /\ d <= 7 - wd0
      y == IF before THEN y0 - 1 ELSE y0
      first == calcDaynr(y0, 1, 1) - (IF before THEN calcDaysInYear(y) ELSE 0)
      wd == IF before THEN (wd0 + 53 * 7 - calcDaysInYear(y)) % 7 ELSE wd0
      skip(w) == (fw /\ w # 0) \/ (~fw /\ w >= 4)
      days == calcDaynr(y0, m, d) - (IF skip(wd) THEN first + 7 - wd ELSE first - wd)
  IN IF days >= 52 * 7 /\ ~skip((wd + calcDaysInYear(y)) % 7) THEN <<y + 1, 1>>
     ELSE <<y, days \div 7 + 1>>

YearAndWeek(w) == 100 * w[1] + w[2]
YearWeek(n, mode) == YearAndWeek(calcWeek(YearOf(n), MonthOf(n), DayOf(n), mode))

-----------------------------------------------------------------------------
(* The registry (registry.go, functionregistry.go) and the calls.          *)

Defaults == [
  connection_id |-> {0}, user |-> {0}, database |-> {0}, now |-> {0}, version |-> 0..4,
  abs |-> {1}, array_length |-> {1}, ceil |-> {1}, char_length |-> {1}, date |-> {1}, explode |-> {1}, floor |-> {1},
  from_base64 |-> {1}, is_binary |-> {1}, json_unquote |-> {1}, length |-> {1}, ln |-> {1}, log10 |-> {1}, log2 |-> {1}, lower |-> {1},
  ltrim |-> {1}, rtrim |-> {1}, trim |-> {1}, reverse |-> {1}, sleep |-> {1}, soundex |-> {1}, sqrt |-> {1}, to_base64 |-> {1}, upper |-> {1},
  year |-> {1}, month |-> {1}, day |-> {1}, weekday |-> {1}, hour |-> {1}, dayofweek |-> {1}, dayofyear |-> {1},
  if |-> {3}, ifnull |-> {2}, nullif |-> {2}, power |-> {2}, repeat |-> {2}, split |-> {2}, instr |-> {2}, left |-> {2},
  replace |-> {3}, substring_index |-> {3}, coalesce |-> 1..4, concat |-> 1..4, concat_ws |-> 1..4, date_add |-> {2}, date_sub |-> {2},
  greatest |-> 1..4, least |-> 1..4, json_extract |-> 2..4, log |-> 1..2, lpad |-> {3}, rpad |-> {3}, regexp_matches |-> 2..3,
  round |-> 1..2, substring |-> 2..3, unix_timestamp |-> 0..1, timestamp |-> 0..1, datetime |-> 0..1, yearweek |-> 1..4]

\* what each argument is converted to, for the functions that convert all of
\* them in order before they do anything else
Parameters == [
  substring_index |-> <<LongText, LongText, Int64>>, repeat |-> <<LongText, Int32>>, replace |-> <<LongText, LongText, LongText>>,
  lpad |-> <<LongText, Int64, LongText>>, rpad |-> <<LongText, Int64, LongText>>, to_base64 |-> <<LongText>>, from_base64 |-> <<LongText>>,
  trim |-> <<LongText>>, ltrim |-> <<LongText>>, rtrim |-> <<LongText>>, lower |-> <<LongText>>, upper |-> <<LongText>>, reverse |-> <<LongText>>,
  length |-> <<LongText>>, char_length |-> <<LongText>>, soundex |-> <<LongText>>, json_unquote |-> <<LongText>>, split |-> <<LongText, LongText>>,
  sqrt |-> <<Float64>>, power |-> <<Float64, Float64>>, ln |-> <<Float64>>, log2 |-> <<Float64>>, log10 |-> <<Float64>>,
  unix_timestamp |-> <<Datetime>>, date_add |-> <<Datetime, Int64>>, date_sub |-> <<Datetime, Int64>>, sleep |-> <<Float64>>]
Bases == [ln |-> 11, log2 |-> 8, log10 |-> 40]     \* in quarters; e is 2.75

\* CONCAT and CONCAT_WS: the parts, an array's elements among them
Elements(v) == IF Failed(v) THEN <<Err>> ELSE IF Kind(v) = "list" THEN Num(v) ELSE <<v>>
Parts(a) ==
  Flat([i \in DOMAIN a |-> Elements(Convert(IF a[i][2][1] = "array" THEN ArrayOfText ELSE LongText, a[i][1]))])

\* NewConcat and NewConcatWithSeparator
ConcatRefuses(a) ==
  \E i \in DOMAIN a : a[i][2][1] = "tuple" \/ (Len(a) > 1 /\ a[i][2][1] = "array")

JoinAll(p) ==
  IF Err \in Seqs!ToSet(p) THEN Err ELSE IF Null \in Seqs!ToSet(p) THEN Panic
  ELSE Str(Flat([i \in DOMAIN p |-> Bytes(p[i])]))
Concat(a) ==
  IF ConcatRefuses(a) THEN Err ELSE IF \E i \in DOMAIN a : a[i][1] = Null THEN Null ELSE JoinAll(Parts(a))

\* a NULL separator is NULL, any other NULL is left out
JoinRest(p) ==
  IF Err \in Seqs!ToSet(p) THEN Err ELSE IF Null \in Seqs!ToSet(p) \/ p = <<>> THEN Panic
  ELSE Str(Join([i \in 1..(Len(p) - 1) |-> Bytes(p[i + 1])], Bytes(p[1])))
ConcatWithSeparator(a) ==
  IF ConcatRefuses(a) THEN Err ELSE IF a[1][1] = Null THEN Null
  ELSE JoinRest(Parts(SelectSeq(a, LAMBDA x : x[1] # Null)))

\* JSONExtract.Eval of documents that are numbers or strings: "$" finds the
\* document, any other path nothing, and a NULL path is asserted to be a string
LookUp(doc, s) ==
  IF s = <<>> \/ s[1] # 36 THEN Err ELSE IF Len(s) > 1 \/ Num(doc) = NullDoc THEN Null
  ELSE IF IsNumberDoc(Num(doc)) THEN Rounding(One * Num(doc), 100) ELSE Str(<<97>>)
LookUpPath(doc, path) ==
  IF path = Null THEN Panic ELSE IF Failed(path) THEN Err ELSE LookUp(doc, Bytes(path))
Found(vs) ==
  LET bad == {i \in DOMAIN vs : Failed(vs[i])}
  IN IF bad # {} THEN vs[Min(bad)] ELSE IF Len(vs) = 1 THEN vs[1] ELSE <<"list", vs>>
JSONExtract(a) ==
  Found([i \in 1..(Len(a) - 1) |-> LookUpPath(JSONConvert(a[1][1]), Convert(LongText, a[i + 1][1]))])

\* SUBSTRING, LEFT and INSTR switch on the Go type of their text: a string, the
\* bytes of a document, or an error
IsStringOrBytes(v) == Kind(v) \in {"text", "json"}
TextOf(v) == IF Kind(v) = "json" THEN Bytes(ToStringE(v)) ELSE Bytes(v)

\* the argument, in order, that is NULL or fails to convert to its parameter
FirstStop(a, c, n) ==
  LET stop == {i \in DOMAIN a : i <= n /\ (a[i][1] = Null \/ Failed(c[i]))}
  IN IF stop = {} THEN <<>> ELSE IF a[Min(stop)][1] = Null THEN <<Null>> ELSE <<Err>>

ReverseText(s) == Flat(Seqs!Reverse(Runes(s)))
Repeat(s, n) == IF n < 0 THEN Err ELSE Str(Times(s, n))
LengthOf(s) == SInt(Len(s))              \* of bytes for LENGTH, of runes for CHAR_LENGTH
PowerEval(h, n) == IF n % One = 0 THEN Power(h, n \div One) ELSE Sqrt(h)    \* of a whole exponent, or of a half
\* a pattern that does not compile is an error of SPLIT
SplitEval(s, d) == IF d = <<40>> THEN Err ELSE <<"list", [i \in DOMAIN Split(s, d) |-> Str(Split(s, d)[i])]>>
UnixTimestamp(n) == Float(One * n)
DateAdd(n, delta, sign) == ValidateTime(apply(n, delta, sign))

\* The functions that convert all their arguments first, to the values c
Converted(f, a, c) ==
  LET s(i) == Bytes(c[i])
      n(i) == Num(c[i])
  IN CASE f = "substring_index" -> Str(SubstringIndex(s(1), s(2), n(3)))
       [] f = "repeat" -> Repeat(s(1), n(2))
       [] f = "replace" -> Str(Replace(s(1), s(2), s(3)))
       [] f \in {"lpad", "rpad"} -> Str(padString(s(1), n(2), s(3), f = "lpad"))
       [] f = "to_base64" -> Str(ToBase64(s(1)))
       [] f = "from_base64" -> IF FromBase64(s(1)) = Corrupt THEN Err ELSE Str(FromBase64(s(1)))
       [] f = "trim" -> Str(TrimStart(TrimEnd(s(1)))) [] f = "ltrim" -> Str(TrimStart(s(1))) [] f = "rtrim" -> Str(TrimEnd(s(1)))
       [] f = "lower" -> Str(Lower(s(1))) [] f = "upper" -> Str(Upper(s(1)))
       [] f = "reverse" -> Str(ReverseText(s(1)))
       [] f = "length" -> LengthOf(s(1)) [] f = "char_length" -> LengthOf(Runes(s(1)))
       [] f = "soundex" -> Str(Soundex(s(1)))
       [] f = "json_unquote" -> unquote(s(1))
       [] f = "split" -> SplitEval(s(1), s(2))
       [] f = "sqrt" -> Sqrt(n(1))
       [] f = "power" -> PowerEval(n(1), n(2))
       [] f \in DOMAIN Bases -> computeLog(n(1), Bases[f])
       [] f = "unix_timestamp" -> UnixTimestamp(n(1))
       [] f \in {"date_add", "date_sub"} -> DateAdd(n(1), Delta(n(2), a[2][2]), IF f = "date_add" THEN 1 ELSE -1)

\* NULLIF answers with the type sql.Null where it means NULL
NullIfEqual(eq, v) == IF Failed(eq) THEN eq ELSE IF eq = Bool(TRUE) THEN TypeNull ELSE v
NullIf(a) ==
  IF a[1][2] = NullType /\ a[2][2] = NullType THEN TypeNull
  ELSE NullIfEqual(Comparison("=", a[1][2], a[1][1], a[2][2], a[2][1]), a[1][1])

Coalesce(a) ==
  LET some == {i \in DOMAIN a : a[i][1] # Null} IN IF some = {} THEN Null ELSE a[Min(some)][1]

\* YEARWEEK has no case for a NULL date: year(nil) is not an int32
WeekMode(m) == IF m = Null \/ Failed(m) THEN 0 ELSE Num(m) % 8
YearWeekEval(a) ==
  IF a[1][1] = Null THEN Err
  ELSE SInt(YearWeek(getDate(a[1][1]), IF Len(a) > 1 /\ IsInteger(a[2][2]) THEN WeekMode(Convert(Int64, a[2][1])) ELSE 0))

\* the text, the start and the length as converted, the first that is NULL or
\* failed decides
SubstringOf(s, start, length) ==
  IF start = Null THEN Null ELSE IF Failed(start) THEN Err
  ELSE IF length = Null THEN Null ELSE IF Failed(length) THEN Err
  ELSE IF SliceWraps(s, Num(start), Num(length)) THEN Panic
  ELSE Str(Substring(s, Num(start), Num(length)))
SubstringEval(a) ==
  IF a[1][1] = Null THEN Null ELSE IF ~IsStringOrBytes(a[1][1]) THEN Err
  ELSE SubstringOf(TextOf(a[1][1]), Convert(Int64, a[2][1]),
                   IF Len(a) = 3 THEN Convert(Int64, a[3][1]) ELSE SInt(Len(Runes(TextOf(a[1][1])))))

LeftTo(s, n) == IF n = Null THEN Null ELSE IF Failed(n) THEN Err ELSE Str(LeftOf(s, Num(n)))
LeftEval(a) ==
  IF a[1][1] = Null THEN Null ELSE IF ~IsStringOrBytes(a[1][1]) THEN Err
  ELSE LeftTo(TextOf(a[1][1]), Convert(Int64, a[2][1]))

\* INSTR: the bytes of a document that is looked for are dropped
InstrEval(a) ==
  LET sub0 == IF Kind(a[2][1]) = "json" THEN <<>> ELSE TextOf(a[2][1])
  IN IF a[1][1] = Null THEN Null ELSE IF ~IsStringOrBytes(a[1][1]) THEN Err
     ELSE IF a[2][1] = Null THEN Null ELSE IF ~IsStringOrBytes(a[2][1]) THEN Err
     ELSE SInt(Find(Runes(TextOf(a[1][1])), Runes(sub0)))

ArrayLength(v, t) ==
  IF (t[1] # "array" /\ t # <<"json">>) \/ Kind(v) # "list" THEN Null ELSE SInt(Len(Num(v)))

RegexpOf(text, p, flags, bad) ==
  IF RegexpMatches(<<>>, p, flags) = Err THEN Err ELSE IF bad # <<>> THEN bad[1] ELSE RegexpMatches(Bytes(text), p, flags)
RegexpWith(cs) ==
  LET stop == {i \in DOMAIN cs \ {1} : Failed(cs[i]) \/ cs[i] = Null}
  IN IF stop # {} THEN cs[Min(stop)]
     ELSE RegexpOf(cs[1], Bytes(cs[2]), IF Len(cs) = 3 THEN Bytes(cs[3]) ELSE <<>>,
                   IF Failed(cs[1]) \/ cs[1] = Null THEN <<cs[1]>> ELSE <<>>)
RegexpEval(a) == RegexpWith([i \in DOMAIN a |-> Convert(LongText, a[i][1])])

\* LOG(b, x), the base first
LogOf(cs) ==
  LET stop == {i \in DOMAIN cs : Failed(cs[i]) \/ cs[i] = Null} IN
  IF stop # {} THEN cs[Min(stop)]
  ELSE IF Len(cs) = 1 THEN computeLog(Num(cs[1]), Bases.ln) ELSE computeLog(Num(cs[2]), Num(cs[1]))
LogEval(a) == LogOf([i \in DOMAIN a |-> Convert(Float64, a[i][1])])

\* IF tests the truth of its first argument, NULL is not true
If(a) ==
  LET b == ConvertToBool(a[1][1]) IN
  IF a[1][1] # Null /\ Failed(b) THEN Err ELSE IF a[1][1] # Null /\ b = Bool(TRUE) THEN a[2][1] ELSE a[3][1]

IfNull(a) == IF a[1][1] # Null THEN a[1][1] ELSE a[2][1]

\* isBinary sniffs the first bytes for a zero
HasZero(s) == \E i \in DOMAIN s : i <= SniffLen /\ s[i] = 0
Sniffed(b) == IF Failed(b) THEN Err ELSE Bool(HasZero(Bytes(b)))
IsBinary(v) == IF v = Null THEN Bool(FALSE) ELSE Sniffed(Convert(LongBlob, v))

\* the time is done, or the context is
Sleep == {SInt(0), Err}

\* a call of which an argument stops it, or that is made with the values c
CallWith(f, a, c, s) == IF s # <<>> THEN {s[1]} ELSE IF f = "sleep" THEN Sleep ELSE {Converted(f, a, c)}
StrictCall(f, a, c) == CallWith(f, a, c, FirstStop(a, c, Len(Parameters[f])))

\* Explode is replaced by a Generate node before it could be evaluated
Explode == Panic

DateOf(v) == IF v = Null THEN Null ELSE Text(<<"date", Day(getDate(v))>>)
Timestamp(base, v) == Convert(<<"datetime", base>>, v)

CONSTANTS Clock,          \* what the clock may say
          Context         \* what the session says of itself

\* the functions of no argument: the clock and the session
Version == Context["version"]
Database == Context["database"]
User == Context["user"]
ConnectionID == Context["connection_id"]
Now(f) ==
  {CASE f = "now" -> n [] f = "unix_timestamp" -> UnixTimestamp(Num(n))
     [] f = "timestamp" -> Timestamp("Timestamp", n) [] f = "datetime" -> Timestamp("Datetime", n) : n \in Clock}

\* Eval of a call: the values it may have
EvalCall(f, a) ==
  LET v == a[1][1]
      t == a[1][2]
      types == [i \in DOMAIN a |-> a[i][2]]
      vs == [i \in DOMAIN a |-> a[i][1]]
  IN CASE Len(a) \notin Defaults[f] -> {Err}
       [] Len(a) \in Defaults[f] /\ f = "user" -> {User}
       [] Len(a) \in Defaults[f] /\ f = "database" -> {Database}
       [] Len(a) \in Defaults[f] /\ f = "version" -> {Version}
       [] Len(a) \in Defaults[f] /\ f = "connection_id" -> {ConnectionID}
       [] Len(a) = 0 /\ f \in {"now", "timestamp", "datetime", "unix_timestamp"} -> Now(f)
       [] Len(a) = 1 /\ f = "timestamp" -> {Timestamp("Timestamp", v)}
       [] Len(a) = 1 /\ f = "datetime" -> {Timestamp("Datetime", v)}
       [] (Len(a) = 1 /\ f \in {"ceil", "floor"}) \/ (Len(a) \in 1..2 /\ f = "round") ->
            {IF v = Null THEN Null ELSE Rounded(f, IF Len(a) = 2 THEN RoundDigits(a[2][1]) ELSE 0, t, v)}
       [] Len(a) \in Defaults[f] /\ Len(a) > 0 /\ f \in DOMAIN Parameters ->
            StrictCall(f, a, [i \in DOMAIN a |-> IF i <= Len(Parameters[f]) THEN Convert(Parameters[f][i], a[i][1]) ELSE a[i][1]])
       [] Len(a) = 1 /\ f = "abs" -> {IF v = Null THEN Null ELSE AbsVal(t, v)}
       [] Len(a) = 1 /\ f = "array_length" -> {ArrayLength(v, t)}
       [] Len(a) = 1 /\ f = "explode" -> {Explode}
       [] Len(a) = 1 /\ f = "is_binary" -> {IsBinary(v)}
       [] Len(a) = 1 /\ f \in DateParts -> {IF v = Null THEN Null ELSE SInt(DatePart(f, getDate(v)))}
       [] Len(a) = 1 /\ f = "date" -> {DateOf(v)}
       [] Len(a) > 0 /\ f = "yearweek" -> {YearWeekEval(a)}
       [] Len(a) = 3 /\ f = "if" -> {If(a)}
       [] Len(a) = 2 /\ f = "ifnull" -> {IfNull(a)}
       [] Len(a) = 2 /\ f = "nullif" -> {NullIf(a)}
       [] Len(a) > 0 /\ f = "coalesce" -> {Coalesce(a)}
       [] Len(a) > 0 /\ f = "concat" -> {Concat(a)}
       [] Len(a) > 0 /\ f = "concat_ws" -> {ConcatWithSeparator(a)}
       [] Len(a) > 0 /\ f \in {"greatest", "least"} ->
            {IF Failed(compRetType(types)) THEN Err ELSE compEval(f = "greatest", compRetType(types), vs)}
       [] Len(a) > 1 /\ f = "json_extract" -> {JSONExtract(a)}
       [] Len(a) \in 1..2 /\ f = "log" -> {LogEval(a)}
       [] Len(a) \in 2..3 /\ f = "regexp_matches" -> {RegexpEval(a)}
       [] Len(a) \in 2..3 /\ f = "substring" -> {SubstringEval(a)}
       [] Len(a) = 2 /\ f = "left" -> {LeftEval(a)}
       [] Len(a) = 2 /\ f = "instr" -> {InstrEval(a)}

TextFunctions == {"substring", "substring_index", "left", "concat", "concat_ws", "repeat", "replace", "lpad", "rpad", "to_base64",
                  "from_base64", "trim", "ltrim", "rtrim", "soundex", "json_unquote", "date", "version", "database", "user"}

\* Type of a call
TypeOfCall(f, a) ==
  LET t == IF Len(a) > 0 THEN a[1][2] ELSE NullType IN
  CASE f \in TextFunctions -> LongText
    [] f \in {"reverse", "lower", "upper", "abs", "coalesce"} -> t
    [] f = "if" -> a[2][2]
    [] f \in {"ceil", "floor", "round"} -> IF IsNumber(t) THEN t ELSE Int32
    [] f \in {"length", "char_length", "array_length", "yearweek", "sleep"} \cup DateParts -> Int32
    [] f = "instr" -> Int64
    [] f \in {"sqrt", "power", "ln", "log2", "log10", "log", "unix_timestamp"} -> Float64
    [] f \in {"greatest", "least"} -> compRetType([i \in DOMAIN a |-> a[i][2]])
    [] f \in {"date_add", "date_sub"} -> <<"datetime", "Date">>
    [] f = "timestamp" -> <<"datetime", "Timestamp">>
    [] f \in {"datetime", "now"} -> Datetime
    [] f = "connection_id" -> <<"num", "Uint32">>
    [] f = "is_binary" -> Boolean
    [] f = "json_extract" -> <<"json">>
    [] f \in {"split", "regexp_matches"} -> ArrayOfText
    [] f = "explode" -> IF t[1] = "array" THEN t[2] ELSE t
    [] f = "ifnull" -> IF t # NullType THEN t ELSE a[2][2]
    [] f = "nullif" -> t

\* IsNullable of a call
NullableCall(f, a) ==
  CASE f \in {"date_add", "date_sub", "unix_timestamp", "database", "nullif", "regexp_matches"} -> TRUE
    [] f \in {"timestamp", "datetime", "now", "sleep", "version", "user", "connection_id"} -> FALSE
    [] f \in {"round", "coalesce", "yearweek"} -> a[1][3]
    [] f = "if" -> a[2][3]
    [] f = "ifnull" -> IF a[1][2] # NullType THEN a[1][3] ELSE a[2][2] = NullType \/ a[2][3]
    [] OTHER -> \E i \in DOMAIN a : a[i][3]

-----------------------------------------------------------------------------
(* A call whose result is the argument of the next one.                    *)

CONSTANTS Arguments,      \* what columns and literals hold
          Others(_, _, _), \* the further arguments of a function, by the first and the depth
          Depth           \* how many calls are nested

VARIABLES argument, call, depth

functionVars == <<argument, call, depth>>

FunctionsInit == argument \in Arguments /\ call = <<"none", <<>>>> /\ depth = 0

\* the function is looked up, called with the value, and its result passed on
CallFunction(f, a) ==
  \E v \in EvalCall(f, a) :
    /\ argument' = <<v, IF v = Err THEN Err ELSE TypeOfCall(f, a), v # Err /\ NullableCall(f, a)>>
    /\ call' = <<f, a>> /\ depth' = depth + 1

FunctionsNext ==
  /\ depth < Depth /\ ~Failed(argument[1]) /\ argument[1] \notin {Infinity, NegInfinity, NaN} /\ argument[2] # Err
  /\ \E f \in DOMAIN Defaults : \E more \in Others(f, argument, depth) :
       \E a \in {<<argument>> \o more} \cup (IF 0 \in Defaults[f] /\ depth = 0 /\ more = <<>> THEN {<<>>} ELSE {}) :
         CallFunction(f, a)

-----------------------------------------------------------------------------
(* Functions that answer NULL where they declare none: ABS of what is no   *)
(* number, IF of a NULL third argument, ARRAY_LENGTH of no array, the      *)
(* conversions TIMESTAMP and DATETIME, SLEEP, and a JSON path not found.   *)
NullAnyway == {"abs", "if", "array_length", "timestamp", "datetime", "sleep", "json_extract"}

\* functions whose value need not be of the type they declare: the texts
\* REVERSE, LOWER and UPPER make of numbers, the other branch of IF, IFNULL and
\* COALESCE, sql.Null for NULL, the time of day in a DATE, the numbers of a
\* document, ABS of the smallest integer and a YEARWEEK or LENGTH past int32
LooselyTyped == {"reverse", "lower", "upper", "if", "ifnull", "coalesce", "nullif", "date_add", "date_sub", "json_extract", "yearweek", "length", "char_length", "now", "unix_timestamp"} \cup DateParts

\* calls that panic: EXPLODE outside GENERATE, a \u with too few digits or a
\* surrogate, a NULL path, a NULL element of an array, an empty array of
\* CONCAT_WS, sql.Null in a function around NULLIF, and a SUBSTRING whose end wraps
MayPanicCall == {"explode", "substring", "json_unquote", "json_extract", "concat", "concat_ws", "nullif"}

\* a value is what is declared of it
Fits(x) ==
  IF x[1] = Null THEN x[3] ELSE OfType(x[2], x[1], Convert(x[2], x[1]))

\* What a function declares is what its calls answer, when its arguments are what
\* they declare: NULL only when it is declared nullable, a value of the declared
\* type, and a panic only at the places where this code has one.
CallFits ==
  LET f == call[1]
      v == argument[1]
  IN (f # "none" /\ v # Err /\ \A i \in DOMAIN call[2] : f \in {"date_add", "date_sub"} \/ Fits(call[2][i])) =>
       /\ v = Null => argument[3] \/ f \in NullAnyway
       /\ v \notin {Null, Panic} => f \in LooselyTyped \/ Fits(argument)
       /\ v = Panic => f \in MayPanicCall

TextArgument == Kind(argument[1]) = "text" /\ Num(argument[1])[1] \in {"chars", "num"}
Lines(s) == Split(s, <<10>>)

\* The functions on texts are consistent with each other: no function but LPAD
\* and RPAD, which count bytes, and FROM_BASE64, which answers with any bytes,
\* cuts a character; REVERSE undoes itself and FROM_BASE64 undoes TO_BASE64,
\* whose lines are no longer than they may be; LEFT is a SUBSTRING; SUBSTRING
\* takes what INSTR finds; SUBSTRING_INDEX from both ends covers the text.
TextLaws ==
  TextArgument =>
    LET s == Bytes(argument[1])
        r == Runes(s)
    IN /\ Valid(s) \/ call[1] \in {"lpad", "rpad", "from_base64"} \/ \E i \in DOMAIN call[2] : Kind(call[2][i][1]) = "text" /\ ~Valid(Bytes(call[2][i][1]))
       /\ Valid(s) => Flat(Seqs!Reverse(Runes(Flat(Seqs!Reverse(r))))) = s
       /\ FromBase64(ToBase64(s)) = s
       /\ \A i \in DOMAIN Lines(ToBase64(s)) : Len(Lines(ToBase64(s))[i]) <= Base64Line
       /\ \A n \in 0..Len(r) : /\ LeftOf(s, n) = Substring(s, 1, n)
                               /\ Substring(s, -n, n) = Flat(SubSeq(r, Len(r) - n + 1, Len(r)))
       /\ \A i, j \in DOMAIN r : i <= j =>
            LET part == SubSeq(r, i, j) IN Substring(s, Find(r, part), j - i + 1) = Flat(part) \/ ~Valid(s)
       /\ \A d \in {<<97>>, <<44>>, <<195, 169>>} : \A k \in 1..3 :
            LET n == Len(Split(s, d)) IN
            k < n => SubstringIndex(s, d, k) \o d \o SubstringIndex(s, d, k - n) = s

WeekStart(n, mode) == n \div 24 - (IF MondayFirst(mode) THEN (Weekday(n) + 6) % 7 ELSE Weekday(n))
\* the year a week belongs to: that of its fourth day, or of its first
WeekYear(n, mode) == YearOf(24 * (WeekStart(n, mode) + IF FirstWeekday(mode) THEN 0 ELSE 3))
WeekNumber(n, mode) == LET y == WeekYear(n, mode) IN
  1 + Cardinality({w \in 1..53 : LET e == WeekStart(n, mode) - 7 * w IN e >= 0 /\ YearOf(24 * (e + IF FirstWeekday(mode) THEN 0 ELSE 3)) = y})

\* YEARWEEK numbers the weeks of the calendar: in every mode the year of the
\* week's first or fourth day, and one more than the weeks of that year before
\* it.  Only the year 0, which Go takes as a leap year and the code does not, and
\* the weeks next to it are left out.
WeekLaws ==
  (Kind(argument[1]) = "time" /\ Num(argument[1]) >= Instant(1, 1, 10, 0)) =>
    LET n == Num(argument[1]) IN
    \A mode \in 0..7 : YearWeek(n, mode) = 100 * WeekYear(n, mode) + WeekNumber(n, mode)

OfKind(a, k) ==
  Kind(a[1]) = k /\ CASE k = "int" -> IsInteger(a[2]) [] k = "float" -> IsFloat(a[2]) [] OTHER -> IsTime(a[2])

\* an argument that a float64 holds
Exact(v) == Kind(v) = "time" \/ HasDigits(Quarters(v), Mantissa.f64)
\* an integer whose nearest float64 is none of the int64
RoundsOut(v) == Kind(v) \in {"int", "uint"} /\ Trunc(Num(ToFloat64E(v)), One) \notin -(2^(W - 1))..(2^(W - 1) - 1)

\* GREATEST and LEAST of arguments of one kind answer with one of them that no
\* other exceeds (COALESCE(NULL, 1) is typed NULL after its first argument, and
\* makes the whole call NULL).  They keep what they have selected as a float64:
\* of integers that a float64 does not hold the answer is the extreme one rounded
\* to a float64, which need not be an argument, and nothing is said of the
\* integers so near the largest int64 that they are rounded past it.
ExtremeIsArgument ==
  (call[1] \in {"greatest", "least"}
    /\ \E k \in {"int", "float", "time"} : \A i \in DOMAIN call[2] : OfKind(call[2][i], k)) =>
    LET vs == {call[2][i][1] : i \in DOMAIN call[2]}
        qs == {Quarters(v) : v \in vs}
        extreme == IF call[1] = "greatest" THEN Max(qs) ELSE Min(qs)
    IN IF \A v \in vs : Exact(v) THEN Quarters(argument[1]) = extreme
       ELSE (\E v \in vs : RoundsOut(v)) \/ Quarters(argument[1]) = Num(Rounding(extreme, 1))
=============================================================================
