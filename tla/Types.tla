------------------------------- MODULE Types -------------------------------
(***************************************************************************)
(* The SQL types of sql/*type.go, sql/bit.go, sql/decimal.go, sql/json.go: *)
(* how each converts, orders, promotes and prints values, and how a column *)
(* definition becomes a type and a type a column definition.               *)
(*                                                                         *)
(* A value is <<kind, payload>>.  Kinds are the Go types the code switches *)
(* on: "int" and "uint" (an integer of Bits.i64 bits), "float" (in         *)
(* quarters, a float64 with Mantissa.f64 digits), "text", "time" (an       *)
(* instant in hours), "dur" (a time.Duration in microseconds), "json" (the *)
(* bytes of a document), "list" ([]interface{}).                           *)
(* A text is what a parser sees in it: <<"num", n, len>> an integer        *)
(* literal, <<"fix", n>> a literal with decimals, in hundredths,           *)
(* <<"clock", neg, h, m, s, digits, frac>>, <<"date", instant>>,           *)
(* <<"zerodate">>, <<"chars", bytes>>, <<"words", ws>> comma separated     *)
(* words, each <<letter, spaces, upper>>.  A type is a tuple that starts   *)
(* with its family.  Widths and lengths are constants, so that the largest *)
(* of each is within reach: integers above 2^Mantissa.f64 are to the floats*)
(* here what those above 2^53 are to a float64.                            *)
(***************************************************************************)
EXTENDS Charsets, FiniteSets, FiniteSetsExt

CONSTANTS
  Bits,                  \* the widths of the integers, and of a byte of a text: [i8, i16, i24, i32, i64, byte]
  Mantissa,              \* the binary digits of the floats: [f32, f64]
  charBinaryMax, varcharVarbinaryMax, mediumTextBlobMax, longTextBlobMax,
  MicroDigits,           \* digits of a fraction of a second
  DecimalTypeMaxPrecision, DecimalTypeMaxScale, DecimalDefaultPrecision,
  MinDatetime, MaxDatetime, MinTimestamp, MaxTimestamp   \* instants, in hours

\* What the processor makes of a float that no integer of the width holds, which
\* Go leaves to it: the sign bit alone (amd64), the nearest bound (arm64) or zero
VARIABLE machine
Machines == {"signbit", "saturated", "zero"}

Null == <<"null", 0>>
Err == <<"err", 0>>         \* an error is returned
Panic == <<"panic", 0>>     \* the goroutine panics
SInt(n) == <<"int", n>>
UInt(n) == <<"uint", n>>
Float(quarters) == <<"float", quarters>>
Text(t) == <<"text", t>>
Time(n) == <<"time", n>>
Kind(v) == v[1]
Num(v) == v[2]
Failed(v) == v \in {Err, Panic}

W == Bits.i64
Trunc(n, d) == IF n < 0 THEN -((-n) \div d) ELSE n \div d
Abs(n) == IF n < 0 THEN -n ELSE n
Wrap(n) == n % 2^W
Signed(n) == IF Wrap(n) >= 2^(W - 1) THEN Wrap(n) - 2^W ELSE Wrap(n)
Sign(n) == IF n < 0 THEN -1 ELSE IF n > 0 THEN 1 ELSE 0

-----------------------------------------------------------------------------
(* Floats.  There is one zero, and nothing between it and a quarter.       *)

One == 4                    \* the quarters of 1
MaxFloat64 == 2^20
Infinity == Float(10^7)
NegInfinity == Float(-(10^7))
NaN == Float(10^7 + 1)
Finite(h) == Abs(h) <= MaxFloat64
Inf(sign) == IF sign > 0 THEN Infinity ELSE IF sign < 0 THEN NegInfinity ELSE NaN

\* the float of m digits nearest to a / b, of two as near the even one
NearestIn(a, d, unit) ==
  LET q == a \div d
      r == a % d
  IN unit * (IF 2 * r > d \/ (2 * r = d /\ q % 2 = 1) THEN q + 1 ELSE q)
Nearest(a, b, m) ==
  LET k == CHOOSE i \in 0..24 : Abs(a) \div b < 2^(m + i) /\ (i = 0 \/ Abs(a) \div b >= 2^(m + i - 1))
  IN Sign(a) * NearestIn(Abs(a), b * 2^k, 2^k)

\* a / b quarters as a float64
Rounding(a, b) == IF Abs(a) \div b > MaxFloat64 THEN Inf(Sign(a)) ELSE Float(Nearest(a, b, Mantissa.f64))

\* int64(f), int32(f), ...: cut to an integer of w bits
ToInt(h, w) ==
  LET n == Trunc(h, One) IN
  IF Finite(h) /\ n \in -(2^(w - 1))..(2^(w - 1) - 1) THEN n
  ELSE CASE machine = "signbit" -> -(2^(w - 1))
         [] machine = "saturated" -> IF Float(h) = NaN THEN 0 ELSE IF h < 0 THEN -(2^(w - 1)) ELSE 2^(w - 1) - 1
         [] machine = "zero" -> 0

\* uint64(f): amd64 cuts a negative float to an int64 first
ToUint(h, w) ==
  LET n == Trunc(h, One) IN
  IF Finite(h) /\ n \in 0..(2^w - 1) THEN n
  ELSE CASE machine = "signbit" -> ToInt(h, w) % 2^w
         [] machine = "saturated" -> IF Float(h) = NaN \/ h < 0 THEN 0 ELSE 2^w - 1
         [] machine = "zero" -> 0

-----------------------------------------------------------------------------
(* spf13/cast, as the types use it.                                        *)

ToInt64E(v) ==
  CASE Kind(v) \in {"int", "bool"} -> SInt(Num(v))
    [] Kind(v) = "uint" -> SInt(Signed(Num(v)))
    [] Kind(v) = "float" -> SInt(ToInt(Num(v), W))
    [] Kind(v) = "text" /\ Num(v)[1] = "num" /\ Num(v)[2] \in -(2^(W - 1))..(2^(W - 1) - 1) -> SInt(Num(v)[2])
    [] OTHER -> Err

ToUint64E(v) ==
  CASE Kind(v) = "uint" -> v
    [] Kind(v) \in {"int", "bool"} /\ Num(v) >= 0 -> UInt(Num(v))
    [] Kind(v) = "float" /\ Num(v) >= 0 -> UInt(ToUint(Num(v), W))
    [] Kind(v) = "text" /\ Num(v)[1] = "num" /\ Num(v)[2] \in 0..(2^W - 1) -> UInt(Num(v)[2])
    [] OTHER -> Err

\* the number in a number or in a literal, which is of hundredths when it has decimals
Figure(v) == IF Kind(v) = "text" THEN Num(v)[2] ELSE Num(v)
IsLiteral(v, forms) == Kind(v) = "text" /\ Num(v)[1] \in forms

ToFloat64E(v) ==
  CASE Kind(v) = "float" -> v
    [] Kind(v) \in {"int", "uint", "bool"} \/ IsLiteral(v, {"num", "fix"}) ->
         Rounding(One * Figure(v), IF IsLiteral(v, {"fix"}) THEN 100 ELSE 1)
    [] OTHER -> Err

\* compareNulls: a NULL comes first
compareNulls(a, b) ==
  IF a = Null /\ b = Null THEN 0 ELSE IF a = Null THEN -1 ELSE 1

\* two operands that were converted to be compared: what is neither equal nor
\* less is greater, and so a NaN is greater than any float and any is than it
CompareNums(a, b) ==
  IF Failed(a) \/ Failed(b) THEN Err ELSE IF NaN \in {a, b} THEN SInt(1) ELSE SInt(Sign(Num(a) - Num(b)))

-----------------------------------------------------------------------------
(* numbertype.go: <<"num", base>>.                                         *)

SignedBase == [Int8 |-> Bits.i8, Int16 |-> Bits.i16, Int24 |-> Bits.i24, Int32 |-> Bits.i32, Int64 |-> W]
UnsignedBase == [Uint8 |-> Bits.i8, Uint16 |-> Bits.i16, Uint24 |-> Bits.i24, Uint32 |-> Bits.i32, Uint64 |-> W]
FloatBase == {"Float32", "Float64"}
MaxFloat32 == One * 2^W
NumberBases == DOMAIN SignedBase \cup DOMAIN UnsignedBase \cup FloatBase

\* the cut to a float32, after the range is checked
AsFloat32(h) == IF Float(h) = NaN THEN NaN ELSE IF Abs(h) > MaxFloat32 THEN Err ELSE Float(Nearest(h, 1, Mantissa.f32))

\* mutant: the lower bound of a signed type is not checked, so its cast wraps
SignedInUpper(i, max) ==
  IF Failed(i) \/ Num(i) >= max THEN Err ELSE SInt(((Num(i) + max) % (2 * max)) - max)

\* an int64, an uint64 and a float64 in the range of a narrower type
SignedIn(i, max) == IF Failed(i) \/ Num(i) >= max \/ Num(i) < -max THEN Err ELSE i
UnsignedIn(u, max) == IF Failed(u) \/ Num(u) >= max THEN Err ELSE u
Float32In(f) == IF Failed(f) THEN Err ELSE AsFloat32(Num(f))

\* Convert, of a value that casts to i, u and f: only Int64 looks at a uint64
\* before it is cast to int64, the narrower signed types check the range after
\* the cast
NumberIn(b, v, i, u, f) ==
  CASE b = "Int64" -> IF Kind(v) = "uint" /\ Num(v) >= 2^(W - 1) THEN Err ELSE i
    [] b \in DOMAIN SignedBase \ {"Int64"} -> SignedIn(i, 2^(SignedBase[b] - 1))
    [] b \in DOMAIN UnsignedBase -> UnsignedIn(u, 2^UnsignedBase[b])
    [] b = "Float32" -> Float32In(f)
    [] OTHER -> f

\* a time is its seconds, which a float64 holds exactly
NumberOfTime(b, n) == NumberIn(b, n, n, IF Num(n) < 0 THEN Err ELSE UInt(Num(n)), Float(One * Num(n)))
NumberConvert(b, v) ==
  IF Kind(v) = "time" THEN NumberOfTime(b, SInt(Num(v)))
  ELSE NumberIn(b, v, ToInt64E(v), ToUint64E(v), ToFloat64E(v))

\* Compare, through compareSignedInts, compareUnsignedInts and compareFloats
NumberCast(b, v) ==
  CASE b \in DOMAIN SignedBase -> ToInt64E(v) [] b \in DOMAIN UnsignedBase -> ToUint64E(v) [] OTHER -> ToFloat64E(v)
NumberCompare(b, x, y) == CompareNums(NumberCast(b, x), NumberCast(b, y))

NumberPromote(b) ==
  CASE b \in DOMAIN SignedBase -> "Int64" [] b \in DOMAIN UnsignedBase -> "Uint64" [] OTHER -> "Float64"

\* SQL: what is written is not converted first, and a cast that fails writes 0;
\* MEDIUMINT is written as if it were unsigned
NumberSQL(b, v) ==
  LET or0(c) == IF Failed(c) THEN 0 ELSE Num(c) IN
  CASE b \in DOMAIN SignedBase \ {"Int24"} -> SInt(or0(ToInt64E(v)))
    [] b \in DOMAIN UnsignedBase \cup {"Int24"} -> UInt(or0(ToUint64E(v)))
    [] OTHER -> Float(or0(ToFloat64E(v)))

NumberZero(b) ==
  CASE b \in DOMAIN SignedBase -> SInt(0) [] b \in DOMAIN UnsignedBase -> UInt(0) [] OTHER -> Float(0)

-----------------------------------------------------------------------------
(* stringtype.go: <<"string", base, characters, collation>>.  The text of  *)
(* a string column is <<"str", letter, length>>; a BINARY is padded.       *)

textBlobMax == varcharVarbinaryMax
tinyTextBlobMax == charBinaryMax

\* The binary collation makes a binary type
BaseOf(base, coll) ==
  IF coll # Collation_binary THEN base
  ELSE CASE base = "Char" -> "Binary" [] base = "VarChar" -> "VarBinary" [] base = "Text" -> "Blob" [] OTHER -> base

\* mutant: TEXT types are chosen by their length in characters
TextLengthChars(length, max) ==
  IF length <= tinyTextBlobMax THEN tinyTextBlobMax \div max ELSE textBlobMax \div max

\* TEXT and BLOB take the smallest of their four sizes that the bytes fit in
TextLength(length, max) ==
  LET sizes == {n \in {tinyTextBlobMax, textBlobMax, mediumTextBlobMax} : length * max <= n}
  IN IF sizes = {} THEN longTextBlobMax ELSE Min(sizes) \div max

\* A type of this length with characters of up to max bytes, or Err: CHAR is
\* limited in characters, VARCHAR in bytes
StringOf(base, length, max, coll) ==
  CASE base \in {"Char", "Binary"} -> IF length > charBinaryMax THEN Err ELSE <<"string", base, length, coll>>
    [] base \in {"VarChar", "VarBinary"} ->
         IF length * max > varcharVarbinaryMax THEN Err ELSE <<"string", base, length, coll>>
    [] base \in {"Text", "Blob"} ->
         IF length > longTextBlobMax THEN Err ELSE <<"string", base, TextLength(length, max), coll>>

\* CreateString: the type, or Err
CreateString(base, length, coll) ==
  IF length < 0 \/ (base \in {"Binary", "VarBinary", "Blob"} /\ coll # Collation_binary) THEN Err
  ELSE StringOf(BaseOf(base, coll), length, MaxLength(CharacterSet(coll)), coll)

MaxByteLength(t) == t[3] * MaxLength(CharacterSet(t[4]))

\* a document: a number, in hundredths, or one of the documents above them
NumberDocs == 10^5
IsNumberDoc(n) == Abs(n) < NumberDocs
StringDoc(len) == 10^6 + len
OtherDoc(n) == 2 * 10^6 + n
ListDoc(len) == 4 * 10^6 + len
NullDoc == 5 * 10^6

\* a literal of so many hundredths
Numeral(n) == IF n % 100 = 0 THEN <<"num", n \div 100, 1>> ELSE <<"fix", n>>

\* cast.ToStringE: a number becomes its literal, a time its date, a document
\* its bytes; a boolean is "true" or "false"
ToStringE(v) ==
  CASE Kind(v) = "text" -> v
    [] Kind(v) \in {"int", "uint"} -> Text(<<"num", Num(v), 1>>)
    [] Kind(v) = "float" -> Text(Numeral(25 * Num(v)))
    [] Kind(v) = "json" -> Text(IF IsNumberDoc(Num(v)) THEN Numeral(Num(v)) ELSE <<"str", 5, 2>>)
    [] Kind(v) = "bool" -> Text(<<"str", 3 + Num(v), 4>>)
    [] Kind(v) = "time" -> Text(<<"date", Num(v)>>)
    [] Kind(v) = "type" -> Text(<<"chars", <<78, 85, 76, 76>>>>)
    [] OTHER -> Err

LenText(x) == CASE x[1] \in {"str", "num"} -> x[3] [] x[1] = "chars" -> Len(x[2]) [] x[1] = "fix" -> 4 [] OTHER -> 10

\* Convert: TEXT is limited by its bytes, every other base by its length
FitString(t, s) ==
  IF Failed(s) \/ LenText(Num(s)) > (IF t[2] = "Text" THEN MaxByteLength(t) ELSE t[3]) THEN Err
  ELSE IF t[2] = "Binary" /\ Num(s)[1] = "str" THEN Text(<<"str", Num(s)[2], t[3]>>)
  ELSE s
StringConvert(t, v) == FitString(t, ToStringE(v))

\* the order of texts: literals of numbers before times, dates and words
TextRank(x) ==
  CASE x[1] \in {"str", "num", "fix"} -> x[2]
    [] x[1] = "clock" -> 10^4 + x[3]
    [] x[1] = "date" -> 10^5 + x[2]
    [] OTHER -> 10^6

\* bytes in their order
CharsCompare(a, b) ==
  LET differ == {i \in 1..Min({Len(a), Len(b)}) : a[i] # b[i]}
  IN IF differ = {} THEN Sign(Len(a) - Len(b)) ELSE Sign(a[Min(differ)] - b[Min(differ)])

\* strings.Compare
TextCompare(x, y) ==
  IF x[1] = "chars" /\ y[1] = "chars" THEN CharsCompare(x[2], y[2])
  ELSE IF TextRank(x) # TextRank(y) THEN Sign(TextRank(x) - TextRank(y))
  ELSE Sign(LenText(x) - LenText(y))

\* Compare converts what is not a string already
StringOperand(t, v) == IF Kind(v) = "text" THEN v ELSE StringConvert(t, v)
CompareTexts(a, b) == IF Failed(a) \/ Failed(b) THEN Err ELSE SInt(TextCompare(Num(a), Num(b)))
StringCompare(t, a, b) == CompareTexts(StringOperand(t, a), StringOperand(t, b))

\* MustCreateString(Text or Blob, longTextBlobMax, coll): the bytes are more than
\* a medium text holds
LongString(base, coll) == <<"string", base, longTextBlobMax, coll>>
StringPromote(t) ==
  IF t[2] \in {"Char", "VarChar", "Text"} THEN LongString("Text", t[4]) ELSE LongString("Blob", Collation_binary)

-----------------------------------------------------------------------------
(* Instants are hours since the first of January of the year 0, in the     *)
(* calendar of Go's time package.                                          *)

Leap(y) == y % 4 = 0 /\ (y % 100 # 0 \/ y % 400 = 0)
MonthLength(y, mo) ==
  CASE mo = 2 -> IF Leap(y) THEN 29 ELSE 28 [] mo \in {4, 6, 9, 11} -> 30 [] OTHER -> 31
DayOfYear(y, mo) == MapThenSumSet(LAMBDA m : MonthLength(y, m), 1..(mo - 1))

\* time.Date and the fields of a time.Time
YearStart(y) == 24 * (365 * y + (y + 3) \div 4 - (y + 99) \div 100 + (y + 399) \div 400)
Instant(y, mo, d, h) == YearStart(y) + 24 * (DayOfYear(y, mo) + d - 1) + h
YearOf(n) == CHOOSE y \in ((n \div 8766) - 1)..((n \div 8766) + 1) : YearStart(y) <= n /\ n < YearStart(y + 1)
MonthIn(n, y) == CHOOSE m \in 1..12 : LET s == Instant(y, m, 1, 0) IN s <= n /\ n < s + 24 * MonthLength(y, m)
MonthOf(n) == MonthIn(n, YearOf(n))
DayIn(n, y, m) == (n - Instant(y, m, 1, 0)) \div 24 + 1
DayOf(n) == DayIn(n, YearOf(n), MonthOf(n))

-----------------------------------------------------------------------------
(* datetimetype.go: <<"datetime", "Date" | "Datetime" | "Timestamp">>.     *)

zeroTime == 0
Day(n) == n - (n % 24)

\* ConvertWithoutRangeCheck
DatetimeParse(b, v) ==
  LET cut(n) == Time(IF b = "Date" THEN Day(n) ELSE n) IN
  CASE Kind(v) = "time" -> cut(Num(v))
    [] Kind(v) = "text" /\ Num(v)[1] = "date" -> cut(Num(v)[2])
    [] Kind(v) = "text" /\ Num(v)[1] = "zerodate" -> Time(zeroTime)
    [] OTHER -> Err

\* Convert
InRange(b, d) ==
  IF Failed(d) \/ Num(d) = zeroTime THEN d
  ELSE IF Num(d) \in (IF b = "Timestamp" THEN MinTimestamp..MaxTimestamp ELSE MinDatetime..MaxDatetime) THEN d ELSE Err
DatetimeConvert(b, v) == InRange(b, DatetimeParse(b, v))

\* Compare: a time.Time is not checked against the range, only truncated
DatetimeOperand(b, v) == IF Kind(v) = "time" THEN DatetimeParse(b, v) ELSE DatetimeConvert(b, v)
DatetimeCompare(b, x, y) == CompareNums(DatetimeOperand(b, x), DatetimeOperand(b, y))

DatetimePromote(b) == IF b = "Timestamp" THEN "Datetime" ELSE b

\* SQL
DateText(d) ==
  IF Failed(d) THEN Err ELSE IF Num(d) = zeroTime THEN Text(<<"zerodate">>) ELSE Text(<<"date", Num(d)>>)
DatetimeSQL(b, v) == DateText(DatetimeConvert(b, v))

-----------------------------------------------------------------------------
(* timetype.go: <<"timespan">>; a timespan is [neg, h, m, s, us].          *)

microsecondsPerSecond == 10^MicroDigits
microsecondsPerMinute == 60 * microsecondsPerSecond
microsecondsPerHour == 60 * microsecondsPerMinute
timespanMaximum == 838 * microsecondsPerHour + 59 * microsecondsPerMinute + 59 * microsecondsPerSecond
NoSpan == [neg |-> FALSE, h |-> -1, m |-> 0, s |-> 0, us |-> 0]     \* an error

SpanOf(neg, a) ==
  [neg |-> neg, h |-> a \div microsecondsPerHour, m |-> (a \div microsecondsPerMinute) % 60,
   s |-> (a \div microsecondsPerSecond) % 60, us |-> a % microsecondsPerSecond]
microsecondsToTimespan(v) == SpanOf(v < 0, Min({Abs(v), timespanMaximum}))

AsMicroseconds(i) ==
  (IF i.neg THEN -1 ELSE 1) *
    (i.us + i.s * microsecondsPerSecond + i.m * microsecondsPerMinute + i.h * microsecondsPerHour)

\* stringToTimespan, after the regular expression: a fraction is read as a
\* number and then scaled up, so its leading zeros are lost
stringToTimespan(x) ==
  LET scaled == CHOOSE n \in {x[7] * 10^k : k \in 0..MicroDigits} :
                  \/ x[7] = 0 /\ n = 0
                  \/ x[7] # 0 /\ n \in (microsecondsPerSecond \div 10)..(microsecondsPerSecond - 1)
      over == x[3] > 838
      h == IF over THEN 838 ELSE x[3]
      m == IF over THEN 59 ELSE x[4]
      s == IF over THEN 59 ELSE x[5]
  IN IF x[4] > 59 \/ x[5] > 59 THEN NoSpan
     ELSE [neg |-> x[2], h |-> h, m |-> m, s |-> s, us |-> IF h = 838 /\ m = 59 /\ s = 59 THEN 0 ELSE scaled]

\* the digits of a number are HHMMSS, MMSS or SS.  The sign of MMSS is given to
\* the seconds only, that of HHMMSS to the hours only
DigitSpan(n, h, mm, ss, us) ==
  IF mm > 59 \/ ss > 59 \/ Abs(n) \in 60..999 \/ Abs(n) > 9999999 THEN NoSpan
  ELSE microsecondsToTimespan(h * microsecondsPerHour + mm * microsecondsPerMinute
                               + (IF n < 0 /\ h = 0 THEN -ss ELSE ss) * microsecondsPerSecond + us)
SpanOfDigits(n, us) == DigitSpan(n, Trunc(n, 10000), (Abs(n) \div 100) % 100, Abs(n) % 100, us)

\* the integers behind TIME and YEAR are not scaled down: every finite float is
\* within them
WideBits == 31

\* the digits before the point, and the microseconds after it
SpanOfFloat(h, i) == SpanOfDigits(i, IF Finite(h) THEN (h - One * i) * (microsecondsPerSecond \div One) ELSE 0)
FloatSpan(h) == SpanOfFloat(h, ToInt(h, WideBits))

\* ConvertToTimespanImpl: a text that is no clock is a float when it has a point,
\* and an integer otherwise
ConvertToTimespanImpl(v) ==
  CASE Kind(v) \in {"int", "uint"} \/ IsLiteral(v, {"num"}) -> SpanOfDigits(Figure(v), 0)
    [] Kind(v) = "float" \/ IsLiteral(v, {"fix"}) -> FloatSpan(Num(ToFloat64E(v)))
    [] Kind(v) = "dur" -> microsecondsToTimespan(Num(v))
    [] IsLiteral(v, {"clock"}) -> stringToTimespan(Num(v))
    [] OTHER -> NoSpan

\* Convert: the String of the timespan
SpanText(i) ==
  IF i = NoSpan THEN Err ELSE Text(<<"clock", i.neg, i.h, i.m, i.s, IF i.us = 0 THEN 0 ELSE MicroDigits, i.us>>)
TimeConvert(v) == SpanText(ConvertToTimespanImpl(v))

CompareSpans(x, y) ==
  IF x = NoSpan \/ y = NoSpan THEN Err ELSE SInt(Sign(AsMicroseconds(x) - AsMicroseconds(y)))
TimeCompare(a, b) == CompareSpans(ConvertToTimespanImpl(a), ConvertToTimespanImpl(b))

-----------------------------------------------------------------------------
(* yeartype.go: <<"year">>.                                                *)

\* a number of one or two digits is of 1970 to 2069
YearNumber(n) ==
  CASE n = 0 -> SInt(0)
    [] n \in 1..69 -> SInt(n + 2000)
    [] n \in 70..99 -> SInt(n + 1900)
    [] n \in 1901..2155 -> SInt(n)
    [] OTHER -> Err

YearIn(y) == IF y \in {0} \cup 1901..2155 THEN SInt(y) ELSE Err
YearConvert(v) ==
  CASE Kind(v) \in {"int", "uint", "float"} ->
         YearNumber(CASE Kind(v) = "uint" -> Signed(Num(v)) [] Kind(v) = "float" -> ToInt(Num(v), WideBits) [] OTHER -> Num(v))
    [] Kind(v) = "time" -> YearIn(YearOf(Num(v)))
    [] IsLiteral(v, {"num"}) /\ Num(v)[3] \in {1, 2, 4} -> IF Num(v)[2] = 0 THEN SInt(2000) ELSE YearNumber(Num(v)[2])
    [] OTHER -> Err

YearCompare(a, b) == CompareNums(YearConvert(a), YearConvert(b))

\* SQL: the result of Convert is asserted to be an int16, so a NULL panics
YearSQL(v) == IF v = Null THEN Panic ELSE YearConvert(v)

-----------------------------------------------------------------------------
(* bit.go: <<"bit", n>>.  An integer is taken as the uint64 of its bits, a *)
(* text as the integer its bytes make.                                     *)

CreateBitType(n) == IF n \in 1..W THEN <<"bit", n>> ELSE Err

\* binary.BigEndian.Uint64 of a text, at most as many bytes as W bits are: the
\* letter in each of its places.  Digits are bytes of all ones here
BigEndian(byte, len) ==
  IF len > W \div Bits.byte THEN Err
  ELSE UInt(MapThenSumSet(LAMBDA i : (byte % 2^Bits.byte) * 2^(Bits.byte * (i - 1)), 1..len))

BitsIn(n, u) == IF Failed(u) \/ Num(u) > 2^n - 1 THEN Err ELSE u
BitConvert(n, v) ==
  BitsIn(n, CASE Kind(v) \in {"int", "uint", "bool"} -> UInt(Wrap(Num(v)))
              [] Kind(v) = "float" /\ Num(v) >= 0 -> UInt(ToUint(Num(v), W))
              [] Kind(v) \in {"text", "json"} ->
                   BigEndian(IF IsLiteral(v, {"str"}) THEN Num(v)[2] ELSE -1, LenText(Num(ToStringE(v))))
              [] OTHER -> Err)

BitCompare(n, a, b) == CompareNums(BitConvert(n, a), BitConvert(n, b))

-----------------------------------------------------------------------------
(* decimal.go: <<"decimal", precision, scale>>, in hundredths.             *)

CreateDecimalType(p, s) ==
  IF p > DecimalTypeMaxPrecision \/ s > p \/ s > DecimalTypeMaxScale THEN Err
  ELSE <<"decimal", IF p = 0 THEN DecimalDefaultPrecision ELSE p, s>>

\* decimal.Round: half away from zero
RoundTo(n, s) == LET unit == 10^(2 - s) IN Sign(n) * (((Abs(n) + unit \div 2) \div unit) * unit)

\* ConvertToDecimal: rounded to the scale, and then below 10^(precision - scale).
\* decimal.NewFromFloat panics on an infinity and on NaN
ConvertToDecimal(t, v) ==
  LET n == CASE Kind(v) \in {"int", "uint"} -> 100 * Num(v)
             [] Kind(v) = "float" -> 25 * Num(v)
             [] Kind(v) = "text" /\ Num(v)[1] = "num" -> 100 * Num(v)[2]
             [] Kind(v) = "text" /\ Num(v)[1] = "fix" -> Num(v)[2]
             [] OTHER -> 10^8
      r == RoundTo(n, t[3])
  IN IF Kind(v) = "float" /\ ~Finite(Num(v)) THEN Panic
     ELSE IF n = 10^8 \/ Abs(r) >= 100 * 10^(t[2] - t[3]) THEN Err ELSE <<"dec", r>>

\* Convert: StringFixed
StringFixed(d) == IF Failed(d) THEN d ELSE Text(<<"fix", Num(d)>>)
DecimalConvert(t, v) == StringFixed(ConvertToDecimal(t, v))

DecimalCompare(t, a, b) == CompareNums(ConvertToDecimal(t, a), ConvertToDecimal(t, b))

-----------------------------------------------------------------------------
(* enumtype.go and settype.go: <<"enum", members, collation>> and <<"set", *)
(* members, collation>>; a member is a word.                               *)

TrimRight(w) == <<w[1], 0, w[3]>>
ToLower(w) == <<w[1], w[2], 0>>
Distinct(s) == \A i, j \in DOMAIN s : s[i] = s[j] => i = j

CreateEnumType(values, coll) ==
  LET members == [i \in DOMAIN values |-> IF coll = Collation_binary THEN values[i] ELSE TrimRight(values[i])]
  IN IF values = <<>> \/ ~Distinct(members) THEN Err ELSE <<"enum", members, coll>>

\* IndexOf: the word, or the number it is, as an index; 0 when there is none
EnumIndexOf(t, x) ==
  LET byWord == {i \in DOMAIN t[2] : x[1] = "words" /\ x[2] = <<t[2][i]>>} IN
  CASE byWord # {} -> CHOOSE i \in byWord : TRUE
    [] byWord = {} /\ x[1] = "num" -> IF x[2] \in DOMAIN t[2] THEN x[2] ELSE 0
    [] OTHER -> 0

\* ConvertToIndex
EnumIndex(t, v) ==
  LET at(n) == IF n \in DOMAIN t[2] THEN n ELSE 0 IN
  CASE Kind(v) \in {"int", "uint", "float"} -> at(IF Kind(v) = "float" THEN ToInt(Num(v), W) ELSE Num(v))
    [] Kind(v) = "text" -> EnumIndexOf(t, Num(v))
    [] OTHER -> 0

EnumWord(t, i) == IF i = 0 THEN Err ELSE Text(<<"words", <<t[2][i]>>>>)
EnumConvert(t, v) == EnumWord(t, EnumIndex(t, v))

CompareIndexes(i, j) == IF 0 \in {i, j} THEN Err ELSE SInt(Sign(i - j))
EnumCompare(t, a, b) == CompareIndexes(EnumIndex(t, a), EnumIndex(t, b))

\* the form words are compared in, and the form a definition keeps
SetCompareVal(w, coll) == IF coll = Collation_binary THEN w ELSE ToLower(TrimRight(w))
SetOriginal(w, coll) == IF coll = Collation_binary THEN w ELSE TrimRight(w)

CreateSetType(values, coll) ==
  IF \/ values = <<>> \/ Len(values) > W
     \/ ~Distinct([i \in DOMAIN values |-> SetCompareVal(values[i], coll)])
  THEN Err ELSE <<"set", [i \in DOMAIN values |-> SetOriginal(values[i], coll)], coll>>

\* upperBound: a set of W members has an upper bound that wraps to 0
SetUpperBound(t) == Wrap(2^Len(t[2]))

\* convertStringToBitField, as the set of bits, {-1} when a word is not a member
SetBitsOfString(t, ws) ==
  LET bit(w) == {i \in DOMAIN t[2] : SetCompareVal(t[2][i], t[3]) = SetCompareVal(w, t[3])} IN
  IF \E k \in DOMAIN ws : bit(ws[k]) = {} THEN {-1} ELSE UNION {bit(ws[k]) : k \in DOMAIN ws}

BitsOf(n) == {i \in 1..W : (n \div 2^(i - 1)) % 2 = 1}

\* ConvertToBits
SetBits(t, v) ==
  LET of(n) == IF n < SetUpperBound(t) THEN BitsOf(n) ELSE {-1} IN
  CASE Kind(v) \in {"int", "uint", "float"} -> of(IF Kind(v) = "float" THEN ToUint(Num(v), W) ELSE Wrap(Num(v)))
    [] Kind(v) = "text" /\ Num(v)[1] = "words" -> SetBitsOfString(t, Num(v)[2])
    [] OTHER -> {-1}

\* convertBitFieldToString: the members of the bits, in their order
SetString(t, bits) ==
  LET nth(k) == CHOOSE i \in bits : Cardinality({j \in bits : j < i}) = k - 1
  IN IF bits = {-1} THEN Err ELSE Text(<<"words", [k \in 1..Cardinality(bits) |-> t[2][nth(k)]]>>)

SetConvert(t, v) == SetString(t, SetBits(t, v))

FieldOf(bits) == MapThenSumSet(LAMBDA i : 2^(i - 1), bits)

CompareFields(a, b) == IF {-1} \in {a, b} THEN Err ELSE SInt(Sign(FieldOf(a) - FieldOf(b)))
SetCompare(t, a, b) == CompareFields(SetBits(t, a), SetBits(t, b))

-----------------------------------------------------------------------------
(* json.go, nulltype.go, arraytype.go, tupletype.go and the interface all  *)
(* types implement.  <<"array", underlying>>, <<"tuple", types>>,          *)
(* <<"json">>, <<"nulltype">>.                                             *)

\* json.Unmarshal into an interface{} reads every number as a float64
Reread(n) == IF IsNumberDoc(n) THEN 25 * Nearest(One * n, 100, Mantissa.f64) ELSE n

\* jsonType.Convert: a text or the bytes of a document are read and marshalled
\* again, a text that is no document is marshalled as a string, and so is any
\* other value as what it is; NULL becomes the document null
JSONConvert(v) ==
  CASE Kind(v) = "json" -> <<"json", Reread(Num(v))>>
    [] v = Null -> <<"json", NullDoc>>
    [] Kind(v) \in {"int", "uint"} -> <<"json", 100 * Num(v)>>
    [] Kind(v) = "float" -> IF Finite(Num(v)) THEN <<"json", 25 * Num(v)>> ELSE Err
    [] IsLiteral(v, {"num", "fix"}) -> <<"json", Reread(IF IsLiteral(v, {"num"}) THEN 100 * Num(v)[2] ELSE Num(v)[2])>>
    [] Kind(v) = "text" /\ ~IsLiteral(v, {"num", "fix"}) -> <<"json", StringDoc(LenText(Num(v)))>>
    [] OTHER -> <<"json", IF Kind(v) = "list" THEN ListDoc(Len(Num(v))) ELSE OtherDoc(Num(v))>>

\* jsonType.Compare asserts both operands to be []byte
JSONCompare(a, b) ==
  IF Kind(a) # "json" \/ Kind(b) # "json" THEN Panic ELSE SInt(Sign(Num(a) - Num(b)))

RECURSIVE Convert(_, _)
\* arrayType.Convert, of a slice and of a Generator that yields its elements
ListOf(vs) == IF \E i \in DOMAIN vs : Failed(vs[i]) THEN Err ELSE <<"list", vs>>
ArrayConvert(t, v) ==
  IF Kind(v) # "list" THEN Err ELSE ListOf([i \in DOMAIN Num(v) |-> Convert(t[2], Num(v)[i])])

TupleConvert(t, v) ==
  IF Kind(v) # "list" \/ Len(Num(v)) # Len(t[2]) THEN Err
  ELSE ListOf([i \in DOMAIN t[2] |-> Convert(t[2][i], Num(v)[i])])

\* Type.Convert.  All but json, array and tuple answer NULL with NULL
Convert(t, v) ==
  CASE t[1] = "json" -> JSONConvert(v)
    [] t[1] = "array" -> ArrayConvert(t, v)
    [] t[1] = "tuple" -> TupleConvert(t, v)
    [] t[1] = "nulltype" -> IF v = Null THEN Null ELSE Err
    [] t[1] \notin {"json", "array", "tuple", "nulltype"} /\ v = Null -> Null
    [] t[1] = "num" /\ v # Null -> NumberConvert(t[2], v)
    [] t[1] = "string" /\ v # Null -> StringConvert(t, v)
    [] t[1] = "datetime" /\ v # Null -> DatetimeConvert(t[2], v)
    [] t[1] = "timespan" /\ v # Null -> TimeConvert(v)
    [] t[1] = "year" /\ v # Null -> YearConvert(v)
    [] t[1] = "bit" /\ v # Null -> BitConvert(t[2], v)
    [] t[1] = "decimal" /\ v # Null -> DecimalConvert(t, v)
    [] t[1] = "enum" /\ v # Null -> EnumConvert(t, v)
    [] t[1] = "set" /\ v # Null -> SetConvert(t, v)

RECURSIVE Compare(_, _, _)
\* the comparison that decides: the first that is not 0
FirstOf(cs) ==
  LET differ == {i \in DOMAIN cs : cs[i] # SInt(0)} IN IF differ = {} THEN SInt(0) ELSE cs[Min(differ)]

\* the elements of two lists, by length first, up to the first that differ
ListCompare(types, a, b) ==
  IF Failed(a) \/ Failed(b) THEN Err
  ELSE IF Len(Num(a)) # Len(Num(b)) THEN SInt(Sign(Len(Num(a)) - Len(Num(b))))
  ELSE FirstOf([i \in DOMAIN Num(a) |-> Compare(types[i], Num(a)[i], Num(b)[i])])

\* arrayType.Compare and tupleType.Compare.  A NULL is not an array
ListTypes(t, a) == IF t[1] = "array" THEN [i \in DOMAIN Num(a) |-> t[2]] ELSE t[2]
ListConvert(t, v) == IF t[1] = "array" THEN ArrayConvert(t, v) ELSE TupleConvert(t, v)
CompareLists(t, a, b) == ListCompare(ListTypes(t, a), ListConvert(t, a), ListConvert(t, b))

\* Type.Compare: -1, 0 or 1 as an Int, or Err
Compare(t, a, b) ==
  CASE t[1] = "nulltype" -> SInt(0)
    [] t[1] \in {"array", "tuple"} -> CompareLists(t, a, b)
    [] t[1] \notin {"nulltype", "array", "tuple"} /\ Null \in {a, b} -> SInt(compareNulls(a, b))
    [] t[1] = "num" /\ Null \notin {a, b} -> NumberCompare(t[2], a, b)
    [] t[1] = "string" /\ Null \notin {a, b} -> StringCompare(t, a, b)
    [] t[1] = "datetime" /\ Null \notin {a, b} -> DatetimeCompare(t[2], a, b)
    [] t[1] = "timespan" /\ Null \notin {a, b} -> TimeCompare(a, b)
    [] t[1] = "year" /\ Null \notin {a, b} -> YearCompare(a, b)
    [] t[1] = "bit" /\ Null \notin {a, b} -> BitCompare(t[2], a, b)
    [] t[1] = "decimal" /\ Null \notin {a, b} -> DecimalCompare(t, a, b)
    [] t[1] = "enum" /\ Null \notin {a, b} -> EnumCompare(t, a, b)
    [] t[1] = "set" /\ Null \notin {a, b} -> SetCompare(t, a, b)
    [] t[1] = "json" /\ Null \notin {a, b} -> JSONCompare(a, b)

Promote(t) ==
  CASE t[1] = "num" -> <<"num", NumberPromote(t[2])>>
    [] t[1] = "string" -> StringPromote(t)
    [] t[1] = "datetime" -> <<"datetime", DatetimePromote(t[2])>>
    [] t[1] = "bit" -> CreateBitType(W)
    [] t[1] = "decimal" -> CreateDecimalType(DecimalTypeMaxPrecision, t[3])
    [] OTHER -> t

\* Type.SQL: the value on the wire.  timespanType has no case for NULL
SQL(t, v) ==
  CASE t[1] = "year" -> YearSQL(v)
    [] t[1] = "timespan" -> IF v = Null THEN Err ELSE TimeConvert(v)
    [] t[1] = "tuple" -> Err
    [] t[1] \notin {"year", "timespan", "tuple"} /\ v = Null -> Null
    [] t[1] = "nulltype" /\ v # Null -> Null
    [] t[1] = "num" /\ v # Null -> NumberSQL(t[2], v)
    [] t[1] = "datetime" /\ v # Null -> DatetimeSQL(t[2], v)
    [] OTHER -> Convert(t, v)

RECURSIVE Zero(_)
Zero(t) ==
  CASE t[1] = "num" -> NumberZero(t[2])
    [] t[1] = "string" -> Text(<<"str", 0, 0>>)
    [] t[1] = "datetime" -> Time(zeroTime)
    [] t[1] = "timespan" -> Text(<<"clock", FALSE, 0, 0, 0, 0, 0>>)
    [] t[1] = "year" -> SInt(0)
    [] t[1] = "bit" -> UInt(0)
    [] t[1] = "decimal" -> Text(<<"fix", 0>>)
    [] t[1] = "enum" -> Text(<<"words", <<t[2][1]>>>>)
    [] t[1] = "set" -> Text(<<"words", <<>>>>)
    [] t[1] = "json" -> <<"json", StringDoc(0)>>
    [] t[1] = "tuple" -> <<"list", [i \in DOMAIN t[2] |-> Zero(t[2][i])]>>
    [] OTHER -> Null

-----------------------------------------------------------------------------
(* Types and column definitions.  A definition is what the parser hands to *)
(* ColumnTypeToType: [name, unsigned, len, scale, charset, collate, vals], *)
(* where -1 is a length that is not written.                               *)

Def(name) == [name |-> name, unsigned |-> FALSE, len |-> -1, scale |-> -1, charset |-> "", collate |-> "", vals |-> <<>>]

IntegerNames == [tinyint |-> "8", smallint |-> "16", mediumint |-> "24", int |-> "32", bigint |-> "64"]
SignedOf == [tinyint |-> "Int8", smallint |-> "Int16", mediumint |-> "Int24", int |-> "Int32", bigint |-> "Int64"]
UnsignedOf == [tinyint |-> "Uint8", smallint |-> "Uint16", mediumint |-> "Uint24", int |-> "Uint32", bigint |-> "Uint64"]

\* ColumnTypeToType of the types that have a character set, with characters of up
\* to max bytes
CharacterTypeIn(ct, coll, max) ==
  CASE coll = Unsupported \/ (ct.name = "varchar" /\ ct.len = -1) -> Err
    [] coll # Unsupported /\ ct.name = "enum" -> CreateEnumType(ct.vals, coll)
    [] coll # Unsupported /\ ct.name = "set" -> CreateSetType(ct.vals, coll)
    [] OTHER ->
         CreateString(CASE ct.name = "char" -> "Char" [] ct.name = "varchar" -> "VarChar" [] OTHER -> "Text",
                      CASE ct.name = "tinytext" -> tinyTextBlobMax \div max
                        [] ct.name = "mediumtext" -> mediumTextBlobMax \div max
                        [] ct.name = "longtext" -> longTextBlobMax \div max
                        [] ct.name = "text" /\ ct.len = -1 -> textBlobMax \div max
                        [] ct.name = "char" /\ ct.len = -1 -> 1
                        [] OTHER -> ct.len, coll)
CharacterTypeOf(ct, coll) == CharacterTypeIn(ct, coll, MaxLength(CharacterSet(coll)))
CharacterType(ct) == CharacterTypeOf(ct, ParseCollation(ct.charset, ct.collate, FALSE))

CharacterTypeNames == {"tinytext", "text", "mediumtext", "longtext", "char", "varchar", "enum", "set"}
BlobLength == [tinyblob |-> tinyTextBlobMax, mediumblob |-> mediumTextBlobMax, longblob |-> longTextBlobMax]

BinaryType(ct) ==
  CreateString(CASE ct.name = "binary" -> "Binary" [] ct.name = "varbinary" -> "VarBinary" [] OTHER -> "Blob",
               CASE ct.name \in DOMAIN BlobLength -> BlobLength[ct.name]
                 [] ct.name = "blob" /\ ct.len = -1 -> textBlobMax
                 [] ct.name = "binary" /\ ct.len = -1 -> 1
                 [] OTHER -> ct.len, Collation_binary)

ColumnTypeToType(ct) ==
  LET or(n) == IF ct.len = -1 THEN n ELSE ct.len
  IN CASE ct.name \in DOMAIN IntegerNames -> <<"num", IF ct.unsigned THEN UnsignedOf[ct.name] ELSE SignedOf[ct.name]>>
       [] ct.name = "float" -> <<"num", "Float32">>
       [] ct.name = "double" -> <<"num", "Float64">>
       [] ct.name = "decimal" -> CreateDecimalType(or(0), IF ct.scale = -1 THEN 0 ELSE ct.scale)
       [] ct.name = "bit" -> CreateBitType(or(1))
       [] ct.name \in DOMAIN BlobLength \cup {"blob", "binary", "varbinary"} -> BinaryType(ct)
       [] ct.name \in CharacterTypeNames -> CharacterType(ct)
       [] ct.name \in {"date", "datetime", "timestamp"} ->
            <<"datetime", CASE ct.name = "date" -> "Date" [] ct.name = "datetime" -> "Datetime" [] OTHER -> "Timestamp">>
       [] ct.name = "time" -> <<"timespan">>
       [] ct.name \in {"year", "json"} -> <<ct.name>>
       [] OTHER -> Err

\* " CHARACTER SET ..." and " COLLATE ...", which stringType leaves out of a
\* binary type
WithCollation(d, coll, charset) ==
  [d EXCEPT !.charset = IF charset = "utf8mb4" THEN "" ELSE charset,
            !.collate = IF coll = Collation_Default THEN "" ELSE coll]

\* stringType.String
TextSize(bytes) == 1 + Cardinality({n \in {tinyTextBlobMax, textBlobMax, mediumTextBlobMax} : bytes > n})
StringName(base, bytes) ==
  CASE base = "Text" -> <<"tinytext", "text", "mediumtext", "longtext">>[TextSize(bytes)]
    [] base = "Blob" -> <<"tinyblob", "blob", "mediumblob", "longblob">>[TextSize(bytes)]
    [] base = "Char" -> "char" [] base = "Binary" -> "binary"
    [] base = "VarChar" -> "varchar" [] base = "VarBinary" -> "varbinary"
StringDefinition(t, name, charset) ==
  LET d == [Def(name) EXCEPT !.len = IF t[2] \in {"Text", "Blob"} THEN -1 ELSE t[3]]
  IN IF charset = "binary" THEN d ELSE WithCollation(d, t[4], charset)
StringTypeString(t) == StringDefinition(t, StringName(t[2], MaxByteLength(t)), CharacterSet(t[4]))

\* numberTypeImpl.String
NumberTypeString(b) ==
  IF b \in FloatBase THEN Def(IF b = "Float32" THEN "float" ELSE "double")
  ELSE LET name == CHOOSE n \in DOMAIN IntegerNames : b \in {SignedOf[n], UnsignedOf[n]}
       IN [Def(name) EXCEPT !.unsigned = b \in DOMAIN UnsignedBase]

\* setType.String joins the members with commas inside one pair of quotes, so
\* that the definition reads back as one member that holds a comma
JoinedMembers(vals) == IF Len(vals) = 1 THEN vals ELSE <<<<0, 0, 0>>>>

\* Type.String, for the types a column can have
TypeString(t) ==
  CASE t[1] = "num" -> NumberTypeString(t[2])
    [] t[1] = "string" -> StringTypeString(t)
    [] t[1] = "decimal" -> [Def("decimal") EXCEPT !.len = t[2], !.scale = t[3]]
    [] t[1] = "bit" -> [Def("bit") EXCEPT !.len = t[2]]
    [] t[1] \in {"enum", "set"} ->
         WithCollation([Def(t[1]) EXCEPT !.vals = IF t[1] = "set" THEN JoinedMembers(t[2]) ELSE t[2]], t[3], CharacterSet(t[3]))
    [] t[1] = "datetime" -> Def(CASE t[2] = "Date" -> "date" [] t[2] = "Datetime" -> "datetime" [] OTHER -> "timestamp")
    [] t[1] = "timespan" -> Def("time")
    [] OTHER -> Def(t[1])

-----------------------------------------------------------------------------
(* A column: created from a definition, written by INSERT and UPDATE, read *)
(* by SELECT and widened where an expression promotes its type.            *)

CONSTANTS Definitions,    \* column definitions
          Inputs(_)       \* the values statements write to a column of a type

VARIABLES typ,            \* the column's type
          val,            \* the value stored in it
          from            \* what was written

typesVars == <<typ, val, from, machine>>

TypesInit ==
  /\ typ \in {ColumnTypeToType(d) : d \in Definitions} \ {Err}
  /\ val = Null /\ from = Null /\ machine \in Machines

\* INSERT or UPDATE: the value is converted to the column's type
Store(v, c) ==
  /\ ~Failed(c)
  /\ val' = c /\ from' = v
  /\ UNCHANGED <<typ, machine>>
Write(v) == Store(v, Convert(typ, v))

\* the column in an expression that promotes its type, which converts what is
\* stored
Widen ==
  /\ Promote(typ) # typ
  /\ typ' = Promote(typ) /\ val' = Convert(Promote(typ), val) /\ from' = val
  /\ UNCHANGED machine

TypesNext == Widen \/ \E v \in Inputs(typ) : Write(v)

-----------------------------------------------------------------------------
Stored(t) == {c \in {Convert(t, v) : v \in Inputs(t)} : ~Failed(c)}

\* the numeric value of a number, in quarters
Quarters(v) == IF Kind(v) = "float" THEN Num(v) ELSE One * Num(v)

\* a fraction of a second whose text has a leading zero, which
\* stringToTimespan reads as a larger one
ZeroLed(v) == Kind(v) = "text" /\ Num(v)[1] = "clock" /\ Num(v)[7] # 0 /\ Num(v)[7] < microsecondsPerSecond \div 10

\* an unsigned value that int64 cannot hold, and a signed type narrower than it
Wraps(t, v) == Kind(v) = "uint" /\ Num(v) >= 2^(W - 1) /\ t[2] \in DOMAIN SignedBase

\* a float that the 64 bit integer of the type cannot hold: the machine chooses
MachineCuts(t, v) ==
  /\ Kind(v) = "float"
  /\ ~Finite(Num(v)) \/ Trunc(Num(v), One) \notin (IF t[2] \in DOMAIN SignedBase THEN -(2^(W - 1))..(2^(W - 1) - 1) ELSE 0..(2^W - 1))

\* the integers of a type
IntegersOf(b) ==
  IF b \in DOMAIN SignedBase THEN -(2^(SignedBase[b] - 1))..(2^(SignedBase[b] - 1) - 1) ELSE 0..(2^UnsignedBase[b] - 1)

\* a number of m digits, and one that no other is nearer to h than
HasDigits(h, m) == \E k \in 0..20 : h % 2^k = 0 /\ Abs(h) \div 2^k < 2^m
IsNearest(f, h, m) ==
  /\ HasDigits(f, m)
  /\ \A d \in 0..(Abs(f - h) - 1) : ~HasDigits(h - d, m) /\ ~HasDigits(h + d, m)

\* what a column of numbers keeps of the number v that was written
KeepsNumber(b, v) ==
  CASE b \notin FloatBase /\ (Wraps(typ, v) \/ MachineCuts(typ, v)) -> Num(val) \in IntegersOf(b)
    [] b \notin FloatBase /\ ~Wraps(typ, v) /\ ~MachineCuts(typ, v) -> Num(val) \in IntegersOf(b) /\ Num(val) = Trunc(Quarters(v), One)
    [] Kind(v) = "float" /\ b = "Float64" -> val = v
    [] Kind(v) # "float" /\ b = "Float64" -> IsNearest(Num(val), Quarters(v), Mantissa.f64)
    [] OTHER -> val = NaN \/ IsNearest(Num(val), Num(NumberConvert("Float64", v)), Mantissa.f32)

\* an integer in a document that a float64 does not hold: reading it changes it
Inexact == typ = <<"json">> /\ Kind(from) \in {"int", "uint"} /\ ~HasDigits(One * Num(from), Mantissa.f64)

\* the value converted again, promoted, and sent to the client
StaysStored(again, wide, sent) ==
  /\ again = val \/ ZeroLed(val) \/ (typ = <<"json">> /\ val = Null) \/ Inexact
  /\ Inexact => Convert(typ, again) = again
  /\ typ[1] # "nulltype" => Compare(typ, val, val) = SInt(0) \/ val = NaN
  /\ ~Failed(wide)
  /\ Compare(Promote(typ), wide, val) = SInt(0) \/ (typ[1] = "string" /\ typ[2] = "Binary") \/ ZeroLed(val) \/ val = NaN
       \/ (typ = <<"json">> /\ val = Null) \/ Inexact
  /\ (typ[1] = "num" /\ Kind(from) \in {"int", "uint", "float"}) => KeepsNumber(typ[2], from)
  /\ \/ sent = val \/ (Inexact /\ sent = again)
     \/ typ[1] = "datetime" /\ ~Failed(sent) /\ (val # Null => DatetimeConvert(typ[2], sent) = val)
     \/ typ[1] = "num" /\ val # Null /\ (Quarters(sent) = Quarters(val) \/ (typ[2] = "Int24" /\ Num(val) < 0))
     \/ typ[1] \in {"timespan", "year"} /\ val = Null
     \/ ZeroLed(val)

\* A stored value is a value of its column: converting it again, comparing it
\* with itself and promoting the column leave it as it is, and what is sent to
\* the client is what is stored.  A number that is accepted is the number that
\* was written: cut to an integer and within the width of the type, the nearest
\* float64 in a DOUBLE, the nearest float32 of that in a FLOAT.  The exceptions
\* are the code's: an unsigned value that the cast to int64 wraps and a float
\* that no 64 bit integer holds become some integer of the type; NaN is not
\* equal to itself; a document with an integer that a float64 does not hold is
\* another when it is read; a time with a zero led fraction; a negative
\* MEDIUMINT; a NULL TIME or YEAR; and a NULL that jsonType turns into the
\* document null.
StoredValue == StaysStored(Convert(typ, val), Convert(Promote(typ), val), SQL(typ, val))

\* a total order, from the comparisons of all pairs
TotalOrder(vs, cmp) ==
  \A a \in vs :
    /\ Num(cmp[Null, a]) <= 0
    /\ \A b \in vs :
         /\ ~Failed(cmp[a, b])
         /\ Num(cmp[a, b]) = -Num(cmp[b, a])
         /\ \A c \in vs : Num(cmp[a, b]) <= 0 /\ Num(cmp[b, c]) <= 0 => Num(cmp[a, c]) <= 0
TotallyOrdered(vs) == TotalOrder(vs, [a, b \in vs |-> Compare(typ, a, b)])

\* the collations that can be written with a character set
CollationsAgree(cs) ==
  \A c \in CollationNames \cup {""} : \A b \in BOOLEAN :
    LET coll == ParseCollation(cs, c, b) IN coll = Unsupported \/ CharacterSet(coll) = cs

\* SHOW CREATE TABLE prints a type from which the same type is created, but for
\* a SET of several members; a collation written with a character set is one of
\* that character set; the zero value of the type is one of its values (a
\* BINARY is padded, an array has none); and Compare orders the values of a
\* column totally with NULL first, as sorts and index lookups need, unless a NaN
\* is among them
TypeIsSound ==
  val = Null =>
    /\ ColumnTypeToType(TypeString(typ)) = typ \/ (typ[1] = "set" /\ Len(typ[2]) > 1)
    /\ typ[1] \in {"string", "enum", "set"} => CollationsAgree(CharacterSet(typ[Len(typ)]))
    /\ Convert(typ, Zero(typ)) = Zero(typ) \/ (typ[1] = "string" /\ typ[2] = "Binary")
    /\ TotallyOrdered((Stored(typ) \ {NaN}) \cup {Null})
=============================================================================
