CONSTANTS
 Bits <- B
 Mantissa <- M
 charBinaryMax = 9
 varcharVarbinaryMax = 33
 mediumTextBlobMax = 65
 longTextBlobMax = 127
 MicroDigits = 2
 DecimalTypeMaxPrecision = 5
 DecimalTypeMaxScale = 2
 DecimalDefaultPrecision = 4
 MinDatetime = 48
 MaxDatetime = 90000
 MinTimestamp = 97
 MaxTimestamp = 144
 MaxDuration = 512
 Leaves <- MCLeaves
 Above <- MCAbove
 Levels = 2
 Rows <- MCRows
 SubqueryRows <- MCSub
 Definitions <- MCDefs
 Inputs <- MCInputs
 Base64Line = 8
 SniffLen = 4
 Clock <- MCClock
 Context <- MCContext
 Arguments <- MCArguments
 Others <- MCOthers
 Depth = 2
SPECIFICATION Spec
INVARIANTS StoredValue TypeIsSound Declared PredicatesAgree SubqueryStable FunctionLaws CalendarLaws
CHECK_DEADLOCK FALSE
