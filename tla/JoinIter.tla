----------------------------- MODULE JoinIter -----------------------------
(***************************************************************************)
(* The nested loop join (sql/plan/join.go): joinIter serves inner, left    *)
(* and right joins and decides while it runs whether the secondary side    *)
(* fits in memory.  Every step is one turn of the loop in Next.  The       *)
(* memory that is available is up to the rest of the process, so every     *)
(* look at it (sql/memory.go, sql/cache.go) may have either answer.        *)
(*                                                                         *)
(* Rows are numbers: the left side has rows 1..nl, the right side 1..nr,   *)
(* and matching holds the pairs for which the condition is true.  0 stands *)
(* for the NULLs of an outer join.                                         *)
(***************************************************************************)
EXTENDS Integers, Sequences

CONSTANTS
  MaxLeft, MaxRight, \* bounds on the numbers of rows
  MaxOut,            \* bound on the rows that are asked for
  MaxPasses          \* passes are counted up to here

VARIABLES
  nl, nr, matching, typ, \* the two sides, the condition and the join type
  mode,               \* i.mode
  primaryRow,         \* i.primaryRow, 0 is nil
  taken,              \* rows read from the primary iterator
  foundMatch,         \* i.foundMatch
  secondary,          \* i.secondary: rows read from it, -1 when nil
  passes,             \* RowIter calls on the secondary side
  rows, rowsPos,      \* i.secondaryRows and i.pos
  disposed,           \* the cache was given back to the memory manager
  lost,               \* history: Add found no memory for a row, which nobody noticed
  joined,             \* what Next has returned
  res                 \* "ok" | "eof" | "err"

input == <<nl, nr, matching, typ>>
joinVars == <<input, mode, primaryRow, taken, foundMatch, secondary, passes, rows, rowsPos, disposed,
              lost, joined, res>>

PrimaryLen == IF typ = "right" THEN nr ELSE nl
SecondaryLen == IF typ = "right" THEN nl ELSE nr

\* joinRowIter
JoinInit ==
  /\ nl \in 0..MaxLeft /\ nr \in 0..MaxRight
  /\ matching \in SUBSET ((1..nl) \X (1..nr))
  /\ typ \in {"inner", "left", "right"} /\ mode \in {"unknown", "memory"}
  /\ primaryRow = 0 /\ taken = 0 /\ foundMatch = FALSE
  /\ secondary = -1 /\ passes = 0
  /\ rows = <<>> /\ rowsPos = 0 /\ disposed = FALSE /\ lost = FALSE
  /\ joined = <<>> /\ res = "ok"

Running == res = "ok" /\ Len(joined) < MaxOut

Pass == passes' = IF passes < MaxPasses THEN passes + 1 ELSE passes

BuildRow(p, s) == IF typ = "right" THEN <<s, p>> ELSE <<p, s>>

-----------------------------------------------------------------------------
\* loadPrimary: the next row, or io.EOF
loadPrimary ==
  /\ Running /\ primaryRow = 0
  /\ \/ /\ taken < PrimaryLen
        /\ taken' = taken + 1 /\ primaryRow' = taken + 1
        /\ foundMatch' = FALSE
        /\ UNCHANGED <<disposed, rows, res>>
     \/ /\ taken = PrimaryLen
        /\ disposed' = TRUE /\ rows' = <<>> /\ res' = "eof"
        /\ UNCHANGED <<taken, primaryRow, foundMatch>>
     \/ /\ res' = "err"
        /\ UNCHANGED <<taken, primaryRow, foundMatch, disposed, rows>>
  /\ UNCHANGED <<input, mode, secondary, passes, rowsPos, lost, joined>>

\* mutant: foundMatch is not looked at
OuterRowAlways(p) == IF typ # "inner" THEN Append(joined, BuildRow(p, 0)) ELSE joined

\* Next, when loadSecondary has returned io.EOF for row p
OuterRow(p) ==
  IF ~foundMatch /\ typ # "inner" THEN Append(joined, BuildRow(p, 0)) ELSE joined

\* Next, when loadSecondary has returned row s
Joined(s) ==
  LET r == BuildRow(primaryRow, s) IN
  \/ /\ r \in matching
     /\ foundMatch' = TRUE /\ joined' = Append(joined, r)
     /\ UNCHANGED res
  \/ r \notin matching /\ UNCHANGED <<foundMatch, joined, res>>
  \/ res' = "err" /\ UNCHANGED <<foundMatch, joined>>

\* loadSecondaryInMemory: the whole side, io.EOF when it is empty (and then
\* primaryRow stays), or an error when a row finds no memory
LoadInMemory ==
  /\ Running /\ primaryRow # 0 /\ mode = "memory" /\ rows = <<>>
  /\ Pass
  /\ \/ /\ SecondaryLen > 0
        /\ rows' = [s \in 1..SecondaryLen |-> s]
        /\ UNCHANGED <<joined, res>>
     \/ /\ SecondaryLen = 0
        /\ joined' = OuterRow(primaryRow)
        /\ UNCHANGED <<rows, res>>
     \/ /\ res' = "err"
        /\ \E n \in 0..(SecondaryLen - 1) : rows' = [s \in 1..n |-> s]
        /\ UNCHANGED joined
  /\ UNCHANGED <<input, mode, primaryRow, taken, foundMatch, secondary, rowsPos, disposed, lost>>

\* mutant: the primary row is kept at the end of the cache
NextInMemoryKeep ==
  /\ Running /\ primaryRow # 0 /\ mode = "memory" /\ rows # <<>>
  /\ \/ /\ rowsPos >= Len(rows)
        /\ rowsPos' = 0
        /\ joined' = OuterRow(primaryRow)
        /\ UNCHANGED <<primaryRow, foundMatch, res>>
     \/ /\ rowsPos < Len(rows)
        /\ Joined(rows[rowsPos + 1])
        /\ rowsPos' = rowsPos + 1
        /\ UNCHANGED primaryRow
  /\ UNCHANGED <<input, mode, taken, secondary, passes, rows, disposed, lost>>

\* loadSecondary in memory mode
NextInMemory ==
  /\ Running /\ primaryRow # 0 /\ mode = "memory" /\ rows # <<>>
  /\ \/ /\ rowsPos >= Len(rows)
        /\ primaryRow' = 0 /\ rowsPos' = 0
        /\ joined' = OuterRow(primaryRow)
        /\ UNCHANGED <<foundMatch, res>>
     \/ /\ rowsPos < Len(rows)
        /\ Joined(rows[rowsPos + 1])
        /\ rowsPos' = rowsPos + 1
        /\ UNCHANGED primaryRow
  /\ UNCHANGED <<input, mode, taken, secondary, passes, rows, disposed, lost>>

\* loadSecondary asks the secondary side for an iterator
OpenSecondary ==
  /\ Running /\ primaryRow # 0 /\ mode # "memory" /\ secondary = -1
  /\ \/ secondary' = 0 /\ Pass /\ UNCHANGED res
     \/ res' = "err" /\ UNCHANGED <<secondary, passes>>
  /\ UNCHANGED <<input, mode, primaryRow, taken, foundMatch, rows, rowsPos, disposed, lost, joined>>

\* the end of a pass: in unknown mode the side has fitted in memory
EndOfPass ==
  /\ Running /\ primaryRow # 0 /\ mode # "memory" /\ secondary = SecondaryLen
  /\ secondary' = -1 /\ primaryRow' = 0
  /\ mode' = IF mode = "unknown" THEN "memory" ELSE mode
  /\ joined' = OuterRow(primaryRow)
  /\ UNCHANGED <<input, taken, foundMatch, passes, rows, rowsPos, disposed, lost, res>>

\* in unknown mode the row goes to the cache; without memory the cache is given
\* up, and a row for which Add finds no memory is left out of the cache
KeepOrSwitch(s) ==
  \/ rows' = Append(rows, s) /\ UNCHANGED <<mode, disposed, lost>>
  \/ rows' = <<>> /\ disposed' = TRUE /\ mode' = "multipass" /\ UNCHANGED lost
  \/ lost' = TRUE /\ UNCHANGED <<rows, mode, disposed>>

NextSecondary ==
  /\ Running /\ primaryRow # 0 /\ mode # "memory" /\ secondary \in 0..(SecondaryLen - 1)
  /\ secondary' = secondary + 1
  /\ IF mode = "unknown" THEN KeepOrSwitch(secondary + 1)
     ELSE UNCHANGED <<rows, mode, disposed, lost>>
  /\ Joined(secondary + 1)
  /\ UNCHANGED <<input, primaryRow, taken, passes, rowsPos>>

SecondaryFails ==
  /\ Running /\ primaryRow # 0 /\ mode # "memory" /\ secondary # -1
  /\ res' = "err"
  /\ UNCHANGED <<input, mode, primaryRow, taken, foundMatch, secondary, passes, rows, rowsPos,
                 disposed, lost, joined>>

JoinNext ==
  \/ loadPrimary \/ LoadInMemory \/ NextInMemory
  \/ OpenSecondary \/ EndOfPass \/ NextSecondary \/ SecondaryFails

JoinSpec == JoinInit /\ [][JoinNext]_joinVars

-----------------------------------------------------------------------------
JoinTypeOK ==
  /\ nl \in Nat /\ nr \in Nat /\ matching \subseteq (1..nl) \X (1..nr)
  /\ typ \in {"inner", "left", "right"} /\ mode \in {"unknown", "memory", "multipass"}
  /\ primaryRow \in 0..PrimaryLen /\ taken \in 0..PrimaryLen
  /\ foundMatch \in BOOLEAN /\ disposed \in BOOLEAN /\ lost \in BOOLEAN
  /\ secondary \in -1..SecondaryLen /\ passes \in Nat
  /\ rows \in Seq(1..SecondaryLen) /\ rowsPos \in 0..Len(rows)
  /\ joined \in Seq((0..nl) \X (0..nr))
  /\ res \in {"ok", "eof", "err"}

Primary(r) == IF typ = "right" THEN r[2] ELSE r[1]
Secondary(r) == IF typ = "right" THEN r[1] ELSE r[2]

\* The rows of the join as SQL defines it: the pairs that match, and in an outer
\* join each primary row alone that matches nothing; and their order, which is the
\* order of the primary side
Unmatched == {p \in 1..PrimaryLen : \A s \in 1..SecondaryLen : BuildRow(p, s) \notin matching}
JoinRows == matching \cup (IF typ = "inner" THEN {} ELSE {BuildRow(p, 0) : p \in Unmatched})
Precedes(r, q) ==
  \/ Primary(r) < Primary(q)
  \/ Primary(r) = Primary(q) /\ Secondary(r) < Secondary(q)

Returned == {joined[i] : i \in DOMAIN joined}

\* The two cases that joinIter gets wrong: a secondary side without rows, which
\* loadSecondaryInMemory reports like the end of a pass, and a row for which Add
\* finds no memory, whose error is ignored.
Sound == SecondaryLen > 0 /\ ~lost

InOrder == \A i, j \in DOMAIN joined : i < j => Precedes(joined[i], joined[j])
FirstOnes ==
  Returned \subseteq JoinRows /\ \A r \in JoinRows, q \in Returned : Precedes(r, q) => r \in Returned
AllOnes == res = "eof" => Returned = JoinRows

\* one pass over the secondary side, or in multipass mode one for each primary row
PassesBounded == IF mode = "multipass" THEN passes <= taken ELSE passes <= 1

\* Whatever memory does in the meantime, and wherever the mode is decided, Next
\* has returned the first rows of the join, in order, and nothing else, io.EOF comes
\* after the last of them (joinIter.Next), and the secondary side has not been read
\* more often than the mode calls for, except in the two cases above.
JoinIsCorrect == Sound => InOrder /\ FirstOnes /\ AllOnes /\ PassesBounded

\* A caller that goes on asking comes to the end of the result or to an error,
\* also when rows were left out of the cache.
JoinEnds == SecondaryLen > 0 => <>(res # "ok")

-----------------------------------------------------------------------------
(***************************************************************************)
(* The inductive invariant                                                 *)
(***************************************************************************)
\* A primary row is the last one taken; between primary rows nothing is open
RowTaken ==
  /\ primaryRow \in {0, taken}
  /\ primaryRow = 0 => rowsPos = 0 /\ (res = "ok" => secondary = -1)
  /\ mode # "memory" => rowsPos = 0
  /\ mode = "memory" => secondary = -1

\* Secondary rows that the primary row has been compared with
Seen == IF mode = "memory" THEN rowsPos ELSE IF secondary = -1 THEN 0 ELSE secondary

\* The rows of the join that the comparisons so far have given
Passed(r) ==
  \/ Primary(r) < taken
  \/ Primary(r) = taken /\ (primaryRow = 0 \/ Secondary(r) \in 1..Seen)

\* The cache, while no row was lost: it has the rows of the first pass
Cached ==
  /\ mode = "unknown" => /\ Len(rows) = Seen /\ taken <= 1
                         /\ secondary = -1 => passes = 0 /\ primaryRow = taken
  /\ mode = "memory" => IF rows = <<>> THEN passes = 0 ELSE Len(rows) = SecondaryLen
  /\ \A i \in DOMAIN rows : rows[i] = i

\* Multipass has a pass for each primary row that has been begun
Begun == mode = "multipass" /\ primaryRow # 0 /\ secondary = -1 => passes < taken

Returns == \A r \in JoinRows : r \in Returned <=> Passed(r)
Found == primaryRow # 0 => foundMatch = \E s \in 1..Seen : BuildRow(primaryRow, s) \in matching

JoinInv ==
  /\ RowTaken
  /\ Sound /\ res = "ok" => Cached /\ Begun /\ Returns /\ Found
  /\ JoinIsCorrect
=============================================================================
