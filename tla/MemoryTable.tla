---------------------------- MODULE MemoryTable ----------------------------
(***************************************************************************)
(* The in-memory table (memory/table.go) under the statements that change  *)
(* it: INSERT, REPLACE, INSERT ... SELECT (sql/plan/insert.go), UPDATE     *)
(* (sql/plan/update.go) and DELETE (sql/plan/delete.go).  A statement      *)
(* reads its rows with an iterator over the same slices that its editor    *)
(* changes, one row per step.                                              *)
(*                                                                         *)
(* A partition is a Go slice: an array and a length.  The iterator of a    *)
(* partition keeps the array and the length of the moment it was opened,   *)
(* so it sees what the editor writes into the array.  A row has one        *)
(* column, a number; where is the set of rows that the WHERE clause takes, *)
(* and UPDATE sets the column to a constant or adds one to it.             *)
(***************************************************************************)
EXTENDS Integers, Sequences, FiniteSets, FiniteSetsExt

CONSTANTS
  NumPartitions, \* partitions of the table
  MaxValue,      \* rows are 0..MaxValue
  MaxRows,       \* rows of a partition in the initial state
  MaxStmts,      \* statements in a behaviour
  Kinds          \* which statements

ASSUME PartitionsAssumption == NumPartitions \in Nat \ {0}
ASSUME BoundsAssumption == MaxValue \in Nat /\ MaxRows \in Nat

Parts == 1..NumPartitions
Values == 0..MaxValue

VARIABLES
  arr,    \* arr[p]: the array of t.partitions[p]
  len,    \* len[p]: the length of the slice
  insert, \* t.insert, from 1
  stmt,   \* the statement in progress
  before, \* the table when the statement began
  stmts   \* statements begun

vars == <<arr, len, insert, stmt, before, stmts>>

NoStmt == [kind |-> "none", where |-> {}, source |-> <<>>, keys |-> {}, part |-> 0,
           pos |-> 0, n |-> 0, count |-> 0, matched |-> 0, undisturbed |-> TRUE,
           res |-> "ok"]

\* A table as a function from places to rows, and how many of its rows are in V
Places(n) == UNION {{p} \X (1..n[p]) : p \in Parts}
TableOf(a, n) == [x \in Places(n) |-> a[x[1]][x[2]]]
Number(t, V) == Cardinality({x \in DOMAIN t : t[x] \in V})

Table == TableOf(arr, len)

\* NewPartitionedTable, filled by tests or by earlier statements
Init ==
  /\ arr \in [Parts -> UNION {[1..n -> Values] : n \in 0..MaxRows}]
  /\ len = [p \in Parts |-> Len(arr[p])]
  /\ insert \in Parts
  /\ stmt = NoStmt /\ before = Table
  /\ stmts = 0

-----------------------------------------------------------------------------
(***************************************************************************)
(* tableEditor                                                             *)
(***************************************************************************)
At(p, row) == {j \in 1..len[p] : arr[p][j] = row}

\* the partitions in which Delete and Update may find the row: they range over
\* the map of partitions, in any order, and take the first such row of the first
\* partition that has one
Holding(row) == {p \in Parts : At(p, row) # {}}
FirstIndex(p, row) == Min(At(p, row))

\* mutant: the row that follows is lost as well
ShiftedTwice(a, n, j) == [k \in DOMAIN a |-> IF k \in j..(n - 2) THEN a[k + 2] ELSE a[k]]

\* append(partition[:j], partition[j+1:]...) moves the rest within the array
Shifted(a, n, j) == [k \in DOMAIN a |-> IF k \in j..(n - 1) THEN a[k + 1] ELSE a[k]]

\* append(t.table.partitions[key], row)
Appended(a, n, row) == SubSeq(a, 1, n) \o <<row>> \o SubSeq(a, n + 2, Len(a))

NextInsert == IF insert = NumPartitions THEN 1 ELSE insert + 1

Insert(row) ==
  /\ arr' = [arr EXCEPT ![insert] = Appended(@, len[insert], row)]
  /\ len' = [len EXCEPT ![insert] = @ + 1]
  /\ insert' = NextInsert

Delete(p, row) ==
  /\ arr' = [arr EXCEPT ![p] = Shifted(@, len[p], FirstIndex(p, row))]
  /\ len' = [len EXCEPT ![p] = @ - 1]

\* Delete and then Insert
Replace(p, row) ==
  LET a == [arr EXCEPT ![p] = Shifted(@, len[p], FirstIndex(p, row))]
      n == [len EXCEPT ![p] = @ - 1]
  IN /\ arr' = [a EXCEPT ![insert] = Appended(@, n[insert], row)]
     /\ len' = [n EXCEPT ![insert] = @ + 1]
     /\ insert' = NextInsert

\* a row that is no longer there is passed over without an error
Update(row, new) ==
  arr' \in IF Holding(row) = {} THEN {arr}
           ELSE {[arr EXCEPT ![p][FirstIndex(p, row)] = new] : p \in Holding(row)}

-----------------------------------------------------------------------------
(***************************************************************************)
(* Statements                                                              *)
(***************************************************************************)
Running == stmt.kind # "none"
Reads == stmt.kind \in {"delete", "update", "insertSelect"}

(***************************************************************************)
(* The statements that the in-place edits do not disturb: a DELETE of at   *)
(* most one row of a partition, and no two equal rows; an UPDATE of a      *)
(* table without equal rows, or with one partition in use; an INSERT ...   *)
(* SELECT from a table with one partition in use.  A history of the        *)
(* statement, which the code does not keep.                                *)
(***************************************************************************)
OnePartition(t) == \A x, y \in DOMAIN t : x[1] = y[1]
NoneEqual(t, V) == \A x, y \in DOMAIN t : t[x] \in V /\ t[x] = t[y] => x = y
OneEach(t, V) ==
  \A x, y \in DOMAIN t : t[x] \in V /\ t[y] \in V /\ x[1] = y[1] => x = y

Undisturbed(k, w) ==
  \/ k \in {"insert", "replace"}
  \/ k = "delete" /\ OneEach(Table, w) /\ NoneEqual(Table, w)
  \/ k = "update" /\ (OnePartition(Table) \/ NoneEqual(Table, Values))
  \/ k = "insertSelect" /\ OnePartition(Table)

\* Execute up to its loop: Table.Partitions lists the partitions that have rows
Begin(k, w, src) ==
  /\ ~Running /\ stmts < MaxStmts
  /\ stmts' = stmts + 1
  /\ before' = Table
  /\ stmt' = [NoStmt EXCEPT !.kind = k, !.where = w, !.source = src, !.n = Len(src),
                            !.undisturbed = Undisturbed(k, w),
                            !.keys = IF k \in {"insert", "replace"} THEN {}
                                     ELSE {p \in Parts : len[p] > 0}]
  /\ UNCHANGED <<arr, len, insert>>

\* the next partition of the partitionIter, which has them in order, and PartitionRows
NextPartition == Min(stmt.keys)

OpenPartition ==
  /\ Running /\ stmt.part = 0 /\ stmt.keys # {}
  /\ stmt' = [stmt EXCEPT !.part = NextPartition, !.keys = @ \ {NextPartition}, !.pos = 0,
                          !.n = len[NextPartition]]
  /\ UNCHANGED <<arr, len, insert, before, stmts>>

EndPartition ==
  /\ Running /\ stmt.part # 0 /\ stmt.pos = stmt.n
  /\ stmt' = [stmt EXCEPT !.part = 0]
  /\ UNCHANGED <<arr, len, insert, before, stmts>>

\* tableIter.getRow
HasRow == Running /\ stmt.part # 0 /\ stmt.pos < stmt.n
Row == arr[stmt.part][stmt.pos + 1]
Advance(c) == stmt' = [stmt EXCEPT !.pos = @ + 1, !.count = @ + c]

\* the Filter between the table and the statement
SkipRow ==
  /\ HasRow /\ Row \notin stmt.where
  /\ Advance(0)
  /\ UNCHANGED <<arr, len, insert, before, stmts>>

\* DeleteFrom.Execute; a row that is not found ends the statement with an error
DeleteRow ==
  /\ HasRow /\ Row \in stmt.where /\ stmt.kind = "delete"
  /\ \/ \E p \in Holding(Row) : Delete(p, Row) /\ Advance(1)
     \/ /\ Holding(Row) = {}
        /\ stmt' = [NoStmt EXCEPT !.res = "err", !.undisturbed = stmt.undisturbed]
        /\ UNCHANGED <<arr, len>>
  /\ UNCHANGED <<insert, before, stmts>>

\* Update.applyUpdates: SET x = c, or SET x = x + 1 when there is no c
ApplyUpdates(row) == IF stmt.source = <<>> THEN row + 1 ELSE stmt.source[1]

\* Update.Execute: a row that would not change is only matched, any other counts as
\* updated whether or not Update finds it
UpdateRow ==
  /\ HasRow /\ Row \in stmt.where /\ stmt.kind = "update"
  /\ LET new == ApplyUpdates(Row)
     IN /\ IF new = Row THEN UNCHANGED arr ELSE Update(Row, new)
        /\ stmt' = [stmt EXCEPT !.pos = @ + 1, !.matched = @ + 1,
                                !.count = IF new = Row THEN @ ELSE @ + 1]
  /\ UNCHANGED <<len, insert, before, stmts>>

\* InsertInto.Execute with a SELECT over the same table
InsertSelected ==
  /\ HasRow /\ Row \in stmt.where /\ stmt.kind = "insertSelect"
  /\ Insert(Row)
  /\ Advance(1)
  /\ UNCHANGED <<before, stmts>>

HasValue == Running /\ ~Reads /\ stmt.pos < stmt.n
Value == stmt.source[stmt.pos + 1]

\* InsertInto.Execute with VALUES
InsertValue ==
  /\ HasValue /\ stmt.kind = "insert"
  /\ Insert(Value)
  /\ Advance(1)
  /\ UNCHANGED <<before, stmts>>

\* mutant: the row is not deleted first
ReplaceInserts ==
  /\ HasValue /\ stmt.kind = "replace"
  /\ Insert(Value)
  /\ Advance(IF Holding(Value) = {} THEN 1 ELSE 2)
  /\ UNCHANGED <<before, stmts>>

\* REPLACE: a row that was there counts twice
ReplaceValue ==
  /\ HasValue /\ stmt.kind = "replace"
  /\ \/ \E p \in Holding(Value) : Replace(p, Value) /\ Advance(2)
     \/ Holding(Value) = {} /\ Insert(Value) /\ Advance(1)
  /\ UNCHANGED <<before, stmts>>

Finished ==
  /\ Running
  /\ IF Reads THEN stmt.part = 0 /\ stmt.keys = {} ELSE stmt.pos = stmt.n

\* a row whose values cannot be read, converted or stored ends the statement; what
\* it has changed stays changed
Fail ==
  /\ HasRow \/ HasValue
  /\ stmt' = [NoStmt EXCEPT !.res = "failed"]
  /\ UNCHANGED <<arr, len, insert, before, stmts>>

End ==
  /\ Finished
  /\ stmt' = NoStmt
  /\ UNCHANGED <<arr, len, insert, before, stmts>>

\* the rows to which one can be added
Updatable == SUBSET (0..(MaxValue - 1))

Next ==
  \/ \E k \in Kinds \cap {"delete", "insertSelect"}, w \in SUBSET Values : Begin(k, w, <<>>)
  \/ \E k \in Kinds \cap {"update"}, w \in Updatable : Begin(k, w, <<>>)
  \/ \E k \in Kinds \cap {"update"}, w \in SUBSET Values, c \in Values : Begin(k, w, <<c>>)
  \/ \E k \in Kinds \cap {"insert", "replace"}, a, b \in Values : Begin(k, {}, <<a, b>>)
  \/ OpenPartition \/ EndPartition \/ SkipRow \/ DeleteRow \/ UpdateRow \/ InsertSelected
  \/ InsertValue \/ ReplaceValue \/ Fail \/ End

Spec == Init /\ [][Next]_vars

-----------------------------------------------------------------------------
(***************************************************************************)
(* Properties                                                              *)
(***************************************************************************)
Statements ==
  [kind : {"none", "insert", "replace", "delete", "update", "insertSelect"},
   where : SUBSET Values, source : Seq(Values), keys : SUBSET Parts, part : 0..NumPartitions,
   pos : Nat, n : Nat, count : Nat, matched : Nat, undisturbed : BOOLEAN,
   res : {"ok", "err", "failed"}]

\* The slices are within their arrays, insert names a partition, and an iterator
\* stays within the array it was opened on.
TypeOK ==
  /\ arr \in [Parts -> Seq(Values)] /\ len \in [Parts -> Nat]
  /\ \A p \in Parts : len[p] <= Len(arr[p])
  /\ insert \in Parts /\ stmts \in Nat
  /\ stmt \in Statements /\ stmt.pos <= stmt.n
  /\ stmt.part # 0 => stmt.n <= Len(arr[stmt.part])

\* How often row v is in the table now, was in it when the statement began and was
\* then selected; how often it is among the VALUES
Occurs(v) == Number(Table, {v})
Before(v) == Number(before, {v})
Selected(v) == IF v \in stmt.where THEN Before(v) ELSE 0
Given(v) == Cardinality({i \in DOMAIN stmt.source : stmt.source[i] = v})

\* the rows that become v, and those that an UPDATE changes
Becoming(v) == {u \in stmt.where : ApplyUpdates(u) = v}
Changed == {u \in stmt.where : ApplyUpdates(u) # u}

\* The rows that each statement should leave behind
Expected(v) ==
  CASE stmt.kind = "delete" -> Before(v) - Selected(v)
    [] stmt.kind = "update" -> Before(v) - Selected(v) + Number(before, Becoming(v))
    [] stmt.kind = "insertSelect" -> Before(v) + Selected(v)
    [] stmt.kind = "insert" -> Before(v) + Given(v)
    [] stmt.kind = "replace" -> IF Before(v) = 0 /\ Given(v) > 0 THEN 1 ELSE Before(v)

\* and how many changes it should report: a REPLACE two for each of its rows, but
\* one for a row that was not there
ExpectedCount ==
  CASE stmt.kind = "update" -> Number(before, Changed)
    [] stmt.kind \in {"delete", "insertSelect"} -> Number(before, stmt.where)
    [] stmt.kind = "insert" -> stmt.n
    [] stmt.kind = "replace" ->
         2 * stmt.n - Cardinality({v \in Values : Before(v) = 0 /\ Given(v) > 0})

Result ==
  /\ \A v \in Values : Occurs(v) = Expected(v)
  /\ stmt.count = ExpectedCount
  /\ stmt.kind = "update" => stmt.matched = Number(before, stmt.where)

\* A statement whose rows do not get in their own way has, when it comes to its
\* end, changed exactly the rows that its WHERE clause selected in the table as it
\* was when the statement began (or has added, or replaced, the rows of its VALUES)
\* and reports their number; and such a DELETE finds each of its rows
\* (tableEditor, tableIter).
StatementResult ==
  /\ Finished /\ stmt.undisturbed => Result
  /\ stmt.undisturbed => stmt.res # "err"

\* By how many rows the table has grown, and that rows outside of WHERE are as many
\* as before
Growth == Number(Table, Values) - Number(before, Values)
OthersKept == \A v \in Values \ stmt.where : Occurs(v) = Before(v)

\* Whatever rows a statement passes over or meets twice, and wherever it fails: it
\* never removes or adds a row that it did not select, and the count it reports is
\* the number of rows by which it has changed the table so far.
OnlySelectedRows ==
  /\ stmt.kind = "delete" => Growth = -stmt.count /\ OthersKept
  /\ stmt.kind = "insertSelect" => Growth = stmt.count /\ OthersKept
  /\ stmt.kind = "update" => Growth = 0 /\ \A v \in Values \ stmt.where : Occurs(v) >= Before(v)
  /\ stmt.kind = "insert" => Growth = stmt.count
  /\ stmt.kind = "replace" => Growth = 2 * stmt.pos - stmt.count
=============================================================================
