--------------------------- MODULE PartitionedRows ---------------------------
(***************************************************************************)
(* What a row iterator over the partitions of a table promises its caller  *)
(* (sql.RowIter, sql/row.go), without goroutines, channels or tokens: rows *)
(* come one for each call of Next, those of one partition in their order;  *)
(* io.EOF comes after the last row, unless something has gone wrong; and a *)
(* call is answered.                                                       *)
(***************************************************************************)
EXTENDS Naturals, Sequences, FiniteSets

CONSTANTS
  Parts,   \* number of partitions
  RowsIn   \* RowsIn[p]: rows of partition p

VARIABLES
  given,   \* rows that Next has returned, a row is <<partition, position>>
  calling, \* a call of Next is in progress
  answer,  \* "none" | "error" | "EOF": what ended the iteration
  trouble, \* an error has been reported inside the iterator
  closed   \* the caller has called Close

vars == <<given, calling, answer, trouble, closed>>

GivenOf(p) == Cardinality({j \in DOMAIN given : given[j][1] = p})

All == \A p \in 1..Parts : GivenOf(p) = RowsIn[p]

Init ==
  /\ given = <<>> /\ answer = "none"
  /\ calling = FALSE /\ trouble = FALSE /\ closed = FALSE

Call ==
  /\ ~calling /\ ~closed /\ answer = "none"
  /\ calling' = TRUE
  /\ UNCHANGED <<given, answer, trouble, closed>>

\* the next row of some partition
Row ==
  /\ calling
  /\ \E p \in 1..Parts :
       /\ GivenOf(p) < RowsIn[p]
       /\ given' = Append(given, <<p, GivenOf(p) + 1>>)
  /\ calling' = FALSE
  /\ UNCHANGED <<answer, trouble, closed>>

EOF ==
  /\ calling /\ (All \/ trouble)
  /\ answer' = "EOF" /\ calling' = FALSE
  /\ UNCHANGED <<given, trouble, closed>>

Error ==
  /\ calling /\ trouble
  /\ answer' = "error" /\ calling' = FALSE
  /\ UNCHANGED <<given, trouble, closed>>

\* a partition fails or the query is cancelled
Fail ==
  /\ ~trouble
  /\ trouble' = TRUE
  /\ UNCHANGED <<given, calling, answer, closed>>

Close ==
  /\ ~calling /\ ~closed
  /\ closed' = TRUE
  /\ UNCHANGED <<given, calling, answer, trouble>>

Next == Call \/ Row \/ EOF \/ Error \/ Fail \/ Close

\* every call is answered
Answered == calling ~> ~calling

Safety == Init /\ [][Next]_vars

Spec == Safety /\ Answered
=============================================================================
