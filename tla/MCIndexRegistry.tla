-------------------------- MODULE MCIndexRegistry --------------------------
(***************************************************************************)
(* An instance for TLC with three casts.  When the indexes of all          *)
(* databases have been loaded, CREATE INDEX, DROP INDEX and SHOW INDEXES   *)
(* run on two databases; when that of db1 is still to be loaded, two       *)
(* queries use it while DROP INDEX and a caller of DeleteIndex want it     *)
(* gone, or one query uses it and two callers of DeleteIndex do.           *)
(***************************************************************************)
EXTENDS IndexRegistry

CONSTANTS db1, x, a, q1, e1

OneColumn == {{a}}
OneStored == <<[key |-> <<db1, x>>, expr |-> {a}]>>

Statements == Creators \cup Droppers \cup Showers
Users == Queriers \cup Droppers \cup {e1}
Rivals == {q1} \cup Deleters
ThreeCasts == {Statements, Users, Rivals}

MCInit == Init /\ (loaders = {} <=> \A p \in Statements : ops[p] = 0)

MCSpec == MCInit /\ [][Next]_vars /\ Fairness
=============================================================================
