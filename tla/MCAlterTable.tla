---------------------------- MODULE MCAlterTable ----------------------------
(***************************************************************************)
(* Four columns' worth of names; "A" and "a" differ only in their case.    *)
(***************************************************************************)
EXTENDS AlterTable

MCNames == {"a", "A", "b", "c"}
MCLower == [n \in MCNames |-> IF n = "A" THEN "a" ELSE n]
=============================================================================
