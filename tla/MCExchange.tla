----------------------------- MODULE MCExchange -----------------------------
(***************************************************************************)
(* A small instance of Exchange for TLC.                                   *)
(***************************************************************************)
EXTENDS Exchange

\* a partition with two rows between two without
MCRowsIn == [p \in 1..Parts |-> IF p = 2 THEN 2 ELSE 0]
=============================================================================
