------------------------------ MODULE MCHandler -----------------------------
(***************************************************************************)
(* Instances of Handler.  Connections are interchangeable in the safety    *)
(* runs.                                                                   *)
(***************************************************************************)
EXTENDS Handler, TLC

Symmetry == Permutations(Conns)
=============================================================================
