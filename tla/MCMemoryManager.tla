-------------------------- MODULE MCMemoryManager --------------------------
(***************************************************************************)
(* One iterator of each kind, of which any three are opened.               *)
(***************************************************************************)
EXTENDS MemoryManager

MCKind == [i \in Iters |-> i]
MCThree == Cardinality({i \in Iters : pc[i] # "new"}) <= 3
=============================================================================
