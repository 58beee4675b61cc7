--------------------------- MODULE MCPilosaDriver ---------------------------
(* Two partitions: more values than one batch, NULLs and repeats, in two *)
(* orders, and a partition that is empty or holds NULL only.             *)
EXTENDS PilosaDriver, TLC

CONSTANTS P1, P2, A, B

MCTables ==
    {(P1 :> <<A, Null, B>> @@ P2 :> <<>>), (P1 :> <<B, A, B>> @@ P2 :> <<Null, A>>)}
=============================================================================
