-------------------------- MODULE MCPruneTransaction --------------------------
(* PruneTransaction on a small instance, up to the names of servers and     *)
(* quarantines.                                                             *)
EXTENDS PruneTransaction, TLC

Symmetry == Permutations(Servers) \cup Permutations(Txns)
=============================================================================
