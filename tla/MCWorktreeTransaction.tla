----------------------- MODULE MCWorktreeTransaction -----------------------
(* WorktreeTransaction on a small instance; servers and transactions are   *)
(* interchangeable, which is used where no liveness is checked.            *)
EXTENDS WorktreeTransaction, TLC

Symmetry == Permutations(Servers) \cup Permutations(Txns)
=============================================================================
