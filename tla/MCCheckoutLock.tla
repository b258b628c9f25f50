---------------------------- MODULE MCCheckoutLock ----------------------------
(***************************************************************************)
(* CheckoutLock for TLC: the symmetry of the model values.                 *)
(***************************************************************************)
EXTENDS CheckoutLockPromise, TLC

Interchangeable == Permutations(Procs) \cup Permutations(Inodes)
=============================================================================
