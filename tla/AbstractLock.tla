----------------------------- MODULE AbstractLock -----------------------------
(***************************************************************************)
(* What the Checkout Lock promises (the Checkout Lock entry of             *)
(* src/CONTEXT.md and the header of src/platform/checkout-lock.ts): it     *)
(* has one claimant at a time, only the claimant may work under it, only   *)
(* the claimant drops it, and nobody else takes it away unless the         *)
(* claimant's process has exited.                                          *)
(***************************************************************************)
CONSTANTS
  Procs,
  Free,        \* nobody claims the lock
  Abandoned,   \* its claimant's process has exited: it may be reclaimed
  Stuck        \* its claimant lost it, or left no name: it stays

VARIABLES
  lock,      \* the claimant, or one of the three
  working    \* the processes that work under the lock

avars == <<lock, working>>

AInit == lock = Free /\ working = {}

\* A free lock gets a claimant ...
Claim(p) == lock = Free /\ lock' = p /\ UNCHANGED working

\* ... who works under it for a while ...
Work(p) == lock = p /\ working' = working \cup {p} /\ UNCHANGED lock

Rest(p) == p \in working /\ working' = working \ {p} /\ UNCHANGED lock

\* ... and drops it, or cannot, when a file-system call fails.
Drop(p) == lock = p /\ p \notin working /\ lock' = Free /\ UNCHANGED working

Lose(p) == lock = p /\ p \notin working /\ lock' = Stuck /\ UNCHANGED working

\* A process exits.  Its lock is recognised as abandoned if it left its name.
Leave(p) ==
  /\ working' = working \ {p}
  /\ \/ lock = p /\ lock' \in {Abandoned, Stuck}
     \/ lock = Stuck /\ lock' \in {Abandoned, Stuck}
     \/ lock # p /\ lock' = lock

\* An abandoned lock, and no other, is taken away.
Reclaim == lock = Abandoned /\ lock' = Free /\ UNCHANGED working

ANext ==
  \/ \E p \in Procs : Claim(p) \/ Work(p) \/ Rest(p) \/ Drop(p) \/ Lose(p) \/ Leave(p)
  \/ Reclaim

ASpec == AInit /\ [][ANext]_avars
=============================================================================
