--------------------------- MODULE AtomicWorktree ---------------------------
(***************************************************************************)
(* What a worktree transaction promises: whatever exits in between, a      *)
(* worktree is there or it is not, and the one a live run uses stays.      *)
(***************************************************************************)
CONSTANTS Servers

VARIABLES
  there, \* the worktree is there
  owner  \* the server whose live run uses it, or "nobody"

vars == <<there, owner>>

Init == ~there /\ owner = "nobody"

Appear == ~there /\ there' /\ UNCHANGED owner
Take == there /\ owner = "nobody" /\ owner' \in Servers /\ UNCHANGED there

\* Its run gives it back, or ends with its server.
Yield == owner # "nobody" /\ owner' = "nobody" /\ UNCHANGED there

Vanish == there /\ owner = "nobody" /\ ~there' /\ UNCHANGED owner

Next == Appear \/ Take \/ Yield \/ Vanish

Spec == Init /\ [][Next]_vars
=============================================================================
