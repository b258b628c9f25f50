-------------------------- MODULE SequentialSlices --------------------------
(***************************************************************************)
(* What a slice phase promises, without waves, workers and refs: the       *)
(* slices are made one after the other, each on the tree of those before   *)
(* it, after the ones it depends on and within its allowlist, until all    *)
(* are made or the run ends early.                                         *)
(***************************************************************************)
EXTENDS Integers, SliceScopes

CONSTANTS
  N,      \* the number of slices
  Paths,  \* the paths they may change
  Plans   \* what the specification may declare: [after, allow]

VARIABLES
  plan,
  done,    \* the slices whose work is in the tree
  tree,    \* path -> the slice that wrote it last, 0 for the baseline
  verdict  \* of the pipeline

svars == <<plan, done, tree, verdict>>

SInit == plan \in Plans /\ done = {} /\ tree = [p \in Paths |-> 0] /\ verdict = "none"

\* One slice more, of what it is allowed.
Make(i) ==
  /\ verdict = "none"
  /\ i \notin done /\ plan.after[i] \subseteq done
  /\ done' = done \cup {i}
  /\ \E paths \in SUBSET {p \in Paths : Allows(plan.allow[i], p)} :
       tree' = [p \in Paths |-> IF p \in paths THEN i ELSE tree[p]]
  /\ UNCHANGED <<plan, verdict>>

\* A run is completed by all its slices, a part of it needs one.
End ==
  /\ verdict = "none"
  /\ \/ verdict' = "completed" /\ done = 1..N
     \/ verdict' = "partial" /\ done # {} /\ done # 1..N
     \/ verdict' \in {"failed", "cancelled"}
  /\ UNCHANGED <<plan, done, tree>>

\* What the run left could not be removed.
Spoil ==
  /\ verdict \in {"completed", "partial", "failed"} /\ verdict' = "failed"
  /\ UNCHANGED <<plan, done, tree>>

SNext == (\E i \in 1..N : Make(i)) \/ End \/ Spoil

SSpec == SInit /\ [][SNext]_svars
=============================================================================
