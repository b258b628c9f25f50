----------------------------- MODULE SliceWaves -----------------------------
(***************************************************************************)
(* The slice phase of a pipeline: the slices of a specification are run in *)
(* waves, the slices of a wave at once, each through its rounds of         *)
(* implementation and verification, and their candidates are composed into *)
(* one (src/pipeline/slice-runner.ts, slice-scheduler.ts, wayfinder.ts,    *)
(* slice-composer.ts), up to the release of the checkout lease the phase   *)
(* runs under (pipeline-runtime.ts) and the recovery of what it left.      *)
(*                                                                         *)
(* A commit is its tree, and a tree maps a path to the slice that wrote it *)
(* last, 0 for the baseline.                                               *)
(***************************************************************************)
EXTENDS Integers, Sequences, FiniteSets, SequencesExt, SliceScopes

CONSTANTS
  N,          \* the number of slices
  Paths,      \* the paths they may change
  Plans,      \* what the specification may declare: [after, allow, width]
  MaxRounds,  \* review.maxRounds
  Faults      \* of "throw": a step of a slice or of composing may throw; "io": cleanup may fail;
              \* "exit": the server may exit

Slice == 1..N
Tree == [Paths -> 0..N]

ASSUME PlansAssumption ==
  /\ N \in Nat \ {0} /\ MaxRounds \in Nat
  /\ Paths \subseteq Seq(STRING)
  /\ \A p \in Plans : /\ p.width \in Nat \ {0}
                      /\ \A i \in Slice : p.after[i] \subseteq 1..(i - 1)
                      /\ \A i \in Slice : p.allow[i] \subseteq Seq(STRING)

VARIABLES
  plan,      \* slices: dependsOn, writeAllowlist, and sliceConcurrency
  wave,      \* the slices of the wave under way
  base,      \* the tree they start from
  recorded,  \* results: the slices composed so far, in order
  head,      \* currentCommit
  stage,     \* where the run stands
  at,        \* where each slice's worker stands
  round,     \* roundsUsed of each
  wrote,     \* the paths its last candidate changed
  saw,       \* the tree it was last based on
  known,     \* temporarySliceRefs of the runner
  refs,      \* the refs under refs/claude-architect/slices/<run>/
  trees,     \* the managed worktrees that are there, by slice and attempt
  reported,  \* those of them whose failed removal was logged
  lease,     \* the checkout lease is held
  marker,    \* pipeline-active.json is there
  outcome,   \* of the pipeline
  alive      \* the server runs

runner == <<wave, base, recorded, head, stage>>
workers == <<at, round, wrote, saw>>
shared == <<refs, trees, reported>>
pipeline == <<marker, lease, outcome>>
vars == <<plan, runner, workers, known, shared, pipeline, alive>>

May(fault) == fault \in Faults

Init ==
  /\ plan \in Plans
  /\ wave = {} /\ base = [p \in Paths |-> 0] /\ head = base
  /\ recorded = <<>> /\ stage = "plan"
  /\ at = [i \in Slice |-> "idle"] /\ round = [i \in Slice |-> 0]
  /\ wrote = [i \in Slice |-> {}] /\ saw = [i \in Slice |-> base]
  /\ known = {} /\ refs = {} /\ trees = {} /\ reported = {}
  /\ marker = TRUE /\ lease = TRUE /\ outcome = "none" /\ alive = TRUE

-----------------------------------------------------------------------------
(* Scheduling *)

\* The slices of the waves before the next one.
Completed == ToSet(recorded)

Overlap(i, j) == AllowlistsOverlap(plan.allow[i], plan.allow[j])

\* The paths a slice may change.
InScope(i) == {p \in Paths : Allows(plan.allow[i], p)}

\* Mutant: the allowlists are not compared.
JoinsOverlapping(i, members) ==
  /\ i \notin Completed
  /\ Cardinality(members) < plan.width
  /\ plan.after[i] \subseteq Completed

\* Mutant: the wave being planned counts as done.
JoinsEarly(i, members) ==
  /\ i \notin Completed
  /\ Cardinality(members) < plan.width
  /\ plan.after[i] \subseteq Completed \cup members
  /\ \A j \in members : ~Overlap(i, j)

Joins(i, members) ==
  /\ i \notin Completed
  /\ Cardinality(members) < plan.width
  /\ plan.after[i] \subseteq Completed
  /\ \A j \in members : ~Overlap(i, j)

\* Each slice in turn is a member if it may join the members before it.
IsNextWave(members) ==
  \A i \in Slice : i \in members <=> Joins(i, {j \in members : j < i})

StartWave ==
  /\ alive /\ stage = "plan" /\ Completed # Slice
  /\ wave' \in {members \in SUBSET Slice : IsNextWave(members)}
  /\ base' = head
  /\ stage' = "wave"
  /\ at' = [i \in Slice |-> IF i \notin wave' THEN at[i]
                            ELSE IF i = 1 THEN "candidate" ELSE "start"]
  /\ wrote' \in {w \in [Slice -> SUBSET Paths] : \A i \in Slice :
                   \/ w[i] = wrote[i]
                   \/ i = 1 /\ i \in wave' /\ w[i] \subseteq InScope(i)}
  /\ saw' = [i \in Slice |-> IF i \in wave' THEN head ELSE saw[i]]
  /\ UNCHANGED <<plan, recorded, head, round, known, shared, pipeline, alive>>

-----------------------------------------------------------------------------
(* The worker of a slice: it runs on, whatever becomes of the runner *)

Goes(i, from, to) == alive /\ at[i] = from /\ at' = [at EXCEPT ![i] = to]

Worktree(i) == <<i, round[i]>>

CreateWorktree(i) ==
  /\ Goes(i, "start", "implement")
  /\ trees' = trees \cup {Worktree(i)}
  /\ UNCHANGED <<plan, runner, round, wrote, saw, known, refs, reported, pipeline, alive>>

\* The implementer's report is a commit on the wave's base, of any paths.
Implement(i) ==
  /\ Goes(i, "implement", "freeze")
  /\ \E paths \in SUBSET Paths : wrote' = [wrote EXCEPT ![i] = paths]
  /\ UNCHANGED <<plan, runner, round, saw, known, shared, pipeline, alive>>

\* Mutant: the runner remembers the ref of the last attempt only.
CreateRefLast(i) ==
  /\ Goes(i, "freeze", "verify")
  /\ LET new == IF wrote[i] = {} THEN {} ELSE {<<i, round[i]>>}
     IN refs' = refs \cup new /\ known' = {r \in known : r[1] # i} \cup new
  /\ UNCHANGED <<plan, runner, round, wrote, saw, trees, reported, pipeline, alive>>

\* A candidate that changed something is kept by a temporary ref.
CreateRef(i) ==
  /\ Goes(i, "freeze", "verify")
  /\ LET new == IF wrote[i] = {} THEN {} ELSE {<<i, round[i]>>}
     IN refs' = refs \cup new /\ known' = known \cup new
  /\ UNCHANGED <<plan, runner, round, wrote, saw, trees, reported, pipeline, alive>>

\* Mutant: a removal that fails is not logged.
GivenUpSilently(i) ==
  \/ trees' = trees \ {Worktree(i)} /\ UNCHANGED reported
  \/ May("io") /\ UNCHANGED <<trees, reported>>

\* withManagedWorktree's finally: a worktree that cannot be removed stays, with
\* a warning.
GivenUp(i) ==
  \/ trees' = trees \ {Worktree(i)} /\ UNCHANGED reported
  \/ May("io") /\ UNCHANGED trees /\ reported' = reported \cup ({Worktree(i)} \cap trees)

\* The attempt has its candidate, whatever becomes of its worktree.
Verify(i) ==
  /\ Goes(i, "verify", "candidate")
  /\ GivenUp(i)
  /\ UNCHANGED <<plan, runner, round, wrote, saw, known, refs, pipeline, alive>>

\* A step throws: the creation of the worktree, which may leave some of it; one
\* that has the worktree; or the record of the attempt.
WorkerThrows(i) ==
  /\ May("throw")
  /\ Goes(i, at[i], "threw")
  /\ \/ at[i] = "start" /\ May("io") /\ trees' = trees \cup {Worktree(i)} /\ UNCHANGED reported
     \/ at[i] \in {"implement", "freeze", "verify"} /\ GivenUp(i)
     \/ at[i] \in {"start", "candidate"} /\ UNCHANGED <<trees, reported>>
  /\ UNCHANGED <<plan, runner, round, wrote, saw, known, refs, pipeline, alive>>

Clean(i, passed) == passed /\ wrote[i] \subseteq InScope(i)

\* Mutant: one round more than the budget.
RoundsLeftOver(i) == round[i] <= MaxRounds

RoundsLeft(i) == round[i] < MaxRounds

\* routeSlice: advance, repair while rounds are left, or halt.
Route(i) ==
  \E passed \in BOOLEAN :
    LET repairs == ~Clean(i, passed) /\ RoundsLeft(i)
    IN /\ Goes(i, "candidate", IF Clean(i, passed) THEN "advance"
                               ELSE IF repairs THEN "start" ELSE "halt")
       /\ round' = [round EXCEPT ![i] = IF repairs THEN @ + 1 ELSE @]
       /\ UNCHANGED <<plan, runner, wrote, saw, known, shared, pipeline, alive>>

-----------------------------------------------------------------------------
(* The runner *)

Settled == \A i \in wave : at[i] \in {"advance", "halt"}

\* Promise.all of the wave.
WaveSettles ==
  /\ alive /\ stage = "wave" /\ Settled
  /\ stage' = "compose"
  /\ UNCHANGED <<plan, wave, base, recorded, head, workers, known, shared, pipeline, alive>>

\* What the catch deletes, or cannot.
Dropped(gone) == \/ refs' = refs \ gone
                 \/ May("io") /\ UNCHANGED refs

\* Promise.all rejects when the first worker throws. The refs known by then are
\* deleted and the error goes on, while the other workers are still at it.
WaveFails ==
  /\ alive /\ stage = "wave" /\ \E i \in wave : at[i] = "threw"
  /\ stage' = "thrown"
  /\ Dropped(known)
  /\ UNCHANGED <<plan, wave, base, recorded, head, workers, known, trees, reported, pipeline, alive>>

\* The slice whose outcome is composed next.
Due(i) == i \in wave \ Completed /\ \A j \in wave \ Completed : i <= j

Candidate(i) == [p \in Paths |-> IF p \in wrote[i] THEN i ELSE base[p]]

Occupied == {p \in Paths : head[p] # base[p]}

Collides(i) == Cardinality(wave) > 1 /\ head # base /\ wrote[i] \cap Occupied # {}

\* Mutant: the slice's own tree becomes the head.
ComposedWhole(i) == Candidate(i)

\* composeSliceOntoHead: the slice's changes over what its wave has composed.
Composed(i) == [p \in Paths |-> IF p \in wrote[i] THEN Candidate(i)[p] ELSE head[p]]

\* A slice that halts is composed and recorded before the run returns.
Compose ==
  /\ alive /\ stage = "compose"
  /\ \E i \in wave :
       /\ Due(i) /\ ~Collides(i)
       /\ recorded' = Append(recorded, i)
       /\ IF at[i] = "advance"
            THEN head' = Composed(i) /\ stage' = IF wave \ Completed = {i} THEN "plan" ELSE stage
            ELSE stage' = "returned" /\ UNCHANGED head
  /\ UNCHANGED <<plan, wave, base, workers, known, shared, pipeline, alive>>

\* The slice collides with its wave, or Git or the archive fails.
ComposeRefuses ==
  /\ alive /\ stage = "compose"
  /\ \E i \in wave : Due(i) /\ (Collides(i) \/ May("throw"))
  /\ stage' = "thrown"
  /\ Dropped(known)
  /\ UNCHANGED <<plan, wave, base, recorded, head, workers, known, trees, reported, pipeline, alive>>

AllAdvanced ==
  /\ alive /\ stage = "plan" /\ Completed = Slice
  /\ stage' = "returned"
  /\ UNCHANGED <<plan, wave, base, recorded, head, workers, known, shared, pipeline, alive>>

-----------------------------------------------------------------------------
(* The pipeline around it *)

Halted == {i \in Completed : at[i] = "halt"}

\* The terminal record of the run.
Archive ==
  /\ alive /\ stage \in {"returned", "thrown"}
  /\ outcome' = IF stage = "thrown" THEN "failed"
                ELSE IF Halted = {} THEN "completed"
                ELSE IF \E i \in Completed : at[i] = "advance" /\ wrote[i] # {} THEN "partial"
                ELSE "failed"
  /\ stage' = IF stage = "thrown" THEN "release" ELSE "dispose"
  /\ UNCHANGED <<plan, wave, base, recorded, head, workers, known, shared, marker, lease, alive>>

\* The finally block: the refs the runner handed over. It was handed none when
\* the runner threw.
Dispose ==
  /\ alive /\ stage = "dispose"
  /\ refs' = refs \ known
  /\ stage' = "release"
  /\ UNCHANGED <<plan, wave, base, recorded, head, workers, known, trees, reported, pipeline, alive>>

\* A ref that stays makes the run a failure, unless that cannot be archived
\* either, and the marker stays with it.
DisposeFails ==
  /\ alive /\ stage = "dispose" /\ May("io") /\ known # {}
  /\ stage' = "keep"
  /\ outcome' \in {"failed", outcome}
  /\ UNCHANGED <<plan, wave, base, recorded, head, workers, known, shared, marker, lease, alive>>

Release ==
  /\ alive /\ stage \in {"release", "keep"}
  /\ marker' = (stage = "keep")
  /\ lease' = FALSE
  /\ stage' = "over"
  /\ UNCHANGED <<plan, wave, base, recorded, head, workers, known, shared, outcome, alive>>

-----------------------------------------------------------------------------
(* Exit and recovery *)

\* The lease of a process that exited is anybody's.
Exit ==
  /\ alive /\ May("exit")
  /\ alive' = FALSE /\ lease' = FALSE
  /\ UNCHANGED <<plan, runner, workers, known, shared, marker, outcome>>

\* Mutant: a run with a terminal record is left alone.
SweptUnfinished == ~alive /\ outcome = "none"

\* The runs recovery sweeps: without a marker, or with that of a process that
\* exited.
Swept == ~marker \/ ~alive

\* The recovery of any server that starts, under the checkout lock.
Recover ==
  /\ ~lease /\ Swept
  /\ refs # {} \/ trees # {} \/ marker
  /\ refs' = {} /\ trees' = {} /\ reported' = {} /\ marker' = FALSE
  /\ outcome' = IF outcome = "none" THEN "cancelled" ELSE outcome
  /\ UNCHANGED <<plan, runner, workers, known, lease, alive>>

-----------------------------------------------------------------------------
RunnerNext ==
  \/ StartWave
  \/ WaveSettles
  \/ WaveFails
  \/ Compose
  \/ ComposeRefuses
  \/ AllAdvanced
  \/ Archive
  \/ Dispose
  \/ DisposeFails
  \/ Release

WorkerNext(i) ==
  \/ CreateWorktree(i)
  \/ Implement(i)
  \/ CreateRef(i)
  \/ Verify(i)
  \/ WorkerThrows(i)
  \/ Route(i)

Next == RunnerNext \/ (\E i \in Slice : WorkerNext(i)) \/ Exit \/ Recover

Spec == Init /\ [][Next]_vars

\* Some server starts again; nothing makes a runner or its workers go on.
FairSpec == Spec /\ WF_vars(Recover)

-----------------------------------------------------------------------------
(* Properties *)

\* Every variable has its type.
TypeOK ==
  /\ plan \in Plans
  /\ wave \subseteq Slice /\ {base, head} \subseteq Tree
  /\ recorded \in Seq(Slice) /\ IsInjective(recorded)
  /\ stage \in {"plan", "wave", "compose", "returned", "thrown", "dispose", "keep",
               "release", "over"}
  /\ at \in [Slice -> {"idle", "start", "implement", "freeze", "verify", "candidate",
                       "advance", "halt", "threw"}]
  /\ round \in [Slice -> 0..MaxRounds]
  /\ wrote \in [Slice -> SUBSET Paths] /\ saw \in [Slice -> Tree]
  /\ {known, refs, trees, reported} \subseteq SUBSET (Slice \X (0..MaxRounds))
  /\ {marker, lease, alive} \subseteq BOOLEAN
  /\ outcome \in {"none", "completed", "partial", "failed", "cancelled"}

\* The composed candidate is what the slices would have made one after the
\* other: each path is as the last slice that advanced and changed it left it,
\* and nothing of a slice that did not advance is in it (slice-composer.ts).
ComposedIsSequential ==
  \A p \in Paths :
    LET writes == {k \in DOMAIN recorded :
                     at[recorded[k]] = "advance" /\ p \in wrote[recorded[k]]}
    IN \/ writes = {} /\ head[p] = 0
       \/ \E k \in writes : head[p] = recorded[k] /\ \A l \in writes : l <= k

\* A slice starts from a tree that holds the work of every slice it depends on,
\* whatever waves the two were put in (slice-scheduler.ts planSliceWaves).
DependenciesSeen ==
  \A i \in Slice : at[i] # "idle" =>
    \A d \in plan.after[i] :
      \E k \in DOMAIN recorded :
        /\ recorded[k] = d /\ at[d] = "advance"
        /\ \A p \in wrote[d] :
             \E l \in k..Len(recorded) : saw[i][p] = recorded[l]

\* Two slices that both advance never collide: the refusal to compose is met by
\* a slice that broke its confinement only, and such a slice does not advance
\* (slice-composer.ts, wayfinder.ts).
AdvancedNeverCollide ==
  \A i \in wave : stage = "compose" /\ Due(i) /\ Collides(i) => at[i] = "halt"

\* A slice phase that came to a candidate and took its marker down leaves no
\* temporary ref, of any attempt of any slice, and no worktree but the ones
\* whose failed removal it reported (slice-runner.ts run, worktree-manager.ts
\* withManagedWorktree, pipeline-runtime.ts finally).
ReturnLeavesNothing ==
  ~marker /\ outcome \in {"completed", "partial"} => refs = {} /\ trees \subseteq reported

\* What a slice phase left is removed, also what abandoned workers create after
\* the end of their run: by the recovery of the next server that starts, unless
\* the marker of a living server forbids it (recovery-manager.ts).
LeftoversGo == ~lease /\ (~marker \/ ~alive) ~> refs = {} /\ trees = {}

\* The slices whose work is composed.
Made == {i \in Completed : at[i] = "advance"}

Sequential == INSTANCE SequentialSlices WITH done <- Made, tree <- head, verdict <- outcome

\* The slice phase implements the sequential one: waves, workers, repairs and
\* refs are invisible, each composed slice is one made after those it depends
\* on and within its allowlist, and the outcome says what was made
\* (slice-runner.ts, pipeline-runtime.ts).
ImplementsSequentialSlices == Sequential!SSpec

\* worktree-manager.ts 73: "Caller-owned repository lease held for this
\* manager's complete operation": a worktree of a slice is created and removed
\* under the lease of its pipeline.
WorktreesUnderLease ==
  [][\A i \in Slice : at[i] \in {"start", "verify"} /\ at'[i] # at[i] => lease]_vars
=============================================================================
