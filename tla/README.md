# Verification of claude-architect

claude-architect is an MCP server that delegates coding work to external
producer programs, verifies what they made, and lets a Host decide whether the
result may enter the user's checkout. What makes that hard is not any single
computation but what several server processes, a user with Git, crashes and
failing calls can do to the files and refs the parts share. This directory
holds TLA+ models of those parts, the TLC runs that check them, and TLAPS
proofs. Paths below are relative to the repository.

To repeat the results, from this directory:

    tlc -config lock_lease.cfg MCCheckoutLock       # and so on, see Runs
    tlapm CheckoutLockProofs.tla                    # and the other modules of Proofs

`PROJECT.json` lists the components, the runs, the code lines each definition
stands for, the mutants (a plausible bug for each property, which the run must
find), the hazards and the findings.

## 1. Inventory

### The parts, their state and their operations

| Component | State it keeps | Operations | What is hard |
|---|---|---|---|
| Checkout Lock (`src/platform/checkout-lock.ts`, `lock-ownership.ts`) | `<key>.lock` and `.recovery-lock-<uuid>.tmp` in the locks directory, with the owner's pid and start token | acquire, acquire or reclaim, release, startup sweep | several processes; exit between any two file-system calls; removal by path after a check |
| Platform Safety (`platform-safety.ts`) | the lease of the running operation | `withCheckoutLease`, `withRecoveryLease` | release after failure |
| Startup recovery (`src/runtime/recovery-*.ts`) | recovery.lock, the quarantine journal | reclaim locks, settle runs, sweep worktrees and refs, replay journals | runs while other servers work; is itself cut off |
| Attempt runtime (`attempt-runtime.ts`, `git/candidate-tree.ts`) | a worktree, the candidate commit, its anchor ref | preconditions, produce, freeze, verify, archive | throwing between anchor and archive |
| Run archive (`artifact-store.ts`) | `runs/<runId>/`: result, manifest, decision, snapshot, gate record, active marker | write once, promote a terminal pair, prune | two-file replacement; retention against decisions |
| Pipeline (`src/pipeline/pipeline-runtime.ts`, `terminal-recorder.ts`) | its own view of the run, pipeline-result | review rounds, promotion, gate, salvage, halt, failure | many exits, each to leave an honest archive |
| Slice phase (`slice-scheduler.ts`, `slice-runner.ts`, `slice-composer.ts`, `wayfinder.ts`) | waves, worktrees, attempt refs, the composed head | plan waves, run slices concurrently, compose, halt, clean up | concurrency inside one process, throwing siblings |
| Candidate decision (`candidate-decisions.ts`, `run-decision.ts`, `review-snapshot.ts`, `mcp/tools.ts`) | decision.json, review-snapshot.json | review, decide, integrate | three calls far apart about the same bytes |
| Controlled integration (`src/integrate/controlled-integrator.ts`) | the checkout's index and worktree | preconditions, apply, check, drop anchor | the user edits at the same time |
| Worktrees (`worktree-manager.ts`, `worktree-transaction.ts`) | managed directories, Git registrations, removal stages | create, remove, replay a removal | multi-stage removal cut off anywhere |
| Cleanup Journal and prune (`cleanup-journal.ts`, `recovery-prune-journal.ts`, `ArtifactStore.prune`) | an append-only file, the quarantine of an archive, the anchor and its backup | record an intent, back up, move aside, remove, commit, undo, replay | torn lines; an undo outside the lease; the only record of a quarantine is one line |
| Workflow store (`src/autopilot/workflow-store.ts`) | `state.json` with a revision, the intent journal, its checkpoint, the writer lock, the owner's lease | transition, append, checkpoint, adopt | compare and swap between servers; exit between journal and checkpoint |
| Autopilot (`autopilot-controller.ts`, `candidate-promoter.ts`, `branch-manager.ts`, `final-branch-reviewer.ts`, `recovery-autopilot.ts`) | a branch, its base ref, worktree and ownership record; the report of the final review | start, resume, task loop, promotion, final review, cleanup, halt | crash between staging, decision, commit and state |
| Producer HOMEs (`producer-home.ts`, `run-start.ts`) | claimed HOME directories, recorded pids | claim, spawn, record, reclaim | exit between spawn and record |
| Durable writes (`durable-write.ts`, `bound-directory-cleanup.ts`) | files, directory identities | replace, publish once | power loss between link and unlink |
| Supervisor, sandbox, adapters, verification commands, roles and prompts, schemas, redaction, doctor, Git reads | none that outlives a call | | operating-system calls and pure functions |

### How they interact

Every operation on a repository (an attempt, a pipeline, a decision, an
integration, a recovery of one run, the removal of one archive) runs under
that repository's checkout lock. Within one server the calls for a repository
are queued (`src/mcp/serialize.ts`). Different servers share the state
directory and meet only in the lock and in the files. A starting server takes
recovery.lock, reclaims checkout locks whose owner has exited, and then takes
the checkout lock of each run it settles. A pipeline publishes
`pipeline-active.json`; decisions, integrations and prune refuse while it is
there and recovery settles the run when its owner has exited. The candidate
anchor `refs/claude-architect/candidates/<runId>` keeps the candidate's commit
alive from the freeze until it has been applied or rejected.

An Autopilot workflow is driven by one server at a time, the one its lease
names; each of its tasks is a pipeline run, each promotion takes the checkout
lock, and a later server resumes a workflow whose owner has exited.

### What makes each part correct

- Lock: one holder; a holder's file stays in place; a dead holder's lock, and
  no other, is reclaimed, and some day it is.
- Archive and pipeline: what an archive offers is what was verified; a failed
  or interrupted pipeline offers nothing; an interrupted one settles.
- Decision and integration: only accepted bytes reach the checkout; autonomy
  is earned, not assumed; a decision is final; a rejection can be repaired; an
  accepted candidate is not lost.
- Slices: the concurrent result is the sequential one; what a slice depends on
  is in its base; nothing is left behind; nobody works without the lease.
- Worktrees: the directory and its registration come and go together; what is
  half done is named by a manifest and keeps everybody else out.
- Prune: a run is whole or gone; a candidate that may come back stays named; a
  quarantine is always found again.
- Autopilot: one driver; one commit per task, in order, of the candidate that
  was accepted; the published verdict is the one used; what is handed over is
  complete.

## 2. Modules

    AbstractLock <--INSTANCE-- CheckoutLockPromise --EXTENDS--> CheckoutLock
                                 ^             ^
                        MCCheckoutLock    CheckoutLockProofs

    RunArchive <--EXTENDS-- PipelineTerminal, CandidateDecision, RunRecovery
                                 ^
                        CandidateLifecycle <-- MCCandidateLifecycle, CandidateLifecycleProofs

    SequentialSlices <--INSTANCE-- SliceWaves --EXTENDS--> SliceScopes <-- SliceScopesProofs
                                 ^             ^                                   ^
                       MCSliceWaves      SliceWavesProofs -------------------------+

    AtomicWorktree <--INSTANCE-- WorktreeTransaction
                                 ^             ^
                  MCWorktreeTransaction   WorktreeTransactionProofs

    PruneTransaction <-- MCPruneTransaction, PruneTransactionProofs

    AtomicWorkflow <--INSTANCE-- AutopilotWorkflow --EXTENDS--> WorkflowStore
                                 ^             ^
                    MCAutopilotWorkflow   AutopilotWorkflowProofs <-- AutopilotBranchProofs

**AbstractLock** is the promise: a claimant, who works, drops the lock, loses
it or exits; only an abandoned lock is taken away.

**CheckoutLock** is the protocol of `checkout-lock.ts`, with one action for
each awaited file-system call another process can come between. A file is an
inode; `lockFile` and `temp` are the names, `record[i]` the process the record
names, `mine` and `seen` the identities a process remembers, `pc` its position
in `tryAcquireLock`, `cleanupOwnedLockPaths`, `releaseLock` or
`reclaimDeadLock`. A slot of `Procs` that exits and starts again is another
process, so records of the earlier one become `Exited`. An inode may be used
again once no name and no handle refers to it, which is what identity (device,
inode, birth time) guarantees. A process makes one call at a time
(`serialize.ts`). Temporaries nobody's lock is linked to are never looked at,
so they do not accumulate in the state. `UnderLease = TRUE` is a checkout lock:
it is reclaimed only inside a recovery pass and one pass runs at a time.
`UnderLease = FALSE` is recovery.lock itself.

**CheckoutLockPromise** holds the mapping from the protocol to the promise,
**CheckoutLockProofs** the theorems.

**RunArchive** has the state of one run (archive files, anchor, checkout) and
the steps every writer shares. Commits made for a run are numbered; a
manifest's hash is a function of the tree, so it is that tree. Since the lease
excludes, one operation is under way at a time and `pc` is its next step; what
comes between its steps is an exit, a failed call (`"io"`) and the user.
**PipelineTerminal** is the attempt and every end of a pipeline,
**CandidateDecision** review, decision, integration and the user's own Git
commands, **RunRecovery** exits, recovery and prune. **CandidateLifecycle**
composes them and states the properties.

**SliceWaves** is the slice phase of one sliced pipeline up to the release of
the lease: the runner, one worker per slice, and what other servers' recovery
does to the leftovers. `GivenUp` is the `finally` of `withManagedWorktree`: a
worktree that cannot be removed stays, whether the attempt succeeded or threw,
and `reported` holds those whose failed removal was logged. A commit is its
tree, a tree maps a path to the slice that wrote it last. `planSliceWaves` is
evaluated lazily, one wave at a time: a wave is the set whose members are the
slices that may join those before them. `Completed` in it is what has been
recorded, which is the same.
**SliceScopes** is what an allowlist's globs match (`globMatches`, `isAllowed`)
and the scheduler's test whether two of them overlap (`allowlistsOverlap`),
character by character, since whether a wave is safe hangs on it.
**SequentialSlices** is what the phase promises: slices are made one after the
other, each after those it depends on and within its allowlist, and the
outcome says what was made.

**WorktreeTransaction** is one managed worktree: `phys` and `reg` say where its
directory and its Git registration are (at home, gone, or at the private path
of a transaction), `file` and `note` what the manifest of each transaction is
and says. Creation is `createUnderLease`, removal `coordinateWorktreeRemoval`
with its six recorded phases, rollback and commit; `GuardManifest`, `DropName`
and `DropGuard` are the removal of a manifest behind its second link.
`ReadPending` and `Replay*` are `recovery-worktree-removals.ts`: manifests are
read before the lease is taken and checked again under it; `Refuses` is
`planWorktreeRemovalReplay`. **AtomicWorktree** is what all this promises: a
worktree is there or it is not.

**PruneTransaction** is the prune of one run: intent, anchor backup, the move
into quarantine, removal, commit of the refs, completion; the catch block,
which undoes after the lease has been released; the same for a run whose
repository is gone, which takes no lease; and the replay at the next start.
`pending` is what the journal's complete lines say, `torn` that part of a line
follows them. A journal operation is one step that may be cut off. A replay
looks once where the archive is (`Inspects`, `found`) and goes by that; each
ref it then creates or deletes is a step of its own.

**WorkflowStore** is the durable record of one workflow: `st` is `state.json`,
`cp` the checkpoint it carries, `intents` and `torn` the journal, `writer` and
`owner` the two locks. Its operations take the state they expect and may fail,
or be cut off, between the journal line and the state.
**AutopilotWorkflow** drives it: start, resume, the task loop, the promotion
(validate, stage, decide, commit, journal), the final review with its
published report, cleanup and halt, recovery of a branch that never got a
state. `pc` is the place a server stands at, `my` the state it works from,
`log` the commits above the base. **AtomicWorkflow** is the promise: each task
is committed once, in order, and the workflow ends once.

The **...Proofs** modules hold the theorems about the module they are named for.

Simplifications that matter to a reader:

- A call that fails changes nothing (the durable write is taken as atomic).
- In `RunRecovery` prune is one step; `PruneTransaction` is its detail.
- In `WorktreeTransaction`, without `"late"` in `Faults`, a server starts only
  while no other is at work (`worktree_safety` has `"late"`).
- The behaviours of `PruneTransaction` are of two kinds. In those with
  `apart`, what the code does outside the lease (the undoing of a failed
  prune, and everything once the repository is gone) meets no other server at
  work (`Alone`, `Calm`), and nobody prunes a run while an earlier prune of it
  is pending (`Unshadowed`). The code enforces neither, so in the others
  servers overlap as they like. Every run and every theorem is about both
  kinds; a property that holds only of the first says so itself, with the
  premise `apart`.
- A server whose start was deferred, or left worktrees unresolved, recovers again
  before its next mutating call (`src/mcp/server.ts:470-473`). The models have
  this as an exit and a new start.
- The writer lock of an exited server counts as free in `WorkflowStore`. A
  transition that publishes its state and then throws (the check of what was
  published, the retirement of the lock) is not told apart from an exit right
  after it: on disk the two are the same.
- In `AutopilotWorkflow` a pipeline run, the creation of the branch and adding
  or removing the worktree are one step each.
- Verification that was not confined by the operating system, and verification
  whose inputs the candidate touched, are one piece of evidence, `"unproved"`.
- An integration that aborts before it touches the checkout is no step.
- `hardBlocker` of the wayfinder is never set by the code, so it is left out;
  the review of a slice is part of whether it "passed".
- Recovery's termination of producers that outlived their server is left out.

## 3. Runs

| Run | Bounds | Distinct states | Shows |
|---|---|---|---|
| `lock_lease` | 2 processes, 3 inodes, failing calls and unreadable tokens, symmetry | 109,689 | `MutualExclusion`, `HeldIsPublished`, `ImplementsAbstractLock` |
| `lock_turnover` | 2 processes, 3 inodes, no failing calls | 75,140 | `NoLockLeft`, `AbandonedReclaimed` |
| `lock_recovery` | the same, `UnderLease = FALSE` | | violates `MutualExclusion` |
| `archive_safety` | 3 commits, all three kinds of run, failing writes | 102,016 | the eight properties of `CandidateLifecycle` |
| `archive_unsliced_gap` | 3 commits, unsliced runs, no failing writes | | violates `UnslicedLeavesNothing` |
| `waves_core` | 3 slices, the paths `a/x` and `b`, 1 repair round, 2 plans, throws, failing cleanup, exits and recovery, `FairSpec` | 1,041,526 | the five safety properties, `LeftoversGo` |
| `waves_abandoned` | the same, only throws | | violates `WorktreesUnderLease` |
| `worktree_safety` | 2 servers, 3 transactions, failing steps, Git refusing, a user who erases, late starts | 325,680 | the five safety properties, `ImplementsAtomicWorktree` |
| `prune_safety` | 2 servers, 3 transactions, failing steps, the repository deleted | 629,962 | `NamedUnlessUndoMeets`; of servers that keep apart `SettledIsWhole`, `MovedOnlyAsIntended`, `IntentOutlivesQuarantine` |
| `prune_replay` | 1 server, 2 transactions, `FairSpec` | | violates `IntentReplayed` |
| `prune_overlap` | 2 servers, 3 transactions, no failing steps | | violates `NeverOrphaned` |
| `autopilot_safety` | 2 servers, 2 tasks, 2 runs of each, failing steps, cancelled requests, a user | 1,190,878 | the eight safety properties, `ImplementsAtomicWorkflow` |

Why the bounds are enough to be interesting. Two processes and three inodes
allow a holder or a reclaimer, a successor's file and the temporary of a third
acquisition at once; a process that exits and starts again is a new one, so
there is no bound on how many servers come and go. Three commits are the
attempt's, one moved and one more, so that anchor, archived candidate and
current candidate can all differ. Three slices are the fewest with a wave of
two and a slice that depends on, or overlaps with, one of them; two paths let
slices be disjoint or overlap, with globs that name a file, a directory
(`a/*`, `a/**`) or everything; the plans are a dependent after a pair, and
three in a row (the second depends on the first, the third overlaps with
both). Three worktree transactions are a creation, the removal that undoes it
and one left pending by an earlier exit. Of two servers that prune, one can
exit, undo, prune or replay at every step of the other's; three names are one
for each and one in the journal. Two tasks have a promotion that is the last
and one that is not, and two runs let a task be done again after an exit; a
server that exits is a new one here too. Every bound is a constant of the cfg.
`waves_*` switch off the deadlock check because a run ends; the other models
never stop.

### The properties

`MutualExclusion` and `HeldIsPublished` are about `held`, the span in which an
operation works under the lease. `NoLockLeft` says that, when no call fails,
no path through acquisition, retry or undo leaves a lock that only an exit
can free. `AbandonedReclaimed` says that no crash point makes a lock that
`reclaimDeadLock` refuses for ever; the second link a crashed acquisition
leaves behind is the case that matters.

`OnlyAcceptedStaged` relates the checkout to a decision made two calls before.
`AutonomyEarned` is about candidates no human saw: the tree passed
verification and, for a pipeline's, the gate's verdict was recorded.
`SlicedLeavesNothing` says a sliced pipeline that came to no verdict
leaves no verified archive; `RejectionRepairable` and `AcceptedStaysAnchored`
are about the anchor after a failure; `DecisionFinal` is an action property:
nothing a decision was made about changes after it. `InterruptedSettles` is
the liveness of recovery.

`ComposedIsSequential` compares the composed head with the plan applied one
slice after another; `DependenciesSeen` says a slice's base holds what it
depends on; `AdvancedNeverCollide` that two slices that advanced in one wave
never wrote one path. `ReturnLeavesNothing` says that a phase that came to a
candidate and took its marker down has deleted every temporary ref, and that
a worktree it has left is one whose failed removal it logged; `LeftoversGo`
that recovery removes in the end all that was left.

Of a worktree, `SettledIsWhole` says that half of one is always named by a
manifest, `AdmittedWhole` that no operation is let in to half of one,
`RefusedIsResidue` that what recovery refuses to replay for ever holds nothing
any more, and `DeletedOnlyOnceStarted`, an action property, that a directory
goes only once its removal is recorded as started. `ImplementsAtomicWorktree`
adds that a worktree a live run uses does not vanish: it appears with the drop
of its creation's manifest and vanishes with the record of the start of its
removal.

Of a prune, `CandidateStaysNamed` says that an undecided candidate whose
archive is in its place, or being put back, is named by its anchor or its
backup. It does not hold: servers overlap, and `NamedUnlessUndoMeets` says by
what alone it can be broken. Either an undo that is putting the archive back
meets a replay that has found it in its quarantine, or an undo that is
deleting its backup meets a prune that has made its own, under the same name,
and is about to remove the anchor (`UndoMeets`). Each of the two does break
it, and finding 5 tells how. The other three properties are about servers that
keep `apart`. `SettledIsWhole` says that the refs and the archive agree when
all is quiet; a backup may then be left, for a failed prune does not ask
whether its deletion succeeded (`artifact-store.ts:1420`), but only beside its
anchor or after a decision. `MovedOnlyAsIntended` and
`IntentOutlivesQuarantine` tie the quarantine to the line in the journal that
is the only way back.

Of a workflow, `OneDriver` is the lease against every exit and resume;
`PromotedInOrder` and `AcceptedAsStaged` relate branch, state and decisions
after any number of repeated promotions; `BranchLeads` says that state and
journal never speak of a commit the branch does not have, and that the branch
is at most one ahead; `JournalCovered` that a checkpoint never runs ahead of
the journal, which would make the workflow unreadable; `VerdictStands` that the
gate in the state is the report's; `HandedOverWhole` that what is handed over
has a commit for every task and neither worktree, base ref nor ownership record
left. `ImplementsAtomicWorkflow` compares all of it with the promise.

### What the violated ones say

Each states a sentence of the repository and shows a run of the code against
it; `PROJECT.json` quotes the sentences.

1. `lock_recovery`: recovery.lock is reclaimed with no lease around it. A
   reclaimer that has checked a dead lock removes by path what by then is
   another server's.
2. `archive_unsliced_gap`: the attempt of an unsliced pipeline archives a
   verified candidate before the pipeline has a marker; what ends it there
   leaves that archive.
3. `waves_abandoned`: a wave whose first slice throws is abandoned: the others
   go on making and removing worktrees after the lease is released.
4. `prune_replay`: a server that exits while it prunes leaves an intent and the
   checkout lock. The replay takes the lock as any caller would, before the
   stage that would clear it, throws, and with it every later start.
5. `prune_overlap`: the undoing of a failed prune appends its rollback after
   the lease was released; by then the pending intent may be another server's,
   whose quarantine nothing finds again. The same undo moves the archive back,
   restores the anchor and deletes the backup while another server works on
   the run under the lease. A replay that found the archive in its quarantine
   removes the restored anchor, the undo the backup, and the archive is back
   with no ref naming its candidate. Or the replay puts anchor and archive
   right, its server prunes the run anew and makes its backup, under the same
   name, and the late undo deletes that one. `StaysNamed` shows that there is
   no third way.

### Observations

Met while modelling; none has a run of its own.

- Prune never reads decision.json (`artifact-store.ts:1731`), while
  `docs/PRIVACY.md:37` speaks of always retaining undecided runs.
- A halted sliced pipeline archives what has landed as `verified-candidate`
  whether or not verification passed on it (`CONTEXT.md:377`); a halted slice
  that wrote out of its scope, onto a path of its wave, fails the whole run.
- An integration that finds the checkout diverged after applying reports a
  conflict and leaves the tree staged (`CONTEXT.md:164`).
- A worktree removal whose replay is cut off between deleting the directory
  and dropping the manifest leaves a manifest that
  `planWorktreeRemovalReplay` refuses for ever (the replay never records
  `physical-removed`). Nothing is at stake (`RefusedIsResidue`), but the gate
  refuses every operation on the repository.
- `failCreatedWorktree` does not drop the manifest of the creation, so the
  gate refuses everything until the next start.
- A prune does not look for a pending intent of its run; a second one shadows
  the first. Without a repository a prune takes no lease, and every server
  prunes when it starts, so two starts can meet there.
- A backup that a failed prune could not delete (`artifact-store.ts:1420`)
  makes every later prune of the run fail, for the backup must be new. Once a
  decision has removed the anchor, nothing deletes that backup: the run is
  pruned as one without an anchor, and the ref stays for good.
- The replay of a rollback can bring back an anchor that a decision has
  removed meanwhile; a rejection while an intent without a backup is pending
  makes the replay throw.
- A workflow whose server exits while it moves the owner record (between
  removing a dead one and creating its own, or between creating the workflow
  and taking its lease) has no usable owner, and resume refuses it for ever.
- A resume that throws after adopting the lease keeps it until its server is
  started again; a checkout that is busy at a promotion ends the workflow; a
  failing removal of an anchor halts a workflow whose commit is already made.
- Recovery reports a workflow cut off in a promotion as needing a human,
  although resume can finish it. The cleanup of a branch does not look for
  uncommitted edits in the worktree it removes.

### Fairness

- `lock_turnover` (`TurnoverSpec`): servers exit and start again, weakly fair,
  and each step of a sweep and a reclaim that is possible again and again,
  in some process, is taken. This says that not every recovery pass is cut off
  at the same point; it is a claim about the world, for the code has no retry
  of its own inside a pass.
- `archive_safety`: recovery's steps are strongly fair: a server is started
  again and again and in the end each step succeeds. `Close`, the end of an
  operation, is weakly fair. Nothing makes the Host decide or a pipeline end.
- `waves_core` and `waves_abandoned` (`FairSpec`): the next server's recovery
  comes, and nothing else is asked. The runner and its workers may stop
  anywhere; what they have left goes all the same. Exits are never fair.
- `prune_replay` (`FairSpec`): each server carries out what it has begun and is
  started when it is down. The property itself only asks about behaviours in
  which servers stop exiting but for a start that failed.
- `worktree_safety`, `prune_safety`, `prune_overlap` and `autopilot_safety`
  state no fairness; nothing in the code brings a Host back to a workflow or a
  repository.

## 4. Proofs

Eight modules prove what the runs check, and some of what no run of theirs
asks, for every value of the constants.

`CheckoutLockProofs`, for every set of processes and files and every choice of
faults:

| Theorem | Statement |
|---|---|
| `TypeCorrect` | `Spec => []TypeOK` |
| `HeldStaysPublished` | `UnderLease => (Spec => []HeldIsPublished)` |
| `LockExcludes` | `UnderLease => (Spec => []MutualExclusion)` |
| `NothingLeftLocked` | `UnderLease /\ "io" \notin Faults => (Spec => []NoLockLeft)` |
| `KeepsPromise` | `UnderLease => (Spec => ImplementsAbstractLock)` |
| `ExcludesUnlessRemovalsMeet` | `Spec /\ []OneRemoval => []MutualExclusion /\ []HeldIsPublished` |
| `PromisedUnlessRemovalsMeet` | `Spec /\ []OneRemoval => ImplementsAbstractLock` |

Neither safety property is inductive: a check by path says nothing about the
moment of the removal. `LeaseInv` adds what makes it so. `HandlesTracked` ties
a position to the handles open there; `OnePass` says one recovery pass runs
and every reclaim belongs to it; `OwnRecord` that an acquisition's file names
its process and is nobody else's; `OwnLockStays` that from the link to the
removal the lock name is that file; `ReclaimsTheDead` that what a reclaim has
found dead is dead and, from the check on, still there. With one reclaimer the
only process that can take away a dead lock is the one that checked it, and a
live holder's lock fails the owner check, so the name cannot change between
check and removal. `LeaseInvNext` goes through the actions, with one lemma for
the ones that only return and one for the ones that detach a file.
`KeepsPromise` then maps each step to a step of `AbstractLock` or to none:
linking is `Claim`, the last validation `Work`, the start of the release
`Rest`, the removals `Drop` and `Reclaim`, an exit `Leave`. The assumption is
the point of `lock_recovery`: those theorems hold for checkout locks as far as
recovery.lock excludes, and it does not quite. The last two say how far, for
recovery.lock too. What every step keeps for both kinds of lock, as long as no
two removals meet, is `ProtocolInv`, which has no `OnePass`; the one step that
can break it is a removal by path while another server is between its own
check and its removal (`removeLockIfUnchanged`). Behaviours in which that
never happens (`OneRemoval`, which says nothing of who reclaims, when or how
often) keep the whole promise, so finding 1 has this cause and no other.
`NothingLeftLocked` needs besides that no call fails: then no published lock
is undone (`Undisturbed`), and a process lets go of its file only with the
lock. With `"io"` it is false, and meant to be: a removal that fails leaves a
lock that only the exit of its process frees.

`CandidateLifecycleProofs`, for any number of commits, any kinds of run and
any faults:

| Theorem | Statement |
|---|---|
| `TypeCorrect` | `Spec => []TypeOK` |
| `OnlyAcceptedBytes` | `Spec => []OnlyAcceptedStaged` |
| `AnchorHeld` | `Spec => []AcceptedStaysAnchored` |
| `RejectionSendable` | `Spec => []RejectionRepairable` |
| `DecisionsStand` | `Spec => DecisionFinal` |
| `NothingUnsettled` | `Spec => []SlicedLeavesNothing` |
| `AutonomyIsEarned` | `Spec => []AutonomyEarned` |
| `InterruptedCanSettle` | `Spec => []InterruptedSettleable` |

What a step may do depends on what its operation read several steps before.
`TypeInv` ties `pc` to the operation and to what it carries. `DecisionInv`
says that what was decided on is in the archive as it was seen, that no step
which replaces an archive is under way beside a decision, and that an
operation about to decide or to apply has read what is still there.
`PipelineInv` says that an archive is replaced only from what the pipeline
knows, and that a sliced pipeline's verified result is under its marker or
beside its verdict. `EvidenceInv` follows the evidence: a result that is
written, known or being written claims no more than was established.

`InterruptedSettleable` is what of `InterruptedSettles` is a matter of safety:
wherever a server exits, an interrupted pipeline is left in nobody's hands but
recovery's, and whatever step its recovery is at, the files it reads are there
and no decision refuses what it writes. That the step is then taken, and some
day succeeds, is the fairness the run assumes. `SettlingInv` is what it needs:
an attempt, a review or an end of a pipeline goes on only while its server
does, and a result is verified only beside a manifest.

`SliceWavesProofs`, for any number of slices, paths and rounds, every plan
whose dependencies point backwards, and any faults:

| Theorem | Statement |
|---|---|
| `TypeCorrect` | `Spec => []TypeOK` |
| `NoCollision` | `Spec => []AdvancedNeverCollide` |
| `ComposesInOrder` | `Spec => []ComposedIsSequential` |
| `BuiltOnDependencies` | `Spec => []DependenciesSeen` |
| `NothingLeft` | `Spec => []ReturnLeavesNothing` |
| `NeverOutOfWaves` | `Spec => []WavesAreScheduled` |
| `PhaseEnds` | `Spec => [](ToGo \in Nat /\ \A i : Ahead(i) \in Nat) /\ [][WindsDown]_vars` |
| `IsSequential` | `Spec => ImplementsSequentialSlices` |

`WaveInv` says that what is recorded has settled (`Recorded`), that a slice
which advances stayed in its allowlist and no two allowlists of a wave overlap
(`Confined`), and that the head differs from the wave's base only where a
recorded slice of the wave wrote (`HeadOfWave`); a collision of two slices
that advance contradicts the three, because allowlists that do not overlap
share no path. `ComposedIsSequential` is then inductive, since only composing
moves the head and no worker moves a settled slice, and a new wave takes its
base from it, which gives `DependenciesSeen`. `LeftInv` ties worktrees to
workers, or to the report of a failed removal, and refs to what the runner
knows. `NeverOutOfWaves` says that the fallback of `slice-scheduler.ts:60`
against spinning for ever is about a case that dependencies which point
backwards rule out: the first pending slice can always start a wave, and the
wave is then unique, so the lazy evaluation loses nothing. For `IsSequential`
a slice is made when it is composed: by then what it depends on has been made
and what it wrote is in its allowlist; `EndInv` ties the outcome to the slices
composed so far. `PhaseEnds` counts: what the runner (`ToGo`) and each worker
(`Ahead`) have before them is a natural number that each step of theirs lowers
and no step raises, so that the loops end, those of workers left running after
their phase was given up too. `LeftoversGo` rests on it: abandoned workers
make leftovers only so often, and then recovery, the one thing the run
assumes, has the last word.

`SliceScopesProofs`, for any globs and paths:

| Theorem | Statement |
|---|---|
| `SeparateScopes` | allowlists that do not overlap allow no two paths of which one is, or leads to, the other |
| `OverlapIsOfPrefixes` | allowlists overlap exactly if two of their globs have comparable literal prefixes |

What a glob matches begins with the glob's literal prefix
(`MatchBeginsLiterally`, by the first part at which the two would differ), two
prefixes of one path are comparable, and the scheduler takes comparable
prefixes to overlap. This is what `NoCollision` rests on. The second theorem
says that the other three tests of `allowlistsOverlap` add nothing: they are
harmless, and no pair is separated by them.

`AutopilotWorkflowProofs`, for any servers, number of tasks and runs, and any
faults:

| Theorem | Statement |
|---|---|
| `TypeCorrect` | `Spec => []TypeOK` |
| `OnlyOwnerDrives` | `Spec => []OneDriver` |
| `PromotionsInOrder` | `Spec => []PromotedInOrder` |
| `CheckpointCovered` | `Spec => []JournalCovered` |
| `PublishedVerdictStands` | `Spec => []VerdictStands` |

`WorkInv` says that a server works from the state on disk or from an earlier
revision of it, and that a revision identifies a state: a compare and swap
that succeeds has replaced the state its server knew, and under the writer
lock of a promotion that state is locked. `BranchFollows` puts every commit in
its task's place with only a foreign one on top; `CoverInv` counts the entries
of the journal under the checkpoint; `VerdictInv` says that whoever knows a
verdict, other than to publish it, knows the published one.

`AutopilotBranchProofs`, from these results, again for any servers, tasks and
faults:

| Theorem | Statement |
|---|---|
| `BranchIsAhead` | `Spec => []BranchLeads` |
| `AcceptedFirst` | `Spec => []AcceptedAsStaged` |
| `HandsOverWhole` | `Spec => []HandedOverWhole` |
| `IsAtomicWorkflow` | `Spec => ImplementsAtomicWorkflow` |

`BranchInv` relates the branch to what is on disk: `Led`, that each task the
state or the journal calls promoted has its commit; `Accepted`, that a commit
was accepted and an acceptance is committed or at hand; `Closed`, that a
completed cleanup left only the branch. `Here(s)` says what a server knows
where it is, since between a commit and the state that records it the server's
place is all that tells. `Young` is needed because a start that is taken back
removes the branch: whoever takes it back finds that nothing has been done yet
(`Unused`), which holds only because the state of a started workflow has been
written since its creation. For the refinement, each step either leaves the set
of promoted commits and the outcome alone, promotes one more under a lease
while the outcome is open, or ends an open workflow.

`WorktreeTransactionProofs`, for any servers, transactions and faults:

| Theorem | Statement |
|---|---|
| `TypeCorrect` | `Spec => []TypeOK` |
| `SettledWhole` | `Spec => []SettledIsWhole` |
| `AdmittedOnWhole` | `Spec => []AdmittedWhole` |
| `RefusedResidue` | `Spec => []RefusedIsResidue` |
| `DeletedOnlyStarted` | `Spec => DeletedOnlyOnceStarted` |
| `IsAtomic` | `Spec => ImplementsAtomicWorktree` |

What is on disk is the work of whoever held the lease before, up to some step
of it. `Held` says that work under way is the lease holder's. `TreeInv` says
what each stage of a pending manifest allows directory and registration to be,
whoever left it, and `Here(s)` what the server at work knows at its place
about the same state. An exit leaves `TreeInv` alone, and admission starts
again from it: a manifest never claims a step that has not been taken, so what
is read back is enough to take the rest.

`PruneTransactionProofs`, for any servers, quarantine names and faults; the
first two for every behaviour, the others for those in which servers keep
`apart`:

| Theorem | Statement |
|---|---|
| `TypeCorrect` | `Spec => []TypeOK` |
| `StaysNamed` | `Spec => NamedUnlessUndoMeets` |
| `SettledWhole` | `Spec => []SettledIsWhole` |
| `NotOrphaned` | `Spec => [](apart => NeverOrphaned)` |
| `MovesAsIntended` | `Spec => MovedOnlyAsIntended` |
| `IntentsOutlive` | `Spec => IntentOutlivesQuarantine` |
| `ReplayFindsRefs` | `Spec => [](apart => NothingIsMissing)` |
| `StartsEnd` | `Spec => [](apart => \A s : Left(s) \in 0..21) /\ [][apart => \A s : EndsSoon(s)]_vars` |

`Order` says that one server acts at a time, held apart by the lease, by
recovery.lock or by the others being at rest; `ReadInv` that what a pass has
read of the journal is still pending or the prune it belongs to has ended
meanwhile; `RunInv` relates archive and refs to the journal's intent;
`Here(s)` says what the acting server knows. That servers keep apart is what
the run `prune_overlap` is about: where they do not, `NeverOrphaned` is
violated, and `NotOrphaned` shows that nothing else violates it. `StaysNamed`
needs no such premise and none of these invariants: servers may prune, fail,
undo, replay and exit in any order. `OverlapInv` is what is left of them then:
the lease is held where it is taken (`LeaseHeld`), no two prunes use one
quarantine and an archive is in none that is still to be used (`NamesApart`),
the anchor a prune has found stays up to its removal and is then backed up
(`AnchorKept`), and whoever deletes a backup has restored the anchor or has
found the archive gone from its place (`BackupSpared`). Only two steps can
break it, an undo that moves the archive back under a replay and an undo that
deletes the backup of another's prune, and both are `UndoMeets`.
`ReplayFindsRefs` is about the steps that would throw for ever if what they
ask for were gone (the backup to commit with, the archive to move back, an
anchor to restore): apart from failing calls they are refused only because the
user has deleted the repository or a decision has removed the anchor, which is
the observation above. `RefsInv` adds to the others that an intent recorded
without an anchor stays without one, and that a prune which is undone keeps
its backup until it takes it away. `StartsEnd` counts too: a start, its
recovery pass and its prune included, has at most 21 steps left (`Left`), each
of its own takes one at least, and nobody else's adds any, although others
write the refs that the replay's loop tests. Where an intent is never
replayed, as in the run `prune_replay`, each start therefore ends by throwing;
it does not hang.

Only model-checked: the liveness properties (`AbandonedReclaimed`,
`InterruptedSettles`, `LeftoversGo`, and the refutation of `IntentReplayed`),
for fairness and `ENABLED` are beyond what the proof system reasons about. No
module declares a RECURSIVE operator, so all of them can be proved about.
`InterruptedSettleable`, `NothingIsMissing`, `PhaseEnds` and `StartsEnd` are
the parts of liveness that are safety and are proved. That `GlobMatches`
matches what the regular expression of `globMatches` does is a translation and
rests on reading it.

## 5. Not modelled

Producer HOMEs and the crash-level behaviour of durable writes have state and
hard cases and are planned below. The supervisor, the sandbox, the Windows
helper and the producer adapters are calls of the operating system and of
other programs, of which the models see only the outcome. Prompts, reports,
schemas, redaction and the doctor are pure functions or read-only. Letter case
is told apart in `SliceScopes`, as in `globMatches`; names that only a
case-insensitive checkout takes for one are left to the verification of the
composed candidate.

Of what is modelled: the window in which the writer lock of an exited server
is retired by check and removal, an exit inside the creation of an Autopilot
branch, the creation queue of one server's worktree manager and the
classification of orphaned directories are left out. Object collection by Git
is in no model, so that the head composed from a wave is named by no ref until
promotion (`slice-composer.ts:122`) is listed as a hazard and not checked.
`runtime/server.mjs` is what esbuild makes of `src/` and its dependencies:
what is modelled is the source, not the bundle.

## 6. Plan

Order of what is left, the most important first:

1. `ProducerHome`: claims, spawn, record and reclaim.
2. `DurableWrite`: files and names under power loss, refining the atomic
   write assumed above.
3. The creation of an Autopilot branch step by step, and the retirement of a
   dead writer lock.
4. recovery.lock and the checkout locks under it in one model: which passes of
   two servers make two removals meet (`OneRemoval`).
