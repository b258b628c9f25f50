------------------------- MODULE WorktreeTransaction -------------------------
(***************************************************************************)
(* How a managed worktree comes and goes (src/runtime/worktree-manager.ts, *)
(* worktree-transaction.ts) and how a start finishes or undoes what an     *)
(* exit interrupted (recovery-worktree-removals.ts, the worktree part of   *)
(* recovery-manager.ts and recovery-runs.ts).  A worktree is a directory   *)
(* and a Git registration.  Each is at home, gone, or at the private path  *)
(* of a transaction, whose manifest says how far the transaction got.      *)
(*                                                                         *)
(* One repository and one worktree path, several servers.  Directories are *)
(* moved only by this code, but for a user who erases one.                 *)
(***************************************************************************)
EXTENDS Naturals, FiniteSets

CONSTANTS
  Servers,
  Txns,    \* transaction identifiers; one is used again when nothing is left of it
  Faults   \* of "io": a step may fail; "git": Git may refuse; "user": a user erases the worktree;
           \* "late": a server starts while another is at work

NoTxn == "no transaction"
ASSUME TxnAssumption == {"home", "gone", NoTxn} \cap Txns = {}
ASSUME ServerAssumption == {"free", "dead", "nobody"} \cap Servers = {}

May(fault) == fault \in Faults

VARIABLES
  phys, reg, \* where the directory and the registration are
  file,      \* the manifest file of each transaction and its second link, if any
  note,      \* what it says: phase and physicalPresent
  lease,     \* the checkout lock; "dead" when its owner has exited
  passLock,  \* recovery.lock
  owner,     \* the server whose live run uses the worktree
  erased,    \* a user erased the directory of the worktree there is now
  pc, txn,   \* where a server stands, and on which transaction
  outer,     \* the creation around a removal that undoes it
  after,     \* what follows when the manifest has been dropped
  seen,      \* pending: the manifests a pass read before it had the lease
  unresolved \* issues of the last pass

tree == <<phys, reg>>
manifest == <<file, note>>
locks == <<lease, passLock>>
use == <<owner, erased>>
server == <<pc, txn, outer, after, seen, unresolved>>
vars == <<tree, manifest, locks, use, server>>

Blank == [phase |-> "none", present |-> FALSE]

Init ==
  /\ phys = "gone" /\ reg = "gone"
  /\ file = [t \in Txns |-> "absent"] /\ note = [t \in Txns |-> Blank]
  /\ lease = "free" /\ passLock = "free"
  /\ owner = "nobody" /\ erased = FALSE
  /\ pc = [s \in Servers |-> "down"]
  /\ txn = [s \in Servers |-> NoTxn] /\ outer = [s \in Servers |-> NoTxn]
  /\ after = [s \in Servers |-> "return"]
  /\ seen = [s \in Servers |-> [t \in Txns |-> Blank]]
  /\ unresolved = [s \in Servers |-> FALSE]

\* The names <transaction>.json that are there, linked twice or not.
Pending == {t \in Txns : file[t] \in {"linked", "plain", "guarded"}}

Free(t) == file[t] = "absent" /\ phys # t /\ reg # t

\* The worktree is there or it is not.
Whole == \/ phys = "home" /\ reg = "home"
         \/ phys = "gone" /\ reg = "gone"
         \/ phys = "gone" /\ reg = "home" /\ erased

At(s, place) == pc[s] = place
Go(s, place) == pc' = [pc EXCEPT ![s] = place]

\* The operation is over, well or not: the lease is released.
Back(s) == CASE after[s] = "replay" -> "replay" [] after[s] = "sweep" -> "endPass"
             [] OTHER -> "ready"

Leave(s) ==
  /\ lease' = "free"
  /\ Go(s, Back(s))
  /\ txn' = [txn EXCEPT ![s] = NoTxn] /\ outer' = [outer EXCEPT ![s] = NoTxn]
  /\ after' = [after EXCEPT ![s] = "return"]

\* A step throws and nothing undoes what was done.  Inside a pass it is an issue.
Throw(s) ==
  /\ Leave(s)
  /\ unresolved' = [unresolved EXCEPT ![s] = @ \/ after[s] \in {"replay", "sweep"}]
  /\ UNCHANGED <<tree, manifest, passLock, use, seen>>

Record(s, phase) == note' = [note EXCEPT ![txn[s]].phase = phase]

-----------------------------------------------------------------------------
(* withCheckoutLease: the lock, then the ambiguity gate *)

Admit(s, op) ==
  /\ At(s, "ready") /\ lease = "free"
  /\ op = "create" => ~unresolved[s] /\ owner = "nobody"
  /\ op = "remove" => owner = s
  /\ lease' = s
  /\ Go(s, IF op = "create" THEN "gateCreate" ELSE "gateRemove")
  /\ owner' = "nobody"
  /\ UNCHANGED <<tree, manifest, passLock, erased, txn, outer, after, seen, unresolved>>

\* Mutant: the gate looks at nothing.
GateOpen(s) ==
  /\ pc[s] \in {"gateCreate", "gateRemove"}
  /\ Go(s, IF At(s, "gateCreate") THEN "create" ELSE "remove")
  /\ UNCHANGED <<tree, manifest, locks, use, txn, outer, after, seen, unresolved>>

Gate(s) ==
  /\ pc[s] \in {"gateCreate", "gateRemove"}
  /\ IF Pending # {} THEN Throw(s)
     ELSE /\ Go(s, IF At(s, "gateCreate") THEN "create" ELSE "remove")
          /\ UNCHANGED <<tree, manifest, locks, use, txn, outer, after, seen, unresolved>>

-----------------------------------------------------------------------------
(* createUnderLease, createAttachedUnderLease *)

\* The intent is published under a temporary name, linked, and the name dropped.
Publish(s, t, phase, present) ==
  /\ Free(t)
  /\ file' = [file EXCEPT ![t] = "linked"]
  /\ note' = [note EXCEPT ![t] = [phase |-> phase, present |-> present]]
  /\ txn' = [txn EXCEPT ![s] = t]

CreateIntent(s) ==
  /\ At(s, "create") /\ phys = "gone" /\ reg = "gone"
  /\ \E t \in Txns : /\ Publish(s, t, "creation-intent", FALSE)
                     /\ outer' = [outer EXCEPT ![s] = t]
  /\ after' = [after EXCEPT ![s] = "own"]
  /\ erased' = FALSE
  /\ Go(s, "placeholder")
  /\ UNCHANGED <<tree, locks, owner, seen, unresolved>>

CreateElsewhere(s) == At(s, "create") /\ ~(phys = "gone" /\ reg = "gone") /\ Throw(s)

\* The temporary of a new manifest goes before anything else is done.
Settle(s) ==
  /\ txn[s] # NoTxn /\ file[txn[s]] = "linked" /\ pc[s] \in {"placeholder", "stage"}
  /\ file' = [file EXCEPT ![txn[s]] = "plain"]
  /\ UNCHANGED <<tree, note, locks, use, server>>

Settled(s) == txn[s] # NoTxn /\ file[txn[s]] # "linked"

MakePlaceholder(s) ==
  /\ At(s, "placeholder") /\ Settled(s)
  /\ phys' = txn[s] /\ Go(s, "bind")
  /\ UNCHANGED <<reg, manifest, locks, use, txn, outer, after, seen, unresolved>>

BindPlaceholder(s) ==
  /\ At(s, "bind")
  /\ note' = [note EXCEPT ![txn[s]].present = TRUE] /\ Go(s, "moveIn")
  /\ UNCHANGED <<tree, file, locks, use, txn, outer, after, seen, unresolved>>

MoveIn(s) ==
  /\ At(s, "moveIn")
  /\ phys' = "home" /\ Go(s, "add")
  /\ UNCHANGED <<reg, manifest, locks, use, txn, outer, after, seen, unresolved>>

AddWorktree(s) ==
  /\ At(s, "add")
  /\ reg' = "home" /\ Go(s, "check")
  /\ UNCHANGED <<phys, manifest, locks, use, txn, outer, after, seen, unresolved>>

\* failCreationAttempt: Git failed, with or without having registered the worktree.
AddFails(s) ==
  /\ May("git") /\ At(s, "add")
  /\ reg' \in {"gone", "home"}
  /\ Go(s, IF reg' = "home" THEN "remove" ELSE "unmake")
  /\ after' = [after EXCEPT ![s] = "forget"]
  /\ UNCHANGED <<phys, manifest, locks, use, txn, outer, seen, unresolved>>

Unmake(s) ==
  /\ At(s, "unmake")
  /\ phys' = "gone" /\ Go(s, "drop")
  /\ after' = [after EXCEPT ![s] = "return"]
  /\ UNCHANGED <<reg, manifest, locks, use, txn, outer, seen, unresolved>>

Checked(s) ==
  /\ At(s, "check") /\ Go(s, "drop")
  /\ UNCHANGED <<tree, manifest, locks, use, txn, outer, after, seen, unresolved>>

\* failCreatedWorktree: the worktree is removed; the creation's manifest stays.
CheckFails(s) ==
  /\ May("git") /\ At(s, "check") /\ Go(s, "remove")
  /\ after' = [after EXCEPT ![s] = "return"]
  /\ UNCHANGED <<tree, manifest, locks, use, txn, outer, seen, unresolved>>

-----------------------------------------------------------------------------
(* removeRegisteredWorktree, removeStaleWorktreeRegistration, coordinateWorktreeRemoval *)

\* Only cleanup after a dead run removes a registration whose directory is gone.
RemoveIntent(s) ==
  /\ At(s, "remove") /\ reg = "home"
  /\ phys = "home" \/ (phys = "gone" /\ after[s] = "sweep")
  /\ \E t \in Txns : Publish(s, t, "registration-intent", phys = "home")
  /\ Go(s, "stage")
  /\ UNCHANGED <<tree, locks, use, outer, after, seen, unresolved>>

\* What a cleanup finds gone needs no removal; anything else it cannot remove throws.
RemoveNothing(s) ==
  /\ At(s, "remove")
  /\ IF phys = "gone" /\ reg # "home" /\ after[s] = "sweep"
     THEN Leave(s) /\ UNCHANGED <<tree, manifest, passLock, use, seen, unresolved>>
     ELSE ~(reg = "home" /\ (phys = "home" \/ after[s] = "sweep")) /\ Throw(s)

StageRegistration(s) ==
  /\ At(s, "stage") /\ Settled(s)
  /\ reg' = txn[s] /\ Go(s, "markStaged")
  /\ UNCHANGED <<phys, manifest, locks, use, txn, outer, after, seen, unresolved>>

\* Mutant: the directory is quarantined before the intent to remove it is recorded.
MarkStagedOnly(s) ==
  /\ At(s, "markStaged")
  /\ Record(s, "registration-staged") /\ Go(s, "quarantine")
  /\ UNCHANGED <<tree, file, locks, use, txn, outer, after, seen, unresolved>>

MarkStaged(s) ==
  /\ At(s, "markStaged")
  /\ Record(s, "registration-staged") /\ Go(s, "markIntent")
  /\ UNCHANGED <<tree, file, locks, use, txn, outer, after, seen, unresolved>>

MarkIntent(s) ==
  /\ At(s, "markIntent")
  /\ Record(s, "physical-removal-intent") /\ Go(s, "quarantine")
  /\ UNCHANGED <<tree, file, locks, use, txn, outer, after, seen, unresolved>>

\* Mutant: the private path is that of the creation the removal undoes.
QuarantineOuter(s) ==
  /\ At(s, "quarantine")
  /\ phys' = IF note[txn[s]].present THEN outer[s] ELSE phys
  /\ Go(s, "markStarted")
  /\ UNCHANGED <<reg, manifest, locks, use, txn, outer, after, seen, unresolved>>

\* Mutant: the start of the removal is not recorded.
QuarantineAndDelete(s) ==
  /\ At(s, "quarantine")
  /\ phys' = IF note[txn[s]].present THEN txn[s] ELSE phys
  /\ Go(s, "delete")
  /\ UNCHANGED <<reg, manifest, locks, use, txn, outer, after, seen, unresolved>>

\* A missing directory is only checked to be still missing.
QuarantinePhysical(s) ==
  /\ At(s, "quarantine")
  /\ phys' = IF note[txn[s]].present THEN txn[s] ELSE phys
  /\ Go(s, "markStarted")
  /\ UNCHANGED <<reg, manifest, locks, use, txn, outer, after, seen, unresolved>>

MarkStarted(s) ==
  /\ At(s, "markStarted")
  /\ Record(s, "physical-removal-started") /\ Go(s, "delete")
  /\ UNCHANGED <<tree, file, locks, use, txn, outer, after, seen, unresolved>>

DeletePhysical(s) ==
  /\ At(s, "delete")
  /\ phys' = "gone" /\ Go(s, "markRemoved")
  /\ UNCHANGED <<reg, manifest, locks, use, txn, outer, after, seen, unresolved>>

MarkRemoved(s) ==
  /\ At(s, "markRemoved")
  /\ Record(s, "physical-removed") /\ Go(s, "commit")
  /\ UNCHANGED <<tree, file, locks, use, txn, outer, after, seen, unresolved>>

CommitRegistration(s) ==
  /\ At(s, "commit")
  /\ reg' = "gone" /\ Go(s, "drop")
  /\ UNCHANGED <<phys, manifest, locks, use, txn, outer, after, seen, unresolved>>

\* A failure before the start is undone: the directory goes back (rollbackQuarantine), then
\* the registration (rollbackPrecommit), then the manifest, and the operation throws.
FailsBeforeStart(s) ==
  /\ May("io") /\ pc[s] \in {"stage", "markStaged", "markIntent", "quarantine", "markStarted"}
  /\ Settled(s)
  /\ phys' = IF phys = txn[s] THEN "home" ELSE phys
  /\ Go(s, "rollback")
  /\ after' = [after EXCEPT ![s] = IF @ = "sweep" THEN @ ELSE "return"]
  /\ unresolved' = [unresolved EXCEPT ![s] = @ \/ after[s] = "sweep"]
  /\ UNCHANGED <<reg, manifest, locks, use, txn, outer, seen>>

\* Mutant: the registration stays where it was staged.
RollbackManifestOnly(s) ==
  /\ At(s, "rollback") /\ Go(s, "drop")
  /\ UNCHANGED <<tree, manifest, locks, use, txn, outer, after, seen, unresolved>>

RollbackRegistration(s) ==
  /\ At(s, "rollback")
  /\ reg' = "home" /\ Go(s, "drop")
  /\ UNCHANGED <<phys, manifest, locks, use, txn, outer, after, seen, unresolved>>

-----------------------------------------------------------------------------
(* removeWorktreeRemovalManifest: a second link guards the removal of the name *)

GuardManifest(s) ==
  /\ At(s, "drop")
  /\ IF file[txn[s]] # "plain" THEN Throw(s)
     ELSE /\ file' = [file EXCEPT ![txn[s]] = "guarded"] /\ Go(s, "dropName")
          /\ UNCHANGED <<tree, note, locks, use, txn, outer, after, seen, unresolved>>

\* Without its guard, which a starting server may have taken for a leftover, it throws.
DropName(s) ==
  /\ At(s, "dropName")
  /\ IF file[txn[s]] # "guarded" THEN Throw(s)
     ELSE /\ file' = [file EXCEPT ![txn[s]] = "guard"] /\ Go(s, "dropGuard")
          /\ UNCHANGED <<tree, note, locks, use, txn, outer, after, seen, unresolved>>

DropGuard(s) ==
  /\ At(s, "dropGuard")
  /\ IF file[txn[s]] # "guard" THEN Throw(s)
     ELSE /\ file' = [file EXCEPT ![txn[s]] = "absent"]
          /\ note' = [note EXCEPT ![txn[s]] = Blank]
          /\ IF after[s] = "forget"
             THEN /\ txn' = [txn EXCEPT ![s] = outer[s]]
                  /\ after' = [after EXCEPT ![s] = "return"]
                  /\ Go(s, "drop")
                  /\ UNCHANGED <<lease, outer, owner>>
             ELSE /\ Leave(s)
                  /\ owner' = IF after[s] = "own" THEN s ELSE owner
          /\ UNCHANGED <<tree, passLock, erased, seen, unresolved>>

\* A step fails with nothing to undo it: the manifest stays for the next start.
Fails(s) ==
  /\ May("io") /\ lease = s
  /\ pc[s] \notin {"gateCreate", "gateRemove"}
  /\ pc[s] \in {"stage", "markStaged", "markIntent", "quarantine"} => ~Settled(s)
  /\ Throw(s)

-----------------------------------------------------------------------------
(* recoverStaleRuns: one pass at a time *)

\* A start, or a call that repeats the pass because the last one left issues; either is
\* deferred, with no issues, while another server recovers.
BeginPass(s) ==
  /\ At(s, "down") \/ (At(s, "ready") /\ unresolved[s])
  /\ ~May("late") => lease \notin Servers /\ passLock = "free"
  /\ IF passLock = "free" THEN passLock' = s /\ Go(s, "reclaim")
     ELSE Go(s, "ready") /\ UNCHANGED passLock
  /\ unresolved' = [unresolved EXCEPT ![s] = FALSE]
  /\ UNCHANGED <<tree, manifest, lease, use, txn, outer, after, seen>>

\* reclaimPendingRemovalLocks
ReclaimPending(s) ==
  /\ At(s, "reclaim")
  /\ lease' = IF lease = "dead" /\ Pending # {} THEN "free" ELSE lease
  /\ Go(s, "read")
  /\ UNCHANGED <<tree, manifest, passLock, use, txn, outer, after, seen, unresolved>>

\* readPendingWorktreeRemovalManifests, under no lease: guards go, manifests are read.
ReadPending(s) ==
  /\ At(s, "read")
  /\ file' = [t \in Txns |-> CASE file[t] = "guarded" -> "plain" [] file[t] = "guard" -> "absent"
                               [] OTHER -> file[t]]
  /\ note' = [t \in Txns |-> IF t \in Pending THEN note[t] ELSE Blank]
  /\ seen' = [seen EXCEPT ![s] = [t \in Txns |-> IF t \in Pending THEN note[t] ELSE Blank]]
  /\ Go(s, "replay")
  /\ UNCHANGED <<tree, locks, use, txn, outer, after, unresolved>>

Todo(s) == {t \in Txns : seen[s][t] # Blank}
Done(s, t) == seen' = [seen EXCEPT ![s][t] = Blank]
Creation(m) == m.phase = "creation-intent"

\* planWorktreeRemovalReplay, and the checks of recoverPendingWorktreeRemovals around it.
\* A transaction sees the directory and the registration at home and at its own paths only.
Sees(t, where) == IF where \in {"home", t} THEN where ELSE "gone"

RollsBack(m, at) ==
  CASE m.phase = "registration-intent" -> ~m.present \/ at = "home"
    [] m.phase = "registration-staged" -> IF m.present THEN at = "home" ELSE at = "gone"
    [] m.phase = "physical-removal-intent" -> IF m.present THEN at # "gone" ELSE at = "gone"
    [] OTHER -> FALSE

Refuses(t, m) ==
  LET at == Sees(t, phys)  active == Sees(t, reg) # "gone"  committed == m.phase = "physical-removed"
  IN \/ ~active /\ ~committed
     \/ at # "gone" /\ (committed \/ ~m.present)
     \/ m.phase = "registration-staged" /\ ~RollsBack(m, at)
     \/ m.phase = "physical-removal-intent" /\ m.present /\ at = "gone"
     \/ m.present /\ at = "gone" /\ phys # "gone"
     \/ ~RollsBack(m, at) /\ reg = "home"

\* recoverWorktreeCreationIntent
RefusesUndo(t, m) == ~m.present /\ (phys = "home" \/ reg \in {"home", t})

Rejects(t, m) == IF Creation(m) THEN RefusesUndo(t, m) ELSE Refuses(t, m)

\* Mutant: what was read is used as it was.
SameAsRead(t, m) == m # Blank

Same(t, m) == file[t] \in {"linked", "plain"} /\ note[t] = m

\* What was read is checked again under the lease.
ReplayBegins(s) ==
  /\ At(s, "replay") /\ lease = "free"
  /\ \E t \in Todo(s) :
       LET m == seen[s][t] IN
       /\ Same(t, m) /\ ~Rejects(t, m)
       /\ lease' = s /\ txn' = [txn EXCEPT ![s] = t]
       /\ file' = [file EXCEPT ![t] = "plain"]
       /\ after' = [after EXCEPT ![s] = "replay"]
       /\ Go(s, IF Creation(m) THEN "undo" ELSE IF RollsBack(m, Sees(t, phys)) THEN "restore"
                ELSE "complete")
       /\ Done(s, t)
  /\ UNCHANGED <<tree, note, passLock, use, outer, unresolved>>

\* A removal somebody else finished is no issue, unless its manifest was read half published.
ReplayMoot(s) ==
  /\ At(s, "replay") /\ lease = "free"
  /\ \E t \in Todo(s) : ~Creation(seen[s][t]) /\ t \notin Pending /\ Done(s, t)
  /\ UNCHANGED <<tree, manifest, locks, use, pc, txn, outer, after, unresolved>>

\* An issue: the lease is taken, the manifest has changed, or the state is refused.
ReplayIssue(s) ==
  /\ At(s, "replay")
  /\ \E t \in Todo(s) :
       LET m == seen[s][t] IN
       /\ \/ lease # "free"
          \/ ~Same(t, m)
          \/ Same(t, m) /\ Rejects(t, m)
       /\ Done(s, t)
  /\ unresolved' = [unresolved EXCEPT ![s] = TRUE]
  /\ UNCHANGED <<tree, manifest, locks, use, pc, txn, outer, after>>

\* Stale runs and orphans are cleaned up only after a pass without issues.
ReplayEnds(s) ==
  /\ At(s, "replay") /\ Todo(s) = {}
  /\ Go(s, IF unresolved[s] THEN "endPass" ELSE "sweep")
  /\ UNCHANGED <<tree, manifest, locks, use, txn, outer, after, seen, unresolved>>

Restore(s) ==
  /\ At(s, "restore")
  /\ IF phys = txn[s] THEN phys' = "home" /\ UNCHANGED <<reg, pc>>
     ELSE /\ reg' = "home" /\ Go(s, "drop") /\ UNCHANGED phys
  /\ UNCHANGED <<manifest, locks, use, txn, outer, after, seen, unresolved>>

Complete(s) ==
  /\ At(s, "complete")
  /\ CASE phys = "home" -> phys' = txn[s] /\ UNCHANGED <<reg, pc>>
       [] phys = txn[s] -> phys' = "gone" /\ UNCHANGED <<reg, pc>>
       [] OTHER -> reg' = (IF reg = txn[s] THEN "gone" ELSE reg) /\ Go(s, "drop") /\ UNCHANGED phys
  /\ UNCHANGED <<manifest, locks, use, txn, outer, after, seen, unresolved>>

\* recoverWorktreeCreationIntent takes a creation back whole.
Undo(s) ==
  /\ At(s, "undo")
  /\ CASE reg = "home" -> reg' = txn[s] /\ UNCHANGED <<phys, pc>>
       [] reg # "home" /\ phys \in {"home", txn[s]} -> phys' = "gone" /\ UNCHANGED <<reg, pc>>
       [] OTHER -> reg' = (IF reg = txn[s] THEN "gone" ELSE reg) /\ Go(s, "drop") /\ UNCHANGED phys
  /\ UNCHANGED <<manifest, locks, use, txn, outer, after, seen, unresolved>>

\* Cleanup after a run whose server has exited takes the lock over and passes no gate.
Sweep(s) ==
  /\ At(s, "sweep")
  /\ IF owner = "nobody" /\ lease \in {"free", "dead"} /\ (phys = "home" \/ reg = "home")
     THEN /\ lease' = s /\ Go(s, "remove")
          /\ after' = [after EXCEPT ![s] = "sweep"]
     ELSE Go(s, "endPass") /\ UNCHANGED <<lease, after>>
  /\ UNCHANGED <<tree, manifest, passLock, use, txn, outer, seen, unresolved>>

EndPass(s) ==
  /\ At(s, "endPass")
  /\ lease' = IF lease = "dead" THEN "free" ELSE lease
  /\ passLock' = "free" /\ Go(s, "ready")
  /\ UNCHANGED <<tree, manifest, use, txn, outer, after, seen, unresolved>>

-----------------------------------------------------------------------------
Exit(s) ==
  /\ ~At(s, "down") /\ Go(s, "down")
  /\ lease' = IF lease = s THEN "dead" ELSE lease
  /\ passLock' = IF passLock = s THEN "free" ELSE passLock
  /\ owner' = IF owner = s THEN "nobody" ELSE owner
  /\ txn' = [txn EXCEPT ![s] = NoTxn] /\ outer' = [outer EXCEPT ![s] = NoTxn]
  /\ after' = [after EXCEPT ![s] = "return"]
  /\ seen' = [seen EXCEPT ![s] = [t \in Txns |-> Blank]]
  /\ unresolved' = [unresolved EXCEPT ![s] = FALSE]
  /\ UNCHANGED <<tree, manifest, erased>>

UserErases ==
  /\ May("user") /\ Pending = {} /\ lease \notin Servers /\ phys = "home"
  /\ phys' = "gone" /\ erased' = TRUE
  /\ UNCHANGED <<reg, manifest, locks, owner, server>>

Create(s) ==
  \/ CreateIntent(s) \/ CreateElsewhere(s) \/ MakePlaceholder(s) \/ BindPlaceholder(s) \/ MoveIn(s)
  \/ AddWorktree(s) \/ AddFails(s) \/ Unmake(s) \/ Checked(s) \/ CheckFails(s)

Remove(s) ==
  \/ RemoveIntent(s) \/ RemoveNothing(s) \/ StageRegistration(s) \/ MarkStaged(s)
  \/ MarkIntent(s) \/ QuarantinePhysical(s) \/ MarkStarted(s) \/ DeletePhysical(s)
  \/ MarkRemoved(s) \/ CommitRegistration(s) \/ FailsBeforeStart(s) \/ RollbackRegistration(s)

Pass(s) ==
  \/ BeginPass(s) \/ ReclaimPending(s) \/ ReadPending(s)
  \/ ReplayBegins(s) \/ ReplayMoot(s) \/ ReplayIssue(s) \/ ReplayEnds(s)
  \/ Restore(s) \/ Complete(s) \/ Undo(s) \/ Sweep(s) \/ EndPass(s)

Drop(s) == Settle(s) \/ GuardManifest(s) \/ DropName(s) \/ DropGuard(s)

Step(s) ==
  \/ Admit(s, "create") \/ Admit(s, "remove") \/ Gate(s)
  \/ Create(s) \/ Remove(s) \/ Drop(s) \/ Fails(s) \/ Pass(s)

Next == UserErases \/ \E s \in Servers : Step(s) \/ Exit(s)

Spec == Init /\ [][Next]_vars

-----------------------------------------------------------------------------
Phases == {"none", "creation-intent", "registration-intent", "registration-staged",
           "physical-removal-intent", "physical-removal-started", "physical-removed"}
Note == [phase : Phases, present : BOOLEAN]
Idle == {"down", "ready", "reclaim", "read", "replay", "sweep", "endPass"}
Working == {"gateCreate", "gateRemove", "create", "placeholder", "bind", "moveIn", "add", "check",
            "unmake", "remove", "stage", "markStaged", "markIntent", "quarantine", "markStarted",
            "delete", "markRemoved", "commit", "rollback", "restore", "complete", "undo",
            "drop", "dropName", "dropGuard"}

TypeOK ==
  /\ phys \in {"home", "gone"} \cup Txns /\ reg \in {"home", "gone"} \cup Txns
  /\ file \in [Txns -> {"absent", "linked", "plain", "guarded", "guard"}]
  /\ note \in [Txns -> Note]
  /\ lease \in Servers \cup {"free", "dead"} /\ passLock \in Servers \cup {"free"}
  /\ owner \in Servers \cup {"nobody"} /\ erased \in BOOLEAN
  /\ pc \in [Servers -> Idle \cup Working]
  /\ txn \in [Servers -> Txns \cup {NoTxn}] /\ outer \in [Servers -> Txns \cup {NoTxn}]
  /\ after \in [Servers -> {"return", "own", "forget", "replay", "sweep"}]
  /\ seen \in [Servers -> [Txns -> Note]] /\ unresolved \in [Servers -> BOOLEAN]

\* When no transaction is pending, the worktree is there with its registration or both are
\* gone: no exit, failure or race leaves half a worktree that no manifest speaks of.
SettledIsWhole == Pending = {} => Whole

\* An operation that withCheckoutLease lets in never works on half a worktree, because the
\* ambiguity gate has turned it away while any transaction is pending.
AdmittedWhole == \A s \in Servers : pc[s] \in {"create", "remove"} /\ after[s] = "return" => Whole

\* When recovery refuses to replay every pending manifest, nothing is at stake any more: the
\* directory is gone and Git does not list the worktree.
Stuck == Pending # {} /\ \A t \in Pending : Rejects(t, note[t])
RefusedIsResidue == Stuck /\ lease = "free" => phys = "gone" /\ reg # "home"

\* No step deletes the directory of a worktree unless a pending manifest says that its
\* removal has started, or that it was still being created.
DeletedOnlyOnceStarted ==
  [][phys # "gone" /\ phys' = "gone" /\ ~erased'
     => \E t \in Pending : note[t].phase \in {"physical-removal-started", "creation-intent"}]_vars

\* A worktree is there from the step that drops the manifest of its creation to the one that
\* records that its removal has started, whatever an exit leaves and recovery does.
Committed(t) == note[t].phase \in {"creation-intent", "physical-removal-started", "physical-removed"}
There == reg # "gone" /\ \A t \in Pending : ~Committed(t)
Atomic == INSTANCE AtomicWorktree WITH there <- There
ImplementsAtomicWorktree == Atomic!Spec
=============================================================================
