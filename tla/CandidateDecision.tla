--------------------------- MODULE CandidateDecision ---------------------------
(***************************************************************************)
(* What the Host does with an archived candidate: reviewCandidate,         *)
(* decideCandidate and integrateCandidate (src/mcp/tools.ts), the          *)
(* acceptance rule (src/runtime/run-decision.ts), the one that records     *)
(* a decision (src/runtime/candidate-decisions.ts) and the integrator      *)
(* (src/integrate/controlled-integrator.ts).  The user's own Git           *)
(* commands in the checkout come between any two steps.                    *)
(***************************************************************************)
EXTENDS RunArchive

\* The checkout lease is taken, the archive read, and the pipeline inactive.
ArchiveOpens == LeaseFree /\ Readable /\ ~marker

-----------------------------------------------------------------------------
(* The acceptance rule *)

\* The clearance record: a file, or else the copy in the result.
GateRecord == IF gate # None THEN gate
              ELSE IF "gateCleared" \in result.ev THEN result.cand ELSE None

\* Mutant: a run without pipeline evidence passes for a plain attempt.
PlainByAbsence == GateRecord = None

PlainDelegate == "plainDelegate" \in result.ev /\ GateRecord = None

\* verdictFor is "accepted": no person is needed.
VerdictAccepts ==
  /\ Verified(result)
  /\ result.ev \cap {"reviewIncomplete", "gateRefused", "unproved"} = {}
  /\ decision.value \notin {"rejected", "revision-requested"}
  /\ PlainDelegate \/ GateRecord = result.cand

\* A person confirms, unless the verdict accepts an acceptance; and then the
\* optional screen or the configured authority may still ask a person.
Authority(value) ==
  {"human"} \cup (IF value = "accepted" /\ VerdictAccepts THEN {"policy-autonomous"} ELSE {})

-----------------------------------------------------------------------------
(* reviewCandidate and decideCandidate *)

\* A review takes the same snapshot and records nothing.
BeginReviewCandidate ==
  /\ ArchiveOpens
  /\ result.cand # None
  /\ pc' = "snapshot"
  /\ UNCHANGED <<archive, anchor, checkout, started, run, put, choice, server, told>>

BeginDecide(value, by) ==
  /\ ArchiveOpens
  /\ by \in Authority(value)
  /\ result.cand # None
  /\ value = "accepted" => Verified(result)
  /\ choice' = [value |-> value, by |-> by]
  /\ pc' = "snapshot"
  /\ UNCHANGED <<archive, anchor, checkout, started, run, put, server, told>>

\* A rejection that is sent again finds the anchor removed.
AnchorFits ==
  \/ anchor = result.cand
  \/ anchor = None /\ decision # NoDecision /\ choice.value = "rejected"

Evidenced == [cand |-> result.cand, ev |-> result.ev]

\* Mutant: the snapshot is regenerated and not kept.
TakeSnapshotUnsaved ==
  /\ pc = "snapshot"
  /\ AnchorFits
  /\ IF choice = NoChoice THEN Over ELSE pc' = "decide" /\ UNCHANGED <<run, put, choice>>
  /\ UNCHANGED <<archive, anchor, checkout, started, server, told>>

\* sharedReviewSnapshot: regenerated, then kept or compared with what is kept.
TakeSnapshot ==
  /\ pc = "snapshot"
  /\ AnchorFits
  /\ snapshot \in {NoSnapshot, Evidenced}
  /\ snapshot' = Evidenced
  /\ IF choice = NoChoice THEN Over ELSE pc' = "decide" /\ UNCHANGED <<run, put, choice>>
  /\ UNCHANGED <<result, manifest, gate, marker, decision, gone, anchor, checkout, started,
                 server, told>>

Attempted == [value |-> choice.value, by |-> choice.by, on |-> TreeOf(result.cand),
              seen |-> snapshot]

\* Mutant: a conflicting decision is written over the recorded one.
RecordDecisionOver ==
  /\ pc = "decide"
  /\ decision' = Attempted
  /\ IF choice.value = "rejected"
       THEN pc' = "dropRejected" /\ UNCHANGED <<run, put, choice>>
       ELSE Over
  /\ UNCHANGED <<result, manifest, gate, marker, snapshot, gone, anchor, checkout, started,
                 server, told>>

\* recordCandidateDecision: written once; the same decision may be sent again.
RecordDecision ==
  /\ pc = "decide"
  /\ decision \in {NoDecision, Attempted}
  /\ decision' = Attempted
  /\ IF choice.value = "rejected"
       THEN pc' = "dropRejected" /\ UNCHANGED <<run, put, choice>>
       ELSE Over
  /\ UNCHANGED <<result, manifest, gate, marker, snapshot, gone, anchor, checkout, started,
                 server, told>>

DropRejected ==
  /\ pc = "dropRejected"
  /\ anchor \in {None, result.cand}
  /\ anchor' = None
  /\ Over
  /\ UNCHANGED <<archive, checkout, started, server, told>>

SnapshotRefused == pc = "snapshot" /\ ~(AnchorFits /\ snapshot \in {NoSnapshot, Evidenced})
DecisionConflict == pc = "decide" /\ decision \notin {NoDecision, Attempted}

\* A step refuses, or fails: what the steps before it did remains.
DecideFails ==
  /\ \/ SnapshotRefused
     \/ DecisionConflict
     \/ MayFail /\ pc \in {"snapshot", "decide", "dropRejected"}
  /\ Over
  /\ UNCHANGED <<archive, anchor, checkout, started, server, told>>

-----------------------------------------------------------------------------
(* integrateCandidate *)

\* Mutant: any recorded decision may be spent.
SpendableDecided ==
  /\ decision # NoDecision
  /\ Verified(result)
  /\ decision.on = TreeOf(result.cand)

\* integrationRefusal is null and the candidate verified.
Spendable ==
  /\ decision.value = "accepted"
  /\ decision.by \in {"human", "policy-autonomous"}
  /\ Verified(result)
  /\ decision.on = TreeOf(result.cand)

\* The preconditions and the rechecks pass.  (An integration they abort
\* changes nothing and is no step.)
BeginIntegrate ==
  /\ ArchiveOpens
  /\ Spendable
  /\ head = "base" /\ staged = None /\ ~edited
  /\ anchor = result.cand
  /\ pc' = "apply"
  /\ UNCHANGED <<archive, anchor, checkout, started, run, put, choice, server, told>>

\* read-tree writes the candidate into the checkout itself; it looks at the index and at the files
\* the candidate changes, not at HEAD.
Apply ==
  /\ pc = "apply"
  /\ staged' = TreeOf(result.cand)
  /\ pc' = "applied"
  /\ UNCHANGED <<archive, anchor, head, edited, started, run, put, choice, server, told>>

\* Git refuses to write over what the user did since, or fails.
ApplyConflicts ==
  /\ pc = "apply"
  /\ \/ edited \/ head # "base"
     \/ MayFail
  /\ reported' = "conflicted"
  /\ Over
  /\ UNCHANGED <<archive, anchor, checkout, started, server, outcome, passed>>

Diverged == ~(head = "base" /\ staged = TreeOf(result.cand) /\ ~edited)

\* The index, HEAD and the status are what applying the candidate makes them.
PostApplyOk ==
  /\ pc = "applied"
  /\ ~Diverged
  /\ reported' = "applied"
  /\ pc' = "dropApplied"
  /\ UNCHANGED <<archive, anchor, checkout, started, run, put, choice, server, outcome, passed>>

\* Mutant: the anchor goes whatever the integration came to.
PostApplyDivergedDrops ==
  /\ pc = "applied"
  /\ Diverged
  /\ reported' = "conflicted"
  /\ pc' = "dropApplied"
  /\ UNCHANGED <<archive, anchor, checkout, started, run, put, choice, server, outcome, passed>>

PostApplyDiverged ==
  /\ pc = "applied"
  /\ Diverged
  /\ reported' = "conflicted"
  /\ Over
  /\ UNCHANGED <<archive, anchor, checkout, started, server, outcome, passed>>

\* The anchor of an applied candidate goes; a failure to remove it is noted.
DropApplied ==
  /\ pc = "dropApplied"
  /\ anchor' \in {None} \cup (IF MayFail THEN {anchor} ELSE {})
  /\ Over
  /\ UNCHANGED <<archive, checkout, started, server, told>>

-----------------------------------------------------------------------------
(* The user, in the checkout, at any time *)

UserEdits ==
  /\ ~edited
  /\ edited' = TRUE
  /\ UNCHANGED <<archive, anchor, head, staged, started, pc, run, put, choice, server, told>>

\* git reset --hard to the base, or to somewhere else.
UserResets(to) ==
  /\ edited' = FALSE /\ staged' = None /\ head' = to
  /\ UNCHANGED <<archive, anchor, started, pc, run, put, choice, server, told>>

UserCommits ==
  /\ staged # None \/ edited
  /\ edited' = FALSE /\ staged' = None /\ head' = "moved"
  /\ UNCHANGED <<archive, anchor, started, pc, run, put, choice, server, told>>

UserNext ==
  \/ UserEdits
  \/ \E to \in {"base", "moved"} : UserResets(to)
  \/ UserCommits

DecisionNext ==
  \/ BeginReviewCandidate
  \/ \E value \in {"accepted", "rejected", "revision-requested"},
        by \in {"human", "policy-autonomous"} : BeginDecide(value, by)
  \/ TakeSnapshot
  \/ RecordDecision
  \/ DropRejected
  \/ DecideFails
  \/ BeginIntegrate
  \/ Apply
  \/ ApplyConflicts
  \/ PostApplyOk
  \/ PostApplyDiverged
  \/ DropApplied
=============================================================================
