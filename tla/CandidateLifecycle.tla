-------------------------- MODULE CandidateLifecycle --------------------------
(***************************************************************************)
(* The life of one run and its candidate, from the attempt to the last use *)
(* of its archive: the pipeline, the Host's decisions, recovery, pruning,  *)
(* the exit of any of their processes at any step, and the user at work in *)
(* the checkout.                                                           *)
(***************************************************************************)
EXTENDS PipelineTerminal, CandidateDecision, RunRecovery

Next ==
  \/ PipelineNext
  \/ WriteResult
  \/ WriteManifest
  \/ PutFails
  \/ DecisionNext
  \/ UserNext
  \/ RecoveryNext
  \/ Prune
  \/ \E stays \in BOOLEAN : Exit(stays)

Spec == ArchiveInit /\ [][Next]_vars

\* A server is started again and again and each step of its recovery gets done
\* in the end, though it may fail or its process exit any number of times
\* before that.
Fairness ==
  /\ SF_vars(BeginRecoverRun) /\ SF_vars(RecoverAnchor) /\ SF_vars(RecoverResult)
  /\ SF_vars(BeginRecoverPipeline) /\ SF_vars(RecoverClear)
  /\ SF_vars(WriteResult) /\ SF_vars(WriteManifest)
  /\ WF_vars(Close)

FairSpec == Spec /\ Fairness

-----------------------------------------------------------------------------
(* Safety *)

\* Every variable has its type.
TypeOK ==
  /\ result \in Result
  /\ manifest \in Tree \cup {None, Absent}
  /\ gate \in Commit \cup {None}
  /\ decision \in Decision
  /\ snapshot \in Snapshot
  /\ {marker, gone, edited, alive, leftLock} \subseteq BOOLEAN
  /\ anchor \in Commit \cup {None}
  /\ head \in {"base", "moved"}
  /\ staged \in Tree \cup {None}
  /\ mode \in Modes \cup {"none"}
  /\ Len(commits) <= MaxCommits /\ \A c \in DOMAIN commits : commits[c] \in Tree
  /\ {run.final, put.result} \subseteq Result
  /\ outcome \in {"none", "ready", "refused", "salvaged", "halted", "failed"}
  /\ reported \in {"none", "applied", "conflicted"}
  /\ passed \subseteq Tree

\* Only bytes that were accepted reach the checkout: what is staged there is
\* the tree a recorded acceptance names, whatever replaced the archive, moved
\* the anchor or failed on the way (tools.ts handleIntegrateCandidate).
OnlyAcceptedStaged ==
  staged # None => decision.value = "accepted" /\ decision.on = staged

\* A candidate no person looked at was accepted by policy only if its tree
\* passed verification and, when a pipeline made it, the pipeline has recorded
\* that its gate cleared it (run-decision.ts verdictFor).
AutonomyEarned ==
  decision.by = "policy-autonomous" =>
    decision.on \in passed /\ (mode = "plain" \/ outcome = "ready")

\* A result that is still verified, of a pipeline that is over, has a verdict.
LeavesNothing(m) ==
  LeaseFree /\ ~marker /\ mode = m /\ Verified(result) =>
    outcome \in {"ready", "refused", "salvaged", "halted"}

\* A sliced pipeline that did not come to a verdict offers no candidate,
\* however it ended: once its marker is gone, a result that is still verified
\* has a verdict beside it (terminal-recorder.ts, recovery-runs.ts
\* archiveInterruptedPipeline).
SlicedLeavesNothing == LeavesNothing("sliced")

\* A rejection whose anchor was not removed can be sent again to remove it: the
\* archive still opens and the snapshot step still matches
\* (candidate-decisions.ts recordCandidateDecision).
RejectionRepairable ==
  decision.value = "rejected" /\ pc = "idle" /\ ~gone /\ anchor # None =>
    anchor = result.cand /\ Readable /\ ~marker /\ snapshot = Evidenced

\* An accepted candidate keeps its anchor, without which its objects may be
\* collected, until it has been found applied (controlled-integrator.ts).
AcceptedStaysAnchored ==
  decision.value = "accepted" /\ ~gone /\ anchor # result.cand => reported = "applied"

\* A decision is for ever, and what it was made about with it: a candidate that
\* has been decided on is never replaced (artifact-store.ts
\* promoteTerminalArtifacts, candidate-decisions.ts recordCandidateDecision).
DecisionFinal ==
  [][decision # NoDecision =>
       UNCHANGED <<decision, result, manifest, gate, snapshot>>]_vars

-----------------------------------------------------------------------------
(* Liveness *)

\* A pipeline whose process exited is settled by recovery: its marker goes, or
\* the whole run is quarantined (recovery-manager.ts, recovery-runs.ts).
InterruptedSettles == marker /\ ~alive ~> ~marker \/ gone

-----------------------------------------------------------------------------
(* What the documentation says and the code does not do *)

\* terminal-recorder.ts 101-103: a failed pipeline never leaves an acceptable
\* archive; CHANGELOG.md 71: an interrupted unsliced pipeline neither.
UnslicedLeavesNothing == LeavesNothing("unsliced")
=============================================================================
