--------------------------- MODULE PipelineTerminal ---------------------------
(***************************************************************************)
(* How a run comes by its terminal archive.  The attempt freezes, verifies *)
(* and archives a candidate (src/runtime/attempt-runtime.ts); a            *)
(* pipeline goes on to move the candidate, to promote what it made of it,  *)
(* and to record a verdict on it (src/pipeline/pipeline-runtime.ts,        *)
(* src/pipeline/terminal-recorder.ts).                                     *)
(***************************************************************************)
EXTENDS RunArchive

\* A step of the operation: from one value of pc to another.
Step(here, there) == pc = here /\ pc' = there

OwnFiles == <<manifest, gate, marker, decision, snapshot, gone>>
World    == <<checkout, choice, server>>

-----------------------------------------------------------------------------
(* The attempt *)

\* Preconditions hold: HEAD is the base and the checkout is clean.  A sliced
\* pipeline publishes its marker now, before anything can be archived.
BeginRun(m) ==
  /\ LeaseFree
  /\ mode = "none"
  /\ head = "base" /\ staged = None /\ ~edited
  /\ mode' = m
  /\ marker' = (m = "sliced")
  /\ pc' = "attempt"
  /\ run' = [IdleRun EXCEPT !.safe = (m # "sliced")]
  /\ UNCHANGED <<result, manifest, gate, decision, snapshot, gone, anchor, commits, put,
                 World, told>>

\* The candidate is frozen as a commit and anchored.
Freeze ==
  /\ Step("attempt", "frozen")
  /\ commits' = <<1>>
  /\ anchor' = 1
  /\ UNCHANGED <<archive, mode, run, put, World, told>>

\* What the attempt found out, as archiveTerminal will write it.  A verifier
\* that fails the candidate, or throws, leaves it in the failed result.
Settle(r, verified) ==
  /\ run' = [run EXCEPT !.final = r, !.current = r.cand]
  /\ passed' = IF verified THEN passed \cup {TreeOf(r.cand)} ELSE passed
  /\ pc' = "archiving"
  /\ UNCHANGED <<archive, anchor, started, put, World, outcome, reported>>

Origin == IF mode = "plain" THEN {"plainDelegate"} ELSE {}

AttemptWithoutCandidate ==
  /\ pc = "attempt"
  /\ Settle([status |-> "failed", cand |-> None, ev |-> Origin], FALSE)

AttemptVerified(proved) ==
  /\ pc = "frozen"
  /\ Settle([status |-> "verified", cand |-> 1,
             ev |-> Origin \cup (IF proved THEN {} ELSE {"unproved"})], TRUE)

AttemptRefuted ==
  /\ pc = "frozen"
  /\ Settle([status |-> "failed", cand |-> 1, ev |-> Origin], FALSE)

ArchiveManifest ==
  /\ Step("archiving", "archivingResult")
  /\ manifest' = IF run.final.cand = None THEN None ELSE TreeOf(run.final.cand)
  /\ UNCHANGED <<result, gate, marker, decision, snapshot, gone, anchor, started, run, put,
                 World, told>>

ArchiveResult ==
  /\ pc = "archivingResult"
  /\ result' = run.final
  /\ IF mode = "plain"
       THEN Over
       ELSE pc' = "archived" /\ UNCHANGED <<run, put, choice>>
  /\ UNCHANGED <<OwnFiles, anchor, started, checkout, server, told>>

\* Anything up to the pipeline's own try block throws: the attempt before it
\* has archived, or the first writes of the pipeline after that.
\* Nothing is archived for it and a marker already published stays.
AttemptThrows ==
  /\ MayFail
  /\ pc \in {"attempt", "frozen", "archiving", "archivingResult", "archived"}
  /\ Over
  /\ UNCHANGED <<archive, anchor, started, checkout, server, told>>

-----------------------------------------------------------------------------
(* The pipeline *)

BeginReview ==
  /\ Step("archived", "review")
  /\ Verified(run.final)
  /\ marker' = TRUE
  /\ UNCHANGED <<result, manifest, gate, decision, snapshot, gone, anchor, started, run, put,
                 World, told>>

\* The implement phase made no verified candidate: its failure is recorded,
\* outside the try block.
ImplementFailed ==
  /\ Step("archived", "fail")
  /\ ~Verified(run.final)
  /\ run' = [run EXCEPT !.verdict = "failed", !.block = "attempt"]
  /\ UNCHANGED <<archive, anchor, started, put, World, told>>

\* A slice, an increment or a fix moves the candidate.
Advance ==
  /\ Step("review", "review")
  /\ Len(commits) < MaxCommits
  /\ commits' = Append(commits, Len(commits) + 1)
  /\ run' = [run EXCEPT !.current = Len(commits) + 1]
  /\ UNCHANGED <<archive, anchor, mode, put, World, told>>

\* Mutant: the classification of the failure is recorded as the verdict.
PhaseFailsAsCause(cause) ==
  /\ Step("review", "fail")
  /\ run' = [run EXCEPT !.cause = cause, !.verdict = cause]
  /\ UNCHANGED <<archive, anchor, started, put, World, told>>

\* archivePipelineFailure, from a phase that fails.
PhaseFails(cause) ==
  /\ Step("review", "fail")
  /\ run' = [run EXCEPT !.cause = cause, !.verdict = "failed"]
  /\ UNCHANGED <<archive, anchor, started, put, World, told>>

\* The phases are over and the candidate goes to the gate; or a role failed
\* and it is salvaged; or a slice halted and what has landed is handed over.
PhasesEnd(goal) ==
  /\ pc = "review"
  /\ goal = "halt" => mode = "sliced"
  /\ pc' = IF goal # "halt" /\ run.current = run.final.cand THEN goal ELSE "promote"
  /\ run' = [run EXCEPT !.goal = goal]
  /\ UNCHANGED <<archive, anchor, started, put, World, told>>

\* promoteFinalCandidate: the canonical commit is made and the anchor moved to
\* it, then the archive is promoted.
MoveAnchor ==
  /\ Step("promote", "putResult")
  /\ Len(commits) < MaxCommits
  /\ anchor = run.final.cand
  /\ commits' = Append(commits, TreeOf(run.current))
  /\ anchor' = Len(commits) + 1
  /\ put' = [result |-> [run.final EXCEPT !.cand = Len(commits) + 1],
             manifest |-> TreeOf(run.current), done |-> run.goal, fail |-> "catch"]
  /\ UNCHANGED <<archive, mode, run, World, told>>

\* The commit's tree is missing or the commit cannot be rebuilt.
PromotionRefused ==
  /\ Step("promote", "fail")
  /\ run' = [run EXCEPT !.cause = "other", !.verdict = "failed"]
  /\ UNCHANGED <<archive, anchor, started, put, World, told>>

Throws ==
  /\ MayFail
  /\ pc \in {"review", "promote", "gate", "halt"}
  /\ pc' = "catch"
  /\ UNCHANGED <<archive, anchor, started, run, put, World, told>>

\* Final verification and the objective gate.  The clearance record is written
\* before the result that carries it.
GateClears ==
  /\ Step("gate", "putResult")
  /\ gate' = run.current
  /\ passed' = passed \cup {TreeOf(run.current)}
  /\ put' = [result |-> [run.final EXCEPT !.ev = @ \cup {"gateCleared"}],
             manifest |-> manifest, done |-> "record", fail |-> "catch"]
  /\ run' = [run EXCEPT !.verdict = "ready"]
  /\ UNCHANGED <<result, manifest, marker, decision, snapshot, gone, anchor, started, World,
                 outcome, reported>>

\* It refuses what failed verification, and what passed it but whose review
\* left blocking findings; the result stays a verified candidate either way.
GateRefuses(verified) ==
  /\ Step("gate", "putResult")
  /\ passed' = IF verified THEN passed \cup {TreeOf(run.current)} ELSE passed
  /\ put' = [result |-> [run.final EXCEPT !.ev = @ \cup {"gateRefused"}],
             manifest |-> manifest, done |-> "record", fail |-> "catch"]
  /\ run' = [run EXCEPT !.verdict = "refused"]
  /\ UNCHANGED <<archive, anchor, started, World, outcome, reported>>

\* Salvage verifies once more: bytes that pass go to a person, bytes that do
\* not are demoted; a verifier that throws falls back to a failure.
SalvagePasses ==
  /\ Step("salvage", "putResult")
  /\ passed' = passed \cup {TreeOf(run.current)}
  /\ put' = [result |-> [run.final EXCEPT !.ev = @ \cup {"reviewIncomplete"}],
             manifest |-> manifest, done |-> "record", fail |-> "catch"]
  /\ run' = [run EXCEPT !.verdict = "salvaged"]
  /\ UNCHANGED <<archive, anchor, started, World, outcome, reported>>

SalvageFails ==
  /\ Step("salvage", "putResult")
  /\ put' = [result |-> [run.final EXCEPT !.status = "failed"],
             manifest |-> manifest, done |-> "record", fail |-> "catch"]
  /\ run' = [run EXCEPT !.verdict = "failed"]
  /\ UNCHANGED <<archive, anchor, started, World, told>>

SalvageThrows ==
  /\ Step("salvage", "fail")
  /\ run' = [run EXCEPT !.cause = "other", !.verdict = "failed"]
  /\ UNCHANGED <<archive, anchor, started, put, World, told>>

\* A halted branch is verified and handed over whatever the report says.
Halt(verified) ==
  /\ Step("halt", "record")
  /\ passed' = IF verified THEN passed \cup {TreeOf(run.current)} ELSE passed
  /\ run' = [run EXCEPT !.verdict = "halted"]
  /\ UNCHANGED <<archive, anchor, started, put, World, outcome, reported>>

-----------------------------------------------------------------------------
(* TerminalRecorder and the pipeline's catch and finally blocks *)

\* TerminalRecorder.fail: a result that is still verified is demoted.
Demoted(keep) ==
  [result |-> [run.final EXCEPT !.status = "failed", !.cand = IF keep THEN @ ELSE None],
   manifest |-> manifest, done |-> "record", fail |-> "lost"]

\* A verification failure keeps the candidate for a person to look at.
DemoteAndKeep ==
  /\ Step("fail", "putResult")
  /\ Verified(run.final)
  /\ run.cause = "verification"
  /\ put' = Demoted(TRUE)
  /\ UNCHANGED <<archive, anchor, started, run, World, told>>

\* Any other one removes its anchor, if that still names the candidate.
DemoteAndDrop ==
  /\ Step("fail", "putResult")
  /\ Verified(run.final)
  /\ run.cause = "other"
  /\ anchor = run.final.cand
  /\ anchor' = None
  /\ put' = Demoted(FALSE)
  /\ UNCHANGED <<archive, started, run, World, told>>

AnchorMoved == run.cause = "other" /\ anchor # run.final.cand

DemoteFails ==
  /\ Step("fail", "lost")
  /\ Verified(run.final)
  /\ MayFail \/ AnchorMoved
  /\ UNCHANGED <<archive, anchor, started, run, put, World, told>>

\* result.json may still offer the candidate: recovery settles the run.
LoseAuthority ==
  /\ pc = "lost"
  /\ run' = [run EXCEPT !.safe = FALSE, !.lost = TRUE]
  /\ pc' = IF run.block = "finally" THEN "close" ELSE "finally"
  /\ UNCHANGED <<archive, anchor, started, put, World, told>>

NothingToDemote ==
  /\ Step("fail", "record")
  /\ ~Verified(run.final)
  /\ UNCHANGED <<archive, anchor, started, run, put, World, told>>

\* pipeline-result.json is written once, and the authority released.
Record ==
  /\ pc = "record"
  /\ outcome' = IF run.recorded THEN outcome ELSE run.verdict
  /\ run' = [run EXCEPT !.recorded = TRUE, !.safe = TRUE]
  /\ pc' = IF run.block = "finally" THEN "close" ELSE "finally"
  /\ UNCHANGED <<archive, anchor, started, put, World, reported, passed>>

RecordFails ==
  /\ pc = "record"
  /\ MayFail
  /\ pc' = CASE run.block = "try" -> "catch"
             [] run.block = "catch" -> "finally"
             [] run.block \in {"finally", "attempt"} -> "close"
  /\ UNCHANGED <<archive, anchor, started, run, put, World, told>>

\* The catch block archives a failure over a result that is still verified.
Catch ==
  /\ pc = "catch"
  /\ pc' = IF Verified(run.final) THEN "fail" ELSE "finally"
  /\ run' = [run EXCEPT !.block = "catch", !.cause = "verification", !.verdict = "failed"]
  /\ UNCHANGED <<archive, anchor, started, put, World, told>>

\* Mutant: the marker is cleared on every way out.
ReleaseAlways ==
  /\ pc = "finally"
  /\ marker' = FALSE
  /\ Over
  /\ UNCHANGED <<result, manifest, gate, decision, snapshot, gone, anchor, started, checkout,
                 server, told>>

\* The finally block, with nothing left to clean up: the marker is cleared if
\* the archive is safe to release.
Release ==
  /\ pc = "finally"
  /\ marker' = (marker /\ ~run.safe)
  /\ Over
  /\ UNCHANGED <<result, manifest, gate, decision, snapshot, gone, anchor, started, checkout,
                 server, told>>

\* A temporary slice ref could not be removed: a verified result is demoted,
\* and the marker stays for recovery.
SliceRefsLeft ==
  /\ pc = "finally"
  /\ MayFail /\ mode = "sliced" /\ run.block # "attempt"
  /\ pc' = IF Verified(run.final) /\ ~run.lost THEN "fail" ELSE "close"
  /\ run' = [run EXCEPT !.block = "finally", !.cause = "verification", !.verdict = "failed"]
  /\ UNCHANGED <<archive, anchor, started, put, World, told>>

\* The pipeline throws and its marker stays: an error of its cleanup, or the
\* marker could not be removed.
Close ==
  /\ \/ pc = "close"
     \/ pc = "finally" /\ MayFail
  /\ Over
  /\ UNCHANGED <<archive, anchor, started, checkout, server, told>>

PipelineNext ==
  \/ \E m \in Modes : BeginRun(m)
  \/ Freeze
  \/ AttemptWithoutCandidate
  \/ \E proved \in BOOLEAN : AttemptVerified(proved)
  \/ AttemptRefuted
  \/ ArchiveManifest
  \/ ArchiveResult
  \/ AttemptThrows
  \/ BeginReview
  \/ ImplementFailed
  \/ Advance
  \/ \E cause \in {"verification", "other"} : PhaseFails(cause)
  \/ \E goal \in {"gate", "salvage", "halt"} : PhasesEnd(goal)
  \/ MoveAnchor
  \/ PromotionRefused
  \/ Throws
  \/ GateClears
  \/ \E verified \in BOOLEAN : GateRefuses(verified)
  \/ SalvagePasses
  \/ SalvageFails
  \/ SalvageThrows
  \/ \E verified \in BOOLEAN : Halt(verified)
  \/ DemoteAndKeep
  \/ DemoteAndDrop
  \/ DemoteFails
  \/ LoseAuthority
  \/ NothingToDemote
  \/ Record
  \/ RecordFails
  \/ Catch
  \/ Release
  \/ SliceRefsLeft
  \/ Close
=============================================================================
