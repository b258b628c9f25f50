------------------------ MODULE CandidateLifecycleProofs ------------------------
(***************************************************************************)
(* Proofs about CandidateLifecycle, for any number of commits, any kinds   *)
(* of run and any faults.                                                  *)
(*                                                                         *)
(* DecisionInv says what a decision stands on from the call that opened    *)
(* the archive to the last use of it; PipelineInv what a pipeline's own    *)
(* view of its run has to do with the archive at every step, up to the     *)
(* release of the marker.                                                  *)
(***************************************************************************)
EXTENDS CandidateLifecycle, TLAPS

\* The steps of an operation, by what it is.
Attempting == {"attempt", "frozen", "archiving", "archivingResult", "archived"}
Reviewing == {"review", "promote", "gate", "salvage", "halt"}
Putting == {"putResult", "putManifest"}
Ending == {"catch", "fail", "lost", "record", "finally", "close"}
Deciding == {"snapshot", "decide", "dropRejected"}
Integrating == {"apply", "applied", "dropApplied"}

\* The steps of Next that are in none of its groups.
OtherNext ==
  \/ WriteResult
  \/ WriteManifest
  \/ PutFails
  \/ UserNext
  \/ Prune
  \/ \E stays \in BOOLEAN : Exit(stays)

-----------------------------------------------------------------------------
(* What there is to each variable *)

Runs == [final : Result, current : Commit \cup {None}, cause : {"none", "verification", "other"},
         goal : {"none", "gate", "salvage", "halt"},
         verdict : {"none", "ready", "refused", "salvaged", "halted", "failed"},
         block : {"attempt", "try", "catch", "finally"},
         safe : BOOLEAN, recorded : BOOLEAN, lost : BOOLEAN]

Puts == [result : Result, manifest : Tree \cup {None, Absent},
         done : {"idle", "none", "gate", "salvage", "halt", "record", "recoverClear"},
         fail : {"idle", "catch", "lost", "close"}]

Choices == [value : {"none", "accepted", "rejected", "revision-requested"},
            by : {"nobody", "human", "policy-autonomous"}]

\* A commit that has been made, or none.
Made(c) == c = None \/ c \in 1..Len(commits)

CommitTypes ==
  /\ commits \in Seq(Tree) /\ Len(commits) <= MaxCommits
  /\ Made(result.cand) /\ Made(run.final.cand) /\ Made(run.current) /\ Made(put.result.cand)
  /\ Made(gate) /\ Made(anchor)

Unstarted ==
  mode = "none" => pc = "idle" /\ result = NoResult /\ gate = None /\ ~marker /\ commits = <<>>

\* Where there is a candidate, and which commits there are before it.
Progress ==
  /\ Unstarted
  /\ pc = "attempt" => commits = <<>>
  /\ pc = "frozen" => commits = <<1>>
  /\ pc \in {"archiving", "archivingResult", "archived"} => run.current = run.final.cand
  /\ pc \in Reviewing => run.current # None
  /\ pc \in Putting /\ put.done \in Reviewing => put.result.cand # None
  /\ pc \in Deciding \cup Integrating => result.cand # None

ArchiveTypes ==
  /\ result \in Result /\ manifest \in Tree \cup {None, Absent} /\ gate \in Commit \cup {None}
  /\ anchor \in Commit \cup {None} /\ snapshot \in Snapshot /\ decision \in Decision
  /\ staged \in Tree \cup {None} /\ passed \subseteq Tree

OwnTypes ==
  /\ run \in Runs /\ put \in Puts /\ choice \in Choices
  /\ marker \in BOOLEAN /\ gone \in BOOLEAN /\ edited \in BOOLEAN
  /\ alive \in BOOLEAN /\ leftLock \in BOOLEAN
  /\ head \in {"base", "moved"} /\ mode \in Modes \cup {"none"}
  /\ outcome \in {"none", "ready", "refused", "salvaged", "halted", "failed"}
  /\ reported \in {"none", "applied", "conflicted"}

TypeInv == CommitTypes /\ Progress /\ ArchiveTypes /\ OwnTypes

-----------------------------------------------------------------------------
\* What has been decided on is in the archive as it was seen.
Grounded ==
  /\ result.cand # None /\ result.status # "absent" /\ manifest # Absent
  /\ manifest = TreeOf(result.cand) /\ snapshot = Evidenced
  /\ decision.on = TreeOf(result.cand) /\ decision.seen = snapshot
  /\ anchor \in {None, result.cand}

Opened ==
  pc \in Deciding \cup Integrating =>
    /\ ~marker /\ result.cand # None /\ result.status # "absent"
    /\ manifest = TreeOf(result.cand) /\ manifest # Absent

DecisionInv ==
  /\ Opened
  /\ decision # NoDecision =>
       Grounded /\ ~marker /\ pc \in {"idle"} \cup Deciding \cup Integrating
  /\ pc = "decide" =>
       /\ snapshot = Evidenced
       /\ anchor = result.cand \/ (anchor = None /\ choice.value = "rejected")
  /\ pc = "dropRejected" => decision.value = "rejected"
  /\ pc \in {"recoverAnchor", "recoverResult"} => result.status = "absent"
  /\ pc = "apply" => decision.value = "accepted"
  /\ pc \in {"apply", "applied"} => anchor = result.cand
  /\ pc = "dropApplied" => reported = "applied"
  /\ OnlyAcceptedStaged /\ AcceptedStaysAnchored

-----------------------------------------------------------------------------
\* A run that has come to a gate, or is sliced, is not let out of its marker unsettled.
Guarded == gate # None \/ mode = "sliced"
Good(word) == word \in {"ready", "refused", "salvaged", "halted"} /\ (gate # None => word = "ready")

\* What promoteTerminalArtifacts has been given to write, and what comes after it.
PutKnown ==
  /\ put.done \in {"gate", "salvage", "halt"} =>
       put.fail = "catch" /\ gate = None /\ Verified(put.result)
  /\ put.done \in {"gate", "salvage", "halt", "record", "recoverClear"}
  /\ put.done = "record" =>
       ~Verified(put.result) \/ (put.fail = "catch" /\ Good(run.verdict))
  /\ put.done = "recoverClear" => put.fail = "close" /\ ~Verified(put.result)
  /\ put.fail \in {"catch", "lost", "close"}
  /\ put.fail = "catch" => Verified(run.final) /\ run.block = "try" /\ marker
  /\ put.fail = "close" => marker
  /\ pc = "putManifest" => result = put.result

PipelineInv ==
  /\ pc \in Attempting \cup Reviewing => gate = None /\ run.block = "try" /\ ~run.recorded
  /\ pc \in Attempting \ {"archived"} => result.status = "absent"
  /\ pc = "archived" => result = run.final
  /\ pc = "promote" => run.goal \in {"gate", "salvage", "halt"}
  /\ pc \in Reviewing => Verified(run.final) /\ marker
  /\ pc \in Putting => PutKnown
  /\ pc = "catch" => run.block = "try"
  /\ pc \in {"record", "catch", "fail"} => (Verified(result) => Verified(run.final))
  /\ pc = "record" => ~Verified(result) \/ (run.block = "try" /\ Good(run.verdict))
  /\ run.recorded => pc \in {"finally", "close"} \/ run.block = "finally"
  /\ pc = "finally" /\ Guarded /\ run.safe => ~Verified(result) \/ Good(outcome)
  /\ pc \in Attempting \cup Reviewing \cup Ending \cup Putting /\ Guarded => marker
  /\ pc = "recoverClear" => ~Verified(result)
  /\ Guarded /\ ~marker => ~Verified(result) \/ Good(outcome)

-----------------------------------------------------------------------------
(* Types *)

LEMMA Constants ==
  /\ MaxCommits \in Nat /\ 1 \in 1..MaxCommits
  /\ None # Absent /\ \A n \in Nat : n # None /\ n # Absent
  /\ Modes \subseteq {"plain", "unsliced", "sliced"}
BY ArchiveAssumption

LEMMA Idle ==
  /\ NoResult \in Result /\ NoResult.cand = None /\ NoResult.status = "absent"
  /\ IdleRun \in Runs /\ IdleRun.final.cand = None /\ IdleRun.current = None
  /\ NoPut \in Puts /\ NoPut.result.cand = None /\ NoPut.done = "idle"
  /\ NoChoice \in Choices
  /\ NoDecision \in Decision /\ NoSnapshot \in Snapshot
BY DEF NoResult, Result, IdleRun, Runs, NoPut, Puts, NoChoice, Choices, NoDecision, Decision,
       NoSnapshot, Snapshot

\* The records, a field at a time.
LEMMA RunFields ==
  ASSUME NEW r \in Runs
  PROVE  /\ r.final \in Result /\ r.current \in Commit \cup {None}
         /\ r.goal \in {"none", "gate", "salvage", "halt"}
         /\ r.verdict \in {"none", "ready", "refused", "salvaged", "halted", "failed"}
         /\ r.block \in {"attempt", "try", "catch", "finally"}
         /\ r.safe \in BOOLEAN /\ r.recorded \in BOOLEAN /\ r.lost \in BOOLEAN
BY DEF Runs

LEMMA ResultFields ==
  ASSUME NEW r \in Result
  PROVE  r.cand \in Commit \cup {None} /\ r.ev \in SUBSET Evidence
BY DEF Result

LEMMA FinalStays ==
  ASSUME NEW r \in Runs, NEW x \in Result
  PROVE  [r EXCEPT !.final = x] \in Runs /\ [r EXCEPT !.final = x].final = x
BY DEF Runs

LEMMA CurrentStays ==
  ASSUME NEW r \in Runs, NEW c \in Commit \cup {None}
  PROVE  /\ [r EXCEPT !.current = c] \in Runs /\ [r EXCEPT !.current = c].current = c
         /\ [r EXCEPT !.current = c].final = r.final
BY DEF Runs

LEMMA WordsStay ==
  ASSUME NEW r \in Runs
  PROVE  /\ \A x \in {"none", "verification", "other"} : [r EXCEPT !.cause = x] \in Runs
         /\ \A x \in {"none", "gate", "salvage", "halt"} : [r EXCEPT !.goal = x] \in Runs
         /\ \A x \in {"none", "ready", "refused", "salvaged", "halted", "failed"} :
              [r EXCEPT !.verdict = x] \in Runs
         /\ \A x \in {"attempt", "try", "catch", "finally"} : [r EXCEPT !.block = x] \in Runs
BY DEF Runs

LEMMA FlagsStay ==
  ASSUME NEW r \in Runs, NEW b \in BOOLEAN
  PROVE  /\ [r EXCEPT !.safe = b] \in Runs
         /\ [r EXCEPT !.recorded = b] \in Runs
         /\ [r EXCEPT !.lost = b] \in Runs
BY Zenon DEF Runs

LEMMA ResultMoved ==
  ASSUME NEW r \in Result
  PROVE  /\ \A c \in Commit \cup {None} :
              [r EXCEPT !.cand = c] \in Result /\ [r EXCEPT !.cand = c].cand = c
         /\ \A c : [r EXCEPT !.cand = c].status = r.status
         /\ \A e \in SUBSET Evidence : [r EXCEPT !.ev = e] \in Result
         /\ \A e : [r EXCEPT !.ev = e].cand = r.cand /\ [r EXCEPT !.ev = e].ev = e
         /\ \A c : [r EXCEPT !.cand = c].ev = r.ev
         /\ [r EXCEPT !.status = "failed"] \in Result /\ [r EXCEPT !.status = "failed"].cand = r.cand
         /\ [r EXCEPT !.status = "failed"].status = "failed" /\ [r EXCEPT !.status = "failed"].ev = r.ev
BY DEF Result

LEMMA PutFields ==
  ASSUME NEW p \in Puts
  PROVE  p.result \in Result /\ p.manifest \in Tree \cup {None, Absent}
         /\ p.done \in {"idle", "none", "gate", "salvage", "halt", "record", "recoverClear"}
         /\ p.fail \in {"idle", "catch", "lost", "close"}
BY DEF Puts

LEMMA TreeOfMade ==
  ASSUME CommitTypes, NEW c, Made(c), c # None
  PROVE  TreeOf(c) \in Tree
BY DEF CommitTypes, Made, TreeOf

LEMMA PutMade ==
  ASSUME NEW r \in Result, NEW m \in Tree \cup {None, Absent},
         NEW d \in {"idle", "none", "gate", "salvage", "halt", "record", "recoverClear"},
         NEW f \in {"idle", "catch", "lost", "close"}
  PROVE  [result |-> r, manifest |-> m, done |-> d, fail |-> f] \in Puts
BY DEF Puts

\* What an attempt settles on, and what a demotion writes.
LEMMA SettleTypes ==
  ASSUME OwnTypes, NEW r \in Result, NEW verified \in BOOLEAN, Settle(r, verified)
  PROVE  OwnTypes'
<1>1. run' = [[run EXCEPT !.final = r] EXCEPT !.current = r.cand]
  BY DEF Settle
<1>2. run' \in Runs
  BY <1>1, FinalStays, CurrentStays, ResultFields DEF OwnTypes
<1>3. QED
  BY <1>2 DEF Settle, OwnTypes, archive, started, World, checkout, server

LEMMA DemotedTypes ==
  ASSUME OwnTypes, ArchiveTypes, NEW keep \in BOOLEAN
  PROVE  Demoted(keep) \in Puts
<1>1. run.final \in Result
  BY RunFields DEF OwnTypes
<1>2. [run.final EXCEPT !.status = "failed", !.cand = IF keep THEN @ ELSE None] \in Result
  BY <1>1 DEF Result
<1>3. QED
  BY <1>2, PutMade DEF Demoted, ArchiveTypes

LEMMA TypeInvInit == ArchiveInit => TypeInv
<1> SUFFICES ASSUME ArchiveInit PROVE TypeInv
  OBVIOUS
<1> USE Idle, Constants DEF ArchiveInit
<1>1. CommitTypes
  BY DEF CommitTypes, Made, Tree
<1>2. Progress
  BY DEF Progress, Unstarted, Reviewing, Putting, Deciding, Integrating
<1>3. ArchiveTypes
  BY DEF ArchiveTypes
<1>4. OwnTypes
  BY DEF OwnTypes
<1>5. QED
  BY <1>1, <1>2, <1>3, <1>4 DEF TypeInv

LEMMA CommitTypesPipeline == TypeInv /\ PipelineNext => CommitTypes'
<1> SUFFICES ASSUME TypeInv, PipelineNext PROVE CommitTypes'
  OBVIOUS
<1> USE DEF TypeInv
<1> USE DEF CommitTypes, Progress, Unstarted, Made, Reviewing, Putting, Deciding, Integrating, TreeOf,
  Tree, Commit, archive, checkout, started, server, told, OwnFiles, World, Step, Over
<1>1. ASSUME NEW m \in Modes, BeginRun(m) PROVE CommitTypes'
  BY <1>1, Idle DEF BeginRun, LeaseFree
<1>2. CASE Freeze
  <2>1. commits' = <<1>> /\ anchor' = 1 /\ commits = <<>>
    BY <1>2 DEF Freeze
  <2>2. commits' \in Seq(Tree) /\ Len(commits') = 1
    BY <2>1, Constants
  <2>3. QED
    BY <1>2, <2>1, <2>2, Constants DEF Freeze
<1>3. CASE AttemptWithoutCandidate
  BY <1>3, Idle DEF AttemptWithoutCandidate, Settle
<1>4. ASSUME NEW proved \in BOOLEAN, AttemptVerified(proved) PROVE CommitTypes'
  <2>1. commits = <<1>> /\ Len(commits) = 1
    BY <1>4 DEF AttemptVerified
  <2>2. run'.final.cand = 1 /\ run'.current = 1
    BY <1>4, RunFields, FinalStays, CurrentStays DEF AttemptVerified, Settle, OwnTypes, Runs
  <2>3. QED
    BY <1>4, <2>1, <2>2 DEF AttemptVerified, Settle
<1>5. CASE AttemptRefuted
  <2>1. commits = <<1>> /\ Len(commits) = 1
    BY <1>5 DEF AttemptRefuted
  <2>2. run'.final.cand = 1 /\ run'.current = 1
    BY <1>5, RunFields, FinalStays, CurrentStays DEF AttemptRefuted, Settle, OwnTypes, Runs
  <2>3. QED
    BY <1>5, <2>1, <2>2 DEF AttemptRefuted, Settle
<1>6. CASE ArchiveManifest
  BY <1>6, Idle DEF ArchiveManifest
<1>7. CASE ArchiveResult
  BY <1>7, Idle DEF ArchiveResult
<1>8. CASE AttemptThrows
  BY <1>8, Idle DEF AttemptThrows
<1>9. CASE BeginReview
  BY <1>9, Idle DEF BeginReview, Verified
<1>10. CASE ImplementFailed
  BY <1>10, Idle DEF ImplementFailed, Verified
<1>11. CASE Advance
  <2>1. Len(commits) \in Nat /\ Len(commits) + 1 \in Tree
    BY <1>11, Constants DEF Advance
  <2>2. commits' \in Seq(Tree) /\ Len(commits') = Len(commits) + 1
    BY <1>11, <2>1 DEF Advance
  <2>3. run'.current = Len(commits) + 1 /\ run'.final = run.final
    BY <1>11, <2>1, CurrentStays DEF Advance, OwnTypes
  <2>4. QED
    BY <1>11, <2>1, <2>2, <2>3 DEF Advance
<1>12. ASSUME NEW cause \in {"verification", "other"}, PhaseFails(cause) PROVE CommitTypes'
  BY <1>12, Idle DEF PhaseFails
<1>13. ASSUME NEW goal \in {"gate", "salvage", "halt"}, PhasesEnd(goal) PROVE CommitTypes'
  BY <1>13, Idle DEF PhasesEnd
<1>14. CASE MoveAnchor
  <2>1. Len(commits) \in Nat /\ Len(commits) + 1 \in Commit
    BY <1>14, Constants DEF MoveAnchor
  <2>2. run.current # None /\ Made(run.current)
    BY <1>14 DEF MoveAnchor
  <2>3. TreeOf(run.current) \in Tree
    BY <2>2, TreeOfMade
  <2>4. commits' \in Seq(Tree) /\ Len(commits') = Len(commits) + 1
    BY <1>14, <2>1, <2>3 DEF MoveAnchor
  <2>5. [run.final EXCEPT !.cand = Len(commits) + 1].cand = Len(commits) + 1
    BY <2>1, RunFields, ResultMoved DEF OwnTypes
  <2>6. put'.result.cand = Len(commits) + 1
    BY <1>14, <2>5 DEF MoveAnchor
  <2>7. QED
    BY <1>14, <2>1, <2>4, <2>6 DEF MoveAnchor
<1>15. CASE PromotionRefused
  BY <1>15, Idle DEF PromotionRefused
<1>16. CASE Throws
  BY <1>16, Idle DEF Throws
<1>17. CASE GateClears
  <2>1. [run.final EXCEPT !.ev = @ \cup {"gateCleared"}].cand = run.final.cand
    BY RunFields, ResultMoved DEF OwnTypes
  <2>2. put'.result.cand = run.final.cand
    BY <1>17, <2>1 DEF GateClears
  <2>3. QED
    BY <1>17, <2>2 DEF GateClears
<1>18. ASSUME NEW verified \in BOOLEAN, GateRefuses(verified) PROVE CommitTypes'
  <2>1. [run.final EXCEPT !.ev = @ \cup {"gateRefused"}].cand = run.final.cand
    BY RunFields, ResultMoved DEF OwnTypes
  <2>2. put'.result.cand = run.final.cand
    BY <1>18, <2>1 DEF GateRefuses
  <2>3. QED
    BY <1>18, <2>2 DEF GateRefuses
<1>19. CASE SalvagePasses
  <2>1. [run.final EXCEPT !.ev = @ \cup {"reviewIncomplete"}].cand = run.final.cand
    BY RunFields, ResultMoved DEF OwnTypes
  <2>2. put'.result.cand = run.final.cand
    BY <1>19, <2>1 DEF SalvagePasses
  <2>3. QED
    BY <1>19, <2>2 DEF SalvagePasses
<1>20. CASE SalvageFails
  <2>1. put'.result.cand = run.final.cand
    BY <1>20, RunFields, ResultMoved DEF SalvageFails, OwnTypes
  <2>2. QED
    BY <1>20, <2>1 DEF SalvageFails
<1>21. CASE SalvageThrows
  BY <1>21, Idle DEF SalvageThrows
<1>22. ASSUME NEW verified \in BOOLEAN, Halt(verified) PROVE CommitTypes'
  BY <1>22, Idle DEF Halt
<1>23. CASE DemoteAndKeep
  <2>1. put'.result.cand \in {None, run.final.cand}
    BY <1>23, RunFields DEF DemoteAndKeep, Demoted, OwnTypes, Result
  <2>2. QED
    BY <1>23, <2>1 DEF DemoteAndKeep
<1>24. CASE DemoteAndDrop
  <2>1. put'.result.cand \in {None, run.final.cand}
    BY <1>24, RunFields DEF DemoteAndDrop, Demoted, OwnTypes, Result
  <2>2. QED
    BY <1>24, <2>1 DEF DemoteAndDrop
<1>25. CASE DemoteFails
  BY <1>25, Idle DEF DemoteFails, Verified, AnchorMoved
<1>26. CASE LoseAuthority
  BY <1>26, Idle DEF LoseAuthority
<1>27. CASE NothingToDemote
  BY <1>27, Idle DEF NothingToDemote, Verified
<1>28. CASE Record
  BY <1>28, Idle DEF Record
<1>29. CASE RecordFails
  BY <1>29, Idle DEF RecordFails
<1>30. CASE Catch
  BY <1>30, Idle DEF Catch, Verified
<1>31. CASE Release
  BY <1>31, Idle DEF Release
<1>32. CASE SliceRefsLeft
  BY <1>32, Idle DEF SliceRefsLeft, Verified
<1>33. CASE Close
  BY <1>33, Idle DEF Close
<1>34. QED
  BY <1>1, <1>2, <1>3, <1>4, <1>5, <1>6, <1>7, <1>8, <1>9, <1>10, <1>11, <1>12, <1>13, <1>14, <1>15,
    <1>16, <1>17, <1>18, <1>19, <1>20, <1>21, <1>22, <1>23, <1>24, <1>25, <1>26, <1>27, <1>28, <1>29,
    <1>30, <1>31, <1>32, <1>33 DEF PipelineNext

LEMMA CommitTypesDecision == TypeInv /\ DecisionNext => CommitTypes'
<1> SUFFICES ASSUME TypeInv, DecisionNext PROVE CommitTypes'
  OBVIOUS
<1> USE DEF TypeInv
<1> USE DEF CommitTypes, Progress, Unstarted, Made, Reviewing, Putting, Deciding, Integrating, TreeOf,
  Tree, Commit, archive, checkout, started, server, told, OwnFiles, World, Step, Over
<1>1. CASE BeginReviewCandidate
  BY <1>1, Idle DEF BeginReviewCandidate, ArchiveOpens, LeaseFree, Readable
<1>2. ASSUME NEW value \in {"accepted", "rejected", "revision-requested"}, NEW by \in {"human",
  "policy-autonomous"}, BeginDecide(value, by) PROVE CommitTypes'
  BY <1>2, Idle DEF BeginDecide, ArchiveOpens, LeaseFree, Readable, Authority, VerdictAccepts, Verified,
    PlainDelegate, GateRecord
<1>3. CASE TakeSnapshot
  BY <1>3, Idle DEF TakeSnapshot, AnchorFits
<1>4. CASE RecordDecision
  BY <1>4, Idle DEF RecordDecision, Attempted
<1>5. CASE DropRejected
  BY <1>5, Idle DEF DropRejected
<1>6. CASE DecideFails
  BY <1>6, Idle DEF DecideFails, SnapshotRefused, AnchorFits, DecisionConflict, Attempted
<1>7. CASE BeginIntegrate
  BY <1>7, Idle DEF BeginIntegrate, ArchiveOpens, LeaseFree, Readable, Spendable, Verified
<1>8. CASE Apply
  BY <1>8, Idle DEF Apply
<1>9. CASE ApplyConflicts
  BY <1>9, Idle DEF ApplyConflicts
<1>10. CASE PostApplyOk
  BY <1>10, Idle DEF PostApplyOk, Diverged
<1>11. CASE PostApplyDiverged
  BY <1>11, Idle DEF PostApplyDiverged, Diverged
<1>12. CASE DropApplied
  BY <1>12, Idle DEF DropApplied
<1>13. QED
  BY <1>1, <1>2, <1>3, <1>4, <1>5, <1>6, <1>7, <1>8, <1>9, <1>10, <1>11, <1>12 DEF DecisionNext

LEMMA CommitTypesRecovery == TypeInv /\ RecoveryNext => CommitTypes'
<1> SUFFICES ASSUME TypeInv, RecoveryNext PROVE CommitTypes'
  OBVIOUS
<1> USE DEF TypeInv
<1> USE DEF CommitTypes, Progress, Unstarted, Made, Reviewing, Putting, Deciding, Integrating, TreeOf,
  Tree, Commit, archive, checkout, started, server, told, OwnFiles, World, Step, Over
<1>1. CASE ReclaimLock
  BY <1>1, Idle DEF ReclaimLock
<1>2. CASE BeginRecoverRun
  BY <1>2, Idle DEF BeginRecoverRun
<1>3. CASE RecoverAnchor
  BY <1>3, Idle DEF RecoverAnchor
<1>4. CASE RecoverResult
  BY <1>4, Idle DEF RecoverResult
<1>5. CASE Quarantine
  BY <1>5, Idle DEF Quarantine
<1>6. CASE BeginRecoverPipeline
  <2>1. [result EXCEPT !.status = "failed"].cand = result.cand
    BY ResultMoved DEF ArchiveTypes
  <2>2. put' = put \/ put'.result.cand = result.cand
    <3>1. CASE Verified(result)
      <4>1. put'.result = [result EXCEPT !.status = "failed"]
        BY <1>6, <3>1 DEF BeginRecoverPipeline
      <4>2. QED
        BY <2>1, <4>1
    <3>2. CASE ~Verified(result)
      BY <1>6, <3>2 DEF BeginRecoverPipeline
    <3>3. QED
      BY <3>1, <3>2
  <2>3. QED
    BY <1>6, <2>2 DEF BeginRecoverPipeline
<1>7. CASE RecoverClear
  BY <1>7, Idle DEF RecoverClear
<1>8. CASE RecoverClearFails
  BY <1>8, Idle DEF RecoverClearFails
<1>9. QED
  BY <1>1, <1>2, <1>3, <1>4, <1>5, <1>6, <1>7, <1>8 DEF RecoveryNext

LEMMA CommitTypesOther == TypeInv /\ OtherNext => CommitTypes'
<1> SUFFICES ASSUME TypeInv, OtherNext PROVE CommitTypes'
  OBVIOUS
<1> USE DEF TypeInv
<1> USE DEF CommitTypes, Progress, Unstarted, Made, Reviewing, Putting, Deciding, Integrating, TreeOf,
  Tree, Commit, archive, checkout, started, server, told, OwnFiles, World, Step, Over
<1>1. CASE WriteResult
  BY <1>1, Idle DEF WriteResult
<1>2. CASE WriteManifest
  <2>1. run'.final = put.result /\ run'.current = put.result.cand
    BY <1>2, PutFields, ResultFields, RunFields, FinalStays, CurrentStays DEF WriteManifest, OwnTypes
  <2>2. put'.result.cand = None
    BY <1>2, Idle DEF WriteManifest
  <2>3. QED
    BY <1>2, <2>1, <2>2 DEF WriteManifest
<1>3. CASE PutFails
  <2>1. put'.result.cand = None
    BY <1>3, Idle DEF PutFails
  <2>2. QED
    BY <1>3, <2>1 DEF PutFails
<1>4. CASE UserEdits
  BY <1>4, Idle DEF UserEdits
<1>5. ASSUME NEW to \in {"base", "moved"}, UserResets(to) PROVE CommitTypes'
  BY <1>5, Idle DEF UserResets
<1>6. CASE UserCommits
  BY <1>6, Idle DEF UserCommits
<1>7. CASE Prune
  BY <1>7, Idle DEF Prune, LeaseFree, Cleanable
<1>8. ASSUME NEW stays \in BOOLEAN, Exit(stays) PROVE CommitTypes'
  BY <1>8, Idle DEF Exit, Elsewhere
<1>9. QED
  BY <1>1, <1>2, <1>3, <1>4, <1>5, <1>6, <1>7, <1>8 DEF OtherNext, UserNext

LEMMA ProgressPipeline == TypeInv /\ PipelineNext => Progress'
<1> SUFFICES ASSUME TypeInv, PipelineNext PROVE Progress'
  OBVIOUS
<1> USE DEF TypeInv
<1> USE DEF CommitTypes, Progress, Unstarted, Made, Reviewing, Putting, Deciding, Integrating, archive,
  checkout, started, server, told, OwnFiles, World, Step, Over
<1>1. ASSUME NEW m \in Modes, BeginRun(m) PROVE Progress'
  BY <1>1, Constants DEF BeginRun, LeaseFree
<1>2. CASE Freeze
  BY <1>2, Idle DEF Freeze
<1>3. CASE AttemptWithoutCandidate
  BY <1>3, Idle DEF AttemptWithoutCandidate, Settle
<1>4. ASSUME NEW proved \in BOOLEAN, AttemptVerified(proved) PROVE Progress'
  BY <1>4, Idle DEF AttemptVerified, Settle
<1>5. CASE AttemptRefuted
  BY <1>5, Idle DEF AttemptRefuted, Settle
<1>6. CASE ArchiveManifest
  BY <1>6, Idle DEF ArchiveManifest
<1>7. CASE ArchiveResult
  BY <1>7, Idle DEF ArchiveResult
<1>8. CASE AttemptThrows
  BY <1>8, Idle DEF AttemptThrows
<1>9. CASE BeginReview
  BY <1>9, Idle DEF BeginReview, Verified
<1>10. CASE ImplementFailed
  BY <1>10, Idle DEF ImplementFailed, Verified
<1>11. CASE Advance
  <2>1. Len(commits) \in Nat /\ Len(commits) + 1 # None
    BY Constants
  <2>2. run'.current = Len(commits) + 1
    BY <1>11, <2>1, CurrentStays, Constants DEF Advance, OwnTypes, Commit
  <2>3. pc' = "review" /\ mode' = mode /\ mode # "none"
    BY <1>11 DEF Advance
  <2>4. QED
    BY <2>1, <2>2, <2>3
<1>12. ASSUME NEW cause \in {"verification", "other"}, PhaseFails(cause) PROVE Progress'
  BY <1>12, Idle DEF PhaseFails
<1>13. ASSUME NEW goal \in {"gate", "salvage", "halt"}, PhasesEnd(goal) PROVE Progress'
  BY <1>13, Idle DEF PhasesEnd
<1>14. CASE MoveAnchor
  <2>1. Len(commits) \in Nat /\ Len(commits) + 1 # None /\ Len(commits) + 1 \in Commit
    <3>1. Len(commits) \in Nat /\ Len(commits) + 1 \in 1..MaxCommits
      BY <1>14, Constants DEF MoveAnchor
    <3>2. QED
      BY <3>1, Constants DEF Commit
  <2>2. [run.final EXCEPT !.cand = Len(commits) + 1].cand = Len(commits) + 1
    BY <2>1, RunFields, ResultMoved DEF OwnTypes
  <2>3. put'.result.cand = Len(commits) + 1
    BY <1>14, <2>2 DEF MoveAnchor
  <2>4. pc' = "putResult" /\ mode' = mode /\ mode # "none"
    BY <1>14 DEF MoveAnchor
  <2>5. QED
    BY <2>1, <2>3, <2>4
<1>15. CASE PromotionRefused
  BY <1>15, Idle DEF PromotionRefused
<1>16. CASE Throws
  BY <1>16, Idle DEF Throws
<1>17. CASE GateClears
  BY <1>17, Idle DEF GateClears
<1>18. ASSUME NEW verified \in BOOLEAN, GateRefuses(verified) PROVE Progress'
  BY <1>18, Idle DEF GateRefuses
<1>19. CASE SalvagePasses
  BY <1>19, Idle DEF SalvagePasses
<1>20. CASE SalvageFails
  BY <1>20, Idle DEF SalvageFails
<1>21. CASE SalvageThrows
  BY <1>21, Idle DEF SalvageThrows
<1>22. ASSUME NEW verified \in BOOLEAN, Halt(verified) PROVE Progress'
  BY <1>22, Idle DEF Halt
<1>23. CASE DemoteAndKeep
  BY <1>23, Idle DEF DemoteAndKeep, Verified, Demoted
<1>24. CASE DemoteAndDrop
  BY <1>24, Idle DEF DemoteAndDrop, Verified, Demoted
<1>25. CASE DemoteFails
  BY <1>25, Idle DEF DemoteFails, Verified, AnchorMoved
<1>26. CASE LoseAuthority
  BY <1>26, Idle DEF LoseAuthority
<1>27. CASE NothingToDemote
  BY <1>27, Idle DEF NothingToDemote, Verified
<1>28. CASE Record
  BY <1>28, Idle DEF Record
<1>29. CASE RecordFails
  <2>1. pc' \in {"catch", "finally", "close"}
    BY <1>29, RunFields DEF RecordFails, OwnTypes
  <2>2. QED
    BY <1>29, <2>1 DEF RecordFails
<1>30. CASE Catch
  BY <1>30, Idle DEF Catch, Verified
<1>31. CASE Release
  BY <1>31, Idle DEF Release
<1>32. CASE SliceRefsLeft
  BY <1>32, Idle DEF SliceRefsLeft, Verified
<1>33. CASE Close
  BY <1>33, Idle DEF Close
<1>34. QED
  BY <1>1, <1>2, <1>3, <1>4, <1>5, <1>6, <1>7, <1>8, <1>9, <1>10, <1>11, <1>12, <1>13, <1>14, <1>15,
    <1>16, <1>17, <1>18, <1>19, <1>20, <1>21, <1>22, <1>23, <1>24, <1>25, <1>26, <1>27, <1>28, <1>29,
    <1>30, <1>31, <1>32, <1>33 DEF PipelineNext

LEMMA ProgressDecision == TypeInv /\ DecisionNext => Progress'
<1> SUFFICES ASSUME TypeInv, DecisionNext PROVE Progress'
  OBVIOUS
<1> USE DEF TypeInv
<1> USE DEF CommitTypes, Progress, Unstarted, Made, Reviewing, Putting, Deciding, Integrating, archive,
  checkout, started, server, told, OwnFiles, World, Step, Over
<1>1. CASE BeginReviewCandidate
  BY <1>1, Idle DEF BeginReviewCandidate, ArchiveOpens, LeaseFree, Readable
<1>2. ASSUME NEW value \in {"accepted", "rejected", "revision-requested"}, NEW by \in {"human",
  "policy-autonomous"}, BeginDecide(value, by) PROVE Progress'
  BY <1>2, Idle DEF BeginDecide, ArchiveOpens, LeaseFree, Readable, Authority, VerdictAccepts, Verified,
    PlainDelegate, GateRecord
<1>3. CASE TakeSnapshot
  BY <1>3, Idle DEF TakeSnapshot, AnchorFits
<1>4. CASE RecordDecision
  BY <1>4, Idle DEF RecordDecision, Attempted
<1>5. CASE DropRejected
  BY <1>5, Idle DEF DropRejected
<1>6. CASE DecideFails
  BY <1>6, Idle DEF DecideFails, SnapshotRefused, AnchorFits, DecisionConflict, Attempted
<1>7. CASE BeginIntegrate
  BY <1>7, Idle DEF BeginIntegrate, ArchiveOpens, LeaseFree, Readable, Spendable, Verified
<1>8. CASE Apply
  BY <1>8, Idle DEF Apply
<1>9. CASE ApplyConflicts
  BY <1>9, Idle DEF ApplyConflicts
<1>10. CASE PostApplyOk
  BY <1>10, Idle DEF PostApplyOk, Diverged
<1>11. CASE PostApplyDiverged
  BY <1>11, Idle DEF PostApplyDiverged, Diverged
<1>12. CASE DropApplied
  BY <1>12, Idle DEF DropApplied
<1>13. QED
  BY <1>1, <1>2, <1>3, <1>4, <1>5, <1>6, <1>7, <1>8, <1>9, <1>10, <1>11, <1>12 DEF DecisionNext

LEMMA ProgressRecovery == TypeInv /\ RecoveryNext => Progress'
<1> SUFFICES ASSUME TypeInv, RecoveryNext PROVE Progress'
  OBVIOUS
<1> USE DEF TypeInv
<1> USE DEF CommitTypes, Progress, Unstarted, Made, Reviewing, Putting, Deciding, Integrating, archive,
  checkout, started, server, told, OwnFiles, World, Step, Over
<1>1. CASE ReclaimLock
  BY <1>1, Idle DEF ReclaimLock
<1>2. CASE BeginRecoverRun
  BY <1>2, Idle DEF BeginRecoverRun
<1>3. CASE RecoverAnchor
  BY <1>3, Idle DEF RecoverAnchor
<1>4. CASE RecoverResult
  BY <1>4, Idle DEF RecoverResult
<1>5. CASE Quarantine
  BY <1>5, Idle DEF Quarantine
<1>6. CASE BeginRecoverPipeline
  <2>1. pc' = "recoverClear" \/ (pc' = "putResult" /\ put'.done = "recoverClear")
    BY <1>6 DEF BeginRecoverPipeline
  <2>2. mode' = mode /\ (mode = "none" => commits' = <<>>)
    BY <1>6 DEF BeginRecoverPipeline
  <2>3. mode # "none"
    BY <1>6, Idle DEF BeginRecoverPipeline
  <2>4. QED
    BY <2>1, <2>2, <2>3
<1>7. CASE RecoverClear
  BY <1>7, Idle DEF RecoverClear
<1>8. CASE RecoverClearFails
  BY <1>8, Idle DEF RecoverClearFails
<1>9. QED
  BY <1>1, <1>2, <1>3, <1>4, <1>5, <1>6, <1>7, <1>8 DEF RecoveryNext

LEMMA ProgressOther == TypeInv /\ OtherNext => Progress'
<1> SUFFICES ASSUME TypeInv, OtherNext PROVE Progress'
  OBVIOUS
<1> USE DEF TypeInv
<1> USE DEF CommitTypes, Progress, Unstarted, Made, Reviewing, Putting, Deciding, Integrating, archive,
  checkout, started, server, told, OwnFiles, World, Step, Over
<1>1. CASE WriteResult
  BY <1>1, Idle DEF WriteResult
<1>2. CASE WriteManifest
  <2>1. run'.current = put.result.cand
    BY <1>2, PutFields, ResultFields, FinalStays, CurrentStays DEF WriteManifest, OwnTypes
  <2>2. /\ pc' = put.done
        /\ put.done \in {"idle", "none", "gate", "salvage", "halt", "record", "recoverClear"}
    BY <1>2, PutFields DEF WriteManifest, OwnTypes
  <2>3. QED
    BY <1>2, <2>1, <2>2 DEF WriteManifest
<1>3. CASE PutFails
  <2>1. pc' = put.fail /\ put.fail \in {"idle", "catch", "lost", "close"}
    BY <1>3, PutFields DEF PutFails, OwnTypes
  <2>2. QED
    BY <1>3, <2>1 DEF PutFails
<1>4. CASE UserEdits
  BY <1>4, Idle DEF UserEdits
<1>5. ASSUME NEW to \in {"base", "moved"}, UserResets(to) PROVE Progress'
  BY <1>5, Idle DEF UserResets
<1>6. CASE UserCommits
  BY <1>6, Idle DEF UserCommits
<1>7. CASE Prune
  BY <1>7, Idle DEF Prune, LeaseFree, Cleanable
<1>8. ASSUME NEW stays \in BOOLEAN, Exit(stays) PROVE Progress'
  BY <1>8, Idle DEF Exit, Elsewhere
<1>9. QED
  BY <1>1, <1>2, <1>3, <1>4, <1>5, <1>6, <1>7, <1>8 DEF OtherNext, UserNext

LEMMA ArchiveTypesPipeline == TypeInv /\ PipelineNext => ArchiveTypes'
<1> SUFFICES ASSUME TypeInv, PipelineNext PROVE ArchiveTypes'
  OBVIOUS
<1> USE DEF TypeInv
<1> USE DEF CommitTypes, Progress, ArchiveTypes, Unstarted, Made, Reviewing, Putting, Deciding,
  Integrating, TreeOf, Tree, Commit, archive, checkout, started, server, told, OwnFiles, World, Step,
  Over
<1>1. ASSUME NEW m \in Modes, BeginRun(m) PROVE ArchiveTypes'
  BY <1>1, Constants DEF BeginRun, LeaseFree
<1>2. CASE Freeze
  BY <1>2, Constants DEF Freeze
<1>3. CASE AttemptWithoutCandidate
  BY <1>3, Constants DEF AttemptWithoutCandidate, Settle
<1>4. ASSUME NEW proved \in BOOLEAN, AttemptVerified(proved) PROVE ArchiveTypes'
  BY <1>4, Constants DEF AttemptVerified, Settle
<1>5. CASE AttemptRefuted
  BY <1>5, Constants DEF AttemptRefuted, Settle
<1>6. CASE ArchiveManifest
  BY <1>6, Constants DEF ArchiveManifest
<1>7. CASE ArchiveResult
  BY <1>7, RunFields DEF ArchiveResult, OwnTypes
<1>8. CASE AttemptThrows
  BY <1>8, Constants DEF AttemptThrows
<1>9. CASE BeginReview
  BY <1>9, Constants DEF BeginReview, Verified
<1>10. CASE ImplementFailed
  BY <1>10, Constants DEF ImplementFailed, Verified
<1>11. CASE Advance
  BY <1>11, Constants DEF Advance
<1>12. ASSUME NEW cause \in {"verification", "other"}, PhaseFails(cause) PROVE ArchiveTypes'
  BY <1>12, Constants DEF PhaseFails
<1>13. ASSUME NEW goal \in {"gate", "salvage", "halt"}, PhasesEnd(goal) PROVE ArchiveTypes'
  BY <1>13, Constants DEF PhasesEnd
<1>14. CASE MoveAnchor
  BY <1>14, Constants DEF MoveAnchor
<1>15. CASE PromotionRefused
  BY <1>15, Constants DEF PromotionRefused
<1>16. CASE Throws
  BY <1>16, Constants DEF Throws
<1>17. CASE GateClears
  BY <1>17, Constants DEF GateClears
<1>18. ASSUME NEW verified \in BOOLEAN, GateRefuses(verified) PROVE ArchiveTypes'
  BY <1>18, Constants DEF GateRefuses
<1>19. CASE SalvagePasses
  BY <1>19, Constants DEF SalvagePasses
<1>20. CASE SalvageFails
  BY <1>20, Constants DEF SalvageFails
<1>21. CASE SalvageThrows
  BY <1>21, Constants DEF SalvageThrows
<1>22. ASSUME NEW verified \in BOOLEAN, Halt(verified) PROVE ArchiveTypes'
  BY <1>22, Constants DEF Halt
<1>23. CASE DemoteAndKeep
  BY <1>23, Constants DEF DemoteAndKeep, Verified, Demoted
<1>24. CASE DemoteAndDrop
  BY <1>24, Constants DEF DemoteAndDrop, Verified, Demoted
<1>25. CASE DemoteFails
  BY <1>25, Constants DEF DemoteFails, Verified, AnchorMoved
<1>26. CASE LoseAuthority
  BY <1>26, Constants DEF LoseAuthority
<1>27. CASE NothingToDemote
  BY <1>27, Constants DEF NothingToDemote, Verified
<1>28. CASE Record
  BY <1>28, Constants DEF Record
<1>29. CASE RecordFails
  BY <1>29, Constants DEF RecordFails
<1>30. CASE Catch
  BY <1>30, Constants DEF Catch, Verified
<1>31. CASE Release
  BY <1>31, Constants DEF Release
<1>32. CASE SliceRefsLeft
  BY <1>32, Constants DEF SliceRefsLeft, Verified
<1>33. CASE Close
  BY <1>33, Constants DEF Close
<1>34. QED
  BY <1>1, <1>2, <1>3, <1>4, <1>5, <1>6, <1>7, <1>8, <1>9, <1>10, <1>11, <1>12, <1>13, <1>14, <1>15,
    <1>16, <1>17, <1>18, <1>19, <1>20, <1>21, <1>22, <1>23, <1>24, <1>25, <1>26, <1>27, <1>28, <1>29,
    <1>30, <1>31, <1>32, <1>33 DEF PipelineNext

LEMMA ArchiveTypesDecision == TypeInv /\ DecisionNext => ArchiveTypes'
<1> SUFFICES ASSUME TypeInv, DecisionNext PROVE ArchiveTypes'
  OBVIOUS
<1> USE DEF TypeInv
<1> USE DEF CommitTypes, Progress, ArchiveTypes, Unstarted, Made, Reviewing, Putting, Deciding,
  Integrating, TreeOf, Tree, Commit, archive, checkout, started, server, told, OwnFiles, World, Step,
  Over
<1>1. CASE BeginReviewCandidate
  BY <1>1, Constants DEF BeginReviewCandidate, ArchiveOpens, LeaseFree, Readable
<1>2. ASSUME NEW value \in {"accepted", "rejected", "revision-requested"}, NEW by \in {"human",
  "policy-autonomous"}, BeginDecide(value, by) PROVE ArchiveTypes'
  BY <1>2, Constants DEF BeginDecide, ArchiveOpens, LeaseFree, Readable, Authority, VerdictAccepts,
    Verified, PlainDelegate, GateRecord
<1>3. CASE TakeSnapshot
  <2>1. Evidenced \in Snapshot
    BY ResultFields DEF Evidenced, Snapshot
  <2>2. QED
    BY <1>3, <2>1 DEF TakeSnapshot
<1>4. CASE RecordDecision
  <2>1. TreeOf(result.cand) \in Tree
    BY <1>4, TreeOfMade DEF RecordDecision
  <2>2. choice.value \in {"none", "accepted", "rejected", "revision-requested"}
        /\ choice.by \in {"nobody", "human", "policy-autonomous"}
    BY DEF OwnTypes, Choices
  <2>3. Attempted \in Decision
    BY <2>1, <2>2 DEF Attempted, Decision
  <2>4. QED
    BY <1>4, <2>3 DEF RecordDecision
<1>5. CASE DropRejected
  BY <1>5, Constants DEF DropRejected
<1>6. CASE DecideFails
  BY <1>6, Constants DEF DecideFails, SnapshotRefused, AnchorFits, DecisionConflict, Attempted
<1>7. CASE BeginIntegrate
  BY <1>7, Constants DEF BeginIntegrate, ArchiveOpens, LeaseFree, Readable, Spendable, Verified
<1>8. CASE Apply
  <2>1. TreeOf(result.cand) \in Tree
    BY <1>8, TreeOfMade DEF Apply
  <2>2. QED
    BY <1>8, <2>1 DEF Apply
<1>9. CASE ApplyConflicts
  BY <1>9, Constants DEF ApplyConflicts
<1>10. CASE PostApplyOk
  BY <1>10, Constants DEF PostApplyOk, Diverged
<1>11. CASE PostApplyDiverged
  BY <1>11, Constants DEF PostApplyDiverged, Diverged
<1>12. CASE DropApplied
  BY <1>12, Constants DEF DropApplied
<1>13. QED
  BY <1>1, <1>2, <1>3, <1>4, <1>5, <1>6, <1>7, <1>8, <1>9, <1>10, <1>11, <1>12 DEF DecisionNext

LEMMA ArchiveTypesRecovery == TypeInv /\ RecoveryNext => ArchiveTypes'
<1> SUFFICES ASSUME TypeInv, RecoveryNext PROVE ArchiveTypes'
  OBVIOUS
<1> USE DEF TypeInv
<1> USE DEF CommitTypes, Progress, ArchiveTypes, Unstarted, Made, Reviewing, Putting, Deciding,
  Integrating, TreeOf, Tree, Commit, archive, checkout, started, server, told, OwnFiles, World, Step,
  Over
<1>1. CASE ReclaimLock
  BY <1>1, Constants DEF ReclaimLock
<1>2. CASE BeginRecoverRun
  BY <1>2, Constants DEF BeginRecoverRun
<1>3. CASE RecoverAnchor
  BY <1>3, Constants DEF RecoverAnchor
<1>4. CASE RecoverResult
  <2>1. [status |-> "cancelled", cand |-> None, ev |-> {}] \in Result
    BY DEF Result
  <2>2. QED
    BY <1>4, <2>1 DEF RecoverResult
<1>5. CASE Quarantine
  BY <1>5, Constants DEF Quarantine
<1>6. CASE BeginRecoverPipeline
  BY <1>6, Constants DEF BeginRecoverPipeline, Verified
<1>7. CASE RecoverClear
  BY <1>7, Constants DEF RecoverClear
<1>8. CASE RecoverClearFails
  BY <1>8, Constants DEF RecoverClearFails
<1>9. QED
  BY <1>1, <1>2, <1>3, <1>4, <1>5, <1>6, <1>7, <1>8 DEF RecoveryNext

LEMMA ArchiveTypesOther == TypeInv /\ OtherNext => ArchiveTypes'
<1> SUFFICES ASSUME TypeInv, OtherNext PROVE ArchiveTypes'
  OBVIOUS
<1> USE DEF TypeInv
<1> USE DEF CommitTypes, Progress, ArchiveTypes, Unstarted, Made, Reviewing, Putting, Deciding,
  Integrating, TreeOf, Tree, Commit, archive, checkout, started, server, told, OwnFiles, World, Step,
  Over
<1>1. CASE WriteResult
  BY <1>1, PutFields DEF WriteResult, OwnTypes
<1>2. CASE WriteManifest
  BY <1>2, PutFields DEF WriteManifest, OwnTypes
<1>3. CASE PutFails
  BY <1>3, Constants DEF PutFails
<1>4. CASE UserEdits
  BY <1>4, Constants DEF UserEdits
<1>5. ASSUME NEW to \in {"base", "moved"}, UserResets(to) PROVE ArchiveTypes'
  BY <1>5, Constants DEF UserResets
<1>6. CASE UserCommits
  BY <1>6, Constants DEF UserCommits
<1>7. CASE Prune
  BY <1>7, Constants DEF Prune, LeaseFree, Cleanable
<1>8. ASSUME NEW stays \in BOOLEAN, Exit(stays) PROVE ArchiveTypes'
  BY <1>8, Constants DEF Exit, Elsewhere
<1>9. QED
  BY <1>1, <1>2, <1>3, <1>4, <1>5, <1>6, <1>7, <1>8 DEF OtherNext, UserNext

LEMMA OwnTypesPipeline == TypeInv /\ PipelineNext => OwnTypes'
<1> SUFFICES ASSUME TypeInv, PipelineNext PROVE OwnTypes'
  OBVIOUS
<1> USE DEF TypeInv
<1> USE DEF OwnTypes, archive, checkout, started, server, told, OwnFiles, World, Step, Over
<1>1. ASSUME NEW m \in Modes, BeginRun(m) PROVE OwnTypes'
  BY <1>1, FlagsStay, Idle, RunFields DEF BeginRun, LeaseFree
<1>2. CASE Freeze
  BY <1>2 DEF Freeze
<1>3. CASE AttemptWithoutCandidate
  <2>1. [status |-> "failed", cand |-> None, ev |-> Origin] \in Result
    BY Constants DEF Result, Evidence, Origin, Commit
  <2>2. QED
    BY <1>3, <2>1, SettleTypes DEF AttemptWithoutCandidate
<1>4. ASSUME NEW proved \in BOOLEAN, AttemptVerified(proved) PROVE OwnTypes'
  <2>1. [status |-> "verified", cand |-> 1,
         ev |-> Origin \cup (IF proved THEN {} ELSE {"unproved"})] \in Result
    BY Constants DEF Result, Evidence, Origin, Commit
  <2>2. QED
    BY <1>4, <2>1, SettleTypes DEF AttemptVerified
<1>5. CASE AttemptRefuted
  <2>1. [status |-> "failed", cand |-> 1, ev |-> Origin] \in Result
    BY Constants DEF Result, Evidence, Origin, Commit
  <2>2. QED
    BY <1>5, <2>1, SettleTypes DEF AttemptRefuted
<1>6. CASE ArchiveManifest
  BY <1>6 DEF ArchiveManifest
<1>7. CASE ArchiveResult
  BY <1>7, Idle DEF ArchiveResult
<1>8. CASE AttemptThrows
  BY <1>8, Idle DEF AttemptThrows
<1>9. CASE BeginReview
  BY <1>9 DEF BeginReview, Verified
<1>10. CASE ImplementFailed
  BY <1>10, WordsStay, RunFields DEF ImplementFailed, Verified
<1>11. CASE Advance
  <2>1. Len(commits) + 1 \in Commit
    BY <1>11, Constants DEF Advance, CommitTypes, Commit
  <2>2. QED
    BY <1>11, <2>1, CurrentStays DEF Advance
<1>12. ASSUME NEW cause \in {"verification", "other"}, PhaseFails(cause) PROVE OwnTypes'
  <2>1. [run EXCEPT !.cause = cause] \in Runs
    BY WordsStay
  <2>2. [[run EXCEPT !.cause = cause] EXCEPT !.verdict = "failed"] \in Runs
    BY <2>1, WordsStay
  <2>3. QED
    BY <1>12, <2>2 DEF PhaseFails
<1>13. ASSUME NEW goal \in {"gate", "salvage", "halt"}, PhasesEnd(goal) PROVE OwnTypes'
  <2>1. [run EXCEPT !.goal = goal] \in Runs
    BY WordsStay
  <2>2. QED
    BY <1>13, <2>1 DEF PhasesEnd
<1>14. CASE MoveAnchor
  <2>1. Len(commits) + 1 \in Commit
    BY <1>14, Constants DEF MoveAnchor, CommitTypes, Commit
  <2>2. [run.final EXCEPT !.cand = Len(commits) + 1] \in Result
    BY <2>1, RunFields, ResultMoved
  <2>3. TreeOf(run.current) \in Tree
    BY <1>14 DEF MoveAnchor, Step, CommitTypes, Made, Progress, Reviewing, TreeOf
  <2>4. run.goal \in {"none", "gate", "salvage", "halt"} 
    BY RunFields
  <2>5. put' \in Puts
    BY <1>14, <2>2, <2>3, <2>4, PutMade DEF MoveAnchor
  <2>6. QED
    BY <1>14, <2>5 DEF MoveAnchor
<1>15. CASE PromotionRefused
  <2>1. [run EXCEPT !.cause = "other"] \in Runs
    BY WordsStay
  <2>2. [[run EXCEPT !.cause = "other"] EXCEPT !.verdict = "failed"] \in Runs
    BY <2>1, WordsStay
  <2>3. QED
    BY <1>15, <2>2 DEF PromotionRefused
<1>16. CASE Throws
  BY <1>16 DEF Throws
<1>17. CASE GateClears
  <2>1. [run.final EXCEPT !.ev = @ \cup {"gateCleared"}] \in Result
    BY RunFields, ResultFields, ResultMoved DEF Evidence
  <2>2. put' \in Puts
    BY <1>17, <2>1, PutMade DEF GateClears, ArchiveTypes
  <2>3. [run EXCEPT !.verdict = "ready"] \in Runs
    BY WordsStay
  <2>4. QED
    BY <1>17, <2>2, <2>3 DEF GateClears
<1>18. ASSUME NEW verified \in BOOLEAN, GateRefuses(verified) PROVE OwnTypes'
  <2>1. [run.final EXCEPT !.ev = @ \cup {"gateRefused"}] \in Result
    BY RunFields, ResultFields, ResultMoved DEF Evidence
  <2>2. put' \in Puts
    BY <1>18, <2>1, PutMade DEF GateRefuses, ArchiveTypes
  <2>3. [run EXCEPT !.verdict = "refused"] \in Runs
    BY WordsStay
  <2>4. QED
    BY <1>18, <2>2, <2>3 DEF GateRefuses
<1>19. CASE SalvagePasses
  <2>1. [run.final EXCEPT !.ev = @ \cup {"reviewIncomplete"}] \in Result
    BY RunFields, ResultFields, ResultMoved DEF Evidence
  <2>2. put' \in Puts
    BY <1>19, <2>1, PutMade DEF SalvagePasses, ArchiveTypes
  <2>3. [run EXCEPT !.verdict = "salvaged"] \in Runs
    BY WordsStay
  <2>4. QED
    BY <1>19, <2>2, <2>3 DEF SalvagePasses
<1>20. CASE SalvageFails
  <2>1. [run.final EXCEPT !.status = "failed"] \in Result
    BY RunFields, ResultFields, ResultMoved DEF Evidence
  <2>2. put' \in Puts
    BY <1>20, <2>1, PutMade DEF SalvageFails, ArchiveTypes
  <2>3. [run EXCEPT !.verdict = "failed"] \in Runs
    BY WordsStay
  <2>4. QED
    BY <1>20, <2>2, <2>3 DEF SalvageFails
<1>21. CASE SalvageThrows
  <2>1. [run EXCEPT !.cause = "other"] \in Runs
    BY WordsStay
  <2>2. [[run EXCEPT !.cause = "other"] EXCEPT !.verdict = "failed"] \in Runs
    BY <2>1, WordsStay
  <2>3. QED
    BY <1>21, <2>2 DEF SalvageThrows
<1>22. ASSUME NEW verified \in BOOLEAN, Halt(verified) PROVE OwnTypes'
  <2>1. [run EXCEPT !.verdict = "halted"] \in Runs
    BY WordsStay
  <2>2. QED
    BY <1>22, <2>1 DEF Halt
<1>23. CASE DemoteAndKeep
  <2>1. put' \in Puts
    BY <1>23, DemotedTypes DEF DemoteAndKeep
  <2>2. QED
    BY <1>23, <2>1 DEF DemoteAndKeep
<1>24. CASE DemoteAndDrop
  <2>1. put' \in Puts
    BY <1>24, DemotedTypes DEF DemoteAndDrop
  <2>2. QED
    BY <1>24, <2>1 DEF DemoteAndDrop
<1>25. CASE DemoteFails
  BY <1>25 DEF DemoteFails, Verified, AnchorMoved
<1>26. CASE LoseAuthority
  <2>1. [run EXCEPT !.safe = FALSE] \in Runs
    BY FlagsStay
  <2>2. [[run EXCEPT !.safe = FALSE] EXCEPT !.lost = TRUE] \in Runs
    BY <2>1, FlagsStay
  <2>3. QED
    BY <1>26, <2>2 DEF LoseAuthority
<1>27. CASE NothingToDemote
  BY <1>27 DEF NothingToDemote, Verified
<1>28. CASE Record
  BY <1>28, WordsStay, FlagsStay, RunFields DEF Record
<1>29. CASE RecordFails
  BY <1>29 DEF RecordFails
<1>30. CASE Catch
  <2>1. [run EXCEPT !.block = "catch"] \in Runs
    BY WordsStay
  <2>2. [[run EXCEPT !.block = "catch"] EXCEPT !.cause = "verification"] \in Runs
    BY <2>1, WordsStay
  <2>3. [[[run EXCEPT !.block = "catch"] EXCEPT !.cause = "verification"] EXCEPT !.verdict = "failed"]
          \in Runs
    BY <2>2, WordsStay
  <2>4. QED
    BY <1>30, <2>3 DEF Catch
<1>31. CASE Release
  BY <1>31, Idle DEF Release
<1>32. CASE SliceRefsLeft
  BY <1>32, WordsStay, RunFields DEF SliceRefsLeft, Verified
<1>33. CASE Close
  BY <1>33, Idle DEF Close
<1>34. QED
  BY <1>1, <1>2, <1>3, <1>4, <1>5, <1>6, <1>7, <1>8, <1>9, <1>10, <1>11, <1>12, <1>13, <1>14, <1>15,
    <1>16, <1>17, <1>18, <1>19, <1>20, <1>21, <1>22, <1>23, <1>24, <1>25, <1>26, <1>27, <1>28, <1>29,
    <1>30, <1>31, <1>32, <1>33 DEF PipelineNext

LEMMA OwnTypesDecision == TypeInv /\ DecisionNext => OwnTypes'
<1> SUFFICES ASSUME TypeInv, DecisionNext PROVE OwnTypes'
  OBVIOUS
<1> USE DEF TypeInv
<1> USE DEF OwnTypes, archive, checkout, started, server, told, OwnFiles, World, Step, Over
<1>1. CASE BeginReviewCandidate
  BY <1>1 DEF BeginReviewCandidate, ArchiveOpens, LeaseFree, Readable
<1>2. ASSUME NEW value \in {"accepted", "rejected", "revision-requested"}, NEW by \in {"human",
  "policy-autonomous"}, BeginDecide(value, by) PROVE OwnTypes'
  BY <1>2 DEF BeginDecide, ArchiveOpens, LeaseFree, Readable, Authority, VerdictAccepts, Verified,
    PlainDelegate, GateRecord, Choices
<1>3. CASE TakeSnapshot
  BY <1>3, Idle DEF TakeSnapshot, AnchorFits
<1>4. CASE RecordDecision
  BY <1>4, Idle DEF RecordDecision, Attempted
<1>5. CASE DropRejected
  BY <1>5, Idle DEF DropRejected
<1>6. CASE DecideFails
  BY <1>6, Idle DEF DecideFails, SnapshotRefused, AnchorFits, DecisionConflict, Attempted
<1>7. CASE BeginIntegrate
  BY <1>7 DEF BeginIntegrate, ArchiveOpens, LeaseFree, Readable, Spendable, Verified
<1>8. CASE Apply
  BY <1>8 DEF Apply
<1>9. CASE ApplyConflicts
  BY <1>9, Idle DEF ApplyConflicts
<1>10. CASE PostApplyOk
  BY <1>10 DEF PostApplyOk, Diverged
<1>11. CASE PostApplyDiverged
  BY <1>11, Idle DEF PostApplyDiverged, Diverged
<1>12. CASE DropApplied
  BY <1>12, Idle DEF DropApplied
<1>13. QED
  BY <1>1, <1>2, <1>3, <1>4, <1>5, <1>6, <1>7, <1>8, <1>9, <1>10, <1>11, <1>12 DEF DecisionNext

LEMMA OwnTypesRecovery == TypeInv /\ RecoveryNext => OwnTypes'
<1> SUFFICES ASSUME TypeInv, RecoveryNext PROVE OwnTypes'
  OBVIOUS
<1> USE DEF TypeInv
<1> USE DEF OwnTypes, archive, checkout, started, server, told, OwnFiles, World, Step, Over
<1>1. CASE ReclaimLock
  BY <1>1 DEF ReclaimLock
<1>2. CASE BeginRecoverRun
  BY <1>2 DEF BeginRecoverRun
<1>3. CASE RecoverAnchor
  BY <1>3 DEF RecoverAnchor
<1>4. CASE RecoverResult
  BY <1>4, Idle DEF RecoverResult, Evidence, Result
<1>5. CASE Quarantine
  BY <1>5, Idle DEF Quarantine
<1>6. CASE BeginRecoverPipeline
  <2>1. [result EXCEPT !.status = "failed"] \in Result
    BY ResultMoved DEF ArchiveTypes
  <2>2. put' \in Puts
    BY <1>6, <2>1, PutMade DEF BeginRecoverPipeline, ArchiveTypes
  <2>3. QED
    BY <1>6, <2>2 DEF BeginRecoverPipeline
<1>7. CASE RecoverClear
  BY <1>7, Idle DEF RecoverClear
<1>8. CASE RecoverClearFails
  BY <1>8, Idle DEF RecoverClearFails
<1>9. QED
  BY <1>1, <1>2, <1>3, <1>4, <1>5, <1>6, <1>7, <1>8 DEF RecoveryNext

LEMMA OwnTypesOther == TypeInv /\ OtherNext => OwnTypes'
<1> SUFFICES ASSUME TypeInv, OtherNext PROVE OwnTypes'
  OBVIOUS
<1> USE DEF TypeInv
<1> USE DEF OwnTypes, archive, checkout, started, server, told, OwnFiles, World, Step, Over
<1>1. CASE WriteResult
  BY <1>1 DEF WriteResult
<1>2. CASE WriteManifest
  <2>1. run' \in Runs
    BY <1>2, PutFields, ResultFields, FinalStays, CurrentStays DEF WriteManifest
  <2>2. QED
    BY <1>2, <2>1, Idle DEF WriteManifest
<1>3. CASE PutFails
  BY <1>3, PutMade, ResultMoved, ResultFields, Idle, RunFields DEF PutFails
<1>4. CASE UserEdits
  BY <1>4 DEF UserEdits
<1>5. ASSUME NEW to \in {"base", "moved"}, UserResets(to) PROVE OwnTypes'
  BY <1>5 DEF UserResets
<1>6. CASE UserCommits
  BY <1>6 DEF UserCommits
<1>7. CASE Prune
  BY <1>7 DEF Prune, LeaseFree, Cleanable
<1>8. ASSUME NEW stays \in BOOLEAN, Exit(stays) PROVE OwnTypes'
  BY <1>8, Idle DEF Exit, Elsewhere
<1>9. QED
  BY <1>1, <1>2, <1>3, <1>4, <1>5, <1>6, <1>7, <1>8 DEF OtherNext, UserNext

LEMMA TypeInvNext == TypeInv /\ [Next]_vars => TypeInv'
<1> SUFFICES ASSUME TypeInv, [Next]_vars PROVE TypeInv'
  OBVIOUS
<1>1. CommitTypes'
  <2>1. CASE UNCHANGED vars
    BY <2>1 DEF TypeInv, CommitTypes, Progress, Unstarted, Made, Reviewing, Putting, Deciding,
      Integrating, TreeOf, Tree, Commit, archive, checkout, started, server, told, vars
  <2>2. QED
    BY <2>1, CommitTypesPipeline, CommitTypesDecision, CommitTypesRecovery, CommitTypesOther DEF Next,
      OtherNext
<1>2. Progress'
  <2>1. CASE UNCHANGED vars
    BY <2>1 DEF TypeInv, CommitTypes, Progress, Unstarted, Made, Reviewing, Putting, Deciding,
      Integrating, archive, checkout, started, server, told, vars
  <2>2. QED
    BY <2>1, ProgressPipeline, ProgressDecision, ProgressRecovery, ProgressOther DEF Next, OtherNext
<1>3. ArchiveTypes'
  <2>1. CASE UNCHANGED vars
    BY <2>1 DEF TypeInv, CommitTypes, Progress, ArchiveTypes, Unstarted, Made, Reviewing, Putting,
      Deciding, Integrating, TreeOf, Tree, Commit, archive, checkout, started, server, told, vars
  <2>2. QED
    BY <2>1, ArchiveTypesPipeline, ArchiveTypesDecision, ArchiveTypesRecovery, ArchiveTypesOther DEF
      Next, OtherNext
<1>4. OwnTypes'
  <2>1. CASE UNCHANGED vars
    BY <2>1 DEF TypeInv, OwnTypes, archive, checkout, started, server, told, vars
  <2>2. QED
    BY <2>1, OwnTypesPipeline, OwnTypesDecision, OwnTypesRecovery, OwnTypesOther DEF Next, OtherNext
<1>5. QED
  BY <1>1, <1>2, <1>3, <1>4 DEF TypeInv

LEMMA TypeInvAlways == Spec => []TypeInv
BY TypeInvInit, TypeInvNext, PTL DEF Spec

\* Every variable has its type, of every run of the pipeline, of every decision, integration,
\* recovery and prune (promoteTerminalArtifacts, recordCandidateDecision).
THEOREM TypeCorrect == Spec => []TypeOK
<1>1. ASSUME TypeInv PROVE TypeOK
  <2>1. Len(commits) <= MaxCommits /\ \A c \in DOMAIN commits : commits[c] \in Tree
    BY <1>1 DEF TypeInv, CommitTypes
  <2>2. {run.final, put.result} \subseteq Result
    BY <1>1 DEF TypeInv, OwnTypes, Runs, Puts
  <2>3. QED
    BY <1>1, <2>1, <2>2 DEF TypeInv, ArchiveTypes, OwnTypes, TypeOK
<1>2. QED
  BY <1>1, TypeInvAlways, PTL

-----------------------------------------------------------------------------
(* What has been decided on *)

LEMMA DecisionInvInit == ArchiveInit => DecisionInv
BY DEF ArchiveInit, DecisionInv, Opened, Deciding, Integrating, OnlyAcceptedStaged,
       AcceptedStaysAnchored, NoDecision

LEMMA DecisionInvPipeline == TypeInv /\ DecisionInv /\ PipelineNext => DecisionInv'
<1> SUFFICES ASSUME TypeInv, DecisionInv, PipelineNext PROVE DecisionInv'
  OBVIOUS
<1>idle. Unstarted
  BY DEF TypeInv, Progress
<1> USE <1>idle DEF DecisionInv, Unstarted, Opened, Grounded, Deciding, Integrating,
      OnlyAcceptedStaged, AcceptedStaysAnchored,
      archive, checkout, started, server, told, OwnFiles, World, Step, Over, TreeOf, Evidenced
<1>none. NoDecision.value = "none"
  BY DEF NoDecision
<1> USE <1>none
<1>1. ASSUME NEW m \in Modes, BeginRun(m) PROVE DecisionInv'
  BY <1>1, ArchiveAssumption DEF BeginRun, LeaseFree, NoResult
<1>2. CASE Freeze
  BY <1>2 DEF Freeze
<1>3. CASE AttemptWithoutCandidate
  BY <1>3 DEF AttemptWithoutCandidate, Settle
<1>4. ASSUME NEW proved \in BOOLEAN, AttemptVerified(proved) PROVE DecisionInv'
  BY <1>4 DEF AttemptVerified, Settle
<1>5. CASE AttemptRefuted
  BY <1>5 DEF AttemptRefuted, Settle
<1>6. CASE ArchiveManifest
  BY <1>6 DEF ArchiveManifest
<1>7. CASE ArchiveResult
  BY <1>7 DEF ArchiveResult
<1>8. CASE AttemptThrows
  BY <1>8 DEF AttemptThrows
<1>9. CASE BeginReview
  BY <1>9 DEF BeginReview, Verified
<1>10. CASE ImplementFailed
  BY <1>10 DEF ImplementFailed, Verified
<1>11. CASE Advance
  BY <1>11 DEF Advance
<1>12. ASSUME NEW cause \in {"verification", "other"}, PhaseFails(cause) PROVE DecisionInv'
  BY <1>12 DEF PhaseFails
<1>13. ASSUME NEW goal \in {"gate", "salvage", "halt"}, PhasesEnd(goal) PROVE DecisionInv'
  BY <1>13 DEF PhasesEnd
<1>14. CASE MoveAnchor
  BY <1>14 DEF MoveAnchor
<1>15. CASE PromotionRefused
  BY <1>15 DEF PromotionRefused
<1>16. CASE Throws
  BY <1>16 DEF Throws
<1>17. CASE GateClears
  BY <1>17 DEF GateClears
<1>18. ASSUME NEW verified \in BOOLEAN, GateRefuses(verified) PROVE DecisionInv'
  BY <1>18 DEF GateRefuses
<1>19. CASE SalvagePasses
  BY <1>19 DEF SalvagePasses
<1>20. CASE SalvageFails
  BY <1>20 DEF SalvageFails
<1>21. CASE SalvageThrows
  BY <1>21 DEF SalvageThrows
<1>22. ASSUME NEW verified \in BOOLEAN, Halt(verified) PROVE DecisionInv'
  BY <1>22 DEF Halt
<1>23. CASE DemoteAndKeep
  BY <1>23 DEF DemoteAndKeep, Verified, Demoted
<1>24. CASE DemoteAndDrop
  BY <1>24 DEF DemoteAndDrop, Verified, Demoted
<1>25. CASE DemoteFails
  BY <1>25 DEF DemoteFails, Verified, AnchorMoved
<1>26. CASE LoseAuthority
  BY <1>26 DEF LoseAuthority
<1>27. CASE NothingToDemote
  BY <1>27 DEF NothingToDemote, Verified
<1>28. CASE Record
  BY <1>28 DEF Record
<1>29. CASE RecordFails
  <2>1. pc' \in {"catch", "finally", "close"}
    BY <1>29, RunFields DEF RecordFails, TypeInv, OwnTypes
  <2>2. QED
    BY <1>29, <2>1 DEF RecordFails
<1>30. CASE Catch
  BY <1>30 DEF Catch, Verified
<1>31. CASE Release
  BY <1>31 DEF Release
<1>32. CASE SliceRefsLeft
  BY <1>32 DEF SliceRefsLeft, Verified
<1>33. CASE Close
  BY <1>33 DEF Close
<1>34. QED
  BY <1>1, <1>2, <1>3, <1>4, <1>5, <1>6, <1>7, <1>8, <1>9, <1>10, <1>11, <1>12, <1>13, <1>14, <1>15,
    <1>16, <1>17, <1>18, <1>19, <1>20, <1>21, <1>22, <1>23, <1>24, <1>25, <1>26, <1>27, <1>28, <1>29,
    <1>30, <1>31, <1>32, <1>33 DEF PipelineNext

LEMMA DecisionInvDecision == TypeInv /\ DecisionInv /\ DecisionNext => DecisionInv'
<1> SUFFICES ASSUME TypeInv, DecisionInv, DecisionNext PROVE DecisionInv'
  OBVIOUS
<1>idle. Unstarted
  BY DEF TypeInv, Progress
<1> USE <1>idle DEF DecisionInv, Unstarted, Opened, Grounded, Deciding, Integrating,
      OnlyAcceptedStaged, AcceptedStaysAnchored,
      archive, checkout, started, server, told, OwnFiles, World, Step, Over, TreeOf, Evidenced
<1>none. NoDecision.value = "none"
  BY DEF NoDecision
<1> USE <1>none
<1>1. CASE BeginReviewCandidate
  BY <1>1 DEF BeginReviewCandidate, ArchiveOpens, LeaseFree, Readable, NoResult
<1>2. ASSUME NEW value \in {"accepted", "rejected", "revision-requested"}, NEW by \in {"human",
  "policy-autonomous"}, BeginDecide(value, by) PROVE DecisionInv'
  BY <1>2 DEF BeginDecide, ArchiveOpens, LeaseFree, Readable, NoResult
<1>3. CASE TakeSnapshot
  BY <1>3 DEF TakeSnapshot, AnchorFits
<1>4. CASE RecordDecision
  BY <1>4 DEF RecordDecision, Attempted
<1>5. CASE DropRejected
  BY <1>5 DEF DropRejected
<1>6. CASE DecideFails
  BY <1>6 DEF DecideFails, SnapshotRefused, AnchorFits, DecisionConflict, Attempted
<1>7. CASE BeginIntegrate
  BY <1>7 DEF BeginIntegrate, ArchiveOpens, LeaseFree, Readable, Spendable, NoResult
<1>8. CASE Apply
  BY <1>8 DEF Apply
<1>9. CASE ApplyConflicts
  BY <1>9 DEF ApplyConflicts
<1>10. CASE PostApplyOk
  BY <1>10 DEF PostApplyOk, Diverged
<1>11. CASE PostApplyDiverged
  BY <1>11 DEF PostApplyDiverged, Diverged
<1>12. CASE DropApplied
  BY <1>12 DEF DropApplied
<1>13. QED
  BY <1>1, <1>2, <1>3, <1>4, <1>5, <1>6, <1>7, <1>8, <1>9, <1>10, <1>11, <1>12 DEF DecisionNext

LEMMA DecisionInvRecovery == TypeInv /\ DecisionInv /\ RecoveryNext => DecisionInv'
<1> SUFFICES ASSUME TypeInv, DecisionInv, RecoveryNext PROVE DecisionInv'
  OBVIOUS
<1>idle. Unstarted
  BY DEF TypeInv, Progress
<1> USE <1>idle DEF DecisionInv, Unstarted, Opened, Grounded, Deciding, Integrating,
      OnlyAcceptedStaged, AcceptedStaysAnchored,
      archive, checkout, started, server, told, OwnFiles, World, Step, Over, TreeOf, Evidenced
<1>none. NoDecision.value = "none"
  BY DEF NoDecision
<1> USE <1>none
<1>1. CASE ReclaimLock
  BY <1>1 DEF ReclaimLock
<1>2. CASE BeginRecoverRun
  BY <1>2 DEF BeginRecoverRun
<1>3. CASE RecoverAnchor
  BY <1>3 DEF RecoverAnchor
<1>4. CASE RecoverResult
  BY <1>4 DEF RecoverResult
<1>5. CASE Quarantine
  BY <1>5 DEF Quarantine
<1>6. CASE BeginRecoverPipeline
  BY <1>6 DEF BeginRecoverPipeline, Verified
<1>7. CASE RecoverClear
  BY <1>7 DEF RecoverClear
<1>8. CASE RecoverClearFails
  BY <1>8 DEF RecoverClearFails
<1>9. QED
  BY <1>1, <1>2, <1>3, <1>4, <1>5, <1>6, <1>7, <1>8 DEF RecoveryNext

LEMMA DecisionInvOther == TypeInv /\ DecisionInv /\ OtherNext => DecisionInv'
<1> SUFFICES ASSUME TypeInv, DecisionInv, OtherNext PROVE DecisionInv'
  OBVIOUS
<1>idle. Unstarted
  BY DEF TypeInv, Progress
<1> USE <1>idle DEF DecisionInv, Unstarted, Opened, Grounded, Deciding, Integrating,
      OnlyAcceptedStaged, AcceptedStaysAnchored,
      archive, checkout, started, server, told, OwnFiles, World, Step, Over, TreeOf, Evidenced
<1>none. NoDecision.value = "none"
  BY DEF NoDecision
<1> USE <1>none
<1>1. CASE WriteResult
  BY <1>1 DEF WriteResult
<1>2. CASE WriteManifest
  <2>1. /\ pc' = put.done
        /\ put.done \in {"idle", "none", "gate", "salvage", "halt", "record", "recoverClear"}
    BY <1>2, PutFields DEF WriteManifest, TypeInv, OwnTypes
  <2>2. QED
    BY <1>2, <2>1 DEF WriteManifest
<1>3. CASE PutFails
  <2>1. pc' = put.fail /\ put.fail \in {"idle", "catch", "lost", "close"}
    BY <1>3, PutFields DEF PutFails, TypeInv, OwnTypes
  <2>2. QED
    BY <1>3, <2>1 DEF PutFails
<1>4. CASE UserEdits
  BY <1>4 DEF UserEdits
<1>5. ASSUME NEW to \in {"base", "moved"}, UserResets(to) PROVE DecisionInv'
  BY <1>5 DEF UserResets
<1>6. CASE UserCommits
  BY <1>6 DEF UserCommits
<1>7. CASE Prune
  BY <1>7 DEF Prune, LeaseFree, Cleanable
<1>8. ASSUME NEW stays \in BOOLEAN, Exit(stays) PROVE DecisionInv'
  BY <1>8 DEF Exit, Elsewhere
<1>9. QED
  BY <1>1, <1>2, <1>3, <1>4, <1>5, <1>6, <1>7, <1>8 DEF OtherNext, UserNext

LEMMA DecisionInvNext == TypeInv /\ DecisionInv /\ [Next]_vars => DecisionInv'
<1> SUFFICES ASSUME TypeInv, DecisionInv, [Next]_vars PROVE DecisionInv'
  OBVIOUS
<1>1. CASE UNCHANGED vars
  BY <1>1 DEF DecisionInv, Opened, Grounded, Deciding, Integrating, OnlyAcceptedStaged,
     AcceptedStaysAnchored, TreeOf, Evidenced, vars, archive, checkout, started, server, told
<1>2. QED
  BY <1>1, DecisionInvPipeline, DecisionInvDecision, DecisionInvRecovery, DecisionInvOther
  DEF Next, OtherNext

LEMMA DecisionInvAlways == Spec => []DecisionInv
BY DecisionInvInit, DecisionInvNext, TypeInvAlways, PTL DEF Spec

\* Only bytes that were accepted reach the checkout, whatever replaced the archive, moved the
\* anchor, failed or exited on the way, and whatever the user did (handleIntegrateCandidate).
THEOREM OnlyAcceptedBytes == Spec => []OnlyAcceptedStaged
<1>1. DecisionInv => OnlyAcceptedStaged
  BY DEF DecisionInv
<1>2. QED
  BY <1>1, DecisionInvAlways, PTL

\* An accepted candidate keeps the anchor its objects hang on until it was found applied
\* (ControlledIntegrator.integrate).
THEOREM AnchorHeld == Spec => []AcceptedStaysAnchored
<1>1. DecisionInv => AcceptedStaysAnchored
  BY DEF DecisionInv
<1>2. QED
  BY <1>1, DecisionInvAlways, PTL

\* A rejection that did not get to remove the anchor can be sent again to remove it: the archive
\* still opens and the snapshot step still matches (recordCandidateDecision).
THEOREM RejectionSendable == Spec => []RejectionRepairable
<1>1. DecisionInv => RejectionRepairable
  BY DEF DecisionInv, Grounded, RejectionRepairable, Readable, NoDecision
<1>2. QED
  BY <1>1, DecisionInvAlways, PTL

\* A step that finds a decision leaves it, and all that it was made about.
LEMMA DecisionKept ==
  TypeInv /\ DecisionInv /\ [Next]_vars =>
    (decision # NoDecision => UNCHANGED <<decision, result, manifest, gate, snapshot>>)
<1> SUFFICES ASSUME TypeInv, DecisionInv, [Next]_vars, decision # NoDecision
             PROVE  UNCHANGED <<decision, result, manifest, gate, snapshot>>
  OBVIOUS
<1>idle. /\ Unstarted
         /\ decision # NoDecision =>
              Grounded /\ ~marker /\ pc \in {"idle"} \cup Deciding \cup Integrating
  BY DEF TypeInv, Progress, DecisionInv
<1> USE <1>idle DEF Unstarted, Grounded, Deciding, Integrating, archive, checkout, started, server,
      told, OwnFiles, World, Step, Over, TreeOf, Evidenced
<1>1. CASE PipelineNext
  <2>1. ASSUME NEW m \in Modes, BeginRun(m) PROVE UNCHANGED <<decision, result, manifest, gate,
    snapshot>>
    BY <2>1 DEF BeginRun, LeaseFree, NoResult
  <2>2. CASE Freeze
    BY <2>2 DEF Freeze
  <2>3. CASE AttemptWithoutCandidate
    BY <2>3 DEF AttemptWithoutCandidate, Settle
  <2>4. ASSUME NEW proved \in BOOLEAN, AttemptVerified(proved) PROVE UNCHANGED <<decision, result,
    manifest, gate, snapshot>>
    BY <2>4 DEF AttemptVerified, Settle
  <2>5. CASE AttemptRefuted
    BY <2>5 DEF AttemptRefuted, Settle
  <2>6. CASE ArchiveManifest
    BY <2>6 DEF ArchiveManifest
  <2>7. CASE ArchiveResult
    BY <2>7 DEF ArchiveResult
  <2>8. CASE AttemptThrows
    BY <2>8 DEF AttemptThrows
  <2>9. CASE BeginReview
    BY <2>9 DEF BeginReview
  <2>10. CASE ImplementFailed
    BY <2>10 DEF ImplementFailed
  <2>11. CASE Advance
    BY <2>11 DEF Advance
  <2>12. ASSUME NEW cause \in {"verification", "other"}, PhaseFails(cause) PROVE UNCHANGED <<decision,
    result, manifest, gate, snapshot>>
    BY <2>12 DEF PhaseFails
  <2>13. ASSUME NEW goal \in {"gate", "salvage", "halt"}, PhasesEnd(goal) PROVE UNCHANGED <<decision,
    result, manifest, gate, snapshot>>
    BY <2>13 DEF PhasesEnd
  <2>14. CASE MoveAnchor
    BY <2>14 DEF MoveAnchor
  <2>15. CASE PromotionRefused
    BY <2>15 DEF PromotionRefused
  <2>16. CASE Throws
    BY <2>16 DEF Throws
  <2>17. CASE GateClears
    BY <2>17 DEF GateClears
  <2>18. ASSUME NEW verified \in BOOLEAN, GateRefuses(verified) PROVE UNCHANGED <<decision, result,
    manifest, gate, snapshot>>
    BY <2>18 DEF GateRefuses
  <2>19. CASE SalvagePasses
    BY <2>19 DEF SalvagePasses
  <2>20. CASE SalvageFails
    BY <2>20 DEF SalvageFails
  <2>21. CASE SalvageThrows
    BY <2>21 DEF SalvageThrows
  <2>22. ASSUME NEW verified \in BOOLEAN, Halt(verified) PROVE UNCHANGED <<decision, result, manifest,
    gate, snapshot>>
    BY <2>22 DEF Halt
  <2>23. CASE DemoteAndKeep
    BY <2>23 DEF DemoteAndKeep
  <2>24. CASE DemoteAndDrop
    BY <2>24 DEF DemoteAndDrop
  <2>25. CASE DemoteFails
    BY <2>25 DEF DemoteFails
  <2>26. CASE LoseAuthority
    BY <2>26 DEF LoseAuthority
  <2>27. CASE NothingToDemote
    BY <2>27 DEF NothingToDemote
  <2>28. CASE Record
    BY <2>28 DEF Record
  <2>29. CASE RecordFails
    BY <2>29 DEF RecordFails
  <2>30. CASE Catch
    BY <2>30 DEF Catch
  <2>31. CASE Release
    BY <2>31 DEF Release
  <2>32. CASE SliceRefsLeft
    BY <2>32 DEF SliceRefsLeft
  <2>33. CASE Close
    BY <2>33 DEF Close
  <2>34. QED
    BY <1>1, <2>1, <2>2, <2>3, <2>4, <2>5, <2>6, <2>7, <2>8, <2>9, <2>10, <2>11, <2>12, <2>13, <2>14,
      <2>15, <2>16, <2>17, <2>18, <2>19, <2>20, <2>21, <2>22, <2>23, <2>24, <2>25, <2>26, <2>27, <2>28,
      <2>29, <2>30, <2>31, <2>32, <2>33 DEF PipelineNext
<1>2. CASE DecisionNext
  <2>1. CASE BeginReviewCandidate
    BY <2>1 DEF BeginReviewCandidate, LeaseFree
  <2>2. ASSUME NEW value \in {"accepted", "rejected", "revision-requested"}, NEW by \in {"human",
    "policy-autonomous"}, BeginDecide(value, by) PROVE UNCHANGED <<decision, result, manifest, gate,
    snapshot>>
    BY <2>2 DEF BeginDecide, LeaseFree
  <2>3. CASE TakeSnapshot
    BY <2>3 DEF TakeSnapshot
  <2>4. CASE RecordDecision
    BY <2>4 DEF RecordDecision, Attempted
  <2>5. CASE DropRejected
    BY <2>5 DEF DropRejected
  <2>6. CASE DecideFails
    BY <2>6 DEF DecideFails, Attempted
  <2>7. CASE BeginIntegrate
    BY <2>7 DEF BeginIntegrate, LeaseFree
  <2>8. CASE Apply
    BY <2>8 DEF Apply
  <2>9. CASE ApplyConflicts
    BY <2>9 DEF ApplyConflicts
  <2>10. CASE PostApplyOk
    BY <2>10 DEF PostApplyOk
  <2>11. CASE PostApplyDiverged
    BY <2>11 DEF PostApplyDiverged
  <2>12. CASE DropApplied
    BY <2>12 DEF DropApplied
  <2>13. QED
    BY <1>2, <2>1, <2>2, <2>3, <2>4, <2>5, <2>6, <2>7, <2>8, <2>9, <2>10, <2>11, <2>12 DEF DecisionNext
<1>3. CASE RecoveryNext
  <2>1. CASE ReclaimLock
    BY <2>1 DEF ReclaimLock
  <2>2. CASE BeginRecoverRun
    BY <2>2 DEF BeginRecoverRun
  <2>3. CASE RecoverAnchor
    BY <2>3 DEF RecoverAnchor
  <2>4. CASE RecoverResult
    BY <2>4 DEF RecoverResult
  <2>5. CASE Quarantine
    BY <2>5 DEF Quarantine
  <2>6. CASE BeginRecoverPipeline
    BY <2>6 DEF BeginRecoverPipeline
  <2>7. CASE RecoverClear
    BY <2>7 DEF RecoverClear
  <2>8. CASE RecoverClearFails
    BY <2>8 DEF RecoverClearFails
  <2>9. QED
    BY <1>3, <2>1, <2>2, <2>3, <2>4, <2>5, <2>6, <2>7, <2>8 DEF RecoveryNext
<1>4. CASE OtherNext
  <2>1. CASE WriteResult
    BY <2>1 DEF WriteResult
  <2>2. CASE WriteManifest
    BY <2>2 DEF WriteManifest
  <2>3. CASE PutFails
    BY <2>3 DEF PutFails
  <2>4. CASE UserEdits
    BY <2>4 DEF UserEdits
  <2>5. ASSUME NEW to \in {"base", "moved"}, UserResets(to) PROVE UNCHANGED <<decision, result,
    manifest, gate, snapshot>>
    BY <2>5 DEF UserResets
  <2>6. CASE UserCommits
    BY <2>6 DEF UserCommits
  <2>7. CASE Prune
    BY <2>7 DEF Prune, LeaseFree
  <2>8. ASSUME NEW stays \in BOOLEAN, Exit(stays) PROVE UNCHANGED <<decision, result, manifest, gate,
    snapshot>>
    BY <2>8 DEF Exit
  <2>9. QED
    BY <1>4, <2>1, <2>2, <2>3, <2>4, <2>5, <2>6, <2>7, <2>8 DEF OtherNext, UserNext
<1>5. CASE UNCHANGED vars
  BY <1>5 DEF vars
<1>6. QED
  BY <1>1, <1>2, <1>3, <1>4, <1>5 DEF Next, OtherNext

\* A decision is for ever, and so is what it was made about (promoteTerminalArtifacts,
\* recordCandidateDecision).
THEOREM DecisionsStand == Spec => DecisionFinal
<1>1. TypeInv /\ DecisionInv /\ [Next]_vars =>
        [decision # NoDecision => UNCHANGED <<decision, result, manifest, gate, snapshot>>]_vars
  BY DecisionKept
<1>2. QED
  BY <1>1, TypeInvAlways, DecisionInvAlways, PTL DEF Spec, DecisionFinal

-----------------------------------------------------------------------------
(* What a pipeline leaves behind *)

LEMMA PipelineInvInit == ArchiveInit => PipelineInv
BY DEF ArchiveInit, PipelineInv, Guarded, Good, Verified, Attempting, Reviewing, Putting, Ending,
       NoResult, IdleRun

LEMMA PipelineInvPipeline == TypeInv /\ PipelineInv /\ PipelineNext => PipelineInv'
<1> SUFFICES ASSUME TypeInv, PipelineInv, PipelineNext PROVE PipelineInv'
  OBVIOUS
<1>idle. Unstarted /\ IdleRun.recorded = FALSE /\ IdleRun.block = "try" /\ NoResult.status = "absent"
  BY DEF TypeInv, Progress, IdleRun, NoResult
<1>types. run \in Runs /\ put \in Puts /\ result \in Result
  BY DEF TypeInv, OwnTypes, ArchiveTypes
<1> USE <1>idle, <1>types DEF PipelineInv, Unstarted, PutKnown, Guarded, Good, Verified, Attempting,
      Reviewing, Putting, Ending, archive, checkout, started, server, told, OwnFiles, World, Step, Over
<1>1. ASSUME NEW m \in Modes, BeginRun(m) PROVE PipelineInv'
  <2>1. run'.block = "try" /\ ~run'.recorded
    BY <1>1 DEF BeginRun, IdleRun
  <2>2. mode' = m /\ m # "none" /\ (m = "sliced" <=> marker') /\ result' = result /\ gate' = None
        /\ pc' = "attempt" /\ result.status = "absent"
    BY <1>1, Constants DEF BeginRun
  <2>3. QED
    BY <2>1, <2>2
<1>2. CASE Freeze
  BY <1>2 DEF Freeze
<1>3. CASE AttemptWithoutCandidate
  BY <1>3 DEF AttemptWithoutCandidate, Settle
<1>4. ASSUME NEW proved \in BOOLEAN, AttemptVerified(proved) PROVE PipelineInv'
  BY <1>4 DEF AttemptVerified, Settle
<1>5. CASE AttemptRefuted
  BY <1>5 DEF AttemptRefuted, Settle
<1>6. CASE ArchiveManifest
  BY <1>6 DEF ArchiveManifest
<1>7. CASE ArchiveResult
  BY <1>7 DEF ArchiveResult
<1>8. CASE AttemptThrows
  BY <1>8 DEF AttemptThrows
<1>9. CASE BeginReview
  BY <1>9 DEF BeginReview
<1>10. CASE ImplementFailed
  BY <1>10 DEF ImplementFailed
<1>11. CASE Advance
  BY <1>11 DEF Advance
<1>12. ASSUME NEW cause \in {"verification", "other"}, PhaseFails(cause) PROVE PipelineInv'
  BY <1>12 DEF PhaseFails
<1>13. ASSUME NEW goal \in {"gate", "salvage", "halt"}, PhasesEnd(goal) PROVE PipelineInv'
  BY <1>13 DEF PhasesEnd
<1>14. CASE MoveAnchor
  <2>1. Len(commits) \in Nat /\ Len(commits) + 1 \in Commit /\ Len(commits) + 1 # None
    <3>1. Len(commits) \in Nat /\ Len(commits) + 1 \in 1..MaxCommits
      BY <1>14, Constants DEF MoveAnchor, TypeInv, CommitTypes
    <3>2. QED
      BY <3>1, Constants DEF Commit
  <2>2. run.final \in Result
    BY RunFields
  <2>3. /\ [run.final EXCEPT !.cand = Len(commits) + 1].status = run.final.status
        /\ [run.final EXCEPT !.cand = Len(commits) + 1].cand = Len(commits) + 1
    BY <2>1, <2>2, ResultMoved
  <2>4. Verified([run.final EXCEPT !.cand = Len(commits) + 1])
    BY <1>14, <2>1, <2>3 DEF MoveAnchor
  <2>5. put'.result = [run.final EXCEPT !.cand = Len(commits) + 1] /\ put'.done = run.goal
        /\ put'.fail = "catch" /\ pc' = "putResult" /\ pc = "promote"
        /\ UNCHANGED <<run, gate, marker, result, mode, outcome>>
    BY <1>14 DEF MoveAnchor
  <2>6. Verified(put'.result)
    BY <2>4, <2>5
  <2>7. QED
    BY <2>5, <2>6
<1>15. CASE PromotionRefused
  BY <1>15 DEF PromotionRefused
<1>16. CASE Throws
  BY <1>16 DEF Throws
<1>17. CASE GateClears
  BY <1>17 DEF GateClears
<1>18. ASSUME NEW verified \in BOOLEAN, GateRefuses(verified) PROVE PipelineInv'
  BY <1>18 DEF GateRefuses
<1>19. CASE SalvagePasses
  BY <1>19 DEF SalvagePasses
<1>20. CASE SalvageFails
  <2>1. [run.final EXCEPT !.status = "failed"].status = "failed"
    BY RunFields, ResultMoved
  <2>2. ~Verified(put'.result)
    BY <1>20, <2>1 DEF SalvageFails
  <2>3. QED
    BY <1>20, <2>2 DEF SalvageFails
<1>21. CASE SalvageThrows
  BY <1>21 DEF SalvageThrows
<1>22. ASSUME NEW verified \in BOOLEAN, Halt(verified) PROVE PipelineInv'
  BY <1>22 DEF Halt
<1>23. CASE DemoteAndKeep
  <2>1. put'.result.status = "failed" /\ put'.done = "record" /\ put'.fail = "lost"
    BY <1>23, RunFields DEF DemoteAndKeep, Demoted, Result
  <2>2. ~Verified(put'.result)
    BY <2>1
  <2>3. QED
    BY <1>23, <2>1, <2>2 DEF DemoteAndKeep
<1>24. CASE DemoteAndDrop
  <2>1. put'.result.status = "failed" /\ put'.done = "record" /\ put'.fail = "lost"
    BY <1>24, RunFields DEF DemoteAndDrop, Demoted, Result
  <2>2. ~Verified(put'.result)
    BY <2>1
  <2>3. QED
    BY <1>24, <2>1, <2>2 DEF DemoteAndDrop
<1>25. CASE DemoteFails
  BY <1>25 DEF DemoteFails, AnchorMoved
<1>26. CASE LoseAuthority
  BY <1>26 DEF LoseAuthority
<1>27. CASE NothingToDemote
  BY <1>27 DEF NothingToDemote
<1>28. CASE Record
  BY <1>28 DEF Record
<1>29. CASE RecordFails
  <2>1. /\ run.block = "try" => pc' = "catch"
        /\ run.block = "catch" => pc' = "finally"
        /\ run.block \in {"finally", "attempt"} => pc' = "close"
        /\ run.block \in {"attempt", "try", "catch", "finally"}
    BY <1>29, RunFields DEF RecordFails
  <2>2. QED
    BY <1>29, <2>1 DEF RecordFails
<1>30. CASE Catch
  BY <1>30 DEF Catch
<1>31. CASE Release
  BY <1>31 DEF Release
<1>32. CASE SliceRefsLeft
  BY <1>32 DEF SliceRefsLeft
<1>33. CASE Close
  BY <1>33 DEF Close
<1>34. QED
  BY <1>1, <1>2, <1>3, <1>4, <1>5, <1>6, <1>7, <1>8, <1>9, <1>10, <1>11, <1>12, <1>13, <1>14, <1>15,
    <1>16, <1>17, <1>18, <1>19, <1>20, <1>21, <1>22, <1>23, <1>24, <1>25, <1>26, <1>27, <1>28, <1>29,
    <1>30, <1>31, <1>32, <1>33 DEF PipelineNext

LEMMA PipelineInvDecision == TypeInv /\ PipelineInv /\ DecisionNext => PipelineInv'
<1> SUFFICES ASSUME TypeInv, PipelineInv, DecisionNext PROVE PipelineInv'
  OBVIOUS
<1>idle. Unstarted /\ IdleRun.recorded = FALSE /\ IdleRun.block = "try" /\ NoResult.status = "absent"
  BY DEF TypeInv, Progress, IdleRun, NoResult
<1>types. run \in Runs /\ put \in Puts /\ result \in Result
  BY DEF TypeInv, OwnTypes, ArchiveTypes
<1> USE <1>idle, <1>types DEF PipelineInv, Unstarted, PutKnown, Guarded, Good, Verified, Attempting,
      Reviewing, Putting, Ending, archive, checkout, started, server, told, OwnFiles, World, Step, Over
<1>1. CASE BeginReviewCandidate
  BY <1>1 DEF BeginReviewCandidate, ArchiveOpens, LeaseFree
<1>2. ASSUME NEW value \in {"accepted", "rejected", "revision-requested"}, NEW by \in {"human",
  "policy-autonomous"}, BeginDecide(value, by) PROVE PipelineInv'
  BY <1>2 DEF BeginDecide, ArchiveOpens, LeaseFree
<1>3. CASE TakeSnapshot
  BY <1>3 DEF TakeSnapshot
<1>4. CASE RecordDecision
  BY <1>4 DEF RecordDecision
<1>5. CASE DropRejected
  BY <1>5 DEF DropRejected
<1>6. CASE DecideFails
  BY <1>6 DEF DecideFails
<1>7. CASE BeginIntegrate
  BY <1>7 DEF BeginIntegrate, ArchiveOpens, LeaseFree
<1>8. CASE Apply
  BY <1>8 DEF Apply
<1>9. CASE ApplyConflicts
  BY <1>9 DEF ApplyConflicts
<1>10. CASE PostApplyOk
  BY <1>10 DEF PostApplyOk
<1>11. CASE PostApplyDiverged
  BY <1>11 DEF PostApplyDiverged
<1>12. CASE DropApplied
  BY <1>12 DEF DropApplied
<1>13. QED
  BY <1>1, <1>2, <1>3, <1>4, <1>5, <1>6, <1>7, <1>8, <1>9, <1>10, <1>11, <1>12 DEF DecisionNext

LEMMA PipelineInvRecovery == TypeInv /\ PipelineInv /\ RecoveryNext => PipelineInv'
<1> SUFFICES ASSUME TypeInv, PipelineInv, RecoveryNext PROVE PipelineInv'
  OBVIOUS
<1>idle. Unstarted /\ IdleRun.recorded = FALSE /\ IdleRun.block = "try" /\ NoResult.status = "absent"
  BY DEF TypeInv, Progress, IdleRun, NoResult
<1>types. run \in Runs /\ put \in Puts /\ result \in Result
  BY DEF TypeInv, OwnTypes, ArchiveTypes
<1> USE <1>idle, <1>types DEF PipelineInv, Unstarted, PutKnown, Guarded, Good, Verified, Attempting,
      Reviewing, Putting, Ending, archive, checkout, started, server, told, OwnFiles, World, Step, Over
<1>1. CASE ReclaimLock
  BY <1>1 DEF ReclaimLock
<1>2. CASE BeginRecoverRun
  BY <1>2 DEF BeginRecoverRun
<1>3. CASE RecoverAnchor
  BY <1>3 DEF RecoverAnchor
<1>4. CASE RecoverResult
  BY <1>4 DEF RecoverResult
<1>5. CASE Quarantine
  BY <1>5 DEF Quarantine
<1>6. CASE BeginRecoverPipeline
  <2>1. [result EXCEPT !.status = "failed"].status = "failed"
    BY ResultMoved
  <2>2. CASE Verified(result)
    <3>1. /\ put'.result = [result EXCEPT !.status = "failed"]
          /\ put'.done = "recoverClear" /\ put'.fail = "close"
          /\ pc' = "putResult" /\ marker /\ pc = "idle"
          /\ UNCHANGED <<run, gate, marker, result, mode, outcome>>
      BY <1>6, <2>2 DEF BeginRecoverPipeline
    <3>2. ~Verified(put'.result)
      BY <2>1, <3>1
    <3>3. QED
      BY <3>1, <3>2
  <2>3. CASE ~Verified(result)
    BY <1>6, <2>3 DEF BeginRecoverPipeline
  <2>4. QED
    BY <2>2, <2>3
<1>7. CASE RecoverClear
  BY <1>7 DEF RecoverClear
<1>8. CASE RecoverClearFails
  BY <1>8 DEF RecoverClearFails
<1>9. QED
  BY <1>1, <1>2, <1>3, <1>4, <1>5, <1>6, <1>7, <1>8 DEF RecoveryNext

LEMMA PipelineInvOther == TypeInv /\ PipelineInv /\ OtherNext => PipelineInv'
<1> SUFFICES ASSUME TypeInv, PipelineInv, OtherNext PROVE PipelineInv'
  OBVIOUS
<1>idle. Unstarted /\ IdleRun.recorded = FALSE /\ IdleRun.block = "try" /\ NoResult.status = "absent"
  BY DEF TypeInv, Progress, IdleRun, NoResult
<1>types. run \in Runs /\ put \in Puts /\ result \in Result
  BY DEF TypeInv, OwnTypes, ArchiveTypes
<1> USE <1>idle, <1>types DEF PipelineInv, Unstarted, PutKnown, Guarded, Good, Verified, Attempting,
      Reviewing, Putting, Ending, archive, checkout, started, server, told, OwnFiles, World, Step, Over
<1>1. CASE WriteResult
  BY <1>1 DEF WriteResult
<1>2. CASE WriteManifest
  BY <1>2 DEF WriteManifest
<1>3. CASE PutFails
  BY <1>3 DEF PutFails
<1>4. CASE UserEdits
  BY <1>4 DEF UserEdits
<1>5. ASSUME NEW to \in {"base", "moved"}, UserResets(to) PROVE PipelineInv'
  BY <1>5 DEF UserResets
<1>6. CASE UserCommits
  BY <1>6 DEF UserCommits
<1>7. CASE Prune
  BY <1>7 DEF Prune, LeaseFree
<1>8. ASSUME NEW stays \in BOOLEAN, Exit(stays) PROVE PipelineInv'
  BY <1>8 DEF Exit, Elsewhere
<1>9. QED
  BY <1>1, <1>2, <1>3, <1>4, <1>5, <1>6, <1>7, <1>8 DEF OtherNext, UserNext

LEMMA PipelineInvNext == TypeInv /\ PipelineInv /\ [Next]_vars => PipelineInv'
<1> SUFFICES ASSUME TypeInv, PipelineInv, [Next]_vars PROVE PipelineInv'
  OBVIOUS
<1>1. CASE UNCHANGED vars
  BY <1>1 DEF PipelineInv, PutKnown, Guarded, Good, Verified, Attempting, Reviewing, Putting, Ending,
     vars, archive, checkout, started, server, told
<1>2. QED
  BY <1>1, PipelineInvPipeline, PipelineInvDecision, PipelineInvRecovery, PipelineInvOther
  DEF Next, OtherNext

LEMMA PipelineInvAlways == Spec => []PipelineInv
BY PipelineInvInit, PipelineInvNext, TypeInvAlways, PTL DEF Spec

\* However a sliced pipeline ended, once its marker is gone a result that is still verified has a
\* verdict beside it (TerminalRecorder, archiveInterruptedPipeline).
THEOREM NothingUnsettled == Spec => []SlicedLeavesNothing
<1>1. PipelineInv => SlicedLeavesNothing
  BY DEF PipelineInv, Guarded, Good, SlicedLeavesNothing, LeavesNothing
<1>2. QED
  BY <1>1, PipelineInvAlways, PTL

-----------------------------------------------------------------------------
(* What an autonomous acceptance stands on *)

\* The evidence in a result that has been written, is known or is being written.
Evidently(word) == word \in result.ev \/ word \in run.final.ev \/ word \in put.result.ev

EvidenceInv ==
  /\ gate # None => TreeOf(gate) \in passed
  /\ Evidently("gateCleared") => gate # None
  /\ Evidently("plainDelegate") => mode = "plain"
  /\ mode = "plain" =>
       ~marker /\ pc \notin {"archived", "recoverClear"} \cup Reviewing \cup Ending \cup Putting
  /\ mode = "plain" /\ Verified(result) => TreeOf(result.cand) \in passed
  /\ mode = "plain" /\ pc \in {"archiving", "archivingResult"} /\ Verified(run.final) =>
       TreeOf(run.final.cand) \in passed
  /\ pc \in {"snapshot", "decide"} /\ choice.by = "policy-autonomous" =>
       TreeOf(result.cand) \in passed /\ (mode = "plain" \/ outcome = "ready")
  /\ pc \notin Deciding => choice = NoChoice
  /\ AutonomyEarned

\* What the other invariants give every step.
Kept ==
  /\ mode = "none" => pc = "idle" /\ result.status = "absent" /\ gate = None /\ ~marker
  /\ decision.by = "policy-autonomous" =>
       pc \in {"idle"} \cup Deciding \cup Integrating /\ result.status # "absent"
  /\ NoChoice.by = "nobody" /\ NoDecision.by = "nobody"
  /\ NoResult.ev = {} /\ IdleRun.final.ev = {} /\ NoPut.result.ev = {}
  /\ run \in Runs /\ put \in Puts /\ result \in Result

LEMMA KeptHolds == TypeInv /\ DecisionInv => Kept
<1> SUFFICES ASSUME TypeInv, DecisionInv PROVE Kept
  OBVIOUS
<1>1. mode = "none" => pc = "idle" /\ result.status = "absent" /\ gate = None /\ ~marker
  BY DEF TypeInv, Progress, Unstarted, NoResult
<1>2. NoChoice.by = "nobody" /\ NoDecision.by = "nobody"
  BY DEF NoChoice, NoDecision
<1>3. decision.by = "policy-autonomous" =>
        pc \in {"idle"} \cup Deciding \cup Integrating /\ result.status # "absent"
  BY <1>2 DEF DecisionInv, Grounded
<1>4. NoResult.ev = {} /\ IdleRun.final.ev = {} /\ NoPut.result.ev = {}
  BY DEF NoResult, IdleRun, NoPut
<1>5. QED
  BY <1>1, <1>2, <1>3, <1>4 DEF Kept, TypeInv, OwnTypes, ArchiveTypes

LEMMA EvidenceInvInit == ArchiveInit => EvidenceInv
<1> SUFFICES ASSUME ArchiveInit PROVE EvidenceInv
  OBVIOUS
<1>1. NoResult.ev = {} /\ IdleRun.final.ev = {} /\ NoPut.result.ev = {} /\ NoDecision.by = "nobody"
      /\ NoResult.status = "absent"
  BY DEF NoResult, IdleRun, NoPut, NoDecision
<1>2. QED
  BY <1>1 DEF ArchiveInit, EvidenceInv, Evidently, AutonomyEarned, Verified

LEMMA EvidenceInvPipeline ==
  TypeInv /\ DecisionInv /\ PipelineInv /\ EvidenceInv /\ PipelineNext => EvidenceInv'
<1> SUFFICES ASSUME TypeInv, DecisionInv, PipelineInv, EvidenceInv, PipelineNext PROVE EvidenceInv'
  OBVIOUS
<1>kept. Kept
  BY KeptHolds
<1> USE <1>kept DEF Kept, EvidenceInv, Evidently, AutonomyEarned, Verified, Deciding, Reviewing,
      Putting, Ending, archive, checkout, started, server, told, OwnFiles, World, Step, Over, TreeOf
<1>1. ASSUME NEW m \in Modes, BeginRun(m) PROVE EvidenceInv'
  <2>1. run'.final = IdleRun.final /\ result.ev = {} /\ put'.result.ev = put.result.ev
    BY <1>1 DEF BeginRun, IdleRun, TypeInv, Progress, Unstarted, NoResult
  <2>2. /\ pc' = "attempt" /\ mode' = m /\ marker' = (m = "sliced")
        /\ result.status = "absent" /\ mode = "none"
        /\ UNCHANGED <<result, gate, decision, choice, outcome, passed, put, commits>>
    BY <1>1 DEF BeginRun
  <2>3. ~Evidently("gateCleared")'
    BY <1>1, <2>1, <2>2
  <2>4. ~Evidently("plainDelegate")'
    BY <1>1, <2>1, <2>2
  <2>5. QED
    BY <1>1, <2>2, <2>3, <2>4 DEF BeginRun, LeaseFree
<1>2. CASE Freeze
  <2>1. gate = None /\ result.status = "absent"
    BY <1>2 DEF Freeze, PipelineInv, Attempting
  <2>2. QED
    BY <1>2, <2>1 DEF Freeze
<1>3. CASE AttemptWithoutCandidate
  BY <1>3 DEF AttemptWithoutCandidate, Settle, Origin
<1>4. ASSUME NEW proved \in BOOLEAN, AttemptVerified(proved) PROVE EvidenceInv'
  BY <1>4 DEF AttemptVerified, Settle, Origin
<1>5. CASE AttemptRefuted
  BY <1>5 DEF AttemptRefuted, Settle, Origin
<1>6. CASE ArchiveManifest
  BY <1>6 DEF ArchiveManifest
<1>7. CASE ArchiveResult
  BY <1>7 DEF ArchiveResult
<1>8. CASE AttemptThrows
  BY <1>8 DEF AttemptThrows
<1>9. CASE BeginReview
  BY <1>9 DEF BeginReview
<1>10. CASE ImplementFailed
  BY <1>10 DEF ImplementFailed
<1>11. CASE Advance
  <2>1. gate = None /\ mode # "plain" /\ run'.final = run.final
    BY <1>11 DEF Advance, PipelineInv, Runs
  <2>2. QED
    BY <1>11, <2>1 DEF Advance
<1>12. ASSUME NEW cause \in {"verification", "other"}, PhaseFails(cause) PROVE EvidenceInv'
  BY <1>12 DEF PhaseFails
<1>13. ASSUME NEW goal \in {"gate", "salvage", "halt"}, PhasesEnd(goal) PROVE EvidenceInv'
  BY <1>13 DEF PhasesEnd
<1>14. CASE MoveAnchor
  <2>1. gate = None /\ mode # "plain"
    BY <1>14 DEF MoveAnchor, PipelineInv
  <2>2. [run.final EXCEPT !.cand = Len(commits) + 1].ev = run.final.ev
    BY RunFields, ResultMoved
  <2>3. put'.result.ev = run.final.ev
    BY <1>14, <2>2 DEF MoveAnchor
  <2>4. QED
    BY <1>14, <2>1, <2>3 DEF MoveAnchor
<1>15. CASE PromotionRefused
  BY <1>15 DEF PromotionRefused
<1>16. CASE Throws
  BY <1>16 DEF Throws
<1>17. CASE GateClears
  <2>1. mode # "plain" /\ gate = None
    BY <1>17 DEF GateClears, PipelineInv
  <2>2. put'.result.ev = run.final.ev \cup {"gateCleared"}
    <3>1. [run.final EXCEPT !.ev = @ \cup {"gateCleared"}].ev = run.final.ev \cup {"gateCleared"}
      BY RunFields, ResultMoved
    <3>2. QED
      BY <1>17, <3>1 DEF GateClears
  <2>3. run'.final = run.final
    BY <1>17 DEF GateClears, Runs
  <2>4. run.current # None
    BY <1>17 DEF GateClears, TypeInv, Progress
  <2>5. QED
    BY <1>17, <2>1, <2>2, <2>3, <2>4 DEF GateClears
<1>18. ASSUME NEW verified \in BOOLEAN, GateRefuses(verified) PROVE EvidenceInv'
  <2>1. mode # "plain" /\ gate = None
    BY <1>18 DEF GateRefuses, PipelineInv
  <2>2. put'.result.ev = run.final.ev \cup {"gateRefused"}
    <3>1. [run.final EXCEPT !.ev = @ \cup {"gateRefused"}].ev = run.final.ev \cup {"gateRefused"}
      BY RunFields, ResultMoved
    <3>2. QED
      BY <1>18, <3>1 DEF GateRefuses
  <2>3. run'.final = run.final
    BY <1>18 DEF GateRefuses, Runs
  <2>4. QED
    BY <1>18, <2>1, <2>2, <2>3 DEF GateRefuses
<1>19. CASE SalvagePasses
  <2>1. mode # "plain" /\ gate = None
    BY <1>19 DEF SalvagePasses, PipelineInv
  <2>2. put'.result.ev = run.final.ev \cup {"reviewIncomplete"}
    <3>1. [run.final EXCEPT !.ev = @ \cup {"reviewIncomplete"}].ev =
            run.final.ev \cup {"reviewIncomplete"}
      BY RunFields, ResultMoved
    <3>2. QED
      BY <1>19, <3>1 DEF SalvagePasses
  <2>3. run'.final = run.final
    BY <1>19 DEF SalvagePasses, Runs
  <2>4. QED
    BY <1>19, <2>1, <2>2, <2>3 DEF SalvagePasses
<1>20. CASE SalvageFails
  <2>1. mode # "plain" /\ gate = None
    BY <1>20 DEF SalvageFails, PipelineInv
  <2>2. put'.result.ev = run.final.ev
    <3>1. [run.final EXCEPT !.status = "failed"].ev = run.final.ev
      BY RunFields, ResultMoved
    <3>2. QED
      BY <1>20, <3>1 DEF SalvageFails
  <2>3. run'.final = run.final
    BY <1>20 DEF SalvageFails, Runs
  <2>4. QED
    BY <1>20, <2>1, <2>2, <2>3 DEF SalvageFails
<1>21. CASE SalvageThrows
  BY <1>21 DEF SalvageThrows
<1>22. ASSUME NEW verified \in BOOLEAN, Halt(verified) PROVE EvidenceInv'
  BY <1>22 DEF Halt
<1>23. CASE DemoteAndKeep
  <2>1. put'.result.ev = run.final.ev
    BY <1>23, RunFields DEF DemoteAndKeep, Demoted, Result
  <2>2. QED
    BY <1>23, <2>1 DEF DemoteAndKeep
<1>24. CASE DemoteAndDrop
  <2>1. put'.result.ev = run.final.ev
    BY <1>24, RunFields DEF DemoteAndDrop, Demoted, Result
  <2>2. QED
    BY <1>24, <2>1 DEF DemoteAndDrop
<1>25. CASE DemoteFails
  BY <1>25 DEF DemoteFails, AnchorMoved
<1>26. CASE LoseAuthority
  BY <1>26 DEF LoseAuthority
<1>27. CASE NothingToDemote
  BY <1>27 DEF NothingToDemote
<1>28. CASE Record
  <2>1. run'.final = run.final
    BY <1>28 DEF Record, Runs
  <2>2. /\ mode # "plain" /\ decision.by # "policy-autonomous"
        /\ choice' = NoChoice /\ pc' \in {"close", "finally"}
    BY <1>28 DEF Record, Integrating
  <2>3. UNCHANGED <<commits, mode, result, gate, marker, decision, put, passed>>
    BY <1>28 DEF Record
  <2>4. QED
    BY <2>1, <2>2, <2>3
<1>29. CASE RecordFails
  BY <1>29 DEF RecordFails
<1>30. CASE Catch
  BY <1>30 DEF Catch
<1>31. CASE Release
  BY <1>31 DEF Release
<1>32. CASE SliceRefsLeft
  BY <1>32 DEF SliceRefsLeft
<1>33. CASE Close
  BY <1>33 DEF Close
<1>34. QED
  BY <1>1, <1>2, <1>3, <1>4, <1>5, <1>6, <1>7, <1>8, <1>9, <1>10, <1>11, <1>12, <1>13, <1>14, <1>15,
    <1>16, <1>17, <1>18, <1>19, <1>20, <1>21, <1>22, <1>23, <1>24, <1>25, <1>26, <1>27, <1>28, <1>29,
    <1>30, <1>31, <1>32, <1>33 DEF PipelineNext

LEMMA EvidenceInvDecision ==
  TypeInv /\ DecisionInv /\ PipelineInv /\ EvidenceInv /\ DecisionNext => EvidenceInv'
<1> SUFFICES ASSUME TypeInv, DecisionInv, PipelineInv, EvidenceInv, DecisionNext PROVE EvidenceInv'
  OBVIOUS
<1>kept. Kept
  BY KeptHolds
<1> USE <1>kept DEF Kept, EvidenceInv, Evidently, AutonomyEarned, Verified, Deciding, Reviewing,
      Putting, Ending, archive, checkout, started, server, told, OwnFiles, World, Step, Over, TreeOf
<1>1. CASE BeginReviewCandidate
  BY <1>1 DEF BeginReviewCandidate, ArchiveOpens, LeaseFree
<1>2. ASSUME NEW value \in {"accepted", "rejected", "revision-requested"}, NEW by \in {"human",
  "policy-autonomous"}, BeginDecide(value, by) PROVE EvidenceInv'
  <2>1. CASE by = "human"
    BY <1>2, <2>1 DEF BeginDecide, ArchiveOpens, LeaseFree
  <2>2. CASE by = "policy-autonomous"
    <3>1. VerdictAccepts /\ result.cand # None
      BY <1>2, <2>2 DEF BeginDecide, Authority
    <3>2. ~marker /\ Verified(result)
      BY <1>2, <3>1 DEF BeginDecide, ArchiveOpens, VerdictAccepts
    <3>3. CASE gate = None
      <4>1. "plainDelegate" \in result.ev
        BY <3>1, <3>3 DEF VerdictAccepts, PlainDelegate, GateRecord
      <4>2. mode = "plain"
        BY <4>1
      <4>3. QED
        BY <1>2, <3>2, <4>2 DEF BeginDecide, LeaseFree, ArchiveOpens
    <3>4. CASE gate # None
      <4>1. gate = result.cand
        BY <3>1, <3>4 DEF VerdictAccepts, PlainDelegate, GateRecord
      <4>2. outcome = "ready"
        BY <3>2, <3>4 DEF PipelineInv, Guarded, Good
      <4>3. TreeOf(result.cand) \in passed
        BY <3>4, <4>1
      <4>4. QED
        BY <1>2, <4>2, <4>3 DEF BeginDecide, LeaseFree, ArchiveOpens
    <3>5. QED
      BY <3>3, <3>4
  <2>3. QED
    BY <2>1, <2>2
<1>3. CASE TakeSnapshot
  BY <1>3 DEF TakeSnapshot
<1>4. CASE RecordDecision
  BY <1>4 DEF RecordDecision, Attempted
<1>5. CASE DropRejected
  BY <1>5 DEF DropRejected
<1>6. CASE DecideFails
  BY <1>6 DEF DecideFails
<1>7. CASE BeginIntegrate
  BY <1>7 DEF BeginIntegrate, ArchiveOpens, LeaseFree
<1>8. CASE Apply
  BY <1>8 DEF Apply
<1>9. CASE ApplyConflicts
  BY <1>9 DEF ApplyConflicts
<1>10. CASE PostApplyOk
  BY <1>10 DEF PostApplyOk
<1>11. CASE PostApplyDiverged
  BY <1>11 DEF PostApplyDiverged
<1>12. CASE DropApplied
  BY <1>12 DEF DropApplied
<1>13. QED
  BY <1>1, <1>2, <1>3, <1>4, <1>5, <1>6, <1>7, <1>8, <1>9, <1>10, <1>11, <1>12 DEF DecisionNext

LEMMA EvidenceInvRecovery ==
  TypeInv /\ DecisionInv /\ PipelineInv /\ EvidenceInv /\ RecoveryNext => EvidenceInv'
<1> SUFFICES ASSUME TypeInv, DecisionInv, PipelineInv, EvidenceInv, RecoveryNext PROVE EvidenceInv'
  OBVIOUS
<1>kept. Kept
  BY KeptHolds
<1> USE <1>kept DEF Kept, EvidenceInv, Evidently, AutonomyEarned, Verified, Deciding, Reviewing,
      Putting, Ending, archive, checkout, started, server, told, OwnFiles, World, Step, Over, TreeOf
<1>1. CASE ReclaimLock
  BY <1>1 DEF ReclaimLock
<1>2. CASE BeginRecoverRun
  BY <1>2 DEF BeginRecoverRun
<1>3. CASE RecoverAnchor
  BY <1>3 DEF RecoverAnchor
<1>4. CASE RecoverResult
  BY <1>4 DEF RecoverResult
<1>5. CASE Quarantine
  BY <1>5 DEF Quarantine
<1>6. CASE BeginRecoverPipeline
  <2>1. mode # "plain" /\ pc' \notin Deciding /\ decision' = decision /\ choice' = choice /\ pc = "idle"
        /\ UNCHANGED <<commits, mode, result, gate, marker, run, outcome, passed>>
    BY <1>6 DEF BeginRecoverPipeline
  <2>2. put' = put \/ put'.result.ev = result.ev
    <3>1. [result EXCEPT !.status = "failed"].ev = result.ev
      BY ResultMoved
    <3>2. CASE Verified(result)
      <4>1. put'.result = [result EXCEPT !.status = "failed"]
        BY <1>6, <3>2 DEF BeginRecoverPipeline
      <4>2. QED
        BY <3>1, <4>1
    <3>3. CASE ~Verified(result)
      BY <1>6, <3>3 DEF BeginRecoverPipeline
    <3>4. QED
      BY <3>2, <3>3
  <2>3. QED
    BY <2>1, <2>2
<1>7. CASE RecoverClear
  BY <1>7 DEF RecoverClear
<1>8. CASE RecoverClearFails
  BY <1>8 DEF RecoverClearFails
<1>9. QED
  BY <1>1, <1>2, <1>3, <1>4, <1>5, <1>6, <1>7, <1>8 DEF RecoveryNext

LEMMA EvidenceInvOther ==
  TypeInv /\ DecisionInv /\ PipelineInv /\ EvidenceInv /\ OtherNext => EvidenceInv'
<1> SUFFICES ASSUME TypeInv, DecisionInv, PipelineInv, EvidenceInv, OtherNext PROVE EvidenceInv'
  OBVIOUS
<1>kept. Kept
  BY KeptHolds
<1> USE <1>kept DEF Kept, EvidenceInv, Evidently, AutonomyEarned, Verified, Deciding, Reviewing,
      Putting, Ending, archive, checkout, started, server, told, OwnFiles, World, Step, Over, TreeOf
<1>1. CASE WriteResult
  BY <1>1 DEF WriteResult
<1>2. CASE WriteManifest
  BY <1>2 DEF WriteManifest
<1>3. CASE PutFails
  BY <1>3 DEF PutFails
<1>4. CASE UserEdits
  BY <1>4 DEF UserEdits
<1>5. ASSUME NEW to \in {"base", "moved"}, UserResets(to) PROVE EvidenceInv'
  BY <1>5 DEF UserResets
<1>6. CASE UserCommits
  BY <1>6 DEF UserCommits
<1>7. CASE Prune
  BY <1>7 DEF Prune, LeaseFree
<1>8. ASSUME NEW stays \in BOOLEAN, Exit(stays) PROVE EvidenceInv'
  BY <1>8 DEF Exit, Elsewhere
<1>9. QED
  BY <1>1, <1>2, <1>3, <1>4, <1>5, <1>6, <1>7, <1>8 DEF OtherNext, UserNext

LEMMA EvidenceInvNext ==
  TypeInv /\ DecisionInv /\ PipelineInv /\ EvidenceInv /\ [Next]_vars => EvidenceInv'
<1> SUFFICES ASSUME TypeInv, DecisionInv, PipelineInv, EvidenceInv, [Next]_vars PROVE EvidenceInv'
  OBVIOUS
<1>1. CASE UNCHANGED vars
  BY <1>1 DEF EvidenceInv, Evidently, AutonomyEarned, Verified, TreeOf, vars, archive, checkout,
     started, server, told
<1>2. QED
  BY <1>1, EvidenceInvPipeline, EvidenceInvDecision, EvidenceInvRecovery, EvidenceInvOther
  DEF Next, OtherNext

\* No person looked at it: a candidate accepted by policy passed verification and, when it is a
\* pipeline's, the pipeline had recorded that its gate cleared it (verdictFor).
THEOREM AutonomyIsEarned == Spec => []AutonomyEarned
<1>1. EvidenceInv => AutonomyEarned
  BY DEF EvidenceInv
<1>2. QED
  BY <1>1, EvidenceInvInit, EvidenceInvNext, TypeInvAlways, DecisionInvAlways, PipelineInvAlways, PTL
  DEF Spec

-----------------------------------------------------------------------------
(* An interrupted pipeline *)

\* What an operation stands on until it has ended: the archive it has begun, and, but for
\* recovery, the process the run was started in.
SettlingInv ==
  /\ pc \in {"idle", "recoverAnchor", "recoverResult", "recoverClear"} \cup Attempting
            \cup Reviewing \cup Putting \cup Ending \cup Deciding \cup Integrating
  /\ Verified(result) => manifest # Absent
  /\ pc \in {"archivingResult", "archived"} \cup Reviewing \cup Putting \cup Ending =>
       manifest # Absent
  /\ pc \in Putting => put.manifest # Absent
  /\ pc \in Attempting \cup Reviewing \cup (Ending \ {"close"}) => alive
  /\ pc \in Putting /\ put.done # "recoverClear" => alive
  /\ mode = "none" => alive

\* A pipeline whose process exited is in nobody's hands but recovery's, and whatever step its
\* recovery is at, what that step needs is there: the archive it reads, and no decision that
\* would refuse what it writes.
InterruptedSettleable ==
  marker /\ ~alive /\ ~gone =>
    \/ pc = "idle" /\ mode # "none" /\ result.status = "absent"
    \/ pc = "idle" /\ result.status # "absent" /\ (Verified(result) => manifest # Absent)
    \/ pc \in {"recoverAnchor", "recoverResult", "recoverClear", "close"}
    \/ pc = "putResult" /\ put.done = "recoverClear" /\ decision = NoDecision
    \/ pc = "putManifest" /\ put.done = "recoverClear"

LEMMA SettlingInit == ArchiveInit => SettlingInv
BY DEF ArchiveInit, SettlingInv, Verified, NoResult, Attempting, Reviewing, Putting, Ending

LEMMA SettlingPipeline == TypeInv /\ PipelineInv /\ SettlingInv /\ PipelineNext => SettlingInv'
<1> SUFFICES ASSUME TypeInv, PipelineInv, SettlingInv, PipelineNext PROVE SettlingInv'
  OBVIOUS
<1>types. run \in Runs /\ put \in Puts /\ result \in Result /\ PipelineInv /\ Progress
          /\ IdleRun.final = NoResult /\ NoResult.status = "absent" /\ None # Absent
  BY Constants DEF TypeInv, OwnTypes, ArchiveTypes, IdleRun, NoResult
<1> USE <1>types DEF PipelineInv, Progress, PutKnown, SettlingInv, Verified, Attempting,
      Reviewing, Putting, Ending, Deciding, Integrating, archive, checkout, started, server, told,
      OwnFiles, World, Step, Over
<1>1. ASSUME NEW m \in Modes, BeginRun(m) PROVE SettlingInv'
  BY <1>1 DEF BeginRun, LeaseFree
<1>2. CASE Freeze
  BY <1>2 DEF Freeze
<1>3. CASE AttemptWithoutCandidate
  BY <1>3 DEF AttemptWithoutCandidate, Settle
<1>4. ASSUME NEW proved \in BOOLEAN, AttemptVerified(proved) PROVE SettlingInv'
  BY <1>4 DEF AttemptVerified, Settle
<1>5. CASE AttemptRefuted
  BY <1>5 DEF AttemptRefuted, Settle
<1>6. CASE ArchiveManifest
  <2>1. manifest' # Absent
    BY <1>6, TreeOfMade, Constants DEF ArchiveManifest, TypeInv, CommitTypes, Tree
  <2>2. QED
    BY <1>6, <2>1 DEF ArchiveManifest
<1>7. CASE ArchiveResult
  BY <1>7 DEF ArchiveResult
<1>8. CASE AttemptThrows
  BY <1>8 DEF AttemptThrows
<1>9. CASE BeginReview
  BY <1>9 DEF BeginReview
<1>10. CASE ImplementFailed
  BY <1>10 DEF ImplementFailed
<1>11. CASE Advance
  BY <1>11 DEF Advance
<1>12. ASSUME NEW cause \in {"verification", "other"}, PhaseFails(cause) PROVE SettlingInv'
  BY <1>12 DEF PhaseFails
<1>13. ASSUME NEW goal \in {"gate", "salvage", "halt"}, PhasesEnd(goal) PROVE SettlingInv'
  BY <1>13 DEF PhasesEnd
<1>14. CASE MoveAnchor
  <2>1. TreeOf(run.current) \in Tree
    BY <1>14, TreeOfMade DEF MoveAnchor, TypeInv, CommitTypes
  <2>2. TreeOf(run.current) # Absent
    BY <2>1, Constants DEF Tree
  <2>3. put'.manifest = TreeOf(run.current) /\ put'.done = run.goal
    BY <1>14 DEF MoveAnchor
  <2>4. QED
    BY <1>14, <2>2, <2>3 DEF MoveAnchor
<1>15. CASE PromotionRefused
  BY <1>15 DEF PromotionRefused
<1>16. CASE Throws
  BY <1>16 DEF Throws
<1>17. CASE GateClears
  BY <1>17 DEF GateClears
<1>18. ASSUME NEW verified \in BOOLEAN, GateRefuses(verified) PROVE SettlingInv'
  BY <1>18 DEF GateRefuses
<1>19. CASE SalvagePasses
  BY <1>19 DEF SalvagePasses
<1>20. CASE SalvageFails
  BY <1>20 DEF SalvageFails
<1>21. CASE SalvageThrows
  BY <1>21 DEF SalvageThrows
<1>22. ASSUME NEW verified \in BOOLEAN, Halt(verified) PROVE SettlingInv'
  BY <1>22 DEF Halt
<1>23. CASE DemoteAndKeep
  BY <1>23 DEF DemoteAndKeep, Demoted
<1>24. CASE DemoteAndDrop
  BY <1>24 DEF DemoteAndDrop, Demoted
<1>25. CASE DemoteFails
  BY <1>25 DEF DemoteFails, AnchorMoved
<1>26. CASE LoseAuthority
  BY <1>26 DEF LoseAuthority
<1>27. CASE NothingToDemote
  BY <1>27 DEF NothingToDemote
<1>28. CASE Record
  BY <1>28 DEF Record
<1>29. CASE RecordFails
  <2>1. pc = "record" /\ pc' \in {"catch", "finally", "close"}
    BY <1>29, RunFields DEF RecordFails
  <2>2. QED
    BY <1>29, <2>1 DEF RecordFails
<1>30. CASE Catch
  BY <1>30 DEF Catch
<1>31. CASE Release
  BY <1>31 DEF Release
<1>32. CASE SliceRefsLeft
  BY <1>32 DEF SliceRefsLeft
<1>33. CASE Close
  BY <1>33 DEF Close
<1>34. QED
  BY <1>1, <1>2, <1>3, <1>4, <1>5, <1>6, <1>7, <1>8, <1>9, <1>10, <1>11, <1>12, <1>13, <1>14,
    <1>15, <1>16, <1>17, <1>18, <1>19, <1>20, <1>21, <1>22, <1>23, <1>24, <1>25, <1>26, <1>27,
    <1>28, <1>29, <1>30, <1>31, <1>32, <1>33 DEF PipelineNext

LEMMA SettlingDecision == TypeInv /\ PipelineInv /\ SettlingInv /\ DecisionNext => SettlingInv'
<1> SUFFICES ASSUME TypeInv, PipelineInv, SettlingInv, DecisionNext PROVE SettlingInv'
  OBVIOUS
<1>types. run \in Runs /\ put \in Puts /\ result \in Result /\ PipelineInv /\ Progress
          /\ IdleRun.final = NoResult /\ NoResult.status = "absent" /\ None # Absent
  BY Constants DEF TypeInv, OwnTypes, ArchiveTypes, IdleRun, NoResult
<1> USE <1>types DEF PipelineInv, Progress, PutKnown, SettlingInv, Verified, Attempting,
      Reviewing, Putting, Ending, Deciding, Integrating, archive, checkout, started, server, told,
      OwnFiles, World, Step, Over
<1>1. CASE BeginReviewCandidate
  BY <1>1 DEF BeginReviewCandidate, ArchiveOpens, LeaseFree
<1>2. ASSUME NEW value \in {"accepted", "rejected", "revision-requested"},
  NEW by \in {"human", "policy-autonomous"}, BeginDecide(value, by) PROVE SettlingInv'
  BY <1>2 DEF BeginDecide, ArchiveOpens, LeaseFree
<1>3. CASE TakeSnapshot
  BY <1>3 DEF TakeSnapshot
<1>4. CASE RecordDecision
  BY <1>4 DEF RecordDecision
<1>5. CASE DropRejected
  BY <1>5 DEF DropRejected
<1>6. CASE DecideFails
  BY <1>6 DEF DecideFails
<1>7. CASE BeginIntegrate
  BY <1>7 DEF BeginIntegrate, ArchiveOpens, LeaseFree
<1>8. CASE Apply
  BY <1>8 DEF Apply
<1>9. CASE ApplyConflicts
  BY <1>9 DEF ApplyConflicts
<1>10. CASE PostApplyOk
  BY <1>10 DEF PostApplyOk
<1>11. CASE PostApplyDiverged
  BY <1>11 DEF PostApplyDiverged
<1>12. CASE DropApplied
  BY <1>12 DEF DropApplied
<1>13. QED
  BY <1>1, <1>2, <1>3, <1>4, <1>5, <1>6, <1>7, <1>8, <1>9, <1>10, <1>11, <1>12 DEF DecisionNext

LEMMA SettlingRecovery == TypeInv /\ PipelineInv /\ SettlingInv /\ RecoveryNext => SettlingInv'
<1> SUFFICES ASSUME TypeInv, PipelineInv, SettlingInv, RecoveryNext PROVE SettlingInv'
  OBVIOUS
<1>types. run \in Runs /\ put \in Puts /\ result \in Result /\ PipelineInv /\ Progress
          /\ IdleRun.final = NoResult /\ NoResult.status = "absent" /\ None # Absent
  BY Constants DEF TypeInv, OwnTypes, ArchiveTypes, IdleRun, NoResult
<1> USE <1>types DEF PipelineInv, Progress, PutKnown, SettlingInv, Verified, Attempting,
      Reviewing, Putting, Ending, Deciding, Integrating, archive, checkout, started, server, told,
      OwnFiles, World, Step, Over
<1>1. CASE ReclaimLock
  BY <1>1 DEF ReclaimLock
<1>2. CASE BeginRecoverRun
  BY <1>2 DEF BeginRecoverRun
<1>3. CASE RecoverAnchor
  BY <1>3 DEF RecoverAnchor
<1>4. CASE RecoverResult
  BY <1>4 DEF RecoverResult
<1>5. CASE Quarantine
  BY <1>5 DEF Quarantine
<1>6. CASE BeginRecoverPipeline
  BY <1>6 DEF BeginRecoverPipeline
<1>7. CASE RecoverClear
  BY <1>7 DEF RecoverClear
<1>8. CASE RecoverClearFails
  BY <1>8 DEF RecoverClearFails
<1>9. QED
  BY <1>1, <1>2, <1>3, <1>4, <1>5, <1>6, <1>7, <1>8 DEF RecoveryNext

LEMMA SettlingOther == TypeInv /\ PipelineInv /\ SettlingInv /\ OtherNext => SettlingInv'
<1> SUFFICES ASSUME TypeInv, PipelineInv, SettlingInv, OtherNext PROVE SettlingInv'
  OBVIOUS
<1>types. run \in Runs /\ put \in Puts /\ result \in Result /\ PipelineInv /\ Progress
          /\ IdleRun.final = NoResult /\ NoResult.status = "absent" /\ None # Absent
  BY Constants DEF TypeInv, OwnTypes, ArchiveTypes, IdleRun, NoResult
<1> USE <1>types DEF PipelineInv, Progress, PutKnown, SettlingInv, Verified, Attempting,
      Reviewing, Putting, Ending, Deciding, Integrating, archive, checkout, started, server, told,
      OwnFiles, World, Step, Over
<1>1. CASE WriteResult
  BY <1>1 DEF WriteResult
<1>2. CASE WriteManifest
  BY <1>2 DEF WriteManifest
<1>3. CASE PutFails
  BY <1>3 DEF PutFails
<1>4. CASE UserEdits
  BY <1>4 DEF UserEdits
<1>5. ASSUME NEW to \in {"base", "moved"}, UserResets(to) PROVE SettlingInv'
  BY <1>5 DEF UserResets
<1>6. CASE UserCommits
  BY <1>6 DEF UserCommits
<1>7. CASE Prune
  BY <1>7 DEF Prune, LeaseFree
<1>8. ASSUME NEW stays \in BOOLEAN, Exit(stays) PROVE SettlingInv'
  BY <1>8 DEF Exit, Elsewhere
<1>9. QED
  BY <1>1, <1>2, <1>3, <1>4, <1>5, <1>6, <1>7, <1>8 DEF OtherNext, UserNext

LEMMA SettlingNext == TypeInv /\ PipelineInv /\ SettlingInv /\ [Next]_vars => SettlingInv'
<1> SUFFICES ASSUME TypeInv, PipelineInv, SettlingInv, [Next]_vars PROVE SettlingInv'
  OBVIOUS
<1>1. CASE UNCHANGED vars
  BY <1>1 DEF SettlingInv, Verified, vars, archive, checkout, started, server, told
<1>2. QED
  BY <1>1, SettlingPipeline, SettlingDecision, SettlingRecovery, SettlingOther DEF Next, OtherNext

\* Whenever a server that ran a pipeline has exited and its marker is there, the run can be
\* settled: the guard of what recovery does next is met, whatever the pipeline had come to, and
\* nothing else has taken the run up.  It is what recovery's eventual success rests on, of which
\* TLC checks the rest (RecoveryManager, archiveInterruptedPipeline).
THEOREM InterruptedCanSettle == Spec => []InterruptedSettleable
<1>1. TypeInv /\ DecisionInv /\ PipelineInv /\ SettlingInv => InterruptedSettleable
  <2> SUFFICES ASSUME TypeInv, DecisionInv, PipelineInv, SettlingInv, marker, ~alive, ~gone
               PROVE  InterruptedSettleable
    BY DEF InterruptedSettleable
  <2>1. mode # "none"
    BY DEF SettlingInv
  <2>2. pc \notin Deciding \cup Integrating
    BY DEF DecisionInv, Opened
  <2>3. pc \notin Attempting \cup Reviewing \cup (Ending \ {"close"})
    BY DEF SettlingInv
  <2>4. pc \in Putting => put.done = "recoverClear" /\ decision = NoDecision
    BY DEF SettlingInv, DecisionInv, Putting, Deciding, Integrating
  <2>5. QED
    BY <2>1, <2>2, <2>3, <2>4 DEF SettlingInv, InterruptedSettleable, Putting
<1>2. Spec => []SettlingInv
  BY SettlingInit, SettlingNext, TypeInvAlways, PipelineInvAlways, PTL DEF Spec
<1>3. QED
  BY <1>1, <1>2, TypeInvAlways, DecisionInvAlways, PipelineInvAlways, PTL
=============================================================================
