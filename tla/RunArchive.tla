------------------------------ MODULE RunArchive ------------------------------
(***************************************************************************)
(* One delegation run: its archive directory runs/<runId>, its candidate   *)
(* anchor ref, the checkout its candidate may be applied to, and the       *)
(* operation that works on them.  Every such operation (an attempt, a      *)
(* pipeline, a decision, an integration, a recovery, a prune) holds the    *)
(* repository's checkout lease, whose exclusion is CheckoutLock's subject; *)
(* so there is one at a time, and what can come between its steps is the   *)
(* exit of its process, a failed call, and the user's own Git commands.    *)
(*                                                                         *)
(* The commits made for the run are numbered as they are made and          *)
(* commits[c] is the tree of commit c.  A manifest hash is a function of   *)
(* the tree (of its changed paths over the base), so it is that tree.      *)
(***************************************************************************)
EXTENDS Naturals, Sequences

CONSTANTS
  None,        \* no commit, no tree
  Absent,      \* no such file
  MaxCommits,  \* bound: commits made for the run
  Modes,       \* how it is run: a plain attempt, an unsliced or sliced pipeline
  Faults       \* "io": a call that writes the archive or a ref may fail

ASSUME ArchiveAssumption ==
  /\ MaxCommits \in Nat \ {0}
  /\ None \notin Nat
  /\ Absent \notin Nat
  /\ None # Absent
  /\ Modes \subseteq {"plain", "unsliced", "sliced"}
  /\ Faults \subseteq {"io"}

VARIABLES
  result,    \* result.json
  manifest,  \* the tree whose hash manifest.json has, None for no candidate
  gate,      \* the commit pipeline-gate-cleared.json names
  marker,    \* pipeline-active.json is there
  decision,  \* decision.json
  snapshot,  \* review-snapshot.json
  gone,      \* the archive has left runs/: pruned or quarantined
  anchor,    \* the commit refs/claude-architect/candidates/<runId> names
  head,      \* HEAD of the checkout: the run's "base", or it has "moved"
  staged,    \* the candidate tree that is in the index and the worktree
  edited,    \* the checkout has changes of the user's own
  mode,      \* how the run was started, "none" before
  commits,   \* the commits made for the run, as their trees
  pc,        \* the next step of the operation that holds the lease
  run,       \* what a pipeline knows of itself
  put,       \* the result and manifest promoteTerminalArtifacts is writing
  choice,    \* the decision decideCandidate is recording
  alive,     \* the server process that started the run still runs
  leftLock,  \* a process that exited has left the checkout lock behind
  outcome,   \* what the pipeline has recorded of itself in pipeline-result.json
  reported,  \* what the last integration that got to the checkout returned
  passed     \* history: the trees Acceptance Verification has passed

archive  == <<result, manifest, gate, marker, decision, snapshot, gone>>
checkout == <<head, staged, edited>>
started  == <<mode, commits>>
server   == <<alive, leftLock>>
told     == <<outcome, reported, passed>>
vars     == <<archive, anchor, checkout, started, pc, run, put, choice, server, told>>

Commit == 1..MaxCommits
Tree == 1..MaxCommits

\* The evidence in result.json and manifest.json that the acceptance rule
\* reads.  "unproved": project verification ran unconfined, or the candidate
\* of a plain attempt changes what verification checks.
Evidence == {"plainDelegate", "unproved", "gateCleared", "gateRefused", "reviewIncomplete"}

NoResult == [status |-> "absent", cand |-> None, ev |-> {}]
Result == [status : {"absent", "verified", "failed", "cancelled"},
           cand : Commit \cup {None}, ev : SUBSET Evidence]

NoSnapshot == [cand |-> None, ev |-> {}]
Snapshot == [cand : Commit \cup {None}, ev : SUBSET Evidence]

\* A decision binds the manifest hash and the hash of the review snapshot.
NoDecision == [value |-> "none", by |-> "nobody", on |-> None, seen |-> NoSnapshot]
Decision == [value : {"none", "accepted", "rejected", "revision-requested"},
             by : {"nobody", "human", "policy-autonomous"},
             on : Tree \cup {None}, seen : Snapshot]

\* finalAttempt, currentCandidateCommit, the kind of failure being archived,
\* what a promotion is for, the verdict being recorded, the try / catch /
\* finally block a step is in, authoritySafeToRelease, #resultRecorded, and
\* whether a demotion has failed (TerminalArchiveError).
IdleRun == [final |-> NoResult, current |-> None, cause |-> "none", goal |-> "none",
            verdict |-> "none", block |-> "try", safe |-> FALSE, recorded |-> FALSE,
            lost |-> FALSE]

NoPut == [result |-> NoResult, manifest |-> None, done |-> "idle", fail |-> "idle"]

NoChoice == [value |-> "none", by |-> "nobody"]

ArchiveInit ==
  /\ result = NoResult /\ manifest = Absent /\ gate = None /\ marker = FALSE
  /\ decision = NoDecision /\ snapshot = NoSnapshot /\ gone = FALSE
  /\ anchor = None
  /\ head = "base" /\ staged = None /\ edited = FALSE
  /\ mode = "none" /\ commits = <<>>
  /\ pc = "idle" /\ run = IdleRun /\ put = NoPut /\ choice = NoChoice
  /\ alive = TRUE /\ leftLock = FALSE
  /\ outcome = "none" /\ reported = "none" /\ passed = {}

MayFail == "io" \in Faults

\* Nobody holds the checkout lease and its lock file is not in the way.
LeaseFree == pc = "idle" /\ ~leftLock /\ ~gone

TreeOf(c) == commits[c]

Verified(r) == r.status = "verified" /\ r.cand # None

\* loadArchivedRun: both files are there and nothing contradicts the candidate.
Readable ==
  /\ result.status # "absent"
  /\ manifest # Absent
  /\ result.cand # None =>
       /\ manifest = TreeOf(result.cand)
       /\ decision # NoDecision => decision.on = TreeOf(result.cand)
       /\ decision # NoDecision /\ snapshot # NoSnapshot => decision.seen = snapshot

\* The operation returns or throws, and gives the lease back.
Over == pc' = "idle" /\ run' = IdleRun /\ put' = NoPut /\ choice' = NoChoice

-----------------------------------------------------------------------------
(* promoteTerminalArtifacts: result.json is replaced, then manifest.json.  *)

WriteResult ==
  /\ pc = "putResult"
  /\ decision = NoDecision
  /\ result' = put.result
  /\ pc' = "putManifest"
  /\ UNCHANGED <<manifest, gate, marker, decision, snapshot, gone, anchor, checkout, started,
                 run, put, choice, server, told>>

WriteManifest ==
  /\ pc = "putManifest"
  /\ manifest' = put.manifest
  /\ run' = [run EXCEPT !.final = put.result, !.current = put.result.cand]
  /\ pc' = put.done
  /\ put' = NoPut
  /\ UNCHANGED <<result, gate, marker, decision, snapshot, gone, anchor, checkout, started,
                 choice, server, told>>

\* Refused once a decision exists, or a write fails.  The demotion of a failed
\* pipeline that cannot be written (fail = "lost") costs it its authority to
\* release the run.
PutFails ==
  /\ pc \in {"putResult", "putManifest"}
  /\ \/ MayFail
     \/ pc = "putResult" /\ decision # NoDecision
  /\ pc' = put.fail
  /\ put' = NoPut
  /\ UNCHANGED <<archive, anchor, checkout, started, run, choice, server, told>>
=============================================================================
