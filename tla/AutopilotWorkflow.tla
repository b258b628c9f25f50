-------------------------- MODULE AutopilotWorkflow --------------------------
(***************************************************************************)
(* One Autopilot workflow, driven by one server after another: the         *)
(* controller that starts or resumes it, the promoter that turns a         *)
(* candidate into a commit, the final review, the cleanup of its branch    *)
(* and what recovery does about it when a server starts                    *)
(* (src/autopilot, src/runtime/recovery-autopilot.ts).                     *)
(*                                                                         *)
(* The checkout lease is free or held (CheckoutLock), adding or removing   *)
(* the worktree is one step (WorktreeTransaction), and so is a pipeline    *)
(* run (CandidateLifecycle).                                               *)
(***************************************************************************)
EXTENDS WorkflowStore, Sequences

VARIABLES
  log,    \* the commits of the workflow's branch above its base
  branch, base, \* its branch ref and private base ref exist
  tree,   \* its worktree is there and registered
  index,  \* what the worktree has beyond the head of the branch
  own,    \* ownership record of the branch, by its bootstrap owner; "new" before the start
  chk,    \* the checkout lease of the repository
  ran,    \* runs made for each task
  dec,    \* the decision on each candidate
  report, \* the published report of the final review
  pc,
  my,     \* the state a server works from
  cand,   \* the run its pipeline has just made
  why,    \* the phase it is about to end in
  verdict \* the result of the final review it knows

git == <<log, branch, base, tree, index, own>>
evidence == <<ran, dec, report>>
local == <<my, cand, why, verdict>>
vars == <<store, git, chk, evidence, pc, local>>

Candidates == [task : Tasks, run : 1..MaxRuns]
Clean == [task |-> 0, run |-> 0]
Dirt == [task |-> 0, run |-> 1]
Foreign == [task |-> 0, run |-> 2]

Init ==
  /\ StoreInit
  /\ log = <<>> /\ branch = FALSE /\ base = FALSE /\ tree = FALSE /\ index = Clean /\ own = "new"
  /\ chk = "free"
  /\ ran = [k \in Tasks |-> 0] /\ dec = [c \in Candidates |-> "none"] /\ report = "none"
  /\ pc = [s \in Servers |-> "down"]
  /\ my = [s \in Servers |-> Absent]
  /\ cand = [s \in Servers |-> 0]
  /\ why = [s \in Servers |-> "none"]
  /\ verdict = [s \in Servers |-> "none"]

At(s, place) == pc[s] = place
Go(s, place) == pc' = [pc EXCEPT ![s] = place]
Blank(s) ==
  /\ my' = [my EXCEPT ![s] = Absent] /\ cand' = [cand EXCEPT ![s] = 0]
  /\ why' = [why EXCEPT ![s] = "none"] /\ verdict' = [verdict EXCEPT ![s] = "none"]

\* The call returns or throws.  Its server keeps what it still holds.
Return(s) == Go(s, "idle") /\ Blank(s)

Ending(s, phase) == Go(s, "halt") /\ why' = [why EXCEPT ![s] = phase] /\ UNCHANGED <<my, cand, verdict>>
Step(s, place) == Go(s, place) /\ UNCHANGED local

\* The commits a state stands for, the task at hand and its candidate.
HeadOf(state) == [k \in 1..(state.at - 1) |-> [task |-> k, run |-> state.run[k]]]
Task(s) == my[s].at
Recorded(s) == [task |-> Task(s), run |-> my[s].run[Task(s)]]
InPhase(s, phase) == At(s, "drive") /\ my[s].phase = phase

\* validateLocked
Validated(s) == own # "none" /\ tree /\ branch /\ base /\ log = HeadOf(my[s])

Release == chk' = "free"

-----------------------------------------------------------------------------
(* start: the branch, the state, the lease and the specification *)

StartBranch(s) ==
  /\ At(s, "idle") /\ own = "new" /\ chk = "free"
  /\ branch' = TRUE /\ base' = TRUE /\ tree' = TRUE /\ own' = s
  /\ log' = <<>> /\ index' = Clean
  /\ Go(s, "create")
  /\ UNCHANGED <<store, chk, evidence, local>>

CreateState(s) ==
  /\ At(s, "create")
  /\ \/ Create /\ my' = [my EXCEPT ![s] = st'] /\ Go(s, "acquire") /\ UNCHANGED <<cand, why, verdict>>
     \/ May("io") /\ UNCHANGED store /\ Step(s, "undo")
  /\ UNCHANGED <<git, chk, evidence>>

AcquireLease(s) ==
  /\ At(s, "acquire")
  /\ \/ Acquire(s) /\ Step(s, "beginSpec")
     \/ May("io") /\ (LeasePart(FALSE) \/ UNCHANGED store) /\ Step(s, "undo")
  /\ UNCHANGED <<git, chk, evidence>>

RecordSpec(s) ==
  /\ \E event \in {"begun", "completed"} :
       /\ At(s, IF event = "begun" THEN "beginSpec" ELSE "endSpec")
       /\ \/ Note(my[s].rev, SpecKey, event) /\ Step(s, IF event = "begun" THEN "endSpec" ELSE "drive")
          \/ NoteRefused(my[s].rev, SpecKey, event) /\ Step(s, "undo")
  /\ UNCHANGED <<git, chk, evidence>>

\* A start that failed before the specification was recorded: the workflow ends as failed, if
\* this server has its lease.
Undone(s) ==
  /\ At(s, "undone")
  /\ IF owner = s THEN Ending(s, "failed") ELSE Return(s)
  /\ UNCHANGED <<store, git, chk, evidence>>

-----------------------------------------------------------------------------
(* resume *)

ReadState(s) ==
  /\ At(s, "idle") /\ Readable /\ st.phase \in Active
  /\ my' = [my EXCEPT ![s] = st] /\ Go(s, "read")
  /\ UNCHANGED <<store, git, chk, evidence, cand, why, verdict>>

AdoptLease(s) ==
  /\ At(s, "read")
  /\ \/ Adopt(s) /\ Step(s, "adopted")
     \/ (Refused \/ owner # "dead") /\ UNCHANGED store /\ Return(s)
     \/ May("io") /\ LeasePart(TRUE) /\ Return(s)
  /\ UNCHANGED <<git, chk, evidence>>

\* The specification and the branch it was recorded with; where nothing may have moved, the
\* branch as the state has it.  A refusal leaves the lease with this server.
Provable(s) ==
  /\ Readable /\ intents[SpecKey] = "completed"
  /\ own # "none" \/ my[s].phase = "cleaning-up"
  /\ my[s].phase \notin {"promoting-task", "cleaning-up"} =>
       chk = "free" /\ Validated(s) /\ index = Clean

ProveResume(s) ==
  /\ At(s, "adopted")
  /\ \/ Provable(s) /\ Step(s, "drive")
     \/ (~Provable(s) \/ May("io")) /\ Return(s)
  /\ UNCHANGED <<store, git, chk, evidence>>

-----------------------------------------------------------------------------
(* resumeActiveWorkflow: one task *)

\* Every transition: the state on disk moves, and this server goes on from it.
Moves(s, next, place) ==
  /\ Write(my[s].rev, next)
  /\ my' = [my EXCEPT ![s] = st'] /\ Go(s, place)
  /\ cand' = [cand EXCEPT ![s] = 0] /\ UNCHANGED <<why, verdict>>

Transition(s, next, place) ==
  /\ \/ Moves(s, next, place)
     \/ WriteRefused(my[s].rev, next) /\ Return(s)
  /\ UNCHANGED <<git, chk, evidence>>

Abort(s) ==
  /\ May("abort") /\ \E place \in {"adopted", "drive", "ran"} : At(s, place)
  /\ Ending(s, "cancelled")
  /\ UNCHANGED <<store, git, chk, evidence>>

BeginTask(s) ==
  InPhase(s, "preflighting") /\ Transition(s, [st EXCEPT !.phase = "running-task"], "drive")

\* A verified, eligible candidate on the head this server expects, or the end of the workflow.
RunPipeline(s) ==
  /\ InPhase(s, "running-task")
  /\ \/ /\ Validated(s) /\ index = Clean /\ ran[Task(s)] < MaxRuns
        /\ ran' = [ran EXCEPT ![Task(s)] = @ + 1]
        /\ cand' = [cand EXCEPT ![s] = ran'[Task(s)]] /\ Go(s, "ran")
        /\ UNCHANGED <<my, why, verdict>>
     \/ UNCHANGED ran /\ \E phase \in Halts : Ending(s, phase)
  /\ UNCHANGED <<store, git, chk, dec, report>>

RecordRun(s) ==
  /\ At(s, "ran")
  /\ Transition(s, [st EXCEPT !.phase = "promoting-task", !.run[Task(s)] = cand[s]], "drive")

\* The promotion is refused, with the reason journalled ("refuse") or not.
NotPromoted(s) == Ending(s, "human-decision-required")

BeginPromotion(s) ==
  /\ InPhase(s, "promoting-task")
  /\ \/ /\ st = my[s] /\ intents[Task(s)] # "failed"
        /\ Note(my[s].rev, Task(s), IF intents[Task(s)] = "none" THEN "begun" ELSE intents[Task(s)])
        /\ Step(s, "lease")
     \/ (st # my[s] \/ intents[Task(s)] = "failed") /\ UNCHANGED store /\ NotPromoted(s)
     \/ intents[Task(s)] = "none" /\ NoteRefused(my[s].rev, Task(s), "begun") /\ NotPromoted(s)
     \/ Refused /\ UNCHANGED store /\ NotPromoted(s)
  /\ UNCHANGED <<git, chk, evidence>>

\* The run's evidence, the branch's record and the checkout lease.
TakeCheckout(s) ==
  /\ At(s, "lease")
  /\ \/ chk = "free" /\ own # "none" /\ chk' = s /\ Step(s, "enter")
     \/ (chk # "free" \/ own = "none" \/ May("io")) /\ UNCHANGED chk /\ Step(s, "refuse")
  /\ UNCHANGED <<store, git, evidence>>

Committed(s) == log = Append(HeadOf(my[s]), Recorded(s))

\* withLockedState: the writer lock is held, with the checkout lease, until the commit is proven.
\* A commit that is already there is accepted; a candidate that is already staged is not staged
\* again; anything else in the worktree ends the workflow.
LockState(s) ==
  /\ At(s, "enter")
  /\ \/ /\ Writable /\ st = my[s] /\ writer' = s /\ UNCHANGED chk
        /\ \/ Committed(s) /\ tree /\ index = Clean /\ Step(s, "accept")
           \/ /\ intents[Task(s)] # "completed" /\ Validated(s)
              /\ \/ index = Recorded(s) /\ Step(s, "accept")
                 \/ index = Clean /\ Step(s, "stage")
     \/ /\ \/ Refused \/ st # my[s]
           \/ ~(Committed(s) /\ tree /\ index = Clean)
              /\ ~(/\ intents[Task(s)] # "completed" /\ Validated(s)
                   /\ index \in {Clean, Recorded(s)})
        /\ UNCHANGED writer /\ Release /\ NotPromoted(s)
  /\ UNCHANGED <<st, cp, intents, torn, owner, git, evidence>>

\* Out of the locks, with the reason journalled or not.
Leave(s) == writer' = "free" /\ Release /\ NotPromoted(s)
LeaveJournalled(s) == writer' = "free" /\ UNCHANGED chk /\ Step(s, "refuse")

\* Mutant: whether the bytes are staged is not looked at.
StageBestEffort(s) ==
  /\ At(s, "stage") /\ index' \in {index, Recorded(s)} /\ Step(s, "accept")
  /\ UNCHANGED <<store, chk, log, branch, base, tree, own, evidence>>

\* stageCandidateTreeUnderLock
Stage(s) ==
  /\ At(s, "stage")
  /\ \/ /\ log = HeadOf(my[s]) /\ index = Clean /\ index' = Recorded(s)
        /\ Step(s, "accept") /\ UNCHANGED <<writer, chk>>
     \/ May("io") /\ index' \in {index, Dirt} /\ (Leave(s) \/ LeaveJournalled(s))
     \/ ~(log = HeadOf(my[s]) /\ index = Clean) /\ UNCHANGED index
          /\ (Leave(s) \/ LeaveJournalled(s))
  /\ UNCHANGED <<st, cp, intents, torn, owner, log, branch, base, tree, own, evidence>>

\* ensureAcceptedDecision: a decision is written once, and the first one stays.
Accept(s) ==
  /\ At(s, "accept")
  /\ \/ /\ dec[Recorded(s)] # "other" /\ dec' = [dec EXCEPT ![Recorded(s)] = "accepted"]
        /\ UNCHANGED <<writer, chk>>
        /\ Step(s, IF Committed(s) THEN "leave" ELSE "commit")
     \/ (dec[Recorded(s)] = "other" \/ May("io")) /\ UNCHANGED dec /\ LeaveJournalled(s)
  /\ UNCHANGED <<st, cp, intents, torn, owner, git, ran, report>>

\* Mutant: the commit is made on whatever the head has become.
CommitOnHead(s) ==
  /\ At(s, "commit") /\ log' = Append(log, Recorded(s)) /\ index' = Clean /\ Step(s, "leave")
  /\ UNCHANGED <<store, chk, branch, base, tree, own, evidence>>

\* Mutant: whether the branch has moved is not looked at.
CommitBestEffort(s) ==
  /\ At(s, "commit") /\ Step(s, "leave")
  /\ UNCHANGED <<store, chk, git, evidence>>

\* The staged bytes are proven again, committed, and the branch is moved from the head expected.
Commit(s) ==
  /\ At(s, "commit")
  /\ \/ /\ index = Recorded(s) /\ log = HeadOf(my[s])
        /\ log' = Append(log, Recorded(s)) /\ index' = Clean
        /\ \/ Step(s, "leave") /\ UNCHANGED <<writer, chk>>
           \/ May("io") /\ Leave(s)
     \/ ~(index = Recorded(s) /\ log = HeadOf(my[s])) /\ Leave(s) /\ UNCHANGED <<log, index>>
     \/ May("io") /\ LeaveJournalled(s) /\ UNCHANGED <<log, index>>
  /\ UNCHANGED <<st, cp, intents, torn, owner, branch, base, tree, own, evidence>>

LeaveState(s) ==
  /\ At(s, "leave") /\ writer' = "free" /\ Step(s, "journal")
  /\ UNCHANGED <<st, cp, intents, torn, owner, git, chk, evidence>>

\* The commit is journalled and the anchor deleted; should either fail, the workflow ends.
JournalPromotion(s) ==
  /\ At(s, "journal") /\ Release
  /\ \/ /\ IF intents[Task(s)] = "completed" THEN UNCHANGED store ELSE Note(st.rev, Task(s), "completed")
        /\ (Step(s, "advance") \/ (May("io") /\ NotPromoted(s)))
     \/ intents[Task(s)] # "completed" /\ NoteRefused(st.rev, Task(s), "completed") /\ NotPromoted(s)
  /\ UNCHANGED <<git, evidence>>

\* finishFailure
JournalRefusal(s) ==
  /\ At(s, "refuse") /\ chk' = (IF chk = s THEN "free" ELSE chk)
  /\ \/ intents[Task(s)] = "completed" /\ UNCHANGED store
     \/ intents[Task(s)] # "completed" /\ Note(st.rev, Task(s), "failed")
     \/ intents[Task(s)] # "completed" /\ NoteRefused(st.rev, Task(s), "failed")
  /\ NotPromoted(s)
  /\ UNCHANGED <<git, evidence>>

\* Mutant: the last task is counted from one too many.
AdvancePast(s) ==
  /\ At(s, "advance")
  /\ Transition(s, [st EXCEPT !.phase = IF Task(s) > N THEN "final-review" ELSE "running-task",
                              !.at = Task(s) + 1], "drive")

Advance(s) ==
  /\ At(s, "advance")
  /\ Transition(s, [st EXCEPT !.phase = IF Task(s) = N THEN "final-review" ELSE "running-task",
                              !.at = Task(s) + 1], "drive")

-----------------------------------------------------------------------------
(* The final review *)

\* The artifact of the whole branch is frozen under the writer lock, from promotions, evidence
\* and decisions that are all there.
Freeze(s) ==
  /\ InPhase(s, "final-review")
  /\ \/ /\ Writable /\ st.rev = my[s].rev /\ Validated(s) /\ index = Clean
        /\ \A k \in Tasks : dec[HeadOf(my[s])[k]] = "accepted"
        /\ Step(s, "review")
     \/ \E phase \in {"human-decision-required", "failed"} : Ending(s, phase)
  /\ UNCHANGED <<store, git, chk, evidence>>

Knows(s, result, place) ==
  /\ verdict' = [verdict EXCEPT ![s] = result] /\ Go(s, place)
  /\ UNCHANGED <<my, cand, why>>

\* Under the checkout lease, which is kept until the report is published.  A report that is there
\* already is the result.
Review(s) ==
  /\ At(s, "review")
  /\ \/ /\ chk = "free" /\ st.phase = "final-review" /\ report # "none"
        /\ Knows(s, report, "judged") /\ UNCHANGED chk
     \/ /\ chk = "free" /\ st.phase = "final-review" /\ report = "none" /\ chk' = s
        /\ \E result \in {"eligible", "refused"} : Knows(s, result, "publish")
     \/ /\ chk # "free" \/ st.phase # "final-review" \/ May("io")
        /\ (NotPromoted(s) \/ Ending(s, "failed")) /\ UNCHANGED chk
  /\ UNCHANGED <<store, git, evidence>>

\* Mutant: a report that could not be written is relied on all the same.
PublishBestEffort(s) ==
  /\ At(s, "publish") /\ Release /\ report' \in {report, verdict[s]} /\ Step(s, "judged")
  /\ UNCHANGED <<store, git, ran, dec>>

\* Only from the head and the worktree the artifact was frozen from, and never over another.
CanPublish(s) == Validated(s) /\ index = Clean /\ report = "none"
Publish(s) ==
  /\ At(s, "publish") /\ Release
  /\ \/ CanPublish(s) /\ report' = verdict[s] /\ Step(s, "judged")
     \/ /\ ~CanPublish(s) \/ May("io")
        /\ report' \in {report} \cup (IF report = "none" /\ Validated(s) THEN {verdict[s]} ELSE {})
        /\ \E phase \in {"human-decision-required", "failed"} : why' = [why EXCEPT ![s] = phase]
        /\ verdict' = [verdict EXCEPT ![s] = "none"] /\ Go(s, "halt") /\ UNCHANGED <<my, cand>>
  /\ UNCHANGED <<store, git, ran, dec>>

Judge(s) ==
  /\ At(s, "judged")
  /\ \/ /\ verdict[s] = "eligible"
        /\ Transition(s, [st EXCEPT !.phase = "cleaning-up", !.gate = "eligible"], "drive")
     \/ /\ verdict[s] = "refused" /\ NotPromoted(s)
        /\ UNCHANGED <<store, git, chk, evidence>>

-----------------------------------------------------------------------------
(* The cleanup of the branch: its worktree, its private refs, its ownership record *)

HandingOver(s) == my[s].phase = "cleaning-up"
Finishing(s, phase) ==
  Go(s, "finish") /\ why' = [why EXCEPT ![s] = phase] /\ UNCHANGED <<my, cand, verdict>>

CleanedUp(s) == IF HandingOver(s) THEN Step(s, "cleaned") ELSE Step(s, "undone")
NotCleanedUp(s) == IF HandingOver(s) THEN Finishing(s, "failed") ELSE Step(s, "undone")

BeginCleanup(s) ==
  /\ InPhase(s, "cleaning-up")
  /\ \/ /\ intents[CleanupKey] = "completed"
        /\ UNCHANGED store /\ Finishing(s, "ready-for-human-review")
     \/ intents[CleanupKey] = "begun" /\ UNCHANGED store /\ Step(s, "undo")
     \/ intents[CleanupKey] = "none" /\ Note(my[s].rev, CleanupKey, "begun") /\ Step(s, "undo")
     \/ intents[CleanupKey] = "none" /\ NoteRefused(my[s].rev, CleanupKey, "begun") /\ Return(s)
  /\ UNCHANGED <<git, chk, evidence>>

\* cleanupLocked: what is left of the branch is at the head expected.
AsExpected(s) ==
  /\ branch => log = HeadOf(my[s])
  /\ IF HandingOver(s) THEN branch ELSE branch = base /\ (tree => branch)
NothingLeft(s) == ~tree /\ ~base /\ (HandingOver(s) \/ ~branch)

\* Mutant: with the record gone, all is taken to be.
CheckOwnerOnly(s) ==
  /\ At(s, "undo")
  /\ IF own = "none" THEN UNCHANGED chk /\ CleanedUp(s)
     ELSE chk = "free" /\ chk' = s /\ Step(s, "removeOwn")
  /\ UNCHANGED <<store, git, evidence>>

\* Without its record, only a branch of which nothing is left to remove is cleaned up.
CheckCleanup(s) ==
  /\ At(s, "undo")
  /\ \/ /\ chk = "free" /\ AsExpected(s)
        /\ IF own = "none"
           THEN UNCHANGED chk /\ IF NothingLeft(s) THEN CleanedUp(s) ELSE NotCleanedUp(s)
           ELSE chk' = s /\ Step(s, "removeTree")
     \/ (chk # "free" \/ ~AsExpected(s) \/ May("io")) /\ UNCHANGED chk /\ NotCleanedUp(s)
  /\ UNCHANGED <<store, git, evidence>>

RemoveTree(s) ==
  /\ At(s, "removeTree")
  /\ \/ tree' = FALSE /\ index' = Clean /\ UNCHANGED chk /\ Step(s, "removeRefs")
     \/ May("io") /\ UNCHANGED <<tree, index>> /\ Release /\ NotCleanedUp(s)
  /\ UNCHANGED <<store, log, branch, base, own, evidence>>

\* One transaction, of the refs as they were seen.
RemoveRefs(s) ==
  /\ At(s, "removeRefs")
  /\ \/ /\ branch => log = HeadOf(my[s]) \/ HandingOver(s)
        /\ base' = FALSE /\ UNCHANGED chk /\ Step(s, "removeOwn")
        /\ IF HandingOver(s) THEN UNCHANGED <<branch, log>> ELSE branch' = FALSE /\ log' = <<>>
     \/ /\ (branch /\ log # HeadOf(my[s]) /\ ~HandingOver(s)) \/ May("io")
        /\ UNCHANGED <<base, branch, log>> /\ Release /\ NotCleanedUp(s)
  /\ UNCHANGED <<store, tree, index, own, evidence>>

RemoveOwnership(s) ==
  /\ At(s, "removeOwn") /\ Release
  /\ \/ own' = "none" /\ CleanedUp(s)
     \/ May("io") /\ own' \in {own, "none"} /\ NotCleanedUp(s)
  /\ UNCHANGED <<store, log, branch, base, tree, index, evidence>>

JournalCleanup(s) ==
  /\ At(s, "cleaned")
  /\ \/ Note(my[s].rev, CleanupKey, "completed") /\ Finishing(s, "ready-for-human-review")
     \/ NoteRefused(my[s].rev, CleanupKey, "completed") /\ Return(s)
  /\ UNCHANGED <<git, chk, evidence>>

-----------------------------------------------------------------------------
(* The end of a workflow: finishCleanup, halt *)

\* Mutant: a workflow is ended whatever its state has become.
EndUnchecked(s) ==
  /\ At(s, "finish") \/ At(s, "halt")
  /\ WriteUnchecked(my[s].rev, [st EXCEPT !.phase = why[s]])
  /\ my' = [my EXCEPT ![s] = st'] /\ Go(s, "release")
  /\ UNCHANGED <<git, chk, evidence, cand, why, verdict>>

EndWorkflow(s) ==
  /\ At(s, "finish") \/ At(s, "halt")
  /\ Transition(s, [st EXCEPT !.phase = why[s],
                              !.gate = IF verdict[s] = "none" THEN @ ELSE verdict[s]], "release")

ReleaseLease(s) ==
  /\ At(s, "release")
  /\ (GiveBack(s) \/ ((Refused \/ owner # s) /\ UNCHANGED store)) /\ Return(s)
  /\ UNCHANGED <<git, chk, evidence>>

-----------------------------------------------------------------------------
(* Servers, and what others do *)

\* The first pass of a server frees the checkout lock of an exited one.  Of a workflow that never
\* had a state the branch is removed; any other it leaves to resume.
Boot(s) ==
  /\ At(s, "down") /\ chk' = (IF chk = "dead" THEN "free" ELSE chk)
  /\ IF st.phase = "absent" /\ own = "dead" THEN Step(s, "undo") ELSE Step(s, "idle")
  /\ UNCHANGED <<store, git, evidence>>

Exit(s) ==
  /\ ~At(s, "down") /\ Go(s, "down") /\ Blank(s)
  /\ writer' = (IF writer = s THEN "free" ELSE writer)
  /\ owner' = (IF owner = s THEN "dead" ELSE owner)
  /\ own' = (IF own = s THEN "dead" ELSE own)
  /\ chk' = (IF chk = s THEN "dead" ELSE chk)
  /\ UNCHANGED <<st, cp, intents, torn, log, branch, base, tree, index, evidence>>

\* What a server is writing to the journal.
Writing(s) ==
  {e \in {<<"beginSpec", SpecKey, "begun">>, <<"endSpec", SpecKey, "completed">>,
          <<"journal", Task(s), "completed">>, <<"refuse", Task(s), "failed">>,
          <<"cleaned", CleanupKey, "completed">>} : At(s, e[1])}
    \cup (IF InPhase(s, "promoting-task") /\ intents[Task(s)] = "none"
          THEN {<<"drive", Task(s), "begun">>} ELSE {})
    \cup (IF InPhase(s, "cleaning-up") /\ intents[CleanupKey] = "none"
          THEN {<<"drive", CleanupKey, "begun">>} ELSE {})

\* An exit inside a step leaves part of a journal entry, of a lease or of a staged tree.
CutOff(s) ==
  /\ Step(s, "dying")
  /\ \/ /\ \E e \in Writing(s) : intents[e[2]] \notin Ended /\ NotePart(e[2], e[3])
        /\ UNCHANGED index
     \/ At(s, "acquire") /\ LeasePart(FALSE) /\ UNCHANGED index
     \/ At(s, "read") /\ LeasePart(TRUE) /\ UNCHANGED index
     \/ At(s, "stage") /\ log = HeadOf(my[s]) /\ index = Clean /\ index' = Dirt /\ UNCHANGED store
  /\ UNCHANGED <<log, branch, base, tree, own, chk, evidence>>

\* The user commits in the worktree, or on the branch that was handed over; edits; decides.
UserCommits ==
  /\ May("user") /\ branch /\ \A i \in 1..Len(log) : log[i] # Foreign
  /\ log' = Append(log, Foreign) /\ index' = Clean
  /\ UNCHANGED <<store, branch, base, tree, own, chk, evidence, pc, local>>

UserEdits ==
  /\ May("user") /\ tree /\ index # Dirt /\ index' = Dirt
  /\ UNCHANGED <<store, log, branch, base, tree, own, chk, evidence, pc, local>>

UserDecides ==
  /\ May("user")
  /\ \E c \in Candidates : /\ c.run <= ran[c.task] /\ dec[c] = "none"
                           /\ dec' = [dec EXCEPT ![c] = "other"]
  /\ UNCHANGED <<store, git, chk, ran, report, pc, local>>

Next ==
  \/ \E s \in Servers :
       \/ StartBranch(s) \/ CreateState(s) \/ AcquireLease(s) \/ RecordSpec(s) \/ Undone(s)
       \/ ReadState(s) \/ AdoptLease(s) \/ ProveResume(s) \/ Abort(s)
       \/ BeginTask(s) \/ RunPipeline(s) \/ RecordRun(s)
       \/ BeginPromotion(s) \/ TakeCheckout(s) \/ LockState(s) \/ Stage(s) \/ Accept(s)
       \/ Commit(s) \/ LeaveState(s) \/ JournalPromotion(s) \/ JournalRefusal(s) \/ Advance(s)
       \/ Freeze(s) \/ Review(s) \/ Publish(s) \/ Judge(s)
       \/ BeginCleanup(s) \/ CheckCleanup(s) \/ RemoveTree(s) \/ RemoveRefs(s)
       \/ RemoveOwnership(s) \/ JournalCleanup(s)
       \/ EndWorkflow(s) \/ ReleaseLease(s)
       \/ Boot(s) \/ CutOff(s) \/ Exit(s)
  \/ UserCommits \/ UserEdits \/ UserDecides

Spec == Init /\ [][Next]_vars

-----------------------------------------------------------------------------
(* Properties *)

Places ==
  {"down", "dying", "idle", "create", "acquire", "beginSpec", "endSpec", "undone", "read",
   "adopted", "drive", "ran", "lease", "enter", "stage", "accept", "commit", "leave", "journal",
   "refuse", "advance", "review", "publish", "judged", "undo", "removeTree", "removeRefs",
   "removeOwn", "cleaned", "finish", "halt", "release"}

Holders == Servers \cup {"none", "free", "dead", "empty", "new"}
Results == {"none", "eligible", "refused"}
States == [rev : Nat, phase : Active \cup Terminal \cup {"absent"}, at : 1..(N + 1),
           run : [Tasks -> 0..MaxRuns], gate : Results]

Working == {"preflighting", "running-task", "promoting-task"}

\* The types of all state, and a task at hand wherever one is worked on (resumeActiveWorkflow).
TypeOK ==
  /\ st \in States /\ cp \in Nat /\ torn \in BOOLEAN
  /\ st.phase \in Working => st.at \in Tasks
  /\ intents \in [Keys -> {"none", "begun"} \cup Ended]
  /\ writer \in Holders /\ owner \in Holders /\ own \in Holders /\ chk \in Holders
  /\ log \in Seq(Candidates \cup {Foreign}) /\ index \in Candidates \cup {Clean, Dirt}
  /\ {branch, base, tree} \subseteq BOOLEAN
  /\ ran \in [Tasks -> 0..MaxRuns] /\ dec \in [Candidates -> {"none", "accepted", "other"}]
  /\ report \in Results
  /\ pc \in [Servers -> Places] /\ my \in [Servers -> States]
  /\ cand \in [Servers -> 0..MaxRuns] /\ why \in [Servers -> Terminal \cup {"none"}]
  /\ verdict \in [Servers -> Results]

\* Where a server acts for the workflow.
Drives(s) ==
  \/ pc[s] \in Places \ {"down", "dying", "idle", "create", "acquire", "undone", "read", "undo",
                         "removeTree", "removeRefs", "removeOwn"}
  \/ HandingOver(s) /\ pc[s] \in {"undo", "removeTree", "removeRefs", "removeOwn"}

\* Only one server at a time drives a workflow, the one its lease names, through exits and
\* adoptions: acquireLease, adoptLease and releaseLease.
OneDriver == \A s \in Servers : Drives(s) => owner = s

\* The branch holds one commit per promoted task, in order, each of the run the state records for
\* it: none twice, although a promotion is done again after an exit, and none above a commit that
\* somebody else made (CandidatePromoter.promote).
PromotedInOrder ==
  \A i \in 1..Len(log) :
    \/ i \in Tasks /\ log[i] = [task |-> i, run |-> st.run[i]]
    \/ log[i] = Foreign /\ i = Len(log)

\* No commit without an acceptance by the policy, and no acceptance of bytes that are not staged or
\* committed, unless somebody else has changed the worktree since (ensureAcceptedDecision).
AcceptedAsStaged ==
  /\ \A i \in 1..Len(log) : log[i] # Foreign => dec[log[i]] = "accepted"
  /\ \A c \in Candidates : dec[c] = "accepted" =>
       index \in {c, Dirt} \/ \E i \in 1..Len(log) : log[i] \in {c, Foreign}

\* What the state and the journal say was promoted is on the branch, which is at most one commit
\* ahead of the state.
BranchLeads ==
  /\ st.at - 1 <= Len(log)
  /\ \A i \in 1..Len(log) : log[i] # Foreign => i <= st.at
  /\ \A k \in Tasks : intents[k] = "completed" => k <= Len(log) /\ log[k] # Foreign

\* The checkpoint in the state never covers an entry the journal does not have, which would make
\* the workflow unreadable (withJournalCheckpoint).
JournalCovered == cp <= Entries(intents)

\* A published refusal stands: no exit and resume turns it into a branch handed over, and the gate
\* in the state is the published one (readPublishedReport).
VerdictStands ==
  /\ st.gate # "none" => st.gate = report
  /\ st.phase \in {"cleaning-up", "ready-for-human-review"} => report = "eligible"

\* A branch that is handed over has all its promotions, and nothing private to the workflow is
\* left (cleanupLocked, finishCleanup).
HandedOverWhole ==
  st.phase = "ready-for-human-review" =>
    branch /\ ~tree /\ ~base /\ own = "none" /\ Len(log) >= N

\* The workflow promotes, ends and is handed over as the abstract one is.
Promotions == {i \in 1..Len(log) : log[i] # Foreign}
Outcome ==
  IF st.phase = "ready-for-human-review" THEN "handed over"
  ELSE IF st.phase \in Halts THEN "halted" ELSE "open"

Abstract == INSTANCE AtomicWorkflow WITH commits <- Cardinality(Promotions), outcome <- Outcome
ImplementsAtomicWorkflow == Abstract!Spec
=============================================================================
