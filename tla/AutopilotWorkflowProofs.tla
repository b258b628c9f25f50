------------------------ MODULE AutopilotWorkflowProofs ------------------------
(***************************************************************************)
(* Proofs about AutopilotWorkflow, for any servers, tasks and faults.      *)
(*                                                                         *)
(* Everything rests on WorkInv: a revision identifies a state, so that a   *)
(* server whose compare and swap succeeds has worked from the state that   *)
(* it replaces, and in a promotion the state is locked.  OneDriver follows *)
(* from it directly; the others need an invariant of their own:            *)
(* BranchFollows of the commits, CoverInv of the journal, VerdictInv of    *)
(* the final review.                                                       *)
(***************************************************************************)
EXTENDS AutopilotWorkflow, FiniteSetTheorems, TLAPS

\* Where a server promotes its task, and where it does so under the writer lock.
Promoting == {"lease", "enter", "stage", "accept", "commit", "leave", "journal", "refuse", "advance"}
Locking == {"stage", "accept", "commit", "leave"}

WorkTypes ==
  /\ st \in States /\ my \in [Servers -> States] /\ pc \in [Servers -> Places]
  /\ cand \in [Servers -> 0..MaxRuns] /\ ran \in [Tasks -> 0..MaxRuns]

\* What is true of every state, on disk or in the hands of a server.
Sound(state) ==
  /\ state.phase \in Working \cup {"absent"} => state.at \in Tasks
  /\ state.phase = "promoting-task" => state.run[state.at] \in 1..MaxRuns

\* A server works from the state on disk or from an earlier revision.
Known(state) ==
  /\ Sound(state)
  /\ state.phase # "absent" =>
       st.phase # "absent" /\ state.rev <= st.rev /\ (state.rev = st.rev => state = st)

\* What a server has in hand where it is.
Agrees(place, state, run) ==
  /\ place \in Promoting => state.phase = "promoting-task"
  /\ place = "ran" => state.phase = "running-task" /\ run \in 1..MaxRuns
  /\ place \in {"down", "idle", "create"} => state.phase = "absent"
  /\ place = "acquire" => state.phase = "preflighting"

StateLocked == \A s \in Servers : pc[s] \in Locking => writer = s /\ st = my[s]

\* How a workflow is about to end.
EndTypes ==
  /\ why \in [Servers -> Terminal \cup {"none"}] /\ verdict \in [Servers -> Results]
  /\ report \in Results

WorkInv ==
  /\ WorkTypes
  /\ Sound(st)
  /\ \A s \in Servers : Known(my[s]) /\ Agrees(pc[s], my[s], cand[s])
  /\ StateLocked

\* A step of s that leaves the state on disk as it is.
Stays(s) ==
  /\ st' = st /\ ran' \in [Tasks -> 0..MaxRuns]
  /\ pc' = [pc EXCEPT ![s] = pc'[s]] /\ pc'[s] \in Places
  /\ my' = [my EXCEPT ![s] = my'[s]] /\ my'[s] \in {my[s], st, Absent}
  /\ cand' = [cand EXCEPT ![s] = cand'[s]] /\ cand'[s] \in 0..MaxRuns
  /\ writer' = writer \/ (writer \in {s, "free"} /\ writer' \in {s, "free"})

-----------------------------------------------------------------------------
LEMMA AbsentTyped == Absent \in States /\ Known(Absent)
BY CountAssumption DEF Absent, States, Known, Sound, Tasks, Results, Working

LEMMA WorkInvInit == Init => WorkInv
<1> SUFFICES ASSUME Init PROVE WorkInv
  OBVIOUS
<1>1. WorkTypes
  BY AbsentTyped, CountAssumption DEF Init, StoreInit, WorkTypes, Places, Results
<1>2. QED
  BY <1>1, AbsentTyped
     DEF Init, StoreInit, WorkInv, Known, Agrees, StateLocked, Absent, Promoting, Locking

LEMMA StaysKeeps ==
  ASSUME WorkInv, NEW s \in Servers, Stays(s), Agrees(pc'[s], my'[s], cand'[s]),
         pc'[s] \in Locking => writer' = s /\ st = my'[s]
  PROVE  WorkInv'
<1>1. WorkTypes'
  BY AbsentTyped DEF WorkInv, WorkTypes, Stays
<1>2. Sound(st)'
  BY DEF WorkInv, Stays
<1>3. ASSUME NEW o \in Servers PROVE Known(my[o])' /\ Agrees(pc[o], my[o], cand[o])'
  <2>1. CASE o = s
    <3>1. Known(my'[s])
      BY AbsentTyped DEF WorkInv, WorkTypes, States, Stays, Known
    <3>2. QED
      BY <2>1, <3>1 DEF Stays, Known, Agrees
  <2>2. CASE o # s
    <3>1. my'[o] = my[o] /\ pc'[o] = pc[o] /\ cand'[o] = cand[o]
      BY <2>2 DEF WorkInv, WorkTypes, Stays
    <3>2. QED
      BY <3>1 DEF WorkInv, Stays, Known, Agrees
  <2>3. QED
    BY <2>1, <2>2
<1>4. StateLocked'
  <2> SUFFICES ASSUME NEW o \in Servers, pc'[o] \in Locking PROVE writer' = o /\ st' = my'[o]
    BY DEF StateLocked
  <2>1. CASE o = s
    BY <2>1 DEF Stays
  <2>2. CASE o # s
    BY <2>2, ServerAssumption DEF WorkInv, WorkTypes, StateLocked, Stays
  <2>3. QED
    BY <2>1, <2>2
<1>5. QED
  BY <1>1, <1>2, <1>3, <1>4 DEF WorkInv

\* A transition of s that succeeds.
LEMMA MovesKeeps ==
  ASSUME WorkInv, NEW s \in Servers, NEW next \in States, NEW place \in {"drive", "release"},
         Moves(s, next, place), Sound(next), next.phase # "absent", UNCHANGED ran
  PROVE  WorkInv'
<1>1. st' = [next EXCEPT !.rev = st.rev + 1] /\ writer' = writer /\ writer = "free"
  BY DEF Moves, Write, Writable
<1>2. /\ st' \in States /\ st'.rev = st.rev + 1
      /\ st'.phase = next.phase /\ st'.at = next.at /\ st'.run = next.run
  <2>1. st.rev + 1 \in Nat
    BY DEF WorkInv, WorkTypes, States
  <2>2. QED
    BY <1>1, <2>1 DEF States
<1>3. Sound(st)'
  BY <1>2 DEF Sound
<1>4. /\ my' = [my EXCEPT ![s] = st'] /\ pc' = [pc EXCEPT ![s] = place]
      /\ cand' = [cand EXCEPT ![s] = 0]
  BY DEF Moves, Go
<1>5. WorkTypes'
  <2>1. place \in Places /\ 0 \in 0..MaxRuns
    BY CountAssumption DEF Places
  <2>2. QED
    BY <1>2, <1>4, <2>1 DEF WorkInv, WorkTypes
<1>6. ASSUME NEW o \in Servers PROVE Known(my[o])' /\ Agrees(pc[o], my[o], cand[o])'
  <2>1. CASE o = s
    <3>1. my'[o] = st' /\ pc'[o] = place /\ place \notin Promoting
      BY <2>1, <1>4 DEF WorkInv, WorkTypes, Promoting
    <3>2. st'.rev \in Nat
      BY <1>2 DEF States
    <3>3. Known(my[o])'
      BY <1>2, <1>3, <3>1, <3>2 DEF Known
    <3>4. QED
      BY <3>1, <3>3 DEF Agrees
  <2>2. CASE o # s
    <3>1. my'[o] = my[o] /\ pc'[o] = pc[o] /\ cand'[o] = cand[o]
      BY <1>4, <2>2 DEF WorkInv, WorkTypes
    <3>2. my[o].phase # "absent" => my[o].rev < st'.rev
      BY <1>2 DEF WorkInv, WorkTypes, Known, States
    <3>3. my[o].rev \in Nat /\ st.rev \in Nat
      BY DEF WorkInv, WorkTypes, States
    <3>4. QED
      BY <1>2, <3>1, <3>2, <3>3 DEF WorkInv, Known, Agrees, Sound
  <2>3. QED
    BY <2>1, <2>2
<1>7. StateLocked'
  BY <1>1, <1>4, ServerAssumption DEF WorkInv, WorkTypes, StateLocked, Locking
<1>8. QED
  BY <1>3, <1>5, <1>6, <1>7 DEF WorkInv

-----------------------------------------------------------------------------
(* A state stands for what is known of it *)

\* The steps that leave the state on disk alone, and those that replace it.
Staying(s) ==
  \/ StartBranch(s) \/ AcquireLease(s) \/ RecordSpec(s) \/ Undone(s) \/ ReadState(s)
  \/ AdoptLease(s) \/ ProveResume(s) \/ Abort(s) \/ RunPipeline(s) \/ BeginPromotion(s)
  \/ TakeCheckout(s) \/ LockState(s) \/ Stage(s) \/ Accept(s) \/ Commit(s) \/ LeaveState(s)
  \/ JournalPromotion(s) \/ JournalRefusal(s) \/ Freeze(s) \/ Review(s) \/ Publish(s)
  \/ BeginCleanup(s) \/ CheckCleanup(s) \/ RemoveTree(s) \/ RemoveRefs(s)
  \/ RemoveOwnership(s) \/ JournalCleanup(s) \/ ReleaseLease(s) \/ Boot(s) \/ CutOff(s)
  \/ Exit(s)

Moving(s) ==
  \/ CreateState(s) \/ BeginTask(s) \/ RecordRun(s) \/ Advance(s) \/ Judge(s)
  \/ EndWorkflow(s)

LEMMA WorkInvStays ==
  ASSUME WorkInv, NEW s \in Servers
  PROVE  Staying(s) => WorkInv'
<1> USE DEF At, Go, Step, store, git, evidence, local, InPhase
<1>1. Undone(s) => WorkInv'
  <2> SUFFICES ASSUME Undone(s) PROVE WorkInv'
    OBVIOUS
  <2>1. Stays(s)
    BY CountAssumption DEF Undone, Ending, Return, Blank, Stays, WorkInv, WorkTypes, Places
  <2>2. Agrees(pc'[s], my'[s], cand'[s])
    BY DEF Undone, Ending, Return, Blank, WorkInv, WorkTypes, Agrees, Promoting, Absent
  <2>3. pc'[s] \in Locking => writer' = s /\ st = my'[s]
    BY DEF Undone, Ending, Return, Blank, WorkInv, WorkTypes, StateLocked, Locking
  <2>4. QED
    BY <2>1, <2>2, <2>3, StaysKeeps
<1>2. ReadState(s) => WorkInv'
  <2> SUFFICES ASSUME ReadState(s) PROVE WorkInv'
    OBVIOUS
  <2>1. Stays(s)
    BY DEF ReadState, Readable, Stays, WorkInv, WorkTypes, Places
  <2>2. Agrees(pc'[s], my'[s], cand'[s])
    BY DEF ReadState, Readable, WorkInv, WorkTypes, Agrees, Promoting, Absent
  <2>3. pc'[s] \in Locking => writer' = s /\ st = my'[s]
    BY DEF ReadState, Readable, WorkInv, WorkTypes, StateLocked, Locking
  <2>4. QED
    BY <2>1, <2>2, <2>3, StaysKeeps
<1>3. ProveResume(s) => WorkInv'
  <2> SUFFICES ASSUME ProveResume(s) PROVE WorkInv'
    OBVIOUS
  <2>1. Stays(s)
    BY CountAssumption DEF ProveResume, Return, Blank, Stays, WorkInv, WorkTypes, Places
  <2>2. Agrees(pc'[s], my'[s], cand'[s])
    BY DEF ProveResume, Return, Blank, WorkInv, WorkTypes, Agrees, Promoting, Absent
  <2>3. pc'[s] \in Locking => writer' = s /\ st = my'[s]
    BY DEF ProveResume, Return, Blank, WorkInv, WorkTypes, StateLocked, Locking
  <2>4. QED
    BY <2>1, <2>2, <2>3, StaysKeeps
<1>4. Abort(s) => WorkInv'
  <2> SUFFICES ASSUME Abort(s) PROVE WorkInv'
    OBVIOUS
  <2>1. Stays(s)
    BY DEF Abort, Ending, Stays, WorkInv, WorkTypes, Places
  <2>2. Agrees(pc'[s], my'[s], cand'[s])
    BY DEF Abort, Ending, WorkInv, WorkTypes, Agrees, Promoting, Absent
  <2>3. pc'[s] \in Locking => writer' = s /\ st = my'[s]
    BY DEF Abort, Ending, WorkInv, WorkTypes, StateLocked, Locking
  <2>4. QED
    BY <2>1, <2>2, <2>3, StaysKeeps
<1>5. RunPipeline(s) => WorkInv'
  <2> SUFFICES ASSUME RunPipeline(s) PROVE WorkInv'
    OBVIOUS
  <2>1. CASE UNCHANGED ran /\ \E phase \in Halts : Ending(s, phase)
    <3>1. Stays(s)
      BY <2>1 DEF Ending, RunPipeline, Stays, WorkInv, WorkTypes, Places
    <3>2. Agrees(pc'[s], my'[s], cand'[s]) /\ pc'[s] \notin Locking
      BY <2>1 DEF RunPipeline, Ending, WorkInv, WorkTypes, Agrees, Promoting, Locking
    <3>3. QED
      BY <3>1, <3>2, StaysKeeps
  <2>2. CASE ~(UNCHANGED ran /\ \E phase \in Halts : Ending(s, phase))
    <3>1. Task(s) \in Tasks /\ ran[Task(s)] \in 0..MaxRuns /\ ran[Task(s)] < MaxRuns
      BY <2>2 DEF RunPipeline, WorkInv, WorkTypes, Known, Sound, Working, Task
    <3>2. ran' = [ran EXCEPT ![Task(s)] = @ + 1] /\ cand' = [cand EXCEPT ![s] = ran'[Task(s)]]
      BY <2>2 DEF RunPipeline
    <3>3. ran'[Task(s)] \in 1..MaxRuns /\ ran' \in [Tasks -> 0..MaxRuns]
      BY <3>1, <3>2, CountAssumption DEF WorkInv, WorkTypes
    <3>4. pc'[s] = "ran" /\ Stays(s)
      BY <2>2, <3>2, <3>3, CountAssumption DEF RunPipeline, Stays, WorkInv, WorkTypes, Places
    <3>5. Agrees(pc'[s], my'[s], cand'[s]) /\ pc'[s] \notin Locking
      BY <2>2, <3>2, <3>3, <3>4 DEF RunPipeline, WorkInv, WorkTypes, Agrees, Promoting, Locking
    <3>6. QED
      BY <3>4, <3>5, StaysKeeps
  <2>3. QED
    BY <2>1, <2>2
<1>6. TakeCheckout(s) => WorkInv'
  <2> SUFFICES ASSUME TakeCheckout(s) PROVE WorkInv'
    OBVIOUS
  <2>1. Stays(s)
    BY DEF TakeCheckout, Stays, WorkInv, WorkTypes, Places
  <2>2. Agrees(pc'[s], my'[s], cand'[s])
    BY DEF TakeCheckout, WorkInv, WorkTypes, Agrees, Promoting, Absent
  <2>3. pc'[s] \in Locking => writer' = s /\ st = my'[s]
    BY DEF TakeCheckout, WorkInv, WorkTypes, StateLocked, Locking
  <2>4. QED
    BY <2>1, <2>2, <2>3, StaysKeeps
<1>7. LockState(s) => WorkInv'
  <2> SUFFICES ASSUME LockState(s) PROVE WorkInv'
    OBVIOUS
  <2>1. Stays(s)
    BY DEF LockState, Release, NotPromoted, Ending, Writable, Stays, WorkInv, WorkTypes, Places
  <2>2. Agrees(pc'[s], my'[s], cand'[s])
    BY DEF LockState, Release, NotPromoted, Ending, Writable, WorkInv, WorkTypes, Agrees,
       Promoting, Absent
  <2>3. pc'[s] \in Locking => writer' = s /\ st = my'[s]
    BY DEF LockState, Release, NotPromoted, Ending, Writable, WorkInv, WorkTypes,
       StateLocked, Locking
  <2>4. QED
    BY <2>1, <2>2, <2>3, StaysKeeps
<1>8. Stage(s) => WorkInv'
  <2> SUFFICES ASSUME Stage(s) PROVE WorkInv'
    OBVIOUS
  <2>1. Stays(s)
    BY DEF Stage, Leave, LeaveJournalled, NotPromoted, Ending, StateLocked, Locking, Stays,
       WorkInv, WorkTypes, Places
  <2>2. Agrees(pc'[s], my'[s], cand'[s])
    BY DEF Stage, Leave, LeaveJournalled, NotPromoted, Ending, WorkInv, WorkTypes, Agrees,
       Promoting, Absent
  <2>3. pc'[s] \in Locking => writer' = s /\ st = my'[s]
    BY DEF Stage, Leave, LeaveJournalled, NotPromoted, Ending, WorkInv, WorkTypes,
       StateLocked, Locking
  <2>4. QED
    BY <2>1, <2>2, <2>3, StaysKeeps
<1>9. Accept(s) => WorkInv'
  <2> SUFFICES ASSUME Accept(s) PROVE WorkInv'
    OBVIOUS
  <2>1. Stays(s)
    BY DEF Accept, LeaveJournalled, StateLocked, Locking, Stays, WorkInv, WorkTypes, Places
  <2>2. Agrees(pc'[s], my'[s], cand'[s])
    BY DEF Accept, LeaveJournalled, WorkInv, WorkTypes, Agrees, Promoting, Absent
  <2>3. pc'[s] \in Locking => writer' = s /\ st = my'[s]
    BY DEF Accept, LeaveJournalled, WorkInv, WorkTypes, StateLocked, Locking
  <2>4. QED
    BY <2>1, <2>2, <2>3, StaysKeeps
<1>10. Commit(s) => WorkInv'
  <2> SUFFICES ASSUME Commit(s) PROVE WorkInv'
    OBVIOUS
  <2>1. Stays(s)
    BY DEF Commit, Leave, LeaveJournalled, NotPromoted, Ending, StateLocked, Locking, Stays,
       WorkInv, WorkTypes, Places
  <2>2. Agrees(pc'[s], my'[s], cand'[s])
    BY DEF Commit, Leave, LeaveJournalled, NotPromoted, Ending, WorkInv, WorkTypes, Agrees,
       Promoting, Absent
  <2>3. pc'[s] \in Locking => writer' = s /\ st = my'[s]
    BY DEF Commit, Leave, LeaveJournalled, NotPromoted, Ending, WorkInv, WorkTypes,
       StateLocked, Locking
  <2>4. QED
    BY <2>1, <2>2, <2>3, StaysKeeps
<1>11. LeaveState(s) => WorkInv'
  <2> SUFFICES ASSUME LeaveState(s) PROVE WorkInv'
    OBVIOUS
  <2>1. Stays(s)
    BY DEF LeaveState, StateLocked, Locking, Stays, WorkInv, WorkTypes, Places
  <2>2. Agrees(pc'[s], my'[s], cand'[s])
    BY DEF LeaveState, WorkInv, WorkTypes, Agrees, Promoting, Absent
  <2>3. pc'[s] \in Locking => writer' = s /\ st = my'[s]
    BY DEF LeaveState, WorkInv, WorkTypes, StateLocked, Locking
  <2>4. QED
    BY <2>1, <2>2, <2>3, StaysKeeps
<1>12. Freeze(s) => WorkInv'
  <2> SUFFICES ASSUME Freeze(s) PROVE WorkInv'
    OBVIOUS
  <2>1. Stays(s)
    BY DEF Freeze, Ending, Stays, WorkInv, WorkTypes, Places
  <2>2. Agrees(pc'[s], my'[s], cand'[s])
    BY DEF Freeze, Ending, WorkInv, WorkTypes, Agrees, Promoting, Absent
  <2>3. pc'[s] \in Locking => writer' = s /\ st = my'[s]
    BY DEF Freeze, Ending, WorkInv, WorkTypes, StateLocked, Locking
  <2>4. QED
    BY <2>1, <2>2, <2>3, StaysKeeps
<1>13. Review(s) => WorkInv'
  <2> SUFFICES ASSUME Review(s) PROVE WorkInv'
    OBVIOUS
  <2>1. Stays(s)
    BY DEF Review, Knows, NotPromoted, Ending, Stays, WorkInv, WorkTypes, Places
  <2>2. Agrees(pc'[s], my'[s], cand'[s])
    BY DEF Review, Knows, NotPromoted, Ending, WorkInv, WorkTypes, Agrees, Promoting, Absent
  <2>3. pc'[s] \in Locking => writer' = s /\ st = my'[s]
    BY DEF Review, Knows, NotPromoted, Ending, WorkInv, WorkTypes, StateLocked, Locking
  <2>4. QED
    BY <2>1, <2>2, <2>3, StaysKeeps
<1>14. Publish(s) => WorkInv'
  <2> SUFFICES ASSUME Publish(s) PROVE WorkInv'
    OBVIOUS
  <2>1. Stays(s)
    BY DEF Publish, Stays, WorkInv, WorkTypes, Places
  <2>2. Agrees(pc'[s], my'[s], cand'[s])
    BY DEF Publish, WorkInv, WorkTypes, Agrees, Promoting, Absent
  <2>3. pc'[s] \in Locking => writer' = s /\ st = my'[s]
    BY DEF Publish, WorkInv, WorkTypes, StateLocked, Locking
  <2>4. QED
    BY <2>1, <2>2, <2>3, StaysKeeps
<1>15. CheckCleanup(s) => WorkInv'
  <2> SUFFICES ASSUME CheckCleanup(s) PROVE WorkInv'
    OBVIOUS
  <2>1. Stays(s)
    BY DEF CheckCleanup, CleanedUp, NotCleanedUp, Finishing, Stays, WorkInv, WorkTypes, Places
  <2>2. Agrees(pc'[s], my'[s], cand'[s])
    BY DEF CheckCleanup, CleanedUp, NotCleanedUp, Finishing, WorkInv, WorkTypes, Agrees,
       Promoting, Absent
  <2>3. pc'[s] \in Locking => writer' = s /\ st = my'[s]
    BY DEF CheckCleanup, CleanedUp, NotCleanedUp, Finishing, WorkInv, WorkTypes,
       StateLocked, Locking
  <2>4. QED
    BY <2>1, <2>2, <2>3, StaysKeeps
<1>16. RemoveTree(s) => WorkInv'
  <2> SUFFICES ASSUME RemoveTree(s) PROVE WorkInv'
    OBVIOUS
  <2>1. Stays(s)
    BY DEF RemoveTree, NotCleanedUp, CleanedUp, Finishing, Stays, WorkInv, WorkTypes, Places
  <2>2. Agrees(pc'[s], my'[s], cand'[s])
    BY DEF RemoveTree, NotCleanedUp, CleanedUp, Finishing, WorkInv, WorkTypes, Agrees,
       Promoting, Absent
  <2>3. pc'[s] \in Locking => writer' = s /\ st = my'[s]
    BY DEF RemoveTree, NotCleanedUp, CleanedUp, Finishing, WorkInv, WorkTypes, StateLocked,
       Locking
  <2>4. QED
    BY <2>1, <2>2, <2>3, StaysKeeps
<1>17. RemoveRefs(s) => WorkInv'
  <2> SUFFICES ASSUME RemoveRefs(s) PROVE WorkInv'
    OBVIOUS
  <2>1. Stays(s)
    BY DEF RemoveRefs, NotCleanedUp, Finishing, Stays, WorkInv, WorkTypes, Places
  <2>2. Agrees(pc'[s], my'[s], cand'[s])
    BY DEF RemoveRefs, NotCleanedUp, Finishing, WorkInv, WorkTypes, Agrees, Promoting, Absent
  <2>3. pc'[s] \in Locking => writer' = s /\ st = my'[s]
    BY DEF RemoveRefs, NotCleanedUp, Finishing, WorkInv, WorkTypes, StateLocked, Locking
  <2>4. QED
    BY <2>1, <2>2, <2>3, StaysKeeps
<1>18. RemoveOwnership(s) => WorkInv'
  <2> SUFFICES ASSUME RemoveOwnership(s) PROVE WorkInv'
    OBVIOUS
  <2>1. Stays(s)
    BY DEF RemoveOwnership, CleanedUp, NotCleanedUp, Finishing, Stays, WorkInv, WorkTypes,
       Places
  <2>2. Agrees(pc'[s], my'[s], cand'[s])
    BY DEF RemoveOwnership, CleanedUp, NotCleanedUp, Finishing, WorkInv, WorkTypes, Agrees,
       Promoting, Absent
  <2>3. pc'[s] \in Locking => writer' = s /\ st = my'[s]
    BY DEF RemoveOwnership, CleanedUp, NotCleanedUp, Finishing, WorkInv, WorkTypes,
       StateLocked, Locking
  <2>4. QED
    BY <2>1, <2>2, <2>3, StaysKeeps
<1>19. StartBranch(s) => WorkInv'
  <2> SUFFICES ASSUME StartBranch(s) PROVE WorkInv'
    OBVIOUS
  <2>1. Stays(s)
    BY DEF StartBranch, Stays, WorkInv, WorkTypes, Places
  <2>2. Agrees(pc'[s], my'[s], cand'[s])
    BY DEF StartBranch, WorkInv, WorkTypes, Agrees, Promoting, Absent
  <2>3. pc'[s] \in Locking => writer' = s /\ st = my'[s]
    BY DEF StartBranch, WorkInv, WorkTypes, StateLocked, Locking
  <2>4. QED
    BY <2>1, <2>2, <2>3, StaysKeeps
<1>20. Boot(s) => WorkInv'
  <2> SUFFICES ASSUME Boot(s) PROVE WorkInv'
    OBVIOUS
  <2>1. Stays(s)
    BY CountAssumption DEF Boot, Stays, WorkInv, WorkTypes, Places
  <2>2. Agrees(pc'[s], my'[s], cand'[s])
    BY DEF Boot, WorkInv, WorkTypes, Agrees, Promoting, Absent
  <2>3. pc'[s] \in Locking => writer' = s /\ st = my'[s]
    BY DEF Boot, WorkInv, WorkTypes, StateLocked, Locking
  <2>4. QED
    BY <2>1, <2>2, <2>3, StaysKeeps
<1>21. CutOff(s) => WorkInv'
  <2> SUFFICES ASSUME CutOff(s) PROVE WorkInv'
    OBVIOUS
  <2>1. Stays(s)
    BY DEF CutOff, NotePart, LeasePart, Stays, WorkInv, WorkTypes, Places
  <2>2. Agrees(pc'[s], my'[s], cand'[s])
    BY DEF CutOff, NotePart, LeasePart, WorkInv, WorkTypes, Agrees, Promoting, Absent
  <2>3. pc'[s] \in Locking => writer' = s /\ st = my'[s]
    BY DEF CutOff, NotePart, LeasePart, WorkInv, WorkTypes, StateLocked, Locking
  <2>4. QED
    BY <2>1, <2>2, <2>3, StaysKeeps
<1>22. Exit(s) => WorkInv'
  <2> SUFFICES ASSUME Exit(s) PROVE WorkInv'
    OBVIOUS
  <2>1. Stays(s)
    BY CountAssumption DEF Exit, Blank, Stays, WorkInv, WorkTypes, Places
  <2>2. Agrees(pc'[s], my'[s], cand'[s])
    BY DEF Exit, Blank, WorkInv, WorkTypes, Agrees, Promoting, Absent
  <2>3. pc'[s] \in Locking => writer' = s /\ st = my'[s]
    BY DEF Exit, Blank, WorkInv, WorkTypes, StateLocked, Locking
  <2>4. QED
    BY <2>1, <2>2, <2>3, StaysKeeps
<1>23. AcquireLease(s) => WorkInv'
  <2> SUFFICES ASSUME AcquireLease(s) PROVE WorkInv'
    OBVIOUS
  <2>1. Stays(s)
    BY DEF AcquireLease, Acquire, LeasePart, Stays, WorkInv, WorkTypes, Places
  <2>2. Agrees(pc'[s], my'[s], cand'[s])
    BY DEF AcquireLease, Acquire, LeasePart, WorkInv, WorkTypes, Agrees, Promoting, Absent
  <2>3. pc'[s] \in Locking => writer' = s /\ st = my'[s]
    BY DEF AcquireLease, Acquire, LeasePart, WorkInv, WorkTypes, StateLocked, Locking
  <2>4. QED
    BY <2>1, <2>2, <2>3, StaysKeeps
<1>24. AdoptLease(s) => WorkInv'
  <2> SUFFICES ASSUME AdoptLease(s) PROVE WorkInv'
    OBVIOUS
  <2>1. Stays(s)
    BY CountAssumption
       DEF AdoptLease, Adopt, LeasePart, Return, Blank, Stays, WorkInv, WorkTypes, Places
  <2>2. Agrees(pc'[s], my'[s], cand'[s])
    BY DEF AdoptLease, Adopt, LeasePart, Return, Blank, WorkInv, WorkTypes, Agrees,
       Promoting, Absent
  <2>3. pc'[s] \in Locking => writer' = s /\ st = my'[s]
    BY DEF AdoptLease, Adopt, LeasePart, Return, Blank, WorkInv, WorkTypes, StateLocked, Locking
  <2>4. QED
    BY <2>1, <2>2, <2>3, StaysKeeps
<1>25. RecordSpec(s) => WorkInv'
  <2> SUFFICES ASSUME RecordSpec(s) PROVE WorkInv'
    OBVIOUS
  <2>1. Stays(s)
    BY DEF RecordSpec, Note, NoteRefused, NotePart, Stays, WorkInv, WorkTypes, Places
  <2>2. Agrees(pc'[s], my'[s], cand'[s])
    BY DEF RecordSpec, Note, NoteRefused, NotePart, WorkInv, WorkTypes, Agrees, Promoting,
       Absent
  <2>3. pc'[s] \in Locking => writer' = s /\ st = my'[s]
    BY DEF RecordSpec, Note, NoteRefused, NotePart, WorkInv, WorkTypes, StateLocked, Locking
  <2>4. QED
    BY <2>1, <2>2, <2>3, StaysKeeps
<1>26. BeginPromotion(s) => WorkInv'
  <2> SUFFICES ASSUME BeginPromotion(s) PROVE WorkInv'
    OBVIOUS
  <2>1. Stays(s)
    BY DEF BeginPromotion, Note, NoteRefused, NotePart, NotPromoted, Ending, Stays, WorkInv,
       WorkTypes, Places
  <2>2. Agrees(pc'[s], my'[s], cand'[s])
    BY DEF BeginPromotion, Note, NoteRefused, NotePart, NotPromoted, Ending, WorkInv,
       WorkTypes, Agrees, Promoting, Absent
  <2>3. pc'[s] \in Locking => writer' = s /\ st = my'[s]
    BY DEF BeginPromotion, Note, NoteRefused, NotePart, NotPromoted, Ending, WorkInv,
       WorkTypes, StateLocked, Locking
  <2>4. QED
    BY <2>1, <2>2, <2>3, StaysKeeps
<1>27. JournalPromotion(s) => WorkInv'
  <2> SUFFICES ASSUME JournalPromotion(s) PROVE WorkInv'
    OBVIOUS
  <2>1. Stays(s)
    BY DEF JournalPromotion, Note, NoteRefused, NotePart, NotPromoted, Ending, Stays,
       WorkInv, WorkTypes, Places
  <2>2. Agrees(pc'[s], my'[s], cand'[s])
    BY DEF JournalPromotion, Note, NoteRefused, NotePart, NotPromoted, Ending, WorkInv,
       WorkTypes, Agrees, Promoting, Absent
  <2>3. pc'[s] \in Locking => writer' = s /\ st = my'[s]
    BY DEF JournalPromotion, Note, NoteRefused, NotePart, NotPromoted, Ending, WorkInv,
       WorkTypes, StateLocked, Locking
  <2>4. QED
    BY <2>1, <2>2, <2>3, StaysKeeps
<1>28. JournalRefusal(s) => WorkInv'
  <2> SUFFICES ASSUME JournalRefusal(s) PROVE WorkInv'
    OBVIOUS
  <2>1. Stays(s)
    BY DEF JournalRefusal, Note, NoteRefused, NotePart, NotPromoted, Ending, Stays, WorkInv,
       WorkTypes, Places
  <2>2. Agrees(pc'[s], my'[s], cand'[s])
    BY DEF JournalRefusal, Note, NoteRefused, NotePart, NotPromoted, Ending, WorkInv,
       WorkTypes, Agrees, Promoting, Absent
  <2>3. pc'[s] \in Locking => writer' = s /\ st = my'[s]
    BY DEF JournalRefusal, Note, NoteRefused, NotePart, NotPromoted, Ending, WorkInv,
       WorkTypes, StateLocked, Locking
  <2>4. QED
    BY <2>1, <2>2, <2>3, StaysKeeps
<1>29. BeginCleanup(s) => WorkInv'
  <2> SUFFICES ASSUME BeginCleanup(s) PROVE WorkInv'
    OBVIOUS
  <2>1. Stays(s)
    BY CountAssumption
       DEF BeginCleanup, Note, NoteRefused, NotePart, Finishing, Return, Blank, Stays,
           WorkInv, WorkTypes, Places
  <2>2. Agrees(pc'[s], my'[s], cand'[s])
    BY DEF BeginCleanup, Note, NoteRefused, NotePart, Finishing, Return, Blank, WorkInv,
       WorkTypes, Agrees, Promoting, Absent
  <2>3. pc'[s] \in Locking => writer' = s /\ st = my'[s]
    BY DEF BeginCleanup, Note, NoteRefused, NotePart, Finishing, Return, Blank, WorkInv,
       WorkTypes, StateLocked, Locking
  <2>4. QED
    BY <2>1, <2>2, <2>3, StaysKeeps
<1>30. JournalCleanup(s) => WorkInv'
  <2> SUFFICES ASSUME JournalCleanup(s) PROVE WorkInv'
    OBVIOUS
  <2>1. Stays(s)
    BY CountAssumption
       DEF JournalCleanup, Note, NoteRefused, NotePart, Finishing, Return, Blank, Stays,
           WorkInv, WorkTypes, Places
  <2>2. Agrees(pc'[s], my'[s], cand'[s])
    BY DEF JournalCleanup, Note, NoteRefused, NotePart, Finishing, Return, Blank, WorkInv,
       WorkTypes, Agrees, Promoting, Absent
  <2>3. pc'[s] \in Locking => writer' = s /\ st = my'[s]
    BY DEF JournalCleanup, Note, NoteRefused, NotePart, Finishing, Return, Blank, WorkInv,
       WorkTypes, StateLocked, Locking
  <2>4. QED
    BY <2>1, <2>2, <2>3, StaysKeeps
<1>31. ReleaseLease(s) => WorkInv'
  <2> SUFFICES ASSUME ReleaseLease(s) PROVE WorkInv'
    OBVIOUS
  <2>1. Stays(s)
    BY CountAssumption
       DEF ReleaseLease, GiveBack, Return, Blank, Stays, WorkInv, WorkTypes, Places
  <2>2. Agrees(pc'[s], my'[s], cand'[s])
    BY DEF ReleaseLease, GiveBack, Return, Blank, WorkInv, WorkTypes, Agrees, Promoting, Absent
  <2>3. pc'[s] \in Locking => writer' = s /\ st = my'[s]
    BY DEF ReleaseLease, GiveBack, Return, Blank, WorkInv, WorkTypes, StateLocked, Locking
  <2>4. QED
    BY <2>1, <2>2, <2>3, StaysKeeps
<1>32. QED
  BY <1>1, <1>2, <1>3, <1>4, <1>5, <1>6, <1>7, <1>8, <1>9, <1>10, <1>11, <1>12, <1>13, <1>14,
     <1>15, <1>16, <1>17, <1>18, <1>19, <1>20, <1>21, <1>22, <1>23, <1>24, <1>25, <1>26,
     <1>27, <1>28, <1>29, <1>30, <1>31
     DEF Staying

LEMMA TransitionKeeps ==
  ASSUME WorkInv, NEW s \in Servers, NEW next, NEW place \in {"drive", "release"},
         Transition(s, next, place), UNCHANGED ran, pc[s] \notin Locking,
         my[s].rev = st.rev /\ <<st.phase, next.phase>> \in Edges => next \in States /\ Sound(next)
  PROVE  WorkInv'
<1>1. CASE Moves(s, next, place)
  <2>1. next \in States /\ Sound(next) /\ next.phase # "absent"
    BY <1>1 DEF Moves, Write, Edges, Active, Halts
  <2>2. QED
    BY <1>1, <2>1, MovesKeeps
<1>2. CASE WriteRefused(my[s].rev, next) /\ Return(s)
  <2>1. Stays(s)
    BY <1>2, CountAssumption
       DEF WriteRefused, store, Return, Blank, Go, Stays, WorkInv, WorkTypes, Places
  <2>2. Agrees(pc'[s], my'[s], cand'[s]) /\ pc'[s] \notin Locking
    BY <1>2 DEF Return, Blank, Go, WorkInv, WorkTypes, Agrees, Promoting, Locking, Absent
  <2>3. QED
    BY <2>1, <2>2, StaysKeeps
<1>3. QED
  BY <1>1, <1>2 DEF Transition

LEMMA WorkInvMoves ==
  ASSUME WorkInv, EndTypes, NEW s \in Servers
  PROVE  Moving(s) => WorkInv'
<1>1. BeginTask(s) => WorkInv'
  <2> SUFFICES ASSUME BeginTask(s) PROVE WorkInv'
    OBVIOUS
  <2> DEFINE next == [st EXCEPT !.phase = "running-task"]
  <2>1. next \in States
    BY DEF WorkInv, WorkTypes, States, Active
  <2>2. my[s].rev = st.rev => Sound(next)
    BY DEF BeginTask, InPhase, WorkInv, WorkTypes, Known, Sound, States, Working
  <2>3. Transition(s, next, "drive") /\ UNCHANGED ran /\ pc[s] \notin Locking
    BY DEF BeginTask, InPhase, At, Transition, evidence, Locking
  <2>4. QED
    BY <2>1, <2>2, <2>3, TransitionKeeps
<1>2. RecordRun(s) => WorkInv'
  <2> SUFFICES ASSUME RecordRun(s) PROVE WorkInv'
    OBVIOUS
  <2> DEFINE next == [st EXCEPT !.phase = "promoting-task", !.run[Task(s)] = cand[s]]
  <2>1. cand[s] \in 1..MaxRuns /\ Task(s) \in Tasks
    BY DEF RecordRun, At, Task, WorkInv, Agrees, Known, Sound, Working
  <2>2. next \in States
    BY <2>1, CountAssumption DEF WorkInv, WorkTypes, States, Active
  <2>3. my[s].rev = st.rev => Sound(next)
    BY <2>1 DEF RecordRun, At, Task, WorkInv, WorkTypes, Agrees, Known, Sound, States, Working
  <2>4. Transition(s, next, "drive") /\ UNCHANGED ran /\ pc[s] \notin Locking
    BY DEF RecordRun, At, Transition, evidence, Locking
  <2>5. QED
    BY <2>2, <2>3, <2>4, TransitionKeeps
<1>3. Advance(s) => WorkInv'
  <2> SUFFICES ASSUME Advance(s) PROVE WorkInv'
    OBVIOUS
  <2> DEFINE next == [st EXCEPT !.phase = IF Task(s) = N THEN "final-review" ELSE "running-task",
                                !.at = Task(s) + 1]
  <2>1. Task(s) \in Tasks
    BY DEF Advance, At, Task, WorkInv, Agrees, Known, Sound, Promoting, Working
  <2>2. /\ next.phase = IF Task(s) = N THEN "final-review" ELSE "running-task"
        /\ next.at = Task(s) + 1
    BY DEF WorkInv, WorkTypes, States
  <2>3. next.at \in 1..(N + 1) /\ (Task(s) # N => next.at \in Tasks)
    BY <2>1, <2>2, CountAssumption DEF Tasks
  <2>4. next \in States
    BY <2>2, <2>3 DEF WorkInv, WorkTypes, States, Active
  <2>5. Sound(next)
    BY <2>2, <2>3 DEF Sound, Working
  <2>6. Transition(s, next, "drive") /\ UNCHANGED ran /\ pc[s] \notin Locking
    BY DEF Advance, At, Transition, evidence, Locking
  <2>7. QED
    BY <2>4, <2>5, <2>6, TransitionKeeps
<1>4. Judge(s) => WorkInv'
  <2> SUFFICES ASSUME Judge(s) PROVE WorkInv'
    OBVIOUS
  <2>1. CASE verdict[s] = "eligible"
    <3> DEFINE next == [st EXCEPT !.phase = "cleaning-up", !.gate = "eligible"]
    <3>1. next \in States /\ Sound(next)
      BY DEF WorkInv, WorkTypes, Sound, States, Active, Results, Working
    <3>2. Transition(s, next, "drive") /\ UNCHANGED ran /\ pc[s] \notin Locking
      BY <2>1 DEF Judge, At, Transition, evidence, Locking
    <3>3. QED
      BY <3>1, <3>2, TransitionKeeps
  <2>2. CASE verdict[s] # "eligible"
    <3>1. Stays(s)
      BY <2>2
         DEF Judge, At, NotPromoted, Ending, Go, store, evidence, Stays, WorkInv,
             WorkTypes, Places
    <3>2. Agrees(pc'[s], my'[s], cand'[s]) /\ pc'[s] \notin Locking
      BY <2>2 DEF Judge, NotPromoted, Ending, Go, WorkInv, WorkTypes, Agrees, Promoting, Locking
    <3>3. QED
      BY <3>1, <3>2, StaysKeeps
  <2>3. QED
    BY <2>1, <2>2
<1>5. EndWorkflow(s) => WorkInv'
  <2> SUFFICES ASSUME EndWorkflow(s) PROVE WorkInv'
    OBVIOUS
  <2> DEFINE next == [st EXCEPT !.phase = why[s], !.gate = IF verdict[s] = "none" THEN @ ELSE verdict[s]]
  <2>1. next.phase = why[s] /\ next.at = st.at /\ next.run = st.run
    BY DEF WorkInv, WorkTypes, States
  <2>2. <<st.phase, next.phase>> \in Edges => next \in States /\ Sound(next)
    <3> SUFFICES ASSUME <<st.phase, next.phase>> \in Edges PROVE next \in States /\ Sound(next)
      OBVIOUS
    <3>1. why[s] \in Terminal
      BY <2>1 DEF Edges, Active, Halts, Terminal, EndTypes
    <3>2. next \in States
      BY <3>1 DEF WorkInv, WorkTypes, EndTypes, States
    <3>3. QED
      BY <2>1, <3>1, <3>2 DEF Sound, Working, Terminal, Halts
  <2>3. Transition(s, next, "release") /\ UNCHANGED ran /\ pc[s] \notin Locking
    BY DEF EndWorkflow, At, Transition, evidence, Locking
  <2>4. QED
    BY <2>2, <2>3, TransitionKeeps
<1>6. CreateState(s) => WorkInv'
  <2> SUFFICES ASSUME CreateState(s) PROVE WorkInv'
    OBVIOUS
  <2>1. CASE UNCHANGED store
    <3>1. pc' = [pc EXCEPT ![s] = "undo"] /\ UNCHANGED local
      BY <2>1 DEF CreateState, Step, Go, Create, WorkInv, WorkTypes, States, store
    <3>2. Stays(s)
      BY <2>1, <3>1 DEF CreateState, local, store, evidence, Stays, WorkInv, WorkTypes, Places
    <3>3. Agrees(pc'[s], my'[s], cand'[s]) /\ pc'[s] \notin Locking
      BY <3>1 DEF local, WorkInv, WorkTypes, Agrees, Promoting, Locking
    <3>4. QED
      BY <3>2, <3>3, StaysKeeps
  <2>2. CASE Create /\ my' = [my EXCEPT ![s] = st'] /\ Go(s, "acquire") /\ UNCHANGED <<cand, why, verdict>>
    <3>1. /\ st' \in States /\ st'.phase = "preflighting" /\ st'.at = st.at /\ st'.run = st.run
          /\ st'.rev = st.rev /\ writer = "free"
      BY <2>2 DEF Create, WorkInv, WorkTypes, States, Active
    <3>2. WorkTypes'
      BY <2>2, <3>1 DEF CreateState, Go, evidence, WorkInv, WorkTypes, Places
    <3>3. \A o \in Servers : my[o].phase = "absent"
      BY <2>2 DEF Create, WorkInv, Known
    <3>4. Sound(st)'
      BY <2>2, <3>1 DEF Create, WorkInv, Sound, Working
    <3>5. ASSUME NEW o \in Servers PROVE Known(my[o])' /\ Agrees(pc[o], my[o], cand[o])'
      <4>1. CASE o = s
        <5>1. my'[o] = st' /\ pc'[o] = "acquire"
          BY <2>2, <4>1 DEF Go, WorkInv, WorkTypes
        <5>2. st'.rev \in Nat
          BY <3>1 DEF States
        <5>3. QED
          BY <3>1, <3>4, <5>1, <5>2 DEF Known, Agrees, Promoting
      <4>2. CASE o # s
        <5>1. my'[o] = my[o] /\ pc'[o] = pc[o] /\ cand'[o] = cand[o]
          BY <2>2, <4>2 DEF Go, WorkInv, WorkTypes
        <5>2. QED
          BY <3>3, <5>1 DEF WorkInv, Known, Sound, Agrees, Working
      <4>3. QED
        BY <4>1, <4>2
    <3>6. StateLocked'
      BY <2>2, <3>1, ServerAssumption DEF Create, Go, WorkInv, WorkTypes, StateLocked, Locking
    <3>7. QED
      BY <3>2, <3>4, <3>5, <3>6 DEF WorkInv
  <2>3. QED
    BY <2>1, <2>2 DEF CreateState
<1>7. QED
  BY <1>1, <1>2, <1>3, <1>4, <1>5, <1>6 DEF Moving

LEMMA EndTypesNext == EndTypes /\ [Next]_vars => EndTypes'
<1> SUFFICES ASSUME EndTypes, [Next]_vars PROVE EndTypes'
  OBVIOUS
<1> USE DEF EndTypes, Terminal, Halts, Results, Step, local, evidence
<1>1. ASSUME NEW s \in Servers, StartBranch(s) PROVE EndTypes'
  BY <1>1 DEF StartBranch
<1>2. ASSUME NEW s \in Servers, CreateState(s) PROVE EndTypes'
  BY <1>2 DEF CreateState
<1>3. ASSUME NEW s \in Servers, AcquireLease(s) PROVE EndTypes'
  BY <1>3 DEF AcquireLease
<1>4. ASSUME NEW s \in Servers, RecordSpec(s) PROVE EndTypes'
  BY <1>4 DEF RecordSpec
<1>5. ASSUME NEW s \in Servers, Undone(s) PROVE EndTypes'
  BY <1>5 DEF Undone, Ending, Return, Blank
<1>6. ASSUME NEW s \in Servers, ReadState(s) PROVE EndTypes'
  BY <1>6 DEF ReadState
<1>7. ASSUME NEW s \in Servers, AdoptLease(s) PROVE EndTypes'
  BY <1>7 DEF AdoptLease, Return, Blank
<1>8. ASSUME NEW s \in Servers, ProveResume(s) PROVE EndTypes'
  BY <1>8 DEF ProveResume, Return, Blank
<1>9. ASSUME NEW s \in Servers, Abort(s) PROVE EndTypes'
  BY <1>9 DEF Abort, Ending
<1>10. ASSUME NEW s \in Servers, BeginTask(s) PROVE EndTypes'
  BY <1>10 DEF BeginTask, Transition, Moves, Return, Blank
<1>11. ASSUME NEW s \in Servers, RunPipeline(s) PROVE EndTypes'
  BY <1>11 DEF RunPipeline, Ending
<1>12. ASSUME NEW s \in Servers, RecordRun(s) PROVE EndTypes'
  BY <1>12 DEF RecordRun, Transition, Moves, Return, Blank
<1>13. ASSUME NEW s \in Servers, BeginPromotion(s) PROVE EndTypes'
  BY <1>13 DEF BeginPromotion, NotPromoted, Ending
<1>14. ASSUME NEW s \in Servers, TakeCheckout(s) PROVE EndTypes'
  BY <1>14 DEF TakeCheckout
<1>15. ASSUME NEW s \in Servers, LockState(s) PROVE EndTypes'
  BY <1>15 DEF LockState, NotPromoted, Ending
<1>16. ASSUME NEW s \in Servers, Stage(s) PROVE EndTypes'
  BY <1>16 DEF Stage, Leave, LeaveJournalled, NotPromoted, Ending
<1>17. ASSUME NEW s \in Servers, Accept(s) PROVE EndTypes'
  BY <1>17 DEF Accept, LeaveJournalled
<1>18. ASSUME NEW s \in Servers, Commit(s) PROVE EndTypes'
  BY <1>18 DEF Commit, Leave, LeaveJournalled, NotPromoted, Ending
<1>19. ASSUME NEW s \in Servers, LeaveState(s) PROVE EndTypes'
  BY <1>19 DEF LeaveState
<1>20. ASSUME NEW s \in Servers, JournalPromotion(s) PROVE EndTypes'
  BY <1>20 DEF JournalPromotion, NotPromoted, Ending
<1>21. ASSUME NEW s \in Servers, JournalRefusal(s) PROVE EndTypes'
  BY <1>21 DEF JournalRefusal, NotPromoted, Ending
<1>22. ASSUME NEW s \in Servers, Advance(s) PROVE EndTypes'
  BY <1>22 DEF Advance, Transition, Moves, Return, Blank
<1>23. ASSUME NEW s \in Servers, Freeze(s) PROVE EndTypes'
  BY <1>23 DEF Freeze, Ending
<1>24. ASSUME NEW s \in Servers, Review(s) PROVE EndTypes'
  BY <1>24 DEF Review, Knows, NotPromoted, Ending
<1>25. ASSUME NEW s \in Servers, Publish(s) PROVE EndTypes'
  BY <1>25 DEF Publish
<1>26. ASSUME NEW s \in Servers, Judge(s) PROVE EndTypes'
  BY <1>26 DEF Judge, Transition, Moves, Return, Blank, NotPromoted, Ending
<1>27. ASSUME NEW s \in Servers, BeginCleanup(s) PROVE EndTypes'
  BY <1>27 DEF BeginCleanup, Finishing, Return, Blank
<1>28. ASSUME NEW s \in Servers, CheckCleanup(s) PROVE EndTypes'
  BY <1>28 DEF CheckCleanup, CleanedUp, NotCleanedUp, Finishing
<1>29. ASSUME NEW s \in Servers, RemoveTree(s) PROVE EndTypes'
  BY <1>29 DEF RemoveTree, NotCleanedUp, Finishing
<1>30. ASSUME NEW s \in Servers, RemoveRefs(s) PROVE EndTypes'
  BY <1>30 DEF RemoveRefs, NotCleanedUp, Finishing
<1>31. ASSUME NEW s \in Servers, RemoveOwnership(s) PROVE EndTypes'
  BY <1>31 DEF RemoveOwnership, CleanedUp, NotCleanedUp, Finishing
<1>32. ASSUME NEW s \in Servers, JournalCleanup(s) PROVE EndTypes'
  BY <1>32 DEF JournalCleanup, Finishing, Return, Blank
<1>33. ASSUME NEW s \in Servers, EndWorkflow(s) PROVE EndTypes'
  BY <1>33 DEF EndWorkflow, Transition, Moves, Return, Blank
<1>34. ASSUME NEW s \in Servers, ReleaseLease(s) PROVE EndTypes'
  BY <1>34 DEF ReleaseLease, Return, Blank
<1>35. ASSUME NEW s \in Servers, Boot(s) PROVE EndTypes'
  BY <1>35 DEF Boot
<1>36. ASSUME NEW s \in Servers, CutOff(s) PROVE EndTypes'
  BY <1>36 DEF CutOff
<1>37. ASSUME NEW s \in Servers, Exit(s) PROVE EndTypes'
  BY <1>37 DEF Exit, Blank
<1>38. CASE UserCommits \/ UserEdits \/ UserDecides
  BY <1>38 DEF UserCommits, UserEdits, UserDecides
<1>39. CASE UNCHANGED vars
  BY <1>39 DEF vars
<1>40. QED
  BY <1>1, <1>2, <1>3, <1>4, <1>5, <1>6, <1>7, <1>8, <1>9, <1>10, <1>11, <1>12, <1>13, <1>14,
     <1>15, <1>16, <1>17, <1>18, <1>19, <1>20, <1>21, <1>22, <1>23, <1>24, <1>25, <1>26,
     <1>27, <1>28, <1>29, <1>30, <1>31, <1>32, <1>33, <1>34, <1>35, <1>36, <1>37, <1>38, <1>39
     DEF Next

LEMMA WorkInvNext == WorkInv /\ EndTypes /\ [Next]_vars => WorkInv'
<1> SUFFICES ASSUME WorkInv, EndTypes, [Next]_vars PROVE WorkInv'
  OBVIOUS
<1>1. ASSUME NEW s \in Servers, Staying(s) \/ Moving(s) PROVE WorkInv'
  BY <1>1, WorkInvStays, WorkInvMoves
<1>2. CASE UNCHANGED <<st, ran, my, pc, cand, writer>>
  BY <1>2 DEF WorkInv, WorkTypes, Known, StateLocked
<1>3. UserCommits \/ UserEdits \/ UserDecides \/ UNCHANGED vars =>
        UNCHANGED <<st, ran, my, pc, cand, writer>>
  BY DEF UserCommits, UserEdits, UserDecides, vars, store, evidence, local
<1>4. QED
  BY <1>1, <1>2, <1>3 DEF Next, Staying, Moving

LEMMA WorkInvAlways == Spec => [](WorkInv /\ EndTypes)
<1>1. Init => WorkInv /\ EndTypes
  BY WorkInvInit DEF Init, EndTypes, Results
<1>2. WorkInv /\ EndTypes /\ [Next]_vars => (WorkInv /\ EndTypes)'
  BY WorkInvNext, EndTypesNext
<1>3. QED
  BY <1>1, <1>2, PTL DEF Spec

-----------------------------------------------------------------------------
(* One driver *)

\* A step of s that leaves the lease to whoever has it, unless that is s or nobody alive.
Steers(s) ==
  /\ pc' = [pc EXCEPT ![s] = pc'[s]] /\ my' = [my EXCEPT ![s] = my'[s]]
  /\ owner' = owner \/ owner \in {s, "none", "dead"}
  /\ Drives(s)' => owner' = s

LEMMA SteersKeeps ==
  ASSUME WorkInv, OneDriver, NEW s \in Servers, Steers(s)
  PROVE  OneDriver'
<1> SUFFICES ASSUME NEW o \in Servers, Drives(o)' PROVE owner' = o
  BY DEF OneDriver
<1>1. CASE o = s
  BY <1>1 DEF Steers
<1>2. CASE o # s
  <2>1. my'[o] = my[o] /\ pc'[o] = pc[o]
    BY <1>2 DEF Steers, WorkInv, WorkTypes
  <2>2. Drives(o)
    BY <2>1 DEF Drives, HandingOver
  <2>3. QED
    BY <1>2, <2>2, ServerAssumption DEF OneDriver, Steers
<1>3. QED
  BY <1>1, <1>2

LEMMA OneDriverNext == WorkInv /\ OneDriver /\ [Next]_vars => OneDriver'
<1> SUFFICES ASSUME WorkInv, OneDriver, [Next]_vars PROVE OneDriver'
  OBVIOUS
<1> USE DEF At, Go, Step, store, git, evidence, local, InPhase, HandingOver
<1>1. ASSUME NEW s \in Servers, StartBranch(s) PROVE OneDriver'
  <2>1. Steers(s)
    BY <1>1 DEF StartBranch, Steers, Drives, Places, OneDriver, WorkInv, WorkTypes, Agrees
  <2>2. QED
    BY <2>1, SteersKeeps
<1>2. ASSUME NEW s \in Servers, CreateState(s) PROVE OneDriver'
  <2>1. Steers(s)
    BY <1>2
       DEF CreateState, Create, Steers, Drives, Places, OneDriver, WorkInv, WorkTypes,
           Agrees
  <2>2. QED
    BY <2>1, SteersKeeps
<1>3. ASSUME NEW s \in Servers, AcquireLease(s) PROVE OneDriver'
  <2>1. Steers(s)
    BY <1>3, ServerAssumption
       DEF AcquireLease, Acquire, LeasePart, Steers, Drives, Places, OneDriver, WorkInv,
           WorkTypes, Agrees
  <2>2. QED
    BY <2>1, SteersKeeps
<1>4. ASSUME NEW s \in Servers, RecordSpec(s) PROVE OneDriver'
  <2>1. Steers(s)
    BY <1>4
       DEF RecordSpec, Note, NoteRefused, NotePart, Steers, Drives, Places, OneDriver,
           WorkInv, WorkTypes, Agrees
  <2>2. QED
    BY <2>1, SteersKeeps
<1>5. ASSUME NEW s \in Servers, Undone(s) PROVE OneDriver'
  <2>1. Steers(s)
    BY <1>5
       DEF Undone, Ending, Return, Blank, Steers, Drives, Places, OneDriver, WorkInv,
           WorkTypes, Agrees
  <2>2. QED
    BY <2>1, SteersKeeps
<1>6. ASSUME NEW s \in Servers, ReadState(s) PROVE OneDriver'
  <2>1. Steers(s)
    BY <1>6 DEF ReadState, Steers, Drives, Places, OneDriver, WorkInv, WorkTypes, Agrees
  <2>2. QED
    BY <2>1, SteersKeeps
<1>7. ASSUME NEW s \in Servers, AdoptLease(s) PROVE OneDriver'
  <2>1. Steers(s)
    BY <1>7
       DEF AdoptLease, Adopt, LeasePart, Return, Blank, Steers, Drives, Places, OneDriver,
           WorkInv, WorkTypes, Agrees
  <2>2. QED
    BY <2>1, SteersKeeps
<1>8. ASSUME NEW s \in Servers, ProveResume(s) PROVE OneDriver'
  <2>1. Steers(s)
    BY <1>8
       DEF ProveResume, Return, Blank, Steers, Drives, Places, OneDriver, WorkInv,
           WorkTypes, Agrees
  <2>2. QED
    BY <2>1, SteersKeeps
<1>9. ASSUME NEW s \in Servers, Abort(s) PROVE OneDriver'
  <2>1. Steers(s)
    BY <1>9 DEF Abort, Ending, Steers, Drives, Places, OneDriver, WorkInv, WorkTypes, Agrees
  <2>2. QED
    BY <2>1, SteersKeeps
<1>10. ASSUME NEW s \in Servers, BeginTask(s) PROVE OneDriver'
  <2>1. Steers(s)
    BY <1>10
       DEF BeginTask, Transition, Moves, Return, Blank, Write, WriteRefused, Steers, Drives,
           Places, OneDriver, WorkInv, WorkTypes, Agrees
  <2>2. QED
    BY <2>1, SteersKeeps
<1>11. ASSUME NEW s \in Servers, RunPipeline(s) PROVE OneDriver'
  <2>1. Steers(s)
    BY <1>11
       DEF RunPipeline, Ending, Steers, Drives, Places, OneDriver, WorkInv, WorkTypes,
           Agrees
  <2>2. QED
    BY <2>1, SteersKeeps
<1>12. ASSUME NEW s \in Servers, RecordRun(s) PROVE OneDriver'
  <2>1. Steers(s)
    BY <1>12
       DEF RecordRun, Transition, Moves, Return, Blank, Write, WriteRefused, Steers, Drives,
           Places, OneDriver, WorkInv, WorkTypes, Agrees
  <2>2. QED
    BY <2>1, SteersKeeps
<1>13. ASSUME NEW s \in Servers, BeginPromotion(s) PROVE OneDriver'
  <2>1. Steers(s)
    BY <1>13
       DEF BeginPromotion, Note, NoteRefused, NotePart, NotPromoted, Ending, Steers, Drives,
           Places, OneDriver, WorkInv, WorkTypes, Agrees
  <2>2. QED
    BY <2>1, SteersKeeps
<1>14. ASSUME NEW s \in Servers, TakeCheckout(s) PROVE OneDriver'
  <2>1. Steers(s)
    BY <1>14 DEF TakeCheckout, Steers, Drives, Places, OneDriver, WorkInv, WorkTypes, Agrees
  <2>2. QED
    BY <2>1, SteersKeeps
<1>15. ASSUME NEW s \in Servers, LockState(s) PROVE OneDriver'
  <2>1. Steers(s)
    BY <1>15
       DEF LockState, Release, NotPromoted, Ending, Steers, Drives, Places, OneDriver,
           WorkInv, WorkTypes, Agrees
  <2>2. QED
    BY <2>1, SteersKeeps
<1>16. ASSUME NEW s \in Servers, Stage(s) PROVE OneDriver'
  <2>1. Steers(s)
    BY <1>16
       DEF Stage, Leave, LeaveJournalled, NotPromoted, Ending, Steers, Drives, Places,
           OneDriver, WorkInv, WorkTypes, Agrees
  <2>2. QED
    BY <2>1, SteersKeeps
<1>17. ASSUME NEW s \in Servers, Accept(s) PROVE OneDriver'
  <2>1. Steers(s)
    BY <1>17
       DEF Accept, LeaveJournalled, Steers, Drives, Places, OneDriver, WorkInv, WorkTypes,
           Agrees
  <2>2. QED
    BY <2>1, SteersKeeps
<1>18. ASSUME NEW s \in Servers, Commit(s) PROVE OneDriver'
  <2>1. Steers(s)
    BY <1>18
       DEF Commit, Leave, LeaveJournalled, NotPromoted, Ending, Steers, Drives, Places,
           OneDriver, WorkInv, WorkTypes, Agrees
  <2>2. QED
    BY <2>1, SteersKeeps
<1>19. ASSUME NEW s \in Servers, LeaveState(s) PROVE OneDriver'
  <2>1. Steers(s)
    BY <1>19 DEF LeaveState, Steers, Drives, Places, OneDriver, WorkInv, WorkTypes, Agrees
  <2>2. QED
    BY <2>1, SteersKeeps
<1>20. ASSUME NEW s \in Servers, JournalPromotion(s) PROVE OneDriver'
  <2>1. Steers(s)
    BY <1>20
       DEF JournalPromotion, Note, NoteRefused, NotePart, NotPromoted, Ending, Steers,
           Drives, Places, OneDriver, WorkInv, WorkTypes, Agrees
  <2>2. QED
    BY <2>1, SteersKeeps
<1>21. ASSUME NEW s \in Servers, JournalRefusal(s) PROVE OneDriver'
  <2>1. Steers(s)
    BY <1>21
       DEF JournalRefusal, Note, NoteRefused, NotePart, NotPromoted, Ending, Steers, Drives,
           Places, OneDriver, WorkInv, WorkTypes, Agrees
  <2>2. QED
    BY <2>1, SteersKeeps
<1>22. ASSUME NEW s \in Servers, Advance(s) PROVE OneDriver'
  <2>1. Steers(s)
    BY <1>22
       DEF Advance, Transition, Moves, Return, Blank, Write, WriteRefused, Steers, Drives,
           Places, OneDriver, WorkInv, WorkTypes, Agrees
  <2>2. QED
    BY <2>1, SteersKeeps
<1>23. ASSUME NEW s \in Servers, Freeze(s) PROVE OneDriver'
  <2>1. Steers(s)
    BY <1>23 DEF Freeze, Ending, Steers, Drives, Places, OneDriver, WorkInv, WorkTypes, Agrees
  <2>2. QED
    BY <2>1, SteersKeeps
<1>24. ASSUME NEW s \in Servers, Review(s) PROVE OneDriver'
  <2>1. Steers(s)
    BY <1>24
       DEF Review, Knows, NotPromoted, Ending, Steers, Drives, Places, OneDriver, WorkInv,
           WorkTypes, Agrees
  <2>2. QED
    BY <2>1, SteersKeeps
<1>25. ASSUME NEW s \in Servers, Publish(s) PROVE OneDriver'
  <2>1. Steers(s)
    BY <1>25 DEF Publish, Steers, Drives, Places, OneDriver, WorkInv, WorkTypes, Agrees
  <2>2. QED
    BY <2>1, SteersKeeps
<1>26. ASSUME NEW s \in Servers, Judge(s) PROVE OneDriver'
  <2>1. Steers(s)
    BY <1>26
       DEF Judge, Transition, Moves, Return, Blank, NotPromoted, Ending, Write,
           WriteRefused, Steers, Drives, Places, OneDriver, WorkInv, WorkTypes, Agrees
  <2>2. QED
    BY <2>1, SteersKeeps
<1>27. ASSUME NEW s \in Servers, BeginCleanup(s) PROVE OneDriver'
  <2>1. Steers(s)
    BY <1>27
       DEF BeginCleanup, Note, NoteRefused, NotePart, Finishing, Return, Blank, Steers,
           Drives, Places, OneDriver, WorkInv, WorkTypes, Agrees
  <2>2. QED
    BY <2>1, SteersKeeps
<1>28. ASSUME NEW s \in Servers, CheckCleanup(s) PROVE OneDriver'
  <2>1. Steers(s)
    BY <1>28
       DEF CheckCleanup, CleanedUp, NotCleanedUp, Finishing, Steers, Drives, Places,
           OneDriver, WorkInv, WorkTypes, Agrees
  <2>2. QED
    BY <2>1, SteersKeeps
<1>29. ASSUME NEW s \in Servers, RemoveTree(s) PROVE OneDriver'
  <2>1. Steers(s)
    BY <1>29
       DEF RemoveTree, NotCleanedUp, Finishing, Steers, Drives, Places, OneDriver, WorkInv,
           WorkTypes, Agrees
  <2>2. QED
    BY <2>1, SteersKeeps
<1>30. ASSUME NEW s \in Servers, RemoveRefs(s) PROVE OneDriver'
  <2>1. Steers(s)
    BY <1>30
       DEF RemoveRefs, NotCleanedUp, Finishing, Steers, Drives, Places, OneDriver, WorkInv,
           WorkTypes, Agrees
  <2>2. QED
    BY <2>1, SteersKeeps
<1>31. ASSUME NEW s \in Servers, RemoveOwnership(s) PROVE OneDriver'
  <2>1. Steers(s)
    BY <1>31
       DEF RemoveOwnership, CleanedUp, NotCleanedUp, Finishing, Steers, Drives, Places,
           OneDriver, WorkInv, WorkTypes, Agrees
  <2>2. QED
    BY <2>1, SteersKeeps
<1>32. ASSUME NEW s \in Servers, JournalCleanup(s) PROVE OneDriver'
  <2>1. Steers(s)
    BY <1>32
       DEF JournalCleanup, Note, NoteRefused, NotePart, Finishing, Return, Blank, Steers,
           Drives, Places, OneDriver, WorkInv, WorkTypes, Agrees
  <2>2. QED
    BY <2>1, SteersKeeps
<1>33. ASSUME NEW s \in Servers, EndWorkflow(s) PROVE OneDriver'
  <2>1. Steers(s)
    BY <1>33
       DEF EndWorkflow, Transition, Moves, Return, Blank, Write, WriteRefused, Steers,
           Drives, Places, OneDriver, WorkInv, WorkTypes, Agrees
  <2>2. QED
    BY <2>1, SteersKeeps
<1>34. ASSUME NEW s \in Servers, ReleaseLease(s) PROVE OneDriver'
  <2>1. Steers(s)
    BY <1>34, ServerAssumption
       DEF ReleaseLease, GiveBack, Return, Blank, Steers, Drives, Places, OneDriver,
           WorkInv, WorkTypes, Agrees
  <2>2. QED
    BY <2>1, SteersKeeps
<1>35. ASSUME NEW s \in Servers, Boot(s) PROVE OneDriver'
  <2>1. Steers(s)
    BY <1>35 DEF Boot, Steers, Drives, Places, OneDriver, WorkInv, WorkTypes, Agrees
  <2>2. QED
    BY <2>1, SteersKeeps
<1>36. ASSUME NEW s \in Servers, CutOff(s) PROVE OneDriver'
  <2>1. Steers(s)
    BY <1>36
       DEF CutOff, NotePart, LeasePart, Steers, Drives, Places, OneDriver, WorkInv,
           WorkTypes, Agrees
  <2>2. QED
    BY <2>1, SteersKeeps
<1>37. ASSUME NEW s \in Servers, Exit(s) PROVE OneDriver'
  <2>1. Steers(s)
    BY <1>37, ServerAssumption
       DEF Exit, Blank, Steers, Drives, Places, OneDriver, WorkInv, WorkTypes, Agrees
  <2>2. QED
    BY <2>1, SteersKeeps
<1>38. CASE UserCommits \/ UserEdits \/ UserDecides \/ UNCHANGED vars
  BY <1>38 DEF UserCommits, UserEdits, UserDecides, vars, OneDriver, Drives
<1>39. QED
  BY <1>1, <1>2, <1>3, <1>4, <1>5, <1>6, <1>7, <1>8, <1>9, <1>10, <1>11, <1>12, <1>13, <1>14,
     <1>15, <1>16, <1>17, <1>18, <1>19, <1>20, <1>21, <1>22, <1>23, <1>24, <1>25, <1>26,
     <1>27, <1>28, <1>29, <1>30, <1>31, <1>32, <1>33, <1>34, <1>35, <1>36, <1>37, <1>38 DEF Next

\* Through every exit and every resume at most one server drives the workflow, the one that the
\* lease names, and no lease of a live one is taken from it (acquireLease, adoptLease, releaseLease).
THEOREM OnlyOwnerDrives == Spec => []OneDriver
<1>1. Init => OneDriver
  BY DEF Init, OneDriver, Drives, HandingOver, Absent
<1>2. WorkInv /\ OneDriver /\ [Next]_vars => OneDriver'
  BY OneDriverNext
<1>3. QED
  BY <1>1, <1>2, WorkInvAlways, PTL DEF Spec

-----------------------------------------------------------------------------
(* The commits of the branch *)

Commits == [task : 0..N, run : Nat]

\* Which commits the branch may have, in the words of the state on disk.
Placed(i) ==
  /\ i \in Tasks /\ log[i] = [task |-> i, run |-> st.run[i]]
  /\ i < st.at \/ (i = st.at /\ st.phase \in Halts \cup {"promoting-task"})

BranchFollows ==
  /\ log \in Seq(Commits)
  /\ \A i \in 1..Len(log) : Placed(i) \/ (log[i] = Foreign /\ i = Len(log))

LEMMA BranchFollowsInit == Init => BranchFollows
BY DEF Init, BranchFollows

\* The commit of a promotion.
LEMMA CommitFollows ==
  ASSUME WorkInv, BranchFollows, NEW s \in Servers, Commit(s)
  PROVE  BranchFollows'
<1>1. CASE UNCHANGED log
  BY <1>1 DEF Commit, BranchFollows, Placed
<1>2. CASE log = HeadOf(my[s]) /\ log' = Append(log, Recorded(s))
  <2>1. st = my[s] /\ st' = st /\ st.phase = "promoting-task"
    BY DEF Commit, At, WorkInv, StateLocked, Locking, Agrees, Promoting
  <2>2. st.at \in Tasks /\ st.run \in [Tasks -> 0..MaxRuns]
    BY <2>1 DEF WorkInv, WorkTypes, States, Sound, Working
  <2>3. Len(log) = st.at - 1
    <3>1. DOMAIN log = 1..(st.at - 1)
      BY <1>2, <2>1 DEF HeadOf
    <3>2. DOMAIN log = 1..Len(log) /\ Len(log) \in Nat
      BY DEF BranchFollows
    <3>3. QED
      BY <2>2, <3>1, <3>2 DEF Tasks
  <2>4. Recorded(s) = [task |-> st.at, run |-> st.run[st.at]]
    BY <2>1 DEF Recorded, Task
  <2>5. Recorded(s) \in Commits
    BY <2>2, <2>4, CountAssumption DEF Commits, Tasks
  <2>6. log' \in Seq(Commits) /\ Len(log') = st.at
    BY <1>2, <2>2, <2>3, <2>5 DEF BranchFollows, Tasks
  <2>7. ASSUME NEW i \in 1..st.at PROVE Placed(i)'
    <3>1. CASE i = st.at
      <4>1. log'[i] = Recorded(s)
        BY <1>2, <2>2, <2>3, <3>1 DEF BranchFollows, Tasks
      <4>2. QED
        BY <2>1, <2>2, <2>4, <3>1, <4>1 DEF Placed
    <3>2. CASE i # st.at
      <4>1. i \in 1..(st.at - 1) /\ i \in Tasks /\ i < st.at
        BY <2>2, <3>2, CountAssumption DEF Tasks
      <4>2. log[i] = [task |-> i, run |-> st.run[i]]
        BY <1>2, <2>1, <4>1 DEF HeadOf
      <4>3. log'[i] = log[i]
        BY <1>2, <2>2, <2>3, <4>1 DEF BranchFollows, Tasks
      <4>4. QED
        BY <2>1, <4>1, <4>2, <4>3 DEF Placed
    <3>3. QED
      BY <3>1, <3>2
  <2>8. QED
    BY <2>6, <2>7 DEF BranchFollows
<1>3. QED
  BY <1>1, <1>2 DEF Commit

\* A transition to a state that places the same commits.
LEMMA TransitionFollows ==
  ASSUME BranchFollows, NEW s \in Servers, NEW next, NEW place, Transition(s, next, place),
         my[s].rev = st.rev /\ <<st.phase, next.phase>> \in Edges =>
           next \in States /\ \A i \in Tasks : i < st.at \/ (i = st.at /\ st.phase = "promoting-task") =>
             next.run[i] = st.run[i] /\ (i < next.at \/ (i = next.at /\ next.phase \in Halts))
  PROVE  BranchFollows'
<1>1. log' = log
  BY DEF Transition, git
<1>2. CASE st' = st
  BY <1>1, <1>2 DEF BranchFollows, Placed
<1>3. CASE Moves(s, next, place)
  <2>1. /\ st'.at = next.at /\ st'.run = next.run /\ st'.phase = next.phase
        /\ st.rev = my[s].rev /\ <<st.phase, next.phase>> \in Edges
    BY <1>3 DEF Moves, Write, States
  <2>2. st.phase \notin Halts
    BY <2>1 DEF Edges, Active, Halts
  <2>3. ASSUME NEW i \in 1..Len(log), Placed(i) PROVE Placed(i)'
    BY <1>1, <2>1, <2>2, <2>3 DEF Placed
  <2>4. QED
    BY <1>1, <2>3 DEF BranchFollows
<1>4. QED
  BY <1>2, <1>3 DEF Transition, WriteRefused, store

LEMMA StaysOnBranch ==
  ASSUME NEW s \in Servers, Staying(s), ~Commit(s)
  PROVE  UNCHANGED <<st, log>> \/ log' = <<>>
<1> USE DEF store, git
<1>1. StartBranch(s) => UNCHANGED <<st, log>> \/ log' = <<>>
  BY DEF StartBranch
<1>2. AcquireLease(s) => UNCHANGED <<st, log>> \/ log' = <<>>
  BY DEF AcquireLease, Acquire, LeasePart
<1>3. RecordSpec(s) => UNCHANGED <<st, log>> \/ log' = <<>>
  BY DEF RecordSpec, Note, NoteRefused, NotePart
<1>4. Undone(s) => UNCHANGED <<st, log>> \/ log' = <<>>
  BY DEF Undone
<1>5. ReadState(s) => UNCHANGED <<st, log>> \/ log' = <<>>
  BY DEF ReadState
<1>6. AdoptLease(s) => UNCHANGED <<st, log>> \/ log' = <<>>
  BY DEF AdoptLease, Adopt, LeasePart
<1>7. ProveResume(s) => UNCHANGED <<st, log>> \/ log' = <<>>
  BY DEF ProveResume
<1>8. Abort(s) => UNCHANGED <<st, log>> \/ log' = <<>>
  BY DEF Abort
<1>9. RunPipeline(s) => UNCHANGED <<st, log>> \/ log' = <<>>
  BY DEF RunPipeline
<1>10. BeginPromotion(s) => UNCHANGED <<st, log>> \/ log' = <<>>
  BY DEF BeginPromotion, Note, NoteRefused, NotePart
<1>11. TakeCheckout(s) => UNCHANGED <<st, log>> \/ log' = <<>>
  BY DEF TakeCheckout
<1>12. LockState(s) => UNCHANGED <<st, log>> \/ log' = <<>>
  BY DEF LockState
<1>13. Stage(s) => UNCHANGED <<st, log>> \/ log' = <<>>
  BY DEF Stage
<1>14. Accept(s) => UNCHANGED <<st, log>> \/ log' = <<>>
  BY DEF Accept
<1>15. LeaveState(s) => UNCHANGED <<st, log>> \/ log' = <<>>
  BY DEF LeaveState
<1>16. JournalPromotion(s) => UNCHANGED <<st, log>> \/ log' = <<>>
  BY DEF JournalPromotion, Note, NoteRefused, NotePart
<1>17. JournalRefusal(s) => UNCHANGED <<st, log>> \/ log' = <<>>
  BY DEF JournalRefusal, Note, NoteRefused, NotePart
<1>18. Freeze(s) => UNCHANGED <<st, log>> \/ log' = <<>>
  BY DEF Freeze
<1>19. Review(s) => UNCHANGED <<st, log>> \/ log' = <<>>
  BY DEF Review
<1>20. Publish(s) => UNCHANGED <<st, log>> \/ log' = <<>>
  BY DEF Publish
<1>21. BeginCleanup(s) => UNCHANGED <<st, log>> \/ log' = <<>>
  BY DEF BeginCleanup, Note, NoteRefused, NotePart
<1>22. CheckCleanup(s) => UNCHANGED <<st, log>> \/ log' = <<>>
  BY DEF CheckCleanup
<1>23. RemoveTree(s) => UNCHANGED <<st, log>> \/ log' = <<>>
  BY DEF RemoveTree
<1>24. RemoveRefs(s) => UNCHANGED <<st, log>> \/ log' = <<>>
  BY DEF RemoveRefs
<1>25. RemoveOwnership(s) => UNCHANGED <<st, log>> \/ log' = <<>>
  BY DEF RemoveOwnership
<1>26. JournalCleanup(s) => UNCHANGED <<st, log>> \/ log' = <<>>
  BY DEF JournalCleanup, Note, NoteRefused, NotePart
<1>27. ReleaseLease(s) => UNCHANGED <<st, log>> \/ log' = <<>>
  BY DEF ReleaseLease, GiveBack
<1>28. Boot(s) => UNCHANGED <<st, log>> \/ log' = <<>>
  BY DEF Boot
<1>29. CutOff(s) => UNCHANGED <<st, log>> \/ log' = <<>>
  BY DEF CutOff, NotePart, LeasePart
<1>30. Exit(s) => UNCHANGED <<st, log>> \/ log' = <<>>
  BY DEF Exit
<1>31. QED
  BY <1>1, <1>2, <1>3, <1>4, <1>5, <1>6, <1>7, <1>8, <1>9, <1>10, <1>11, <1>12, <1>13, <1>14,
     <1>15, <1>16, <1>17, <1>18, <1>19, <1>20, <1>21, <1>22, <1>23, <1>24, <1>25, <1>26,
     <1>27, <1>28, <1>29, <1>30 DEF Staying
LEMMA BranchFollowsNext == WorkInv /\ EndTypes /\ BranchFollows /\ [Next]_vars => BranchFollows'
<1> SUFFICES ASSUME WorkInv, EndTypes, BranchFollows, [Next]_vars PROVE BranchFollows'
  OBVIOUS
<1> USE DEF At, Go, Step, store, git, evidence, local, InPhase
<1>1. CASE UNCHANGED <<st, log>>
  BY <1>1 DEF BranchFollows, Placed
<1>2. CASE log' = <<>>
  BY <1>2 DEF BranchFollows
<1>3. ASSUME NEW s \in Servers, Staying(s), ~Commit(s) PROVE BranchFollows'
  BY <1>1, <1>2, <1>3, StaysOnBranch
<1>4. ASSUME NEW s \in Servers, CreateState(s) PROVE BranchFollows'
  <2>1. CASE st' = st
    BY <1>1, <1>4, <2>1 DEF CreateState
  <2>2. CASE Create
    <3>1. /\ st.phase = "absent" /\ log' = log
          /\ st'.at = st.at /\ st'.run = st.run
      BY <1>4, <2>2 DEF CreateState, Create, WorkInv, WorkTypes, States
    <3>2. QED
      BY <3>1 DEF BranchFollows, Placed, Halts
  <2>3. QED
    BY <1>4, <2>1, <2>2 DEF CreateState
<1>5. ASSUME NEW s \in Servers, BeginTask(s) PROVE BranchFollows'
  <2> DEFINE next == [st EXCEPT !.phase = "running-task"]
  <2>1. next \in States /\ next.at = st.at /\ next.run = st.run /\ Transition(s, next, "drive")
    BY <1>5 DEF BeginTask, WorkInv, WorkTypes, States, Active
  <2>2. my[s].rev = st.rev => st.phase = "preflighting"
    BY <1>5 DEF BeginTask, WorkInv, Known
  <2>3. QED
    BY <2>1, <2>2, TransitionFollows
<1>6. ASSUME NEW s \in Servers, RecordRun(s) PROVE BranchFollows'
  <2> DEFINE next == [st EXCEPT !.phase = "promoting-task", !.run[Task(s)] = cand[s]]
  <2>1. next \in States /\ next.at = st.at /\ Transition(s, next, "drive")
        /\ \A i \in Tasks : i # Task(s) => next.run[i] = st.run[i]
    BY <1>6 DEF RecordRun, WorkInv, WorkTypes, States, Active
  <2>2. my[s].rev = st.rev => st.phase = "running-task" /\ st.at = Task(s)
    BY <1>6 DEF RecordRun, WorkInv, Known, Agrees, Task
  <2> HIDE DEF next
  <2>3. my[s].rev = st.rev => \A i \in Tasks : i < st.at => next.run[i] = st.run[i]
    BY <2>1, <2>2 DEF Tasks
  <2>4. QED
    BY <2>1, <2>2, <2>3, TransitionFollows
<1>7. ASSUME NEW s \in Servers, Advance(s) PROVE BranchFollows'
  <2> DEFINE next == [st EXCEPT !.phase = IF Task(s) = N THEN "final-review" ELSE "running-task",
                                !.at = Task(s) + 1]
  <2>1. my[s].at \in Tasks /\ my[s].phase = "promoting-task"
    BY <1>7 DEF Advance, WorkInv, Known, Sound, Agrees, Promoting, Working
  <2>2. Task(s) + 1 \in 1..(N + 1) /\ Task(s) \in Nat
    BY <2>1, CountAssumption DEF Task, Tasks
  <2>3. Transition(s, next, "drive")
    BY <1>7 DEF Advance
  <2>4. next \in States /\ next.at = Task(s) + 1 /\ next.run = st.run
    BY <2>2 DEF WorkInv, WorkTypes, States, Active
  <2>5. my[s].rev = st.rev => st.at = Task(s)
    BY <2>1 DEF WorkInv, Known, Task
  <2> HIDE DEF next
  <2>6. my[s].rev = st.rev => \A i \in Tasks : i < st.at \/ i = st.at => i < next.at
    BY <2>2, <2>4, <2>5 DEF Tasks
  <2>7. QED
    BY <2>3, <2>4, <2>6, TransitionFollows
<1>8. ASSUME NEW s \in Servers, Judge(s) PROVE BranchFollows'
  <2>1. CASE UNCHANGED store
    BY <1>1, <1>8, <2>1 DEF Judge, Transition
  <2> DEFINE next == [st EXCEPT !.phase = "cleaning-up", !.gate = "eligible"]
  <2>2. CASE Transition(s, next, "drive")
    <3>1. next \in States /\ next.at = st.at /\ next.run = st.run
      BY DEF WorkInv, WorkTypes, States, Active, Results
    <3>2. <<st.phase, next.phase>> \in Edges => st.phase = "final-review"
      BY DEF Edges, Active, Halts, WorkInv, WorkTypes, States
    <3>3. QED
      BY <2>2, <3>1, <3>2, TransitionFollows
  <2>3. QED
    BY <1>8, <2>1, <2>2 DEF Judge
<1>9. ASSUME NEW s \in Servers, EndWorkflow(s) PROVE BranchFollows'
  <2> DEFINE next == [st EXCEPT !.phase = why[s],
                                !.gate = IF verdict[s] = "none" THEN @ ELSE verdict[s]]
  <2>1. Transition(s, next, "release") /\ next.at = st.at /\ next.run = st.run /\ next.phase = why[s]
    BY <1>9 DEF EndWorkflow, WorkInv, WorkTypes, States
  <2>2. <<st.phase, why[s]>> \in Edges =>
          why[s] \in Active \cup Terminal
    BY DEF Edges, Active, Terminal, Halts
  <2>3. <<st.phase, why[s]>> \in Edges => next \in States
    BY <2>2 DEF EndTypes, WorkInv, WorkTypes, States, Results
  <2> HIDE DEF next
  <2>4. <<st.phase, next.phase>> \in Edges => (st.phase = "promoting-task" => next.phase \in Halts)
    BY <2>1, <2>2 DEF EndTypes, Edges, Active, Terminal, Halts
  <2>5. QED
    BY <2>1, <2>3, <2>4, TransitionFollows
<1>10. CASE UserCommits
  <2>1. log' = Append(log, Foreign) /\ st' = st
    BY <1>10 DEF UserCommits
  <2>2. Foreign \in Commits /\ Len(log) \in Nat
    BY CountAssumption DEF Foreign, Commits, BranchFollows
  <2>3. log' \in Seq(Commits) /\ Len(log') = Len(log) + 1 /\ log'[Len(log')] = Foreign
    BY <2>1, <2>2 DEF BranchFollows
  <2>4. ASSUME NEW i \in 1..Len(log) PROVE Placed(i)'
    <3>1. Placed(i)
      BY <1>10 DEF UserCommits, BranchFollows
    <3>2. log'[i] = log[i]
      BY <2>1, <2>2 DEF BranchFollows
    <3>3. QED
      BY <2>1, <3>1, <3>2 DEF Placed
  <2>5. QED
    BY <2>2, <2>3, <2>4 DEF BranchFollows
<1>11. CASE UserEdits \/ UserDecides \/ UNCHANGED vars
  BY <1>1, <1>11 DEF UserEdits, UserDecides, vars
<1>12. QED
  BY <1>3, <1>4, <1>5, <1>6, <1>7, <1>8, <1>9, <1>10, <1>11, CommitFollows DEF Next, Staying

\* However often a promotion is done again, by whichever server, the branch has at most one commit
\* for each task, in the order of the tasks and of the run its state records, and none of the
\* workflow's above somebody else's (CandidatePromoter.promote).
THEOREM PromotionsInOrder == Spec => []PromotedInOrder
<1>1. BranchFollows => PromotedInOrder
  BY DEF BranchFollows, Placed, PromotedInOrder
<1>2. QED
  BY <1>1, BranchFollowsInit, BranchFollowsNext, WorkInvAlways, PTL DEF Spec

-----------------------------------------------------------------------------
(* The journal and its checkpoint *)

\* One server starts the workflow, once.
Starting == {"create", "acquire", "beginSpec", "endSpec"}
OneStart ==
  /\ intents \in [Keys -> {"none", "begun"} \cup Ended]
  /\ own = "new" => (\A s \in Servers : pc[s] \notin Starting) /\ intents[SpecKey] = "none"
  /\ \A s, o \in Servers : pc[s] \in Starting /\ pc[o] \in Starting => s = o
  /\ \A s \in Servers : pc[s] \in {"create", "acquire", "beginSpec"} => intents[SpecKey] \notin Ended

\* The journal changes by one entry, and none is undone.
Entered(key, event) ==
  /\ intents' = [intents EXCEPT ![key] = event]
  /\ key \in Keys /\ event \in {"begun"} \cup Ended
  /\ event \in Ended \/ intents[key] \notin Ended

Grows == intents' = intents \/ \E key \in Keys, event \in {"begun"} \cup Ended : Entered(key, event)

LEMMA KeysFinite == IsFiniteSet(Keys)
BY FS_Interval, CountAssumption DEF Keys, SpecKey, CleanupKey

LEMMA EntriesCount ==
  ASSUME NEW journal
  PROVE  Entries(journal) \in Nat
<1>1. IsFiniteSet({k \in Keys : journal[k] # "none"}) /\ IsFiniteSet({k \in Keys : journal[k] \in Ended})
  BY KeysFinite, FS_Subset
<1>2. /\ Cardinality({k \in Keys : journal[k] # "none"}) \in Nat
      /\ Cardinality({k \in Keys : journal[k] \in Ended}) \in Nat
  BY <1>1, FS_CardinalityType
<1>3. QED
  BY <1>2 DEF Entries

LEMMA EntriesGrow ==
  ASSUME intents \in [Keys -> {"none", "begun"} \cup Ended], Grows
  PROVE  /\ intents' \in [Keys -> {"none", "begun"} \cup Ended]
         /\ Entries(intents) <= Entries(intents')
<1> DEFINE Any(journal) == {k \in Keys : journal[k] # "none"}
           Over(journal) == {k \in Keys : journal[k] \in Ended}
<1>1. intents' \in [Keys -> {"none", "begun"} \cup Ended]
  BY DEF Grows, Entered
<1>2. Any(intents) \subseteq Any(intents') /\ Over(intents) \subseteq Over(intents')
  BY DEF Grows, Entered, Ended
<1>3. IsFiniteSet(Any(intents')) /\ IsFiniteSet(Over(intents'))
  BY KeysFinite, FS_Subset
<1>4. /\ Entries(intents) = Cardinality(Any(intents)) + Cardinality(Over(intents))
      /\ Entries(intents') = Cardinality(Any(intents')) + Cardinality(Over(intents'))
  BY DEF Entries
<1> HIDE DEF Any, Over
<1>5. /\ Cardinality(Any(intents)) \in Nat /\ Cardinality(Over(intents)) \in Nat
      /\ Cardinality(Any(intents')) \in Nat /\ Cardinality(Over(intents')) \in Nat
      /\ Cardinality(Any(intents)) <= Cardinality(Any(intents'))
      /\ Cardinality(Over(intents)) <= Cardinality(Over(intents'))
  BY <1>2, <1>3, FS_Subset, FS_CardinalityType
<1>6. QED
  BY <1>1, <1>4, <1>5

CoverInv == OneStart /\ cp \in Nat /\ JournalCovered

LEMMA CoverInit == Init => CoverInv
<1> SUFFICES ASSUME Init PROVE CoverInv
  OBVIOUS
<1>1. OneStart
  BY CountAssumption DEF Init, StoreInit, OneStart, Starting, Keys, SpecKey, CleanupKey
<1>2. Entries(intents) \in Nat
  BY EntriesCount
<1>3. QED
  BY <1>1, <1>2 DEF Init, StoreInit, CoverInv, JournalCovered

\* A step that adds to the journal, if anything, and whose checkpoint is the old one or covers
\* the journal.
LEMMA CoverKeeps ==
  ASSUME CoverInv, Grows, cp' = cp \/ cp' = Entries(intents')
  PROVE  cp' \in Nat /\ JournalCovered'
BY EntriesGrow, EntriesCount DEF CoverInv, OneStart, JournalCovered

\* A step of s that does not start the workflow.
LEMMA StartKeeps ==
  ASSUME WorkInv, OneStart, Grows, NEW s \in Servers, pc' = [pc EXCEPT ![s] = pc'[s]],
         pc'[s] \in Starting => pc[s] \in Starting,
         pc'[s] \in {"create", "acquire", "beginSpec"} =>
           pc[s] \in {"create", "acquire", "beginSpec"},
         own' = own \/ own' # "new",
         intents'[SpecKey] # intents[SpecKey] =>
           pc[s] \in Starting /\ (pc'[s] \in {"create", "acquire", "beginSpec"} => intents'[SpecKey] \notin Ended)
  PROVE  OneStart'
<1>1. intents' \in [Keys -> {"none", "begun"} \cup Ended]
  BY EntriesGrow DEF OneStart
<1>2. \A o \in Servers : pc'[o] \in Starting => pc[o] \in Starting
  BY DEF WorkInv, WorkTypes
<1>3. \A o \in Servers : pc'[o] \in {"create", "acquire", "beginSpec"} => intents'[SpecKey] \notin Ended
  BY DEF WorkInv, WorkTypes, OneStart, Starting
<1>4. own' = "new" => (\A o \in Servers : pc'[o] \notin Starting) /\ intents'[SpecKey] = "none"
  BY <1>2 DEF OneStart
<1>5. QED
  BY <1>1, <1>2, <1>3, <1>4 DEF OneStart

\* Which entries a server writes.
LEMMA KeysKnown ==
  ASSUME WorkInv, NEW s \in Servers
  PROVE  /\ SpecKey \in Keys /\ CleanupKey \in Keys /\ CleanupKey # SpecKey
         /\ my[s].phase = "promoting-task" => Task(s) \in Keys /\ Task(s) # SpecKey
<1>1. my[s].phase = "promoting-task" => my[s].at \in Tasks
  BY DEF WorkInv, Known, Sound, Working
<1>2. QED
  BY <1>1, CountAssumption DEF Task, Tasks, Keys, SpecKey, CleanupKey

LEMMA StaysCover ==
  ASSUME WorkInv, EndTypes, CoverInv, NEW s \in Servers, Staying(s)
  PROVE  CoverInv'
<1> USE DEF At, Go, Step, store, git, evidence, local, InPhase
<1>1. ASSUME Grows, cp' = cp \/ cp' = Entries(intents'),
             pc' = [pc EXCEPT ![s] = pc'[s]],
             pc'[s] \in Starting => pc[s] \in Starting,
             pc'[s] \in {"create", "acquire", "beginSpec"} =>
               pc[s] \in {"create", "acquire", "beginSpec"},
             own' = own \/ own' # "new",
             intents'[SpecKey] # intents[SpecKey] =>
               pc[s] \in Starting /\ (pc'[s] \in {"create", "acquire", "beginSpec"} => intents'[SpecKey] \notin Ended)
      PROVE  CoverInv'
  BY <1>1, CoverKeeps, StartKeeps DEF CoverInv
<1>2. AcquireLease(s) => CoverInv'
  BY <1>1 DEF AcquireLease, Acquire, LeasePart, Grows, Starting, WorkInv, WorkTypes
<1>3. Undone(s) => CoverInv'
  BY <1>1 DEF Undone, Ending, Return, Blank, Grows, Starting, WorkInv, WorkTypes
<1>4. ReadState(s) => CoverInv'
  BY <1>1 DEF ReadState, Grows, Starting, WorkInv, WorkTypes
<1>5. AdoptLease(s) => CoverInv'
  BY <1>1 DEF AdoptLease, Adopt, LeasePart, Return, Blank, Grows, Starting, WorkInv, WorkTypes
<1>6. ProveResume(s) => CoverInv'
  BY <1>1 DEF ProveResume, Return, Blank, Grows, Starting, WorkInv, WorkTypes
<1>7. Abort(s) => CoverInv'
  BY <1>1 DEF Abort, Ending, Grows, Starting, WorkInv, WorkTypes
<1>8. RunPipeline(s) => CoverInv'
  BY <1>1 DEF RunPipeline, Ending, Grows, Starting, WorkInv, WorkTypes
<1>9. TakeCheckout(s) => CoverInv'
  BY <1>1 DEF TakeCheckout, Grows, Starting, WorkInv, WorkTypes
<1>10. LockState(s) => CoverInv'
  BY <1>1 DEF LockState, Release, NotPromoted, Ending, Grows, Starting, WorkInv, WorkTypes
<1>11. Stage(s) => CoverInv'
  BY <1>1
     DEF Stage, Leave, LeaveJournalled, NotPromoted, Ending, Grows, Starting, WorkInv,
         WorkTypes
<1>12. Accept(s) => CoverInv'
  BY <1>1 DEF Accept, LeaveJournalled, Grows, Starting, WorkInv, WorkTypes
<1>13. Commit(s) => CoverInv'
  BY <1>1
     DEF Commit, Leave, LeaveJournalled, NotPromoted, Ending, Grows, Starting, WorkInv,
         WorkTypes
<1>14. LeaveState(s) => CoverInv'
  BY <1>1 DEF LeaveState, Grows, Starting, WorkInv, WorkTypes
<1>15. Freeze(s) => CoverInv'
  BY <1>1 DEF Freeze, Ending, Grows, Starting, WorkInv, WorkTypes
<1>16. Review(s) => CoverInv'
  BY <1>1 DEF Review, Knows, NotPromoted, Ending, Grows, Starting, WorkInv, WorkTypes
<1>17. Publish(s) => CoverInv'
  BY <1>1 DEF Publish, Grows, Starting, WorkInv, WorkTypes
<1>18. CheckCleanup(s) => CoverInv'
  BY <1>1
     DEF CheckCleanup, CleanedUp, NotCleanedUp, Finishing, Grows, Starting, WorkInv, WorkTypes
<1>19. RemoveTree(s) => CoverInv'
  BY <1>1 DEF RemoveTree, NotCleanedUp, Finishing, Grows, Starting, WorkInv, WorkTypes
<1>20. RemoveRefs(s) => CoverInv'
  BY <1>1 DEF RemoveRefs, NotCleanedUp, Finishing, Grows, Starting, WorkInv, WorkTypes
<1>21. RemoveOwnership(s) => CoverInv'
  BY <1>1
     DEF RemoveOwnership, CleanedUp, NotCleanedUp, Finishing, Grows, Starting, WorkInv,
         WorkTypes
<1>22. ReleaseLease(s) => CoverInv'
  BY <1>1 DEF ReleaseLease, GiveBack, Return, Blank, Grows, Starting, WorkInv, WorkTypes
<1>23. Boot(s) => CoverInv'
  BY <1>1 DEF Boot, Grows, Starting, WorkInv, WorkTypes
<1>24. Exit(s) => CoverInv'
  BY <1>1, ServerAssumption DEF Exit, Blank, Grows, Starting, WorkInv, WorkTypes
<1>25. BeginPromotion(s) => CoverInv'
  <2> SUFFICES ASSUME BeginPromotion(s) PROVE CoverInv'
    OBVIOUS
  <2>1. Grows /\ intents'[SpecKey] = intents[SpecKey]
    BY KeysKnown
       DEF BeginPromotion, CoverInv, OneStart, Note, NoteRefused, NotePart, Grows, Entered,
           Ended, WorkInv
  <2>2. cp' = cp \/ cp' = Entries(intents')
    BY DEF BeginPromotion, Note, NoteRefused, NotePart
  <2>3. /\ pc' = [pc EXCEPT ![s] = pc'[s]] /\ pc'[s] \notin Starting /\ own' = own
    BY DEF BeginPromotion, Note, NoteRefused, NotePart, NotPromoted, Ending, Starting,
       WorkInv, WorkTypes
  <2>4. QED
    BY <1>1, <2>1, <2>2, <2>3 DEF Starting
<1>26. JournalPromotion(s) => CoverInv'
  <2> SUFFICES ASSUME JournalPromotion(s) PROVE CoverInv'
    OBVIOUS
  <2>1. Grows /\ intents'[SpecKey] = intents[SpecKey]
    BY KeysKnown
       DEF JournalPromotion, CoverInv, OneStart, Note, NoteRefused, NotePart, Grows,
           Entered, Ended, WorkInv, Agrees, Promoting
  <2>2. cp' = cp \/ cp' = Entries(intents')
    BY DEF JournalPromotion, Note, NoteRefused, NotePart
  <2>3. /\ pc' = [pc EXCEPT ![s] = pc'[s]] /\ pc'[s] \notin Starting /\ own' = own
    BY DEF JournalPromotion, Note, NoteRefused, NotePart, NotPromoted, Ending, Starting,
       WorkInv, WorkTypes
  <2>4. QED
    BY <1>1, <2>1, <2>2, <2>3 DEF Starting
<1>27. JournalRefusal(s) => CoverInv'
  <2> SUFFICES ASSUME JournalRefusal(s) PROVE CoverInv'
    OBVIOUS
  <2>1. Grows /\ intents'[SpecKey] = intents[SpecKey]
    BY KeysKnown
       DEF JournalRefusal, CoverInv, OneStart, Note, NoteRefused, NotePart, Grows, Entered,
           Ended, WorkInv, Agrees, Promoting
  <2>2. cp' = cp \/ cp' = Entries(intents')
    BY DEF JournalRefusal, Note, NoteRefused, NotePart
  <2>3. /\ pc' = [pc EXCEPT ![s] = pc'[s]] /\ pc'[s] \notin Starting /\ own' = own
    BY DEF JournalRefusal, Note, NoteRefused, NotePart, NotPromoted, Ending, Starting,
       WorkInv, WorkTypes
  <2>4. QED
    BY <1>1, <2>1, <2>2, <2>3 DEF Starting
<1>28. BeginCleanup(s) => CoverInv'
  <2> SUFFICES ASSUME BeginCleanup(s) PROVE CoverInv'
    OBVIOUS
  <2>1. Grows /\ intents'[SpecKey] = intents[SpecKey]
    BY KeysKnown
       DEF BeginCleanup, CoverInv, OneStart, Note, NoteRefused, NotePart, Grows, Entered,
           Ended, WorkInv
  <2>2. cp' = cp \/ cp' = Entries(intents')
    BY DEF BeginCleanup, Note, NoteRefused, NotePart
  <2>3. /\ pc' = [pc EXCEPT ![s] = pc'[s]] /\ pc'[s] \notin Starting /\ own' = own
    BY DEF BeginCleanup, Note, NoteRefused, NotePart, Finishing, Return, Blank, Starting,
       WorkInv, WorkTypes
  <2>4. QED
    BY <1>1, <2>1, <2>2, <2>3 DEF Starting
<1>29. JournalCleanup(s) => CoverInv'
  <2> SUFFICES ASSUME JournalCleanup(s) PROVE CoverInv'
    OBVIOUS
  <2>1. Grows /\ intents'[SpecKey] = intents[SpecKey]
    BY KeysKnown
       DEF JournalCleanup, CoverInv, OneStart, Note, NoteRefused, NotePart, Grows, Entered,
           Ended, WorkInv
  <2>2. cp' = cp \/ cp' = Entries(intents')
    BY DEF JournalCleanup, Note, NoteRefused, NotePart
  <2>3. /\ pc' = [pc EXCEPT ![s] = pc'[s]] /\ pc'[s] \notin Starting /\ own' = own
    BY DEF JournalCleanup, Note, NoteRefused, NotePart, Finishing, Return, Blank, Starting,
       WorkInv, WorkTypes
  <2>4. QED
    BY <1>1, <2>1, <2>2, <2>3 DEF Starting
<1>30. RecordSpec(s) => CoverInv'
  <2> SUFFICES ASSUME RecordSpec(s) PROVE CoverInv'
    OBVIOUS
  <2>1. pc[s] \in Starting /\ own' = own /\ (cp' = cp \/ cp' = Entries(intents'))
    BY DEF RecordSpec, Note, NoteRefused, NotePart, Starting
  <2>2. Grows
    BY KeysKnown
       DEF RecordSpec, Note, NoteRefused, NotePart, Grows, Entered, Ended, CoverInv,
           OneStart
  <2>3. pc' = [pc EXCEPT ![s] = pc'[s]] /\ pc'[s] \notin {"create", "acquire", "beginSpec"}
    BY DEF RecordSpec, WorkInv, WorkTypes
  <2>4. QED
    BY <1>1, <2>1, <2>2, <2>3
<1>31. CutOff(s) => CoverInv'
  <2> SUFFICES ASSUME CutOff(s) PROVE CoverInv'
    OBVIOUS
  <2>1. pc' = [pc EXCEPT ![s] = "dying"] /\ own' = own /\ cp' = cp
    BY DEF CutOff, NotePart, LeasePart
  <2>2. CASE intents' = intents
    BY <1>1, <2>1, <2>2 DEF Grows, Starting, WorkInv, WorkTypes
  <2>3. CASE \E e \in Writing(s) : intents[e[2]] \notin Ended /\ NotePart(e[2], e[3])
    <3>1. PICK e \in Writing(s) : intents[e[2]] \notin Ended /\ NotePart(e[2], e[3])
      BY <2>3
    <3>2. /\ e[2] \in Keys /\ e[3] \in {"begun"} \cup Ended
          /\ e[2] = SpecKey => pc[s] \in Starting
      BY KeysKnown DEF Writing, Ended, Starting, WorkInv, Agrees, Promoting
    <3>3. CASE intents' = [intents EXCEPT ![e[2]] = e[3]]
      <4>1. Grows
        BY <3>1, <3>2, <3>3 DEF Grows, Entered
      <4>2. intents'[SpecKey] # intents[SpecKey] => pc[s] \in Starting
        BY <3>2, <3>3, KeysKnown DEF CoverInv, OneStart
      <4>3. QED
        BY <1>1, <2>1, <4>1, <4>2 DEF Starting, WorkInv, WorkTypes
    <3>4. QED
      BY <2>2, <3>1, <3>3 DEF NotePart
  <2>4. QED
    BY <2>2, <2>3 DEF CutOff, LeasePart
<1>32. StartBranch(s) => CoverInv'
  <2> SUFFICES ASSUME StartBranch(s) PROVE CoverInv'
    OBVIOUS
  <2>1. own = "new" /\ own' = s /\ pc' = [pc EXCEPT ![s] = "create"] /\ UNCHANGED <<intents, cp>>
    BY DEF StartBranch
  <2>2. \A o \in Servers : pc'[o] \in Starting => o = s
    BY <2>1 DEF CoverInv, OneStart, WorkInv, WorkTypes
  <2>3. OneStart'
    BY <2>1, <2>2, ServerAssumption DEF CoverInv, OneStart, Ended, Starting
  <2>4. QED
    BY <2>1, <2>3 DEF CoverInv, JournalCovered
<1>33. QED
  BY <1>2, <1>3, <1>4, <1>5, <1>6, <1>7, <1>8, <1>9, <1>10, <1>11, <1>12, <1>13, <1>14, <1>15,
     <1>16, <1>17, <1>18, <1>19, <1>20, <1>21, <1>22, <1>23, <1>24, <1>25, <1>26, <1>27,
     <1>28, <1>29, <1>30, <1>31, <1>32 DEF Staying

LEMMA MovesCover ==
  ASSUME WorkInv, CoverInv, NEW s \in Servers, Moving(s)
  PROVE  CoverInv'
<1> USE DEF At, Go, Step, store, git, evidence, local, InPhase
<1>1. intents' = intents /\ (cp' = cp \/ cp' = Entries(intents'))
  BY DEF Moving, CreateState, Create, BeginTask, RecordRun, Advance, Judge, EndWorkflow,
     Transition, Moves, Write, WriteRefused
<1>2. own' = own /\ pc' = [pc EXCEPT ![s] = pc'[s]]
  BY DEF Moving, CreateState, Create, BeginTask, RecordRun, Advance, Judge, EndWorkflow,
     Transition, Moves, Return, NotPromoted, Ending, WorkInv, WorkTypes
<1>3. /\ pc'[s] \in Starting => pc[s] \in Starting
      /\ pc'[s] \in {"create", "acquire", "beginSpec"} => pc[s] \in {"create", "acquire", "beginSpec"}
  BY DEF Moving, CreateState, Create, BeginTask, RecordRun, Advance, Judge, EndWorkflow,
     Transition, Moves, Return, NotPromoted, Ending, WorkInv, WorkTypes, Starting
<1>4. OneStart'
  BY <1>1, <1>2, <1>3, StartKeeps DEF CoverInv, Grows
<1>5. QED
  BY <1>1, <1>4, CoverKeeps DEF CoverInv, Grows

LEMMA CoverAlways == Spec => []CoverInv
<1>1. WorkInv /\ EndTypes /\ CoverInv /\ [Next]_vars => CoverInv'
  <2> SUFFICES ASSUME WorkInv, EndTypes, CoverInv, [Next]_vars PROVE CoverInv'
    OBVIOUS
  <2>1. CASE UNCHANGED <<intents, cp, own, pc>>
    BY <2>1 DEF CoverInv, OneStart, JournalCovered
  <2>2. UserCommits \/ UserEdits \/ UserDecides \/ UNCHANGED vars => UNCHANGED <<intents, cp, own, pc>>
    BY DEF UserCommits, UserEdits, UserDecides, vars, store, git
  <2>3. QED
    BY <2>1, <2>2, StaysCover, MovesCover DEF Next, Staying, Moving
<1>2. QED
  BY <1>1, CoverInit, WorkInvAlways, PTL DEF Spec

\* No exit in the middle of an append leaves a workflow whose state is ahead of its journal, which
\* nothing could read again: an entry is written before the checkpoint that covers it, and no entry
\* is undone, because only one server starts the workflow (withJournalCheckpoint).
THEOREM CheckpointCovered == Spec => []JournalCovered
<1>1. CoverInv => JournalCovered
  BY DEF CoverInv
<1>2. QED
  BY <1>1, CoverAlways, PTL

-----------------------------------------------------------------------------
(* The verdict *)

\* Whoever knows a verdict, other than to publish it, knows the published one.
Published(s) ==
  /\ verdict[s] # "none" => verdict[s] = report \/ pc[s] \in {"publish", "dying"}
  /\ pc[s] \in {"publish", "judged"} => verdict[s] # "none"

VerdictInv == VerdictStands /\ \A s \in Servers : Published(s)

LEMMA VerdictInit == Init => VerdictInv
BY DEF Init, StoreInit, Absent, VerdictInv, VerdictStands, Published

\* A step that publishes nothing and leaves the state on disk.
LEMMA SilentKeeps ==
  ASSUME WorkInv, EndTypes, VerdictInv, NEW s \in Servers, UNCHANGED <<st, report>>,
         pc' = [pc EXCEPT ![s] = pc'[s]], verdict' = [verdict EXCEPT ![s] = verdict'[s]],
         Published(s)'
  PROVE  VerdictInv'
<1>1. ASSUME NEW o \in Servers PROVE Published(o)'
  <2>1. CASE o = s
    BY <2>1
  <2>2. CASE o # s
    BY <2>2 DEF WorkInv, WorkTypes, EndTypes, VerdictInv, Published
  <2>3. QED
    BY <2>1, <2>2
<1>2. QED
  BY <1>1 DEF VerdictInv, VerdictStands

LEMMA PublishKeeps ==
  ASSUME WorkInv, EndTypes, VerdictInv, NEW s \in Servers, Publish(s)
  PROVE  VerdictInv'
<1> USE DEF At, Go, Step, store, git, evidence, local
<1>1. st' = st /\ (report' = report \/ (report = "none" /\ report' = verdict[s]))
  BY DEF Publish, CanPublish
<1>2. VerdictStands'
  BY <1>1 DEF VerdictInv, VerdictStands
<1>3. ASSUME NEW o \in Servers PROVE Published(o)'
  <2>1. CASE o = s
    <3>1. CASE report' = verdict[s] /\ Step(s, "judged")
      BY <2>1, <3>1 DEF Publish, VerdictInv, Published, WorkInv, WorkTypes
    <3>2. CASE verdict' = [verdict EXCEPT ![s] = "none"] /\ Go(s, "halt")
      BY <2>1, <3>2 DEF Published, WorkInv, WorkTypes, EndTypes
    <3>3. QED
      BY <3>1, <3>2 DEF Publish
  <2>2. CASE o # s
    <3>1. verdict'[o] = verdict[o] /\ pc'[o] = pc[o]
      BY <2>2 DEF Publish, WorkInv, WorkTypes, EndTypes
    <3>2. QED
      BY <1>1, <3>1 DEF VerdictInv, Published
  <2>3. QED
    BY <2>1, <2>2
<1>4. QED
  BY <1>2, <1>3 DEF VerdictInv

\* A transition: the gate it sets is the published verdict, and only a published eligible verdict
\* begins the hand-over.
LEMMA TransitionVerdict ==
  ASSUME WorkInv, EndTypes, VerdictInv, NEW s \in Servers, NEW next, NEW place \in {"drive", "release"},
         Transition(s, next, place), pc[s] \notin {"publish", "dying"},
         <<st.phase, next.phase>> \in Edges =>
           /\ next \in States /\ next.gate \in {st.gate, report}
           /\ next.phase = "cleaning-up" => report = "eligible"
  PROVE  VerdictInv'
<1> USE DEF git, evidence, Go, store
<1>1. CASE WriteRefused(my[s].rev, next) /\ Return(s)
  <2>1. UNCHANGED <<st, report>>
    BY <1>1 DEF Transition, WriteRefused
  <2>2. pc' = [pc EXCEPT ![s] = "idle"] /\ verdict' = [verdict EXCEPT ![s] = "none"]
    BY <1>1 DEF Return, Blank
  <2>3. QED
    BY <2>1, <2>2, SilentKeeps DEF Published, WorkInv, WorkTypes, EndTypes
<1>2. CASE Moves(s, next, place)
  <2>1. /\ st'.gate = next.gate /\ st'.phase = next.phase /\ <<st.phase, next.phase>> \in Edges
        /\ next.gate \in {st.gate, report} /\ next.phase = "cleaning-up" => report = "eligible"
    BY <1>2 DEF Moves, Write, States
  <2>2. next.phase = "ready-for-human-review" => st.phase = "cleaning-up"
    BY <2>1 DEF Edges, Active, Halts
  <2>3. report' = report /\ verdict' = verdict /\ pc' = [pc EXCEPT ![s] = place]
    BY <1>2 DEF Transition, Moves
  <2>4. VerdictStands'
    BY <2>1, <2>2, <2>3 DEF VerdictInv, VerdictStands
  <2>5. \A o \in Servers : Published(o)'
    BY <2>3 DEF VerdictInv, Published, WorkInv, WorkTypes
  <2>6. QED
    BY <2>4, <2>5 DEF VerdictInv
<1>3. QED
  BY <1>1, <1>2 DEF Transition

LEMMA StaysVerdict ==
  ASSUME WorkInv, EndTypes, VerdictInv, NEW s \in Servers, Staying(s)
  PROVE  VerdictInv'
<1> USE DEF At, Go, Step, store, git, evidence, local, InPhase
<1>1. StartBranch(s) => VerdictInv'
  <2> SUFFICES ASSUME StartBranch(s) PROVE VerdictInv'
    OBVIOUS
  <2>1. /\ UNCHANGED <<st, report>> /\ pc' = [pc EXCEPT ![s] = pc'[s]]
        /\ verdict' = [verdict EXCEPT ![s] = verdict'[s]]
    BY DEF StartBranch, WorkInv, WorkTypes, EndTypes
  <2>2. Published(s)'
    BY DEF StartBranch, Published, VerdictInv, WorkInv, WorkTypes, EndTypes
  <2>3. QED
    BY <2>1, <2>2, SilentKeeps
<1>2. AcquireLease(s) => VerdictInv'
  <2> SUFFICES ASSUME AcquireLease(s) PROVE VerdictInv'
    OBVIOUS
  <2>1. /\ UNCHANGED <<st, report>> /\ pc' = [pc EXCEPT ![s] = pc'[s]]
        /\ verdict' = [verdict EXCEPT ![s] = verdict'[s]]
    BY DEF AcquireLease, Acquire, LeasePart, WorkInv, WorkTypes, EndTypes
  <2>2. Published(s)'
    BY DEF AcquireLease, Acquire, LeasePart, Published, VerdictInv, WorkInv, WorkTypes, EndTypes
  <2>3. QED
    BY <2>1, <2>2, SilentKeeps
<1>3. RecordSpec(s) => VerdictInv'
  <2> SUFFICES ASSUME RecordSpec(s) PROVE VerdictInv'
    OBVIOUS
  <2>1. /\ UNCHANGED <<st, report>> /\ pc' = [pc EXCEPT ![s] = pc'[s]]
        /\ verdict' = [verdict EXCEPT ![s] = verdict'[s]]
    BY DEF RecordSpec, Note, NoteRefused, NotePart, WorkInv, WorkTypes, EndTypes
  <2>2. Published(s)'
    BY DEF RecordSpec, Note, NoteRefused, NotePart, Published, VerdictInv, WorkInv,
       WorkTypes, EndTypes
  <2>3. QED
    BY <2>1, <2>2, SilentKeeps
<1>4. Undone(s) => VerdictInv'
  <2> SUFFICES ASSUME Undone(s) PROVE VerdictInv'
    OBVIOUS
  <2>1. /\ UNCHANGED <<st, report>> /\ pc' = [pc EXCEPT ![s] = pc'[s]]
        /\ verdict' = [verdict EXCEPT ![s] = verdict'[s]]
    BY DEF Undone, Ending, Return, Blank, WorkInv, WorkTypes, EndTypes
  <2>2. Published(s)'
    BY DEF Undone, Ending, Return, Blank, Published, VerdictInv, WorkInv, WorkTypes, EndTypes
  <2>3. QED
    BY <2>1, <2>2, SilentKeeps
<1>5. ReadState(s) => VerdictInv'
  <2> SUFFICES ASSUME ReadState(s) PROVE VerdictInv'
    OBVIOUS
  <2>1. /\ UNCHANGED <<st, report>> /\ pc' = [pc EXCEPT ![s] = pc'[s]]
        /\ verdict' = [verdict EXCEPT ![s] = verdict'[s]]
    BY DEF ReadState, WorkInv, WorkTypes, EndTypes
  <2>2. Published(s)'
    BY DEF ReadState, Published, VerdictInv, WorkInv, WorkTypes, EndTypes
  <2>3. QED
    BY <2>1, <2>2, SilentKeeps
<1>6. AdoptLease(s) => VerdictInv'
  <2> SUFFICES ASSUME AdoptLease(s) PROVE VerdictInv'
    OBVIOUS
  <2>1. /\ UNCHANGED <<st, report>> /\ pc' = [pc EXCEPT ![s] = pc'[s]]
        /\ verdict' = [verdict EXCEPT ![s] = verdict'[s]]
    BY DEF AdoptLease, Adopt, LeasePart, Return, Blank, WorkInv, WorkTypes, EndTypes
  <2>2. Published(s)'
    BY DEF AdoptLease, Adopt, LeasePart, Return, Blank, Published, VerdictInv, WorkInv,
       WorkTypes, EndTypes
  <2>3. QED
    BY <2>1, <2>2, SilentKeeps
<1>7. ProveResume(s) => VerdictInv'
  <2> SUFFICES ASSUME ProveResume(s) PROVE VerdictInv'
    OBVIOUS
  <2>1. /\ UNCHANGED <<st, report>> /\ pc' = [pc EXCEPT ![s] = pc'[s]]
        /\ verdict' = [verdict EXCEPT ![s] = verdict'[s]]
    BY DEF ProveResume, Return, Blank, WorkInv, WorkTypes, EndTypes
  <2>2. Published(s)'
    BY DEF ProveResume, Return, Blank, Published, VerdictInv, WorkInv, WorkTypes, EndTypes
  <2>3. QED
    BY <2>1, <2>2, SilentKeeps
<1>8. Abort(s) => VerdictInv'
  <2> SUFFICES ASSUME Abort(s) PROVE VerdictInv'
    OBVIOUS
  <2>1. /\ UNCHANGED <<st, report>> /\ pc' = [pc EXCEPT ![s] = pc'[s]]
        /\ verdict' = [verdict EXCEPT ![s] = verdict'[s]]
    BY DEF Abort, Ending, WorkInv, WorkTypes, EndTypes
  <2>2. Published(s)'
    BY DEF Abort, Ending, Published, VerdictInv, WorkInv, WorkTypes, EndTypes
  <2>3. QED
    BY <2>1, <2>2, SilentKeeps
<1>9. RunPipeline(s) => VerdictInv'
  <2> SUFFICES ASSUME RunPipeline(s) PROVE VerdictInv'
    OBVIOUS
  <2>1. /\ UNCHANGED <<st, report>> /\ pc' = [pc EXCEPT ![s] = pc'[s]]
        /\ verdict' = [verdict EXCEPT ![s] = verdict'[s]]
    BY DEF RunPipeline, Ending, WorkInv, WorkTypes, EndTypes
  <2>2. Published(s)'
    BY DEF RunPipeline, Ending, Published, VerdictInv, WorkInv, WorkTypes, EndTypes
  <2>3. QED
    BY <2>1, <2>2, SilentKeeps
<1>10. BeginPromotion(s) => VerdictInv'
  <2> SUFFICES ASSUME BeginPromotion(s) PROVE VerdictInv'
    OBVIOUS
  <2>1. /\ UNCHANGED <<st, report>> /\ pc' = [pc EXCEPT ![s] = pc'[s]]
        /\ verdict' = [verdict EXCEPT ![s] = verdict'[s]]
    BY DEF BeginPromotion, Note, NoteRefused, NotePart, NotPromoted, Ending, WorkInv,
       WorkTypes, EndTypes
  <2>2. Published(s)'
    BY DEF BeginPromotion, Note, NoteRefused, NotePart, NotPromoted, Ending, Published,
       VerdictInv, WorkInv, WorkTypes, EndTypes
  <2>3. QED
    BY <2>1, <2>2, SilentKeeps
<1>11. TakeCheckout(s) => VerdictInv'
  <2> SUFFICES ASSUME TakeCheckout(s) PROVE VerdictInv'
    OBVIOUS
  <2>1. /\ UNCHANGED <<st, report>> /\ pc' = [pc EXCEPT ![s] = pc'[s]]
        /\ verdict' = [verdict EXCEPT ![s] = verdict'[s]]
    BY DEF TakeCheckout, WorkInv, WorkTypes, EndTypes
  <2>2. Published(s)'
    BY DEF TakeCheckout, Published, VerdictInv, WorkInv, WorkTypes, EndTypes
  <2>3. QED
    BY <2>1, <2>2, SilentKeeps
<1>12. LockState(s) => VerdictInv'
  <2> SUFFICES ASSUME LockState(s) PROVE VerdictInv'
    OBVIOUS
  <2>1. /\ UNCHANGED <<st, report>> /\ pc' = [pc EXCEPT ![s] = pc'[s]]
        /\ verdict' = [verdict EXCEPT ![s] = verdict'[s]]
    BY DEF LockState, Release, NotPromoted, Ending, WorkInv, WorkTypes, EndTypes
  <2>2. Published(s)'
    BY DEF LockState, Release, NotPromoted, Ending, Published, VerdictInv, WorkInv,
       WorkTypes, EndTypes
  <2>3. QED
    BY <2>1, <2>2, SilentKeeps
<1>13. Stage(s) => VerdictInv'
  <2> SUFFICES ASSUME Stage(s) PROVE VerdictInv'
    OBVIOUS
  <2>1. /\ UNCHANGED <<st, report>> /\ pc' = [pc EXCEPT ![s] = pc'[s]]
        /\ verdict' = [verdict EXCEPT ![s] = verdict'[s]]
    BY DEF Stage, Leave, LeaveJournalled, NotPromoted, Ending, WorkInv, WorkTypes, EndTypes
  <2>2. Published(s)'
    BY DEF Stage, Leave, LeaveJournalled, NotPromoted, Ending, Published, VerdictInv,
       WorkInv, WorkTypes, EndTypes
  <2>3. QED
    BY <2>1, <2>2, SilentKeeps
<1>14. Accept(s) => VerdictInv'
  <2> SUFFICES ASSUME Accept(s) PROVE VerdictInv'
    OBVIOUS
  <2>1. /\ UNCHANGED <<st, report>> /\ pc' = [pc EXCEPT ![s] = pc'[s]]
        /\ verdict' = [verdict EXCEPT ![s] = verdict'[s]]
    BY DEF Accept, LeaveJournalled, WorkInv, WorkTypes, EndTypes
  <2>2. Published(s)'
    BY DEF Accept, LeaveJournalled, Published, VerdictInv, WorkInv, WorkTypes, EndTypes
  <2>3. QED
    BY <2>1, <2>2, SilentKeeps
<1>15. Commit(s) => VerdictInv'
  <2> SUFFICES ASSUME Commit(s) PROVE VerdictInv'
    OBVIOUS
  <2>1. /\ UNCHANGED <<st, report>> /\ pc' = [pc EXCEPT ![s] = pc'[s]]
        /\ verdict' = [verdict EXCEPT ![s] = verdict'[s]]
    BY DEF Commit, Leave, LeaveJournalled, NotPromoted, Ending, WorkInv, WorkTypes, EndTypes
  <2>2. Published(s)'
    BY DEF Commit, Leave, LeaveJournalled, NotPromoted, Ending, Published, VerdictInv,
       WorkInv, WorkTypes, EndTypes
  <2>3. QED
    BY <2>1, <2>2, SilentKeeps
<1>16. LeaveState(s) => VerdictInv'
  <2> SUFFICES ASSUME LeaveState(s) PROVE VerdictInv'
    OBVIOUS
  <2>1. /\ UNCHANGED <<st, report>> /\ pc' = [pc EXCEPT ![s] = pc'[s]]
        /\ verdict' = [verdict EXCEPT ![s] = verdict'[s]]
    BY DEF LeaveState, WorkInv, WorkTypes, EndTypes
  <2>2. Published(s)'
    BY DEF LeaveState, Published, VerdictInv, WorkInv, WorkTypes, EndTypes
  <2>3. QED
    BY <2>1, <2>2, SilentKeeps
<1>17. JournalPromotion(s) => VerdictInv'
  <2> SUFFICES ASSUME JournalPromotion(s) PROVE VerdictInv'
    OBVIOUS
  <2>1. /\ UNCHANGED <<st, report>> /\ pc' = [pc EXCEPT ![s] = pc'[s]]
        /\ verdict' = [verdict EXCEPT ![s] = verdict'[s]]
    BY DEF JournalPromotion, Note, NoteRefused, NotePart, NotPromoted, Ending, WorkInv,
       WorkTypes, EndTypes
  <2>2. Published(s)'
    BY DEF JournalPromotion, Note, NoteRefused, NotePart, NotPromoted, Ending, Published,
       VerdictInv, WorkInv, WorkTypes, EndTypes
  <2>3. QED
    BY <2>1, <2>2, SilentKeeps
<1>18. JournalRefusal(s) => VerdictInv'
  <2> SUFFICES ASSUME JournalRefusal(s) PROVE VerdictInv'
    OBVIOUS
  <2>1. /\ UNCHANGED <<st, report>> /\ pc' = [pc EXCEPT ![s] = pc'[s]]
        /\ verdict' = [verdict EXCEPT ![s] = verdict'[s]]
    BY DEF JournalRefusal, Note, NoteRefused, NotePart, NotPromoted, Ending, WorkInv,
       WorkTypes, EndTypes
  <2>2. Published(s)'
    BY DEF JournalRefusal, Note, NoteRefused, NotePart, NotPromoted, Ending, Published,
       VerdictInv, WorkInv, WorkTypes, EndTypes
  <2>3. QED
    BY <2>1, <2>2, SilentKeeps
<1>19. Freeze(s) => VerdictInv'
  <2> SUFFICES ASSUME Freeze(s) PROVE VerdictInv'
    OBVIOUS
  <2>1. /\ UNCHANGED <<st, report>> /\ pc' = [pc EXCEPT ![s] = pc'[s]]
        /\ verdict' = [verdict EXCEPT ![s] = verdict'[s]]
    BY DEF Freeze, Ending, WorkInv, WorkTypes, EndTypes
  <2>2. Published(s)'
    BY DEF Freeze, Ending, Published, VerdictInv, WorkInv, WorkTypes, EndTypes
  <2>3. QED
    BY <2>1, <2>2, SilentKeeps
<1>20. Review(s) => VerdictInv'
  <2> SUFFICES ASSUME Review(s) PROVE VerdictInv'
    OBVIOUS
  <2>1. /\ UNCHANGED <<st, report>> /\ pc' = [pc EXCEPT ![s] = pc'[s]]
        /\ verdict' = [verdict EXCEPT ![s] = verdict'[s]]
    BY DEF Review, Knows, NotPromoted, Ending, WorkInv, WorkTypes, EndTypes
  <2>2. Published(s)'
    BY DEF Review, Knows, NotPromoted, Ending, Published, VerdictInv, WorkInv, WorkTypes,
       EndTypes
  <2>3. QED
    BY <2>1, <2>2, SilentKeeps
<1>21. BeginCleanup(s) => VerdictInv'
  <2> SUFFICES ASSUME BeginCleanup(s) PROVE VerdictInv'
    OBVIOUS
  <2>1. /\ UNCHANGED <<st, report>> /\ pc' = [pc EXCEPT ![s] = pc'[s]]
        /\ verdict' = [verdict EXCEPT ![s] = verdict'[s]]
    BY DEF BeginCleanup, Note, NoteRefused, NotePart, Finishing, Return, Blank, WorkInv,
       WorkTypes, EndTypes
  <2>2. Published(s)'
    BY DEF BeginCleanup, Note, NoteRefused, NotePart, Finishing, Return, Blank, Published,
       VerdictInv, WorkInv, WorkTypes, EndTypes
  <2>3. QED
    BY <2>1, <2>2, SilentKeeps
<1>22. CheckCleanup(s) => VerdictInv'
  <2> SUFFICES ASSUME CheckCleanup(s) PROVE VerdictInv'
    OBVIOUS
  <2>1. /\ UNCHANGED <<st, report>> /\ pc' = [pc EXCEPT ![s] = pc'[s]]
        /\ verdict' = [verdict EXCEPT ![s] = verdict'[s]]
    BY DEF CheckCleanup, CleanedUp, NotCleanedUp, Finishing, WorkInv, WorkTypes, EndTypes
  <2>2. Published(s)'
    BY DEF CheckCleanup, CleanedUp, NotCleanedUp, Finishing, Published, VerdictInv, WorkInv,
       WorkTypes, EndTypes
  <2>3. QED
    BY <2>1, <2>2, SilentKeeps
<1>23. RemoveTree(s) => VerdictInv'
  <2> SUFFICES ASSUME RemoveTree(s) PROVE VerdictInv'
    OBVIOUS
  <2>1. /\ UNCHANGED <<st, report>> /\ pc' = [pc EXCEPT ![s] = pc'[s]]
        /\ verdict' = [verdict EXCEPT ![s] = verdict'[s]]
    BY DEF RemoveTree, NotCleanedUp, Finishing, WorkInv, WorkTypes, EndTypes
  <2>2. Published(s)'
    BY DEF RemoveTree, NotCleanedUp, Finishing, Published, VerdictInv, WorkInv, WorkTypes,
       EndTypes
  <2>3. QED
    BY <2>1, <2>2, SilentKeeps
<1>24. RemoveRefs(s) => VerdictInv'
  <2> SUFFICES ASSUME RemoveRefs(s) PROVE VerdictInv'
    OBVIOUS
  <2>1. /\ UNCHANGED <<st, report>> /\ pc' = [pc EXCEPT ![s] = pc'[s]]
        /\ verdict' = [verdict EXCEPT ![s] = verdict'[s]]
    BY DEF RemoveRefs, NotCleanedUp, Finishing, WorkInv, WorkTypes, EndTypes
  <2>2. Published(s)'
    BY DEF RemoveRefs, NotCleanedUp, Finishing, Published, VerdictInv, WorkInv, WorkTypes,
       EndTypes
  <2>3. QED
    BY <2>1, <2>2, SilentKeeps
<1>25. RemoveOwnership(s) => VerdictInv'
  <2> SUFFICES ASSUME RemoveOwnership(s) PROVE VerdictInv'
    OBVIOUS
  <2>1. /\ UNCHANGED <<st, report>> /\ pc' = [pc EXCEPT ![s] = pc'[s]]
        /\ verdict' = [verdict EXCEPT ![s] = verdict'[s]]
    BY DEF RemoveOwnership, CleanedUp, NotCleanedUp, Finishing, WorkInv, WorkTypes, EndTypes
  <2>2. Published(s)'
    BY DEF RemoveOwnership, CleanedUp, NotCleanedUp, Finishing, Published, VerdictInv,
       WorkInv, WorkTypes, EndTypes
  <2>3. QED
    BY <2>1, <2>2, SilentKeeps
<1>26. JournalCleanup(s) => VerdictInv'
  <2> SUFFICES ASSUME JournalCleanup(s) PROVE VerdictInv'
    OBVIOUS
  <2>1. /\ UNCHANGED <<st, report>> /\ pc' = [pc EXCEPT ![s] = pc'[s]]
        /\ verdict' = [verdict EXCEPT ![s] = verdict'[s]]
    BY DEF JournalCleanup, Note, NoteRefused, NotePart, Finishing, Return, Blank, WorkInv,
       WorkTypes, EndTypes
  <2>2. Published(s)'
    BY DEF JournalCleanup, Note, NoteRefused, NotePart, Finishing, Return, Blank, Published,
       VerdictInv, WorkInv, WorkTypes, EndTypes
  <2>3. QED
    BY <2>1, <2>2, SilentKeeps
<1>27. ReleaseLease(s) => VerdictInv'
  <2> SUFFICES ASSUME ReleaseLease(s) PROVE VerdictInv'
    OBVIOUS
  <2>1. /\ UNCHANGED <<st, report>> /\ pc' = [pc EXCEPT ![s] = pc'[s]]
        /\ verdict' = [verdict EXCEPT ![s] = verdict'[s]]
    BY DEF ReleaseLease, GiveBack, Return, Blank, WorkInv, WorkTypes, EndTypes
  <2>2. Published(s)'
    BY DEF ReleaseLease, GiveBack, Return, Blank, Published, VerdictInv, WorkInv, WorkTypes,
       EndTypes
  <2>3. QED
    BY <2>1, <2>2, SilentKeeps
<1>28. Boot(s) => VerdictInv'
  <2> SUFFICES ASSUME Boot(s) PROVE VerdictInv'
    OBVIOUS
  <2>1. /\ UNCHANGED <<st, report>> /\ pc' = [pc EXCEPT ![s] = pc'[s]]
        /\ verdict' = [verdict EXCEPT ![s] = verdict'[s]]
    BY DEF Boot, WorkInv, WorkTypes, EndTypes
  <2>2. Published(s)'
    BY DEF Boot, Published, VerdictInv, WorkInv, WorkTypes, EndTypes
  <2>3. QED
    BY <2>1, <2>2, SilentKeeps
<1>29. CutOff(s) => VerdictInv'
  <2> SUFFICES ASSUME CutOff(s) PROVE VerdictInv'
    OBVIOUS
  <2>1. /\ UNCHANGED <<st, report>> /\ pc' = [pc EXCEPT ![s] = pc'[s]]
        /\ verdict' = [verdict EXCEPT ![s] = verdict'[s]]
    BY DEF CutOff, NotePart, LeasePart, WorkInv, WorkTypes, EndTypes
  <2>2. Published(s)'
    BY DEF CutOff, NotePart, LeasePart, Published, VerdictInv, WorkInv, WorkTypes, EndTypes
  <2>3. QED
    BY <2>1, <2>2, SilentKeeps
<1>30. Exit(s) => VerdictInv'
  <2> SUFFICES ASSUME Exit(s) PROVE VerdictInv'
    OBVIOUS
  <2>1. /\ UNCHANGED <<st, report>> /\ pc' = [pc EXCEPT ![s] = pc'[s]]
        /\ verdict' = [verdict EXCEPT ![s] = verdict'[s]]
    BY DEF Exit, Blank, WorkInv, WorkTypes, EndTypes
  <2>2. Published(s)'
    BY DEF Exit, Blank, Published, VerdictInv, WorkInv, WorkTypes, EndTypes
  <2>3. QED
    BY <2>1, <2>2, SilentKeeps
<1>31. QED
  BY <1>1, <1>2, <1>3, <1>4, <1>5, <1>6, <1>7, <1>8, <1>9, <1>10, <1>11, <1>12, <1>13, <1>14,
     <1>15, <1>16, <1>17, <1>18, <1>19, <1>20, <1>21, <1>22, <1>23, <1>24, <1>25, <1>26,
     <1>27, <1>28, <1>29, <1>30, PublishKeeps DEF Staying

LEMMA MovesVerdict ==
  ASSUME WorkInv, EndTypes, VerdictInv, NEW s \in Servers, Moving(s)
  PROVE  VerdictInv'
<1> USE DEF At, InPhase
<1>1. BeginTask(s) => VerdictInv'
  <2> SUFFICES ASSUME BeginTask(s) PROVE VerdictInv'
    OBVIOUS
  <2> DEFINE next == [st EXCEPT !.phase = "running-task"]
  <2>1. Transition(s, next, "drive") /\ pc[s] \notin {"publish", "dying"}
    BY DEF BeginTask
  <2>2. next \in States /\ next.gate = st.gate /\ next.phase # "cleaning-up"
    BY DEF WorkInv, WorkTypes, States, Active
  <2> HIDE DEF next
  <2>3. QED
    BY <2>1, <2>2, TransitionVerdict
<1>2. RecordRun(s) => VerdictInv'
  <2> SUFFICES ASSUME RecordRun(s) PROVE VerdictInv'
    OBVIOUS
  <2> DEFINE next == [st EXCEPT !.phase = "promoting-task", !.run[Task(s)] = cand[s]]
  <2>1. Transition(s, next, "drive") /\ pc[s] \notin {"publish", "dying"}
    BY DEF RecordRun
  <2>2. next \in States /\ next.gate = st.gate /\ next.phase # "cleaning-up"
    BY DEF WorkInv, WorkTypes, States, Active
  <2> HIDE DEF next
  <2>3. QED
    BY <2>1, <2>2, TransitionVerdict
<1>3. Advance(s) => VerdictInv'
  <2> SUFFICES ASSUME Advance(s) PROVE VerdictInv'
    OBVIOUS
  <2> DEFINE next == [st EXCEPT !.phase = IF Task(s) = N THEN "final-review" ELSE "running-task",
                                !.at = Task(s) + 1]
  <2>1. Transition(s, next, "drive") /\ pc[s] \notin {"publish", "dying"}
    BY DEF Advance
  <2>2. my[s].at \in Tasks
    BY DEF Advance, WorkInv, Known, Sound, Agrees, Promoting, Working
  <2>3. Task(s) + 1 \in 1..(N + 1)
    BY <2>2, CountAssumption DEF Task, Tasks
  <2>4. next \in States /\ next.gate = st.gate /\ next.phase # "cleaning-up"
    BY <2>3 DEF WorkInv, WorkTypes, States, Active
  <2> HIDE DEF next
  <2>5. QED
    BY <2>1, <2>4, TransitionVerdict
<1>4. Judge(s) => VerdictInv'
  <2> SUFFICES ASSUME Judge(s) PROVE VerdictInv'
    OBVIOUS
  <2>1. verdict[s] = report /\ pc[s] = "judged"
    BY DEF Judge, VerdictInv, Published
  <2> DEFINE next == [st EXCEPT !.phase = "cleaning-up", !.gate = "eligible"]
  <2>2. CASE verdict[s] = "eligible" /\ Transition(s, next, "drive")
    <3>1. next \in States /\ next.gate = report /\ report = "eligible"
      BY <2>1, <2>2 DEF WorkInv, WorkTypes, States, Active, Results
    <3> HIDE DEF next
    <3>2. QED
      BY <2>1, <2>2, <3>1, TransitionVerdict
  <2>3. CASE NotPromoted(s) /\ UNCHANGED <<store, git, chk, evidence>>
    BY <2>1, <2>3, SilentKeeps
       DEF NotPromoted, Ending, Go, store, evidence, Published, WorkInv, WorkTypes, EndTypes
  <2>4. QED
    BY <2>2, <2>3 DEF Judge
<1>5. EndWorkflow(s) => VerdictInv'
  <2> SUFFICES ASSUME EndWorkflow(s) PROVE VerdictInv'
    OBVIOUS
  <2> DEFINE next == [st EXCEPT !.phase = why[s],
                                !.gate = IF verdict[s] = "none" THEN @ ELSE verdict[s]]
  <2>1. Transition(s, next, "release") /\ pc[s] \notin {"publish", "dying"}
    BY DEF EndWorkflow
  <2>2. next.gate \in {st.gate, report} /\ next.phase = why[s]
    BY <2>1 DEF VerdictInv, Published, WorkInv, WorkTypes, States
  <2>3. why[s] \in Terminal \cup {"none"} /\ verdict[s] \in Results
    BY DEF EndTypes
  <2>4. <<st.phase, why[s]>> \in Edges => why[s] \in Terminal /\ next \in States
    BY <2>3 DEF Edges, Active, Terminal, Halts, WorkInv, WorkTypes, States
  <2>5. why[s] # "cleaning-up"
    BY <2>3 DEF Terminal, Halts
  <2> HIDE DEF next
  <2>6. QED
    BY <2>1, <2>2, <2>4, <2>5, TransitionVerdict
<1>6. CreateState(s) => VerdictInv'
  <2> SUFFICES ASSUME CreateState(s) PROVE VerdictInv'
    OBVIOUS
  <2>1. /\ st'.gate = st.gate /\ (st'.phase = st.phase \/ st'.phase = "preflighting")
        /\ report' = report /\ verdict' = verdict
        /\ pc' = [pc EXCEPT ![s] = pc'[s]] /\ pc[s] = "create" /\ pc'[s] \in {"acquire", "undo"}
    BY DEF CreateState, Create, Go, Step, local, store, evidence, WorkInv, WorkTypes, States
  <2>2. VerdictStands'
    BY <2>1 DEF VerdictInv, VerdictStands
  <2>3. \A o \in Servers : Published(o)'
    BY <2>1 DEF VerdictInv, Published, WorkInv, WorkTypes
  <2>4. QED
    BY <2>2, <2>3 DEF VerdictInv
<1>7. QED
  BY <1>1, <1>2, <1>3, <1>4, <1>5, <1>6 DEF Moving

\* The gate in the state is the verdict that was published, and a branch is only handed over after
\* a published eligible one: no exit between the review, its publication and the next transition,
\* and no resume by another server, turns a refusal into a hand-over (readPublishedReport).
THEOREM PublishedVerdictStands == Spec => []VerdictStands
<1>1. WorkInv /\ EndTypes /\ VerdictInv /\ [Next]_vars => VerdictInv'
  <2> SUFFICES ASSUME WorkInv, EndTypes, VerdictInv, [Next]_vars PROVE VerdictInv'
    OBVIOUS
  <2>1. CASE UNCHANGED <<st, report, verdict, pc>>
    BY <2>1 DEF VerdictInv, VerdictStands, Published
  <2>2. UserCommits \/ UserEdits \/ UserDecides \/ UNCHANGED vars => UNCHANGED <<st, report, verdict, pc>>
    BY DEF UserCommits, UserEdits, UserDecides, vars, store, evidence, local
  <2>3. QED
    BY <2>1, <2>2, StaysVerdict, MovesVerdict DEF Next, Staying, Moving
<1>2. VerdictInv => VerdictStands
  BY DEF VerdictInv
<1>3. QED
  BY <1>1, <1>2, VerdictInit, WorkInvAlways, PTL DEF Spec

-----------------------------------------------------------------------------
(* Types *)

Flags == torn \in BOOLEAN /\ branch \in BOOLEAN /\ base \in BOOLEAN /\ tree \in BOOLEAN

RestTypes ==
  /\ writer \in Holders /\ owner \in Holders /\ own \in Holders /\ chk \in Holders
  /\ log \in Seq(Candidates \cup {Foreign}) /\ index \in Candidates \cup {Clean, Dirt}
  /\ dec \in [Candidates -> {"none", "accepted", "other"}]

LEMMA RecordedTyped ==
  ASSUME WorkInv, NEW s \in Servers, pc[s] \in Promoting
  PROVE  Recorded(s) \in Candidates
<1>1. my[s].phase = "promoting-task" /\ my[s].at \in Tasks /\ my[s].run[my[s].at] \in 1..MaxRuns
  BY DEF WorkInv, Known, Sound, Agrees, Working
<1>2. QED
  BY <1>1 DEF Recorded, Task, Candidates

LEMMA FlagsNext == Flags /\ [Next]_vars => Flags'
<1> SUFFICES ASSUME Flags, [Next]_vars PROVE Flags'
  OBVIOUS
<1> USE DEF store, git, evidence, Flags
<1>1. ASSUME NEW s \in Servers, StartBranch(s) PROVE Flags'
  BY <1>1 DEF StartBranch
<1>2. ASSUME NEW s \in Servers, CreateState(s) PROVE Flags'
  BY <1>2 DEF CreateState, Create
<1>3. ASSUME NEW s \in Servers, AcquireLease(s) PROVE Flags'
  BY <1>3 DEF AcquireLease, Acquire, LeasePart
<1>4. ASSUME NEW s \in Servers, RecordSpec(s) PROVE Flags'
  BY <1>4 DEF RecordSpec, Note, NoteRefused, NotePart
<1>5. ASSUME NEW s \in Servers, Undone(s) PROVE Flags'
  BY <1>5 DEF Undone
<1>6. ASSUME NEW s \in Servers, ReadState(s) PROVE Flags'
  BY <1>6 DEF ReadState
<1>7. ASSUME NEW s \in Servers, AdoptLease(s) PROVE Flags'
  BY <1>7 DEF AdoptLease, Adopt, LeasePart
<1>8. ASSUME NEW s \in Servers, ProveResume(s) PROVE Flags'
  BY <1>8 DEF ProveResume
<1>9. ASSUME NEW s \in Servers, Abort(s) PROVE Flags'
  BY <1>9 DEF Abort
<1>10. ASSUME NEW s \in Servers, BeginTask(s) PROVE Flags'
  BY <1>10 DEF BeginTask, Transition, Moves, Write, WriteRefused
<1>11. ASSUME NEW s \in Servers, RunPipeline(s) PROVE Flags'
  BY <1>11 DEF RunPipeline
<1>12. ASSUME NEW s \in Servers, RecordRun(s) PROVE Flags'
  BY <1>12 DEF RecordRun, Transition, Moves, Write, WriteRefused
<1>13. ASSUME NEW s \in Servers, BeginPromotion(s) PROVE Flags'
  BY <1>13 DEF BeginPromotion, Note, NoteRefused, NotePart
<1>14. ASSUME NEW s \in Servers, TakeCheckout(s) PROVE Flags'
  BY <1>14 DEF TakeCheckout
<1>15. ASSUME NEW s \in Servers, LockState(s) PROVE Flags'
  BY <1>15 DEF LockState
<1>16. ASSUME NEW s \in Servers, Stage(s) PROVE Flags'
  BY <1>16 DEF Stage, Leave, LeaveJournalled
<1>17. ASSUME NEW s \in Servers, Accept(s) PROVE Flags'
  BY <1>17 DEF Accept, LeaveJournalled
<1>18. ASSUME NEW s \in Servers, Commit(s) PROVE Flags'
  BY <1>18 DEF Commit, Leave, LeaveJournalled
<1>19. ASSUME NEW s \in Servers, LeaveState(s) PROVE Flags'
  BY <1>19 DEF LeaveState
<1>20. ASSUME NEW s \in Servers, JournalPromotion(s) PROVE Flags'
  BY <1>20 DEF JournalPromotion, Note, NoteRefused, NotePart
<1>21. ASSUME NEW s \in Servers, JournalRefusal(s) PROVE Flags'
  BY <1>21 DEF JournalRefusal, Note, NoteRefused, NotePart
<1>22. ASSUME NEW s \in Servers, Advance(s) PROVE Flags'
  BY <1>22 DEF Advance, Transition, Moves, Write, WriteRefused
<1>23. ASSUME NEW s \in Servers, Freeze(s) PROVE Flags'
  BY <1>23 DEF Freeze
<1>24. ASSUME NEW s \in Servers, Review(s) PROVE Flags'
  BY <1>24 DEF Review
<1>25. ASSUME NEW s \in Servers, Publish(s) PROVE Flags'
  BY <1>25 DEF Publish
<1>26. ASSUME NEW s \in Servers, Judge(s) PROVE Flags'
  BY <1>26 DEF Judge, Transition, Moves, Write, WriteRefused
<1>27. ASSUME NEW s \in Servers, BeginCleanup(s) PROVE Flags'
  BY <1>27 DEF BeginCleanup, Note, NoteRefused, NotePart
<1>28. ASSUME NEW s \in Servers, CheckCleanup(s) PROVE Flags'
  BY <1>28 DEF CheckCleanup
<1>29. ASSUME NEW s \in Servers, RemoveTree(s) PROVE Flags'
  BY <1>29 DEF RemoveTree
<1>30. ASSUME NEW s \in Servers, RemoveRefs(s) PROVE Flags'
  BY <1>30 DEF RemoveRefs
<1>31. ASSUME NEW s \in Servers, RemoveOwnership(s) PROVE Flags'
  BY <1>31 DEF RemoveOwnership
<1>32. ASSUME NEW s \in Servers, JournalCleanup(s) PROVE Flags'
  BY <1>32 DEF JournalCleanup, Note, NoteRefused, NotePart
<1>33. ASSUME NEW s \in Servers, EndWorkflow(s) PROVE Flags'
  BY <1>33 DEF EndWorkflow, Transition, Moves, Write, WriteRefused
<1>34. ASSUME NEW s \in Servers, ReleaseLease(s) PROVE Flags'
  BY <1>34 DEF ReleaseLease, GiveBack
<1>35. ASSUME NEW s \in Servers, Boot(s) PROVE Flags'
  BY <1>35 DEF Boot
<1>36. ASSUME NEW s \in Servers, CutOff(s) PROVE Flags'
  BY <1>36 DEF CutOff, NotePart, LeasePart
<1>37. ASSUME NEW s \in Servers, Exit(s) PROVE Flags'
  BY <1>37 DEF Exit
<1>38. CASE UserCommits \/ UserEdits \/ UserDecides
  BY <1>38 DEF UserCommits, UserEdits, UserDecides
<1>39. CASE UNCHANGED vars
  BY <1>39 DEF vars
<1>40. QED
  BY <1>1, <1>2, <1>3, <1>4, <1>5, <1>6, <1>7, <1>8, <1>9, <1>10, <1>11, <1>12, <1>13, <1>14,
     <1>15, <1>16, <1>17, <1>18, <1>19, <1>20, <1>21, <1>22, <1>23, <1>24, <1>25, <1>26,
     <1>27, <1>28, <1>29, <1>30, <1>31, <1>32, <1>33, <1>34, <1>35, <1>36, <1>37, <1>38, <1>39
     DEF Next
LEMMA RestTypesNext == WorkInv /\ RestTypes /\ [Next]_vars => RestTypes'
<1> SUFFICES ASSUME WorkInv, RestTypes, [Next]_vars PROVE RestTypes'
  OBVIOUS
<1> USE DEF At, Go, Step, store, git, evidence, local, InPhase, RestTypes, Release, Holders
<1>1. ASSUME NEW s \in Servers, StartBranch(s) PROVE RestTypes'
  BY <1>1 DEF StartBranch
<1>2. ASSUME NEW s \in Servers, CreateState(s) PROVE RestTypes'
  BY <1>2 DEF CreateState, Create
<1>3. ASSUME NEW s \in Servers, AcquireLease(s) PROVE RestTypes'
  BY <1>3 DEF AcquireLease, Acquire, LeasePart
<1>4. ASSUME NEW s \in Servers, RecordSpec(s) PROVE RestTypes'
  BY <1>4 DEF RecordSpec, Note, NoteRefused, NotePart
<1>5. ASSUME NEW s \in Servers, Undone(s) PROVE RestTypes'
  BY <1>5 DEF Undone
<1>6. ASSUME NEW s \in Servers, ReadState(s) PROVE RestTypes'
  BY <1>6 DEF ReadState
<1>7. ASSUME NEW s \in Servers, AdoptLease(s) PROVE RestTypes'
  BY <1>7 DEF AdoptLease, Adopt, LeasePart
<1>8. ASSUME NEW s \in Servers, ProveResume(s) PROVE RestTypes'
  BY <1>8 DEF ProveResume
<1>9. ASSUME NEW s \in Servers, Abort(s) PROVE RestTypes'
  BY <1>9 DEF Abort
<1>10. ASSUME NEW s \in Servers, BeginTask(s) PROVE RestTypes'
  BY <1>10 DEF BeginTask, Transition, Moves, Write, WriteRefused
<1>11. ASSUME NEW s \in Servers, RunPipeline(s) PROVE RestTypes'
  BY <1>11 DEF RunPipeline
<1>12. ASSUME NEW s \in Servers, RecordRun(s) PROVE RestTypes'
  BY <1>12 DEF RecordRun, Transition, Moves, Write, WriteRefused
<1>13. ASSUME NEW s \in Servers, BeginPromotion(s) PROVE RestTypes'
  BY <1>13 DEF BeginPromotion, Note, NoteRefused, NotePart
<1>14. ASSUME NEW s \in Servers, TakeCheckout(s) PROVE RestTypes'
  BY <1>14 DEF TakeCheckout
<1>15. ASSUME NEW s \in Servers, LockState(s) PROVE RestTypes'
  BY <1>15, RecordedTyped DEF LockState, Promoting
<1>16. ASSUME NEW s \in Servers, Stage(s) PROVE RestTypes'
  BY <1>16, RecordedTyped DEF Stage, Leave, LeaveJournalled, Promoting
<1>17. ASSUME NEW s \in Servers, Accept(s) PROVE RestTypes'
  BY <1>17, RecordedTyped DEF Accept, LeaveJournalled, Promoting
<1>18. ASSUME NEW s \in Servers, Commit(s) PROVE RestTypes'
  BY <1>18, RecordedTyped DEF Commit, Leave, LeaveJournalled, Promoting
<1>19. ASSUME NEW s \in Servers, LeaveState(s) PROVE RestTypes'
  BY <1>19 DEF LeaveState
<1>20. ASSUME NEW s \in Servers, JournalPromotion(s) PROVE RestTypes'
  BY <1>20 DEF JournalPromotion, Note, NoteRefused, NotePart
<1>21. ASSUME NEW s \in Servers, JournalRefusal(s) PROVE RestTypes'
  BY <1>21 DEF JournalRefusal, Note, NoteRefused, NotePart
<1>22. ASSUME NEW s \in Servers, Advance(s) PROVE RestTypes'
  BY <1>22 DEF Advance, Transition, Moves, Write, WriteRefused
<1>23. ASSUME NEW s \in Servers, Freeze(s) PROVE RestTypes'
  BY <1>23 DEF Freeze
<1>24. ASSUME NEW s \in Servers, Review(s) PROVE RestTypes'
  BY <1>24 DEF Review
<1>25. ASSUME NEW s \in Servers, Publish(s) PROVE RestTypes'
  BY <1>25 DEF Publish
<1>26. ASSUME NEW s \in Servers, Judge(s) PROVE RestTypes'
  BY <1>26 DEF Judge, Transition, Moves, Write, WriteRefused
<1>27. ASSUME NEW s \in Servers, BeginCleanup(s) PROVE RestTypes'
  BY <1>27 DEF BeginCleanup, Note, NoteRefused, NotePart
<1>28. ASSUME NEW s \in Servers, CheckCleanup(s) PROVE RestTypes'
  BY <1>28 DEF CheckCleanup
<1>29. ASSUME NEW s \in Servers, RemoveTree(s) PROVE RestTypes'
  BY <1>29 DEF RemoveTree
<1>30. ASSUME NEW s \in Servers, RemoveRefs(s) PROVE RestTypes'
  <2>1. log' = log \/ log' = <<>>
    BY <1>30 DEF RemoveRefs
  <2>2. chk' \in {chk, "free"} /\ UNCHANGED <<writer, owner, own, index, dec>>
    BY <1>30 DEF RemoveRefs
  <2>3. <<>> \in Seq(Candidates \cup {Foreign})
    OBVIOUS
  <2> HIDE DEF Release
  <2>4. chk' \in Holders
    BY <2>2
  <2>5. QED
    BY <2>1, <2>2, <2>3, <2>4
<1>31. ASSUME NEW s \in Servers, RemoveOwnership(s) PROVE RestTypes'
  BY <1>31 DEF RemoveOwnership
<1>32. ASSUME NEW s \in Servers, JournalCleanup(s) PROVE RestTypes'
  BY <1>32 DEF JournalCleanup, Note, NoteRefused, NotePart
<1>33. ASSUME NEW s \in Servers, EndWorkflow(s) PROVE RestTypes'
  BY <1>33 DEF EndWorkflow, Transition, Moves, Write, WriteRefused
<1>34. ASSUME NEW s \in Servers, ReleaseLease(s) PROVE RestTypes'
  BY <1>34 DEF ReleaseLease, GiveBack
<1>35. ASSUME NEW s \in Servers, Boot(s) PROVE RestTypes'
  BY <1>35 DEF Boot
<1>36. ASSUME NEW s \in Servers, CutOff(s) PROVE RestTypes'
  BY <1>36 DEF CutOff, NotePart, LeasePart
<1>37. ASSUME NEW s \in Servers, Exit(s) PROVE RestTypes'
  BY <1>37 DEF Exit
<1>38. CASE UserCommits
  BY <1>38 DEF UserCommits
<1>39. CASE UserEdits
  BY <1>39 DEF UserEdits
<1>40. CASE UserDecides
  BY <1>40 DEF UserDecides
<1>41. CASE UNCHANGED vars
  BY <1>41 DEF vars
<1>42. QED
  BY <1>1, <1>2, <1>3, <1>4, <1>5, <1>6, <1>7, <1>8, <1>9, <1>10, <1>11, <1>12, <1>13, <1>14,
     <1>15, <1>16, <1>17, <1>18, <1>19, <1>20, <1>21, <1>22, <1>23, <1>24, <1>25, <1>26,
     <1>27, <1>28, <1>29, <1>30, <1>31, <1>32, <1>33, <1>34, <1>35, <1>36, <1>37, <1>38,
     <1>39, <1>40, <1>41 DEF Next

\* The state has its types, and a state of which tasks are still to be done has a task at hand: the
\* task that a resume goes on with is one of the workflow's (resumeActiveWorkflow).
THEOREM TypeCorrect == Spec => []TypeOK
<1>1. Init => RestTypes
  BY DEF Init, StoreInit, RestTypes, Holders, Candidates
<1>2. Init => Flags
  BY DEF Init, StoreInit, Flags
<1>3. WorkInv /\ EndTypes /\ CoverInv /\ RestTypes /\ Flags => TypeOK
  BY DEF WorkInv, WorkTypes, Sound, EndTypes, CoverInv, OneStart, RestTypes, Flags, TypeOK
<1>4. QED
  BY <1>1, <1>2, <1>3, FlagsNext, RestTypesNext, WorkInvAlways, CoverAlways, PTL DEF Spec
=============================================================================
