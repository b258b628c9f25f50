------------------------ MODULE AutopilotBranchProofs ------------------------
(***************************************************************************)
(* Proofs about the branch of an Autopilot workflow: what was promoted is  *)
(* on it, was accepted first, and is all there when it is handed over; the *)
(* workflow implements AtomicWorkflow.  For any servers, tasks and faults. *)
(*                                                                         *)
(* BranchInv is the invariant.  Its global parts relate branch, decisions  *)
(* and journal to the state on disk; Here is what a server knows where it  *)
(* is, among it that a start which is taken back has not begun a task.     *)
(***************************************************************************)
EXTENDS AutopilotWorkflowProofs

\* A start that failed, or that an exit cut off, is being taken back.
Undoing(s) ==
  ~HandingOver(s) /\ pc[s] \in {"undone", "undo", "removeTree", "removeRefs", "removeOwn"}

\* Nothing has been done for the workflow yet.
Unused ==
  /\ st.at = 1 /\ st.phase \in {"absent", "preflighting"}
  /\ \A i \in 1..Len(log) : log[i] = Foreign
  /\ \A k \in Keys \ {SpecKey} : intents[k] = "none"
  /\ \A c \in Candidates : dec[c] # "accepted"
  /\ index \notin Candidates

Young ==
  /\ st.rev = 0 => Unused
  /\ st.phase \in {"absent", "preflighting"} => st.rev = 0
  /\ st.phase = "absent" => owner = "none"
  /\ own = "new" => st.phase = "absent"

HereYoung(s) ==
  /\ own = "new" => ~Undoing(s)
  /\ pc[s] \in Starting => own = s /\ st.rev = 0
  /\ pc[s] = "create" => st.phase = "absent"
  /\ pc[s] = "acquire" => owner = "none"
  /\ Undoing(s) => st.rev = 0 /\ own \in {s, "dead", "none"} /\ owner \in {s, "none", "empty"}

\* Task k has its commit.
Done(k) == k <= Len(log) /\ log[k] # Foreign

Past == {"final-review", "cleaning-up"}

Led ==
  /\ \A k \in Tasks : k < st.at => Done(k)
  /\ st.phase \in Past \cup {"ready-for-human-review"} => st.at = N + 1
  /\ \A k \in Tasks : intents[k] = "completed" => Done(k)

HereLed(s) ==
  /\ pc[s] \in {"leave", "journal", "advance"} => Done(Task(s)) /\ index \notin Candidates
  /\ pc[s] = "accept" /\ Done(Task(s)) => index \notin Candidates

\* The candidate has been committed, or somebody else has committed since.
OnBranch(c) == \E i \in 1..Len(log) : log[i] \in {c, Foreign}

\* The candidate that the state is about to promote, or ended on.
AtHand(c) ==
  /\ c = [task |-> st.at, run |-> st.run[st.at]]
  /\ st.phase \in Halts \cup {"promoting-task"} /\ index \in {c, Dirt}

Accepted ==
  /\ \A i \in 1..Len(log) : log[i] # Foreign => dec[log[i]] = "accepted"
  /\ \A c \in Candidates : dec[c] = "accepted" => OnBranch(c) \/ AtHand(c)
  /\ index \in Candidates => st.phase \in Halts \cup {"promoting-task"}

HereAccepted(s) ==
  /\ my[s].phase \in Past =>
       /\ st.phase \in Past \cup Terminal /\ index \notin Candidates
       /\ \A c \in Candidates : dec[c] = "accepted" => OnBranch(c)
  /\ pc[s] = "accept" => index \in {Recorded(s), Dirt} \/ OnBranch(Recorded(s))
  /\ pc[s] = "commit" => dec[Recorded(s)] = "accepted"

\* Only the branch is left.
Gone == branch /\ ~tree /\ ~base /\ own = "none"

Closed == intents[CleanupKey] = "completed" \/ st.phase = "ready-for-human-review" => Gone

HereClosed(s) ==
  /\ pc[s] = "cleaned" => HandingOver(s) /\ Gone
  /\ pc[s] = "finish" /\ why[s] = "ready-for-human-review" => intents[CleanupKey] = "completed"
  /\ pc[s] = "halt" => why[s] \in Halts
  /\ HandingOver(s) =>
       /\ pc[s] \in {"removeTree", "removeRefs", "removeOwn"} => branch
       /\ pc[s] \in {"removeRefs", "removeOwn"} => ~tree
       /\ pc[s] = "removeOwn" => ~base

Here(s) == HereYoung(s) /\ HereLed(s) /\ HereAccepted(s) /\ HereClosed(s)

BranchInv == Young /\ Led /\ Accepted /\ Closed /\ \A s \in Servers : Here(s)

\* What AutopilotWorkflowProofs has established of every state.
Before == WorkInv /\ OneDriver /\ BranchFollows /\ CoverInv /\ TypeOK

-----------------------------------------------------------------------------
(* Who may do what *)

USE DEF At, Go, Step, store, git, evidence, local, InPhase

\* What a step of one server leaves to the others.
Others(s) ==
  \A o \in Servers \ {s} :
    pc'[o] = pc[o] /\ my'[o] = my[o] /\ why'[o] = why[o]

\* A server that has begun something has a state that has been written since its creation.
LEMMA Begun ==
  ASSUME Before, BranchInv, NEW s \in Servers, my[s].phase \notin {"absent", "preflighting"}
  PROVE  st.rev > 0 /\ st.phase \notin {"absent", "preflighting"}
BY DEF Before, BranchInv, Young, Unused, WorkInv, WorkTypes, States, Known

\* Whoever drives the workflow is alone with it.
LEMMA Sole ==
  ASSUME Before, BranchInv, NEW s \in Servers, Drives(s)
  PROVE  /\ owner = s
         /\ \A o \in Servers \ {s} : pc[o] \notin Starting /\ ~Undoing(o) /\ ~Drives(o)
<1>1. owner = s
  BY DEF Before, OneDriver
<1>2. ASSUME NEW o \in Servers \ {s} PROVE pc[o] \notin Starting /\ ~Undoing(o) /\ ~Drives(o)
  <2>1. ~Drives(o)
    BY <1>1 DEF Before, OneDriver
  <2>2. ~Undoing(o) /\ pc[o] # "acquire" /\ pc[o] # "create"
    BY <1>1, ServerAssumption DEF BranchInv, Here, HereYoung, Young
  <2> QED
    BY <2>1, <2>2 DEF Starting, Drives, Places
<1> QED BY <1>1, <1>2

\* Whoever starts it, or takes its start back, leaves nobody to drive it.
LEMMA Only ==
  ASSUME Before, BranchInv, NEW s \in Servers, pc[s] \in Starting \/ Undoing(s)
  PROVE  \A o \in Servers \ {s} : ~Drives(o)
BY Sole

\* Under the writer lock the state is the one at hand, and nobody else is.
LEMMA Locks ==
  ASSUME Before, BranchInv, NEW s \in Servers, pc[s] \in Locking
  PROVE  /\ st = my[s] /\ st.phase = "promoting-task" /\ st.at \in Tasks /\ st.rev > 0
         /\ Recorded(s) = [task |-> st.at, run |-> st.run[st.at]] /\ Recorded(s) \in Candidates
         /\ \A o \in Servers \ {s} : pc[o] \notin Locking /\ my[o].phase \notin Past
<1>1. st = my[s] /\ writer = s
  BY DEF Before, WorkInv, StateLocked
<1>2. my[s].phase = "promoting-task"
  BY DEF Before, WorkInv, Agrees, Promoting, Locking
<1>3. st.at \in Tasks /\ Recorded(s) \in Candidates /\ st.rev > 0
  BY <1>1, <1>2, Begun, RecordedTyped DEF Before, WorkInv, Sound, Working, Promoting, Locking
<1>4. \A o \in Servers \ {s} : pc[o] \notin Locking
  BY <1>1 DEF Before, WorkInv, StateLocked
<1>5. \A o \in Servers : my[o].phase \notin Past
  BY <1>1, <1>2 DEF BranchInv, Here, HereAccepted, Past, Terminal, Halts
<1> QED BY <1>1, <1>2, <1>3, <1>4, <1>5 DEF Recorded, Task

LEMMA Codes ==
  Clean \notin Candidates /\ Dirt \notin Candidates /\ Foreign \notin Candidates /\ Clean # Dirt
BY DEF Clean, Dirt, Foreign, Candidates, Tasks

\* A function on 1..n is a sequence of n elements.
LEMMA AllSequences == \A S : Seq(S) = UNION {[1..n -> S] : n \in Nat}
OBVIOUS

LEMMA SequenceOf ==
  ASSUME NEW n \in Nat, NEW f, NEW S, f \in [1..n -> S]
  PROVE  f \in Seq(S) /\ Len(f) = n
<1>1. f \in Seq(S)
  BY AllSequences
<1> QED BY <1>1

\* The branch as the state has it, and with the commit of the task at hand.
LEMMA Heads ==
  ASSUME Before, NEW s \in Servers, my[s].at \in Tasks
  PROVE  /\ log = HeadOf(my[s]) => Len(log) = my[s].at - 1 /\ ~Done(Task(s))
         /\ Committed(s) => /\ Len(log) = my[s].at /\ Done(Task(s))
                            /\ log[Len(log)] = Recorded(s)
<1> DEFINE n == my[s].at - 1
           Entry == [task : Nat, run : Nat]
<1>1. n \in Nat /\ my[s].at = n + 1 /\ my[s].at \in Nat
  BY CountAssumption DEF Tasks
<1>2. HeadOf(my[s]) \in [1..n -> Entry]
  <2>1. my[s].run \in [Tasks -> 0..MaxRuns]
    BY DEF Before, TypeOK, States
  <2>2. \A k \in 1..n : k \in Nat /\ k \in Tasks
    BY <1>1, CountAssumption DEF Tasks
  <2>3. \A k \in 1..n : my[s].run[k] \in Nat
    BY <2>1, <2>2, CountAssumption
  <2> QED BY <2>2, <2>3 DEF HeadOf
<1>3. Recorded(s) \in Entry /\ Recorded(s) # Foreign
  <2>1. my[s].run \in [Tasks -> 0..MaxRuns]
    BY DEF Before, TypeOK, States
  <2>2. my[s].run[my[s].at] \in Nat
    BY <2>1, CountAssumption
  <2> QED BY <1>1, <2>2 DEF Recorded, Task, Foreign, Tasks
<1> HIDE DEF n, Entry
<1>4. HeadOf(my[s]) \in Seq(Entry) /\ Len(HeadOf(my[s])) = n
  BY <1>1, <1>2, SequenceOf
<1>5. log = HeadOf(my[s]) => Len(log) = n
  BY <1>4
<1>6. Committed(s) => Len(log) = n + 1 /\ log[n + 1] = Recorded(s)
  BY <1>1, <1>3, <1>4 DEF Committed
<1> QED BY <1>1, <1>3, <1>5, <1>6 DEF Done, Task, n

-----------------------------------------------------------------------------
(* Steps that change little *)

\* A step that only moves a server on.
LEMMA Quiet ==
  ASSUME Before, BranchInv, NEW s \in Servers, Others(s), Here(s)',
         UNCHANGED <<st, log, branch, base, tree, index, own, owner, intents, dec>>
  PROVE  BranchInv'
<1>1. Young' /\ Led' /\ Accepted' /\ Closed'
  BY DEF BranchInv, Young, Unused, Led, Done, Accepted, OnBranch, AtHand, Closed, Gone
<1>2. ASSUME NEW o \in Servers \ {s} PROVE Here(o)'
  BY DEF BranchInv, Others, Here, HereYoung, Undoing, HandingOver, HereLed, Done, Task,
     HereAccepted, Recorded, OnBranch, HereClosed, Gone
<1> QED BY <1>1, <1>2 DEF BranchInv

LEMMA UndoneStep ==
  ASSUME Before, BranchInv, NEW s \in Servers, Undone(s)
  PROVE  BranchInv'
<1> USE DEF Undone, Ending, Return, Blank, Absent
<1>1. Here(s) /\ Known(my[s]) /\ Agrees(pc[s], my[s], cand[s]) /\ WorkTypes
  BY DEF Before, BranchInv, WorkInv
<1>2. Others(s)
  BY <1>1, CountAssumption DEF Others, WorkTypes, Before, TypeOK
<1>3. HereYoung(s)'
  BY <1>1 DEF WorkTypes, HereYoung, Undoing, Starting
<1>4. HereLed(s)'
  BY <1>1 DEF WorkTypes, HereLed
<1>5. HereAccepted(s)'
  BY <1>1 DEF Here, WorkTypes, HereAccepted, OnBranch, Past
<1>6. HereClosed(s)'
  BY <1>1 DEF WorkTypes, Before, TypeOK, HereClosed, Halts
<1> QED BY <1>2, <1>3, <1>4, <1>5, <1>6, Quiet DEF Here

LEMMA ReadStateStep ==
  ASSUME Before, BranchInv, NEW s \in Servers, ReadState(s)
  PROVE  BranchInv'
<1> USE DEF ReadState, Readable
<1>1. Here(s) /\ Known(my[s]) /\ Agrees(pc[s], my[s], cand[s]) /\ WorkTypes
  BY DEF Before, BranchInv, WorkInv
<1>2. Others(s)
  BY <1>1, CountAssumption DEF Others, WorkTypes, Before, TypeOK
<1>3. HereYoung(s)'
  BY <1>1 DEF HereYoung, Undoing, Starting
<1>4. HereLed(s)'
  BY <1>1 DEF HereLed
<1>5. HereAccepted(s)'
  BY <1>1
     DEF Here, HereAccepted, Recorded, Task, OnBranch, Past, Terminal, Halts, BranchInv,
         Accepted, AtHand
<1>6. HereClosed(s)'
  BY <1>1 DEF HereClosed
<1> QED BY <1>2, <1>3, <1>4, <1>5, <1>6, Quiet DEF Here

LEMMA ProveResumeStep ==
  ASSUME Before, BranchInv, NEW s \in Servers, ProveResume(s)
  PROVE  BranchInv'
<1> USE DEF ProveResume, Return, Blank, Absent
<1>1. Here(s) /\ Known(my[s]) /\ Agrees(pc[s], my[s], cand[s]) /\ WorkTypes
  BY DEF Before, BranchInv, WorkInv
<1>2. Others(s)
  BY <1>1, CountAssumption DEF Others, WorkTypes, Before, TypeOK
<1>3. HereYoung(s)'
  BY <1>1 DEF WorkTypes, HereYoung, Undoing, Starting
<1>4. HereLed(s)'
  BY <1>1 DEF WorkTypes, HereLed
<1>5. HereAccepted(s)'
  BY <1>1
     DEF Here, Known, WorkTypes, Agrees, Promoting, Before, TypeOK, HereAccepted, OnBranch, Past
<1>6. HereClosed(s)'
  BY <1>1 DEF WorkTypes, HereClosed
<1> QED BY <1>2, <1>3, <1>4, <1>5, <1>6, Quiet DEF Here

LEMMA AbortStep ==
  ASSUME Before, BranchInv, NEW s \in Servers, Abort(s)
  PROVE  BranchInv'
<1> USE DEF Abort, Ending
<1>1. Here(s) /\ Known(my[s]) /\ Agrees(pc[s], my[s], cand[s]) /\ WorkTypes
  BY DEF Before, BranchInv, WorkInv
<1>2. Others(s)
  BY <1>1, CountAssumption DEF Others, WorkTypes, Before, TypeOK
<1>3. HereYoung(s)'
  BY <1>1 DEF HereYoung, Undoing, Starting
<1>4. HereLed(s)'
  BY <1>1 DEF HereLed
<1>5. HereAccepted(s)'
  BY <1>1 DEF Here, HereAccepted, OnBranch
<1>6. HereClosed(s)'
  BY <1>1 DEF WorkTypes, Before, TypeOK, HereClosed, Halts
<1> QED BY <1>2, <1>3, <1>4, <1>5, <1>6, Quiet DEF Here

LEMMA RunPipelineStep ==
  ASSUME Before, BranchInv, NEW s \in Servers, RunPipeline(s)
  PROVE  BranchInv'
<1> USE DEF RunPipeline, Ending
<1>1. Here(s) /\ Known(my[s]) /\ Agrees(pc[s], my[s], cand[s]) /\ WorkTypes
  BY DEF Before, BranchInv, WorkInv
<1>2. Others(s)
  BY <1>1, CountAssumption DEF Others, WorkTypes, Before, TypeOK
<1>3. HereYoung(s)'
  BY <1>1 DEF WorkTypes, HereYoung, Undoing, Starting
<1>4. HereLed(s)'
  BY <1>1 DEF WorkTypes, HereLed
<1>5. HereAccepted(s)'
  BY <1>1 DEF WorkTypes, HereAccepted, OnBranch, Past
<1>6. HereClosed(s)'
  BY <1>1 DEF WorkTypes, Before, TypeOK, HereClosed
<1> QED BY <1>2, <1>3, <1>4, <1>5, <1>6, Quiet DEF Here

LEMMA TakeCheckoutStep ==
  ASSUME Before, BranchInv, NEW s \in Servers, TakeCheckout(s)
  PROVE  BranchInv'
<1> USE DEF TakeCheckout
<1>1. Here(s) /\ Known(my[s]) /\ Agrees(pc[s], my[s], cand[s]) /\ WorkTypes
  BY DEF Before, BranchInv, WorkInv
<1>2. Others(s)
  BY <1>1, CountAssumption DEF Others, WorkTypes, Before, TypeOK
<1>3. HereYoung(s)'
  BY <1>1 DEF WorkTypes, HereYoung, Undoing, Starting
<1>4. HereLed(s)'
  BY <1>1 DEF WorkTypes, HereLed
<1>5. HereAccepted(s)'
  BY <1>1 DEF Here, WorkTypes, HereAccepted, OnBranch
<1>6. HereClosed(s)'
  BY <1>1 DEF WorkTypes, HereClosed
<1> QED BY <1>2, <1>3, <1>4, <1>5, <1>6, Quiet DEF Here

LEMMA LockStateStep ==
  ASSUME Before, BranchInv, NEW s \in Servers, LockState(s)
  PROVE  BranchInv'
<1> USE DEF LockState, NotPromoted, Ending, Writable
<1>0. my[s].at \in Tasks
  BY DEF Before, WorkInv, Known, Sound, Agrees, Promoting, Working
<1>1. Here(s) /\ Known(my[s]) /\ Agrees(pc[s], my[s], cand[s]) /\ WorkTypes
  BY DEF Before, BranchInv, WorkInv
<1>2. Others(s)
  BY <1>1, CountAssumption DEF Others, WorkTypes, Before, TypeOK
<1>3. HereYoung(s)'
  BY <1>1 DEF WorkTypes, HereYoung, Undoing, Starting
<1>4. HereLed(s)'
  BY <1>1, Heads, Codes, <1>0 DEF WorkTypes, HereLed, Done, Task, Validated
<1>5. HereAccepted(s)'
  BY <1>1 DEF Here, WorkTypes, HereAccepted, Recorded, Task, OnBranch, Committed
<1>6. HereClosed(s)'
  BY <1>1 DEF WorkTypes, Before, TypeOK, HereClosed, Halts
<1> QED BY <1>2, <1>3, <1>4, <1>5, <1>6, Quiet DEF Here

LEMMA LeaveStateStep ==
  ASSUME Before, BranchInv, NEW s \in Servers, LeaveState(s)
  PROVE  BranchInv'
<1> USE DEF LeaveState
<1>1. Here(s) /\ Known(my[s]) /\ Agrees(pc[s], my[s], cand[s]) /\ WorkTypes
  BY DEF Before, BranchInv, WorkInv
<1>2. Others(s)
  BY <1>1, CountAssumption DEF Others, WorkTypes, Before, TypeOK
<1>3. HereYoung(s)'
  BY <1>1 DEF HereYoung, Undoing, Starting
<1>4. HereLed(s)'
  BY <1>1 DEF Here, HereLed, Done, Task
<1>5. HereAccepted(s)'
  BY <1>1 DEF Here, HereAccepted, OnBranch
<1>6. HereClosed(s)'
  BY <1>1 DEF HereClosed
<1> QED BY <1>2, <1>3, <1>4, <1>5, <1>6, Quiet DEF Here

LEMMA FreezeStep ==
  ASSUME Before, BranchInv, NEW s \in Servers, Freeze(s)
  PROVE  BranchInv'
<1> USE DEF Freeze, Ending
<1>1. Here(s) /\ Known(my[s]) /\ Agrees(pc[s], my[s], cand[s]) /\ WorkTypes
  BY DEF Before, BranchInv, WorkInv
<1>2. Others(s)
  BY <1>1, CountAssumption DEF Others, WorkTypes, Before, TypeOK
<1>3. HereYoung(s)'
  BY <1>1 DEF WorkTypes, HereYoung, Undoing, Starting
<1>4. HereLed(s)'
  BY <1>1 DEF WorkTypes, HereLed
<1>5. HereAccepted(s)'
  BY <1>1 DEF Here, WorkTypes, HereAccepted, OnBranch
<1>6. HereClosed(s)'
  BY <1>1 DEF WorkTypes, Before, TypeOK, HereClosed, Halts
<1> QED BY <1>2, <1>3, <1>4, <1>5, <1>6, Quiet DEF Here

LEMMA ReviewStep ==
  ASSUME Before, BranchInv, NEW s \in Servers, Review(s)
  PROVE  BranchInv'
<1> USE DEF Review, NotPromoted, Ending, Knows
<1>1. Here(s) /\ Known(my[s]) /\ Agrees(pc[s], my[s], cand[s]) /\ WorkTypes
  BY DEF Before, BranchInv, WorkInv
<1>2. Others(s)
  BY <1>1, CountAssumption DEF Others, WorkTypes, Before, TypeOK
<1>3. HereYoung(s)'
  BY <1>1 DEF WorkTypes, HereYoung, Undoing, Starting
<1>4. HereLed(s)'
  BY <1>1 DEF WorkTypes, HereLed
<1>5. HereAccepted(s)'
  BY <1>1 DEF Here, WorkTypes, HereAccepted, OnBranch
<1>6. HereClosed(s)'
  BY <1>1 DEF WorkTypes, Before, TypeOK, HereClosed, Halts
<1> QED BY <1>2, <1>3, <1>4, <1>5, <1>6, Quiet DEF Here

LEMMA PublishStep ==
  ASSUME Before, BranchInv, NEW s \in Servers, Publish(s)
  PROVE  BranchInv'
<1> USE DEF Publish
<1>1. Here(s) /\ Known(my[s]) /\ Agrees(pc[s], my[s], cand[s]) /\ WorkTypes
  BY DEF Before, BranchInv, WorkInv
<1>2. Others(s)
  BY <1>1, CountAssumption DEF Others, WorkTypes, Before, TypeOK
<1>3. HereYoung(s)'
  BY <1>1 DEF WorkTypes, HereYoung, Undoing, Starting
<1>4. HereLed(s)'
  BY <1>1 DEF WorkTypes, HereLed
<1>5. HereAccepted(s)'
  BY <1>1 DEF Here, WorkTypes, HereAccepted, OnBranch
<1>6. HereClosed(s)'
  BY <1>1 DEF WorkTypes, Before, TypeOK, HereClosed, Halts
<1> QED BY <1>2, <1>3, <1>4, <1>5, <1>6, Quiet DEF Here

LEMMA CheckCleanupStep ==
  ASSUME Before, BranchInv, NEW s \in Servers, CheckCleanup(s)
  PROVE  BranchInv'
<1> USE DEF CheckCleanup, CleanedUp, NotCleanedUp, NothingLeft, AsExpected, Finishing
<1>1. Here(s) /\ Known(my[s]) /\ Agrees(pc[s], my[s], cand[s]) /\ WorkTypes
  BY DEF Before, BranchInv, WorkInv
<1>2. Others(s)
  BY <1>1, CountAssumption DEF Others, WorkTypes, Before, TypeOK
<1>3. HereYoung(s)'
  BY <1>1 DEF Here, WorkTypes, HereYoung, Undoing, HandingOver, Starting
<1>4. HereLed(s)'
  BY <1>1 DEF WorkTypes, HereLed
<1>5. HereAccepted(s)'
  BY <1>1 DEF Here, WorkTypes, HereAccepted, OnBranch
<1>6. HereClosed(s)'
  BY <1>1 DEF WorkTypes, Before, TypeOK, HereClosed, HandingOver, Gone
<1> QED BY <1>2, <1>3, <1>4, <1>5, <1>6, Quiet DEF Here

LEMMA BootStep ==
  ASSUME Before, BranchInv, NEW s \in Servers, Boot(s)
  PROVE  BranchInv'
<1> USE DEF Boot
<1>1. Here(s) /\ Known(my[s]) /\ Agrees(pc[s], my[s], cand[s]) /\ WorkTypes
  BY DEF Before, BranchInv, WorkInv
<1>2. Others(s)
  BY <1>1, CountAssumption DEF Others, WorkTypes, Before, TypeOK
<1>3. HereYoung(s)'
  BY <1>1 DEF WorkTypes, HereYoung, Undoing, Starting, BranchInv, Young, Absent
<1>4. HereLed(s)'
  BY <1>1 DEF WorkTypes, HereLed
<1>5. HereAccepted(s)'
  BY <1>1 DEF Here, WorkTypes, HereAccepted, OnBranch
<1>6. HereClosed(s)'
  BY <1>1 DEF WorkTypes, HereClosed
<1> QED BY <1>2, <1>3, <1>4, <1>5, <1>6, Quiet DEF Here

-----------------------------------------------------------------------------
(* Steps that write to the journal *)

\* An entry that the journal may take: a promotion is complete when its commit is there, the
\* cleanup when only the branch is left.
Proper(key, event) ==
  /\ key \in Keys /\ intents' = [intents EXCEPT ![key] = event]
  /\ key # SpecKey => st.rev > 0
  /\ key \in Tasks /\ event = "completed" => Done(key)
  /\ key = CleanupKey => IF event = "completed" THEN Gone ELSE intents[key] # "completed"

LEMMA KeysIn ==
  CleanupKey \in Keys /\ CleanupKey \notin Tasks /\ CleanupKey # SpecKey /\ Tasks \subseteq Keys
BY CountAssumption DEF Keys, Tasks, CleanupKey, SpecKey

LEMMA Notes ==
  ASSUME Before, BranchInv, NEW s \in Servers, Others(s), Here(s)',
         UNCHANGED <<st, log, branch, base, tree, index, own, owner, dec>>,
         intents' = intents \/ \E key, event : Proper(key, event)
  PROVE  BranchInv'
<1>1. CASE intents' = intents
  BY <1>1, Quiet
<1>2. ASSUME NEW key, NEW event, Proper(key, event) PROVE BranchInv'
  <2>1. intents \in [Keys -> {"none", "begun"} \cup Ended]
    BY DEF Before, TypeOK
  <2>2. Young' /\ Accepted'
    BY <1>2, <2>1 DEF Proper, BranchInv, Young, Unused, Accepted, OnBranch, AtHand
  <2>3. CleanupKey \in Keys /\ CleanupKey \notin Tasks /\ Tasks \subseteq Keys
    BY KeysIn
  <2>4. Led'
    BY <1>2, <2>1, <2>3 DEF Proper, BranchInv, Led, Done
  <2>5. intents[CleanupKey] = "completed" => intents'[CleanupKey] = "completed"
    BY <1>2, <2>1, <2>3 DEF Proper
  <2>6. Closed'
    BY <1>2, <2>1, <2>3 DEF Proper, BranchInv, Closed, Gone
  <2>7. ASSUME NEW o \in Servers \ {s} PROVE Here(o)'
    BY <2>5 DEF BranchInv, Others, Here, HereYoung, Undoing, HandingOver, HereLed, Done, Task,
       HereAccepted, Recorded, OnBranch, HereClosed, Gone
  <2> QED BY <2>2, <2>4, <2>6, <2>7 DEF BranchInv
<1> QED BY <1>1, <1>2

LEMMA RecordSpecStep ==
  ASSUME Before, BranchInv, NEW s \in Servers, RecordSpec(s)
  PROVE  BranchInv'
<1> USE DEF RecordSpec, Note, NoteRefused, NotePart
<1>1. Here(s) /\ Known(my[s]) /\ Agrees(pc[s], my[s], cand[s]) /\ WorkTypes
  BY DEF Before, BranchInv, WorkInv
<1>2. Others(s) /\ UNCHANGED <<st, log, branch, base, tree, index, own, owner, dec>>
  BY <1>1, CountAssumption DEF Others, WorkTypes, Before, TypeOK
<1>0. owner = s
  BY <1>1, Sole DEF Drives, Places, WorkTypes
<1>3. intents' = intents \/ \E key, event : Proper(key, event)
  <2> SUFFICES ASSUME intents' # intents PROVE \E key, event : Proper(key, event)
    OBVIOUS
  <2>1. PICK event : intents' = [intents EXCEPT ![SpecKey] = event]
    OBVIOUS
  <2>2. SpecKey \in Keys /\ SpecKey \notin Tasks /\ SpecKey # CleanupKey
    BY CountAssumption DEF Keys, Tasks, CleanupKey, SpecKey
  <2>3. Proper(SpecKey, event)
    BY <2>1, <2>2 DEF Proper
  <2> QED
    BY <2>3
<1>4. HereYoung(s)'
  BY <1>1, <1>0, ServerAssumption DEF Here, WorkTypes, HereYoung, Undoing, Starting
<1>5. HereLed(s)'
  BY <1>1 DEF WorkTypes, HereLed
<1>6. HereAccepted(s)'
  BY <1>1 DEF Here, WorkTypes, HereAccepted, OnBranch
<1>7. HereClosed(s)'
  BY <1>1 DEF WorkTypes, HereClosed
<1> QED BY <1>2, <1>3, <1>4, <1>5, <1>6, <1>7, Notes DEF Here

LEMMA BeginPromotionStep ==
  ASSUME Before, BranchInv, NEW s \in Servers, BeginPromotion(s)
  PROVE  BranchInv'
<1> USE DEF BeginPromotion, Note, NoteRefused, NotePart, NotPromoted, Ending
<1>1. Here(s) /\ Known(my[s]) /\ Agrees(pc[s], my[s], cand[s]) /\ WorkTypes
  BY DEF Before, BranchInv, WorkInv
<1>2. Others(s) /\ UNCHANGED <<st, log, branch, base, tree, index, own, owner, dec>>
  BY <1>1, CountAssumption DEF Others, WorkTypes, Before, TypeOK
<1>3. intents' = intents \/ \E key, event : Proper(key, event)
  <2> SUFFICES ASSUME intents' # intents PROVE \E key, event : Proper(key, event)
    OBVIOUS
  <2>1. st.rev > 0 /\ Task(s) \in Tasks
    BY <1>1, Begun DEF Known, Sound, Working, Agrees, Promoting, Task
  <2>2. Task(s) \in Keys /\ Task(s) # CleanupKey
    BY <2>1, CountAssumption DEF Keys, Tasks, CleanupKey, SpecKey
  <2>3. PICK event : intents' = [intents EXCEPT ![Task(s)] = event]
                     /\ (event = "completed" => intents[Task(s)] = "completed")
    BY DEF Refused
  <2>4. Proper(Task(s), event)
    BY <2>1, <2>2, <2>3 DEF Proper, BranchInv, Led
  <2> QED
    BY <2>4
<1>4. HereYoung(s)'
  BY <1>1 DEF WorkTypes, HereYoung, Undoing, Starting
<1>5. HereLed(s)'
  BY <1>1 DEF WorkTypes, HereLed
<1>6. HereAccepted(s)'
  BY <1>1 DEF WorkTypes, HereAccepted, OnBranch, Past
<1>7. HereClosed(s)'
  BY <1>1 DEF WorkTypes, Before, TypeOK, HereClosed, Halts
<1> QED BY <1>2, <1>3, <1>4, <1>5, <1>6, <1>7, Notes DEF Here

LEMMA JournalPromotionStep ==
  ASSUME Before, BranchInv, NEW s \in Servers, JournalPromotion(s)
  PROVE  BranchInv'
<1> USE DEF JournalPromotion, Note, NoteRefused, NotePart, NotPromoted, Ending, Release
<1>1. Here(s) /\ Known(my[s]) /\ Agrees(pc[s], my[s], cand[s]) /\ WorkTypes
  BY DEF Before, BranchInv, WorkInv
<1>2. Others(s) /\ UNCHANGED <<st, log, branch, base, tree, index, own, owner, dec>>
  BY <1>1, CountAssumption DEF Others, WorkTypes, Before, TypeOK
<1>3. intents' = intents \/ \E key, event : Proper(key, event)
  <2> SUFFICES ASSUME intents' # intents PROVE \E key, event : Proper(key, event)
    OBVIOUS
  <2>1. st.rev > 0 /\ Task(s) \in Tasks
    BY <1>1, Begun DEF Known, Sound, Working, Agrees, Promoting, Task
  <2>2. Task(s) \in Keys /\ Task(s) # CleanupKey
    BY <2>1, CountAssumption DEF Keys, Tasks, CleanupKey, SpecKey
  <2>3. intents' = [intents EXCEPT ![Task(s)] = "completed"]
    OBVIOUS
  <2>4. Proper(Task(s), "completed")
    BY <1>1, <2>1, <2>2, <2>3 DEF Proper, Here, HereLed
  <2> QED
    BY <2>4
<1>4. HereYoung(s)'
  BY <1>1 DEF WorkTypes, HereYoung, Undoing, Starting
<1>5. HereLed(s)'
  BY <1>1 DEF Here, HereLed, Done, Task
<1>6. HereAccepted(s)'
  BY <1>1 DEF Here, WorkTypes, HereAccepted, OnBranch
<1>7. HereClosed(s)'
  BY <1>1 DEF WorkTypes, Before, TypeOK, HereClosed, Halts
<1> QED BY <1>2, <1>3, <1>4, <1>5, <1>6, <1>7, Notes DEF Here

LEMMA JournalRefusalStep ==
  ASSUME Before, BranchInv, NEW s \in Servers, JournalRefusal(s)
  PROVE  BranchInv'
<1> USE DEF JournalRefusal, Note, NoteRefused, NotePart, NotPromoted, Ending
<1>1. Here(s) /\ Known(my[s]) /\ Agrees(pc[s], my[s], cand[s]) /\ WorkTypes
  BY DEF Before, BranchInv, WorkInv
<1>2. Others(s) /\ UNCHANGED <<st, log, branch, base, tree, index, own, owner, dec>>
  BY <1>1, CountAssumption DEF Others, WorkTypes, Before, TypeOK
<1>3. intents' = intents \/ \E key, event : Proper(key, event)
  <2> SUFFICES ASSUME intents' # intents PROVE \E key, event : Proper(key, event)
    OBVIOUS
  <2>1. st.rev > 0 /\ Task(s) \in Tasks
    BY <1>1, Begun DEF Known, Sound, Working, Agrees, Promoting, Task
  <2>2. Task(s) \in Keys /\ Task(s) # CleanupKey
    BY <2>1, CountAssumption DEF Keys, Tasks, CleanupKey, SpecKey
  <2>3. intents' = [intents EXCEPT ![Task(s)] = "failed"]
    OBVIOUS
  <2>4. Proper(Task(s), "failed")
    BY <2>1, <2>2, <2>3 DEF Proper
  <2> QED
    BY <2>4
<1>4. HereYoung(s)'
  BY <1>1 DEF HereYoung, Undoing, Starting
<1>5. HereLed(s)'
  BY <1>1 DEF HereLed
<1>6. HereAccepted(s)'
  BY <1>1 DEF Here, HereAccepted, OnBranch
<1>7. HereClosed(s)'
  BY <1>1 DEF WorkTypes, Before, TypeOK, HereClosed, Halts
<1> QED BY <1>2, <1>3, <1>4, <1>5, <1>6, <1>7, Notes DEF Here

LEMMA BeginCleanupStep ==
  ASSUME Before, BranchInv, NEW s \in Servers, BeginCleanup(s)
  PROVE  BranchInv'
<1> USE DEF BeginCleanup, Note, NoteRefused, NotePart, Finishing, Return, Blank, Absent
<1>1. Here(s) /\ Known(my[s]) /\ Agrees(pc[s], my[s], cand[s]) /\ WorkTypes
  BY DEF Before, BranchInv, WorkInv
<1>2. Others(s) /\ UNCHANGED <<st, log, branch, base, tree, index, own, owner, dec>>
  BY <1>1, CountAssumption DEF Others, WorkTypes, Before, TypeOK
<1>3. intents' = intents \/ \E key, event : Proper(key, event)
  <2> SUFFICES ASSUME intents' # intents PROVE \E key, event : Proper(key, event)
    OBVIOUS
  <2>1. st.rev > 0 /\ CleanupKey \in Keys /\ CleanupKey \notin Tasks
    BY <1>1, Begun, CountAssumption
       DEF Here, HereClosed, HandingOver, Keys, Tasks, CleanupKey, SpecKey
  <2>2. intents' = [intents EXCEPT ![CleanupKey] = "begun"] /\ intents[CleanupKey] = "none"
    OBVIOUS
  <2>3. Proper(CleanupKey, "begun")
    BY <2>1, <2>2 DEF Proper
  <2> QED
    BY <2>3
<1>4. HereYoung(s)'
  BY <1>1 DEF WorkTypes, HereYoung, Undoing, HandingOver, Starting
<1>5. HereLed(s)'
  BY <1>1 DEF WorkTypes, HereLed
<1>6. HereAccepted(s)'
  BY <1>1 DEF Here, WorkTypes, HereAccepted, OnBranch, Past
<1>7. HereClosed(s)'
  BY <1>1 DEF WorkTypes, HereClosed
<1> QED BY <1>2, <1>3, <1>4, <1>5, <1>6, <1>7, Notes DEF Here

LEMMA JournalCleanupStep ==
  ASSUME Before, BranchInv, NEW s \in Servers, JournalCleanup(s)
  PROVE  BranchInv'
<1> USE DEF JournalCleanup, Note, NoteRefused, NotePart, Finishing, Return, Blank, Absent
<1>1. Here(s) /\ Known(my[s]) /\ Agrees(pc[s], my[s], cand[s]) /\ WorkTypes
  BY DEF Before, BranchInv, WorkInv
<1>2. Others(s) /\ UNCHANGED <<st, log, branch, base, tree, index, own, owner, dec>>
  BY <1>1, CountAssumption DEF Others, WorkTypes, Before, TypeOK
<1>3. intents' = intents \/ \E key, event : Proper(key, event)
  <2> SUFFICES ASSUME intents' # intents PROVE \E key, event : Proper(key, event)
    OBVIOUS
  <2>1. st.rev > 0 /\ CleanupKey \in Keys /\ CleanupKey \notin Tasks
    BY <1>1, Begun, CountAssumption
       DEF Here, HereClosed, HandingOver, Keys, Tasks, CleanupKey, SpecKey
  <2>2. intents' = [intents EXCEPT ![CleanupKey] = "completed"]
    OBVIOUS
  <2>3. Proper(CleanupKey, "completed")
    BY <1>1, <2>1, <2>2 DEF Proper, Here, HereClosed
  <2> QED
    BY <2>3
<1>4. HereYoung(s)'
  BY <1>1 DEF WorkTypes, HereYoung, Undoing, Starting
<1>5. HereLed(s)'
  BY <1>1 DEF WorkTypes, HereLed
<1>6. HereAccepted(s)'
  BY <1>1 DEF Here, WorkTypes, HereAccepted, Recorded, Task, OnBranch, Past, Terminal, Halts
<1>7. HereClosed(s)'
  BY <1>1, KeysIn DEF WorkTypes, Before, TypeOK, HereClosed
<1> QED BY <1>2, <1>3, <1>4, <1>5, <1>6, <1>7, Notes DEF Here

-----------------------------------------------------------------------------
(* Steps that change who has the lease or the branch *)

LEMMA Leases ==
  ASSUME Before, BranchInv, NEW s \in Servers, Others(s), Here(s)',
         UNCHANGED <<st, log, branch, base, tree, index, intents, dec>>,
         own = "none" => own' = "none", own' = "new" => own = "new",
         st.phase = "absent" => owner' = "none",
         \A o \in Servers \ {s} : HereYoung(o)'
  PROVE  BranchInv'
<1>1. Young' /\ Led' /\ Accepted' /\ Closed'
  BY DEF BranchInv, Young, Unused, Led, Done, Accepted, OnBranch, AtHand, Closed, Gone
<1>2. ASSUME NEW o \in Servers \ {s} PROVE Here(o)'
  BY DEF BranchInv, Others, Here, HandingOver, HereLed, Done, Task,
     HereAccepted, Recorded, OnBranch, HereClosed, Gone
<1> QED BY <1>1, <1>2 DEF BranchInv

LEMMA AcquireLeaseStep ==
  ASSUME Before, BranchInv, NEW s \in Servers, AcquireLease(s)
  PROVE  BranchInv'
<1> USE DEF AcquireLease, Acquire, LeasePart
<1>1. Here(s) /\ Known(my[s]) /\ Agrees(pc[s], my[s], cand[s]) /\ WorkTypes
  BY DEF Before, BranchInv, WorkInv
<1>2. Others(s) /\ UNCHANGED <<st, log, branch, base, tree, index, intents, dec>>
  BY <1>1, CountAssumption DEF Others, WorkTypes, Before, TypeOK
<1>3. st.phase = "absent" => owner' = "none"
  BY <1>1, ServerAssumption DEF BranchInv, Young, Agrees, Known
<1>4. \A o \in Servers \ {s} : HereYoung(o)'
  BY <1>1, <1>2, ServerAssumption
     DEF Others, BranchInv, Here, HereYoung, Undoing, HandingOver, Starting
<1>5. (own = "none" => own' = "none") /\ (own' = "new" => own = "new")
  BY ServerAssumption
<1>6. HereYoung(s)'
  BY <1>1, ServerAssumption DEF Here, WorkTypes, HereYoung, Undoing, Starting
<1>7. HereLed(s)'
  BY <1>1 DEF WorkTypes, HereLed
<1>8. HereAccepted(s)'
  BY <1>1 DEF Here, WorkTypes, HereAccepted, OnBranch
<1>9. HereClosed(s)'
  BY <1>1 DEF WorkTypes, HereClosed
<1> QED BY <1>2, <1>3, <1>4, <1>5, <1>6, <1>7, <1>8, <1>9, Leases DEF Here

LEMMA AdoptLeaseStep ==
  ASSUME Before, BranchInv, NEW s \in Servers, AdoptLease(s)
  PROVE  BranchInv'
<1> USE DEF AdoptLease, Adopt, LeasePart, Return, Blank, Absent
<1>1. Here(s) /\ Known(my[s]) /\ Agrees(pc[s], my[s], cand[s]) /\ WorkTypes
  BY DEF Before, BranchInv, WorkInv
<1>2. Others(s) /\ UNCHANGED <<st, log, branch, base, tree, index, intents, dec>>
  BY <1>1, CountAssumption DEF Others, WorkTypes, Before, TypeOK
<1>3. st.phase = "absent" => owner' = "none"
  BY <1>1, ServerAssumption DEF BranchInv, Young, Agrees, Known
<1>4. \A o \in Servers \ {s} : HereYoung(o)'
  BY <1>1, <1>2, ServerAssumption
     DEF Others, BranchInv, Here, HereYoung, Undoing, HandingOver, Starting
<1>5. (own = "none" => own' = "none") /\ (own' = "new" => own = "new")
  BY ServerAssumption
<1>6. HereYoung(s)'
  BY <1>1 DEF WorkTypes, HereYoung, Undoing, Starting
<1>7. HereLed(s)'
  BY <1>1 DEF WorkTypes, HereLed
<1>8. HereAccepted(s)'
  BY <1>1 DEF Here, WorkTypes, HereAccepted, OnBranch, Past
<1>9. HereClosed(s)'
  BY <1>1 DEF WorkTypes, HereClosed
<1> QED BY <1>2, <1>3, <1>4, <1>5, <1>6, <1>7, <1>8, <1>9, Leases DEF Here

LEMMA ReleaseLeaseStep ==
  ASSUME Before, BranchInv, NEW s \in Servers, ReleaseLease(s)
  PROVE  BranchInv'
<1> USE DEF ReleaseLease, GiveBack, Return, Blank, Absent
<1>1. Here(s) /\ Known(my[s]) /\ Agrees(pc[s], my[s], cand[s]) /\ WorkTypes
  BY DEF Before, BranchInv, WorkInv
<1>2. Others(s) /\ UNCHANGED <<st, log, branch, base, tree, index, intents, dec>>
  BY <1>1, CountAssumption DEF Others, WorkTypes, Before, TypeOK
<1>3. st.phase = "absent" => owner' = "none"
  BY <1>1, ServerAssumption DEF BranchInv, Young, Agrees, Known
<1>4. \A o \in Servers \ {s} : HereYoung(o)'
  BY <1>1, <1>2, ServerAssumption
     DEF Others, BranchInv, Here, HereYoung, Undoing, HandingOver, Starting
<1>5. (own = "none" => own' = "none") /\ (own' = "new" => own = "new")
  BY ServerAssumption
<1>6. HereYoung(s)'
  BY <1>1 DEF HereYoung, Undoing, Starting
<1>7. HereLed(s)'
  BY <1>1 DEF HereLed
<1>8. HereAccepted(s)'
  BY <1>1 DEF Here, HereAccepted, OnBranch, Past
<1>9. HereClosed(s)'
  BY <1>1 DEF HereClosed
<1> QED BY <1>2, <1>3, <1>4, <1>5, <1>6, <1>7, <1>8, <1>9, Leases DEF Here

LEMMA ExitStep ==
  ASSUME Before, BranchInv, NEW s \in Servers, Exit(s)
  PROVE  BranchInv'
<1> USE DEF Exit, Blank, Absent
<1>1. Here(s) /\ Known(my[s]) /\ Agrees(pc[s], my[s], cand[s]) /\ WorkTypes
  BY DEF Before, BranchInv, WorkInv
<1>2. Others(s) /\ UNCHANGED <<st, log, branch, base, tree, index, intents, dec>>
  BY <1>1, CountAssumption DEF Others, WorkTypes, Before, TypeOK
<1>3. st.phase = "absent" => owner' = "none"
  BY <1>1, ServerAssumption DEF BranchInv, Young, Agrees, Known
<1>4. \A o \in Servers \ {s} : HereYoung(o)'
  BY <1>1, <1>2, ServerAssumption
     DEF Others, BranchInv, Here, HereYoung, Undoing, HandingOver, Starting
<1>5. (own = "none" => own' = "none") /\ (own' = "new" => own = "new")
  BY ServerAssumption
<1>6. HereYoung(s)'
  BY <1>1 DEF WorkTypes, HereYoung, Undoing, Starting
<1>7. HereLed(s)'
  BY <1>1 DEF WorkTypes, HereLed
<1>8. HereAccepted(s)'
  BY <1>1 DEF WorkTypes, HereAccepted, OnBranch, Past
<1>9. HereClosed(s)'
  BY <1>1 DEF WorkTypes, HereClosed
<1> QED BY <1>2, <1>3, <1>4, <1>5, <1>6, <1>7, <1>8, <1>9, Leases DEF Here

LEMMA RemoveOwnershipStep ==
  ASSUME Before, BranchInv, NEW s \in Servers, RemoveOwnership(s)
  PROVE  BranchInv'
<1> USE DEF RemoveOwnership, Release, CleanedUp, NotCleanedUp, Finishing
<1>1. Here(s) /\ Known(my[s]) /\ Agrees(pc[s], my[s], cand[s]) /\ WorkTypes
  BY DEF Before, BranchInv, WorkInv
<1>2. Others(s) /\ UNCHANGED <<st, log, branch, base, tree, index, intents, dec>>
  BY <1>1, CountAssumption DEF Others, WorkTypes, Before, TypeOK
<1>3. st.phase = "absent" => owner' = "none"
  BY <1>1, ServerAssumption DEF BranchInv, Young, Agrees, Known
<1>4. \A o \in Servers \ {s} : HereYoung(o)'
  <2> SUFFICES ASSUME NEW o \in Servers \ {s} PROVE HereYoung(o)'
    OBVIOUS
  <2>1. pc[o] \notin Starting
    BY <1>1, Sole, ServerAssumption DEF Drives, BranchInv, Here, HereYoung, Undoing
  <2> QED
    BY <1>2, <2>1, ServerAssumption DEF Others, BranchInv, Here, HereYoung, Undoing, HandingOver
<1>5. (own = "none" => own' = "none") /\ (own' = "new" => own = "new")
  BY ServerAssumption
<1>6. HereYoung(s)'
  BY <1>1, ServerAssumption DEF Here, WorkTypes, HereYoung, Undoing, Starting
<1>7. HereLed(s)'
  BY <1>1 DEF WorkTypes, HereLed
<1>8. HereAccepted(s)'
  BY <1>1 DEF Here, WorkTypes, HereAccepted, OnBranch
<1>9. HereClosed(s)'
  BY <1>1 DEF Here, WorkTypes, Before, TypeOK, HereClosed, HandingOver, Gone
<1> QED BY <1>2, <1>3, <1>4, <1>5, <1>6, <1>7, <1>8, <1>9, Leases DEF Here

-----------------------------------------------------------------------------
(* Steps that replace the state *)

\* The states that may come next: the branch has what they say of it.
Proven(next) ==
  /\ next \in States /\ next.phase \notin {"absent", "preflighting"}
  /\ \A k \in Tasks : k < next.at => Done(k)
  /\ next.phase \in Past \cup {"ready-for-human-review"} => next.at = N + 1
  /\ \A c \in Candidates : dec[c] = "accepted" /\ AtHand(c) =>
       \/ OnBranch(c)
       \/ /\ c = [task |-> next.at, run |-> next.run[next.at]]
          /\ next.phase \in Halts \cup {"promoting-task"}
  /\ index \in Candidates => next.phase \in Halts \cup {"promoting-task"}
  /\ next.phase = "ready-for-human-review" => Gone

LEMMA Transitions ==
  ASSUME Before, BranchInv, NEW s \in Servers, NEW next, NEW place \in {"drive", "release"},
         Transition(s, next, place), Drives(s),
         my[s].rev = st.rev /\ <<st.phase, next.phase>> \in Edges => Proven(next)
  PROVE  BranchInv'
<1> USE DEF Transition
<1>1. WorkTypes /\ Known(my[s])
  BY DEF Before, WorkInv
<1>2. CASE WriteRefused(my[s].rev, next) /\ Return(s)
  <2>1. /\ Others(s)
        /\ UNCHANGED <<st, log, branch, base, tree, index, own, owner, intents, dec>>
    BY <1>1, <1>2 DEF WriteRefused, Return, Blank, Others, WorkTypes, Before, TypeOK
  <2>2. pc'[s] = "idle" /\ my'[s] = Absent
    BY <1>1, <1>2 DEF Return, Blank, WorkTypes
  <2>3. Here(s)'
    BY <2>2 DEF Absent, Here, HereYoung, Undoing, Starting, HereLed, HereAccepted, Past,
       HereClosed, HandingOver
  <2> QED BY <2>1, <2>3, Quiet
<1>3. CASE Moves(s, next, place)
  <2> USE DEF Moves, Write
  <2>1. my[s].rev = st.rev /\ st.phase # "absent"
    BY <1>3 DEF Writable, Readable
  <2>2. Proven(next) /\ <<st.phase, next.phase>> \in Edges
    BY <1>3, <2>1
  <2>3. /\ st'.phase = next.phase /\ st'.at = next.at /\ st'.run = next.run
        /\ st'.rev = st.rev + 1 /\ st.rev \in Nat
    BY <1>1, <1>3, <2>2 DEF Proven, States, WorkTypes
  <2>4. /\ Others(s) /\ my'[s] = st' /\ pc'[s] = place
        /\ UNCHANGED <<log, branch, base, tree, index, own, owner, intents, dec>>
    BY <1>1, <1>3 DEF Others, WorkTypes
  <2>5. Young' /\ Closed'
    BY <2>1, <2>2, <2>3, <2>4 DEF Proven, BranchInv, Young, Closed, Gone
  <2>6. Led'
    BY <2>2, <2>3, <2>4 DEF Proven, BranchInv, Led, Done
  <2>7. Accepted'
    BY <2>2, <2>3, <2>4 DEF Proven, BranchInv, Accepted, OnBranch, AtHand
  <2>8. st.phase \in Past \cup Terminal => next.phase \in Past \cup Terminal
    BY <2>2 DEF Edges, Past, Terminal, Active, Halts
  <2>9. ASSUME NEW o \in Servers \ {s} PROVE Here(o)'
    <3>1. pc[o] \notin Starting /\ ~Undoing(o)
      BY Sole
    <3>2. HereYoung(o)'
      BY <2>4, <3>1 DEF Others, HereYoung, Undoing, HandingOver, Starting
    <3>3. HereLed(o)' /\ HereClosed(o)'
      BY <2>4 DEF Others, BranchInv, Here, HereLed, Done, Task, HereClosed, HandingOver, Gone
    <3>4. HereAccepted(o)'
      BY <2>3, <2>4, <2>8 DEF Others, BranchInv, Here, HereAccepted, OnBranch, Recorded, Task
    <3> QED BY <3>2, <3>3, <3>4 DEF Here
  <2>10. HereAccepted(s)'
    BY <2>3, <2>4, <2>7 DEF HereAccepted, Accepted, AtHand, Past, Halts, Terminal
  <2>11. Here(s)'
    BY <2>4, <2>10 DEF Here, HereYoung, Undoing, Starting, HereLed, HereClosed
  <2> QED BY <2>5, <2>6, <2>7, <2>9, <2>11 DEF BranchInv
<1> QED BY <1>2, <1>3

LEMMA CreateStateStep ==
  ASSUME Before, BranchInv, NEW s \in Servers, CreateState(s)
  PROVE  BranchInv'
<1> USE DEF CreateState
<1>1. Here(s) /\ Agrees(pc[s], my[s], cand[s]) /\ WorkTypes
  BY DEF Before, BranchInv, WorkInv
<1>2. /\ pc[s] \in Starting /\ st.phase = "absent" /\ st.rev = 0 /\ own = s /\ owner = "none"
      /\ my[s].phase = "absent" /\ Others(s)
      /\ UNCHANGED <<log, branch, base, tree, index, own, owner, intents, dec>>
  BY <1>1 DEF Here, HereYoung, BranchInv, Young, Starting, Agrees, Create, Others, WorkTypes
<1>3. CASE UNCHANGED st
  <2>1. pc'[s] = "undo" /\ my'[s] = my[s]
    BY <1>1, <1>2, <1>3 DEF Create, WorkTypes, States
  <2>2. Here(s)'
    BY <1>2, <1>3, <2>1, ServerAssumption DEF Here, HereYoung, Undoing, HandingOver, Starting,
       HereLed, HereAccepted, Past, HereClosed
  <2> QED BY <1>2, <1>3, <2>2, Quiet
<1>4. CASE Create
  <2>1. /\ st'.rev = 0 /\ st'.at = st.at /\ st'.run = st.run /\ st'.phase = "preflighting"
    BY <1>1, <1>2, <1>4 DEF Create, WorkTypes, States
  <2>2. pc'[s] = "acquire" /\ my'[s] = st'
    BY <1>1, <1>2, <1>4, <2>1 DEF WorkTypes
  <2>3. Unused
    BY <1>2 DEF BranchInv, Young
  <2>4. Young' /\ Closed'
    BY <1>2, <2>1, <2>3, ServerAssumption, KeysIn DEF Young, Unused, Closed
  <2>5. Led'
    BY <1>2, <2>1, <2>3, KeysIn DEF Led, Unused, Past, Tasks, SpecKey
  <2>6. Accepted'
    BY <1>2, <2>1, <2>3 DEF Accepted, Unused
  <2>7. ASSUME NEW o \in Servers \ {s} PROVE Here(o)'
    <3>1. pc[o] \notin Starting
      BY <1>2 DEF BranchInv, Here, HereYoung
    <3>2. HereYoung(o)'
      BY <1>2, <2>1, <3>1 DEF Others, BranchInv, Here, HereYoung, Undoing, HandingOver, Starting
    <3>3. HereLed(o)' /\ HereClosed(o)'
      BY <1>2 DEF Others, BranchInv, Here, HereLed, Done, Task, HereClosed, HandingOver, Gone
    <3>4. my[o].phase \notin Past
      BY <1>2, Begun DEF Past
    <3>5. HereAccepted(o)'
      BY <1>2, <3>4 DEF Others, BranchInv, Here, HereAccepted, OnBranch, Recorded, Task
    <3> QED BY <3>2, <3>3, <3>5 DEF Here
  <2>8. Here(s)'
    BY <1>2, <2>1, <2>2, ServerAssumption DEF Here, HereYoung, Undoing, Starting, HereLed,
       HereAccepted, Past, HereClosed, HandingOver
  <2> QED BY <2>4, <2>5, <2>6, <2>7, <2>8 DEF BranchInv
<1> QED BY <1>3, <1>4 DEF CreateState

LEMMA BeginTaskStep ==
  ASSUME Before, BranchInv, NEW s \in Servers, BeginTask(s)
  PROVE  BranchInv'
<1> DEFINE next == [st EXCEPT !.phase = "running-task"]
<1>1. Transition(s, next, "drive") /\ Drives(s)
  BY DEF BeginTask, Drives, Places
<1>2. ASSUME my[s].rev = st.rev PROVE Proven(next)
  <2>1. st.phase = "preflighting" /\ st \in States
    BY <1>2 DEF BeginTask, Before, TypeOK, WorkInv, Known
  <2>2. next \in States /\ next.at = st.at /\ next.phase = "running-task"
    BY <2>1 DEF States, Active
  <2> QED
    BY <2>1, <2>2 DEF Proven, BranchInv, Led, Accepted, AtHand, Past, Halts
<1> QED BY <1>1, <1>2, Transitions

LEMMA RecordRunStep ==
  ASSUME Before, BranchInv, NEW s \in Servers, RecordRun(s)
  PROVE  BranchInv'
<1> DEFINE next == [st EXCEPT !.phase = "promoting-task", !.run[Task(s)] = cand[s]]
<1>1. Transition(s, next, "drive") /\ Drives(s)
  BY DEF RecordRun, Drives, Places
<1>2. ASSUME my[s].rev = st.rev PROVE Proven(next)
  <2>1. st.phase = "running-task" /\ st \in States /\ cand[s] \in 0..MaxRuns
    BY <1>2 DEF RecordRun, Before, TypeOK, WorkInv, Known, Agrees
  <2>2. next \in States /\ next.at = st.at /\ next.phase = "promoting-task"
    BY <2>1 DEF States, Active
  <2> QED
    BY <2>1, <2>2 DEF Proven, BranchInv, Led, Accepted, AtHand, Past, Halts
<1> QED BY <1>1, <1>2, Transitions

LEMMA AdvanceStep ==
  ASSUME Before, BranchInv, NEW s \in Servers, Advance(s)
  PROVE  BranchInv'
<1> DEFINE next == [st EXCEPT !.phase = IF Task(s) = N THEN "final-review" ELSE "running-task",
                              !.at = Task(s) + 1]
<1>1. Transition(s, next, "drive") /\ Drives(s)
  BY DEF Advance, Drives, Places
<1>2. ASSUME my[s].rev = st.rev PROVE Proven(next)
  <2>0. my[s] = st /\ st.phase = "promoting-task" /\ st \in States /\ st.at \in Tasks
    BY <1>2 DEF Advance, Before, TypeOK, WorkInv, Known, Agrees, Promoting, Working
  <2>1. /\ my[s] = st /\ st.phase = "promoting-task" /\ st \in States
        /\ st.at \in Tasks /\ st.at \in Nat /\ st.at + 1 \in 1..(N + 1)
    BY <2>0, CountAssumption DEF Tasks
  <2>2. /\ next \in States /\ next.at = st.at + 1
        /\ next.phase = IF st.at = N THEN "final-review" ELSE "running-task"
    BY <2>1 DEF States, Active, Task
  <2>3. Done(st.at) /\ index \notin Candidates
    BY <2>1 DEF Advance, BranchInv, Here, HereLed, Task
  <2>4. \A k \in Tasks : k < next.at => Done(k)
    BY <2>1, <2>2, <2>3 DEF BranchInv, Led, Tasks
  <2>5. OnBranch([task |-> st.at, run |-> st.run[st.at]])
    <3>1. st.at \in 1..Len(log)
      BY <2>1, <2>3, CountAssumption DEF Done, Tasks, Before, BranchFollows
    <3>2. log[st.at] = [task |-> st.at, run |-> st.run[st.at]]
      BY <2>3, <3>1 DEF Done, Before, BranchFollows, Placed
    <3> QED BY <3>1, <3>2 DEF OnBranch
  <2> HIDE DEF next
  <2> QED
    BY <2>1, <2>2, <2>3, <2>4, <2>5 DEF Proven, AtHand, Past, Halts, Tasks
<1> QED BY <1>1, <1>2, Transitions

LEMMA JudgeStep ==
  ASSUME Before, BranchInv, NEW s \in Servers, Judge(s)
  PROVE  BranchInv'
<1>1. CASE NotPromoted(s) /\ UNCHANGED <<store, git, chk, evidence>>
  <2>1. Others(s)
    BY <1>1 DEF NotPromoted, Ending, Others, Before, TypeOK
  <2>2. pc'[s] = "halt" /\ my'[s] = my[s] /\ why'[s] = "human-decision-required"
    BY <1>1 DEF NotPromoted, Ending, Before, TypeOK
  <2>3. Here(s)'
    BY <1>1, <2>2 DEF BranchInv, Here, HereYoung, Undoing, Starting, HereLed, HereAccepted,
       OnBranch, HereClosed, Halts
  <2> QED BY <1>1, <2>1, <2>3, Quiet
<1> DEFINE next == [st EXCEPT !.phase = "cleaning-up", !.gate = "eligible"]
<1>2. CASE Transition(s, next, "drive")
  <2>1. Drives(s)
    BY DEF Judge, Drives, Places
  <2>2. ASSUME <<st.phase, next.phase>> \in Edges PROVE Proven(next)
    <3>1. st \in States
      BY DEF Before, TypeOK
    <3>2. next \in States /\ next.at = st.at /\ next.phase = "cleaning-up"
      BY <3>1 DEF States, Active, Results
    <3>3. st.phase = "final-review"
      BY <2>2, <3>2 DEF Edges, Active, Halts
    <3> QED
      BY <3>2, <3>3 DEF Proven, BranchInv, Led, Accepted, AtHand, Past, Halts
  <2> QED BY <1>2, <2>1, <2>2, Transitions
<1> QED BY <1>1, <1>2 DEF Judge

LEMMA EndWorkflowStep ==
  ASSUME Before, BranchInv, NEW s \in Servers, EndWorkflow(s)
  PROVE  BranchInv'
<1> DEFINE next == [st EXCEPT !.phase = why[s],
                              !.gate = IF verdict[s] = "none" THEN @ ELSE verdict[s]]
<1>1. Transition(s, next, "release") /\ Drives(s)
  BY DEF EndWorkflow, Drives, Places
<1>2. ASSUME <<st.phase, next.phase>> \in Edges PROVE Proven(next)
  <2>1. st \in States /\ why[s] \in Terminal \cup {"none"} /\ verdict[s] \in Results
    BY DEF Before, TypeOK
  <2>2. next.at = st.at /\ next.run = st.run /\ next.phase = why[s]
    BY <2>1 DEF States
  <2>3. /\ why[s] \in Terminal /\ (why[s] \notin Halts => st.phase = "cleaning-up")
        /\ st.phase \notin Halts
    BY <1>2, <2>1, <2>2 DEF Edges, Active, Halts, Terminal
  <2>4. next \in States
    BY <2>1, <2>3 DEF States
  <2> HIDE DEF next
  <2>5. why[s] \notin Halts => Gone
    BY <2>3 DEF EndWorkflow, BranchInv, Here, HereClosed, Closed, Terminal
  <2>6. \A c \in Candidates : dec[c] = "accepted" /\ AtHand(c) => why[s] \in Halts
    BY <2>3 DEF AtHand, Halts
  <2>7. index \in Candidates => why[s] \in Halts
    BY <2>3 DEF BranchInv, Accepted, Halts
  <2> QED
    BY <2>2, <2>3, <2>4, <2>5, <2>6, <2>7
       DEF Proven, BranchInv, Led, AtHand, Past, Halts, Terminal
<1> QED BY <1>1, <1>2, Transitions

-----------------------------------------------------------------------------
(* Steps that change the branch, the worktree or the decisions *)

\* Before the first task nobody has begun one, and there is nothing to lose.
LEMMA Earlier ==
  ASSUME Before, BranchInv, st.rev = 0
  PROVE  Unused /\ \A s \in Servers : my[s].phase \in {"absent", "preflighting"}
BY Begun DEF BranchInv, Young

\* Commits are added, if anything.
Longer ==
  /\ Len(log') \in Nat /\ Len(log) <= Len(log')
  /\ \A i \in 1..Len(log) : log'[i] = log[i]

LEMMA LongerKeeps ==
  ASSUME Before, Longer
  PROVE  /\ \A k \in Tasks : Done(k) => Done(k)'
         /\ \A c : OnBranch(c) => OnBranch(c)'
<1>1. Len(log) \in Nat
  BY DEF Before, BranchFollows
<1>2. ASSUME NEW k \in Tasks, Done(k) PROVE Done(k)'
  <2>1. k \in 1..Len(log)
    BY <1>1, <1>2 DEF Done, Tasks
  <2> QED BY <1>1, <1>2, <2>1 DEF Longer, Done
<1>3. ASSUME NEW c, OnBranch(c) PROVE OnBranch(c)'
  <2>1. PICK i \in 1..Len(log) : log[i] \in {c, Foreign}
    BY <1>3 DEF OnBranch
  <2>2. i \in 1..Len(log') /\ log'[i] = log[i]
    BY <1>1, <2>1 DEF Longer
  <2> QED BY <2>1, <2>2 DEF OnBranch
<1> QED BY <1>2, <1>3

LEMMA StartBranchStep ==
  ASSUME Before, BranchInv, NEW s \in Servers, StartBranch(s)
  PROVE  BranchInv'
<1> USE DEF StartBranch
<1>1. st.phase = "absent" /\ st.rev = 0 /\ owner = "none" /\ WorkTypes
  BY DEF BranchInv, Young, Before, WorkInv
<1>2. Unused /\ \A o \in Servers : my[o].phase \in {"absent", "preflighting"}
  BY <1>1, Earlier
<1>3. /\ Others(s) /\ pc'[s] = "create" /\ log' = <<>> /\ index' = Clean /\ own' = s
      /\ UNCHANGED <<st, intents, dec, owner, my, why>>
  BY <1>1 DEF Others, WorkTypes
<1>4. Clean \notin Candidates
  BY DEF Clean, Candidates, Tasks
<1>5. Young' /\ Led' /\ Accepted' /\ Closed'
  BY <1>1, <1>2, <1>3, <1>4, KeysIn, ServerAssumption
     DEF Young, Unused, Led, Past, Accepted, Closed, Tasks, SpecKey
<1>6. ASSUME NEW o \in Servers \ {s} PROVE Here(o)'
  <2>1. pc[o] \notin Starting /\ ~Undoing(o) /\ pc'[o] = pc[o]
    BY <1>3 DEF Others, Before, CoverInv, OneStart, BranchInv, Here, HereYoung
  <2>2. pc[o] \notin Promoting
    BY <1>2 DEF Before, WorkInv, Agrees
  <2>3. HereYoung(o)' /\ HereLed(o)' /\ HereAccepted(o)'
    BY <1>2, <1>3, <2>1, <2>2 DEF HereYoung, Undoing, HandingOver, Starting, HereLed,
       HereAccepted, Promoting, Past
  <2>4. HereClosed(o)'
    BY <1>2, <1>3, <2>1 DEF BranchInv, Here, HereClosed, HandingOver
  <2> QED BY <2>3, <2>4 DEF Here
<1>7. Here(s)'
  BY <1>1, <1>2, <1>3, ServerAssumption DEF Here, HereYoung, Undoing, Starting, HereLed,
     HereAccepted, Past, HereClosed, HandingOver
<1> QED BY <1>5, <1>6, <1>7 DEF BranchInv

\* A step under the writer lock that leaves the state as it is and adds to the branch, if anything.
LEMMA LockedStep ==
  ASSUME Before, BranchInv, NEW s \in Servers, pc[s] \in Locking, Others(s), Longer,
         UNCHANGED <<st, branch, base, tree, own, owner, intents, my>>,
         \A c \in Candidates : dec[c] = "accepted" => dec'[c] = "accepted",
         HereLed(s)', HereAccepted(s)', HereClosed(s)', Accepted', pc'[s] \notin Starting,
         pc'[s] \notin {"undone", "undo", "removeTree", "removeRefs", "removeOwn"},
         index' \in {index, Clean, Dirt, Recorded(s)}
  PROVE  BranchInv'
<1>1. /\ st.rev > 0 /\ st.phase = "promoting-task"
      /\ \A o \in Servers \ {s} : pc[o] \notin Locking /\ my[o].phase \notin Past
  BY Locks
<1>2. \A o \in Servers \ {s} : pc[o] \notin Starting /\ ~Undoing(o) /\ ~Drives(o)
  BY Sole DEF Drives, Places, Locking
<1>3. Young' /\ Closed'
  BY <1>1 DEF BranchInv, Young, Closed, Gone
<1>4. Led'
  BY LongerKeeps DEF BranchInv, Led
<1>5. ASSUME NEW o \in Servers \ {s} PROVE Here(o)'
  <2>1. pc[o] \notin {"leave", "journal", "advance", "accept", "commit"}
    BY <1>2 DEF Drives, Places
  <2>2. HereYoung(o)' /\ HereLed(o)' /\ HereAccepted(o)'
    BY <1>1, <1>2, <2>1 DEF Others, BranchInv, Here, HereYoung, Undoing, HandingOver, Starting,
       HereLed, HereAccepted, Past
  <2>3. HereClosed(o)'
    BY DEF Others, BranchInv, Here, HereClosed, HandingOver, Gone
  <2> QED BY <2>2, <2>3 DEF Here
<1>6. HereYoung(s)'
  BY <1>1 DEF BranchInv, Young, HereYoung, Undoing, Starting
<1> QED BY <1>3, <1>4, <1>5, <1>6 DEF Here, BranchInv

LEMMA SameLog ==
  ASSUME Before, UNCHANGED log
  PROVE  Longer
BY DEF Before, BranchFollows, Longer

LEMMA StageStep ==
  ASSUME Before, BranchInv, NEW s \in Servers, Stage(s)
  PROVE  BranchInv'
<1> USE DEF Stage, Leave, LeaveJournalled, NotPromoted, Ending
<1>1. pc[s] \in Locking /\ WorkTypes /\ why \in [Servers -> Terminal \cup {"none"}]
  BY DEF Locking, Before, WorkInv, TypeOK
<1>2. /\ st = my[s] /\ st.phase = "promoting-task" /\ my[s].phase \notin Past
      /\ st.at \in Tasks /\ Recorded(s) = [task |-> st.at,
         run |-> st.run[st.at]] /\ Recorded(s) \in Candidates
  BY <1>1, Locks DEF Past
<1>3. /\ Others(s) /\ Longer /\ pc'[s] \in {"accept", "halt", "refuse"}
      /\ UNCHANGED <<st, log, branch, base, tree, own, owner, intents, my, dec>>
      /\ index' \in {index, Dirt} \/ (index = Clean /\ index' = Recorded(s))
      /\ pc'[s] = "accept" => index' = Recorded(s)
      /\ pc'[s] = "halt" => why'[s] = "human-decision-required"
  BY <1>1, SameLog DEF Others, WorkTypes
<1>4. Accepted'
  BY <1>2, <1>3, Codes DEF BranchInv, Accepted, OnBranch, AtHand
<1>5. HereLed(s)'
  <2>1. pc'[s] = "accept" => log = HeadOf(my[s])
    BY <1>1 DEF WorkTypes
  <2> QED BY <1>2, <1>3, <2>1, Heads DEF HereLed, Done, Task
<1>51. HereAccepted(s)' /\ HereClosed(s)'
  BY <1>2, <1>3 DEF HereAccepted, Recorded, Task, HereClosed, HandingOver, Past, Halts
<1>6. /\ pc'[s] \notin Starting /\ index' \in {index, Clean, Dirt, Recorded(s)}
      /\ pc'[s] \notin {"undone", "undo", "removeTree", "removeRefs", "removeOwn"}
  BY <1>3 DEF Starting
<1>7. \A c \in Candidates : dec[c] = "accepted" => dec'[c] = "accepted"
  BY <1>3
<1> HIDE DEF Stage, Leave, LeaveJournalled, NotPromoted, Ending
<1> QED BY <1>1, <1>3, <1>4, <1>5, <1>51, <1>6, <1>7, LockedStep

LEMMA AcceptStep ==
  ASSUME Before, BranchInv, NEW s \in Servers, Accept(s)
  PROVE  BranchInv'
<1> USE DEF Accept, LeaveJournalled
<1>1. /\ pc[s] \in Locking /\ WorkTypes
      /\ dec \in [Candidates -> {"none", "accepted", "other"}]
  BY DEF Locking, Before, WorkInv, TypeOK
<1>2. /\ st = my[s] /\ st.phase = "promoting-task" /\ my[s].phase \notin Past /\ st.at \in Tasks
      /\ Recorded(s) = [task |-> st.at, run |-> st.run[st.at]] /\ Recorded(s) \in Candidates
  BY <1>1, Locks DEF Past
<1>3. /\ Others(s) /\ Longer /\ pc'[s] \in {"leave", "commit", "refuse"}
      /\ UNCHANGED <<st, log, branch, base, tree, index, own, owner, intents, my, why>>
      /\ dec' = dec \/ dec' = [dec EXCEPT ![Recorded(s)] = "accepted"]
      /\ pc'[s] \in {"leave", "commit"} => dec'[Recorded(s)] = "accepted"
  BY <1>1, <1>2, SameLog DEF Others, WorkTypes
<1>4. OnBranch(Recorded(s)) \/ AtHand(Recorded(s))
  BY <1>2 DEF BranchInv, Here, HereAccepted, AtHand
<1>5. \A c \in Candidates : dec'[c] = dec[c] \/ (c = Recorded(s) /\ dec'[c] = "accepted")
  BY <1>1, <1>3
<1>6. Accepted'
  <2>1. \A i \in 1..Len(log) : log[i] # Foreign => log[i] \in Candidates
    BY DEF Before, TypeOK
  <2> QED
    BY <1>3, <1>4, <1>5, <2>1 DEF BranchInv, Accepted, OnBranch, AtHand
<1>7. my[s].at \in Tasks /\ (pc'[s] = "leave" => Committed(s))
  BY <1>1, <1>2 DEF WorkTypes
<1>8. HereLed(s)'
  BY <1>3, <1>7, Heads DEF BranchInv, Here, HereLed, Done, Task
<1>9. HereAccepted(s)' /\ HereClosed(s)'
  BY <1>2, <1>3 DEF HereAccepted, Recorded, Task, HereClosed, HandingOver, Past
<1>10. /\ pc'[s] \notin Starting /\ index' \in {index, Clean, Dirt, Recorded(s)}
       /\ pc'[s] \notin {"undone", "undo", "removeTree", "removeRefs", "removeOwn"}
  BY <1>3 DEF Starting
<1>11. \A c \in Candidates : dec[c] = "accepted" => dec'[c] = "accepted"
  BY <1>5
<1> HIDE DEF Accept, LeaveJournalled
<1> QED BY <1>1, <1>3, <1>6, <1>8, <1>9, <1>10, <1>11, LockedStep

LEMMA CommitStep ==
  ASSUME Before, BranchInv, NEW s \in Servers, Commit(s)
  PROVE  BranchInv'
<1> USE DEF Commit, Leave, LeaveJournalled, NotPromoted, Ending
<1>1. pc[s] \in Locking /\ WorkTypes /\ why \in [Servers -> Terminal \cup {"none"}]
  BY DEF Locking, Before, WorkInv, TypeOK
<1>2. /\ st = my[s] /\ st.phase = "promoting-task" /\ my[s].phase \notin Past
      /\ my[s].at \in Tasks /\ Recorded(s) \in Candidates
      /\ Recorded(s) = [task |-> st.at, run |-> st.run[st.at]]
  BY <1>1, Locks DEF Past
<1>3. /\ Others(s) /\ pc'[s] \in {"leave", "halt", "refuse"}
      /\ UNCHANGED <<st, branch, base, tree, own, owner, intents, my, dec>>
      /\ pc'[s] = "halt" => why'[s] = "human-decision-required"
  BY <1>1 DEF Others, WorkTypes
<1>4. /\ pc'[s] \notin Starting
      /\ pc'[s] \notin {"undone", "undo", "removeTree", "removeRefs", "removeOwn"}
      /\ \A c \in Candidates : dec[c] = "accepted" => dec'[c] = "accepted"
  BY <1>3 DEF Starting
<1>5. HereClosed(s)'
  BY <1>2, <1>3 DEF HereClosed, HandingOver, Past, Halts
<1>6. CASE UNCHANGED <<log, index>>
  <2>1. pc'[s] # "leave"
    <3> SUFFICES ASSUME log = HeadOf(my[s]), log' = Append(log, Recorded(s)) PROVE FALSE
      BY <1>1, <1>6 DEF WorkTypes
    <3> QED BY <1>2, <1>6, Heads DEF Committed
  <2>2. Longer /\ Accepted' /\ index' = index
    BY <1>3, <1>6, SameLog DEF BranchInv, Accepted, OnBranch, AtHand
  <2>3. HereLed(s)' /\ HereAccepted(s)'
    BY <1>2, <1>3, <2>1 DEF HereLed, HereAccepted
  <2> HIDE DEF Commit, Leave, LeaveJournalled, NotPromoted, Ending
  <2> QED BY <1>1, <1>3, <1>4, <1>5, <2>2, <2>3, LockedStep
<1>7. CASE log = HeadOf(my[s]) /\ log' = Append(log, Recorded(s)) /\ index' = Clean
  <2>1. Len(log) = st.at - 1 /\ log \in Seq(Commits) /\ st.at \in Nat
    BY <1>2, <1>7, Heads DEF Before, BranchFollows, Tasks
  <2>2. /\ Len(log') = Len(log) + 1 /\ log'[Len(log')] = Recorded(s)
        /\ \A i \in 1..Len(log) : log'[i] = log[i]
    BY <1>7, <2>1
  <2>3. Longer /\ Len(log) \in Nat
    BY <2>1, <2>2 DEF Longer
  <2>4. dec[Recorded(s)] = "accepted"
    BY DEF BranchInv, Here, HereAccepted
  <2>5. Accepted'
    <3>1. ASSUME NEW i \in 1..Len(log') PROVE log'[i] # Foreign => dec[log'[i]] = "accepted"
      <4>1. CASE i = Len(log')
        BY <2>2, <2>4, <4>1
      <4>2. CASE i # Len(log')
        <5>1. i \in 1..Len(log)
          BY <2>2, <2>3, <4>2
        <5> QED BY <2>2, <5>1 DEF BranchInv, Accepted
      <4> QED BY <4>1, <4>2
    <3>2. ASSUME NEW c \in Candidates, dec[c] = "accepted" PROVE OnBranch(c)'
      <4>1. CASE OnBranch(c)
        BY <2>3, <4>1, LongerKeeps
      <4>2. CASE AtHand(c)
        <5>1. c = Recorded(s) /\ Len(log') \in 1..Len(log')
          BY <1>2, <2>2, <2>3, <4>2 DEF AtHand
        <5> QED BY <2>2, <5>1 DEF OnBranch
      <4> QED BY <3>2, <4>1, <4>2 DEF BranchInv, Accepted
    <3> QED BY <1>3, <1>7, <3>1, <3>2, Codes DEF Accepted
  <2>6. HereLed(s)'
    <3>1. my'[s].at = Len(log') /\ log'[Len(log')] # Foreign
      BY <1>2, <1>3, <2>1, <2>2, Codes
    <3> QED BY <1>3, <1>7, <3>1, Codes DEF HereLed, Done, Task
  <2>7. HereAccepted(s)'
    BY <1>2, <1>3 DEF HereAccepted
  <2> HIDE DEF Commit, Leave, LeaveJournalled, NotPromoted, Ending
  <2> QED BY <1>1, <1>3, <1>4, <1>5, <1>7, <2>3, <2>5, <2>6, <2>7, LockedStep
<1> QED BY <1>6, <1>7

LEMMA RemoveTreeStep ==
  ASSUME Before, BranchInv, NEW s \in Servers, RemoveTree(s)
  PROVE  BranchInv'
<1> USE DEF RemoveTree, Release, NotCleanedUp, Finishing
<1>1. /\ Here(s) /\ WorkTypes /\ why \in [Servers -> Terminal \cup {"none"}]
  BY DEF BranchInv, Before, WorkInv, TypeOK
<1>2. /\ Others(s) /\ my' = my
      /\ UNCHANGED <<st, log, branch, base, own, owner, intents, dec>>
      /\ pc'[s] = "removeRefs" => tree' = FALSE
      /\ index' \in {index, Clean}
      /\ pc'[s] = "removeRefs" \/ (pc'[s] = "finish" /\ why'[s] = "failed" /\ HandingOver(s))
           \/ (pc'[s] = "undone" /\ ~HandingOver(s))
  BY <1>1 DEF Others, WorkTypes
<1>3. Here(s)'
  <2>1. HereYoung(s)' /\ HereLed(s)' /\ HereClosed(s)'
    BY <1>1, <1>2 DEF Here, HereYoung, Undoing, HandingOver, Starting, HereLed, HereClosed
  <2>2. HereAccepted(s)'
    BY <1>1, <1>2, Codes DEF Here, HereAccepted, OnBranch
  <2> QED BY <2>1, <2>2 DEF Here
<1>4. CASE UNCHANGED <<tree, index>>
  BY <1>2, <1>3, <1>4, Quiet
<1>5. CASE tree' = FALSE /\ index' = Clean
  <2>1. index \notin Candidates /\ \A c \in Candidates : dec[c] = "accepted" => OnBranch(c)
    BY <1>1, Earlier DEF Here, HereYoung, Undoing, HereAccepted, HandingOver, Past, Unused
  <2>2. \A o \in Servers \ {s} : pc[o] # "accept"
    <3>1. CASE HandingOver(s)
      BY <3>1, Sole DEF Drives, Places
    <3>2. CASE ~HandingOver(s)
      BY <1>1, <3>2, Earlier DEF Here, HereYoung, Undoing, Before, WorkInv, Agrees, Promoting
    <3> QED BY <3>1, <3>2
  <2>3. Young' /\ Led' /\ Accepted' /\ Closed'
    BY <1>2, <1>5, <2>1, Codes DEF BranchInv, Young, Unused, Led, Done, Accepted, OnBranch,
       AtHand, Closed, Gone
  <2>4. ASSUME NEW o \in Servers \ {s} PROVE Here(o)'
    BY <1>2, <1>5, <2>2, Codes DEF BranchInv, Others, Here, HereYoung, Undoing, HandingOver,
       HereLed, Done, Task, HereAccepted, Recorded, OnBranch, HereClosed, Gone
  <2> QED BY <1>3, <2>3, <2>4 DEF BranchInv
<1> QED BY <1>4, <1>5

LEMMA RemoveRefsStep ==
  ASSUME Before, BranchInv, NEW s \in Servers, RemoveRefs(s)
  PROVE  BranchInv'
<1> USE DEF RemoveRefs, Release, NotCleanedUp, Finishing
<1>1. /\ Here(s) /\ WorkTypes /\ why \in [Servers -> Terminal \cup {"none"}]
  BY DEF BranchInv, Before, WorkInv, TypeOK
<1>2. /\ Others(s) /\ my' = my
      /\ UNCHANGED <<st, tree, index, own, owner, intents, dec>>
      /\ pc'[s] = "removeOwn" \/ (pc'[s] = "finish" /\ why'[s] = "failed" /\ HandingOver(s))
           \/ (pc'[s] = "undone" /\ ~HandingOver(s))
      /\ pc'[s] = "removeOwn" => ~base' /\ (HandingOver(s) => branch' = branch)
  BY <1>1 DEF Others, WorkTypes
<1>3. HereYoung(s)' /\ HereLed(s)' /\ HereClosed(s)'
  BY <1>1, <1>2 DEF Here, HereYoung, Undoing, HandingOver, Starting, HereLed, HereClosed
<1>4. CASE UNCHANGED <<branch, log>> /\ base' \in {base, FALSE}
  <2>1. HereAccepted(s)'
    BY <1>1, <1>2, <1>4 DEF Here, HereAccepted, OnBranch, Recorded, Task
  <2>2. Young' /\ Led' /\ Accepted' /\ Closed'
    BY <1>2, <1>4
       DEF BranchInv, Young, Unused, Led, Done, Accepted, OnBranch, AtHand, Closed, Gone
  <2>3. ASSUME NEW o \in Servers \ {s} PROVE Here(o)'
    BY <1>2, <1>4 DEF BranchInv, Others, Here, HereYoung, Undoing, HandingOver,
       HereLed, Done, Task, HereAccepted, Recorded, OnBranch, HereClosed, Gone
  <2> QED BY <1>3, <2>1, <2>2, <2>3 DEF BranchInv, Here
<1>5. CASE ~HandingOver(s) /\ branch' = FALSE /\ log' = <<>> /\ base' = FALSE
  <2>1. st.rev = 0
    BY <1>1, <1>5 DEF Here, HereYoung, Undoing
  <2>2. Unused /\ \A o \in Servers : my[o].phase \in {"absent", "preflighting"}
    BY <2>1, Earlier
  <2>3. Young' /\ Led' /\ Accepted' /\ Closed'
    BY <1>2, <1>5, <2>2, KeysIn DEF BranchInv, Young, Unused, Led, Past, Accepted, Closed, Tasks,
       SpecKey
  <2>4. ASSUME NEW o \in Servers PROVE pc'[o] \notin Promoting /\ my'[o].phase \notin Past
    BY <1>2, <2>2 DEF Others, Before, WorkInv, Agrees, Promoting, Past
  <2>5. ASSUME NEW o \in Servers PROVE HereLed(o)' /\ HereAccepted(o)'
    BY <2>4 DEF HereLed, HereAccepted, Promoting
  <2>6. ASSUME NEW o \in Servers \ {s} PROVE HereYoung(o)' /\ HereClosed(o)'
    BY <1>2, <2>2 DEF Others, BranchInv, Here, HereYoung, Undoing, HereClosed, HandingOver
  <2> QED BY <1>3, <2>3, <2>5, <2>6 DEF BranchInv, Here
<1> QED BY <1>4, <1>5

-----------------------------------------------------------------------------
(* Exits inside a step, and the user *)

LEMMA CutOffStep ==
  ASSUME Before, BranchInv, NEW s \in Servers, CutOff(s)
  PROVE  BranchInv'
<1>1. /\ Here(s) /\ WorkTypes /\ Known(my[s]) /\ Agrees(pc[s], my[s], cand[s])
  BY DEF BranchInv, Before, WorkInv
<1>2. /\ Others(s) /\ UNCHANGED <<my, why>> /\ pc'[s] = "dying"
      /\ UNCHANGED <<st, log, branch, base, tree, own, dec>>
  BY <1>1 DEF CutOff, NotePart, LeasePart, Others, WorkTypes
<1>3. HereYoung(s)' /\ HereLed(s)' /\ HereClosed(s)'
  BY <1>2 DEF HereYoung, Undoing, Starting, HereLed, HereClosed
<1>4. index' = index => HereAccepted(s)'
  BY <1>1, <1>2 DEF Here, HereAccepted, OnBranch, Recorded, Task
<1>5. ASSUME NEW e \in Writing(s), intents[e[2]] \notin Ended, NotePart(e[2], e[3]),
   index' = index
      PROVE  BranchInv'
  <2>1. owner' = owner /\ (intents' = intents \/ intents' = [intents EXCEPT ![e[2]] = e[3]])
    BY <1>5 DEF NotePart
  <2>2. \/ e[2] = SpecKey
        \/ e[2] = Task(s) /\ pc[s] = "journal" /\ e[3] = "completed"
        \/ e[2] = Task(s) /\ pc[s] = "refuse" /\ e[3] = "failed"
        \/ e[2] = Task(s) /\ InPhase(s, "promoting-task") /\ e[3] = "begun"
        \/ e[2] = CleanupKey /\ pc[s] = "cleaned" /\ e[3] = "completed"
        \/ e[2] = CleanupKey /\ InPhase(s, "cleaning-up") /\ e[3] = "begun"
    BY <1>5 DEF Writing
  <2>3. SpecKey \in Keys /\ SpecKey \notin Tasks
    BY CountAssumption DEF SpecKey, Keys, CleanupKey, Tasks
  <2>4. Here(s)'
    BY <1>3, <1>4, <1>5 DEF Here
  <2>5. CASE intents' = intents
    BY <1>2, <1>5, <2>1, <2>4, <2>5, Notes
  <2>6. ASSUME Proper(e[2], e[3]) PROVE BranchInv'
    BY <1>2, <1>5, <2>1, <2>4, <2>6, Notes
  <2>7. CASE intents' # intents /\ e[2] = SpecKey
    BY <2>1, <2>3, <2>6, <2>7, KeysIn DEF Proper
  <2>8. CASE /\ intents' # intents /\ e[2] = Task(s)
             /\ \/ pc[s] = "journal" /\ e[3] = "completed"
                \/ pc[s] = "refuse" /\ e[3] = "failed"
                \/ InPhase(s, "promoting-task") /\ e[3] = "begun"
    <3>1. my[s].phase = "promoting-task"
      BY <1>1, <2>8 DEF Agrees, Promoting
    <3>2. st.rev > 0 /\ Task(s) \in Tasks
      BY <1>1, <3>1, Begun DEF Known, Sound, Working, Task
    <3>3. pc[s] = "journal" => Done(Task(s))
      BY <1>1 DEF Here, HereLed
    <3> QED BY <2>1, <2>6, <2>8, <3>2, <3>3, KeysIn DEF Proper
  <2>9. CASE /\ intents' # intents /\ e[2] = CleanupKey
             /\ \/ pc[s] = "cleaned" /\ e[3] = "completed"
                \/ InPhase(s, "cleaning-up") /\ e[3] = "begun"
    <3>1. my[s].phase = "cleaning-up"
      BY <1>1, <2>9 DEF Here, HereClosed, HandingOver
    <3>2. st.rev > 0
      BY <3>1, Begun
    <3>3. pc[s] = "cleaned" => Gone
      BY <1>1 DEF Here, HereClosed
    <3>4. intents[CleanupKey] # "completed"
      BY <1>5, <2>9 DEF Ended
    <3> QED BY <2>1, <2>6, <2>9, <3>2, <3>3, <3>4, KeysIn DEF Proper
  <2> QED BY <2>2, <2>5, <2>7, <2>8, <2>9
<1>6. CASE /\ pc[s] \in {"acquire", "read"} /\ owner' \in {"none", "empty"} /\ index' = index
           /\ intents' = intents /\ owner = (IF pc[s] = "read" THEN "dead" ELSE "none")
  <2>1. st.phase = "absent" => owner' = "none"
    BY <1>1, <1>6 DEF BranchInv, Young, Agrees, Known
  <2>2. \A o \in Servers \ {s} : HereYoung(o)'
    BY <1>1, <1>2, <1>6, ServerAssumption
       DEF Others, BranchInv, Here, HereYoung, Undoing, HandingOver, Starting
  <2>3. Here(s)'
    BY <1>3, <1>4, <1>6 DEF Here
  <2> QED BY <1>2, <1>6, <2>1, <2>2, <2>3, Leases
<1>7. CASE /\ pc[s] = "stage" /\ index = Clean /\ index' = Dirt
           /\ UNCHANGED <<owner, intents>>
  <2>1. pc[s] \in Locking /\ my[s].phase = "promoting-task"
    BY <1>1, <1>7 DEF Locking, Agrees, Promoting
  <2>2. Longer
    BY <1>2, SameLog
  <2>3. Accepted'
    BY <1>2, <1>7, Codes DEF BranchInv, Accepted, OnBranch, AtHand
  <2>4. HereAccepted(s)'
    BY <1>2, <2>1 DEF HereAccepted, Past
  <2>5. /\ pc'[s] \notin Starting /\ index' \in {index, Clean, Dirt, Recorded(s)}
        /\ pc'[s] \notin {"undone", "undo", "removeTree", "removeRefs", "removeOwn"}
        /\ \A c \in Candidates : dec[c] = "accepted" => dec'[c] = "accepted"
    BY <1>2, <1>7 DEF Starting
  <2> QED BY <1>2, <1>3, <1>7, <2>1, <2>2, <2>3, <2>4, <2>5, LockedStep
<1> QED BY <1>5, <1>6, <1>7 DEF CutOff, LeasePart

LEMMA UserCommitsStep ==
  ASSUME Before, BranchInv, UserCommits
  PROVE  BranchInv'
<1>1. /\ log' = Append(log, Foreign) /\ index' = Clean
      /\ UNCHANGED <<st, branch, base, tree, own, owner, intents, dec, pc, my, why>>
  BY DEF UserCommits
<1>2. log \in Seq(Commits) /\ Len(log) \in Nat
  BY DEF Before, BranchFollows
<1>3. /\ Len(log') = Len(log) + 1 /\ log'[Len(log')] = Foreign
      /\ \A i \in 1..Len(log) : log'[i] = log[i]
  BY <1>1, <1>2
<1>4. Longer /\ \A c : OnBranch(c)'
  <2>1. Len(log') \in 1..Len(log')
    BY <1>2, <1>3
  <2> QED BY <1>2, <1>3, <2>1 DEF Longer, OnBranch
<1>5. \A k \in Tasks : Done(k) => Done(k)'
  BY <1>4, LongerKeeps
<1>6. \A i \in 1..Len(log') : log'[i] = Foreign \/ (i \in 1..Len(log) /\ log'[i] = log[i])
  BY <1>2, <1>3
<1>7. Young' /\ Led' /\ Accepted' /\ Closed'
  BY <1>1, <1>4, <1>5, <1>6, Codes DEF BranchInv, Young, Unused, Led, Accepted, Closed, Gone
<1>8. ASSUME NEW s \in Servers PROVE Here(s)'
  <2>1. pc[s] \in {"leave", "journal", "advance"} => Task(s) \in Tasks
    BY DEF Before, WorkInv, Known, Sound, Agrees, Promoting, Working, Task
  <2>2. HereLed(s)'
    BY <1>1, <1>5, <2>1, Codes DEF BranchInv, Here, HereLed, Task
  <2>3. HereYoung(s)' /\ HereClosed(s)'
    BY <1>1 DEF BranchInv, Here, HereYoung, Undoing, HandingOver, HereClosed, Gone
  <2>4. HereAccepted(s)'
    BY <1>1, <1>4, Codes DEF BranchInv, Here, HereAccepted, Recorded, Task
  <2> QED BY <2>2, <2>3, <2>4 DEF Here
<1> QED BY <1>7, <1>8 DEF BranchInv

LEMMA UserEditsStep ==
  ASSUME Before, BranchInv, UserEdits
  PROVE  BranchInv'
<1>1. /\ index' = Dirt /\ index # Dirt
      /\ UNCHANGED <<st, log, branch, base, tree, own, owner, intents, dec, pc, my, why>>
  BY DEF UserEdits
<1>2. Young' /\ Led' /\ Accepted' /\ Closed'
  BY <1>1, Codes DEF BranchInv, Young, Unused, Led, Done, Accepted, OnBranch, AtHand, Closed, Gone
<1>3. ASSUME NEW s \in Servers PROVE Here(s)'
  BY <1>1, Codes DEF BranchInv, Here, HereYoung, Undoing, HandingOver, HereLed, Done, Task,
     HereAccepted, Recorded, OnBranch, HereClosed, Gone
<1> QED BY <1>2, <1>3 DEF BranchInv

LEMMA UserDecidesStep ==
  ASSUME Before, BranchInv, UserDecides
  PROVE  BranchInv'
<1>1. /\ \A c \in Candidates : dec[c] = "accepted" <=> dec'[c] = "accepted"
      /\ UNCHANGED <<st, log, branch, base, tree, index, own, owner, intents, pc, my, why>>
  BY DEF UserDecides, Before, TypeOK
<1>2. \A i \in 1..Len(log) : log[i] # Foreign => log[i] \in Candidates
  BY DEF Before, TypeOK
<1>3. Young' /\ Led' /\ Accepted' /\ Closed'
  BY <1>1, <1>2
     DEF BranchInv, Young, Unused, Led, Done, Accepted, OnBranch, AtHand, Closed, Gone
<1>4. ASSUME NEW s \in Servers PROVE Here(s)'
  <2>1. pc[s] = "commit" => Recorded(s) \in Candidates
    BY RecordedTyped DEF Before, Promoting
  <2> QED
    BY <1>1, <2>1 DEF BranchInv, Here, HereYoung, Undoing, HandingOver, HereLed, Done, Task,
       HereAccepted, Recorded, OnBranch, HereClosed, Gone
<1> QED BY <1>3, <1>4 DEF BranchInv

-----------------------------------------------------------------------------
(* The invariant *)

LEMMA BranchInit == Init => BranchInv
<1> SUFFICES ASSUME Init PROVE BranchInv
  OBVIOUS
<1>1. Unused
  BY Codes DEF Init, StoreInit, Absent, Unused, Keys
<1>2. Young /\ Led /\ Accepted /\ Closed
  BY <1>1, KeysIn, CountAssumption
     DEF Init, StoreInit, Absent, Young, Unused, Led, Tasks, Past, Accepted, Closed,
     SpecKey
<1>3. \A s \in Servers : Here(s)
  BY DEF Init, Absent, Here, HereYoung, Undoing, Starting, HereLed, HereAccepted, Past,
     HereClosed, HandingOver
<1> QED BY <1>2, <1>3 DEF BranchInv

LEMMA BranchNext == Before /\ BranchInv /\ [Next]_vars => BranchInv'
<1> SUFFICES ASSUME Before, BranchInv, [Next]_vars PROVE BranchInv'
  OBVIOUS
<1>1. CASE UNCHANGED vars
  BY <1>1 DEF vars, BranchInv, Young, Unused, Led, Done, Accepted, OnBranch, AtHand, Closed, Gone,
     Here, HereYoung, Undoing, HandingOver, HereLed, Task, HereAccepted, Recorded, HereClosed
<1>2. ASSUME NEW s \in Servers, Staying(s) PROVE BranchInv'
  BY <1>2, StartBranchStep, AcquireLeaseStep, RecordSpecStep, UndoneStep, ReadStateStep,
     AdoptLeaseStep, ProveResumeStep, AbortStep, RunPipelineStep, BeginPromotionStep,
     TakeCheckoutStep, LockStateStep, StageStep, AcceptStep, CommitStep, LeaveStateStep,
     JournalPromotionStep, JournalRefusalStep, FreezeStep, ReviewStep, PublishStep,
     BeginCleanupStep, CheckCleanupStep, RemoveTreeStep, RemoveRefsStep, RemoveOwnershipStep,
     JournalCleanupStep, ReleaseLeaseStep, BootStep, CutOffStep, ExitStep
     DEF Staying
<1>3. ASSUME NEW s \in Servers, Moving(s) PROVE BranchInv'
  BY <1>3, CreateStateStep, BeginTaskStep, RecordRunStep, AdvanceStep, JudgeStep, EndWorkflowStep
     DEF Moving
<1> QED
  BY <1>1, <1>2, <1>3, UserCommitsStep, UserEditsStep, UserDecidesStep DEF Next, Staying, Moving

LEMMA Invariant == Spec => [](Before /\ BranchInv)
<1>1. Spec => []WorkInv /\ []OneDriver /\ []BranchFollows /\ []CoverInv /\ []TypeOK
  BY WorkInvAlways, OnlyOwnerDrives, BranchFollowsInit, BranchFollowsNext, CoverAlways,
     TypeCorrect,
     PTL DEF Spec
<1>2. Spec => []Before
  BY <1>1, PTL DEF Before
<1> QED BY <1>2, BranchInit, BranchNext, PTL DEF Spec

\* What the state and the journal say was promoted is on the branch, whatever is cut off between
\* the commit and the journal or the state, and the branch is at most one commit ahead of the
\* state (CandidatePromoter.promote, transition).
THEOREM BranchIsAhead == Spec => []BranchLeads
<1>1. Before /\ BranchInv => BranchLeads
  <2> SUFFICES ASSUME Before, BranchInv PROVE BranchLeads
    OBVIOUS
  <2>1. Len(log) \in Nat /\ st.at \in 1..(N + 1)
    BY DEF Before, BranchFollows, TypeOK, States
  <2>2. st.at - 1 <= Len(log)
    <3>1. CASE st.at = 1
      BY <2>1, <3>1
    <3>2. CASE st.at # 1
      <4>1. st.at - 1 \in Tasks /\ st.at - 1 < st.at
        BY <2>1, <3>2, CountAssumption DEF Tasks
      <4> QED BY <4>1 DEF BranchInv, Led, Done
    <3> QED BY <3>1, <3>2
  <2>3. \A i \in 1..Len(log) : log[i] # Foreign => i <= st.at
    <3> SUFFICES ASSUME NEW i \in 1..Len(log), log[i] # Foreign PROVE i <= st.at
      OBVIOUS
    <3>1. Placed(i)
      BY DEF Before, BranchFollows
    <3> QED BY <2>1, <3>1 DEF Placed
  <2>4. \A k \in Tasks : intents[k] = "completed" => k <= Len(log) /\ log[k] # Foreign
    BY DEF BranchInv, Led, Done
  <2> QED BY <2>2, <2>3, <2>4 DEF BranchLeads
<1> QED BY <1>1, Invariant, PTL

\* Every commit of the workflow was accepted first, and what was accepted is staged or committed,
\* unless somebody else has changed the worktree since (ensureAcceptedDecision).
THEOREM AcceptedFirst == Spec => []AcceptedAsStaged
<1>1. BranchInv => AcceptedAsStaged
  BY DEF BranchInv, Accepted, AtHand, OnBranch, AcceptedAsStaged
<1> QED BY <1>1, Invariant, PTL

\* A branch is handed over with a commit for every task, and with nothing left that is private to
\* the workflow, however often its cleanup was cut off (cleanupLocked, finishCleanup).
THEOREM HandsOverWhole == Spec => []HandedOverWhole
<1>1. Before /\ BranchInv => HandedOverWhole
  <2> SUFFICES ASSUME Before, BranchInv, st.phase = "ready-for-human-review"
               PROVE  branch /\ ~tree /\ ~base /\ own = "none" /\ Len(log) >= N
    BY DEF HandedOverWhole
  <2>1. N \in Tasks /\ N < st.at
    BY CountAssumption DEF BranchInv, Led, Tasks
  <2>2. N <= Len(log)
    BY <2>1 DEF BranchInv, Led, Done
  <2>3. Gone
    BY DEF BranchInv, Closed
  <2> QED BY <2>2, <2>3, CountAssumption DEF Gone, Before, BranchFollows
<1> QED BY <1>1, Invariant, PTL

-----------------------------------------------------------------------------
(* The abstract workflow *)

\* The promotions are those of the first tasks, as many as were begun and, perhaps, the next one.
LEMMA PromotionsAre ==
  ASSUME Before, BranchInv
  PROVE  /\ Promotions = 1..(st.at - 1) \/ (Promotions = 1..st.at /\ st.at \in Tasks)
         /\ st.at \in 1..(N + 1)
<1>1. Len(log) \in Nat /\ st.at \in 1..(N + 1) /\ N \in Nat
  BY CountAssumption DEF Before, BranchFollows, TypeOK, States
<1>2. ASSUME NEW i \in Promotions PROVE i \in Tasks /\ i <= st.at
  <2>1. Placed(i)
    BY <1>2 DEF Promotions, Before, BranchFollows
  <2> QED BY <1>1, <2>1 DEF Placed, Tasks
<1>3. ASSUME NEW i \in Tasks, i < st.at PROVE i \in Promotions
  BY <1>1, <1>3 DEF BranchInv, Led, Done, Promotions, Tasks
<1>4. CASE st.at \in Promotions
  <2>1. ASSUME NEW i \in Promotions PROVE i \in 1..st.at
    BY <1>1, <1>2, <2>1 DEF Tasks
  <2>2. ASSUME NEW i \in 1..st.at PROVE i \in Promotions
    <3>1. i \in Tasks /\ i <= st.at
      BY <1>1, <1>2, <1>4 DEF Tasks
    <3> QED BY <1>1, <1>3, <1>4, <3>1 DEF Tasks
  <2> QED BY <1>1, <1>2, <1>4, <2>1, <2>2
<1>5. CASE st.at \notin Promotions
  <2>1. ASSUME NEW i \in Promotions PROVE i \in 1..(st.at - 1)
    <3>1. i \in Tasks /\ i <= st.at /\ i # st.at
      BY <1>2, <1>5
    <3> QED BY <1>1, <3>1 DEF Tasks
  <2>2. ASSUME NEW i \in 1..(st.at - 1) PROVE i \in Promotions
    <3>1. i \in Tasks /\ i < st.at
      BY <1>1 DEF Tasks
    <3> QED BY <1>3, <3>1
  <2> QED BY <1>1, <2>1, <2>2
<1> QED BY <1>4, <1>5

LEMMA Counted ==
  ASSUME NEW n \in Nat
  PROVE  Cardinality(1..n) = n
<1>1. 1 \in Int /\ n \in Int
  OBVIOUS
<1>2. Cardinality(1..n) = IF 1 > n THEN 0 ELSE n - 1 + 1
  BY <1>1, FS_Interval
<1> QED BY <1>2

\* The steps that touch neither the state nor the branch.
Passing(s) ==
  \/ AcquireLease(s) \/ RecordSpec(s) \/ Undone(s) \/ ReadState(s) \/ AdoptLease(s)
  \/ ProveResume(s) \/ Abort(s) \/ RunPipeline(s) \/ BeginPromotion(s) \/ TakeCheckout(s)
  \/ LockState(s) \/ Stage(s) \/ Accept(s) \/ LeaveState(s) \/ JournalPromotion(s)
  \/ JournalRefusal(s) \/ Freeze(s) \/ Review(s) \/ Publish(s) \/ BeginCleanup(s)
  \/ CheckCleanup(s) \/ RemoveTree(s) \/ RemoveOwnership(s) \/ JournalCleanup(s) \/ ReleaseLease(s)
  \/ Boot(s) \/ CutOff(s) \/ Exit(s)

LEMMA PassingKeeps ==
  ASSUME NEW s \in Servers, Passing(s)
  PROVE  UNCHANGED <<st, log>>
<1>1. AcquireLease(s) => UNCHANGED <<st, log>>
  BY DEF AcquireLease, Acquire, LeasePart
<1>2. RecordSpec(s) => UNCHANGED <<st, log>>
  BY DEF RecordSpec, Note, NoteRefused, NotePart
<1>3. Undone(s) => UNCHANGED <<st, log>>
  BY DEF Undone
<1>4. ReadState(s) => UNCHANGED <<st, log>>
  BY DEF ReadState
<1>5. AdoptLease(s) => UNCHANGED <<st, log>>
  BY DEF AdoptLease, Adopt, LeasePart
<1>6. ProveResume(s) => UNCHANGED <<st, log>>
  BY DEF ProveResume
<1>7. Abort(s) => UNCHANGED <<st, log>>
  BY DEF Abort
<1>8. RunPipeline(s) => UNCHANGED <<st, log>>
  BY DEF RunPipeline
<1>9. BeginPromotion(s) => UNCHANGED <<st, log>>
  BY DEF BeginPromotion, Note, NoteRefused, NotePart
<1>10. TakeCheckout(s) => UNCHANGED <<st, log>>
  BY DEF TakeCheckout
<1>11. LockState(s) => UNCHANGED <<st, log>>
  BY DEF LockState
<1>12. Stage(s) => UNCHANGED <<st, log>>
  BY DEF Stage
<1>13. Accept(s) => UNCHANGED <<st, log>>
  BY DEF Accept
<1>14. LeaveState(s) => UNCHANGED <<st, log>>
  BY DEF LeaveState
<1>15. JournalPromotion(s) => UNCHANGED <<st, log>>
  BY DEF JournalPromotion, Note, NoteRefused, NotePart
<1>16. JournalRefusal(s) => UNCHANGED <<st, log>>
  BY DEF JournalRefusal, Note, NoteRefused, NotePart
<1>17. Freeze(s) => UNCHANGED <<st, log>>
  BY DEF Freeze
<1>18. Review(s) => UNCHANGED <<st, log>>
  BY DEF Review
<1>19. Publish(s) => UNCHANGED <<st, log>>
  BY DEF Publish
<1>20. BeginCleanup(s) => UNCHANGED <<st, log>>
  BY DEF BeginCleanup, Note, NoteRefused, NotePart
<1>21. CheckCleanup(s) => UNCHANGED <<st, log>>
  BY DEF CheckCleanup
<1>22. RemoveTree(s) => UNCHANGED <<st, log>>
  BY DEF RemoveTree
<1>23. RemoveOwnership(s) => UNCHANGED <<st, log>>
  BY DEF RemoveOwnership
<1>24. JournalCleanup(s) => UNCHANGED <<st, log>>
  BY DEF JournalCleanup, Note, NoteRefused, NotePart
<1>25. ReleaseLease(s) => UNCHANGED <<st, log>>
  BY DEF ReleaseLease, GiveBack
<1>26. Boot(s) => UNCHANGED <<st, log>>
  BY DEF Boot
<1>27. CutOff(s) => UNCHANGED <<st, log>>
  BY DEF CutOff, NotePart, LeasePart
<1>28. Exit(s) => UNCHANGED <<st, log>>
  BY DEF Exit
<1> QED
  BY <1>1, <1>2, <1>3, <1>4, <1>5, <1>6, <1>7, <1>8, <1>9, <1>10, <1>11, <1>12, <1>13, <1>14,
     <1>15, <1>16, <1>17, <1>18, <1>19, <1>20, <1>21, <1>22, <1>23, <1>24, <1>25, <1>26, <1>27,
     <1>28 DEF Passing

\* Only a commit adds to the promotions; nothing but the end of a start takes from the branch.
LEMMA PromotionsStay ==
  ASSUME Before, BranchInv, [Next]_vars, ~(\E s \in Servers : Commit(s))
  PROVE  Promotions' = Promotions
<1>1. CASE log' = log
  BY <1>1 DEF Promotions
<1>2. CASE log' = <<>> /\ st.rev = 0
  BY <1>2, Earlier DEF Unused, Promotions
<1>3. CASE UserCommits
  <2>1. log \in Seq(Commits) /\ log' = Append(log, Foreign) /\ Len(log) \in Nat
    BY <1>3 DEF UserCommits, Before, BranchFollows
  <2>2. /\ Len(log') = Len(log) + 1 /\ log'[Len(log) + 1] = Foreign
        /\ \A i \in 1..Len(log) : log'[i] = log[i]
    BY <2>1
  <2>3. 1..Len(log') = 1..Len(log) \cup {Len(log) + 1}
    BY <2>1, <2>2
  <2> QED BY <2>2, <2>3 DEF Promotions
<1>4. ASSUME NEW s \in Servers, StartBranch(s) PROVE log' = <<>> /\ st.rev = 0
  BY <1>4 DEF StartBranch, BranchInv, Young
<1>5. ASSUME NEW s \in Servers, RemoveRefs(s) PROVE log' = log \/ (log' = <<>> /\ st.rev = 0)
  BY <1>5 DEF RemoveRefs, BranchInv, Here, HereYoung, Undoing
<1>6. ASSUME NEW s \in Servers, Staying(s), ~Commit(s), ~StartBranch(s), ~RemoveRefs(s)
      PROVE  log' = log
  BY <1>6, PassingKeeps DEF Staying, Passing
<1>7. ASSUME NEW s \in Servers, Moving(s) PROVE log' = log
  BY <1>7
     DEF Moving, CreateState, BeginTask, RecordRun, Advance, Judge, EndWorkflow, Transition, git
<1>8. CASE UserEdits \/ UserDecides \/ UNCHANGED vars
  BY <1>1, <1>8 DEF UserEdits, UserDecides, vars, git
<1> QED
  BY <1>1, <1>2, <1>3, <1>4, <1>5, <1>6, <1>7, <1>8 DEF Next, Staying, Moving

\* A workflow that has ended stays as it ended.
LEMMA EndStays ==
  ASSUME [Next]_vars
  PROVE  st' = st \/ st.phase \notin Terminal
<1>1. ASSUME NEW s \in Servers, Staying(s) PROVE st' = st
  <2>1. Commit(s) \/ StartBranch(s) \/ RemoveRefs(s) => st' = st
    BY DEF Commit, StartBranch, RemoveRefs
  <2> QED BY <1>1, <2>1, PassingKeeps DEF Staying, Passing
<1>2. ASSUME NEW s \in Servers, NEW next, NEW place, Transition(s, next, place)
      PROVE  st' = st \/ st.phase \notin Terminal
  BY <1>2 DEF Transition, Moves, WriteRefused, Write, Edges, Active, Halts, Terminal
<1>3. ASSUME NEW s \in Servers, CreateState(s) PROVE st' = st \/ st.phase \notin Terminal
  BY <1>3 DEF CreateState, Create, Terminal, Halts
<1>4. ASSUME NEW s \in Servers, Moving(s) PROVE st' = st \/ st.phase \notin Terminal
  BY <1>2, <1>3, <1>4 DEF Moving, BeginTask, RecordRun, Advance, Judge, EndWorkflow
<1>5. UserCommits \/ UserEdits \/ UserDecides \/ UNCHANGED vars => st' = st
  BY DEF UserCommits, UserEdits, UserDecides, vars
<1> QED BY <1>1, <1>4, <1>5 DEF Next, Staying, Moving

LEMMA CommitPromotes ==
  ASSUME Before, BranchInv, NEW s \in Servers, Commit(s), Before', BranchInv'
  PROVE  \/ UNCHANGED <<st, log>>
         \/ /\ st' = st /\ st.phase = "promoting-task" /\ st.at \in Tasks
            /\ Promotions = 1..(st.at - 1) /\ Promotions' = 1..st.at
<1>1. st' = st /\ pc[s] \in Locking
  BY DEF Commit, Locking
<1>2. my[s] = st /\ st.phase = "promoting-task" /\ st.at \in Tasks /\ Recorded(s) \in Candidates
  BY <1>1, Locks
<1>3. CASE log = HeadOf(my[s]) /\ log' = Append(log, Recorded(s))
  <2>1. Len(log) = st.at - 1 /\ log \in Seq(Commits) /\ st.at \in Nat
    BY <1>2, <1>3, Heads DEF Before, BranchFollows, Tasks
  <2>2. Len(log') = st.at /\ log'[st.at] # Foreign
    BY <1>2, <1>3, <2>1, Codes
  <2>3. st.at \notin Promotions /\ (st.at \in Promotions)'
    BY <1>1, <1>2, <2>1, <2>2, CountAssumption DEF Promotions, Tasks
  <2>4. Promotions = 1..(st.at - 1)
    BY <2>1, <2>3, PromotionsAre
  <2>5. Promotions' = 1..st.at
    <3>1. (Promotions = 1..(st.at - 1) \/ Promotions = 1..st.at)'
      BY PromotionsAre, PTL
    <3> QED BY <1>1, <2>1, <2>3, <3>1
  <2> QED BY <1>1, <1>2, <2>4, <2>5
<1> QED BY <1>1, <1>3 DEF Commit

LEMMA StepsImplement ==
  ASSUME Before, BranchInv, [Next]_vars, Before', BranchInv'
  PROVE  [Abstract!Next]_(Abstract!vars)
<1>1. CASE Promotions' = Promotions
  <2>1. CASE st' = st
    BY <1>1, <2>1 DEF Outcome, Abstract!vars
  <2>2. CASE st.phase \notin Terminal
    <3>1. Outcome = "open"
      BY <2>2 DEF Outcome, Terminal
    <3>2. CASE Outcome' = "open"
      BY <1>1, <3>1, <3>2 DEF Abstract!vars
    <3>3. CASE Outcome' = "halted"
      BY <1>1, <3>1, <3>3 DEF Abstract!Next, Abstract!Halt
    <3>4. CASE st'.phase = "ready-for-human-review"
      <4>1. st'.at = N + 1 /\ N \in Nat
        BY <3>4, CountAssumption DEF BranchInv, Led
      <4>2. (Promotions = 1..(st.at - 1) \/ st.at \in Tasks)'
        BY PromotionsAre, PTL
      <4>3. Promotions' = 1..N
        BY <4>1, <4>2 DEF Tasks
      <4>4. Cardinality(Promotions) = N
        BY <1>1, <4>1, <4>3, Counted
      <4>5. Outcome' = "handed over"
        BY <3>4 DEF Outcome
      <4> QED BY <1>1, <3>1, <4>4, <4>5 DEF Abstract!Next, Abstract!HandOver
    <3> QED BY <3>2, <3>3, <3>4 DEF Outcome
  <2> QED BY <2>1, <2>2, EndStays
<1>2. ASSUME NEW s \in Servers, Commit(s) PROVE [Abstract!Next]_(Abstract!vars)
  <2>1. CASE UNCHANGED <<st, log>>
    BY <1>1, <2>1 DEF Promotions
  <2>2. CASE /\ st' = st /\ st.phase = "promoting-task" /\ st.at \in Tasks
             /\ Promotions = 1..(st.at - 1) /\ Promotions' = 1..st.at
    <3>1. st.at \in Nat /\ st.at - 1 \in Nat /\ st.at - 1 < N
      BY <2>2, CountAssumption DEF Tasks
    <3>2. Cardinality(Promotions) = st.at - 1 /\ Cardinality(Promotions') = st.at
      BY <2>2, <3>1, Counted
    <3>3. Outcome = "open" /\ Outcome' = "open"
      BY <2>2 DEF Outcome, Halts
    <3> QED BY <3>1, <3>2, <3>3 DEF Abstract!Next, Abstract!Promote
  <2> QED BY <1>2, <2>1, <2>2, CommitPromotes
<1> QED BY <1>1, <1>2, PromotionsStay

\* The workflow implements AtomicWorkflow: whichever servers drive it and wherever they exit, it
\* promotes each task once, ends once, is handed over only with all promotions, and promotes
\* nothing after its end.
THEOREM IsAtomicWorkflow == Spec => ImplementsAtomicWorkflow
<1>1. Init => Abstract!Init
  <2> SUFFICES ASSUME Init PROVE Abstract!Init
    OBVIOUS
  <2>1. Promotions = {}
    BY DEF Init, Promotions
  <2>2. Outcome = "open"
    BY DEF Init, StoreInit, Absent, Outcome, Halts
  <2> QED BY <2>1, <2>2, FS_EmptySet DEF Abstract!Init
<1>2. Before /\ BranchInv /\ (Before /\ BranchInv)' /\ [Next]_vars =>
        [Abstract!Next]_(Abstract!vars)
  BY StepsImplement
<1> QED BY <1>1, <1>2, Invariant, PTL DEF Spec, ImplementsAtomicWorkflow, Abstract!Spec
=============================================================================
