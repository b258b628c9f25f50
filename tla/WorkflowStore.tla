---------------------------- MODULE WorkflowStore ----------------------------
(***************************************************************************)
(* The durable record of one Autopilot workflow                            *)
(* (src/autopilot/workflow-store.ts): state.json with its revision and     *)
(* phase, the intent journal and the checkpoint of it that the state       *)
(* carries, the writer lock and the lease of the server that drives the    *)
(* workflow.                                                               *)
(*                                                                         *)
(* An operation under the writer lock is one step, which can fail or be    *)
(* cut off by an exit with a part of its effects.  A writer lock of an     *)
(* exited process is retired by the next writer: it counts as free.        *)
(***************************************************************************)
EXTENDS Naturals, FiniteSets

CONSTANTS
  Servers,
  N,       \* tasks of the workflow
  MaxRuns, \* bound: pipeline runs of one task
  Faults   \* of "io": an operation may fail; "abort": the request may be cancelled;
           \* "user": somebody works in the worktree and decides on candidates

ASSUME CountAssumption == N \in Nat \ {0} /\ MaxRuns \in Nat \ {0}
ASSUME ServerAssumption == {"none", "free", "dead", "empty", "new"} \cap Servers = {}

May(fault) == fault \in Faults

VARIABLES
  st,      \* state.json: revision, phase, task at hand, the run recorded for each task, final gate
  cp,      \* entries of the journal that the state's checkpoint covers
  intents, \* what the journal says of each intent
  torn,    \* the journal ends in part of a line
  writer,  \* state.lock
  owner    \* owner.json: the server that drives the workflow

store == <<st, cp, intents, torn, writer, owner>>

Tasks == 1..N
\* The intents: the specification, the promotion of each task, the cleanup.
SpecKey == 0
CleanupKey == N + 1
Keys == SpecKey..CleanupKey

Halts == {"human-decision-required", "failed", "cancelled"}
Active == {"preflighting", "running-task", "promoting-task", "final-review", "cleaning-up"}
Terminal == Halts \cup {"ready-for-human-review"}

Edges ==
  {<<"preflighting", "running-task">>, <<"running-task", "promoting-task">>,
   <<"promoting-task", "running-task">>, <<"promoting-task", "final-review">>,
   <<"final-review", "cleaning-up">>, <<"cleaning-up", "ready-for-human-review">>}
    \cup Active \X Halts

Absent == [rev |-> 0, phase |-> "absent", at |-> 1, run |-> [k \in Tasks |-> 0], gate |-> "none"]

StoreInit ==
  /\ st = Absent /\ cp = 0
  /\ intents = [k \in Keys |-> "none"] /\ torn = FALSE
  /\ writer = "free" /\ owner = "none"

Ended == {"completed", "failed"}
Entries(journal) ==
  Cardinality({k \in Keys : journal[k] # "none"}) + Cardinality({k \in Keys : journal[k] \in Ended})

\* A state whose checkpoint the journal does not reach is refused by every operation.
Readable == st.phase # "absent" /\ cp <= Entries(intents)

Writable == writer = "free" /\ Readable
Refused == May("io") \/ ~Writable

-----------------------------------------------------------------------------
(* State *)

Create ==
  /\ writer = "free" /\ st.phase = "absent"
  /\ st' = [st EXCEPT !.phase = "preflighting"]
  /\ UNCHANGED <<cp, intents, torn, writer, owner>>

\* Mutant: the revision is not compared.
WriteUnchecked(rev, next) ==
  /\ Writable
  /\ st' = [next EXCEPT !.rev = st.rev + 1] /\ cp' = Entries(intents)
  /\ UNCHANGED <<intents, torn, writer, owner>>

\* transition: the revision the caller saw, a legal edge, and the checkpoint brought up to date.
Write(rev, next) ==
  /\ Writable /\ st.rev = rev /\ <<st.phase, next.phase>> \in Edges
  /\ st' = [next EXCEPT !.rev = st.rev + 1] /\ cp' = Entries(intents)
  /\ UNCHANGED <<intents, torn, writer, owner>>

WriteRefused(rev, next) ==
  /\ Refused \/ st.rev # rev \/ <<st.phase, next.phase>> \notin Edges
  /\ UNCHANGED store

-----------------------------------------------------------------------------
(* Intents *)

\* A torn tail goes, the line is written, then a state whose checkpoint covers it.  The revision
\* is compared, unless the line is there already: it is left alone.
Note(rev, key, event) ==
  /\ Writable /\ (st.rev = rev \/ intents[key] = event)
  /\ intents' = [intents EXCEPT ![key] = event] /\ torn' = FALSE
  /\ cp' = Entries(intents')
  /\ UNCHANGED <<st, writer, owner>>

\* Mutant: the checkpoint goes first.
CheckpointFirst(key, event) ==
  /\ Writable /\ intents[key] # event
  /\ \/ UNCHANGED <<intents, torn, cp>>
     \/ intents' = intents /\ torn' = TRUE /\ cp' = Entries([intents EXCEPT ![key] = event])
  /\ UNCHANGED <<st, writer, owner>>

\* Cut short after part of the line, or before the state.
NotePart(key, event) ==
  /\ Writable /\ intents[key] # event
  /\ \/ intents' = intents /\ torn' = TRUE
     \/ intents' = [intents EXCEPT ![key] = event] /\ torn' = FALSE
  /\ UNCHANGED <<st, cp, writer, owner>>

NoteRefused(rev, key, event) ==
  \/ (Refused \/ (st.rev # rev /\ intents[key] # event)) /\ UNCHANGED store
  \/ May("io") /\ NotePart(key, event)

-----------------------------------------------------------------------------
(* The lease of the driving server *)

Acquire(s) ==
  /\ writer = "free" /\ owner = "none" /\ owner' = s
  /\ UNCHANGED <<st, cp, intents, torn, writer>>

\* Mutant: the liveness of the owner is not looked at.
AdoptAny(s) ==
  /\ writer = "free" /\ owner \in Servers \cup {"dead"} /\ owner' = s
  /\ UNCHANGED <<st, cp, intents, torn, writer>>

\* Only the record of a dead owner is replaced.
Adopt(s) ==
  /\ writer = "free" /\ owner = "dead" /\ owner' = s
  /\ UNCHANGED <<st, cp, intents, torn, writer>>

\* Replacing is two steps in the directory, and a record is written after it is created.
LeasePart(adopting) ==
  /\ writer = "free" /\ owner = (IF adopting THEN "dead" ELSE "none")
  /\ owner' \in {"none", "empty"}
  /\ UNCHANGED <<st, cp, intents, torn, writer>>

GiveBack(s) ==
  /\ writer = "free" /\ owner = s /\ owner' = "none"
  /\ UNCHANGED <<st, cp, intents, torn, writer>>
=============================================================================
