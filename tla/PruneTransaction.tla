--------------------------- MODULE PruneTransaction ---------------------------
(***************************************************************************)
(* Pruning one terminal run (ArtifactStore.prune in                        *)
(* src/runtime/artifact-store.ts), the Cleanup Journal it writes           *)
(* (cleanup-journal.ts) and the replay at the next start of what was left  *)
(* (recovery-prune-journal.ts, with the order of recovery-manager.ts and   *)
(* of createServer in src/mcp/server.ts).                                  *)
(*                                                                         *)
(* A run is an archive directory, here or in the quarantine of a prune,    *)
(* and, if it has a candidate, an anchor ref in its repository, for which  *)
(* a backup ref stands in while it is pruned.                              *)
(*                                                                         *)
(* Every journal operation holds the journal's lock, which excludes        *)
(* (CheckoutLock): an operation is one step, and may be cut off.           *)
(***************************************************************************)
EXTENDS Naturals

CONSTANTS
  Servers,
  Txns,    \* quarantine names; one is used again when nothing speaks of it
  Faults   \* of "io": a step may fail; "user": the repository may be deleted

NoTxn == "no transaction"
ASSUME TxnAssumption == {"home", "gone", NoTxn} \cap Txns = {}
ASSUME ServerAssumption == {"free", "dead"} \cap Servers = {}

May(fault) == fault \in Faults

VARIABLES
  apart,     \* what the code does outside the lease meets no other server at work
  archive,   \* "home", "gone", or the quarantine it is in
  repo,      \* the repository exists
  cand,      \* the run has a candidate
  decided,   \* a decision has removed its anchor
  anchor, backup,
  pending,   \* the intent the journal's complete lines leave pending
  torn,      \* the journal ends in part of a line
  journalLock,
  lease,     \* the repository's checkout lock
  passLock,  \* recovery.lock
  pc,
  txn,       \* the quarantine name of a server's prune
  prepared,  \* what its intent says of the anchor
  began,     \* the anchor cleanup has begun: a failure must undo it
  read,      \* the intent a recovery pass has read
  found      \* its quarantine was there when the replay looked

refs == <<anchor, backup>>
run == <<apart, archive, repo, cand, decided>>
journal == <<pending, torn, journalLock>>
locks == <<lease, passLock>>
prune == <<txn, prepared, began>>
pass == <<read, found>>
vars == <<run, refs, journal, locks, pc, prune, pass>>

Nothing == [txn |-> NoTxn, outcome |-> "none"]

Init ==
  /\ apart \in BOOLEAN
  /\ archive = "home" /\ repo = TRUE /\ cand \in BOOLEAN /\ decided = FALSE
  /\ anchor = cand /\ backup = FALSE
  /\ pending = Nothing /\ torn = FALSE /\ journalLock = "free"
  /\ lease = "free" /\ passLock = "free"
  /\ pc = [s \in Servers |-> "down"]
  /\ txn = [s \in Servers |-> NoTxn]
  /\ prepared = [s \in Servers |-> "none"]
  /\ began = [s \in Servers |-> FALSE]
  /\ read = [s \in Servers |-> Nothing]
  /\ found = [s \in Servers |-> FALSE]

At(s, place) == pc[s] = place
Go(s, place) == pc' = [pc EXCEPT ![s] = place]

\* Nothing speaks of the name any more; a random one is as good as new.
Fresh(t) ==
  /\ archive # t /\ pending.txn # t
  /\ \A s \in Servers : txn[s] # t /\ read[s].txn # t

Undoing == {"undoMove", "undoRefs", "undoBackup", "noteRollback"}
AtRest(s) == pc[s] \in {"down", "ready"}

\* Nothing in the code keeps servers apart.  In a behaviour that does, what runs outside the lease
\* runs while the other servers are at rest: the undoing of a failed prune, and everything once the
\* repository is gone.  And no server begins to prune a run while an earlier prune of it is pending
\* or being undone, which nothing in the code looks for.
Alone(s) == apart => \A o \in Servers \ {s} : AtRest(o)
Calm(s) == apart => \A o \in Servers \ {s} : AtRest(o) \/ (repo /\ pc[o] \notin Undoing)
Unshadowed == apart => pending = Nothing /\ \A o \in Servers : pc[o] \notin Undoing

-----------------------------------------------------------------------------
(* The journal: appendCleanupRecord *)

Intent(s) == [txn |-> txn[s], outcome |-> prepared[s]]

\* A torn tail goes before the record is written; pending is the last intent of the run that no
\* later completion or rollback of the run, whichever prune it is of, has taken back.
Append(s, record, next) ==
  /\ journalLock = "free"
  /\ pending' = record /\ torn' = FALSE
  /\ Go(s, next)
  /\ UNCHANGED journalLock

\* The lock of an exited process is not reclaimed while the server runs; the write may fail, and
\* have put all of the line or a part of it into the file.
AppendFails(s, record) ==
  \/ journalLock = "dead" /\ UNCHANGED journal
  \/ /\ May("io") /\ Alone(s) /\ journalLock = "free"
     /\ \/ pending' = record /\ torn' = FALSE
        \/ pending' = pending /\ torn' \in BOOLEAN
     /\ UNCHANGED journalLock

\* The process exits while it writes.
AppendCutOff(record) ==
  /\ journalLock = "free" /\ journalLock' = "dead"
  /\ \/ pending' = record /\ torn' = FALSE
     \/ pending' = pending /\ torn' = TRUE

-----------------------------------------------------------------------------
(* prune *)

Blank(s) ==
  /\ txn' = [txn EXCEPT ![s] = NoTxn] /\ prepared' = [prepared EXCEPT ![s] = "none"]
  /\ began' = [began EXCEPT ![s] = FALSE]

Released(s) == lease' = IF lease = s THEN "free" ELSE lease

\* The server serves: the run is pruned or retained.
Finish(s) == Go(s, "ready") /\ Blank(s) /\ Released(s) /\ UNCHANGED passLock

\* A run whose directory is there, terminal and with no marker; the lease is of its repository.
List(s) ==
  /\ At(s, "list") /\ Calm(s) /\ Unshadowed
  /\ IF archive # "home" THEN Finish(s)
     ELSE /\ \E t \in Txns : Fresh(t) /\ txn' = [txn EXCEPT ![s] = t]
          /\ Go(s, IF repo THEN "acquire" ELSE "goneIntent")
          /\ UNCHANGED <<prepared, began, locks>>
  /\ UNCHANGED <<run, refs, journal, pass>>

Acquire(s) ==
  /\ At(s, "acquire") /\ Unshadowed
  /\ IF lease = "free" THEN lease' = s /\ Go(s, "check") /\ UNCHANGED <<passLock, prune>>
     ELSE Finish(s)
  /\ UNCHANGED <<run, refs, journal, pass>>

\* Mutant: the anchor itself is kept instead of what is to be done about it.
CheckAnchor(s) ==
  /\ At(s, "check")
  /\ IF archive # "home" \/ ~repo THEN Finish(s)
     ELSE /\ prepared' = [prepared EXCEPT ![s] = IF anchor THEN "present" ELSE "already-absent"]
          /\ Go(s, "intent")
          /\ UNCHANGED <<locks, txn, began>>
  /\ UNCHANGED <<run, refs, journal, pass>>

\* The directory is still the one listed; prepareCandidateAnchorCleanup looks at the anchor.
Check(s) ==
  /\ At(s, "check")
  /\ IF archive # "home" \/ ~repo THEN Finish(s)
     ELSE /\ prepared' = [prepared EXCEPT ![s] = CASE ~cand -> "not-applicable" [] anchor -> "deleted"
                                                   [] OTHER -> "already-absent"]
          /\ Go(s, "intent")
          /\ UNCHANGED <<locks, txn, began>>
  /\ UNCHANGED <<run, refs, journal, pass>>

\* A failure before the archive counts as removed: the lease is released, then all is undone.
Throw(s) ==
  /\ Go(s, "undoMove") /\ Released(s) /\ UNCHANGED passLock

\* Mutant: the prune goes on without its intent.
WriteIntentOrNot(s) ==
  /\ At(s, "intent")
  /\ \/ Append(s, Intent(s), IF prepared[s] = "deleted" THEN "backup" ELSE "move")
     \/ AppendFails(s, Intent(s)) /\ Go(s, IF prepared[s] = "deleted" THEN "backup" ELSE "move")
  /\ UNCHANGED <<run, refs, locks, prune, pass>>

WriteIntent(s) ==
  /\ At(s, "intent")
  /\ \/ Append(s, Intent(s), IF prepared[s] = "deleted" THEN "backup" ELSE "move") /\ UNCHANGED locks
     \/ AppendFails(s, Intent(s)) /\ Throw(s)
  /\ UNCHANGED <<run, refs, prune, pass>>

Fails(s) == May("io") /\ Alone(s)

\* Mutant: the anchor goes before its backup is there.
BackUpLater(s) ==
  /\ At(s, "backup")
  /\ \/ repo /\ anchor /\ anchor' = FALSE /\ Go(s, "unanchor") /\ UNCHANGED locks
     \/ (~repo \/ ~anchor \/ Fails(s)) /\ Throw(s) /\ UNCHANGED anchor
  /\ UNCHANGED <<run, backup, journal, prune, pass>>

\* beginCandidateAnchorCleanup: the backup must be new; then the anchor goes.
BackUp(s) ==
  /\ At(s, "backup")
  /\ \/ repo /\ ~backup /\ backup' = TRUE /\ Go(s, "unanchor") /\ UNCHANGED locks
     \/ (~repo \/ backup \/ May("io")) /\ Alone(s) /\ Throw(s) /\ UNCHANGED backup
  /\ UNCHANGED <<run, anchor, journal, prune, pass>>

\* When the anchor cannot be deleted the backup is taken back, unless that fails too, which
\* nobody asks about.
Unanchor(s) ==
  /\ At(s, "unanchor")
  /\ \/ repo /\ anchor /\ anchor' = FALSE /\ Go(s, "move")
        /\ began' = [began EXCEPT ![s] = TRUE]
        /\ UNCHANGED <<backup, locks>>
     \/ (~repo \/ ~anchor \/ Fails(s)) /\ Throw(s) /\ UNCHANGED <<anchor, began>>
        /\ (backup' = FALSE \/ (Fails(s) /\ UNCHANGED backup))
  /\ UNCHANGED <<run, journal, txn, prepared, pass>>

\* The directory is moved aside; what fails may be the move or the flush after it.
Move(s) ==
  /\ At(s, "move")
  /\ \/ archive = "home" /\ archive' = txn[s] /\ Go(s, "remove") /\ UNCHANGED locks
     \/ archive = "home" /\ Fails(s) /\ Throw(s) /\ archive' \in {"home", txn[s]}
     \/ archive # "home" /\ Throw(s) /\ UNCHANGED archive
  /\ UNCHANGED <<apart, repo, cand, decided, refs, journal, prune, pass>>

\* Mutant: the quarantine is removed as far as possible.
RemoveBestEffort(s) ==
  /\ At(s, "remove") /\ Go(s, "commit")
  /\ archive' = "gone" \/ (Fails(s) /\ UNCHANGED archive)
  /\ UNCHANGED <<apart, repo, cand, decided, refs, journal, locks, prune, pass>>

\* From here on a failure leaves the intent to the next start.
Remove(s) ==
  /\ At(s, "remove")
  /\ \/ archive = txn[s] /\ archive' = "gone" /\ Go(s, "commit") /\ UNCHANGED <<locks, prune>>
     \/ (archive # txn[s] \/ Fails(s)) /\ Finish(s) /\ UNCHANGED archive
  /\ UNCHANGED <<apart, repo, cand, decided, refs, journal, pass>>

Commit(s) ==
  /\ At(s, "commit")
  /\ \/ (began[s] => repo /\ backup) /\ backup' = (backup /\ ~began[s]) /\ Go(s, "complete")
        /\ UNCHANGED <<locks, prune>>
     \/ ((began[s] /\ ~(repo /\ backup)) \/ Fails(s)) /\ Finish(s) /\ UNCHANGED backup
  /\ UNCHANGED <<run, anchor, journal, pass>>

Complete(s) ==
  /\ At(s, "complete")
  /\ \/ journalLock = "free" /\ pending' = Nothing /\ torn' = FALSE /\ UNCHANGED journalLock
     \/ AppendFails(s, Nothing)
  /\ Finish(s)
  /\ UNCHANGED <<run, refs, pass>>

-----------------------------------------------------------------------------
(* prune: the catch block, which runs after the lease has been released *)

\* What fails may be the move or the flush after it.
UndoMove(s) ==
  /\ At(s, "undoMove")
  /\ \/ archive \in {"home", txn[s]} /\ archive' = "home"
        /\ Go(s, IF began[s] THEN "undoRefs" ELSE "noteRollback") /\ UNCHANGED <<locks, prune>>
     \/ archive \in {"home", txn[s]} /\ Fails(s) /\ Finish(s) /\ archive' \in {archive, "home"}
     \/ archive \notin {"home", txn[s]} /\ Finish(s) /\ UNCHANGED archive
  /\ UNCHANGED <<apart, repo, cand, decided, refs, journal, pass>>

UndoRefs(s) ==
  /\ At(s, "undoRefs")
  /\ \/ repo /\ ~anchor /\ anchor' = TRUE /\ Go(s, "undoBackup") /\ UNCHANGED <<locks, prune>>
     \/ (~repo \/ anchor \/ Fails(s)) /\ Finish(s) /\ UNCHANGED anchor
  /\ UNCHANGED <<run, backup, journal, pass>>

UndoBackup(s) ==
  /\ At(s, "undoBackup")
  /\ \/ repo /\ backup /\ backup' = FALSE /\ Go(s, "noteRollback") /\ UNCHANGED <<locks, prune>>
     \/ (~repo \/ ~backup \/ Fails(s)) /\ Finish(s) /\ UNCHANGED backup
  /\ UNCHANGED <<run, anchor, journal, pass>>

\* A reclaim without a repository has prepared nothing and records no rollback.
NoteRollback(s) ==
  /\ At(s, "noteRollback")
  /\ \/ prepared[s] = "none" /\ UNCHANGED journal
     \/ prepared[s] # "none" /\ journalLock = "free" /\ pending' = Nothing /\ torn' = FALSE
        /\ UNCHANGED journalLock
     \/ prepared[s] # "none" /\ AppendFails(s, Nothing)
  /\ Finish(s)
  /\ UNCHANGED <<run, refs, pass>>

-----------------------------------------------------------------------------
(* reclaimRepoAbsentArchive: the same without a repository, and without its lease *)

Bare(s) == [txn |-> txn[s], outcome |-> "not-applicable"]

GoneIntent(s) ==
  /\ At(s, "goneIntent")
  /\ \/ Append(s, Bare(s), "goneMove") /\ UNCHANGED locks
     \/ AppendFails(s, Bare(s)) /\ Throw(s)
  /\ UNCHANGED <<run, refs, prune, pass>>

GoneMove(s) ==
  /\ At(s, "goneMove")
  /\ \/ archive = "home" /\ archive' = txn[s] /\ Go(s, "goneRemove") /\ UNCHANGED locks
     \/ archive = "home" /\ Fails(s) /\ Throw(s) /\ archive' \in {"home", txn[s]}
     \/ archive # "home" /\ Throw(s) /\ UNCHANGED archive
  /\ UNCHANGED <<apart, repo, cand, decided, refs, journal, prune, pass>>

GoneRemove(s) ==
  /\ At(s, "goneRemove")
  /\ \/ archive = txn[s] /\ archive' = "gone" /\ Go(s, "complete") /\ UNCHANGED locks
     \/ (archive # txn[s] \/ Fails(s)) /\ Throw(s) /\ UNCHANGED archive
  /\ UNCHANGED <<apart, repo, cand, decided, refs, journal, prune, pass>>

-----------------------------------------------------------------------------
(* recoverStaleRuns, as far as it prunes, and the start around it *)

\* A start that finds another recovering goes on to prune; one whose recovery throws is over.
Start(s) ==
  /\ At(s, "down") /\ Calm(s)
  /\ IF passLock = "free" THEN passLock' = s /\ Go(s, "reclaimJournal")
     ELSE Go(s, "list") /\ UNCHANGED passLock
  /\ UNCHANGED <<run, refs, journal, lease, prune, pass>>

Forgets(s) == read' = [read EXCEPT ![s] = Nothing] /\ found' = [found EXCEPT ![s] = FALSE]

StartFails(s) == Go(s, "down") /\ passLock' = "free" /\ Released(s) /\ Forgets(s)

\* The journal's lock is reclaimed first of all.
ReclaimJournal(s) ==
  /\ At(s, "reclaimJournal") /\ Go(s, "readJournal")
  /\ journalLock' = "free"
  /\ UNCHANGED <<run, refs, pending, torn, locks, prune, pass>>

\* readPendingCleanupIntents repairs the tail and says nothing of who wrote the intent.
ReadJournal(s) ==
  /\ At(s, "readJournal")
  /\ IF journalLock = "free"
     THEN /\ read' = [read EXCEPT ![s] = pending] /\ torn' = FALSE /\ UNCHANGED found
          /\ Go(s, IF pending = Nothing THEN "endPass" ELSE "replay")
          /\ UNCHANGED locks
     ELSE StartFails(s) /\ UNCHANGED torn
  /\ UNCHANGED <<run, refs, pending, journalLock, prune>>

Inspects(s) == found' = [found EXCEPT ![s] = archive = read[s].txn] /\ UNCHANGED read

\* replayInterruptedPrunes takes the lease as any other caller does: a lock that is held, by a
\* live owner or by one that has exited, makes it throw.
Replay(s) ==
  /\ At(s, "replay")
  /\ CASE ~repo -> Go(s, IF archive = "home" THEN "replayNote" ELSE "replayRemove")
                   /\ Inspects(s) /\ UNCHANGED locks
       [] repo /\ lease = "free" -> /\ lease' = s /\ UNCHANGED passLock
                                    /\ Go(s, IF archive = "home" THEN "restore" ELSE "finish")
                                    /\ Inspects(s)
       [] OTHER -> StartFails(s)
  /\ UNCHANGED <<run, refs, journal, prune>>

\* reconcileCleanupRefs, rollback: each call creates or deletes at most one ref.
Restore(s) ==
  LET outcome == read[s].outcome IN
  /\ At(s, "restore")
  /\ CASE outcome = "not-applicable" \/ (outcome = "already-absent" /\ ~anchor)
            -> Go(s, "replayNote") /\ UNCHANGED <<refs, locks, pass>>
       [] outcome = "deleted" /\ repo /\ ~anchor /\ backup
            -> anchor' = TRUE /\ UNCHANGED <<backup, pc, locks, pass>>
       [] outcome = "deleted" /\ repo /\ anchor
            -> backup' = FALSE /\ Go(s, "replayNote") /\ UNCHANGED <<anchor, locks, pass>>
       [] OTHER -> StartFails(s) /\ UNCHANGED refs
  /\ UNCHANGED <<run, journal, prune>>

\* reconcileCleanupRefs, finish: an anchor is still backed up before it goes.
FinishRefs(s) ==
  LET outcome == read[s].outcome IN
  /\ At(s, "finish")
  /\ CASE outcome = "not-applicable" \/ ~anchor
            -> Go(s, "replayRemove") /\ UNCHANGED <<refs, locks, pass>>
       [] outcome = "deleted" /\ repo /\ anchor /\ ~backup
            -> backup' = TRUE /\ UNCHANGED <<anchor, pc, locks, pass>>
       [] outcome = "deleted" /\ repo /\ anchor /\ backup
            -> anchor' = FALSE /\ UNCHANGED <<backup, pc, locks, pass>>
       [] OTHER -> StartFails(s) /\ UNCHANGED refs
  /\ UNCHANGED <<run, journal, prune>>

\* A quarantine that was there must still be.
ReplayRemove(s) ==
  /\ At(s, "replayRemove")
  /\ \/ (found[s] => archive = read[s].txn)
        /\ archive' = (IF found[s] THEN "gone" ELSE archive)
        /\ Go(s, IF lease = s THEN "replayCommit" ELSE "replayNote") /\ UNCHANGED <<locks, pass>>
     \/ found[s] /\ (archive # read[s].txn \/ Fails(s)) /\ StartFails(s) /\ UNCHANGED archive
  /\ UNCHANGED <<apart, repo, cand, decided, refs, journal, prune>>

\* Mutant: a finished prune keeps its backup.
ReplayCommitNothing(s) ==
  /\ At(s, "replayCommit") /\ Go(s, "replayNote")
  /\ UNCHANGED <<run, refs, journal, locks, prune, pass>>

ReplayCommit(s) ==
  /\ At(s, "replayCommit")
  /\ \/ (read[s].outcome = "deleted" => repo) /\ Go(s, "replayNote")
        /\ backup' = (backup /\ read[s].outcome # "deleted") /\ UNCHANGED <<locks, pass>>
     \/ ((read[s].outcome = "deleted" /\ ~repo) \/ Fails(s)) /\ StartFails(s) /\ UNCHANGED backup
  /\ UNCHANGED <<run, anchor, journal, prune>>

ReplayNote(s) ==
  /\ At(s, "replayNote")
  /\ \/ /\ Append(s, Nothing, "endPass")
        /\ Released(s) /\ UNCHANGED passLock
        /\ Forgets(s)
     \/ AppendFails(s, Nothing) /\ StartFails(s)
  /\ UNCHANGED <<run, refs, prune>>

\* At the end of a pass the locks of exited processes go (reclaimDeadCheckoutLocks).
EndPass(s) ==
  /\ At(s, "endPass") /\ Go(s, "list")
  /\ lease' = IF lease = "dead" THEN "free" ELSE lease
  /\ passLock' = "free"
  /\ UNCHANGED <<run, refs, journal, prune, pass>>

-----------------------------------------------------------------------------
\* A rejection or an integration, under the lease, removes the anchor.
Decide(s) ==
  /\ At(s, "ready") /\ lease = "free" /\ archive = "home" /\ repo /\ anchor
  /\ anchor' = FALSE /\ decided' = TRUE
  /\ UNCHANGED <<apart, archive, repo, cand, backup, journal, locks, pc, prune, pass>>

UserDeletesRepository ==
  /\ May("user") /\ repo
  /\ apart => \A s, o \in Servers : AtRest(s) \/ AtRest(o) \/ s = o
  /\ repo' = FALSE /\ anchor' = FALSE /\ backup' = FALSE
  /\ UNCHANGED <<apart, archive, cand, decided, journal, locks, pc, prune, pass>>

\* What a server is about to append.
Writes(s) ==
  CASE At(s, "intent") -> {Intent(s)} [] At(s, "goneIntent") -> {Bare(s)}
    [] pc[s] \in {"complete", "replayNote"} \/ (At(s, "noteRollback") /\ prepared[s] # "none") -> {Nothing}
    [] OTHER -> {}

Exit(s) ==
  /\ ~At(s, "down") /\ Go(s, "down")
  /\ \/ UNCHANGED journal
     \/ \E record \in Writes(s) : AppendCutOff(record)
  /\ lease' = IF lease = s THEN "dead" ELSE lease
  /\ passLock' = IF passLock = s THEN "free" ELSE passLock
  /\ Blank(s) /\ Forgets(s)
  /\ UNCHANGED <<run, refs>>

Prune(s) ==
  \/ List(s) \/ Acquire(s) \/ Check(s) \/ WriteIntent(s) \/ BackUp(s) \/ Unanchor(s)
  \/ Move(s) \/ Remove(s) \/ Commit(s) \/ Complete(s)
  \/ UndoMove(s) \/ UndoRefs(s) \/ UndoBackup(s) \/ NoteRollback(s)
  \/ GoneIntent(s) \/ GoneMove(s) \/ GoneRemove(s)

Pass(s) ==
  \/ Start(s) \/ ReclaimJournal(s) \/ ReadJournal(s) \/ Replay(s) \/ Restore(s) \/ FinishRefs(s)
  \/ ReplayRemove(s) \/ ReplayCommit(s) \/ ReplayNote(s) \/ EndPass(s)

Step(s) == Prune(s) \/ Pass(s)

Next == UserDeletesRepository \/ \E s \in Servers : Step(s) \/ Decide(s) \/ Exit(s)

Spec == Init /\ [][Next]_vars

\* Servers carry out what they have begun and are started when they are down.
FairSpec == Spec /\ \A s \in Servers : WF_vars(Step(s))

-----------------------------------------------------------------------------
Record == [txn : Txns \cup {NoTxn}, outcome : {"none", "deleted", "already-absent", "not-applicable"}]
Places == {"down", "ready", "list", "acquire", "check", "intent", "backup", "unanchor", "move",
           "remove", "commit", "complete", "goneIntent", "goneMove", "goneRemove",
           "reclaimJournal", "readJournal", "replay", "restore", "finish", "replayRemove",
           "replayCommit", "replayNote", "endPass"} \cup Undoing

TypeOK ==
  /\ apart \in BOOLEAN
  /\ archive \in {"home", "gone"} \cup Txns
  /\ repo \in BOOLEAN /\ cand \in BOOLEAN /\ decided \in BOOLEAN
  /\ anchor \in BOOLEAN /\ backup \in BOOLEAN
  /\ pending \in Record /\ torn \in BOOLEAN /\ journalLock \in {"free", "dead"}
  /\ lease \in Servers \cup {"free", "dead"} /\ passLock \in Servers \cup {"free"}
  /\ pc \in [Servers -> Places]
  /\ txn \in [Servers -> Txns \cup {NoTxn}]
  /\ prepared \in [Servers -> {"none", "deleted", "already-absent", "not-applicable"}]
  /\ began \in [Servers -> BOOLEAN]
  /\ read \in [Servers -> Record] /\ found \in [Servers -> BOOLEAN]

\* The archive is in its place, or a failed prune is putting it back.
Retained == archive = "home" \/ \E s \in Servers : At(s, "undoMove") /\ archive = txn[s]

\* artifact-store.ts 1560-1562, recovery-prune-journal.ts 205-206: the lease keeps recovery and
\* prunes from racing over the refs of one candidate.  So one that is retained and that nobody has
\* decided on is named by its anchor or by the backup at every moment, and Git never collects it.
CandidateStaysNamed == cand /\ repo /\ ~decided /\ Retained => anchor \/ backup

\* The undo of a failed prune, which does not hold the lease, comes upon what another server does
\* under it: a replay has found moved aside what the undo is putting back, or a prune is about to
\* remove the anchor and has its backup where the undo is deleting one.
UndoMeets ==
  \E s, o \in Servers : \/ At(s, "undoMove") /\ At(o, "finish")
                        \/ At(s, "undoBackup") /\ At(o, "unanchor")

\* Nothing but those two meetings leaves a retained candidate without a name, whatever fails,
\* exits or is replayed beside it (artifact-store.ts, recovery-prune-journal.ts).
NamedUnlessUndoMeets == []~UndoMeets => []CandidateStaysNamed

\* With no intent pending and nobody at work the run is retained whole or gone altogether, if
\* servers keep apart.  (A backup that could not be deleted may stay beside its anchor; the replay
\* of a rollback may bring back the anchor that a decision has removed meanwhile.)
Busy(s) == pc[s] \notin {"down", "ready", "list", "reclaimJournal", "readJournal", "endPass"}
SettledIsWhole ==
  apart /\ pending = Nothing /\ (\A s \in Servers : ~Busy(s)) =>
    /\ archive \in {"home", "gone"}
    /\ anchor => archive = "home"
    /\ backup => decided \/ (archive = "home" /\ anchor)
    /\ archive = "home" /\ cand /\ repo /\ ~decided => anchor

\* If servers keep apart, an archive leaves its place only while the journal holds the intent of
\* the prune that moves it, and no intent is taken back while the archive is still in its
\* quarantine.
MovedOnlyAsIntended ==
  [][apart /\ archive = "home" /\ archive' # "home" => pending.txn = archive']_vars
IntentOutlivesQuarantine ==
  [][apart /\ pending # Nothing /\ pending' = Nothing => archive # pending.txn]_vars

\* recovery-prune-journal.ts 142-150: with the lease of the repository there is at most one pending
\* intent per run, so a quarantine can never be orphaned.
NeverOrphaned == archive \in Txns /\ repo /\ (\A s \in Servers : ~Busy(s)) => pending.txn = archive

\* The Cleanup Journal in CONTEXT.md: recovery replays any intent left without a completion or
\* rollback.  Once a server exits, if at all, only because its start has failed, an intent does
\* not stay for ever.
IntentReplayed == <>[][\A s \in Servers : Exit(s) => At(s, "replay")]_vars => []<>(pending = Nothing)
=============================================================================
