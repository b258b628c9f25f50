------------------------ MODULE PruneTransactionProofs ------------------------
(***************************************************************************)
(* Proofs about PruneTransaction, for any servers and quarantine names.    *)
(* TypeCorrect and StaysNamed are about every behaviour, the others about  *)
(* those in which servers keep apart (apart), and rest on Inv.             *)
(*                                                                         *)
(* Order says who may be at work: one server at a time acts on the run, by *)
(* the lease, by recovery.lock or because the others are at rest.  RunInv  *)
(* relates the archive and its refs to what the journal says; Here is what *)
(* the acting server knows at its place.                                   *)
(***************************************************************************)
EXTENDS PruneTransaction, TLAPS

\* The places at which a server holds the lease, or no repository is left that has one.
Leased == {"check", "intent", "backup", "unanchor", "move", "remove", "commit",
           "restore", "finish", "replayCommit"}
LeasedOrGone == {"complete", "replayRemove", "replayNote"}
Gone == {"goneIntent", "goneMove", "goneRemove"}
Acting == Leased \cup LeasedOrGone \cup Gone \cup Undoing

InPass == {"reclaimJournal", "readJournal", "replay", "restore", "finish", "replayRemove",
           "replayCommit", "replayNote", "endPass"}
Replays == {"replay", "restore", "finish", "replayRemove", "replayCommit", "replayNote"}

\* Places of servers that an undo does not disturb, while no intent is pending.
Harmless == {"list", "acquire", "reclaimJournal", "readJournal", "endPass"}

Order ==
  /\ \A s \in Servers : pc[s] \in Leased => lease = s
  /\ \A s \in Servers : pc[s] \in LeasedOrGone => lease = s \/ ~repo
  /\ \A s \in Servers : pc[s] \in Gone => ~repo
  /\ \A s \in Servers : lease = s => pc[s] \in Leased \cup LeasedOrGone
  /\ \A s \in Servers : pc[s] \in InPass => passLock = s
  /\ ~repo => \A s, o \in Servers : AtRest(s) \/ AtRest(o) \/ s = o
  /\ \A s \in Servers : pc[s] \in Undoing =>
       \A o \in Servers \ {s} : AtRest(o) \/ (pc[o] \in Harmless /\ pending = Nothing)

\* What a recovery pass has read is still pending, or the prune has come to its end meanwhile.
ReadInv ==
  \A s \in Servers :
    /\ read[s] # Nothing <=> pc[s] \in Replays
    /\ read[s] # Nothing => pending = read[s] \/ (pending = Nothing /\ archive = "gone")

Named == cand /\ repo /\ ~decided => anchor

\* If servers keep apart the candidate is named until its archive is gone.
NamedTillGone == cand /\ repo /\ ~decided /\ archive # "gone" => anchor \/ backup

RunInv ==
  /\ ~repo => ~anchor /\ ~backup
  /\ anchor => cand
  /\ archive \in Txns => pending.txn = archive
  /\ backup => cand /\ (pending.outcome = "deleted" \/ decided \/ (archive = "home" /\ anchor))
  /\ pending # Nothing => pending.txn \in Txns /\ pending.outcome # "none"
  /\ pending.outcome = "deleted" => cand
  /\ repo /\ pending.outcome = "not-applicable" => ~cand
  /\ repo /\ pending.outcome = "already-absent" => decided
  /\ pending = Nothing => /\ anchor => archive = "home"
                          /\ archive = "home" => Named
  /\ NamedTillGone

\* A server that has begun no prune.
Idle(s) == pc[s] \in {"down", "ready"} \cup InPass => prepared[s] = "none" /\ ~began[s]

HereFirst(s) ==
  /\ pc[s] \in {"acquire", "check", "intent", "goneIntent"} => txn[s] \in Txns
  /\ pc[s] \in {"list", "acquire", "check"} \cup Gone => prepared[s] = "none"
  /\ pc[s] \in {"list", "acquire", "check", "intent", "backup", "unanchor"} \cup Gone => ~began[s]
  /\ pc[s] \in {"check", "intent", "goneIntent"} => pending = Nothing
  /\ pc[s] \in {"intent", "goneIntent"} => archive = "home"
  /\ pc[s] = "intent" =>
       /\ prepared[s] # "none"
       /\ repo /\ prepared[s] = "not-applicable" => ~cand
       /\ repo /\ prepared[s] = "already-absent" => decided
       /\ prepared[s] = "deleted" => cand /\ (repo => anchor)
       /\ prepared[s] # "deleted" => ~anchor

HerePrune(s) ==
  /\ pc[s] \in {"backup", "unanchor", "move", "remove"} => pending = Intent(s) /\ txn[s] \in Txns
  /\ pc[s] \in {"backup", "unanchor", "move"} => archive = "home"
  /\ pc[s] \in {"backup", "unanchor"} =>
       prepared[s] = "deleted" /\ (repo => anchor) /\ (pc[s] = "unanchor" /\ repo => backup)
  /\ pc[s] \in {"move", "remove", "commit"} =>
       /\ ~anchor /\ (began[s] <=> prepared[s] = "deleted")
       /\ IF began[s] THEN repo => backup ELSE backup => decided
  /\ pc[s] = "remove" => archive = txn[s]
  /\ pc[s] \in {"commit", "complete"} => archive = "gone"
  /\ pc[s] = "complete" => ~anchor /\ (backup => decided)
  /\ pc[s] \in {"goneMove", "goneRemove"} => pending = Bare(s) /\ txn[s] \in Txns
  /\ pc[s] = "goneMove" => archive = "home"
  /\ pc[s] = "goneRemove" => archive = txn[s]

HereUndo(s) ==
  /\ pc[s] = "undoMove" => archive \in {"home", txn[s]} /\ (pending = Nothing => archive = "home")
  /\ pc[s] \in Undoing \ {"undoMove"} => archive = "home"
  /\ pc[s] \in {"undoMove", "undoRefs"} /\ began[s] =>
       ~anchor /\ (repo => backup) /\ pending.outcome = "deleted"
  /\ pc[s] = "undoMove" /\ ~began[s] => Named
  /\ pc[s] \in {"undoRefs", "undoBackup"} => began[s]
  /\ pc[s] = "undoBackup" => Named
  /\ pc[s] = "noteRollback" => Named

HereReplay(s) ==
  /\ pc[s] = "restore" => archive = "home" /\ pending = read[s]
  /\ pc[s] \in {"finish", "replayRemove"} =>
       archive = IF found[s] THEN read[s].txn ELSE "gone"
  /\ pc[s] \in {"replayRemove", "replayCommit"} => ~anchor
  /\ pc[s] = "replayCommit" => archive = "gone"
  /\ pc[s] = "replayNote" => /\ archive \in {"home", "gone"}
                             /\ archive = "home" => Named
                             /\ archive = "gone" => ~anchor /\ (backup => decided)

Here(s) == Idle(s) /\ HereFirst(s) /\ HerePrune(s) /\ HereUndo(s) /\ HereReplay(s)

Inv == TypeOK /\ Order /\ ReadInv /\ RunInv /\ \A s \in Servers : Here(s)

-----------------------------------------------------------------------------

\* What a step of one server leaves to the others.
Others(s) ==
  \A o \in Servers \ {s} :
    /\ pc'[o] = pc[o] /\ txn'[o] = txn[o] /\ prepared'[o] = prepared[o]
    /\ began'[o] = began[o] /\ read'[o] = read[o] /\ found'[o] = found[o]

USE DEF At, Go, AtRest, run, refs, journal, locks, prune, pass,
  Leased, LeasedOrGone, Gone, Acting, InPass, Replays, Harmless, Undoing

LEMMA NothingType == Nothing \in Record
BY DEF Nothing, Record

-----------------------------------------------------------------------------
(* Types *)

\* A server that is about to move the archive aside has named its quarantine.
NamesQuarantine ==
  \A s \in Servers :
    pc[s] \in {"acquire", "check", "intent", "backup", "unanchor", "move", "goneIntent", "goneMove"}
      => txn[s] \in Txns

TypeInv == TypeOK /\ NamesQuarantine

LEMMA TypeInitially == Init => TypeInv
BY NothingType, ServerAssumption DEF Init, TypeInv, TypeOK, NamesQuarantine, Places

\* Whether servers keep apart is a matter of the whole behaviour.
LEMMA ApartStays == [Next]_vars => apart' = apart
BY DEF Next, vars, Step, Prune, Pass, UserDeletesRepository, Decide, Exit, List, Acquire, Check,
   WriteIntent, BackUp, Unanchor, Move, Remove, Commit, Complete, UndoMove, UndoRefs, UndoBackup,
   NoteRollback, GoneIntent, GoneMove, GoneRemove, Start, ReclaimJournal, ReadJournal, Replay,
   Restore, FinishRefs, ReplayRemove, ReplayCommit, ReplayNote, EndPass

LEMMA TypeStep ==
  ASSUME TypeInv, NEW s \in Servers, Step(s) \/ Decide(s) \/ Exit(s)
  PROVE  TypeInv'
<1> USE DEF Finish, Throw, StartFails
<1>1. Intent(s) \in Record /\ Bare(s) \in Record
  BY DEF TypeInv, TypeOK, Record, Intent, Bare
<1>2. pc' \in [Servers -> Places]
  <2>1. pc \in [Servers -> Places]
    BY DEF TypeInv, TypeOK
  <2> QED
    BY <2>1 DEF Step, Prune, Pass, List, Acquire, Check, WriteIntent, BackUp, Unanchor, Move, Remove,
     Commit, Complete, UndoMove, UndoRefs, UndoBackup, NoteRollback, GoneIntent, GoneMove,
     GoneRemove, Start, ReclaimJournal, ReadJournal, Replay, Restore, FinishRefs, ReplayRemove,
     ReplayCommit, ReplayNote, EndPass, Decide, Exit, Places, Append
<1>3. /\ txn' \in [Servers -> Txns \cup {NoTxn}]
      /\ prepared' \in [Servers -> {"none", "deleted", "already-absent", "not-applicable"}]
      /\ began' \in [Servers -> BOOLEAN]
  <2>1. /\ txn \in [Servers -> Txns \cup {NoTxn}]
        /\ prepared \in [Servers -> {"none", "deleted", "already-absent", "not-applicable"}]
        /\ began \in [Servers -> BOOLEAN]
    BY DEF TypeInv, TypeOK
  <2> QED
    BY <2>1 DEF Step, Prune, Pass, List, Acquire, Check, WriteIntent, BackUp, Unanchor, Move, Remove,
     Commit, Complete, UndoMove, UndoRefs, UndoBackup, NoteRollback, GoneIntent, GoneMove,
     GoneRemove, Start, ReclaimJournal, ReadJournal, Replay, Restore, FinishRefs, ReplayRemove,
     ReplayCommit, ReplayNote, EndPass, Decide, Exit, Blank
<1>4. read' \in [Servers -> Record] /\ found' \in [Servers -> BOOLEAN]
  <2>1. read \in [Servers -> Record] /\ found \in [Servers -> BOOLEAN] /\ pending \in Record
    BY DEF TypeInv, TypeOK
  <2> QED
    BY <2>1, NothingType DEF Step, Prune, Pass, List, Acquire, Check, WriteIntent, BackUp, Unanchor, Move, Remove,
     Commit, Complete, UndoMove, UndoRefs, UndoBackup, NoteRollback, GoneIntent, GoneMove,
     GoneRemove, Start, ReclaimJournal, ReadJournal, Replay, Restore, FinishRefs, ReplayRemove,
     ReplayCommit, ReplayNote, EndPass, Decide, Exit, Forgets, Inspects
<1>5. pending' \in Record /\ torn' \in BOOLEAN /\ journalLock' \in {"free", "dead"}
  <2>1. pending \in Record /\ torn \in BOOLEAN /\ journalLock \in {"free", "dead"}
    BY DEF TypeInv, TypeOK
  <2> QED
    BY <1>1, <2>1, NothingType DEF Step, Prune, Pass, List, Acquire, Check, WriteIntent, BackUp, Unanchor, Move, Remove,
     Commit, Complete, UndoMove, UndoRefs, UndoBackup, NoteRollback, GoneIntent, GoneMove,
     GoneRemove, Start, ReclaimJournal, ReadJournal, Replay, Restore, FinishRefs, ReplayRemove,
     ReplayCommit, ReplayNote, EndPass, Decide, Exit, Append, AppendFails,
     AppendCutOff, Writes
<1>6. lease' \in Servers \cup {"free", "dead"} /\ passLock' \in Servers \cup {"free"}
  <2>1. lease \in Servers \cup {"free", "dead"} /\ passLock \in Servers \cup {"free"}
    BY DEF TypeInv, TypeOK
  <2> QED
    BY <2>1 DEF Step, Prune, Pass, List, Acquire, Check, WriteIntent, BackUp, Unanchor, Move, Remove,
     Commit, Complete, UndoMove, UndoRefs, UndoBackup, NoteRollback, GoneIntent, GoneMove,
     GoneRemove, Start, ReclaimJournal, ReadJournal, Replay, Restore, FinishRefs, ReplayRemove,
     ReplayCommit, ReplayNote, EndPass, Decide, Exit, Released
<1>7. /\ archive' \in {"home", "gone"} \cup Txns /\ repo' \in BOOLEAN /\ cand' \in BOOLEAN
      /\ decided' \in BOOLEAN /\ anchor' \in BOOLEAN /\ backup' \in BOOLEAN
  <2>1. /\ archive \in {"home", "gone"} \cup Txns /\ repo \in BOOLEAN /\ cand \in BOOLEAN
        /\ decided \in BOOLEAN /\ anchor \in BOOLEAN /\ backup \in BOOLEAN
        /\ pc[s] \in {"move", "goneMove"} => txn[s] \in Txns
    BY DEF TypeInv, TypeOK, NamesQuarantine
  <2> QED
    BY <2>1 DEF Step, Prune, Pass, List, Acquire, Check, WriteIntent, BackUp, Unanchor, Move, Remove,
     Commit, Complete, UndoMove, UndoRefs, UndoBackup, NoteRollback, GoneIntent, GoneMove,
     GoneRemove, Start, ReclaimJournal, ReadJournal, Replay, Restore, FinishRefs, ReplayRemove,
     ReplayCommit, ReplayNote, EndPass, Decide, Exit
<1>8. NamesQuarantine'
  <2>1. pc \in [Servers -> Places] /\ txn \in [Servers -> Txns \cup {NoTxn}] /\ NamesQuarantine
    BY DEF TypeInv, TypeOK
  <2> QED
    BY <2>1 DEF Step, Prune, Pass, List, Acquire, Check, WriteIntent, BackUp, Unanchor, Move, Remove,
     Commit, Complete, UndoMove, UndoRefs, UndoBackup, NoteRollback, GoneIntent, GoneMove,
     GoneRemove, Start, ReclaimJournal, ReadJournal, Replay, Restore, FinishRefs, ReplayRemove,
     ReplayCommit, ReplayNote, EndPass, Decide, Exit, Blank, Append, NamesQuarantine
<1>9. apart' \in BOOLEAN
  BY ApartStays DEF Next, TypeInv, TypeOK
<1> QED BY <1>2, <1>3, <1>4, <1>5, <1>6, <1>7, <1>8, <1>9 DEF TypeInv, TypeOK

LEMMA TypeNext == TypeInv /\ [Next]_vars => TypeInv'
<1> SUFFICES ASSUME TypeInv, [Next]_vars PROVE TypeInv'
  OBVIOUS
<1>1. CASE UserDeletesRepository
  BY <1>1 DEF UserDeletesRepository, TypeInv, TypeOK, NamesQuarantine
<1>2. CASE UNCHANGED vars
  BY <1>2 DEF vars, TypeInv, TypeOK, NamesQuarantine
<1> QED BY <1>1, <1>2, TypeStep DEF Next

\* Every variable has the values its declaration names.
THEOREM TypeCorrect == Spec => []TypeOK
<1>1. TypeInv => TypeOK
  BY DEF TypeInv
<1> QED BY <1>1, TypeInitially, TypeNext, PTL DEF Spec

LEMMA InvTypes == Inv => TypeInv
BY DEF Inv, TypeInv, NamesQuarantine, Here, HereFirst, HerePrune

\* One server at a time acts on the run.
LEMMA OneActs ==
  ASSUME Inv, NEW s \in Servers, NEW o \in Servers, pc[s] \in Acting, pc[o] \in Acting
  PROVE  s = o
BY DEF Inv, Order

\* What it does leaves the others where they are.
LEMMA Frame ==
  ASSUME Inv, NEW s \in Servers, \A o \in Servers \ {s} : pc[o] \notin Acting, Others(s), Here(s)'
  PROVE  \A o \in Servers : Here(o)'
<1> SUFFICES ASSUME NEW o \in Servers \ {s} PROVE Here(o)'
  OBVIOUS
<1> QED BY DEF Others, Inv, Here, Idle, HereFirst, HerePrune, HereUndo, HereReplay

-----------------------------------------------------------------------------
(* prune *)

\* A step that leaves the run and the intent in the journal alone.
LEMMA Looks ==
  ASSUME Inv, NEW s \in Servers, Others(s), UNCHANGED <<run, refs, pending>>,
         TypeOK', Order', ReadInv', Here(s)'
  PROVE  Inv'
<1>1. RunInv' BY DEF Inv, RunInv, NamedTillGone, Named
<1>2. ASSUME NEW o \in Servers \ {s} PROVE Here(o)'
  <2>1. Here(o) BY DEF Inv
  <2> QED
    BY <2>1 DEF Others, Here, Idle, HereFirst, HerePrune, HereUndo, HereReplay, Named, Intent, Bare
<1> QED BY <1>1, <1>2 DEF Inv

LEMMA ListStep ==
  ASSUME apart, Inv, TypeOK', NEW s \in Servers, List(s)
  PROVE  Inv'
<1> USE DEF List, Finish, Blank, Released
<1>1. pc[s] = "list" /\ TypeOK /\ Order /\ ReadInv /\ HereFirst(s) BY DEF Inv, Here
<1>2. Others(s) BY <1>1 DEF TypeOK, Others
<1>3. Order'
  BY <1>1, <1>2, ServerAssumption DEF TypeOK, Order, Others, Calm, Unshadowed
<1>4. ReadInv' BY <1>1, <1>2 DEF TypeOK, ReadInv, Others
<1>5. Here(s)'
  BY <1>1 DEF TypeOK, Here, Idle, HereFirst, HerePrune, HereUndo, HereReplay, Unshadowed
<1> QED BY <1>2, <1>3, <1>4, <1>5, Looks

LEMMA AcquireStep ==
  ASSUME apart, Inv, TypeOK', NEW s \in Servers, Acquire(s)
  PROVE  Inv'
<1> USE DEF Acquire, Finish, Blank, Released
<1>1. pc[s] = "acquire" /\ TypeOK /\ Order /\ ReadInv /\ HereFirst(s) BY DEF Inv, Here
<1>2. Others(s) BY <1>1 DEF TypeOK, Others
<1>3. Order'
  BY <1>1, <1>2, ServerAssumption DEF TypeOK, Order, Others, Unshadowed
<1>4. ReadInv' BY <1>1, <1>2 DEF TypeOK, ReadInv, Others
<1>5. Here(s)'
  BY <1>1 DEF TypeOK, Here, Idle, HereFirst, HerePrune, HereUndo, HereReplay, Unshadowed
<1> QED BY <1>2, <1>3, <1>4, <1>5, Looks

LEMMA CheckStep ==
  ASSUME apart, Inv, TypeOK', NEW s \in Servers, Check(s)
  PROVE  Inv'
<1> USE DEF Check, Finish, Blank, Released
<1>1. /\ pc[s] = "check" /\ TypeOK /\ Order /\ ReadInv /\ RunInv
      /\ HereFirst(s)
  BY DEF Inv, Here
<1>2. \A o \in Servers \ {s} : pc[o] \notin Acting BY <1>1, OneActs
<1>3. Others(s) BY <1>1 DEF TypeOK, Others
<1>4. Order'
  BY <1>1, <1>2, <1>3, ServerAssumption DEF TypeOK, Order, Others, RunInv, HereFirst, Alone, Calm, Unshadowed, Fails
<1>5. ReadInv'
  BY <1>1, <1>2, <1>3 DEF TypeOK, ReadInv, Others, Order, HereFirst, Alone, Calm,
     Unshadowed, Fails
<1>6. RunInv'
  BY <1>1, <1>2, TxnAssumption DEF TypeOK, RunInv, ReadInv, NamedTillGone, Named, Nothing,
     HereFirst
<1>7. Here(s)'
  BY <1>1, <1>2, TxnAssumption DEF TypeOK, RunInv, ReadInv, Order, Here, Idle, HereFirst,
     HerePrune, HereUndo,
     HereReplay, Named, Nothing, Intent, Bare
<1>8. \A o \in Servers : Here(o)' BY <1>2, <1>3, <1>7, Frame
<1> QED BY <1>4, <1>5, <1>6, <1>8 DEF Inv

LEMMA WriteIntentStep ==
  ASSUME apart, Inv, TypeOK', NEW s \in Servers, WriteIntent(s)
  PROVE  Inv'
<1> USE DEF WriteIntent, Throw, Released, Append, AppendFails, Intent, Bare
<1>1. /\ pc[s] = "intent" /\ TypeOK /\ Order /\ ReadInv /\ RunInv
      /\ HereFirst(s)
  BY DEF Inv, Here
<1>2. \A o \in Servers \ {s} : pc[o] \notin Acting BY <1>1, OneActs
<1>3. Others(s) BY <1>1 DEF TypeOK, Others
<1>3a. \A o \in Servers \ {s} : AtRest(o) \/ pc[o] \in Harmless
  <2> SUFFICES ASSUME NEW o \in Servers \ {s} PROVE AtRest(o) \/ pc[o] \in Harmless
    OBVIOUS
  <2>1. pc[o] # "replay" BY <1>1 DEF ReadInv, HereFirst
  <2>2. pc[o] \in Places /\ pc[o] \notin Acting BY <1>1, <1>2 DEF TypeOK
  <2> QED BY <2>1, <2>2 DEF Places
<1>4. Order'
  BY <1>1, <1>2, <1>3, <1>3a, ServerAssumption DEF TypeOK, Order, Others, RunInv, HereFirst,
     Alone, Calm, Unshadowed, Fails
<1>5. ReadInv'
  BY <1>1, <1>2, <1>3 DEF TypeOK, ReadInv, Others, Order, HereFirst, Alone, Calm,
     Unshadowed, Fails
<1>6. RunInv'
  BY <1>1, <1>2, TxnAssumption DEF TypeOK, RunInv, ReadInv, NamedTillGone, Named, Nothing,
     HereFirst
<1>7. Here(s)'
  BY <1>1, <1>2, TxnAssumption DEF TypeOK, RunInv, ReadInv, Order, Here, Idle, HereFirst,
     HerePrune, HereUndo,
     HereReplay, Named, Nothing, Intent, Bare
<1>8. \A o \in Servers : Here(o)' BY <1>2, <1>3, <1>7, Frame
<1> QED BY <1>4, <1>5, <1>6, <1>8 DEF Inv

LEMMA BackUpStep ==
  ASSUME apart, Inv, TypeOK', NEW s \in Servers, BackUp(s)
  PROVE  Inv'
<1> USE DEF BackUp, Throw, Released
<1>1. /\ pc[s] = "backup" /\ TypeOK /\ Order /\ ReadInv /\ RunInv
      /\ HereFirst(s) /\ HerePrune(s)
  BY DEF Inv, Here
<1>2. \A o \in Servers \ {s} : pc[o] \notin Acting BY <1>1, OneActs
<1>3. Others(s) BY <1>1 DEF TypeOK, Others
<1>4. Order'
  BY <1>1, <1>2, <1>3, ServerAssumption DEF TypeOK, Order, Others, RunInv, HereFirst, HerePrune,
     Alone, Calm, Unshadowed, Fails
<1>5. ReadInv'
  BY <1>1, <1>2, <1>3 DEF TypeOK, ReadInv, Others, Order, HereFirst, HerePrune, Alone, Calm, Unshadowed, Fails
<1>6. RunInv'
  BY <1>1, <1>2, TxnAssumption DEF TypeOK, RunInv, ReadInv, NamedTillGone, Named, Nothing,
     HereFirst, HerePrune, Intent
<1>7. Here(s)'
  BY <1>1, <1>2, TxnAssumption DEF TypeOK, RunInv, ReadInv, Order, Here, Idle, HereFirst,
     HerePrune, HereUndo,
     HereReplay, Named, Nothing, Intent, Bare
<1>8. \A o \in Servers : Here(o)' BY <1>2, <1>3, <1>7, Frame
<1> QED BY <1>4, <1>5, <1>6, <1>8 DEF Inv

LEMMA UnanchorStep ==
  ASSUME apart, Inv, TypeOK', NEW s \in Servers, Unanchor(s)
  PROVE  Inv'
<1> USE DEF Unanchor, Throw, Released
<1>1. /\ pc[s] = "unanchor" /\ TypeOK /\ Order /\ ReadInv /\ RunInv
      /\ HereFirst(s) /\ HerePrune(s)
  BY DEF Inv, Here
<1>2. \A o \in Servers \ {s} : pc[o] \notin Acting BY <1>1, OneActs
<1>3. Others(s) BY <1>1 DEF TypeOK, Others
<1>4. Order'
  BY <1>1, <1>2, <1>3, ServerAssumption DEF TypeOK, Order, Others, RunInv, HereFirst, HerePrune,
     Alone, Calm, Unshadowed, Fails
<1>5. ReadInv'
  BY <1>1, <1>2, <1>3 DEF TypeOK, ReadInv, Others, Order, HereFirst, HerePrune, Alone, Calm, Unshadowed, Fails
<1>6. RunInv'
  BY <1>1, <1>2, TxnAssumption DEF TypeOK, RunInv, ReadInv, NamedTillGone, Named, Nothing,
     HereFirst, HerePrune, Intent
<1>7. Here(s)'
  BY <1>1, <1>2, TxnAssumption DEF TypeOK, RunInv, ReadInv, Order, Here, Idle, HereFirst,
     HerePrune, HereUndo,
     HereReplay, Named, Nothing, Intent, Bare
<1>8. \A o \in Servers : Here(o)' BY <1>2, <1>3, <1>7, Frame
<1> QED BY <1>4, <1>5, <1>6, <1>8 DEF Inv

LEMMA MoveStep ==
  ASSUME apart, Inv, TypeOK', NEW s \in Servers, Move(s)
  PROVE  Inv'
<1> USE DEF Move, Throw, Released
<1>1. /\ pc[s] = "move" /\ TypeOK /\ Order /\ ReadInv /\ RunInv
      /\ HerePrune(s)
  BY DEF Inv, Here
<1>2. \A o \in Servers \ {s} : pc[o] \notin Acting BY <1>1, OneActs
<1>3. Others(s) BY <1>1 DEF TypeOK, Others
<1>4. Order'
  BY <1>1, <1>2, <1>3, ServerAssumption DEF TypeOK, Order, Others, RunInv, HerePrune, Alone, Calm, Unshadowed, Fails
<1>5. ReadInv'
  BY <1>1, <1>2, <1>3 DEF TypeOK, ReadInv, Others, Order, HerePrune, Alone, Calm,
     Unshadowed, Fails
<1>6. RunInv'
  BY <1>1, <1>2, TxnAssumption DEF TypeOK, RunInv, ReadInv, NamedTillGone, Named, Nothing,
     HerePrune, Intent
<1>7. Here(s)'
  BY <1>1, <1>2, TxnAssumption DEF TypeOK, RunInv, ReadInv, Order, Here, Idle, HereFirst,
     HerePrune, HereUndo,
     HereReplay, Named, Nothing, Intent, Bare
<1>8. \A o \in Servers : Here(o)' BY <1>2, <1>3, <1>7, Frame
<1> QED BY <1>4, <1>5, <1>6, <1>8 DEF Inv

LEMMA RemoveStep ==
  ASSUME apart, Inv, TypeOK', NEW s \in Servers, Remove(s)
  PROVE  Inv'
<1> USE DEF Remove, Finish, Blank, Released
<1>1. /\ pc[s] = "remove" /\ TypeOK /\ Order /\ ReadInv /\ RunInv
      /\ HerePrune(s)
  BY DEF Inv, Here
<1>2. \A o \in Servers \ {s} : pc[o] \notin Acting BY <1>1, OneActs
<1>3. Others(s) BY <1>1 DEF TypeOK, Others
<1>4. Order'
  BY <1>1, <1>2, <1>3, ServerAssumption DEF TypeOK, Order, Others, RunInv, HerePrune, Alone, Calm, Unshadowed, Fails
<1>5. ReadInv'
  BY <1>1, <1>2, <1>3 DEF TypeOK, ReadInv, Others, Order, HerePrune, Alone, Calm,
     Unshadowed, Fails
<1>6. RunInv'
  BY <1>1, <1>2, TxnAssumption DEF TypeOK, RunInv, ReadInv, NamedTillGone, Named, Nothing,
     HerePrune
<1>7. Here(s)'
  BY <1>1, <1>2, TxnAssumption DEF TypeOK, RunInv, ReadInv, Order, Here, Idle, HereFirst,
     HerePrune, HereUndo,
     HereReplay, Named, Nothing, Intent, Bare
<1>8. \A o \in Servers : Here(o)' BY <1>2, <1>3, <1>7, Frame
<1> QED BY <1>4, <1>5, <1>6, <1>8 DEF Inv

LEMMA CommitStep ==
  ASSUME apart, Inv, TypeOK', NEW s \in Servers, Commit(s)
  PROVE  Inv'
<1> USE DEF Commit, Finish, Blank, Released
<1>1. /\ pc[s] = "commit" /\ TypeOK /\ Order /\ ReadInv /\ RunInv
      /\ HerePrune(s)
  BY DEF Inv, Here
<1>2. \A o \in Servers \ {s} : pc[o] \notin Acting BY <1>1, OneActs
<1>3. Others(s) BY <1>1 DEF TypeOK, Others
<1>4. Order'
  BY <1>1, <1>2, <1>3, ServerAssumption DEF TypeOK, Order, Others, RunInv, HerePrune, Alone, Calm, Unshadowed, Fails
<1>5. ReadInv'
  BY <1>1, <1>2, <1>3 DEF TypeOK, ReadInv, Others, Order, HerePrune, Alone, Calm,
     Unshadowed, Fails
<1>6. RunInv'
  BY <1>1, <1>2, TxnAssumption DEF TypeOK, RunInv, ReadInv, NamedTillGone, Named, Nothing,
     HerePrune
<1>7. Here(s)'
  BY <1>1, <1>2, TxnAssumption DEF TypeOK, RunInv, ReadInv, Order, Here, Idle, HereFirst,
     HerePrune, HereUndo,
     HereReplay, Named, Nothing, Intent, Bare
<1>8. \A o \in Servers : Here(o)' BY <1>2, <1>3, <1>7, Frame
<1> QED BY <1>4, <1>5, <1>6, <1>8 DEF Inv

LEMMA CompleteStep ==
  ASSUME apart, Inv, TypeOK', NEW s \in Servers, Complete(s)
  PROVE  Inv'
<1> USE DEF Complete, Finish, Blank, Released, Append, AppendFails, Intent, Bare
<1>1. /\ pc[s] = "complete" /\ TypeOK /\ Order /\ ReadInv /\ RunInv
      /\ HerePrune(s)
  BY DEF Inv, Here
<1>2. \A o \in Servers \ {s} : pc[o] \notin Acting BY <1>1, OneActs
<1>3. Others(s) BY <1>1 DEF TypeOK, Others
<1>4. Order'
  BY <1>1, <1>2, <1>3, ServerAssumption DEF TypeOK, Order, Others, RunInv, HerePrune, Alone, Calm, Unshadowed, Fails
<1>5. ReadInv'
  BY <1>1, <1>2, <1>3 DEF TypeOK, ReadInv, Others, Order, HerePrune, Alone, Calm,
     Unshadowed, Fails
<1>6. RunInv'
  BY <1>1, <1>2, TxnAssumption DEF TypeOK, RunInv, ReadInv, NamedTillGone, Named, Nothing,
     HerePrune
<1>7. Here(s)'
  BY <1>1, <1>2, TxnAssumption DEF TypeOK, RunInv, ReadInv, Order, Here, Idle, HereFirst,
     HerePrune, HereUndo,
     HereReplay, Named, Nothing, Intent, Bare
<1>8. \A o \in Servers : Here(o)' BY <1>2, <1>3, <1>7, Frame
<1> QED BY <1>4, <1>5, <1>6, <1>8 DEF Inv

-----------------------------------------------------------------------------
(* prune: the catch block *)

LEMMA UndoMoveStep ==
  ASSUME apart, Inv, TypeOK', NEW s \in Servers, UndoMove(s)
  PROVE  Inv'
<1> USE DEF UndoMove, Finish, Blank, Released
<1>1. /\ pc[s] = "undoMove" /\ TypeOK /\ Order /\ ReadInv /\ RunInv
      /\ HereUndo(s)
  BY DEF Inv, Here
<1>2. \A o \in Servers \ {s} : pc[o] \notin Acting BY <1>1, OneActs
<1>3. Others(s) BY <1>1 DEF TypeOK, Others
<1>4. Order'
  BY <1>1, <1>2, <1>3, ServerAssumption DEF TypeOK, Order, Others, RunInv, HereUndo, Alone, Calm, Unshadowed, Fails
<1>5. ReadInv'
  BY <1>1, <1>2, <1>3 DEF TypeOK, ReadInv, Others, Order, HereUndo, Alone, Calm,
     Unshadowed, Fails
<1>6. RunInv'
  BY <1>1, <1>2, TxnAssumption DEF TypeOK, RunInv, ReadInv, NamedTillGone, Named, Nothing,
     HereUndo
<1>7. Here(s)'
  BY <1>1, <1>2, TxnAssumption DEF TypeOK, RunInv, ReadInv, Order, Here, Idle, HereFirst,
     HerePrune, HereUndo,
     HereReplay, Named, Nothing, Intent, Bare
<1>8. \A o \in Servers : Here(o)' BY <1>2, <1>3, <1>7, Frame
<1> QED BY <1>4, <1>5, <1>6, <1>8 DEF Inv

LEMMA UndoRefsStep ==
  ASSUME apart, Inv, TypeOK', NEW s \in Servers, UndoRefs(s)
  PROVE  Inv'
<1> USE DEF UndoRefs, Finish, Blank, Released
<1>1. /\ pc[s] = "undoRefs" /\ TypeOK /\ Order /\ ReadInv /\ RunInv
      /\ HereUndo(s)
  BY DEF Inv, Here
<1>2. \A o \in Servers \ {s} : pc[o] \notin Acting BY <1>1, OneActs
<1>3. Others(s) BY <1>1 DEF TypeOK, Others
<1>4. Order'
  BY <1>1, <1>2, <1>3, ServerAssumption DEF TypeOK, Order, Others, RunInv, HereUndo, Alone, Calm, Unshadowed, Fails
<1>5. ReadInv'
  BY <1>1, <1>2, <1>3 DEF TypeOK, ReadInv, Others, Order, HereUndo, Alone, Calm,
     Unshadowed, Fails
<1>6. RunInv'
  BY <1>1, <1>2, TxnAssumption DEF TypeOK, RunInv, ReadInv, NamedTillGone, Named, Nothing,
     HereUndo
<1>7. Here(s)'
  BY <1>1, <1>2, TxnAssumption DEF TypeOK, RunInv, ReadInv, Order, Here, Idle, HereFirst,
     HerePrune, HereUndo,
     HereReplay, Named, Nothing, Intent, Bare
<1>8. \A o \in Servers : Here(o)' BY <1>2, <1>3, <1>7, Frame
<1> QED BY <1>4, <1>5, <1>6, <1>8 DEF Inv

LEMMA UndoBackupStep ==
  ASSUME apart, Inv, TypeOK', NEW s \in Servers, UndoBackup(s)
  PROVE  Inv'
<1> USE DEF UndoBackup, Finish, Blank, Released
<1>1. /\ pc[s] = "undoBackup" /\ TypeOK /\ Order /\ ReadInv /\ RunInv
      /\ HereUndo(s)
  BY DEF Inv, Here
<1>2. \A o \in Servers \ {s} : pc[o] \notin Acting BY <1>1, OneActs
<1>3. Others(s) BY <1>1 DEF TypeOK, Others
<1>4. Order'
  BY <1>1, <1>2, <1>3, ServerAssumption DEF TypeOK, Order, Others, RunInv, HereUndo, Alone, Calm, Unshadowed, Fails
<1>5. ReadInv'
  BY <1>1, <1>2, <1>3 DEF TypeOK, ReadInv, Others, Order, HereUndo, Alone, Calm,
     Unshadowed, Fails
<1>6. RunInv'
  BY <1>1, <1>2, TxnAssumption DEF TypeOK, RunInv, ReadInv, NamedTillGone, Named, Nothing,
     HereUndo
<1>7. Here(s)'
  BY <1>1, <1>2, TxnAssumption DEF TypeOK, RunInv, ReadInv, Order, Here, Idle, HereFirst,
     HerePrune, HereUndo,
     HereReplay, Named, Nothing, Intent, Bare
<1>8. \A o \in Servers : Here(o)' BY <1>2, <1>3, <1>7, Frame
<1> QED BY <1>4, <1>5, <1>6, <1>8 DEF Inv

LEMMA NoteRollbackStep ==
  ASSUME apart, Inv, TypeOK', NEW s \in Servers, NoteRollback(s)
  PROVE  Inv'
<1> USE DEF NoteRollback, Finish, Blank, Released, Append, AppendFails, Intent, Bare
<1>1. /\ pc[s] = "noteRollback" /\ TypeOK /\ Order /\ ReadInv /\ RunInv
      /\ HereUndo(s)
  BY DEF Inv, Here
<1>2. \A o \in Servers \ {s} : pc[o] \notin Acting BY <1>1, OneActs
<1>3. Others(s) BY <1>1 DEF TypeOK, Others
<1>4. Order'
  BY <1>1, <1>2, <1>3, ServerAssumption DEF TypeOK, Order, Others, RunInv, HereUndo, Alone, Calm, Unshadowed, Fails
<1>5. ReadInv'
  BY <1>1, <1>2, <1>3 DEF TypeOK, ReadInv, Others, Order, HereUndo, Alone, Calm,
     Unshadowed, Fails
<1>6. RunInv'
  BY <1>1, <1>2, TxnAssumption DEF TypeOK, RunInv, ReadInv, NamedTillGone, Named, Nothing,
     HereUndo
<1>7. Here(s)'
  BY <1>1, <1>2, TxnAssumption DEF TypeOK, RunInv, ReadInv, Order, Here, Idle, HereFirst,
     HerePrune, HereUndo,
     HereReplay, Named, Nothing, Intent, Bare
<1>8. \A o \in Servers : Here(o)' BY <1>2, <1>3, <1>7, Frame
<1> QED BY <1>4, <1>5, <1>6, <1>8 DEF Inv

-----------------------------------------------------------------------------
(* reclaimRepoAbsentArchive *)

LEMMA GoneIntentStep ==
  ASSUME apart, Inv, TypeOK', NEW s \in Servers, GoneIntent(s)
  PROVE  Inv'
<1> USE DEF GoneIntent, Throw, Released, Append, AppendFails, Intent, Bare
<1>1. /\ pc[s] = "goneIntent" /\ TypeOK /\ Order /\ ReadInv /\ RunInv
      /\ HereFirst(s)
  BY DEF Inv, Here
<1>2. \A o \in Servers \ {s} : pc[o] \notin Acting BY <1>1, OneActs
<1>3. Others(s) BY <1>1 DEF TypeOK, Others
<1>4. Order'
  BY <1>1, <1>2, <1>3, ServerAssumption DEF TypeOK, Order, Others, RunInv, HereFirst, Alone, Calm, Unshadowed, Fails
<1>5. ReadInv'
  BY <1>1, <1>2, <1>3 DEF TypeOK, ReadInv, Others, Order, HereFirst, Alone, Calm,
     Unshadowed, Fails
<1>6. RunInv'
  BY <1>1, <1>2, TxnAssumption DEF TypeOK, RunInv, ReadInv, NamedTillGone, Named, Nothing,
     HereFirst, Order
<1>7. Here(s)'
  BY <1>1, <1>2, TxnAssumption DEF TypeOK, RunInv, ReadInv, Order, Here, Idle, HereFirst,
     HerePrune, HereUndo,
     HereReplay, Named, Nothing, Intent, Bare
<1>8. \A o \in Servers : Here(o)' BY <1>2, <1>3, <1>7, Frame
<1> QED BY <1>4, <1>5, <1>6, <1>8 DEF Inv

LEMMA GoneMoveStep ==
  ASSUME apart, Inv, TypeOK', NEW s \in Servers, GoneMove(s)
  PROVE  Inv'
<1> USE DEF GoneMove, Throw, Released
<1>1. /\ pc[s] = "goneMove" /\ TypeOK /\ Order /\ ReadInv /\ RunInv
      /\ HereFirst(s) /\ HerePrune(s)
  BY DEF Inv, Here
<1>2. \A o \in Servers \ {s} : pc[o] \notin Acting BY <1>1, OneActs
<1>3. Others(s) BY <1>1 DEF TypeOK, Others
<1>4. Order'
  BY <1>1, <1>2, <1>3, ServerAssumption DEF TypeOK, Order, Others, RunInv, HereFirst, HerePrune,
     Alone, Calm, Unshadowed, Fails
<1>5. ReadInv'
  BY <1>1, <1>2, <1>3 DEF TypeOK, ReadInv, Others, Order, HereFirst, HerePrune, Alone, Calm, Unshadowed, Fails
<1>6. RunInv'
  BY <1>1, <1>2, TxnAssumption DEF TypeOK, RunInv, ReadInv, NamedTillGone, Named, Nothing,
     HereFirst, HerePrune, Bare
<1>7. Here(s)'
  BY <1>1, <1>2, TxnAssumption DEF TypeOK, RunInv, ReadInv, Order, Here, Idle, HereFirst,
     HerePrune, HereUndo,
     HereReplay, Named, Nothing, Intent, Bare
<1>8. \A o \in Servers : Here(o)' BY <1>2, <1>3, <1>7, Frame
<1> QED BY <1>4, <1>5, <1>6, <1>8 DEF Inv

LEMMA GoneRemoveStep ==
  ASSUME apart, Inv, TypeOK', NEW s \in Servers, GoneRemove(s)
  PROVE  Inv'
<1> USE DEF GoneRemove, Throw, Released
<1>1. /\ pc[s] = "goneRemove" /\ TypeOK /\ Order /\ ReadInv /\ RunInv
      /\ HereFirst(s) /\ HerePrune(s)
  BY DEF Inv, Here
<1>2. \A o \in Servers \ {s} : pc[o] \notin Acting BY <1>1, OneActs
<1>3. Others(s) BY <1>1 DEF TypeOK, Others
<1>4. Order'
  BY <1>1, <1>2, <1>3, ServerAssumption DEF TypeOK, Order, Others, RunInv, HereFirst, HerePrune,
     Alone, Calm, Unshadowed, Fails
<1>5. ReadInv'
  BY <1>1, <1>2, <1>3 DEF TypeOK, ReadInv, Others, Order, HereFirst, HerePrune, Alone, Calm, Unshadowed, Fails
<1>6. RunInv'
  BY <1>1, <1>2, TxnAssumption DEF TypeOK, RunInv, ReadInv, NamedTillGone, Named, Nothing,
     HereFirst, HerePrune
<1>7. Here(s)'
  BY <1>1, <1>2, TxnAssumption DEF TypeOK, RunInv, ReadInv, Order, Here, Idle, HereFirst,
     HerePrune, HereUndo,
     HereReplay, Named, Nothing, Intent, Bare
<1>8. \A o \in Servers : Here(o)' BY <1>2, <1>3, <1>7, Frame
<1> QED BY <1>4, <1>5, <1>6, <1>8 DEF Inv

-----------------------------------------------------------------------------
(* recoverStaleRuns *)

LEMMA StartStep ==
  ASSUME apart, Inv, TypeOK', NEW s \in Servers, Start(s)
  PROVE  Inv'
<1> USE DEF Start
<1>1. pc[s] = "down" /\ TypeOK /\ Order /\ ReadInv /\ Idle(s) BY DEF Inv, Here
<1>2. Others(s) BY <1>1 DEF TypeOK, Others
<1>3. Order'
  BY <1>1, <1>2, ServerAssumption DEF TypeOK, Order, Others, Calm
<1>4. ReadInv' BY <1>1, <1>2 DEF TypeOK, ReadInv, Others
<1>5. Here(s)'
  BY <1>1 DEF TypeOK, Here, HereFirst, HerePrune, HereUndo, HereReplay, Idle
<1> QED BY <1>2, <1>3, <1>4, <1>5, Looks

LEMMA ReclaimJournalStep ==
  ASSUME apart, Inv, TypeOK', NEW s \in Servers, ReclaimJournal(s)
  PROVE  Inv'
<1> USE DEF ReclaimJournal
<1>1. pc[s] = "reclaimJournal" /\ TypeOK /\ Order /\ ReadInv /\ Idle(s) BY DEF Inv, Here
<1>2. Others(s) BY <1>1 DEF TypeOK, Others
<1>3. Order' BY <1>1, <1>2, ServerAssumption DEF TypeOK, Order, Others
<1>4. ReadInv' BY <1>1, <1>2 DEF TypeOK, ReadInv, Others
<1>5. Here(s)'
  BY <1>1 DEF TypeOK, Here, HereFirst, HerePrune, HereUndo, HereReplay, Idle
<1> QED BY <1>2, <1>3, <1>4, <1>5, Looks

LEMMA ReadJournalStep ==
  ASSUME apart, Inv, TypeOK', NEW s \in Servers, ReadJournal(s)
  PROVE  Inv'
<1> USE DEF ReadJournal, StartFails, Released, Forgets
<1>1. pc[s] = "readJournal" /\ TypeOK /\ Order /\ ReadInv /\ Idle(s) BY DEF Inv, Here
<1>2. Others(s) BY <1>1 DEF TypeOK, Others
<1>3. Order' BY <1>1, <1>2, ServerAssumption DEF TypeOK, Order, Others
<1>4. ReadInv' BY <1>1, <1>2 DEF TypeOK, ReadInv, Others
<1>5. Here(s)'
  BY <1>1 DEF TypeOK, Here, HereFirst, HerePrune, HereUndo, HereReplay, Idle
<1> QED BY <1>2, <1>3, <1>4, <1>5, Looks

\* With the lease the archive is where the intent says, or the prune has come to its end.
LEMMA ReplayStep ==
  ASSUME apart, Inv, TypeOK', NEW s \in Servers, Replay(s)
  PROVE  Inv'
<1> USE DEF Replay, StartFails, Released, Forgets, Inspects
<1>1. pc[s] = "replay" /\ TypeOK /\ Order /\ ReadInv /\ RunInv /\ Idle(s) BY DEF Inv, Here
<1>2. Others(s) BY <1>1 DEF TypeOK, Others
<1>3. Order' BY <1>1, <1>2, ServerAssumption DEF TypeOK, Order, Others
<1>4. ReadInv' BY <1>1, <1>2 DEF TypeOK, ReadInv, Others
<1>5. Here(s)'
  BY <1>1, TxnAssumption DEF TypeOK, ReadInv, RunInv, Here, HereFirst, HerePrune, HereUndo,
     HereReplay, Idle, Named
<1> QED BY <1>2, <1>3, <1>4, <1>5, Looks

LEMMA RestoreStep ==
  ASSUME apart, Inv, TypeOK', NEW s \in Servers, Restore(s)
  PROVE  Inv'
<1> USE DEF Restore, StartFails, Released, Forgets
<1>1. /\ pc[s] = "restore" /\ TypeOK /\ Order /\ ReadInv /\ RunInv
      /\ Idle(s) /\ HereReplay(s)
  BY DEF Inv, Here
<1>2. \A o \in Servers \ {s} : pc[o] \notin Acting BY <1>1, OneActs
<1>3. Others(s) BY <1>1 DEF TypeOK, Others
<1>4. Order'
  BY <1>1, <1>2, <1>3, ServerAssumption DEF TypeOK, Order, Others, RunInv, Idle, HereReplay,
     Alone, Calm, Unshadowed, Fails
<1>5. ReadInv'
  BY <1>1, <1>2, <1>3 DEF TypeOK, ReadInv, Others, Order, Idle, HereReplay, Alone,
     Calm, Unshadowed, Fails
<1>6. RunInv'
  BY <1>1, <1>2, TxnAssumption DEF TypeOK, RunInv, ReadInv, NamedTillGone, Named, Nothing,
     Idle, HereReplay
<1>7. Here(s)'
  BY <1>1, <1>2, TxnAssumption DEF TypeOK, RunInv, ReadInv, Order, Here, Idle, HereFirst,
     HerePrune, HereUndo,
     HereReplay, Named, Nothing, Intent, Bare
<1>8. \A o \in Servers : Here(o)' BY <1>2, <1>3, <1>7, Frame
<1> QED BY <1>4, <1>5, <1>6, <1>8 DEF Inv

LEMMA FinishRefsStep ==
  ASSUME apart, Inv, TypeOK', NEW s \in Servers, FinishRefs(s)
  PROVE  Inv'
<1> USE DEF FinishRefs, StartFails, Released, Forgets
<1>1. /\ pc[s] = "finish" /\ TypeOK /\ Order /\ ReadInv /\ RunInv
      /\ Idle(s) /\ HereReplay(s)
  BY DEF Inv, Here
<1>2. \A o \in Servers \ {s} : pc[o] \notin Acting BY <1>1, OneActs
<1>3. Others(s) BY <1>1 DEF TypeOK, Others
<1>4. Order'
  BY <1>1, <1>2, <1>3, ServerAssumption DEF TypeOK, Order, Others, RunInv, Idle, HereReplay,
     Alone, Calm, Unshadowed, Fails
<1>5. ReadInv'
  BY <1>1, <1>2, <1>3 DEF TypeOK, ReadInv, Others, Order, Idle, HereReplay, Alone,
     Calm, Unshadowed, Fails
<1>6. RunInv'
  BY <1>1, <1>2, TxnAssumption DEF TypeOK, RunInv, ReadInv, NamedTillGone, Named, Nothing,
     Idle, HereReplay
<1>7. Here(s)'
  BY <1>1, <1>2, TxnAssumption DEF TypeOK, RunInv, ReadInv, Order, Here, Idle, HereFirst,
     HerePrune, HereUndo,
     HereReplay, Named, Nothing, Intent, Bare
<1>8. \A o \in Servers : Here(o)' BY <1>2, <1>3, <1>7, Frame
<1> QED BY <1>4, <1>5, <1>6, <1>8 DEF Inv

LEMMA ReplayRemoveStep ==
  ASSUME apart, Inv, TypeOK', NEW s \in Servers, ReplayRemove(s)
  PROVE  Inv'
<1> USE DEF ReplayRemove, StartFails, Released, Forgets
<1>1. /\ pc[s] = "replayRemove" /\ TypeOK /\ Order /\ ReadInv /\ RunInv
      /\ Idle(s) /\ HereReplay(s)
  BY DEF Inv, Here
<1>2. \A o \in Servers \ {s} : pc[o] \notin Acting BY <1>1, OneActs
<1>3. Others(s) BY <1>1 DEF TypeOK, Others
<1>4. Order'
  BY <1>1, <1>2, <1>3, ServerAssumption DEF TypeOK, Order, Others, RunInv, Idle, HereReplay,
     Alone, Calm, Unshadowed, Fails
<1>5. ReadInv'
  BY <1>1, <1>2, <1>3 DEF TypeOK, ReadInv, Others, Order, Idle, HereReplay, Alone,
     Calm, Unshadowed, Fails
<1>6. RunInv'
  BY <1>1, <1>2, TxnAssumption DEF TypeOK, RunInv, ReadInv, NamedTillGone, Named, Nothing,
     Idle, HereReplay
<1>7. Here(s)'
  BY <1>1, <1>2, TxnAssumption DEF TypeOK, RunInv, ReadInv, Order, Here, Idle, HereFirst,
     HerePrune, HereUndo,
     HereReplay, Named, Nothing, Intent, Bare
<1>8. \A o \in Servers : Here(o)' BY <1>2, <1>3, <1>7, Frame
<1> QED BY <1>4, <1>5, <1>6, <1>8 DEF Inv

LEMMA ReplayCommitStep ==
  ASSUME apart, Inv, TypeOK', NEW s \in Servers, ReplayCommit(s)
  PROVE  Inv'
<1> USE DEF ReplayCommit, StartFails, Released, Forgets
<1>1. /\ pc[s] = "replayCommit" /\ TypeOK /\ Order /\ ReadInv /\ RunInv
      /\ Idle(s) /\ HereReplay(s)
  BY DEF Inv, Here
<1>2. \A o \in Servers \ {s} : pc[o] \notin Acting BY <1>1, OneActs
<1>3. Others(s) BY <1>1 DEF TypeOK, Others
<1>4. Order'
  BY <1>1, <1>2, <1>3, ServerAssumption DEF TypeOK, Order, Others, RunInv, Idle, HereReplay,
     Alone, Calm, Unshadowed, Fails
<1>5. ReadInv'
  BY <1>1, <1>2, <1>3 DEF TypeOK, ReadInv, Others, Order, Idle, HereReplay, Alone,
     Calm, Unshadowed, Fails
<1>6. RunInv'
  BY <1>1, <1>2, TxnAssumption DEF TypeOK, RunInv, ReadInv, NamedTillGone, Named, Nothing,
     Idle, HereReplay
<1>7. Here(s)'
  BY <1>1, <1>2, TxnAssumption DEF TypeOK, RunInv, ReadInv, Order, Here, Idle, HereFirst,
     HerePrune, HereUndo,
     HereReplay, Named, Nothing, Intent, Bare
<1>8. \A o \in Servers : Here(o)' BY <1>2, <1>3, <1>7, Frame
<1> QED BY <1>4, <1>5, <1>6, <1>8 DEF Inv

LEMMA ReplayNoteStep ==
  ASSUME apart, Inv, TypeOK', NEW s \in Servers, ReplayNote(s)
  PROVE  Inv'
<1> USE DEF ReplayNote, StartFails, Released, Forgets, Append, AppendFails, Intent, Bare
<1>1. /\ pc[s] = "replayNote" /\ TypeOK /\ Order /\ ReadInv /\ RunInv
      /\ Idle(s) /\ HereReplay(s)
  BY DEF Inv, Here
<1>2. \A o \in Servers \ {s} : pc[o] \notin Acting BY <1>1, OneActs
<1>3. Others(s) BY <1>1 DEF TypeOK, Others
<1>4. Order'
  BY <1>1, <1>2, <1>3, ServerAssumption DEF TypeOK, Order, Others, RunInv, Idle, HereReplay,
     Alone, Calm, Unshadowed, Fails
<1>5. ReadInv'
  BY <1>1, <1>2, <1>3 DEF TypeOK, ReadInv, Others, Order, Idle, HereReplay, Alone,
     Calm, Unshadowed, Fails
<1>6. RunInv'
  BY <1>1, <1>2, TxnAssumption DEF TypeOK, RunInv, ReadInv, NamedTillGone, Named, Nothing,
     Idle, HereReplay
<1>7. Here(s)'
  BY <1>1, <1>2, TxnAssumption DEF TypeOK, RunInv, ReadInv, Order, Here, Idle, HereFirst,
     HerePrune, HereUndo,
     HereReplay, Named, Nothing, Intent, Bare
<1>8. \A o \in Servers : Here(o)' BY <1>2, <1>3, <1>7, Frame
<1> QED BY <1>4, <1>5, <1>6, <1>8 DEF Inv

LEMMA EndPassStep ==
  ASSUME apart, Inv, TypeOK', NEW s \in Servers, EndPass(s)
  PROVE  Inv'
<1> USE DEF EndPass
<1>1. pc[s] = "endPass" /\ TypeOK /\ Order /\ ReadInv /\ Idle(s) BY DEF Inv, Here
<1>2. Others(s) BY <1>1 DEF TypeOK, Others
<1>3. Order' BY <1>1, <1>2, ServerAssumption DEF TypeOK, Order, Others
<1>4. ReadInv' BY <1>1, <1>2 DEF TypeOK, ReadInv, Others
<1>5. Here(s)'
  BY <1>1 DEF TypeOK, Here, HereFirst, HerePrune, HereUndo, HereReplay, Idle
<1> QED BY <1>2, <1>3, <1>4, <1>5, Looks

-----------------------------------------------------------------------------
(* Decisions, users and exits *)

LEMMA DecideStep ==
  ASSUME apart, Inv, TypeOK', NEW s \in Servers, Decide(s)
  PROVE  Inv'
<1> USE DEF Decide
<1>1. TypeOK /\ Order /\ ReadInv /\ RunInv BY DEF Inv
<1>2. Order' BY <1>1 DEF Order
<1>3. ReadInv' BY <1>1 DEF ReadInv
<1>4. RunInv' BY <1>1 DEF RunInv, NamedTillGone, Named
<1>5. ASSUME NEW o \in Servers PROVE Here(o)'
  <2>1. Here(o) BY DEF Inv
  <2>2. pc[o] \notin Leased \cup LeasedOrGone \cup Gone BY <1>1, ServerAssumption DEF Order
  <2> QED BY <2>1, <2>2 DEF Here, Idle, HereFirst, HerePrune, HereUndo, HereReplay, Named
<1> QED BY <1>2, <1>3, <1>4, <1>5 DEF Inv

LEMMA UserStep ==
  ASSUME apart, Inv, TypeOK', UserDeletesRepository
  PROVE  Inv'
<1> USE DEF UserDeletesRepository
<1>1. TypeOK /\ Order /\ ReadInv /\ RunInv BY DEF Inv
<1>2. Order' BY <1>1 DEF Order
<1>3. ReadInv' BY <1>1 DEF ReadInv
<1>4. RunInv' BY <1>1 DEF RunInv, NamedTillGone, Named
<1>5. ASSUME NEW o \in Servers PROVE Here(o)'
  <2>1. Here(o) BY DEF Inv
  <2> QED
    BY <1>1, <2>1 DEF Order, Here, Idle, HereFirst, HerePrune, HereUndo, HereReplay, Named, Intent,
       Bare
<1> QED BY <1>2, <1>3, <1>4, <1>5 DEF Inv

\* What an exit may leave in the journal: nothing new, or all of the line.
LEMMA ExitWrites ==
  ASSUME NEW s \in Servers, Exit(s)
  PROVE  \/ pending' = pending
         \/ pc[s] = "intent" /\ pending' = Intent(s)
         \/ pc[s] = "goneIntent" /\ pending' = Bare(s)
         \/ pc[s] \in {"complete", "replayNote", "noteRollback"} /\ pending' = Nothing
BY DEF Exit, Writes, AppendCutOff

LEMMA ExitStep ==
  ASSUME apart, Inv, TypeOK', NEW s \in Servers, Exit(s)
  PROVE  Inv'
<1> USE DEF Exit, Blank, Forgets
<1>1. TypeOK /\ Order /\ ReadInv /\ RunInv /\ Here(s) BY DEF Inv
<1>2. /\ Others(s) /\ pc' = [pc EXCEPT ![s] = "down"]
  BY <1>1 DEF TypeOK, Others
<1>3. CASE pc[s] \in Acting
  <2>1. \A o \in Servers \ {s} : pc[o] \notin Acting BY <1>3, OneActs
  <2>2. Order'
    BY <1>1, <1>2, <2>1, ServerAssumption DEF TypeOK, Order, Others
  <2>3. pc[s] \in {"intent", "goneIntent"} => \A o \in Servers : read[o] = Nothing
    BY <1>1 DEF ReadInv, Here, HereFirst
  <2>4. pc[s] \in {"replayNote", "noteRollback"} => \A o \in Servers \ {s} : read[o] = Nothing
    BY <1>1 DEF ReadInv, Order
  <2>5. pc[s] = "complete" => archive = "gone" BY <1>1 DEF Here, HerePrune
  <2>6. read'[s] = Nothing /\ pc'[s] = "down" /\ prepared'[s] = "none" /\ ~began'[s]
    BY <1>1 DEF TypeOK
  <2>7. UNCHANGED <<run, refs>> OBVIOUS
  <2> HIDE DEF Exit
  <2>8. ReadInv'
    BY <1>1, <1>2, <2>3, <2>4, <2>5, <2>6, <2>7, ExitWrites DEF ReadInv, Others
  <2>9. RunInv'
    <3>1. CASE pending' = pending BY <1>1, <2>7, <3>1 DEF RunInv, NamedTillGone, Named
    <3>2. CASE pc[s] = "intent" /\ pending' = Intent(s)
      BY <1>1, <2>7, <3>2, TxnAssumption DEF Intent, Nothing, RunInv, NamedTillGone, Named,
         Here, HereFirst
    <3>3. CASE pc[s] = "goneIntent" /\ pending' = Bare(s)
      BY <1>1, <2>7, <3>3, TxnAssumption DEF Bare, Nothing, RunInv, NamedTillGone, Named,
         Order, Here, HereFirst
    <3>4. CASE pc[s] \in {"complete", "replayNote", "noteRollback"} /\ pending' = Nothing
      BY <1>1, <2>7, <3>4, TxnAssumption DEF Nothing, RunInv, NamedTillGone, Named,
         Here, HerePrune, HereUndo, HereReplay
    <3> QED BY <3>1, <3>2, <3>3, <3>4, ExitWrites
  <2>10. Here(s)' BY <1>1, <2>6 DEF TypeOK, Here, HereFirst, HerePrune, HereUndo, HereReplay, Idle
  <2> QED BY <1>2, <2>1, <2>2, <2>8, <2>9, <2>10, Frame DEF Inv
<1>4. CASE pc[s] \notin Acting
  <2>1. pending' = pending BY <1>4, ExitWrites
  <2>2. Order' BY <1>1, <1>2, <2>1, ServerAssumption DEF TypeOK, Order, Others
  <2>3. ReadInv' BY <1>1, <1>2, <2>1 DEF TypeOK, ReadInv, Others
  <2>4. Here(s)' BY <1>1 DEF TypeOK, Here, HereFirst, HerePrune, HereUndo, HereReplay, Idle
  <2> QED BY <1>2, <2>1, <2>2, <2>3, <2>4, Looks
<1> QED BY <1>3, <1>4

-----------------------------------------------------------------------------
(* The invariant, and what follows from it *)

LEMMA Initially == Init => Inv
<1> SUFFICES ASSUME Init PROVE Inv OBVIOUS
<1> USE DEF Init
<1>1. TypeOK BY NothingType DEF TypeOK, Places
<1>2. Order /\ ReadInv BY ServerAssumption DEF Order, ReadInv
<1>3. RunInv BY TxnAssumption DEF RunInv, Nothing, NamedTillGone, Named
<1>4. \A s \in Servers : Here(s) BY DEF Here, Idle, HereFirst, HerePrune, HereUndo, HereReplay
<1> QED BY <1>1, <1>2, <1>3, <1>4 DEF Inv

LEMMA StepKeepsInv == apart /\ Inv /\ [Next]_vars => Inv'
<1> SUFFICES ASSUME apart, Inv, [Next]_vars PROVE Inv' OBVIOUS
<1>0. TypeOK'
  BY InvTypes, TypeNext DEF TypeInv
<1>1. CASE UserDeletesRepository BY <1>0, <1>1, UserStep
<1>2. ASSUME NEW s \in Servers, Prune(s) PROVE Inv'
  BY <1>0, <1>2, ListStep, AcquireStep, CheckStep, WriteIntentStep, BackUpStep, UnanchorStep, MoveStep,
     RemoveStep, CommitStep, CompleteStep, UndoMoveStep, UndoRefsStep, UndoBackupStep, NoteRollbackStep,
     GoneIntentStep, GoneMoveStep, GoneRemoveStep DEF Prune
<1>3. ASSUME NEW s \in Servers, Pass(s) PROVE Inv'
  BY <1>0, <1>3, StartStep, ReclaimJournalStep, ReadJournalStep, ReplayStep, RestoreStep, FinishRefsStep,
     ReplayRemoveStep, ReplayCommitStep, ReplayNoteStep, EndPassStep DEF Pass
<1>4. ASSUME NEW s \in Servers, Decide(s) \/ Exit(s) PROVE Inv' BY <1>0, <1>4, DecideStep, ExitStep
<1>5. CASE UNCHANGED vars
  BY <1>5 DEF vars, Inv, TypeOK, Order, ReadInv, RunInv, NamedTillGone, Named, Here, Idle,
     HereFirst,
     HerePrune, HereUndo, HereReplay, Intent, Bare
<1> QED BY <1>1, <1>2, <1>3, <1>4, <1>5 DEF Next, Step

LEMMA Always == Spec => [](apart => Inv)
<1>1. (apart => Inv) /\ [Next]_vars => (apart => Inv)'
  BY StepKeepsInv, ApartStays
<1> QED BY Initially, <1>1, PTL DEF Spec

\* With no intent pending the run is settled, even while servers are at work.
LEMMA Settled ==
  ASSUME Inv, pending = Nothing
  PROVE  /\ archive \in {"home", "gone"}
         /\ backup => decided \/ (archive = "home" /\ anchor)
         /\ anchor => archive = "home"
         /\ archive = "home" => Named
BY TxnAssumption DEF Inv, TypeOK, RunInv, Nothing

\* If servers keep apart, the run is retained whole or gone altogether when no intent is pending
\* and nobody is at work.
THEOREM SettledWhole == Spec => []SettledIsWhole
<1>1. (apart => Inv) => SettledIsWhole BY Settled DEF SettledIsWhole, Named
<1> QED BY <1>1, Always, PTL

\* No archive is orphaned in a quarantine as long as servers keep apart: the pending intent leads to
\* it.
THEOREM NotOrphaned == Spec => [](apart => NeverOrphaned)
<1>1. (apart => Inv) => (apart => NeverOrphaned) BY DEF Inv, RunInv, NeverOrphaned
<1> QED BY <1>1, Always, PTL

\* If servers keep apart, an archive leaves its place only under the intent that names where it goes.
THEOREM MovesAsIntended == Spec => MovedOnlyAsIntended
<1>1. ASSUME Inv, [Next]_vars, archive = "home", archive' # "home" PROVE pending.txn = archive'
  <2>1. \/ \E s \in Servers : Move(s) \/ GoneMove(s)
        \/ \E s \in Servers : Remove(s) \/ GoneRemove(s) \/ ReplayRemove(s)
    BY <1>1 DEF Next, vars, Step, Prune, Pass, UserDeletesRepository, Decide, Exit, List, Acquire,
       Check, WriteIntent, BackUp, Unanchor, Commit, Complete, UndoMove, UndoRefs, UndoBackup,
       NoteRollback, GoneIntent, Start, ReclaimJournal, ReadJournal, Replay, Restore,
       FinishRefs, ReplayCommit, ReplayNote, EndPass
  <2>2. \A s \in Servers : Here(s) BY <1>1 DEF Inv
  <2>3. ASSUME NEW s \in Servers, Move(s) \/ GoneMove(s) PROVE pending.txn = archive'
    BY <1>1, <2>2, <2>3 DEF Move, GoneMove, Here, HerePrune, Intent, Bare
  <2>4. ASSUME NEW s \in Servers, Remove(s) \/ GoneRemove(s) \/ ReplayRemove(s) PROVE FALSE
    <3>1. TypeOK /\ ReadInv BY <1>1 DEF Inv
    <3> QED
      BY <1>1, <2>2, <2>4, <3>1, TxnAssumption DEF Remove, GoneRemove, ReplayRemove, TypeOK,
         ReadInv,
         Record, NoTxn, Here, HerePrune, HereReplay
  <2> QED BY <2>1, <2>3, <2>4
<1>2. (apart => Inv) /\ [Next]_vars
        => [apart /\ archive = "home" /\ archive' # "home" => pending.txn = archive']_vars
  BY <1>1
<1> QED BY <1>2, Always, PTL DEF Spec, MovedOnlyAsIntended

\* If servers keep apart, an intent is taken back only when its archive is out of the quarantine.
THEOREM IntentsOutlive == Spec => IntentOutlivesQuarantine
<1>1. ASSUME Inv, Inv', [Next]_vars, pending # Nothing, pending' = Nothing PROVE archive # pending.txn
  <2>1. archive' = archive
    BY <1>1 DEF Next, vars, Step, Prune, Pass, UserDeletesRepository, Decide, Exit, List, Acquire,
       Check, WriteIntent, BackUp, Unanchor, Move, Remove, Commit, Complete, UndoMove, UndoRefs,
       UndoBackup, NoteRollback, GoneIntent, GoneMove, GoneRemove, Start, ReclaimJournal, ReadJournal,
       Replay, Restore, FinishRefs, ReplayRemove, ReplayCommit, ReplayNote, EndPass
  <2>2. archive' \in {"home", "gone"} BY <1>1, TxnAssumption DEF Inv, TypeOK, RunInv, Nothing
  <2>3. pending.txn \in Txns BY <1>1 DEF Inv, RunInv
  <2> QED BY <2>1, <2>2, <2>3, TxnAssumption
<1>2. (apart => Inv) /\ (apart => Inv)' /\ [Next]_vars
        => [apart /\ pending # Nothing /\ pending' = Nothing => archive # pending.txn]_vars
  BY <1>1, ApartStays
<1> QED BY <1>2, Always, PTL DEF Spec, IntentOutlivesQuarantine
-----------------------------------------------------------------------------
(* No step waits for what is not there *)

\* What Inv leaves open: an intent that found no anchor goes with none, and a prune that is undone
\* has its backup until it takes it away.
RefsInv ==
  /\ pending.outcome = "already-absent" => ~anchor
  /\ \A s \in Servers : At(s, "undoBackup") /\ repo => backup

\* Each step that commits, undoes or replays a prune finds the archive and the refs it asks for:
\* but for a call that fails it is refused only because the user has deleted the repository, or a
\* decision has removed the anchor that the replay of a rollback would bring back.
Provided(s) ==
  /\ At(s, "commit") /\ began[s] /\ repo => backup
  /\ At(s, "undoMove") => archive \in {"home", txn[s]}
  /\ At(s, "undoRefs") => ~anchor
  /\ At(s, "undoBackup") /\ repo => backup
  /\ At(s, "restore") =>
       \/ read[s].outcome = "not-applicable"
       \/ read[s].outcome = "already-absent" /\ ~anchor
       \/ read[s].outcome = "deleted" /\ (anchor \/ backup \/ decided \/ ~repo)
  /\ At(s, "finish") =>
       read[s].outcome = "not-applicable" \/ ~anchor \/ (read[s].outcome = "deleted" /\ repo)

NothingIsMissing == \A s \in Servers : Provided(s)

\* What a step may do to the refs and to the pending intent.
LEMMA RefsMoved ==
  ASSUME TypeOK, NEW s \in Servers, Step(s) \/ Decide(s) \/ Exit(s)
  PROVE  /\ repo' = repo
         /\ backup' # backup => pc[s] \in Acting
         /\ anchor' /\ ~anchor =>
              /\ pc[s] = "undoRefs" \/ (pc[s] = "restore" /\ read[s].outcome = "deleted")
              /\ repo /\ pending' = pending
<1> USE DEF Finish, Throw, StartFails, Forgets
<1> QED
  BY DEF Step, Prune, Pass, List, Acquire, Check, WriteIntent, BackUp, Unanchor, Move, Remove,
     Commit, Complete, UndoMove, UndoRefs, UndoBackup, NoteRollback, GoneIntent, GoneMove,
     GoneRemove, Start, ReclaimJournal, ReadJournal, Replay, Restore, FinishRefs, ReplayRemove,
     ReplayCommit, ReplayNote, EndPass, Decide, Exit

LEMMA IntentsMade ==
  ASSUME TypeOK, NEW s \in Servers, Step(s) \/ Decide(s) \/ Exit(s)
  PROVE  \/ pending' = pending \/ pending' = Nothing \/ pending' = Bare(s)
         \/ pc[s] = "intent" /\ pending' = Intent(s)
<1>1. CASE Exit(s)
  BY <1>1, ExitWrites
<1>2. CASE Step(s) \/ Decide(s)
  BY <1>2 DEF Append, AppendFails, Step, Prune, Pass, List, Acquire, Check, WriteIntent, BackUp,
     Unanchor, Move, Remove,
     Commit, Complete, UndoMove, UndoRefs, UndoBackup, NoteRollback, GoneIntent, GoneMove,
     GoneRemove, Start, ReclaimJournal, ReadJournal, Replay, Restore, FinishRefs, ReplayRemove,
     ReplayCommit, ReplayNote, EndPass, Decide
<1> QED BY <1>1, <1>2

LEMMA PlacesMoved ==
  ASSUME TypeOK, NEW s \in Servers, Step(s) \/ Decide(s) \/ Exit(s)
  PROVE  /\ \A o \in Servers \ {s} : pc'[o] = pc[o]
         /\ pc'[s] = "undoBackup" => pc[s] = "undoRefs" /\ backup' = backup
<1> USE DEF Finish, Throw, StartFails, Append
<1>1. pc \in [Servers -> Places] BY DEF TypeOK
<1> QED
  BY <1>1 DEF Step, Prune, Pass, List, Acquire, Check, WriteIntent, BackUp, Unanchor, Move, Remove,
     Commit, Complete, UndoMove, UndoRefs, UndoBackup, NoteRollback, GoneIntent, GoneMove,
     GoneRemove, Start, ReclaimJournal, ReadJournal, Replay, Restore, FinishRefs, ReplayRemove,
     ReplayCommit, ReplayNote, EndPass, Decide, Exit

LEMMA RefsInvNext == Inv /\ RefsInv /\ [Next]_vars => RefsInv'
<1> SUFFICES ASSUME Inv, RefsInv, [Next]_vars PROVE RefsInv'
  OBVIOUS
<1>1. CASE UserDeletesRepository
  BY <1>1 DEF UserDeletesRepository, RefsInv
<1>2. ASSUME NEW s \in Servers, Step(s) \/ Decide(s) \/ Exit(s) PROVE RefsInv'
  <2>1. TypeOK /\ Order /\ ReadInv /\ RunInv /\ Here(s)
    BY DEF Inv
  <2>2. pending'.outcome = "already-absent" => ~anchor'
    <3>1. CASE pending' = pending
      <4>1. pc[s] = "undoRefs" /\ repo => pending.outcome = "deleted"
        BY <2>1 DEF Here, HereUndo, RunInv
      <4>2. pc[s] = "restore" => pending = read[s]
        BY <2>1 DEF Here, HereReplay
      <4> QED BY <1>2, <2>1, <3>1, <4>1, <4>2, RefsMoved DEF RefsInv
    <3>2. CASE pending' = Nothing \/ pending' = Bare(s)
      BY <3>2 DEF Nothing, Bare
    <3>3. CASE pending' # pending /\ pc[s] = "intent" /\ pending' = Intent(s)
      BY <1>2, <2>1, <3>3, RefsMoved DEF Intent, Here, HereFirst
    <3> QED BY <1>2, <2>1, <3>1, <3>2, <3>3, IntentsMade
  <2>3. ASSUME NEW o \in Servers, pc'[o] = "undoBackup", repo' PROVE backup'
    <3>1. CASE o = s
      BY <1>2, <2>1, <2>3, <3>1, RefsMoved, PlacesMoved DEF Here, HereUndo
    <3>2. CASE o # s
      <4>1. pc[o] = "undoBackup" /\ pc[s] \notin Acting
        BY <1>2, <2>1, <2>3, <3>2, PlacesMoved, OneActs
      <4> QED BY <1>2, <2>1, <2>3, <4>1, RefsMoved DEF RefsInv
    <3> QED BY <3>1, <3>2
  <2> QED BY <2>2, <2>3 DEF RefsInv
<1>3. CASE UNCHANGED vars
  BY <1>3 DEF vars, RefsInv
<1> QED BY <1>1, <1>2, <1>3 DEF Next

\* Recovery is never refused by what a prune has left behind: whatever step a prune had come to,
\* its undo and its replay find the archive and the refs they need, except where the user has
\* deleted the repository or a decision has removed the anchor, as long as servers keep apart
\* (reconcileCleanupRefs).
THEOREM ReplayFindsRefs == Spec => [](apart => NothingIsMissing)
<1>1. Init => RefsInv
  BY DEF Init, RefsInv, Nothing
<1>1a. (apart => Inv) /\ (apart => RefsInv) /\ [Next]_vars => (apart => RefsInv)'
  BY RefsInvNext, ApartStays
<1>2. Spec => [](apart => RefsInv)
  BY <1>1, <1>1a, Always, PTL DEF Spec
<1>3. Inv /\ RefsInv => NothingIsMissing
  <2> SUFFICES ASSUME Inv, RefsInv, NEW s \in Servers PROVE Provided(s)
    BY DEF NothingIsMissing
  <2>1. TypeOK /\ RunInv /\ Here(s)
    BY DEF Inv
  <2>2. read[s].outcome \in {"none", "deleted", "already-absent", "not-applicable"}
    BY <2>1 DEF TypeOK, Record
  <2>3. pc[s] \in {"restore", "finish"} => read[s] # Nothing
    BY DEF Inv, ReadInv
  <2>4. pc[s] = "finish" => pending = read[s] \/ ~anchor
    BY <2>1, <2>3, TxnAssumption DEF Inv, ReadInv, RunInv, Nothing
  <2>5. pc[s] \in {"restore", "finish"} /\ pending = read[s] => read[s].outcome # "none"
    BY <2>1, <2>3 DEF RunInv
  <2> QED
    BY <2>1, <2>2, <2>4, <2>5 DEF Provided, RefsInv, RunInv, Here, HerePrune, HereUndo, HereReplay,
       NamedTillGone
<1> QED BY <1>2, <1>3, Always, PTL

-----------------------------------------------------------------------------
(* A start is over soon *)

\* The calls for a ref that a replay still makes.
RefCalls(s) ==
  IF At(s, "finish") /\ anchor THEN IF backup THEN 1 ELSE 2
  ELSE IF At(s, "restore") /\ ~anchor /\ backup THEN 1 ELSE 0

\* How far each place is from the end of the start it belongs to.
Far == [down |-> 0, ready |-> 0, complete |-> 1, noteRollback |-> 1, commit |-> 2, undoBackup |-> 2,
  remove |-> 3, undoRefs |-> 3, undoMove |-> 4, move |-> 5, goneRemove |-> 5, unanchor |-> 6,
  goneMove |-> 6, backup |-> 7, goneIntent |-> 7, intent |-> 8, check |-> 9, acquire |-> 10,
  list |-> 11, endPass |-> 12, replayNote |-> 13, replayCommit |-> 14, replayRemove |-> 15,
  finish |-> 16, restore |-> 16, replay |-> 19, readJournal |-> 20, reclaimJournal |-> 21]

\* The steps that a server at most has before it until it serves or is down.
Left(s) == Far[pc[s]] + RefCalls(s)

\* Each step of a start brings its end closer, and nobody puts it off.
EndsSoon(s) == Start(s) \/ (Left(s)' <= Left(s) /\ (Step(s) => Left(s)' < Left(s)))

\* The entries of Far, one by one.
LEMMA FarIs ==
  /\ Far["down"] = 0 /\ Far["ready"] = 0 /\ Far["complete"] = 1
  /\ Far["noteRollback"] = 1 /\ Far["commit"] = 2 /\ Far["undoBackup"] = 2
  /\ Far["remove"] = 3 /\ Far["undoRefs"] = 3 /\ Far["undoMove"] = 4
  /\ Far["move"] = 5 /\ Far["goneRemove"] = 5 /\ Far["unanchor"] = 6
  /\ Far["goneMove"] = 6 /\ Far["backup"] = 7 /\ Far["goneIntent"] = 7
  /\ Far["intent"] = 8 /\ Far["check"] = 9 /\ Far["acquire"] = 10
  /\ Far["list"] = 11 /\ Far["endPass"] = 12 /\ Far["replayNote"] = 13
  /\ Far["replayCommit"] = 14 /\ Far["replayRemove"] = 15 /\ Far["finish"] = 16
  /\ Far["restore"] = 16 /\ Far["replay"] = 19 /\ Far["readJournal"] = 20
  /\ Far["reclaimJournal"] = 21
BY DEF Far

\* A start has at most 21 steps before it.
LEMMA LeftType == TypeOK => \A s \in Servers : Left(s) \in 0..21
BY FarIs DEF TypeOK, Places, Left, RefCalls

\* A step of its own takes at least one from what a server has before it.
LEMMA OwnStepTakes ==
  ASSUME TypeOK, NEW s \in Servers, Step(s), ~Start(s)
  PROVE  Left(s)' < Left(s) /\ Left(s)' <= Left(s)
<1> USE FarIs DEF TypeOK, Places, Left, RefCalls, Finish, Throw, StartFails, Append
<1>1. CASE List(s)
  BY <1>1 DEF List
<1>2. CASE Acquire(s)
  BY <1>2 DEF Acquire
<1>3. CASE Check(s)
  BY <1>3 DEF Check
<1>4. CASE WriteIntent(s)
  BY <1>4 DEF WriteIntent
<1>5. CASE BackUp(s)
  BY <1>5 DEF BackUp
<1>6. CASE Unanchor(s)
  BY <1>6 DEF Unanchor
<1>7. CASE Move(s)
  BY <1>7 DEF Move
<1>8. CASE Remove(s)
  BY <1>8 DEF Remove
<1>9. CASE Commit(s)
  BY <1>9 DEF Commit
<1>10. CASE Complete(s)
  BY <1>10 DEF Complete
<1>11. CASE UndoMove(s)
  BY <1>11 DEF UndoMove
<1>12. CASE UndoRefs(s)
  BY <1>12 DEF UndoRefs
<1>13. CASE UndoBackup(s)
  BY <1>13 DEF UndoBackup
<1>14. CASE NoteRollback(s)
  BY <1>14 DEF NoteRollback
<1>15. CASE GoneIntent(s)
  BY <1>15 DEF GoneIntent
<1>16. CASE GoneMove(s)
  BY <1>16 DEF GoneMove
<1>17. CASE GoneRemove(s)
  BY <1>17 DEF GoneRemove
<1>18. CASE ReclaimJournal(s)
  BY <1>18 DEF ReclaimJournal
<1>19. CASE ReadJournal(s)
  BY <1>19 DEF ReadJournal
<1>20. CASE Replay(s)
  BY <1>20 DEF Replay
<1>21. CASE Restore(s)
  BY <1>21 DEF Restore
<1>22. CASE FinishRefs(s)
  BY <1>22 DEF FinishRefs
<1>23. CASE ReplayRemove(s)
  BY <1>23 DEF ReplayRemove
<1>24. CASE ReplayCommit(s)
  BY <1>24 DEF ReplayCommit
<1>25. CASE ReplayNote(s)
  BY <1>25 DEF ReplayNote
<1>26. CASE EndPass(s)
  BY <1>26 DEF EndPass
<1> QED
  BY <1>1, <1>2, <1>3, <1>4, <1>5, <1>6, <1>7, <1>8, <1>9, <1>10, <1>11, <1>12, <1>13,
     <1>14, <1>15, <1>16, <1>17, <1>18, <1>19, <1>20, <1>21, <1>22, <1>23, <1>24, <1>25, <1>26
  DEF Step, Prune, Pass

\* Whoever else may touch the refs that a replay is about would have to act beside it.
LEMMA OthersTakeNothing ==
  ASSUME Inv, NEW s \in Servers, NEW o \in Servers, o # s, Step(o) \/ Decide(o) \/ Exit(o)
  PROVE  Left(s)' <= Left(s)
<1>1. pc'[s] = pc[s] /\ repo' = repo
  BY PlacesMoved, RefsMoved DEF Inv
<1>2. CASE pc[s] \in {"finish", "restore"}
  <2>1. pc[o] \notin Acting /\ lease = s
    BY <1>2, OneActs DEF Inv, Order
  <2>2. UNCHANGED refs
    BY <2>1, ServerAssumption
    DEF Step, Prune, Pass, List, Acquire, Check, WriteIntent, BackUp, Unanchor, Move,
       Remove, Commit, Complete, UndoMove, UndoRefs, UndoBackup, NoteRollback, GoneIntent, GoneMove,
       GoneRemove, Start, ReclaimJournal, ReadJournal, Replay, Restore, FinishRefs, ReplayRemove,
       ReplayCommit, ReplayNote, EndPass, Decide, Exit, refs, Inv, TypeOK
  <2>3. Left(s)' = Left(s)
    BY <1>1, <2>2 DEF Left, RefCalls, refs
  <2> QED BY <2>3, LeftType DEF Inv
<1>3. CASE pc[s] \notin {"finish", "restore"}
  <2>1. Left(s)' = Left(s)
    BY <1>1, <1>3 DEF Left, RefCalls
  <2> QED BY <2>1, LeftType DEF Inv
<1> QED BY <1>2, <1>3

\* If servers keep apart, a start comes to an end: from the moment a server is started it takes at most 22 steps, failing
\* ones included, until it serves or is down again, whatever it finds in the journal and whatever
\* the others do; the loop of reconcileCleanupRefs ends (createServer, recoverStaleRuns, prune).
THEOREM StartsEnd ==
  Spec => /\ [](apart => \A s \in Servers : Left(s) \in 0..21)
          /\ [][apart => \A s \in Servers : EndsSoon(s)]_vars
<1>1. ASSUME Inv, Next, NEW s \in Servers PROVE EndsSoon(s)
  <2>1. CASE UserDeletesRepository
    <3>1. Left(s)' <= Left(s) /\ ~Step(s)
      <4>1. pc' = pc /\ ~anchor' /\ ~backup'
        BY <2>1 DEF UserDeletesRepository
      <4>2. Far[pc[s]] \in Nat
        BY <1>1, FarIs DEF Inv, TypeOK, Places
      <4>3. Left(s)' <= Left(s)
        BY <4>1, <4>2 DEF Left, RefCalls
      <4>4. repo' # repo
        BY <2>1 DEF UserDeletesRepository
      <4> QED BY <1>1, <4>3, <4>4, RefsMoved DEF Inv
    <3> QED BY <3>1 DEF EndsSoon
  <2>2. CASE Step(s)
    BY <1>1, <2>2, OwnStepTakes DEF EndsSoon, Inv
  <2>3. CASE ~Step(s) /\ (Decide(s) \/ Exit(s))
    <3>1. pc \in [Servers -> Places] /\ Far[pc[s]] \in Nat
      BY <1>1, FarIs DEF Inv, TypeOK, Places
    <3>2. Left(s)' <= Left(s)
      BY <2>3, <3>1, FarIs DEF Decide, Exit, Left, RefCalls
    <3> QED BY <2>3, <3>2 DEF EndsSoon
  <2>4. ASSUME ~Step(s), NEW o \in Servers, o # s, Step(o) \/ Decide(o) \/ Exit(o)
        PROVE  EndsSoon(s)
    BY <1>1, <2>4, OthersTakeNothing DEF EndsSoon
  <2> QED BY <1>1, <2>1, <2>2, <2>3, <2>4 DEF Next
<1>2. Inv /\ Next => \A s \in Servers : EndsSoon(s)
  BY <1>1
<1>3. Inv => \A s \in Servers : Left(s) \in 0..21
  BY LeftType DEF Inv
<1> QED BY <1>2, <1>3, Always, PTL DEF Spec

-----------------------------------------------------------------------------
(* Named, in every behaviour: where servers fail and undo beside each other Inv does not hold.
   What is left is what the lease, the names of the quarantines and the order of a prune's own
   steps give. *)

Prepares == {"acquire", "check", "intent", "backup", "unanchor", "move", "goneIntent", "goneMove"}

LeaseHeld ==
  /\ \A s \in Servers : pc[s] \in Leased => lease = s
  /\ \A s \in Servers : pc[s] \in Gone => ~repo

\* The names of two prunes differ, and the archive is in no quarantine that is still to be used.
NamesApart ==
  /\ \A s, o \in Servers : s # o /\ txn[s] # NoTxn => txn[s] # txn[o]
  /\ \A s \in Servers : pc[s] \in Prepares => archive # txn[s]
  /\ \A s \in Servers : At(s, "commit") => archive = "gone"

\* The anchor that a prune has found stays until it removes it, which it does with a backup.
AnchorKept ==
  \A s \in Servers :
    /\ repo /\ (pc[s] \in {"backup", "unanchor"} \/ (At(s, "intent") /\ prepared[s] = "deleted"))
         => anchor
    /\ At(s, "unanchor") /\ repo => backup

\* Who deletes a backup has put the anchor back, or found the archive neither in place nor on
\* its way there.
BackupSpared ==
  \A s \in Servers :
    /\ At(s, "undoBackup") /\ cand /\ repo /\ ~decided /\ Retained => anchor
    /\ pc[s] \in {"finish", "replayRemove", "replayCommit"} /\ repo => ~Retained

OverlapInv ==
  /\ TypeInv /\ LeaseHeld /\ NamesApart /\ AnchorKept /\ BackupSpared
  /\ CandidateStaysNamed

\* A step of one server leaves what is the others'.
LEMMA OthersStay ==
  ASSUME TypeOK, NEW s \in Servers, Step(s) \/ Decide(s) \/ Exit(s), NEW o \in Servers, o # s
  PROVE  pc'[o] = pc[o] /\ txn'[o] = txn[o] /\ prepared'[o] = prepared[o]
<1> USE DEF Step, Prune, Pass, List, Acquire, Check, WriteIntent, BackUp, Unanchor, Move, Remove,
     Commit, Complete, UndoMove, UndoRefs, UndoBackup, NoteRollback, GoneIntent, GoneMove, GoneRemove,
     Start, ReclaimJournal, ReadJournal, Replay, Restore, FinishRefs, ReplayRemove, ReplayCommit,
     ReplayNote, EndPass, Decide, Exit, Finish, Throw, StartFails
<1>1. pc'[o] = pc[o]
  BY DEF Append, TypeOK
<1>2. txn'[o] = txn[o] /\ prepared'[o] = prepared[o]
  BY DEF Blank, TypeOK
<1> QED BY <1>1, <1>2

LEMMA LeaseHeldStep ==
  ASSUME TypeOK, LeaseHeld, NEW s \in Servers, Step(s) \/ Decide(s) \/ Exit(s)
  PROVE  LeaseHeld'
<1>1. lease' = lease \/ lease \in {s, "free", "dead"}
  BY DEF Step, Prune, Pass, List, Acquire, Check, WriteIntent, BackUp, Unanchor, Move, Remove,
     Commit, Complete, UndoMove, UndoRefs, UndoBackup, NoteRollback, GoneIntent, GoneMove, GoneRemove,
     Start, ReclaimJournal, ReadJournal, Replay, Restore, FinishRefs, ReplayRemove, ReplayCommit,
     ReplayNote, EndPass, Decide, Exit, Finish, Throw, StartFails, Released
<1>2. /\ pc'[s] \in Leased => lease' = s
      /\ pc'[s] \in Gone => ~repo'
  <2> USE DEF Step, Prune, Pass, List, Acquire, Check, WriteIntent, BackUp, Unanchor, Move, Remove,
     Commit, Complete, UndoMove, UndoRefs, UndoBackup, NoteRollback, GoneIntent, GoneMove, GoneRemove,
     Start, ReclaimJournal, ReadJournal, Replay, Restore, FinishRefs, ReplayRemove, ReplayCommit,
     ReplayNote, EndPass, Decide, Exit, Finish, Throw, StartFails
  <2> QED BY ServerAssumption DEF TypeOK, LeaseHeld, Released, Append
<1>3. repo' = repo
  BY RefsMoved
<1> QED BY <1>1, <1>2, <1>3, OthersStay, ServerAssumption DEF LeaseHeld

\* Where the archive may go, and who may move it.
LEMMA ArchiveMoved ==
  ASSUME TypeInv, NamesApart, NEW s \in Servers, Step(s) \/ Decide(s) \/ Exit(s)
  PROVE  \/ archive' = archive
         \/ archive' = "gone"
         \/ At(s, "undoMove") /\ archive = txn[s] /\ archive' = "home"
         \/ pc[s] \in {"move", "goneMove"} /\ archive = "home" /\ archive' = txn[s] /\ txn[s] \in Txns
BY DEF Step, Prune, Pass, List, Acquire, Check, WriteIntent, BackUp, Unanchor, Move, Remove,
     Commit, Complete, UndoMove, UndoRefs, UndoBackup, NoteRollback, GoneIntent, GoneMove, GoneRemove,
     Start, ReclaimJournal, ReadJournal, Replay, Restore, FinishRefs, ReplayRemove, ReplayCommit,
     ReplayNote, EndPass, Decide, Exit, Finish, Throw, StartFails, TypeInv, TypeOK, NamesQuarantine

LEMMA NamesApartStep ==
  ASSUME TypeInv, NamesApart, NEW s \in Servers, Step(s) \/ Decide(s) \/ Exit(s)
  PROVE  NamesApart'
<1> USE DEF TypeInv, TypeOK, Prepares
<1>1. \/ txn'[s] = txn[s] \/ txn'[s] = NoTxn
      \/ archive' = archive /\ txn'[s] \in Txns /\ txn'[s] # archive /\ \A o \in Servers : txn[o] # txn'[s]
  BY DEF Step, Prune, Pass, List, Acquire, Check, WriteIntent, BackUp, Unanchor, Move, Remove,
     Commit, Complete, UndoMove, UndoRefs, UndoBackup, NoteRollback, GoneIntent, GoneMove, GoneRemove,
     Start, ReclaimJournal, ReadJournal, Replay, Restore, FinishRefs, ReplayRemove, ReplayCommit,
     ReplayNote, EndPass, Decide, Exit, Finish, Throw, StartFails, Blank, Fresh
<1>2. pc'[s] \in Prepares =>
        \/ pc[s] \in Prepares /\ archive' = archive /\ txn'[s] = txn[s]
        \/ At(s, "list") /\ archive' = archive /\ txn'[s] # archive
  BY DEF Step, Prune, Pass, List, Acquire, Check, WriteIntent, BackUp, Unanchor, Move, Remove,
     Commit, Complete, UndoMove, UndoRefs, UndoBackup, NoteRollback, GoneIntent, GoneMove, GoneRemove,
     Start, ReclaimJournal, ReadJournal, Replay, Restore, FinishRefs, ReplayRemove, ReplayCommit,
     ReplayNote, EndPass, Decide, Exit, Finish, Throw, StartFails, Blank, Fresh, Append
<1>3. pc'[s] = "commit" => archive' = "gone"
  BY DEF Step, Prune, Pass, List, Acquire, Check, WriteIntent, BackUp, Unanchor, Move, Remove,
     Commit, Complete, UndoMove, UndoRefs, UndoBackup, NoteRollback, GoneIntent, GoneMove, GoneRemove,
     Start, ReclaimJournal, ReadJournal, Replay, Restore, FinishRefs, ReplayRemove, ReplayCommit,
     ReplayNote, EndPass, Decide, Exit, Finish, Throw, StartFails, Append
<1>4. \A t, o \in Servers : t # o /\ txn'[t] # NoTxn => txn'[t] # txn'[o]
  BY <1>1, OthersStay DEF NamesApart
<1>5. ASSUME NEW o \in Servers, o # s, pc[o] \in Prepares PROVE archive' # txn[o]
  BY <1>5, ArchiveMoved, TxnAssumption DEF NamesApart, NamesQuarantine
<1>6. ASSUME NEW o \in Servers, o # s, At(o, "commit") PROVE archive' = "gone"
  BY <1>6, ArchiveMoved, TxnAssumption DEF NoTxn, NamesApart
<1>7. \A o \in Servers : pc'[o] \in Prepares => archive' # txn'[o]
  BY <1>2, <1>5, OthersStay DEF NamesApart
<1>8. \A o \in Servers : pc'[o] = "commit" => archive' = "gone"
  BY <1>3, <1>6, OthersStay
<1> QED BY <1>4, <1>7, <1>8 DEF NamesApart

\* What is given up comes back no more.
LEMMA RetainedNoMore ==
  ASSUME OverlapInv, NEW s \in Servers, Step(s) \/ Decide(s) \/ Exit(s), repo, Retained'
  PROVE  Retained
<1> USE DEF OverlapInv
<1>1. CASE archive' = "home"
  BY <1>1, ArchiveMoved, TxnAssumption DEF Retained, TypeInv, TypeOK
<1>2. ASSUME archive' # "home", NEW o \in Servers, pc'[o] = "undoMove", archive' = txn'[o]
      PROVE  Retained
  <2>1. CASE o # s
    <3>1. At(o, "undoMove") /\ archive' = txn[o]
      BY <1>2, <2>1, OthersStay DEF TypeInv
    <3> QED BY <1>2, <2>1, <3>1, ArchiveMoved, TxnAssumption
           DEF NoTxn, Retained, NamesApart, TypeInv, TypeOK
  <2>2. CASE o = s
    <3>1. /\ txn'[s] = txn[s]
          /\ \/ pc[s] \in Prepares /\ archive' \in {archive, txn[s]} /\ (archive' # archive => archive = "home")
             \/ pc[s] \in Gone
      BY <1>2, <2>2 DEF Step, Prune, Pass, List, Acquire, Check, WriteIntent, BackUp, Unanchor, Move, Remove,
     Commit, Complete, UndoMove, UndoRefs, UndoBackup, NoteRollback, GoneIntent, GoneMove, GoneRemove,
     Start, ReclaimJournal, ReadJournal, Replay, Restore, FinishRefs, ReplayRemove, ReplayCommit,
     ReplayNote, EndPass, Decide, Exit, Finish, Throw, StartFails, Append, TypeInv, TypeOK, Prepares, Blank
    <3> QED BY <1>2, <2>2, <3>1 DEF Retained, NamesApart, LeaseHeld
  <2> QED BY <2>1, <2>2
<1> QED BY <1>1, <1>2 DEF Retained

\* Who may delete the anchor or the backup, and what it knows of the other.
LEMMA RefsDeleted ==
  ASSUME OverlapInv, repo, NEW s \in Servers, Step(s) \/ Decide(s) \/ Exit(s)
  PROVE  /\ anchor /\ ~anchor' =>
              \/ At(s, "unanchor") /\ backup'
              \/ At(s, "finish") /\ backup'
              \/ lease = "free" /\ decided'
         /\ backup /\ ~backup' =>
              \/ pc[s] \in {"restore", "unanchor"} /\ anchor'
              \/ At(s, "undoBackup") /\ anchor' = anchor
              \/ pc[s] \in {"commit", "replayCommit"}
<1> USE DEF Step, Prune, Pass, List, Acquire, Check, WriteIntent, BackUp, Unanchor, Move, Remove,
     Commit, Complete, UndoMove, UndoRefs, UndoBackup, NoteRollback, GoneIntent, GoneMove, GoneRemove,
     Start, ReclaimJournal, ReadJournal, Replay, Restore, FinishRefs, ReplayRemove, ReplayCommit,
     ReplayNote, EndPass, Decide, Exit, Finish, Throw, StartFails, OverlapInv, TypeInv, TypeOK, AnchorKept
<1>1. anchor /\ ~anchor' => \/ At(s, "unanchor") /\ backup'
                            \/ At(s, "finish") /\ backup'
                            \/ lease = "free" /\ decided'
  OBVIOUS
<1>2. backup /\ ~backup' => \/ pc[s] \in {"restore", "unanchor"} /\ anchor'
                            \/ At(s, "undoBackup") /\ anchor' = anchor
                            \/ pc[s] \in {"commit", "replayCommit"}
  OBVIOUS
<1> QED BY <1>1, <1>2

LEMMA AnchorKeptStep ==
  ASSUME OverlapInv, ~UndoMeets, NEW s \in Servers, Step(s) \/ Decide(s) \/ Exit(s)
  PROVE  AnchorKept'
<1> USE DEF OverlapInv
<1>1. repo' = repo
  BY RefsMoved DEF TypeInv
<1>2. ASSUME NEW o \in Servers, o # s, repo,
             pc[o] \in {"backup", "unanchor"} \/ (At(o, "intent") /\ prepared[o] = "deleted")
      PROVE  anchor' /\ (At(o, "unanchor") => backup')
  <2>1. lease = o /\ anchor /\ (At(o, "unanchor") => backup)
    BY <1>2 DEF LeaseHeld, AnchorKept
  <2>2. pc[s] \notin Leased /\ lease # "free"
    BY <1>2, <2>1, ServerAssumption DEF LeaseHeld
  <2>3. At(o, "unanchor") => ~At(s, "undoBackup")
    BY DEF UndoMeets
  <2> QED BY <1>2, <2>1, <2>2, <2>3, RefsDeleted DEF TypeInv, TypeOK
<1>3. repo /\ (pc'[s] \in {"backup", "unanchor"} \/ (pc'[s] = "intent" /\ prepared'[s] = "deleted"))
        => anchor'
  BY DEF Step, Prune, Pass, List, Acquire, Check, WriteIntent, BackUp, Unanchor, Move, Remove,
     Commit, Complete, UndoMove, UndoRefs, UndoBackup, NoteRollback, GoneIntent, GoneMove, GoneRemove,
     Start, ReclaimJournal, ReadJournal, Replay, Restore, FinishRefs, ReplayRemove, ReplayCommit,
     ReplayNote, EndPass, Decide, Exit, Finish, Throw, StartFails, Append, Blank, TypeInv, TypeOK, AnchorKept
<1>4. repo /\ pc'[s] = "unanchor" => backup'
  BY DEF Step, Prune, Pass, List, Acquire, Check, WriteIntent, BackUp, Unanchor, Move, Remove,
     Commit, Complete, UndoMove, UndoRefs, UndoBackup, NoteRollback, GoneIntent, GoneMove, GoneRemove,
     Start, ReclaimJournal, ReadJournal, Replay, Restore, FinishRefs, ReplayRemove, ReplayCommit,
     ReplayNote, EndPass, Decide, Exit, Finish, Throw, StartFails, Append, TypeInv, TypeOK
<1> QED BY <1>1, <1>2, <1>3, <1>4, OthersStay DEF AnchorKept, TypeInv

LEMMA BackupSparedStep ==
  ASSUME OverlapInv, ~UndoMeets, ~UndoMeets', NEW s \in Servers, Step(s) \/ Decide(s) \/ Exit(s)
  PROVE  BackupSpared'
<1> USE DEF OverlapInv
<1>1. repo' = repo /\ cand' = cand /\ (decided => decided')
  <2>1. repo' = repo
    BY RefsMoved DEF TypeInv
  <2>2. cand' = cand /\ (decided => decided')
    BY DEF Step, Prune, Pass, List, Acquire, Check, WriteIntent, BackUp, Unanchor, Move, Remove,
     Commit, Complete, UndoMove, UndoRefs, UndoBackup, NoteRollback, GoneIntent, GoneMove, GoneRemove,
     Start, ReclaimJournal, ReadJournal, Replay, Restore, FinishRefs, ReplayRemove, ReplayCommit,
     ReplayNote, EndPass, Decide, Exit, Finish, Throw, StartFails
  <2> QED BY <2>1, <2>2
<1>2. ASSUME NEW o \in Servers, o # s, At(o, "undoBackup"), cand, repo, ~decided', Retained'
      PROVE  anchor'
  <2>1. Retained /\ anchor
    BY <1>1, <1>2, RetainedNoMore DEF BackupSpared
  <2>2. ~At(s, "unanchor") /\ ~At(s, "finish")
    BY <1>2, <2>1 DEF UndoMeets, BackupSpared
  <2> QED BY <1>2, <2>1, <2>2, RefsDeleted DEF TypeInv, TypeOK
<1>3. pc'[s] = "undoBackup" => anchor'
  BY DEF Step, Prune, Pass, List, Acquire, Check, WriteIntent, BackUp, Unanchor, Move, Remove,
     Commit, Complete, UndoMove, UndoRefs, UndoBackup, NoteRollback, GoneIntent, GoneMove, GoneRemove,
     Start, ReclaimJournal, ReadJournal, Replay, Restore, FinishRefs, ReplayRemove, ReplayCommit,
     ReplayNote, EndPass, Decide, Exit, Finish, Throw, StartFails, Append, TypeInv, TypeOK
<1>4. pc'[s] \in {"finish", "replayRemove", "replayCommit"} /\ repo =>
        \/ pc[s] \in {"finish", "replayRemove", "replayCommit"}
        \/ pc'[s] = "finish" /\ archive' # "home"
  BY DEF Step, Prune, Pass, List, Acquire, Check, WriteIntent, BackUp, Unanchor, Move, Remove,
     Commit, Complete, UndoMove, UndoRefs, UndoBackup, NoteRollback, GoneIntent, GoneMove, GoneRemove,
     Start, ReclaimJournal, ReadJournal, Replay, Restore, FinishRefs, ReplayRemove, ReplayCommit,
     ReplayNote, EndPass, Decide, Exit, Finish, Throw, StartFails, Append, TypeInv, TypeOK
<1>5. pc'[s] = "finish" /\ archive' # "home" => ~Retained'
  BY DEF UndoMeets, Retained
<1>6. \A o \in Servers : pc'[o] \in {"finish", "replayRemove", "replayCommit"} /\ repo => ~Retained'
  BY <1>4, <1>5, RetainedNoMore, OthersStay DEF BackupSpared, TypeInv
<1> QED BY <1>1, <1>2, <1>3, <1>6, OthersStay DEF BackupSpared, TypeInv

LEMMA StaysNamedStep ==
  ASSUME OverlapInv, NEW s \in Servers, Step(s) \/ Decide(s) \/ Exit(s)
  PROVE  CandidateStaysNamed'
<1> USE DEF OverlapInv
<1>1. repo' = repo /\ cand' = cand /\ (decided => decided')
  <2>1. repo' = repo
    BY RefsMoved DEF TypeInv
  <2>2. cand' = cand /\ (decided => decided')
    BY DEF Step, Prune, Pass, List, Acquire, Check, WriteIntent, BackUp, Unanchor, Move, Remove,
     Commit, Complete, UndoMove, UndoRefs, UndoBackup, NoteRollback, GoneIntent, GoneMove, GoneRemove,
     Start, ReclaimJournal, ReadJournal, Replay, Restore, FinishRefs, ReplayRemove, ReplayCommit,
     ReplayNote, EndPass, Decide, Exit, Finish, Throw, StartFails
  <2> QED BY <2>1, <2>2
<1> SUFFICES ASSUME cand, repo, ~decided', Retained' PROVE anchor' \/ backup'
  BY <1>1 DEF CandidateStaysNamed
<1>2. Retained /\ (anchor \/ backup)
  BY <1>1, RetainedNoMore DEF CandidateStaysNamed
<1>3. ~At(s, "replayCommit") /\ ~At(s, "commit")
  BY <1>2, TxnAssumption DEF NoTxn, BackupSpared, NamesApart, Retained, TypeInv, TypeOK
<1>4. At(s, "undoBackup") => anchor
  BY <1>1, <1>2 DEF BackupSpared
<1> QED BY <1>2, <1>3, <1>4, RefsDeleted DEF TypeInv, TypeOK

LEMMA OverlapNext == OverlapInv /\ ~UndoMeets /\ ~UndoMeets' /\ [Next]_vars => OverlapInv'
<1> SUFFICES ASSUME OverlapInv, ~UndoMeets, ~UndoMeets', [Next]_vars PROVE OverlapInv'
  OBVIOUS
<1> USE DEF OverlapInv, LeaseHeld, NamesApart, AnchorKept, BackupSpared, CandidateStaysNamed, Retained
<1>1. TypeInv'
  BY TypeNext
<1>2. CASE UserDeletesRepository
  BY <1>1, <1>2 DEF UserDeletesRepository
<1>3. CASE UNCHANGED vars
  BY <1>1, <1>3 DEF vars
<1>4. ASSUME NEW s \in Servers, Step(s) \/ Decide(s) \/ Exit(s) PROVE OverlapInv'
  <2> HIDE DEF OverlapInv, LeaseHeld, NamesApart, AnchorKept, BackupSpared, CandidateStaysNamed, Retained
  <2>1. TypeOK /\ TypeInv /\ LeaseHeld /\ NamesApart
    BY DEF OverlapInv, TypeInv
  <2>2. LeaseHeld' /\ NamesApart'
    BY <1>4, <2>1, LeaseHeldStep, NamesApartStep
  <2>3. AnchorKept' /\ BackupSpared' /\ CandidateStaysNamed'
    BY <1>4, AnchorKeptStep, BackupSparedStep, StaysNamedStep
  <2> QED BY <1>1, <2>2, <2>3 DEF OverlapInv
<1> QED BY <1>2, <1>3, <1>4 DEF Next

\* Whatever fails, exits, is undone, replayed, decided or deleted while other servers do the same,
\* a retained candidate that nobody has decided on keeps a name in its repository, as long as the
\* undo of a prune meets neither a replay that has found its archive moved nor a prune that is
\* about to remove the anchor: no other overlap can lose it (artifact-store.ts,
\* recovery-prune-journal.ts).
THEOREM StaysNamed == Spec => NamedUnlessUndoMeets
<1>1. Init => OverlapInv
  BY TypeInitially DEF Init, OverlapInv, LeaseHeld, NamesApart, AnchorKept, BackupSpared,
     CandidateStaysNamed, Prepares
<1>2. OverlapInv => CandidateStaysNamed
  BY DEF OverlapInv
<1> QED BY <1>1, <1>2, OverlapNext, PTL DEF Spec, NamedUnlessUndoMeets

=============================================================================
