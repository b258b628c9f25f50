---------------------- MODULE WorktreeTransactionProofs ----------------------
(***************************************************************************)
(* Proofs about WorktreeTransaction, for any servers, transactions and     *)
(* faults.                                                                 *)
(*                                                                         *)
(* Everything rests on Inv.  Held says that the work is done by the holder *)
(* of the lease; TreeInv what each pending manifest says of the directory  *)
(* and the registration, whoever left it; Here what the server at work     *)
(* knows at its place beyond that.                                         *)
(***************************************************************************)
EXTENDS WorktreeTransaction, TLAPS

Uncommitted == {"registration-intent", "registration-staged", "physical-removal-intent"}
Started == {"physical-removal-started", "physical-removed"}

Held ==
  /\ \A s \in Servers : pc[s] \in Working <=> lease = s
  /\ \A s \in Servers : pc[s] \notin Working =>
       txn[s] = NoTxn /\ outer[s] = NoTxn /\ after[s] = "return"

\* What a pending manifest says of the directory and the registration.
AboutCreation(t) ==
  Creation(note[t]) /\ ~note[t].present =>
    reg = "gone" /\ phys \in {"gone", t} /\ \A u \in Pending : u = t

AboutQuarantine(t) ==
  phys = t => /\ note[t].phase \in {"creation-intent", "physical-removal-intent",
                                    "physical-removal-started"}
              /\ ~Creation(note[t]) => reg = t

AboutMissing(t) ==
  ~Creation(note[t]) /\ ~note[t].present =>
    phys = "gone" /\ erased /\ \A u \in Pending : ~Creation(note[u]) /\ ~note[u].present

AboutStarted(t) ==
  /\ note[t].phase \in Started => reg \in {t, "gone"} /\ phys \in {t, "gone"}
  /\ note[t].phase = "physical-removed" => phys = "gone"

AboutPresent(t) == note[t].present /\ reg = "home" => phys = "home"

About(t) ==
  /\ note[t].phase # "none"
  /\ AboutCreation(t) /\ AboutQuarantine(t) /\ AboutMissing(t) /\ AboutStarted(t) /\ AboutPresent(t)

\* A directory or a registration at a private path has a pending manifest; one that is at home
\* alone was erased or is being created; and the worktree of a live run is left alone.
TreeInv ==
  /\ \A t \in Txns : phys = t \/ reg = t => t \in Pending
  /\ \A t \in Pending : About(t)
  /\ reg = "home" /\ phys = "gone" => erased
  /\ phys = "home" /\ reg = "gone" => \E t \in Pending : Creation(note[t])
  /\ owner # "nobody" => Pending = {} /\ lease \notin Servers /\ reg = "home"

Making == {"placeholder", "bind", "moveIn", "add", "check", "unmake"}
Removing == {"stage", "markStaged", "markIntent", "quarantine", "markStarted", "delete",
             "markRemoved", "commit", "rollback"}
Replaying == {"restore", "complete", "undo"}
Dropping == {"drop", "dropName", "dropGuard"}

\* A removal that undoes a creation, whose manifest is the only other one.
Within(s) ==
  outer[s] # NoTxn =>
    /\ outer[s] \in Txns /\ file[outer[s]] = "plain"
    /\ Creation(note[outer[s]]) /\ note[outer[s]].present
    /\ \A u \in Pending : u \in {txn[s], outer[s]}

HereMaking(s) ==
  pc[s] \in Making =>
    /\ txn[s] \in Txns /\ outer[s] = txn[s] /\ \A u \in Pending : u = txn[s]
    /\ Creation(note[txn[s]])
    /\ note[txn[s]].present <=> pc[s] \notin {"placeholder", "bind"}
    /\ file[txn[s]] = "plain" \/ (pc[s] = "placeholder" /\ file[txn[s]] = "linked")
    /\ pc[s] = "placeholder" => phys = "gone"
    /\ pc[s] \in {"bind", "moveIn"} => phys = txn[s]
    /\ pc[s] \in {"add", "check", "unmake"} => phys = "home"
    /\ IF pc[s] = "check" THEN reg = "home" ELSE reg = "gone"
    /\ IF pc[s] = "unmake" THEN after[s] = "forget" ELSE after[s] = "own"

HereGate(s) ==
  /\ pc[s] \in {"gateCreate", "gateRemove", "create"} =>
       txn[s] = NoTxn /\ outer[s] = NoTxn /\ after[s] = "return"
  /\ pc[s] = "create" => Pending = {}

HereRemove(s) ==
  pc[s] = "remove" =>
    /\ txn[s] = outer[s] /\ Within(s)
    /\ outer[s] = NoTxn => after[s] = "sweep" \/ (after[s] = "return" /\ Pending = {})
    /\ outer[s] # NoTxn => after[s] \in {"return", "forget"} /\ phys = "home" /\ reg = "home"

HereRemoving(s) ==
  pc[s] \in Removing =>
    /\ txn[s] \in Txns /\ outer[s] # txn[s] /\ Within(s)
    /\ after[s] \in {"return", "forget", "sweep"} /\ (after[s] = "forget" => outer[s] # NoTxn)
    /\ file[txn[s]] = "plain" \/ (pc[s] = "stage" /\ file[txn[s]] = "linked")
    /\ pc[s] \in {"stage", "markStaged"} => note[txn[s]].phase = "registration-intent"
    /\ pc[s] = "markIntent" => note[txn[s]].phase = "registration-staged"
    /\ pc[s] \in {"quarantine", "markStarted"} => note[txn[s]].phase = "physical-removal-intent"
    /\ pc[s] \in {"delete", "markRemoved"} => note[txn[s]].phase = "physical-removal-started"
    /\ pc[s] = "commit" => note[txn[s]].phase = "physical-removed"
    /\ pc[s] = "rollback" => note[txn[s]].phase \in Uncommitted /\ after[s] # "forget"
    /\ ~note[txn[s]].present \/ pc[s] \in {"markRemoved", "commit"} => phys = "gone"
    /\ note[txn[s]].present /\ pc[s] \in {"markStarted", "delete"} => phys = txn[s]
    /\ note[txn[s]].present /\ pc[s] \in {"stage", "markStaged", "markIntent", "quarantine", "rollback"}
         => phys = "home"
    /\ pc[s] = "stage" => reg = "home"
    /\ pc[s] = "rollback" => reg \in {"home", txn[s]}
    /\ pc[s] \notin {"stage", "rollback"} => reg = txn[s]

HereReplaying(s) ==
  pc[s] \in Replaying =>
    /\ txn[s] \in Txns /\ outer[s] = NoTxn /\ after[s] = "replay" /\ file[txn[s]] = "plain"
    /\ pc[s] = "restore" =>
         /\ note[txn[s]].phase \in Uncommitted /\ reg \in {"home", txn[s]}
         /\ note[txn[s]].present => phys \in {"home", txn[s]}
    /\ pc[s] = "complete" =>
         /\ reg # "home" /\ ~Creation(note[txn[s]])
         /\ phys \in {"home", txn[s]} => note[txn[s]].phase = "physical-removal-started"
    /\ pc[s] = "undo" => Creation(note[txn[s]])

HereDropping(s) ==
  pc[s] \in Dropping =>
    /\ txn[s] \in Txns /\ phys # txn[s] /\ reg # txn[s] /\ ~(phys = "home" /\ reg = "gone")
    /\ pc[s] = "drop" => file[txn[s]] = "plain"
    /\ pc[s] = "dropName" => file[txn[s]] \in {"guarded", "plain"}
    /\ pc[s] = "dropGuard" => file[txn[s]] \in {"guard", "absent"}
    /\ after[s] = "forget" =>
         outer[s] # NoTxn /\ outer[s] # txn[s] /\ phys = "gone" /\ reg = "gone" /\ Within(s)
    /\ after[s] = "own" => reg = "home" /\ \A u \in Pending : u = txn[s]

Here(s) ==
  /\ HereMaking(s) /\ HereGate(s) /\ HereRemove(s)
  /\ HereRemoving(s) /\ HereReplaying(s) /\ HereDropping(s)

Inv ==
  /\ TypeOK /\ Held /\ TreeInv
  /\ \A s \in Servers : Here(s)

-----------------------------------------------------------------------------

\* What a step of one server leaves to the others.
Others(s) ==
  \A o \in Servers \ {s} :
    pc'[o] = pc[o] /\ txn'[o] = txn[o] /\ outer'[o] = outer[o] /\ after'[o] = after[o]

USE DEF At, Go, tree, manifest, locks, use, server,
  Working, Making, Removing, Replaying, Dropping, Creation, Uncommitted, Started

\* Only one server is at work.
LEMMA Alone ==
  ASSUME Inv, NEW s \in Servers, pc[s] \in Working
  PROVE  lease = s /\ \A o \in Servers \ {s} : pc[o] \notin Working
BY DEF Inv, Held

\* What the server at work has done, or begun, leaves the others where they are.
LEMMA Works ==
  ASSUME Inv, NEW s \in Servers, \A o \in Servers \ {s} : lease # o, Others(s),
         lease' = s, pc'[s] \in Working, Here(s)'
  PROVE  Held' /\ \A o \in Servers : Here(o)'
<1>1. \A o \in Servers \ {s} : pc'[o] \notin Working BY DEF Others, Inv, Held
<1>2. Held' BY <1>1 DEF Inv, Held, Others
<1>3. \A o \in Servers \ {s} : Here(o)'
  BY <1>1 DEF Here, HereMaking, HereGate, HereRemove, HereRemoving, HereReplaying, HereDropping
<1> QED BY <1>2, <1>3

\* When it has released the lease, nobody is at work.
LEMMA Rests ==
  ASSUME Inv, NEW s \in Servers, \A o \in Servers \ {s} : lease # o, Others(s),
         lease' \notin Servers, pc'[s] \notin Working,
         txn'[s] = NoTxn, outer'[s] = NoTxn, after'[s] = "return"
  PROVE  Held' /\ \A o \in Servers : Here(o)'
<1>1. \A o \in Servers : pc'[o] \notin Working BY DEF Others, Inv, Held
<1>2. Held' BY <1>1 DEF Inv, Held, Others
<1>3. \A o \in Servers : Here(o)'
  BY <1>1 DEF Here, HereMaking, HereGate, HereRemove, HereRemoving, HereReplaying, HereDropping
<1> QED BY <1>2, <1>3

\* A step of a server that is not at work, which leaves the worktree and its manifests alone.
LEMMA Watches ==
  ASSUME Inv, NEW s \in Servers, pc[s] \notin Working, pc'[s] \notin Working, Others(s),
         txn' = txn, outer' = outer, after' = after, tree' = tree, manifest' = manifest,
         lease' = lease \/ (lease \notin Servers /\ lease' \notin Servers)
  PROVE  Held' /\ \A o \in Servers : Here(o)'
<1>1. \A o \in Servers : pc'[o] \in Working => pc'[o] = pc[o] BY DEF Others
<1>2. Held' BY <1>1 DEF Inv, Held, Others
<1>3. ASSUME NEW o \in Servers PROVE Here(o)'
  <2>1. Here(o) /\ (pc'[o] \in Working => pc'[o] = pc[o]) BY <1>1 DEF Inv
  <2>2. Pending' = Pending BY DEF Pending
  <2> QED
    BY <2>1, <2>2 DEF Here, HereMaking, HereGate, HereRemove, HereRemoving, HereReplaying,
       HereDropping, Within
<1> QED BY <1>2, <1>3

-----------------------------------------------------------------------------
(* A step that only looks, or that throws *)

\* What leaves the worktree and its manifests alone keeps TreeInv.
LEMMA SameTree ==
  ASSUME Inv, tree' = tree, manifest' = manifest, owner' = owner, erased' = erased,
         lease' \notin Servers \/ lease' = lease \/ owner = "nobody"
  PROVE  TreeInv'
<1>1. Pending' = Pending BY DEF Pending
<1> QED
  BY <1>1 DEF Inv, TreeInv, About, AboutCreation, AboutQuarantine, AboutMissing, AboutStarted,
     AboutPresent

LEMMA ThrowStep ==
  ASSUME Inv, NEW s \in Servers, pc[s] \in Working, Throw(s)
  PROVE  Inv'
<1> USE DEF Throw, Leave
<1>1. lease = s /\ TypeOK BY Alone DEF Inv
<1>2. TypeOK' BY <1>1 DEF TypeOK, Back, Idle
<1>3. lease' \notin Servers BY ServerAssumption
<1>4. TreeInv' BY <1>3, SameTree
<1>5. /\ Others(s) /\ pc'[s] \notin Working
      /\ txn'[s] = NoTxn /\ outer'[s] = NoTxn /\ after'[s] = "return"
  BY <1>1 DEF TypeOK, Others, Back
<1>6. Held' /\ \A o \in Servers : Here(o)' BY <1>1, <1>3, <1>5, Rests
<1> QED BY <1>2, <1>4, <1>6 DEF Inv

LEMMA FailsStep ==
  ASSUME Inv, NEW s \in Servers, Fails(s)
  PROVE  Inv'
BY ThrowStep DEF Fails, Inv, Held

-----------------------------------------------------------------------------
(* withCheckoutLease *)

LEMMA AdmitStep ==
  ASSUME Inv, NEW s \in Servers, NEW op \in {"create", "remove"}, Admit(s, op)
  PROVE  Inv'
<1> USE DEF Admit
<1>1. TypeOK /\ TreeInv /\ pc[s] = "ready" /\ lease = "free" BY DEF Inv
<1>2. TypeOK' BY <1>1 DEF TypeOK
<1>3. Pending' = Pending BY DEF Pending
<1>4. TreeInv'
  BY <1>1, <1>3 DEF TreeInv, About, AboutCreation, AboutQuarantine, AboutMissing, AboutStarted,
     AboutPresent
<1>5. txn[s] = NoTxn /\ outer[s] = NoTxn /\ after[s] = "return" BY <1>1 DEF Inv, Held
<1>6. Here(s)'
  BY <1>1, <1>5 DEF TypeOK, Here, HereMaking, HereGate, HereRemove, HereRemoving, HereReplaying,
     HereDropping
<1>7. Others(s) /\ pc'[s] \in Working /\ lease' = s BY <1>1 DEF TypeOK, Others
<1>8. \A o \in Servers \ {s} : lease # o BY <1>1, ServerAssumption
<1> QED BY <1>2, <1>4, <1>6, <1>7, <1>8, Works DEF Inv

LEMMA GateStep ==
  ASSUME Inv, NEW s \in Servers, Gate(s)
  PROVE  Inv'
<1>1. pc[s] \in {"gateCreate", "gateRemove"} /\ lease = s /\ HereGate(s) /\ TypeOK /\ pc[s] \in Working
  BY Alone DEF Gate, Inv, Here
<1>2. CASE Pending # {} BY <1>1, <1>2, ThrowStep DEF Gate
<1>3. CASE Pending = {}
  <2> USE DEF Gate
  <2>1. TypeOK' BY <1>1, <1>3 DEF TypeOK
  <2>2. Pending' = {} BY <1>3 DEF Pending
  <2>3. TreeInv' BY <1>3, SameTree
  <2>4. Here(s)'
    BY <1>1, <1>3, <2>2 DEF TypeOK, Here, HereMaking, HereGate, HereRemove, HereRemoving,
       HereReplaying, HereDropping, Within
  <2>5. Others(s) /\ pc'[s] \in Working /\ lease' = s
    BY <1>1, <1>3 DEF TypeOK, Others
  <2> QED BY <1>1, <2>1, <2>3, <2>4, <2>5, Works DEF Inv
<1> QED BY <1>2, <1>3

-----------------------------------------------------------------------------
(* createUnderLease, createAttachedUnderLease *)

LEMMA CreateIntentStep ==
  ASSUME Inv, NEW s \in Servers, CreateIntent(s)
  PROVE  Inv'
<1>1. pc[s] = "create" /\ lease = s /\ HereGate(s) /\ TreeInv /\ TypeOK
  BY Alone DEF CreateIntent, Inv, Here
<1> PICK t \in Txns : Publish(s, t, "creation-intent", FALSE) /\ outer' = [outer EXCEPT ![s] = t]
  BY DEF CreateIntent
<1> USE DEF CreateIntent, Publish, Free
<1>2. TypeOK' BY <1>1 DEF TypeOK, Idle, Note, Phases
<1>3. Pending = {} /\ Pending' = {t} BY <1>1 DEF HereGate, TypeOK, Pending
<1>4. TreeInv'
  BY <1>1, <1>3, TxnAssumption DEF TypeOK, TreeInv, About, AboutCreation, AboutQuarantine,
     AboutMissing, AboutStarted, AboutPresent
<1>5. Here(s)'
  BY <1>1, <1>3, TxnAssumption DEF TypeOK, Here, HereMaking, HereGate, HereRemove, HereRemoving,
     HereReplaying, HereDropping, Within
<1>6. Others(s) /\ pc'[s] \in Working /\ lease' = s
  BY <1>1 DEF TypeOK, Others
<1> QED BY <1>1, <1>2, <1>4, <1>5, <1>6, Works DEF Inv

LEMMA CreateElsewhereStep ==
  ASSUME Inv, NEW s \in Servers, CreateElsewhere(s)
  PROVE  Inv'
BY ThrowStep DEF CreateElsewhere

LEMMA SettleStep ==
  ASSUME Inv, NEW s \in Servers, Settle(s)
  PROVE  Inv'
<1> USE DEF Settle
<1>1. /\ pc[s] \in {"placeholder", "stage"} /\ lease = s /\ TypeOK /\ TreeInv
      /\ HereMaking(s) /\ HereRemoving(s)
  BY Alone DEF Inv, Here
<1>2. TypeOK' BY <1>1 DEF TypeOK
<1>3. txn[s] \in Txns /\ file' = [file EXCEPT ![txn[s]] = "plain"] /\ file[txn[s]] = "linked"
  BY <1>1 DEF TypeOK
<1>4. Pending' = Pending BY <1>1, <1>3 DEF TypeOK, Pending
<1>5. TreeInv'
  BY <1>1, <1>4 DEF TreeInv, About, AboutCreation, AboutQuarantine, AboutMissing, AboutStarted,
     AboutPresent
<1>6. \A u \in Txns : u # txn[s] => file'[u] = file[u] BY <1>1, <1>3 DEF TypeOK
<1>7. Here(s)'
  BY <1>1, <1>3, <1>4, <1>6, TxnAssumption DEF TypeOK, Here, HereMaking, HereGate, HereRemove,
     HereRemoving, HereReplaying, HereDropping, Within
<1>8. Others(s) /\ pc'[s] \in Working /\ lease' = s BY <1>1 DEF TypeOK, Others
<1> QED BY <1>1, <1>2, <1>5, <1>7, <1>8, Works DEF Inv

LEMMA MakePlaceholderStep ==
  ASSUME Inv, NEW s \in Servers, MakePlaceholder(s)
  PROVE  Inv'
<1> USE DEF MakePlaceholder, Settled
<1>1. pc[s] = "placeholder" /\ lease = s /\ HereMaking(s) /\ TreeInv /\ TypeOK
  BY Alone DEF Inv, Here
<1>2. TypeOK'
  <2>1. txn[s] \in Txns BY <1>1 DEF HereMaking
  <2> QED BY <1>1, <2>1 DEF TypeOK, Note, Phases
<1>3. TreeInv'
  BY <1>1, TxnAssumption, ServerAssumption DEF HereMaking, TypeOK, TreeInv, Within, About,
     AboutCreation, AboutQuarantine, AboutMissing, AboutStarted, AboutPresent, Pending
<1>4. Here(s)'
  BY <1>1, TxnAssumption DEF TypeOK, Here, HereMaking, HereGate, HereRemove, HereRemoving,
     HereReplaying, HereDropping, Within, Pending
<1>5. Others(s) /\ pc'[s] \in Working /\ lease' = s
  BY <1>1 DEF TypeOK, Others
<1> QED BY <1>1, <1>2, <1>3, <1>4, <1>5, Works DEF Inv

LEMMA BindPlaceholderStep ==
  ASSUME Inv, NEW s \in Servers, BindPlaceholder(s)
  PROVE  Inv'
<1> USE DEF BindPlaceholder
<1>1. pc[s] = "bind" /\ lease = s /\ HereMaking(s) /\ TreeInv /\ TypeOK
  BY Alone DEF Inv, Here
<1>2. TypeOK'
  <2>1. txn[s] \in Txns BY <1>1 DEF HereMaking
  <2> QED BY <1>1, <2>1 DEF TypeOK, Note, Phases
<1>3. TreeInv'
  BY <1>1, TxnAssumption, ServerAssumption DEF HereMaking, TypeOK, TreeInv, Within, About,
     AboutCreation, AboutQuarantine, AboutMissing, AboutStarted, AboutPresent, Pending
<1>4. Here(s)'
  BY <1>1, TxnAssumption DEF TypeOK, Here, HereMaking, HereGate, HereRemove, HereRemoving,
     HereReplaying, HereDropping, Within, Pending
<1>5. Others(s) /\ pc'[s] \in Working /\ lease' = s
  BY <1>1 DEF TypeOK, Others
<1> QED BY <1>1, <1>2, <1>3, <1>4, <1>5, Works DEF Inv

LEMMA MoveInStep ==
  ASSUME Inv, NEW s \in Servers, MoveIn(s)
  PROVE  Inv'
<1> USE DEF MoveIn
<1>1. pc[s] = "moveIn" /\ lease = s /\ HereMaking(s) /\ TreeInv /\ TypeOK
  BY Alone DEF Inv, Here
<1>2. TypeOK'
  <2>1. txn[s] \in Txns BY <1>1 DEF HereMaking
  <2> QED BY <1>1, <2>1 DEF TypeOK, Note, Phases
<1>3. TreeInv'
  BY <1>1, TxnAssumption, ServerAssumption DEF HereMaking, TypeOK, TreeInv, Within, About,
     AboutCreation, AboutQuarantine, AboutMissing, AboutStarted, AboutPresent, Pending
<1>4. Here(s)'
  BY <1>1, TxnAssumption DEF TypeOK, Here, HereMaking, HereGate, HereRemove, HereRemoving,
     HereReplaying, HereDropping, Within, Pending
<1>5. Others(s) /\ pc'[s] \in Working /\ lease' = s
  BY <1>1 DEF TypeOK, Others
<1> QED BY <1>1, <1>2, <1>3, <1>4, <1>5, Works DEF Inv

LEMMA AddWorktreeStep ==
  ASSUME Inv, NEW s \in Servers, AddWorktree(s)
  PROVE  Inv'
<1> USE DEF AddWorktree
<1>1. pc[s] = "add" /\ lease = s /\ HereMaking(s) /\ TreeInv /\ TypeOK
  BY Alone DEF Inv, Here
<1>2. TypeOK'
  <2>1. txn[s] \in Txns BY <1>1 DEF HereMaking
  <2> QED BY <1>1, <2>1 DEF TypeOK, Note, Phases
<1>3. TreeInv'
  BY <1>1, TxnAssumption, ServerAssumption DEF HereMaking, TypeOK, TreeInv, Within, About,
     AboutCreation, AboutQuarantine, AboutMissing, AboutStarted, AboutPresent, Pending
<1>4. Here(s)'
  BY <1>1, TxnAssumption DEF TypeOK, Here, HereMaking, HereGate, HereRemove, HereRemoving,
     HereReplaying, HereDropping, Within, Pending
<1>5. Others(s) /\ pc'[s] \in Working /\ lease' = s
  BY <1>1 DEF TypeOK, Others
<1> QED BY <1>1, <1>2, <1>3, <1>4, <1>5, Works DEF Inv

LEMMA AddFailsStep ==
  ASSUME Inv, NEW s \in Servers, AddFails(s)
  PROVE  Inv'
<1> USE DEF AddFails
<1>1. pc[s] = "add" /\ lease = s /\ HereMaking(s) /\ TreeInv /\ TypeOK
  BY Alone DEF Inv, Here
<1>2. TypeOK'
  <2>1. txn[s] \in Txns BY <1>1 DEF HereMaking
  <2> QED BY <1>1, <2>1 DEF TypeOK, Note, Phases
<1>3. TreeInv'
  BY <1>1, TxnAssumption, ServerAssumption DEF HereMaking, TypeOK, TreeInv, Within, About,
     AboutCreation, AboutQuarantine, AboutMissing, AboutStarted, AboutPresent, Pending
<1>4. Here(s)'
  BY <1>1, TxnAssumption DEF TypeOK, Here, HereMaking, HereGate, HereRemove, HereRemoving,
     HereReplaying, HereDropping, Within, Pending
<1>5. Others(s) /\ pc'[s] \in Working /\ lease' = s
  BY <1>1 DEF TypeOK, Others
<1> QED BY <1>1, <1>2, <1>3, <1>4, <1>5, Works DEF Inv

LEMMA UnmakeStep ==
  ASSUME Inv, NEW s \in Servers, Unmake(s)
  PROVE  Inv'
<1> USE DEF Unmake
<1>1. pc[s] = "unmake" /\ lease = s /\ HereMaking(s) /\ TreeInv /\ TypeOK
  BY Alone DEF Inv, Here
<1>2. TypeOK'
  <2>1. txn[s] \in Txns BY <1>1 DEF HereMaking
  <2> QED BY <1>1, <2>1 DEF TypeOK, Note, Phases
<1>3. TreeInv'
  BY <1>1, TxnAssumption, ServerAssumption DEF HereMaking, TypeOK, TreeInv, Within, About,
     AboutCreation, AboutQuarantine, AboutMissing, AboutStarted, AboutPresent, Pending
<1>4. Here(s)'
  BY <1>1, TxnAssumption DEF TypeOK, Here, HereMaking, HereGate, HereRemove, HereRemoving,
     HereReplaying, HereDropping, Within, Pending
<1>5. Others(s) /\ pc'[s] \in Working /\ lease' = s
  BY <1>1 DEF TypeOK, Others
<1> QED BY <1>1, <1>2, <1>3, <1>4, <1>5, Works DEF Inv

LEMMA CheckedStep ==
  ASSUME Inv, NEW s \in Servers, Checked(s)
  PROVE  Inv'
<1> USE DEF Checked
<1>1. pc[s] = "check" /\ lease = s /\ HereMaking(s) /\ TreeInv /\ TypeOK
  BY Alone DEF Inv, Here
<1>2. TypeOK'
  <2>1. txn[s] \in Txns BY <1>1 DEF HereMaking
  <2> QED BY <1>1, <2>1 DEF TypeOK, Note, Phases
<1>3. TreeInv'
  BY <1>1, TxnAssumption, ServerAssumption DEF HereMaking, TypeOK, TreeInv, Within, About,
     AboutCreation, AboutQuarantine, AboutMissing, AboutStarted, AboutPresent, Pending
<1>4. Here(s)'
  BY <1>1, TxnAssumption DEF TypeOK, Here, HereMaking, HereGate, HereRemove, HereRemoving,
     HereReplaying, HereDropping, Within, Pending
<1>5. Others(s) /\ pc'[s] \in Working /\ lease' = s
  BY <1>1 DEF TypeOK, Others
<1> QED BY <1>1, <1>2, <1>3, <1>4, <1>5, Works DEF Inv

LEMMA CheckFailsStep ==
  ASSUME Inv, NEW s \in Servers, CheckFails(s)
  PROVE  Inv'
<1> USE DEF CheckFails
<1>1. pc[s] = "check" /\ lease = s /\ HereMaking(s) /\ TreeInv /\ TypeOK
  BY Alone DEF Inv, Here
<1>2. TypeOK'
  <2>1. txn[s] \in Txns BY <1>1 DEF HereMaking
  <2> QED BY <1>1, <2>1 DEF TypeOK, Note, Phases
<1>3. TreeInv'
  BY <1>1, TxnAssumption, ServerAssumption DEF HereMaking, TypeOK, TreeInv, Within, About,
     AboutCreation, AboutQuarantine, AboutMissing, AboutStarted, AboutPresent, Pending
<1>4. Here(s)'
  BY <1>1, TxnAssumption DEF TypeOK, Here, HereMaking, HereGate, HereRemove, HereRemoving,
     HereReplaying, HereDropping, Within, Pending
<1>5. Others(s) /\ pc'[s] \in Working /\ lease' = s
  BY <1>1 DEF TypeOK, Others
<1> QED BY <1>1, <1>2, <1>3, <1>4, <1>5, Works DEF Inv

-----------------------------------------------------------------------------
(* removeRegisteredWorktree, coordinateWorktreeRemoval *)

LEMMA RemoveIntentStep ==
  ASSUME Inv, NEW s \in Servers, RemoveIntent(s)
  PROVE  Inv'
<1>1. /\ pc[s] = "remove" /\ lease = s /\ reg = "home" /\ TreeInv /\ TypeOK
      /\ phys = "home" \/ (phys = "gone" /\ after[s] = "sweep")
  BY Alone DEF RemoveIntent, Inv
<1>2. HereRemove(s) BY DEF Inv, Here
<1> PICK t \in Txns : Publish(s, t, "registration-intent", phys = "home")
  BY DEF RemoveIntent
<1> USE DEF RemoveIntent, Publish, Free
<1>3. TypeOK' BY <1>1 DEF TypeOK, Idle, Note, Phases
<1>4. /\ Pending' = Pending \cup {t} /\ t \notin Pending /\ note'[t].phase = "registration-intent"
      /\ note'[t].present <=> phys = "home"
      /\ \A u \in Txns : u # t => note'[u] = note[u] /\ file'[u] = file[u]
  <2>1. file' = [file EXCEPT ![t] = "linked"] /\ file[t] = "absent" OBVIOUS
  <2>2. note' = [note EXCEPT ![t] = [phase |-> "registration-intent", present |-> phys = "home"]]
    OBVIOUS
  <2>3. Pending' = Pending \cup {t} /\ t \notin Pending BY <1>1, <2>1 DEF TypeOK, Pending
  <2>4. note'[t] = [phase |-> "registration-intent", present |-> phys = "home"]
    BY <1>1, <2>2 DEF TypeOK
  <2> HIDE DEF Publish, RemoveIntent
  <2>5. note'[t].phase = "registration-intent" /\ (note'[t].present <=> phys = "home")
    <3>1. note'[t].phase = "registration-intent" BY <2>4
    <3>2. CASE phys = "home"
      <4>1. note'[t] = [phase |-> "registration-intent", present |-> TRUE] BY <2>4, <3>2
      <4> QED BY <3>1, <3>2, <4>1
    <3>3. CASE phys # "home"
      <4>1. note'[t] = [phase |-> "registration-intent", present |-> FALSE] BY <2>4, <3>3
      <4> QED BY <3>1, <3>3, <4>1
    <3> QED BY <3>2, <3>3
  <2>6. \A u \in Txns : u # t => note'[u] = note[u] /\ file'[u] = file[u]
    BY <1>1, <2>1, <2>2 DEF TypeOK
  <2> QED BY <2>3, <2>5, <2>6
<1>5. TreeInv'
  <2>1. ~note'[t].present => \A u \in Pending : ~Creation(note[u]) /\ ~note[u].present
    BY <1>1, <1>4 DEF TreeInv, About, AboutCreation, AboutPresent
  <2>2. About(t)'
    BY <1>1, <1>4, <2>1, TxnAssumption DEF TypeOK, TreeInv, About, AboutCreation, AboutQuarantine,
       AboutMissing, AboutStarted, AboutPresent, Pending
  <2>3. ASSUME NEW u \in Pending PROVE About(u)'
    BY <1>1, <1>4, <2>3, TxnAssumption DEF TypeOK, TreeInv, About, AboutCreation, AboutQuarantine,
       AboutMissing, AboutStarted, AboutPresent, Pending
  <2> QED BY <1>1, <1>4, <2>2, <2>3, TxnAssumption, ServerAssumption DEF TypeOK, TreeInv, Pending
<1>6. Here(s)'
  <2>1. txn'[s] = t /\ pc'[s] = "stage" /\ after' = after /\ outer' = outer BY <1>1 DEF TypeOK
  <2>2. outer[s] # NoTxn => outer[s] \in Pending BY <1>1, <1>2 DEF HereRemove, Within, Pending
  <2>3. Within(s)' BY <1>1, <1>2, <1>4, <2>1, <2>2 DEF TypeOK, HereRemove, Within
  <2>4. after[s] \in {"return", "forget", "sweep"} /\ (after[s] = "forget" => outer[s] # NoTxn)
    BY <1>1, <1>2 DEF HereRemove
  <2>5. file'[t] = "linked" BY <1>1 DEF TypeOK
  <2> QED
    BY <1>1, <1>4, <2>1, <2>2, <2>3, <2>4, <2>5, TxnAssumption
    DEF TypeOK, Here, HereMaking, HereGate, HereRemove, HereRemoving, HereReplaying, HereDropping
<1>7. Others(s) /\ pc'[s] \in Working /\ lease' = s
  BY <1>1 DEF TypeOK, Others
<1> QED BY <1>1, <1>3, <1>5, <1>6, <1>7, Works DEF Inv

LEMMA RemoveNothingStep ==
  ASSUME Inv, NEW s \in Servers, RemoveNothing(s)
  PROVE  Inv'
<1>1. pc[s] \in Working /\ lease = s /\ TypeOK BY Alone DEF RemoveNothing, Inv
<1>2. CASE Throw(s) BY <1>1, <1>2, ThrowStep
<1>3. CASE Leave(s) /\ UNCHANGED <<tree, manifest, passLock, use, seen, unresolved>>
  <2> USE <1>3 DEF Leave
  <2>1. TypeOK' BY <1>1 DEF TypeOK, Back, Idle
  <2>2. lease' \notin Servers BY ServerAssumption
  <2>3. TreeInv' BY <2>2, SameTree
  <2>4. /\ Others(s) /\ pc'[s] \notin Working
        /\ txn'[s] = NoTxn /\ outer'[s] = NoTxn /\ after'[s] = "return"
    BY <1>1 DEF TypeOK, Others, Back
  <2>5. Held' /\ \A o \in Servers : Here(o)' BY <1>1, <2>2, <2>4, Rests
  <2> QED BY <2>1, <2>3, <2>5 DEF Inv
<1> QED BY <1>2, <1>3 DEF RemoveNothing

LEMMA StageRegistrationStep ==
  ASSUME Inv, NEW s \in Servers, StageRegistration(s)
  PROVE  Inv'
<1> USE DEF StageRegistration, Settled
<1>1. pc[s] = "stage" /\ lease = s /\ HereRemoving(s) /\ TreeInv /\ TypeOK
  BY Alone DEF Inv, Here
<1>2. TypeOK'
  <2>1. txn[s] \in Txns BY <1>1 DEF HereRemoving
  <2> QED BY <1>1, <2>1 DEF TypeOK, Note, Phases
<1>3. TreeInv'
  BY <1>1, TxnAssumption, ServerAssumption DEF HereRemoving, TypeOK, TreeInv, Within, About,
     AboutCreation, AboutQuarantine, AboutMissing, AboutStarted, AboutPresent, Pending
<1>4. Here(s)'
  BY <1>1, TxnAssumption DEF TypeOK, Here, HereMaking, HereGate, HereRemove, HereRemoving,
     HereReplaying, HereDropping, Within, Pending
<1>5. Others(s) /\ pc'[s] \in Working /\ lease' = s
  BY <1>1 DEF TypeOK, Others
<1> QED BY <1>1, <1>2, <1>3, <1>4, <1>5, Works DEF Inv

LEMMA MarkStagedStep ==
  ASSUME Inv, NEW s \in Servers, MarkStaged(s)
  PROVE  Inv'
<1> USE DEF MarkStaged, Record
<1>1. pc[s] = "markStaged" /\ lease = s /\ HereRemoving(s) /\ TreeInv /\ TypeOK
  BY Alone DEF Inv, Here
<1>2. TypeOK'
  <2>1. txn[s] \in Txns BY <1>1 DEF HereRemoving
  <2> QED BY <1>1, <2>1 DEF TypeOK, Note, Phases
<1>3. TreeInv'
  BY <1>1, TxnAssumption, ServerAssumption DEF HereRemoving, TypeOK, TreeInv, Within, About,
     AboutCreation, AboutQuarantine, AboutMissing, AboutStarted, AboutPresent, Pending
<1>4. Here(s)'
  BY <1>1, TxnAssumption DEF TypeOK, Here, HereMaking, HereGate, HereRemove, HereRemoving,
     HereReplaying, HereDropping, Within, Pending
<1>5. Others(s) /\ pc'[s] \in Working /\ lease' = s
  BY <1>1 DEF TypeOK, Others
<1> QED BY <1>1, <1>2, <1>3, <1>4, <1>5, Works DEF Inv

LEMMA MarkIntentStep ==
  ASSUME Inv, NEW s \in Servers, MarkIntent(s)
  PROVE  Inv'
<1> USE DEF MarkIntent, Record
<1>1. pc[s] = "markIntent" /\ lease = s /\ HereRemoving(s) /\ TreeInv /\ TypeOK
  BY Alone DEF Inv, Here
<1>2. TypeOK'
  <2>1. txn[s] \in Txns BY <1>1 DEF HereRemoving
  <2> QED BY <1>1, <2>1 DEF TypeOK, Note, Phases
<1>3. TreeInv'
  BY <1>1, TxnAssumption, ServerAssumption DEF HereRemoving, TypeOK, TreeInv, Within, About,
     AboutCreation, AboutQuarantine, AboutMissing, AboutStarted, AboutPresent, Pending
<1>4. Here(s)'
  BY <1>1, TxnAssumption DEF TypeOK, Here, HereMaking, HereGate, HereRemove, HereRemoving,
     HereReplaying, HereDropping, Within, Pending
<1>5. Others(s) /\ pc'[s] \in Working /\ lease' = s
  BY <1>1 DEF TypeOK, Others
<1> QED BY <1>1, <1>2, <1>3, <1>4, <1>5, Works DEF Inv

LEMMA QuarantinePhysicalStep ==
  ASSUME Inv, NEW s \in Servers, QuarantinePhysical(s)
  PROVE  Inv'
<1> USE DEF QuarantinePhysical
<1>1. pc[s] = "quarantine" /\ lease = s /\ HereRemoving(s) /\ TreeInv /\ TypeOK
  BY Alone DEF Inv, Here
<1>2. TypeOK'
  <2>1. txn[s] \in Txns BY <1>1 DEF HereRemoving
  <2> QED BY <1>1, <2>1 DEF TypeOK, Note, Phases
<1>3. TreeInv'
  BY <1>1, TxnAssumption, ServerAssumption DEF HereRemoving, TypeOK, TreeInv, Within, About,
     AboutCreation, AboutQuarantine, AboutMissing, AboutStarted, AboutPresent, Pending
<1>4. Here(s)'
  BY <1>1, TxnAssumption DEF TypeOK, Here, HereMaking, HereGate, HereRemove, HereRemoving,
     HereReplaying, HereDropping, Within, Pending
<1>5. Others(s) /\ pc'[s] \in Working /\ lease' = s
  BY <1>1 DEF TypeOK, Others
<1> QED BY <1>1, <1>2, <1>3, <1>4, <1>5, Works DEF Inv

LEMMA MarkStartedStep ==
  ASSUME Inv, NEW s \in Servers, MarkStarted(s)
  PROVE  Inv'
<1> USE DEF MarkStarted, Record
<1>1. pc[s] = "markStarted" /\ lease = s /\ HereRemoving(s) /\ TreeInv /\ TypeOK
  BY Alone DEF Inv, Here
<1>2. TypeOK'
  <2>1. txn[s] \in Txns BY <1>1 DEF HereRemoving
  <2> QED BY <1>1, <2>1 DEF TypeOK, Note, Phases
<1>3. TreeInv'
  BY <1>1, TxnAssumption, ServerAssumption DEF HereRemoving, TypeOK, TreeInv, Within, About,
     AboutCreation, AboutQuarantine, AboutMissing, AboutStarted, AboutPresent, Pending
<1>4. Here(s)'
  BY <1>1, TxnAssumption DEF TypeOK, Here, HereMaking, HereGate, HereRemove, HereRemoving,
     HereReplaying, HereDropping, Within, Pending
<1>5. Others(s) /\ pc'[s] \in Working /\ lease' = s
  BY <1>1 DEF TypeOK, Others
<1> QED BY <1>1, <1>2, <1>3, <1>4, <1>5, Works DEF Inv

LEMMA DeletePhysicalStep ==
  ASSUME Inv, NEW s \in Servers, DeletePhysical(s)
  PROVE  Inv'
<1> USE DEF DeletePhysical
<1>1. pc[s] = "delete" /\ lease = s /\ HereRemoving(s) /\ TreeInv /\ TypeOK
  BY Alone DEF Inv, Here
<1>2. TypeOK'
  <2>1. txn[s] \in Txns BY <1>1 DEF HereRemoving
  <2> QED BY <1>1, <2>1 DEF TypeOK, Note, Phases
<1>3. TreeInv'
  BY <1>1, TxnAssumption, ServerAssumption DEF HereRemoving, TypeOK, TreeInv, Within, About,
     AboutCreation, AboutQuarantine, AboutMissing, AboutStarted, AboutPresent, Pending
<1>4. Here(s)'
  BY <1>1, TxnAssumption DEF TypeOK, Here, HereMaking, HereGate, HereRemove, HereRemoving,
     HereReplaying, HereDropping, Within, Pending
<1>5. Others(s) /\ pc'[s] \in Working /\ lease' = s
  BY <1>1 DEF TypeOK, Others
<1> QED BY <1>1, <1>2, <1>3, <1>4, <1>5, Works DEF Inv

LEMMA MarkRemovedStep ==
  ASSUME Inv, NEW s \in Servers, MarkRemoved(s)
  PROVE  Inv'
<1> USE DEF MarkRemoved, Record
<1>1. pc[s] = "markRemoved" /\ lease = s /\ HereRemoving(s) /\ TreeInv /\ TypeOK
  BY Alone DEF Inv, Here
<1>2. TypeOK'
  <2>1. txn[s] \in Txns BY <1>1 DEF HereRemoving
  <2> QED BY <1>1, <2>1 DEF TypeOK, Note, Phases
<1>3. TreeInv'
  BY <1>1, TxnAssumption, ServerAssumption DEF HereRemoving, TypeOK, TreeInv, Within, About,
     AboutCreation, AboutQuarantine, AboutMissing, AboutStarted, AboutPresent, Pending
<1>4. Here(s)'
  BY <1>1, TxnAssumption DEF TypeOK, Here, HereMaking, HereGate, HereRemove, HereRemoving,
     HereReplaying, HereDropping, Within, Pending
<1>5. Others(s) /\ pc'[s] \in Working /\ lease' = s
  BY <1>1 DEF TypeOK, Others
<1> QED BY <1>1, <1>2, <1>3, <1>4, <1>5, Works DEF Inv

LEMMA CommitRegistrationStep ==
  ASSUME Inv, NEW s \in Servers, CommitRegistration(s)
  PROVE  Inv'
<1> USE DEF CommitRegistration
<1>1. pc[s] = "commit" /\ lease = s /\ HereRemoving(s) /\ TreeInv /\ TypeOK
  BY Alone DEF Inv, Here
<1>2. TypeOK'
  <2>1. txn[s] \in Txns BY <1>1 DEF HereRemoving
  <2> QED BY <1>1, <2>1 DEF TypeOK, Note, Phases
<1>3. TreeInv'
  BY <1>1, TxnAssumption, ServerAssumption DEF HereRemoving, TypeOK, TreeInv, Within, About,
     AboutCreation, AboutQuarantine, AboutMissing, AboutStarted, AboutPresent, Pending
<1>4. Here(s)'
  BY <1>1, TxnAssumption DEF TypeOK, Here, HereMaking, HereGate, HereRemove, HereRemoving,
     HereReplaying, HereDropping, Within, Pending
<1>5. Others(s) /\ pc'[s] \in Working /\ lease' = s
  BY <1>1 DEF TypeOK, Others
<1> QED BY <1>1, <1>2, <1>3, <1>4, <1>5, Works DEF Inv

LEMMA FailsBeforeStartStep ==
  ASSUME Inv, NEW s \in Servers, FailsBeforeStart(s)
  PROVE  Inv'
<1> USE DEF FailsBeforeStart, Settled
<1>1. /\ pc[s] \in {"stage", "markStaged", "markIntent", "quarantine", "markStarted"}
      /\ lease = s /\ HereRemoving(s) /\ TreeInv /\ TypeOK
  BY Alone DEF Inv, Here
<1>2. TypeOK'
  <2>1. txn[s] \in Txns BY <1>1 DEF HereRemoving
  <2> QED BY <1>1, <2>1 DEF TypeOK, Note, Phases
<1>3. TreeInv'
  BY <1>1, TxnAssumption, ServerAssumption DEF HereRemoving, TypeOK, TreeInv, Within, About,
     AboutCreation, AboutQuarantine, AboutMissing, AboutStarted, AboutPresent, Pending
<1>4. Here(s)'
  BY <1>1, TxnAssumption DEF TypeOK, Here, HereMaking, HereGate, HereRemove, HereRemoving,
     HereReplaying, HereDropping, Within, Pending
<1>5. Others(s) /\ pc'[s] \in Working /\ lease' = s
  BY <1>1 DEF TypeOK, Others
<1> QED BY <1>1, <1>2, <1>3, <1>4, <1>5, Works DEF Inv

LEMMA RollbackRegistrationStep ==
  ASSUME Inv, NEW s \in Servers, RollbackRegistration(s)
  PROVE  Inv'
<1> USE DEF RollbackRegistration
<1>1. pc[s] = "rollback" /\ lease = s /\ HereRemoving(s) /\ TreeInv /\ TypeOK
  BY Alone DEF Inv, Here
<1>2. TypeOK'
  <2>1. txn[s] \in Txns BY <1>1 DEF HereRemoving
  <2> QED BY <1>1, <2>1 DEF TypeOK, Note, Phases
<1>3. TreeInv'
  BY <1>1, TxnAssumption, ServerAssumption DEF HereRemoving, TypeOK, TreeInv, Within, About,
     AboutCreation, AboutQuarantine, AboutMissing, AboutStarted, AboutPresent, Pending
<1>4. Here(s)'
  BY <1>1, TxnAssumption DEF TypeOK, Here, HereMaking, HereGate, HereRemove, HereRemoving,
     HereReplaying, HereDropping, Within, Pending
<1>5. Others(s) /\ pc'[s] \in Working /\ lease' = s
  BY <1>1 DEF TypeOK, Others
<1> QED BY <1>1, <1>2, <1>3, <1>4, <1>5, Works DEF Inv

-----------------------------------------------------------------------------
(* removeWorktreeRemovalManifest *)

LEMMA GuardManifestStep ==
  ASSUME Inv, NEW s \in Servers, GuardManifest(s)
  PROVE  Inv'
<1>1. pc[s] = "drop" /\ lease = s /\ HereDropping(s) /\ TypeOK /\ TreeInv /\ pc[s] \in Working
  BY Alone DEF GuardManifest, Inv, Here
<1>2. CASE Throw(s) BY <1>1, <1>2, ThrowStep
<1>3. CASE file[txn[s]] = "plain"
  <2> USE <1>3 DEF GuardManifest
  <2>1. TypeOK' BY <1>1 DEF TypeOK
  <2>2. txn[s] \in Txns BY <1>1 DEF HereDropping
  <2>3. Pending' = Pending /\ \A u \in Txns : u # txn[s] => file'[u] = file[u]
    BY <1>1, <2>2 DEF TypeOK, Pending
  <2>4. TreeInv'
    BY <1>1, <2>3 DEF TreeInv, About, AboutCreation, AboutQuarantine, AboutMissing, AboutStarted,
       AboutPresent
  <2>5. Here(s)'
    BY <1>1, <2>2, <2>3 DEF TypeOK, Here, HereMaking, HereGate, HereRemove, HereRemoving,
       HereReplaying, HereDropping, Within
  <2>6. Others(s) /\ pc'[s] \in Working /\ lease' = s BY <1>1 DEF TypeOK, Others
  <2> QED BY <1>1, <2>1, <2>4, <2>5, <2>6, Works DEF Inv
<1> QED BY <1>2, <1>3 DEF GuardManifest

LEMMA DropNameStep ==
  ASSUME Inv, NEW s \in Servers, DropName(s)
  PROVE  Inv'
<1>1. pc[s] = "dropName" /\ lease = s /\ HereDropping(s) /\ TypeOK /\ TreeInv /\ pc[s] \in Working
  BY Alone DEF DropName, Inv, Here
<1>2. CASE Throw(s) BY <1>1, <1>2, ThrowStep
<1>3. CASE file[txn[s]] = "guarded"
  <2> USE <1>3 DEF DropName
  <2>1. TypeOK' BY <1>1 DEF TypeOK
  <2>2. txn[s] \in Txns /\ phys # txn[s] /\ reg # txn[s] /\ ~(phys = "home" /\ reg = "gone")
    BY <1>1 DEF HereDropping
  <2>3. Pending' = Pending \ {txn[s]} /\ \A u \in Txns : u # txn[s] => file'[u] = file[u]
    BY <1>1, <2>2 DEF TypeOK, Pending
  <2>4. TreeInv'
    BY <1>1, <2>2, <2>3 DEF TreeInv, About, AboutCreation, AboutQuarantine, AboutMissing,
       AboutStarted, AboutPresent
  <2>5. Here(s)'
    BY <1>1, <2>2, <2>3 DEF TypeOK, Here, HereMaking, HereGate, HereRemove, HereRemoving,
       HereReplaying, HereDropping, Within
  <2>6. Others(s) /\ pc'[s] \in Working /\ lease' = s BY <1>1 DEF TypeOK, Others
  <2> QED BY <1>1, <2>1, <2>4, <2>5, <2>6, Works DEF Inv
<1> QED BY <1>2, <1>3 DEF DropName

LEMMA DropGuardStep ==
  ASSUME Inv, NEW s \in Servers, DropGuard(s)
  PROVE  Inv'
<1>1. pc[s] = "dropGuard" /\ lease = s /\ HereDropping(s) /\ TypeOK /\ TreeInv /\ pc[s] \in Working
  BY Alone DEF DropGuard, Inv, Here
<1>2. CASE Throw(s) BY <1>1, <1>2, ThrowStep
<1>3. CASE file[txn[s]] = "guard"
  <2>1. txn[s] \in Txns /\ phys # txn[s] /\ reg # txn[s] /\ ~(phys = "home" /\ reg = "gone")
    BY <1>1 DEF HereDropping
  <2>2. /\ file' = [file EXCEPT ![txn[s]] = "absent"] /\ note' = [note EXCEPT ![txn[s]] = Blank]
        /\ UNCHANGED <<tree, passLock, erased, seen, unresolved>>
    BY <1>3 DEF DropGuard
  <2>3. /\ Pending' = Pending /\ txn[s] \notin Pending
        /\ \A u \in Txns : u # txn[s] => file'[u] = file[u] /\ note'[u] = note[u]
    BY <1>1, <1>3, <2>1, <2>2 DEF TypeOK, Pending
  <2>4. \A u \in Pending : About(u)'
    BY <1>1, <2>2, <2>3 DEF Pending, TreeInv, About, AboutCreation, AboutQuarantine, AboutMissing,
       AboutStarted, AboutPresent
  <2>5. /\ \A t \in Txns : phys' = t \/ reg' = t => t \in Pending'
        /\ reg' = "home" /\ phys' = "gone" => erased'
        /\ phys' = "home" /\ reg' = "gone" => \E t \in Pending' : Creation(note'[t])
    BY <1>1, <2>1, <2>2, <2>3 DEF TreeInv
  <2>6. CASE after[s] = "forget"
    <3>1. /\ txn' = [txn EXCEPT ![s] = outer[s]] /\ after' = [after EXCEPT ![s] = "return"]
          /\ pc' = [pc EXCEPT ![s] = "drop"] /\ UNCHANGED <<lease, outer, owner>>
      BY <1>3, <2>6 DEF DropGuard
    <3>2. TypeOK' BY <1>1, <2>1, <2>2, <3>1 DEF TypeOK, Note, Phases, Blank
    <3>3. TreeInv' BY <1>1, <2>3, <2>4, <2>5, <3>1 DEF TreeInv
    <3>4. /\ outer[s] \in Txns /\ outer[s] # txn[s] /\ phys = "gone" /\ reg = "gone"
          /\ file[outer[s]] = "plain"
      BY <1>1, <2>6 DEF HereDropping, Within
    <3>5. Here(s)'
      BY <1>1, <2>2, <2>3, <3>1, <3>4, TxnAssumption DEF TypeOK, Here, HereMaking, HereGate,
         HereRemove, HereRemoving, HereReplaying, HereDropping
    <3>6. Others(s) /\ pc'[s] \in Working /\ lease' = s BY <1>1, <3>1 DEF TypeOK, Others
    <3> QED BY <1>1, <3>2, <3>3, <3>5, <3>6, Works DEF Inv
  <2>7. CASE after[s] # "forget"
    <3>1. Leave(s) /\ owner' = IF after[s] = "own" THEN s ELSE owner BY <1>3, <2>7 DEF DropGuard
    <3> USE <3>1 DEF Leave
    <3>2. TypeOK' BY <1>1, <2>1, <2>2 DEF TypeOK, Back, Idle, Note, Phases, Blank
    <3>3. lease' \notin Servers BY ServerAssumption
    <3>4. after[s] = "own" => reg = "home" /\ Pending = {}
      BY <1>1, <2>3 DEF HereDropping
    <3>5. TreeInv' BY <1>1, <2>2, <2>3, <2>4, <2>5, <3>3, <3>4 DEF TreeInv
    <3>6. /\ Others(s) /\ pc'[s] \notin Working
          /\ txn'[s] = NoTxn /\ outer'[s] = NoTxn /\ after'[s] = "return"
      BY <1>1 DEF TypeOK, Others, Back
    <3>7. Held' /\ \A o \in Servers : Here(o)' BY <1>1, <3>3, <3>6, Rests
    <3> QED BY <3>2, <3>5, <3>7 DEF Inv
  <2> QED BY <2>6, <2>7
<1> QED BY <1>2, <1>3 DEF DropGuard

-----------------------------------------------------------------------------
(* recoverStaleRuns *)

LEMMA BeginPassStep ==
  ASSUME Inv, NEW s \in Servers, BeginPass(s)
  PROVE  Inv'
<1> USE DEF BeginPass
<1>1. TypeOK /\ pc[s] \in {"down", "ready"} BY DEF Inv
<1>2. TypeOK' BY <1>1 DEF TypeOK, Idle
<1>3. TreeInv' BY SameTree
<1>4. Others(s) /\ pc'[s] \in Idle /\ pc'[s] \notin Working BY <1>1 DEF TypeOK, Others, Idle
<1>5. Held' /\ \A o \in Servers : Here(o)' BY <1>1, <1>4, Watches
<1> QED BY <1>2, <1>3, <1>5 DEF Inv

LEMMA ReclaimPendingStep ==
  ASSUME Inv, NEW s \in Servers, ReclaimPending(s)
  PROVE  Inv'
<1> USE DEF ReclaimPending
<1>1. TypeOK /\ pc[s] = "reclaim" BY DEF Inv
<1>2. TypeOK' BY <1>1 DEF TypeOK, Idle
<1>3. lease' = lease \/ (lease \notin Servers /\ lease' \notin Servers) BY ServerAssumption
<1>4. TreeInv' BY <1>3, SameTree
<1>5. Others(s) /\ pc'[s] \notin Working BY <1>1 DEF TypeOK, Others
<1>6. Held' /\ \A o \in Servers : Here(o)' BY <1>1, <1>3, <1>5, Watches
<1> QED BY <1>2, <1>4, <1>6 DEF Inv

\* The guards a pass takes away are those of drops that are under way or were cut off.
LEMMA ReadPendingStep ==
  ASSUME Inv, NEW s \in Servers, ReadPending(s)
  PROVE  Inv'
<1> USE DEF ReadPending
<1>1. TypeOK /\ TreeInv /\ pc[s] = "read" BY DEF Inv
<1>2. TypeOK' BY <1>1 DEF TypeOK, Idle, Blank, Note, Phases
<1>3. /\ Pending' = Pending
      /\ \A t \in Pending : note'[t] = note[t]
      /\ \A t \in Txns : file[t] \in {"plain", "linked"} => file'[t] = file[t]
      /\ \A t \in Txns : file[t] \in {"plain", "guarded"} => file'[t] \in {"plain", "guarded"}
      /\ \A t \in Txns : file[t] \in {"guard", "absent"} => file'[t] \in {"guard", "absent"}
  BY <1>1 DEF TypeOK, Pending
<1>4. TreeInv'
  <2>1. UNCHANGED <<phys, reg, owner, erased, lease>> OBVIOUS
  <2> HIDE DEF ReadPending
  <2> QED
    BY <1>1, <1>3, <2>1 DEF TreeInv, About, AboutCreation, AboutQuarantine, AboutMissing,
       AboutStarted, AboutPresent
<1>5. /\ Others(s) /\ pc'[s] \notin Working /\ pc[s] \notin Working
      /\ \A o \in Servers : pc'[o] \in Working => pc'[o] = pc[o]
  BY <1>1 DEF TypeOK, Others
<1>6. Held' BY <1>5 DEF Inv, Held, Others
<1>7. ASSUME NEW o \in Servers PROVE Here(o)'
  <2>1. Here(o) /\ (pc'[o] \in Working => pc'[o] = pc[o]) BY <1>5 DEF Inv
  <2>2. \A t \in Txns : file[t] \in {"plain", "linked"} => note'[t] = note[t] BY <1>3 DEF Pending
  <2>3. Within(o) => Within(o)' BY <1>3, <2>2 DEF Within
  <2>4. HereMaking(o)'
    BY <1>3, <2>1, <2>2 DEF Here, HereMaking
  <2>5. HereGate(o)' /\ HereRemove(o)' BY <1>3, <2>1, <2>3 DEF Here, HereGate, HereRemove
  <2>6. HereRemoving(o)'
    BY <1>3, <2>1, <2>2, <2>3 DEF Here, HereRemoving
  <2>7. HereReplaying(o)'
    BY <1>3, <2>1, <2>2 DEF Here, HereReplaying
  <2>8. HereDropping(o)'
    BY <1>3, <2>1, <2>2, <2>3 DEF Here, HereDropping
  <2> QED BY <2>4, <2>5, <2>6, <2>7, <2>8 DEF Here
<1> QED BY <1>2, <1>4, <1>6, <1>7 DEF Inv

LEMMA ReplayBeginsStep ==
  ASSUME Inv, NEW s \in Servers, ReplayBegins(s)
  PROVE  Inv'
<1>1. TypeOK /\ TreeInv /\ pc[s] = "replay" /\ lease = "free" BY DEF ReplayBegins, Inv
<1> PICK t \in Todo(s) :
      LET m == seen[s][t] IN
      /\ Same(t, m) /\ ~Rejects(t, m)
      /\ lease' = s /\ txn' = [txn EXCEPT ![s] = t]
      /\ file' = [file EXCEPT ![t] = "plain"]
      /\ after' = [after EXCEPT ![s] = "replay"]
      /\ Go(s, IF Creation(m) THEN "undo" ELSE IF RollsBack(m, Sees(t, phys)) THEN "restore"
               ELSE "complete")
      /\ Done(s, t)
  BY DEF ReplayBegins
<1>2. /\ t \in Txns /\ file[t] \in {"linked", "plain"} /\ ~Rejects(t, note[t])
      /\ lease' = s /\ txn' = [txn EXCEPT ![s] = t] /\ file' = [file EXCEPT ![t] = "plain"]
      /\ after' = [after EXCEPT ![s] = "replay"] /\ Done(s, t)
      /\ Go(s, IF Creation(note[t]) THEN "undo" ELSE IF RollsBack(note[t], Sees(t, phys)) THEN "restore"
               ELSE "complete")
      /\ UNCHANGED <<tree, note, passLock, use, outer, unresolved>>
  BY DEF ReplayBegins, Todo, Same
<1>3. TypeOK' BY <1>1, <1>2 DEF TypeOK, Done, Note, Phases, Blank
<1>4. Pending' = Pending /\ t \in Pending BY <1>1, <1>2 DEF TypeOK, Pending
<1>5. TreeInv'
  BY <1>1, <1>2, <1>4 DEF TreeInv, About, AboutCreation, AboutQuarantine, AboutMissing,
     AboutStarted, AboutPresent
<1>6. /\ outer'[s] = NoTxn /\ txn'[s] = t /\ after'[s] = "replay" /\ file'[t] = "plain"
      /\ pc'[s] = IF Creation(note[t]) THEN "undo"
                  ELSE IF RollsBack(note[t], Sees(t, phys)) THEN "restore" ELSE "complete"
  BY <1>1, <1>2 DEF TypeOK, Inv, Held
<1>7. HereReplaying(s)'
  <2>1. CASE Creation(note[t]) BY <1>2, <1>6, <2>1 DEF HereReplaying
  <2>2. CASE ~Creation(note[t]) /\ RollsBack(note[t], Sees(t, phys))
    BY <1>1, <1>2, <1>4, <1>6, <2>2, TxnAssumption DEF HereReplaying, RollsBack, Sees, Rejects,
       Refuses, TypeOK, Note, Phases, TreeInv, About, AboutMissing
  <2>3. CASE ~Creation(note[t]) /\ ~RollsBack(note[t], Sees(t, phys))
    <3>1. /\ reg # "home" /\ note[t] \in Note /\ note[t].phase # "none"
          /\ phys = t => note[t].phase # "registration-intent"
      BY <1>1, <1>2, <1>4, <2>3, TxnAssumption DEF Rejects, Refuses, TypeOK, TreeInv, About,
         AboutQuarantine
    <3>2. phys \in {"home", t} => Sees(t, phys) = phys /\ phys # "gone"
      BY <1>2, TxnAssumption DEF Sees
    <3>3. phys \in {"home", t} => note[t].present /\ note[t].phase # "physical-removed"
      BY <1>2, <2>3, <3>2 DEF Rejects, Refuses
    <3>4. phys \in {"home", t} => note[t].phase = "physical-removal-started"
      BY <1>2, <2>3, <3>1, <3>2, <3>3 DEF Rejects, Refuses, RollsBack, Note, Phases
    <3> QED BY <1>1, <1>2, <1>6, <2>3, <3>1, <3>4 DEF HereReplaying, TypeOK
  <2> QED BY <2>1, <2>2, <2>3
<1>8. pc'[s] \in Replaying BY <1>6
<1>9. Here(s)'
  BY <1>7, <1>8 DEF Here, HereMaking, HereGate, HereRemove, HereRemoving, HereDropping
<1>10. Others(s) /\ pc'[s] \in Working /\ lease' = s
  BY <1>1, <1>2, <1>8 DEF TypeOK, Others
<1>11. \A o \in Servers \ {s} : lease # o BY <1>1, ServerAssumption
<1> QED BY <1>3, <1>5, <1>9, <1>10, <1>11, Works DEF Inv

LEMMA ReplayMootStep ==
  ASSUME Inv, NEW s \in Servers, ReplayMoot(s)
  PROVE  Inv'
<1> USE DEF ReplayMoot
<1>1. TypeOK /\ pc[s] = "replay" BY DEF Inv
<1> PICK t \in Txns : Done(s, t) BY DEF Todo
<1>2. TypeOK'
  <2>1. Blank \in Note BY DEF Blank, Note, Phases
  <2>2. seen' \in [Servers -> [Txns -> Note]] BY <1>1, <2>1 DEF TypeOK, Done
  <2> QED BY <1>1, <2>2 DEF TypeOK
<1>3. TreeInv' BY SameTree
<1>4. Held' /\ \A o \in Servers : Here(o)' BY <1>1, Watches DEF Others
<1> QED BY <1>2, <1>3, <1>4 DEF Inv

LEMMA ReplayIssueStep ==
  ASSUME Inv, NEW s \in Servers, ReplayIssue(s)
  PROVE  Inv'
<1>1. /\ TypeOK /\ pc[s] = "replay" /\ \E t \in Txns : Done(s, t)
      /\ unresolved' = [unresolved EXCEPT ![s] = TRUE]
      /\ UNCHANGED <<tree, manifest, locks, use, pc, txn, outer, after>>
  BY DEF ReplayIssue, Inv, Todo
<1>2. TypeOK'
  <2>1. Blank \in Note BY DEF Blank, Note, Phases
  <2>2. seen' \in [Servers -> [Txns -> Note]] BY <1>1, <2>1 DEF TypeOK, Done
  <2> QED BY <1>1, <2>2 DEF TypeOK
<1>3. TreeInv' BY <1>1, SameTree
<1>4. Held' /\ \A o \in Servers : Here(o)' BY <1>1, Watches DEF Others
<1> QED BY <1>2, <1>3, <1>4 DEF Inv

LEMMA ReplayEndsStep ==
  ASSUME Inv, NEW s \in Servers, ReplayEnds(s)
  PROVE  Inv'
<1> USE DEF ReplayEnds
<1>1. TypeOK /\ pc[s] = "replay" BY DEF Inv
<1>2. TypeOK' BY <1>1 DEF TypeOK, Idle
<1>3. TreeInv' BY SameTree
<1>4. Others(s) /\ pc'[s] \notin Working BY <1>1 DEF TypeOK, Others
<1>5. Held' /\ \A o \in Servers : Here(o)' BY <1>1, <1>4, Watches
<1> QED BY <1>2, <1>3, <1>5 DEF Inv

LEMMA RestoreStep ==
  ASSUME Inv, NEW s \in Servers, Restore(s)
  PROVE  Inv'
<1> USE DEF Restore
<1>1. pc[s] = "restore" /\ lease = s /\ HereReplaying(s) /\ TreeInv /\ TypeOK
  BY Alone DEF Inv, Here
<1>2. TypeOK'
  <2>1. txn[s] \in Txns BY <1>1 DEF HereReplaying
  <2> QED BY <1>1, <2>1 DEF TypeOK, Note, Phases
<1>3. TreeInv'
  BY <1>1, TxnAssumption, ServerAssumption DEF HereReplaying, TypeOK, TreeInv, Within, About,
     AboutCreation, AboutQuarantine, AboutMissing, AboutStarted, AboutPresent, Pending
<1>4. Here(s)'
  BY <1>1, TxnAssumption DEF TypeOK, Here, HereMaking, HereGate, HereRemove, HereRemoving,
     HereReplaying, HereDropping, Within, Pending
<1>5. Others(s) /\ pc'[s] \in Working /\ lease' = s
  BY <1>1 DEF TypeOK, Others
<1> QED BY <1>1, <1>2, <1>3, <1>4, <1>5, Works DEF Inv

LEMMA CompleteStep ==
  ASSUME Inv, NEW s \in Servers, Complete(s)
  PROVE  Inv'
<1> USE DEF Complete
<1>1. pc[s] = "complete" /\ lease = s /\ HereReplaying(s) /\ TreeInv /\ TypeOK
  BY Alone DEF Inv, Here
<1>2. TypeOK'
  <2>1. txn[s] \in Txns BY <1>1 DEF HereReplaying
  <2> QED BY <1>1, <2>1 DEF TypeOK, Note, Phases
<1>3. TreeInv'
  BY <1>1, TxnAssumption, ServerAssumption DEF HereReplaying, TypeOK, TreeInv, Within, About,
     AboutCreation, AboutQuarantine, AboutMissing, AboutStarted, AboutPresent, Pending
<1>4. Here(s)'
  BY <1>1, TxnAssumption DEF TypeOK, Here, HereMaking, HereGate, HereRemove, HereRemoving,
     HereReplaying, HereDropping, Within, Pending
<1>5. Others(s) /\ pc'[s] \in Working /\ lease' = s
  BY <1>1 DEF TypeOK, Others
<1> QED BY <1>1, <1>2, <1>3, <1>4, <1>5, Works DEF Inv

LEMMA UndoStep ==
  ASSUME Inv, NEW s \in Servers, Undo(s)
  PROVE  Inv'
<1> USE DEF Undo
<1>1. pc[s] = "undo" /\ lease = s /\ HereReplaying(s) /\ TreeInv /\ TypeOK
  BY Alone DEF Inv, Here
<1>2. TypeOK'
  <2>1. txn[s] \in Txns BY <1>1 DEF HereReplaying
  <2> QED BY <1>1, <2>1 DEF TypeOK, Note, Phases
<1>3. TreeInv'
  BY <1>1, TxnAssumption, ServerAssumption DEF HereReplaying, TypeOK, TreeInv, Within, About,
     AboutCreation, AboutQuarantine, AboutMissing, AboutStarted, AboutPresent, Pending
<1>4. Here(s)'
  BY <1>1, TxnAssumption DEF TypeOK, Here, HereMaking, HereGate, HereRemove, HereRemoving,
     HereReplaying, HereDropping, Within, Pending
<1>5. Others(s) /\ pc'[s] \in Working /\ lease' = s
  BY <1>1 DEF TypeOK, Others
<1> QED BY <1>1, <1>2, <1>3, <1>4, <1>5, Works DEF Inv

LEMMA SweepStep ==
  ASSUME Inv, NEW s \in Servers, Sweep(s)
  PROVE  Inv'
<1>1. TypeOK /\ TreeInv /\ pc[s] = "sweep" BY DEF Sweep, Inv
<1>2. TypeOK' BY <1>1 DEF Sweep, TypeOK, Idle
<1>3. Others(s) BY <1>1 DEF Sweep, TypeOK, Others
<1>4. CASE pc'[s] = "remove"
  <2> USE DEF Sweep
  <2>1. owner = "nobody" /\ lease \in {"free", "dead"} /\ lease' = s /\ after'[s] = "sweep"
    BY <1>1, <1>4 DEF TypeOK
  <2>2. TreeInv' BY <2>1, SameTree
  <2>3. txn'[s] = NoTxn /\ outer'[s] = NoTxn BY <1>1 DEF Inv, Held
  <2>4. Here(s)'
    BY <1>4, <2>1, <2>3 DEF Here, HereMaking, HereGate, HereRemove, HereRemoving, HereReplaying,
       HereDropping, Within
  <2>5. \A o \in Servers \ {s} : lease # o BY <2>1, ServerAssumption
  <2> QED BY <1>2, <1>3, <1>4, <2>1, <2>2, <2>4, <2>5, Works DEF Inv
<1>5. CASE pc'[s] = "endPass" /\ UNCHANGED <<lease, after>>
  <2> USE DEF Sweep
  <2>1. TreeInv' BY <1>5, SameTree
  <2>2. Held' /\ \A o \in Servers : Here(o)' BY <1>1, <1>3, <1>5, Watches
  <2> QED BY <1>2, <2>1, <2>2 DEF Inv
<1> QED BY <1>1, <1>4, <1>5 DEF Sweep, TypeOK

LEMMA EndPassStep ==
  ASSUME Inv, NEW s \in Servers, EndPass(s)
  PROVE  Inv'
<1> USE DEF EndPass
<1>1. TypeOK /\ pc[s] = "endPass" BY DEF Inv
<1>2. TypeOK' BY <1>1 DEF TypeOK, Idle
<1>3. lease' = lease \/ (lease \notin Servers /\ lease' \notin Servers) BY ServerAssumption
<1>4. TreeInv' BY <1>3, SameTree
<1>5. Others(s) /\ pc'[s] \notin Working BY <1>1 DEF TypeOK, Others
<1>6. Held' /\ \A o \in Servers : Here(o)' BY <1>1, <1>3, <1>5, Watches
<1> QED BY <1>2, <1>4, <1>6 DEF Inv

-----------------------------------------------------------------------------
(* Exits and users *)

LEMMA ExitStep ==
  ASSUME Inv, NEW s \in Servers, Exit(s)
  PROVE  Inv'
<1> USE DEF Exit
<1>1. TypeOK /\ TreeInv BY DEF Inv
<1>2. TypeOK' BY <1>1 DEF TypeOK, Idle, Blank, Note, Phases
<1>3. lease' = lease \/ lease' \notin Servers BY ServerAssumption
<1>4. Pending' = Pending BY DEF Pending
<1>5. TreeInv'
  BY <1>1, <1>3, <1>4 DEF TreeInv, About, AboutCreation, AboutQuarantine, AboutMissing,
     AboutStarted, AboutPresent
<1>6. /\ Others(s) /\ pc'[s] = "down"
      /\ txn'[s] = NoTxn /\ outer'[s] = NoTxn /\ after'[s] = "return"
  BY <1>1 DEF TypeOK, Others
<1>7. CASE pc[s] \in Working
  <2>1. lease = s /\ lease' \notin Servers BY <1>7, Alone, ServerAssumption
  <2> QED BY <1>2, <1>5, <1>6, <2>1, Rests DEF Inv
<1>8. CASE pc[s] \notin Working
  <2>1. txn' = txn /\ outer' = outer /\ after' = after
    BY <1>1, <1>8 DEF TypeOK, Inv, Held
  <2>2. lease' = lease BY <1>8 DEF Inv, Held
  <2>3. Held' /\ \A o \in Servers : Here(o)' BY <1>6, <1>8, <2>1, <2>2, Watches
  <2> QED BY <1>2, <1>5, <2>3 DEF Inv
<1> QED BY <1>7, <1>8

LEMMA UserErasesStep ==
  ASSUME Inv, UserErases
  PROVE  Inv'
<1> USE DEF UserErases
<1>1. TypeOK /\ TreeInv BY DEF Inv
<1>2. TypeOK' BY <1>1 DEF TypeOK
<1>3. Pending' = {} BY DEF Pending
<1>4. TreeInv' BY <1>1, <1>3, TxnAssumption DEF TreeInv
<1>5. \A o \in Servers : pc[o] \notin Working BY DEF Inv, Held
<1>6. Held' BY DEF Inv, Held
<1>7. \A o \in Servers : Here(o)'
  BY <1>5 DEF Here, HereMaking, HereGate, HereRemove, HereRemoving, HereReplaying, HereDropping
<1> QED BY <1>2, <1>4, <1>6, <1>7 DEF Inv

-----------------------------------------------------------------------------
(* The invariant, and what follows from it *)

LEMMA Initially == Init => Inv
<1> SUFFICES ASSUME Init PROVE Inv OBVIOUS
<1> USE DEF Init
<1>1. TypeOK BY DEF TypeOK, Idle, Blank, Note, Phases
<1>2. Pending = {} BY DEF Pending
<1>3. TreeInv BY <1>2, TxnAssumption DEF TreeInv
<1>4. \A s \in Servers : pc[s] \notin Working OBVIOUS
<1>5. Held BY <1>4, ServerAssumption DEF Held
<1>6. \A s \in Servers : Here(s)
  BY <1>4 DEF Here, HereMaking, HereGate, HereRemove, HereRemoving, HereReplaying, HereDropping
<1> QED BY <1>1, <1>3, <1>5, <1>6 DEF Inv

LEMMA StepKeepsInv == Inv /\ [Next]_vars => Inv'
<1> SUFFICES ASSUME Inv, [Next]_vars PROVE Inv' OBVIOUS
<1>1. CASE UserErases BY <1>1, UserErasesStep
<1>2. ASSUME NEW s \in Servers, Exit(s) PROVE Inv' BY <1>2, ExitStep
<1>3. ASSUME NEW s \in Servers, Step(s) PROVE Inv'
  <2>1. CASE Admit(s, "create") \/ Admit(s, "remove") BY <2>1, AdmitStep
  <2>2. CASE Gate(s) BY <2>2, GateStep
  <2>3. CASE Create(s)
    BY <2>3, CreateIntentStep, CreateElsewhereStep, MakePlaceholderStep, BindPlaceholderStep,
       MoveInStep,
       AddWorktreeStep, AddFailsStep, UnmakeStep, CheckedStep, CheckFailsStep DEF Create
  <2>4. CASE Remove(s)
    BY <2>4, RemoveIntentStep, RemoveNothingStep, StageRegistrationStep, MarkStagedStep,
       MarkIntentStep,
       QuarantinePhysicalStep, MarkStartedStep, DeletePhysicalStep, MarkRemovedStep,
       CommitRegistrationStep, FailsBeforeStartStep, RollbackRegistrationStep DEF Remove
  <2>5. CASE Drop(s) BY <2>5, SettleStep, GuardManifestStep, DropNameStep, DropGuardStep DEF Drop
  <2>6. CASE Fails(s) BY <2>6, FailsStep
  <2>7. CASE Pass(s)
    BY <2>7, BeginPassStep, ReclaimPendingStep, ReadPendingStep, ReplayBeginsStep, ReplayMootStep,
       ReplayIssueStep, ReplayEndsStep, RestoreStep, CompleteStep, UndoStep, SweepStep,
          EndPassStep DEF Pass
  <2> QED BY <1>3, <2>1, <2>2, <2>3, <2>4, <2>5, <2>6, <2>7 DEF Step
<1>4. CASE UNCHANGED vars
  BY <1>4 DEF vars, Inv, TypeOK, Held, TreeInv, About, AboutCreation, AboutQuarantine,
     AboutMissing, AboutStarted, AboutPresent, Pending, Here, HereMaking, HereGate, HereRemove,
     HereRemoving, HereReplaying, HereDropping, Within
<1> QED BY <1>1, <1>2, <1>3, <1>4 DEF Next

LEMMA Always == Spec => []Inv
BY Initially, StepKeepsInv, PTL DEF Spec

\* Every variable has the values its declaration names: the servers stand at known places, the
\* manifests say known phases, and the worktree is at home, gone, or at a transaction's path.
THEOREM TypeCorrect == Spec => []TypeOK
<1>1. Inv => TypeOK BY DEF Inv
<1> QED BY <1>1, Always, PTL

\* A directory or a registration that is not at home belongs to a pending transaction.
LEMMA InvSettled == Inv => SettledIsWhole
BY TxnAssumption DEF Inv, TypeOK, TreeInv, SettledIsWhole, Whole

\* Whenever no transaction is pending, the worktree is whole: no exit, failure or race of a
\* creation, a removal or a replay leaves half of one that no manifest speaks of.
THEOREM SettledWhole == Spec => []SettledIsWhole
BY InvSettled, Always, PTL

\* An operation the ambiguity gate has let in works on a whole worktree.
THEOREM AdmittedOnWhole == Spec => []AdmittedWhole
<1>1. Inv => AdmittedWhole
  <2> SUFFICES ASSUME Inv, NEW s \in Servers, pc[s] \in {"create", "remove"}, after[s] = "return"
               PROVE  Whole
    BY DEF AdmittedWhole
  <2>1. HereGate(s) /\ HereRemove(s) BY DEF Inv, Here
  <2>2. CASE pc[s] = "create" BY <2>1, <2>2, InvSettled DEF HereGate, SettledIsWhole
  <2>3. CASE pc[s] = "remove" BY <2>1, <2>3, InvSettled DEF HereRemove, SettledIsWhole, Whole
  <2> QED BY <2>2, <2>3
<1> QED BY <1>1, Always, PTL

\* A creation left pending is never refused: its manifest was bound before anything was moved.
LEMMA CreationNeverRefused ==
  ASSUME Inv, NEW t \in Pending, Creation(note[t])
  PROVE  ~Rejects(t, note[t])
<1>1. t \in Txns BY DEF Pending
<1>2. AboutCreation(t) BY DEF Inv, TreeInv, About
<1> QED BY <1>1, <1>2, TxnAssumption DEF AboutCreation, Rejects, RefusesUndo

\* What recovery needs to replay the removal that a manifest records.
LEMMA RemovalReplays ==
  ASSUME Inv, NEW t \in Pending, ~Creation(note[t]), reg = "home" \/ (phys # "gone" /\ reg = t)
  PROVE  phys = "home" \/ phys = t \/ (phys = "gone" /\ reg = "home") => ~Rejects(t, note[t])
<1>1. t \in Txns /\ note[t] \in Note /\ note[t].phase # "none" /\ About(t)
  BY DEF Inv, TypeOK, TreeInv, About, Pending
<1>2. note[t].phase # "physical-removed" /\ (reg = "home" => note[t].phase # "physical-removal-started")
  BY <1>1, TxnAssumption DEF About, AboutStarted
<1>3. reg = t => note[t].present BY <1>1, <1>2, TxnAssumption DEF About, AboutMissing
<1>4. Sees(t, reg) = reg /\ reg # "gone" BY <1>1, TxnAssumption DEF Sees
<1>5. phys \in {"home", "gone", t} => Sees(t, phys) = phys BY <1>1 DEF Sees
<1>6. CASE phys = "gone" /\ reg = "home"
  <2>1. ~note[t].present BY <1>1, <1>6 DEF About, AboutPresent
  <2> QED
    BY <1>1, <1>2, <1>4, <1>5, <1>6, <2>1 DEF Rejects, Refuses, RollsBack, Note, Phases
<1>7. CASE phys = "home"
  <2>1. note[t].present BY <1>1, <1>7 DEF About, AboutMissing
  <2>2. note[t].phase # "physical-removal-started"
    BY <1>1, <1>7, TxnAssumption DEF About, AboutStarted
  <2> QED
    BY <1>1, <1>2, <1>4, <1>5, <1>7, <2>1, <2>2 DEF Rejects, Refuses, RollsBack, Note, Phases
<1>8. CASE phys = t
  <2>1. note[t].present BY <1>1, <1>8, TxnAssumption DEF About, AboutMissing
  <2>2. note[t].phase \in {"physical-removal-intent", "physical-removal-started"} /\ reg = t
    BY <1>1, <1>8 DEF About, AboutQuarantine
  <2> QED
    BY <1>1, <1>4, <1>5, <1>8, <2>1, <2>2, TxnAssumption DEF Rejects, Refuses, RollsBack
<1> QED BY <1>6, <1>7, <1>8

\* When recovery refuses every pending manifest, what is left is residue: there is no directory
\* and Git lists no worktree, so nothing waits for a replay that never comes.
THEOREM RefusedResidue == Spec => []RefusedIsResidue
<1>1. Inv => RefusedIsResidue
  <2> SUFFICES ASSUME Inv, Stuck, phys # "gone" \/ reg = "home" PROVE FALSE
    BY DEF RefusedIsResidue
  <2>1. \A t \in Pending : Rejects(t, note[t]) /\ ~Creation(note[t])
    BY CreationNeverRefused DEF Stuck
  <2>2. TypeOK /\ TreeInv BY DEF Inv
  <2>3. CASE reg = "home"
    <3>1. PICK t \in Pending : TRUE BY DEF Stuck
    <3>2. phys \in Txns => phys \in Pending /\ reg = phys
      BY <2>1, <2>2 DEF TreeInv, About, AboutQuarantine
    <3>3. phys \in {"home", "gone"} BY <2>2, <2>3, <3>2, TxnAssumption DEF TypeOK
    <3> QED BY <2>1, <2>3, <3>3, RemovalReplays
  <2>4. CASE reg # "home" /\ phys = "home"
    <3>1. reg \in Txns /\ reg \in Pending BY <2>1, <2>2, <2>4 DEF TypeOK, TreeInv
    <3> QED BY <2>1, <2>4, <3>1, RemovalReplays
  <2>5. CASE reg # "home" /\ phys \in Txns
    <3>1. phys \in Pending /\ reg = phys BY <2>1, <2>2, <2>5 DEF TreeInv, About, AboutQuarantine
    <3> QED BY <2>1, <2>5, <3>1, TxnAssumption, RemovalReplays
  <2> QED BY <2>2, <2>3, <2>4, <2>5 DEF TypeOK
<1> QED BY <1>1, Always, PTL

\* A directory goes only in four steps, each on a transaction that says it may.
LEMMA DeletesStarted ==
  ASSUME Inv, [Next]_vars, phys # "gone", phys' = "gone", ~erased'
  PROVE  \E t \in Pending : note[t].phase \in {"physical-removal-started", "creation-intent"}
<1>1. phys' # phys OBVIOUS
<1>2. ~UserErases BY DEF UserErases
<1>3. \A s \in Servers : ~Exit(s) BY <1>1 DEF Exit
<1> PICK s \in Servers : Step(s) BY <1>1, <1>2, <1>3 DEF Next, vars
<1>4. Here(s) /\ TypeOK BY DEF Inv
<1>5. Unmake(s) \/ QuarantinePhysical(s) \/ DeletePhysical(s) \/ Complete(s) \/ Undo(s)
      \/ MakePlaceholder(s)
  <2>1. ~Admit(s, "create") /\ ~Admit(s, "remove") BY <1>1 DEF Admit
  <2>2. ~Gate(s) /\ ~Fails(s) BY <1>1 DEF Gate, Fails, Throw
  <2>3. ~Drop(s) BY <1>1 DEF Drop, Settle, GuardManifest, DropName, DropGuard, Throw
  <2>4. Create(s) => Unmake(s) \/ MakePlaceholder(s)
    BY <1>1 DEF Create, CreateIntent, CreateElsewhere, BindPlaceholder, MoveIn, AddWorktree,
       AddFails, Checked, CheckFails, Throw
  <2>5. Remove(s) => QuarantinePhysical(s) \/ DeletePhysical(s)
    BY <1>1 DEF Remove, RemoveIntent, RemoveNothing, StageRegistration, MarkStaged, MarkIntent,
       MarkStarted, MarkRemoved, CommitRegistration, FailsBeforeStart, RollbackRegistration, Throw
  <2>6. Pass(s) => Complete(s) \/ Undo(s)
    BY <1>1 DEF Pass, BeginPass, ReclaimPending, ReadPending, ReplayBegins, ReplayMoot,
       ReplayIssue, ReplayEnds, Restore, Sweep, EndPass
  <2> QED BY <2>1, <2>2, <2>3, <2>4, <2>5, <2>6 DEF Step
<1>6. CASE Unmake(s) BY <1>4, <1>6 DEF Unmake, Here, HereMaking, Pending
<1>7. CASE MakePlaceholder(s)
  BY <1>4, <1>7, TxnAssumption DEF MakePlaceholder, Here, HereMaking
<1>8. CASE QuarantinePhysical(s)
  BY <1>1, <1>4, <1>8, TxnAssumption DEF QuarantinePhysical, Here, HereRemoving
<1>9. CASE DeletePhysical(s) BY <1>4, <1>9 DEF DeletePhysical, Here, HereRemoving, Pending
<1>10. CASE Complete(s)
  BY <1>1, <1>4, <1>10, TxnAssumption DEF Complete, Here, HereReplaying, Pending
<1>11. CASE Undo(s) BY <1>4, <1>11 DEF Undo, Here, HereReplaying, Pending
<1> QED BY <1>5, <1>6, <1>7, <1>8, <1>9, <1>10, <1>11

\* No directory is deleted, by an operation or by a replay, before a pending manifest says that
\* its removal has started or that it was still being created.
THEOREM DeletedOnlyStarted == Spec => DeletedOnlyOnceStarted
<1>1. Inv /\ [Next]_vars => [phys # "gone" /\ phys' = "gone" /\ ~erased'
        => \E t \in Pending : note[t].phase \in {"physical-removal-started", "creation-intent"}]_vars
  BY DeletesStarted
<1> QED BY <1>1, Always, PTL DEF Spec, DeletedOnlyOnceStarted

-----------------------------------------------------------------------------
(* It implements AtomicWorktree *)

\* While a server is at work no run uses the worktree.
LEMMA NobodyUses ==
  ASSUME Inv, NEW s \in Servers, pc[s] \in Working
  PROVE  owner = "nobody"
BY Alone DEF Inv, TreeInv

\* Nothing changes while the registration and what is pending stay as they are.
LEMMA ThereSame ==
  ASSUME reg' = reg, Pending' = Pending, \A t \in Pending : note'[t].phase = note[t].phase
  PROVE  There' = There
BY DEF There, Committed

\* A step of the server at work makes the worktree appear, or takes away one that no run uses.
LEMMA WorkIsAtomic ==
  ASSUME Inv, NEW s \in Servers, pc[s] \in Working, owner' = owner
  PROVE  [Atomic!Next]_(Atomic!vars)
BY NobodyUses DEF Atomic!Next, Atomic!vars, Atomic!Appear, Atomic!Vanish, There

LEMMA StepIsAtomic == Inv /\ [Next]_vars => [Atomic!Next]_(Atomic!vars)
<1> SUFFICES ASSUME Inv, [Next]_vars PROVE [Atomic!Next]_(Atomic!vars) OBVIOUS
<1>1. TypeOK BY DEF Inv
<1>2. (file' = file /\ note' = note /\ reg' = reg) => There' = There BY ThereSame DEF Pending
<1>3. CASE UNCHANGED vars BY <1>2, <1>3 DEF vars, Atomic!vars
<1>4. CASE UserErases BY <1>2, <1>4 DEF UserErases, Atomic!vars
<1>5. ASSUME NEW s \in Servers, Exit(s) PROVE [Atomic!Next]_(Atomic!vars)
  BY <1>2, <1>5, ServerAssumption DEF Exit, Atomic!Next, Atomic!vars, Atomic!Yield
<1>6. ASSUME NEW s \in Servers, Step(s) PROVE [Atomic!Next]_(Atomic!vars)
  <2>1. ASSUME NEW op \in {"create", "remove"}, Admit(s, op) PROVE [Atomic!Next]_(Atomic!vars)
    BY <1>2, <2>1, ServerAssumption DEF Admit, Atomic!Next, Atomic!vars, Atomic!Yield
  <2>2. CASE Gate(s) BY <2>2, WorkIsAtomic DEF Gate, Throw
  <2>3. CASE Create(s)
    <3>1. pc[s] \in Working /\ owner' = owner
      BY <2>3 DEF Create, CreateIntent, CreateElsewhere, MakePlaceholder, BindPlaceholder, MoveIn,
         AddWorktree, AddFails, Unmake, Checked, CheckFails, Throw
    <3> QED BY <3>1, WorkIsAtomic
  <2>4. CASE Remove(s)
    <3>1. pc[s] \in Working /\ owner' = owner
      BY <2>4 DEF Remove, RemoveIntent, RemoveNothing, StageRegistration, MarkStaged, MarkIntent,
         QuarantinePhysical, MarkStarted, DeletePhysical, MarkRemoved, CommitRegistration,
         FailsBeforeStart, RollbackRegistration, Throw
    <3> QED BY <3>1, WorkIsAtomic
  <2>5. CASE Settle(s) \/ GuardManifest(s) \/ DropName(s)
    <3>1. pc[s] \in Working /\ owner' = owner
      BY <2>5 DEF Settle, GuardManifest, DropName, Throw
    <3> QED BY <3>1, WorkIsAtomic
  <2>6. CASE DropGuard(s)
    <3>1. pc[s] = "dropGuard" /\ pc[s] \in Working BY <2>6 DEF DropGuard
    <3>2. CASE owner' = owner BY <3>1, <3>2, WorkIsAtomic
    <3>3. CASE owner' # owner
      <4>1. /\ file[txn[s]] = "guard" /\ after[s] = "own" /\ owner' = s /\ owner = "nobody"
            /\ file' = [file EXCEPT ![txn[s]] = "absent"] /\ note' = [note EXCEPT ![txn[s]] = Blank]
            /\ reg' = reg
        BY <2>6, <3>1, <3>3, NobodyUses DEF DropGuard, Throw
      <4>2. reg = "home" /\ Pending = {}
        BY <3>1, <4>1 DEF Inv, Here, HereDropping, Pending
      <4>3. Pending' = {} BY <1>1, <4>1, <4>2 DEF TypeOK, Pending
      <4>4. There /\ There' BY <4>1, <4>2, <4>3 DEF There
      <4> QED BY <4>1, <4>4 DEF Atomic!Next, Atomic!Take
    <3> QED BY <3>2, <3>3
  <2>7. CASE Fails(s)
    <3>1. pc[s] \in Working /\ owner' = owner BY <2>7 DEF Fails, Throw, Inv, Held
    <3> QED BY <3>1, WorkIsAtomic
  <2>8. CASE Restore(s) \/ Complete(s) \/ Undo(s)
    <3>1. pc[s] \in Working /\ owner' = owner BY <2>8 DEF Restore, Complete, Undo
    <3> QED BY <3>1, WorkIsAtomic
  <2>9. CASE ReadPending(s)
    <3>1. Pending' = Pending /\ \A t \in Pending : note'[t].phase = note[t].phase
      BY <1>1, <2>9 DEF ReadPending, TypeOK, Pending
    <3>2. There' = There BY <2>9, <3>1, ThereSame DEF ReadPending
    <3> QED BY <2>9, <3>2 DEF ReadPending, Atomic!vars
  <2>10. CASE ReplayBegins(s)
    <3>1. Pending' = Pending /\ note' = note /\ reg' = reg /\ owner' = owner
      BY <1>1, <2>10 DEF ReplayBegins, Todo, Same, TypeOK, Pending
    <3> QED BY <3>1, ThereSame DEF Atomic!vars
  <2>11. CASE BeginPass(s) \/ ReclaimPending(s) \/ ReplayMoot(s) \/ ReplayIssue(s) \/ ReplayEnds(s)
              \/ Sweep(s) \/ EndPass(s)
    <3>1. UNCHANGED <<tree, manifest, owner>>
      BY <2>11 DEF BeginPass, ReclaimPending, ReplayMoot, ReplayIssue, ReplayEnds, Sweep, EndPass
    <3> QED BY <1>2, <3>1 DEF Atomic!vars
  <2> QED
    BY <1>6, <2>1, <2>2, <2>3, <2>4, <2>5, <2>6, <2>7, <2>8, <2>9, <2>10, <2>11 DEF Step, Drop, Pass
<1> QED BY <1>3, <1>4, <1>5, <1>6 DEF Next

\* The transaction implements the atomic worktree: it appears and vanishes in one step, whatever
\* exits in between, and never under a live run.
THEOREM IsAtomic == Spec => ImplementsAtomicWorktree
<1>1. Init => Atomic!Init BY DEF Init, Atomic!Init, There
<1> QED BY <1>1, Always, StepIsAtomic, PTL DEF Spec, ImplementsAtomicWorktree, Atomic!Spec
=============================================================================
