--------------------------- MODULE CheckoutLockProofs ---------------------------
(***************************************************************************)
(* Proofs about CheckoutLock: for any number of processes and files, a     *)
(* checkout lock reclaimed under the recovery lease has one holder at a    *)
(* time and implements AbstractLock.                                       *)
(*                                                                         *)
(* A checked unlink acts on a name after its check, so mutual exclusion    *)
(* rests on nobody being able to put another file under the name in        *)
(* between: OwnLockStays says it for the owner's own removal,              *)
(* ReclaimsTheDead for a reclaim.  ProtocolInv is these with what they     *)
(* need, for both kinds of lock: it is kept as long as no two reclaims are *)
(* at their removal together.  The lease sees to that (OnePass), which     *)
(* makes LeaseInv inductive; nothing does for recovery.lock itself.        *)
(***************************************************************************)
EXTENDS CheckoutLockPromise, TLAPS

\* The invariant of the file protocol itself: what LeaseInv says without the
\* lease.
ProtocolInv ==
  /\ TypeOK
  /\ HandlesTracked
  /\ OwnRecord
  /\ OwnLockStays
  /\ ReclaimsTheDead

\* At most one reclaim is between the check of removeLockIfUnchanged and its rm.
OneRemoval ==
  \A p, q \in Procs : pc[p] = "unlinkReclaim" /\ pc[q] = "unlinkReclaim" => p = q

\* Before any process has started there is no lock file and nothing is held.
LEMMA ProtocolInit == Init => ProtocolInv
BY ConstantsAssumption DEF Init, ProtocolInv, TypeOK, HandlesTracked, OwnRecord,
     OwnLockStays, ReclaimsTheDead, File, PCs, Calls, Owning, Reclaiming

\* A call that ends, or waits to try again, closes its handles; nothing else
\* changes but its own temporary, which may go.
LEMMA ProtocolReturn ==
  ASSUME ProtocolInv, NEW p \in Procs, pc[p] # "down",
         Return(p), UNCHANGED <<lockFile, record>>,
         temp' = temp \/ temp' = temp \ {mine[p]}
  PROVE  ProtocolInv'
<1> USE ConstantsAssumption DEF ProtocolInv, TypeOK, HandlesTracked,
     OwnRecord, OwnLockStays, ReclaimsTheDead, File, PCs, Calls, Owning,
     Reclaiming, Goto, Return
<1>1. TypeOK'
  OBVIOUS
<1>2. HandlesTracked'
  OBVIOUS
<1>3. OwnRecord'
  OBVIOUS
<1>4. OwnLockStays'
  OBVIOUS
<1>5. ReclaimsTheDead'
  OBVIOUS
<1>6. QED
  BY <1>1, <1>2, <1>3, <1>4, <1>5

\* So does a call that found the lock taken: it waits, or looks at the holder.
LEMMA ProtocolDetach ==
  ASSUME ProtocolInv, NEW p \in Procs, NEW there, Goto(p, there),
         \/ there = "wait" /\ call[p] = "live"
         \/ there = "openReclaim" /\ call[p] = "recover",
         mine' = [mine EXCEPT ![p] = NoFile],
         pc[p] \notin Reclaiming,
         UNCHANGED <<lockFile, record, seen, linked, call, pass>>,
         temp' = temp \/ temp' = temp \ {mine[p]}
  PROVE  ProtocolInv'
<1> USE ConstantsAssumption DEF ProtocolInv, TypeOK, HandlesTracked,
     OwnRecord, OwnLockStays, ReclaimsTheDead, File, PCs, Calls, Owning,
     Reclaiming, Goto
<1>1. TypeOK'
  OBVIOUS
<1>2. HandlesTracked'
  OBVIOUS
<1>3. OwnRecord'
  OBVIOUS
<1>4. OwnLockStays'
  OBVIOUS
<1>5. ReclaimsTheDead'
  OBVIOUS
<1>6. QED
  BY <1>1, <1>2, <1>3, <1>4, <1>5

\* Every step keeps the protocol's invariant, as long as no two removals
\* meet: one step of the proof per action.
LEMMA ProtocolNext ==
  ASSUME ProtocolInv, OneRemoval, [Next]_vars
  PROVE  ProtocolInv'
<1>1. ASSUME NEW p \in Procs, Contended(p) PROVE ProtocolInv'
  <2>1. CASE call[p] = "again"
    BY <1>1, <2>1, ProtocolReturn DEF Contended
  <2>2. CASE call[p] # "again"
    <3>1. call[p] \in {"live", "recover"}
      BY <1>1, <2>2 DEF Contended, ProtocolInv, TypeOK, HandlesTracked, Calls,
           Reclaiming
    <3>2. QED
      BY <1>1, <2>2, <3>1, ProtocolDetach DEF Contended, Reclaiming
  <2>3. QED
    BY <2>1, <2>2
<1>2. ASSUME NEW p \in Procs, LinkFails(p) PROVE ProtocolInv'
  <2>1. temp' = temp \/ temp' = temp \ {mine[p]}
    BY <1>2 DEF LinkFails
  <2>2. CASE Return(p)
    BY <1>2, <2>1, <2>2, ProtocolReturn DEF LinkFails
  <2>3. CASE ~Return(p)
    BY <1>2, <2>1, <2>3, ProtocolDetach DEF LinkFails, ThrowOrWait, Reclaiming
  <2>4. QED
    BY <2>2, <2>3
<1>3. ASSUME NEW p \in Procs, UndoTemp(p) PROVE ProtocolInv'
  <2>1. temp' = temp \/ temp' = temp \ {mine[p]}
    BY <1>3 DEF UndoTemp
  <2>2. CASE Return(p)
    BY <1>3, <2>1, <2>2, ProtocolReturn DEF UndoTemp
  <2>3. CASE ~Return(p)
    BY <1>3, <2>1, <2>3, ProtocolDetach DEF UndoTemp, ThrowOrWait, Reclaiming
  <2>4. QED
    BY <2>2, <2>3
<1>4. ASSUME NEW p \in Procs, DeadlinePassed(p) PROVE ProtocolInv'
  BY <1>4, ProtocolReturn DEF DeadlinePassed, files
<1>5. ASSUME NEW p \in Procs, ReleaseKeeps(p) PROVE ProtocolInv'
  BY <1>5, ProtocolReturn DEF ReleaseKeeps, files
<1>6. ASSUME NEW p \in Procs, OwnerNotDead(p) PROVE ProtocolInv'
  BY <1>6, ProtocolReturn DEF OwnerNotDead, AfterReclaim, files
<1>7. ASSUME NEW p \in Procs, ReclaimLost(p) PROVE ProtocolInv'
  BY <1>7, ProtocolReturn DEF ReclaimLost, AfterReclaim, files
<1>8. ASSUME NEW p \in Procs, OpenReclaim(p) PROVE ProtocolInv'
  <2>1. CASE ~OwnerNamed
    BY <1>8, <2>1, ProtocolReturn DEF OpenReclaim, AfterReclaim, files
  <2>2. CASE OwnerNamed
    <3> USE <1>8, <2>2, ConstantsAssumption DEF OpenReclaim, OwnerNamed, Links,
        ProtocolInv, TypeOK, HandlesTracked, OwnRecord, OwnLockStays,
             ReclaimsTheDead, File, PCs, Calls, Owning, Reclaiming, Goto,
             files, calls, AfterReclaim, Return
    <3>1. TypeOK'
      OBVIOUS
    <3>2. HandlesTracked'
      OBVIOUS
    <3>3. OwnRecord'
      OBVIOUS
    <3>4. OwnLockStays'
      OBVIOUS
    <3>5. ReclaimsTheDead'
      OBVIOUS
    <3>6. QED
      BY <3>1, <3>2, <3>3, <3>4, <3>5
  <2>3. QED
    BY <2>1, <2>2
<1>9. ASSUME NEW p \in Procs, ReclaimUnlink(p) PROVE ProtocolInv'
  <2>1. PICK reclaimed \in BOOLEAN : AfterReclaim(p, reclaimed)
    BY <1>9 DEF ReclaimUnlink
  <2> USE <1>9, ConstantsAssumption DEF ReclaimUnlink, ProtocolInv, TypeOK,
       HandlesTracked, OwnRecord, OwnLockStays, ReclaimsTheDead, File,
       PCs, Calls, Owning, Reclaiming, Goto
  <2>2. \A q \in Procs : pc[q] \notin Owning
    OBVIOUS
  <2>3. \A q \in Procs \ {p} : pc[q] # "unlinkReclaim"
    BY DEF OneRemoval
  <2>4. CASE ~Return(p)
    <3> USE <2>1, <2>2, <2>3, <2>4 DEF AfterReclaim
    <3>1. TypeOK'
      OBVIOUS
    <3>2. HandlesTracked'
      OBVIOUS
    <3>3. OwnRecord'
      OBVIOUS
    <3>4. OwnLockStays'
      OBVIOUS
    <3>5. ReclaimsTheDead'
      OBVIOUS
    <3>6. QED
      BY <3>1, <3>2, <3>3, <3>4, <3>5
  <2>5. CASE Return(p)
    <3> USE <2>2, <2>3, <2>5 DEF Return
    <3>1. TypeOK'
      OBVIOUS
    <3>2. HandlesTracked'
      OBVIOUS
    <3>3. OwnRecord'
      OBVIOUS
    <3>4. OwnLockStays'
      OBVIOUS
    <3>5. ReclaimsTheDead'
      OBVIOUS
    <3>6. QED
      BY <3>1, <3>2, <3>3, <3>4, <3>5
  <2>6. QED
    BY <2>4, <2>5
<1> USE ConstantsAssumption DEF ProtocolInv, TypeOK, HandlesTracked,
     OwnRecord, OwnLockStays, ReclaimsTheDead, File, PCs, Calls, Owning,
     Reclaiming, Goto, files, handles, calls
<1>10. ASSUME NEW p \in Procs, BeginAcquire(p) PROVE ProtocolInv'
  BY <1>10 DEF BeginAcquire
<1>11. ASSUME NEW p \in Procs, BeginRecover(p) PROVE ProtocolInv'
  BY <1>11 DEF BeginRecover
<1>12. ASSUME NEW p \in Procs, NEW i \in Inodes, CreateTemp(p, i) PROVE ProtocolInv'
  BY <1>12 DEF CreateTemp, Fresh
<1>13. ASSUME NEW p \in Procs, PublishLock(p) PROVE ProtocolInv'
  BY <1>13 DEF PublishLock
<1>14. ASSUME NEW p \in Procs, Retry(p) PROVE ProtocolInv'
  BY <1>14 DEF Retry
<1>15. ASSUME NEW p \in Procs, VerifyBoth(p) PROVE ProtocolInv'
  BY <1>15 DEF VerifyBoth
<1>16. ASSUME NEW p \in Procs, DropTemp(p) PROVE ProtocolInv'
  BY <1>16 DEF DropTemp, Links
<1>17. ASSUME NEW p \in Procs, Acquired(p) PROVE ProtocolInv'
  BY <1>17 DEF Acquired, Links
<1>18. ASSUME NEW p \in Procs, AcquireFails(p) PROVE ProtocolInv'
  BY <1>18 DEF AcquireFails, Links
<1>19. ASSUME NEW p \in Procs, UndoCheck(p) PROVE ProtocolInv'
  BY <1>19 DEF UndoCheck
<1>20. ASSUME NEW p \in Procs, UndoSkipsLock(p) PROVE ProtocolInv'
  BY <1>20 DEF UndoSkipsLock
<1>21. ASSUME NEW p \in Procs, UndoUnlink(p) PROVE ProtocolInv'
  BY <1>21 DEF UndoUnlink
<1>22. ASSUME NEW p \in Procs, BeginRelease(p) PROVE ProtocolInv'
  BY <1>22 DEF BeginRelease
<1>23. ASSUME NEW p \in Procs, ReleaseCheck(p) PROVE ProtocolInv'
  BY <1>23 DEF ReleaseCheck, Links
<1>24. ASSUME NEW p \in Procs, ReleaseUnlink(p) PROVE ProtocolInv'
  BY <1>24 DEF ReleaseUnlink, Return
<1>25. ASSUME NEW p \in Procs, BeginSweep(p) PROVE ProtocolInv'
  BY <1>25 DEF BeginSweep
<1>26. ASSUME NEW p \in Procs, OwnerDead(p) PROVE ProtocolInv'
  BY <1>26 DEF OwnerDead
<1>27. ASSUME NEW p \in Procs, DropSibling(p) PROVE ProtocolInv'
  BY <1>27 DEF DropSibling, Links
<1>28. ASSUME NEW p \in Procs, ReclaimCheck(p) PROVE ProtocolInv'
  BY <1>28 DEF ReclaimCheck, Links
<1>29. ASSUME NEW p \in Procs, EndPass(p) PROVE ProtocolInv'
  BY <1>29 DEF EndPass
<1>30. ASSUME NEW p \in Procs, Exit(p) PROVE ProtocolInv'
  BY <1>30 DEF Exit
<1>31. ASSUME NEW p \in Procs, Start(p) PROVE ProtocolInv'
  BY <1>31 DEF Start
<1>32. CASE UNCHANGED vars
  BY <1>32 DEF vars
<1>33. QED
  BY <1>1, <1>2, <1>3, <1>4, <1>5, <1>6, <1>7, <1>8, <1>9, <1>10, <1>11, <1>12,
       <1>13, <1>14, <1>15, <1>16, <1>17, <1>18, <1>19, <1>20, <1>21, <1>22,
       <1>23, <1>24, <1>25, <1>26, <1>27, <1>28, <1>29, <1>30, <1>31, <1>32
     DEF Next, Acquiring, Releasing, ReclaimSteps

-----------------------------------------------------------------------------
\* Under the lease one recovery pass runs at a time, and all reclaims are its.
LEMMA OnePassNext ==
  ASSUME UnderLease, ProtocolInv, OnePass, [Next]_vars
  PROVE  OnePass'
<1> USE DEF ProtocolInv, TypeOK, OnePass, Goto, Reclaiming
<1>1. ASSUME NEW p \in Procs, BeginAcquire(p) \/ BeginRecover(p) \/ BeginSweep(p)
      PROVE  OnePass'
  BY <1>1 DEF BeginAcquire, BeginRecover, BeginSweep
<1>2. ASSUME NEW p \in Procs, Start(p) \/ EndPass(p) \/ Exit(p)
      PROVE  OnePass'
  BY <1>2 DEF Start, EndPass, Exit, HandlesTracked, files, handles
<1>3. ASSUME NEW p \in Procs, Return(p)
      PROVE  OnePass'
  BY <1>3 DEF Return
<1>4. ASSUME NEW p \in Procs, NEW there, Goto(p, there), UNCHANGED <<call, pass>>,
             there \in Reclaiming => pc[p] \in Reclaiming \/ call[p] # "live",
             call[p] # "none"
      PROVE  OnePass'
  BY <1>4 DEF Calls
<1>5. ASSUME NEW p \in Procs, Acquiring(p), ~Return(p) PROVE OnePass'
  BY <1>5, <1>4 DEF Acquiring, CreateTemp, PublishLock, Contended, LinkFails, Retry,
       DeadlinePassed, VerifyBoth, DropTemp, Acquired, AcquireFails, UndoCheck, UndoSkipsLock,
       UndoUnlink, UndoTemp, ThrowOrWait, handles, calls, HandlesTracked
<1>6. ASSUME NEW p \in Procs, Releasing(p), ~Return(p) PROVE OnePass'
  BY <1>6, <1>4 DEF Releasing, BeginRelease, ReleaseCheck, ReleaseKeeps, ReleaseUnlink,
       calls, HandlesTracked
<1>7. ASSUME NEW p \in Procs, ReclaimSteps(p), ~Return(p) PROVE OnePass'
  BY <1>7, <1>4 DEF ReclaimSteps, OpenReclaim, OwnerDead, OwnerNotDead, DropSibling,
       ReclaimLost, ReclaimCheck, ReclaimUnlink, AfterReclaim, calls, HandlesTracked
<1>8. CASE UNCHANGED vars
  BY <1>8 DEF vars
<1>9. QED
  BY <1>1, <1>2, <1>3, <1>5, <1>6, <1>7, <1>8 DEF Next

\* The inductive invariant holds in every reachable state.
LEMMA LeaseInvariant == ASSUME UnderLease PROVE Spec => []LeaseInv
<1>1. LeaseInv <=> ProtocolInv /\ OnePass
  BY DEF LeaseInv, ProtocolInv
<1>2. ProtocolInv /\ OnePass => OneRemoval
  BY DEF OnePass, OneRemoval, Reclaiming
<1>3. Init => OnePass
  BY DEF Init, OnePass, Reclaiming
<1>4. ProtocolInv /\ OnePass /\ [Next]_vars => ProtocolInv' /\ OnePass'
  BY <1>2, ProtocolNext, OnePassNext
<1>5. QED
  BY <1>1, <1>3, <1>4, ProtocolInit, PTL DEF Spec

\* The same of the protocol alone, in every behaviour in which no two removals
\* meet.
LEMMA ProtocolInvariant == Spec /\ []OneRemoval => []ProtocolInv
<1>1. ProtocolInv /\ OneRemoval /\ [Next]_vars => ProtocolInv'
  BY ProtocolNext
<1>2. QED
  BY <1>1, ProtocolInit, PTL DEF Spec

\* The invariant is all that the two safety properties need.
LEMMA ProtocolExcludes == ProtocolInv => MutualExclusion /\ HeldIsPublished
<1> SUFFICES ASSUME ProtocolInv PROVE MutualExclusion /\ HeldIsPublished
  OBVIOUS
<1>1. \A p \in Holders : lockFile = mine[p] /\ mine[p] \notin temp /\ mine[p] # NoFile
  BY DEF ProtocolInv, OwnLockStays, HandlesTracked, Holders, Owning
<1>2. HeldIsPublished
  BY <1>1 DEF HeldIsPublished, Links
<1>3. MutualExclusion
  BY <1>1 DEF MutualExclusion, ProtocolInv, OwnRecord, Holders
<1>4. QED
  BY <1>2, <1>3

\* Under the lease no two removals ever meet.
LEMMA LeaseIsProtocol == LeaseInv => ProtocolInv /\ OneRemoval
BY DEF LeaseInv, ProtocolInv, OnePass, OneRemoval, Reclaiming

\* Every variable keeps its type, for either kind of lock.  In particular no
\* file ever has more than the two names acquireLock gives it, the assumption
\* behind validateOpenFile's expected link counts.
THEOREM TypeCorrect == Spec => []TypeOK
<1> USE DEF TypeOK, File, PCs, Calls, Owning, Reclaiming, Goto, Return, files, handles, calls
<1>1. Init => TypeOK
  BY DEF Init
<1>2. ASSUME TypeOK, NEW p \in Procs, Acquiring(p) PROVE TypeOK'
  <2>1. ASSUME NEW i \in Inodes, CreateTemp(p, i) PROVE TypeOK'
    BY <1>2, <2>1 DEF CreateTemp
  <2>2. CASE PublishLock(p) \/ Contended(p) \/ LinkFails(p) \/ Retry(p) \/ DeadlinePassed(p)
    BY <1>2, <2>2 DEF PublishLock, Contended, LinkFails, ThrowOrWait, Retry, DeadlinePassed
  <2>3. CASE VerifyBoth(p) \/ DropTemp(p) \/ Acquired(p) \/ AcquireFails(p)
    BY <1>2, <2>3 DEF VerifyBoth, DropTemp, Acquired, AcquireFails
  <2>4. CASE UndoCheck(p) \/ UndoSkipsLock(p) \/ UndoUnlink(p) \/ UndoTemp(p)
    BY <1>2, <2>4 DEF UndoCheck, UndoSkipsLock, UndoUnlink, UndoTemp, ThrowOrWait
  <2>5. QED
    BY <1>2, <2>1, <2>2, <2>3, <2>4 DEF Acquiring
<1>3. ASSUME TypeOK, NEW p \in Procs, Releasing(p) PROVE TypeOK'
  BY <1>3 DEF Releasing, BeginRelease, ReleaseCheck, ReleaseKeeps, ReleaseUnlink
<1>4. ASSUME TypeOK, NEW p \in Procs, ReclaimSteps(p) PROVE TypeOK'
  <2>1. CASE OpenReclaim(p) \/ OwnerDead(p) \/ OwnerNotDead(p) \/ DropSibling(p)
    BY <1>4, <2>1 DEF OpenReclaim, OwnerNamed, OwnerDead, OwnerNotDead, DropSibling, AfterReclaim,
         Links
  <2>2. CASE ReclaimLost(p) \/ ReclaimCheck(p) \/ ReclaimUnlink(p)
    BY <1>4, <2>2 DEF ReclaimLost, ReclaimCheck, ReclaimUnlink, AfterReclaim
  <2>3. QED
    BY <1>4, <2>1, <2>2 DEF ReclaimSteps
<1>5. ASSUME TypeOK, NEW p \in Procs,
             \/ BeginAcquire(p) \/ BeginRecover(p) \/ BeginSweep(p)
             \/ EndPass(p) \/ Exit(p) \/ Start(p)
      PROVE  TypeOK'
  BY <1>5 DEF BeginAcquire, BeginRecover, BeginSweep, EndPass, Exit, Start
<1>6. TypeOK /\ [Next]_vars => TypeOK'
  BY <1>2, <1>3, <1>4, <1>5 DEF Next, vars
<1>7. QED
  BY <1>1, <1>6, PTL DEF Spec

\* While an operation runs under its lease, the lock file is its own record and
\* has one link: no checked removal of another process has hit it.
THEOREM HeldStaysPublished == ASSUME UnderLease PROVE Spec => []HeldIsPublished
BY LeaseInvariant, LeaseIsProtocol, ProtocolExcludes, PTL

\* No two processes hold the checkout lock at once, whatever crashes, failed
\* calls, retries and reclaims came before.
THEOREM LockExcludes == ASSUME UnderLease PROVE Spec => []MutualExclusion
BY LeaseInvariant, LeaseIsProtocol, ProtocolExcludes, PTL

\* recovery.lock, which every starting server may reclaim, excludes too, except
\* when two reclaims are both between the check of removeLockIfUnchanged and its
\* rm: every double hold starts with such a meeting, and with nothing else.
THEOREM ExcludesUnlessRemovalsMeet ==
  Spec /\ []OneRemoval => []MutualExclusion /\ []HeldIsPublished
BY ProtocolInvariant, ProtocolExcludes, PTL

-----------------------------------------------------------------------------
\* When no call fails, nothing published is undone and its two names are there
\* until the acquisition drops one ...
Undisturbed ==
  /\ \A p \in Procs : pc[p] \notin {"undo", "unlinkUndo", "dropTempUndo"}
  /\ \A p \in Procs : pc[p] \in {"link", "verifyBoth"} => mine[p] \in temp

\* ... since the names a reclaim removes are those of a process that exited.
LEMMA UndisturbedNext ==
  ASSUME "io" \notin Faults, ProtocolInv, Undisturbed, [Next]_vars
  PROVE  Undisturbed'
<1> USE DEF ProtocolInv, TypeOK, Undisturbed, Goto, files, handles, calls
<1>1. ASSUME NEW p \in Procs, Acquiring(p) PROVE Undisturbed'
  <2>1. ASSUME NEW i \in Inodes, CreateTemp(p, i) PROVE Undisturbed'
    BY <2>1 DEF CreateTemp
  <2>2. ~AcquireFails(p)
    BY DEF AcquireFails, OwnLockStays, Owning, Links
  <2>3. CASE Contended(p) \/ DropTemp(p)
    BY <2>3 DEF Contended, DropTemp, Return, OwnRecord, HandlesTracked, Owning
  <2>4. CASE PublishLock(p) \/ Retry(p) \/ DeadlinePassed(p) \/ VerifyBoth(p) \/ Acquired(p)
    BY <2>4 DEF PublishLock, Retry, DeadlinePassed, Return, VerifyBoth, Acquired
  <2>5. QED
    BY <1>1, <2>1, <2>2, <2>3, <2>4
       DEF Acquiring, LinkFails, UndoCheck, UndoSkipsLock, UndoUnlink, UndoTemp
<1>2. ASSUME NEW p \in Procs, ReclaimSteps(p) PROVE Undisturbed'
  <2>1. CASE DropSibling(p)
    <3>1. \A q \in Procs : mine[q] # NoFile => mine[q] # seen[p]
      BY <2>1, ConstantsAssumption DEF DropSibling, ReclaimsTheDead, OwnRecord
    <3>2. QED
      BY <2>1, <3>1 DEF DropSibling, HandlesTracked, Owning
  <2>2. CASE OpenReclaim(p) \/ OwnerDead(p) \/ OwnerNotDead(p)
    BY <2>2 DEF OpenReclaim, OwnerDead, OwnerNotDead, AfterReclaim, Return
  <2>3. CASE ReclaimLost(p) \/ ReclaimCheck(p) \/ ReclaimUnlink(p)
    BY <2>3 DEF ReclaimLost, ReclaimCheck, ReclaimUnlink, AfterReclaim, Return
  <2>4. QED
    BY <1>2, <2>1, <2>2, <2>3 DEF ReclaimSteps
<1>3. ASSUME NEW p \in Procs, Releasing(p) PROVE Undisturbed'
  BY <1>3 DEF Releasing, BeginRelease, ReleaseCheck, ReleaseKeeps, ReleaseUnlink, Return
<1>4. ASSUME NEW p \in Procs,
             \/ BeginAcquire(p) \/ BeginRecover(p) \/ BeginSweep(p)
             \/ EndPass(p) \/ Exit(p) \/ Start(p)
      PROVE  Undisturbed'
  BY <1>4 DEF BeginAcquire, BeginRecover, BeginSweep, EndPass, Exit, Start
<1>5. CASE UNCHANGED vars
  BY <1>5 DEF vars
<1>6. QED
  BY <1>1, <1>2, <1>3, <1>4, <1>5 DEF Next

\* A process lets go of its file only when the lock is not that file, or with
\* the lock.
LEMMA NoLockLeftNext ==
  ASSUME "io" \notin Faults, ProtocolInv, ProtocolInv', Undisturbed, NoLockLeft, [Next]_vars
  PROVE  NoLockLeft'
<1> USE ConstantsAssumption DEF ProtocolInv, TypeOK, NoLockLeft, Goto, files, handles, calls, File
<1>1. ASSUME NEW p \in Procs, Acquiring(p) PROVE NoLockLeft'
  <2>1. ASSUME NEW i \in Inodes, CreateTemp(p, i) PROVE NoLockLeft'
    BY <2>1 DEF CreateTemp, Fresh, HandlesTracked, Owning
  <2>2. ~AcquireFails(p)
    BY DEF AcquireFails, OwnLockStays, Owning, Links, Undisturbed
  <2>3. CASE PublishLock(p)
    BY <2>3 DEF PublishLock, OwnRecord
  <2>4. CASE Contended(p)
    BY <2>4 DEF Contended, Return, OwnLockStays
  <2>5. CASE DeadlinePassed(p)
    BY <2>5 DEF DeadlinePassed, Return, HandlesTracked, Owning
  <2>6. CASE Retry(p) \/ VerifyBoth(p) \/ DropTemp(p) \/ Acquired(p)
    BY <2>6 DEF Retry, VerifyBoth, DropTemp, Acquired
  <2>7. QED
    BY <1>1, <2>1, <2>2, <2>3, <2>4, <2>5, <2>6
       DEF Acquiring, LinkFails, UndoCheck, UndoSkipsLock, UndoUnlink, UndoTemp, Undisturbed
<1>2. ASSUME NEW p \in Procs, Releasing(p) PROVE NoLockLeft'
  <2>1. CASE ReleaseKeeps(p)
    BY <2>1 DEF ReleaseKeeps, OwnLockStays, Owning, Links
  <2>2. CASE ReleaseUnlink(p)
    BY <2>2 DEF ReleaseUnlink
  <2>3. QED
    BY <1>2, <2>1, <2>2 DEF Releasing, BeginRelease, ReleaseCheck
<1>3. ASSUME NEW p \in Procs, ReclaimSteps(p) PROVE NoLockLeft'
  <2>1. mine[p] = NoFile
    BY <1>3 DEF ReclaimSteps, OpenReclaim, OwnerDead, OwnerNotDead, DropSibling, ReclaimLost,
         ReclaimCheck, ReclaimUnlink, HandlesTracked, Owning
  <2>2. mine' = mine /\ record' = record /\ lockFile' \in {lockFile, NoFile}
    BY <1>3, <2>1 DEF ReclaimSteps, OpenReclaim, OwnerDead, OwnerNotDead, DropSibling,
         ReclaimLost, ReclaimCheck, ReclaimUnlink, AfterReclaim, Return
  <2>3. QED
    BY <2>2
<1>4. CASE \E p \in Procs : Exit(p)
  BY <1>4 DEF Exit
<1>5. CASE \E p \in Procs :
             BeginAcquire(p) \/ BeginRecover(p) \/ BeginSweep(p) \/ EndPass(p) \/ Start(p)
  BY <1>5 DEF BeginAcquire, BeginRecover, BeginSweep, EndPass, Start
<1>6. CASE UNCHANGED vars
  BY <1>6 DEF vars
<1>7. QED
  BY <1>1, <1>2, <1>3, <1>4, <1>5, <1>6 DEF Next

\* When no call fails, a lock file that names a running process is one that
\* process still releases: no retry, reclaim or crash of another leaves it
\* locked out (acquireLock, releaseLock, tryAcquireLockReclaimingDead).
THEOREM NothingLeftLocked == ASSUME UnderLease, "io" \notin Faults PROVE Spec => []NoLockLeft
<1>1. Init => Undisturbed /\ NoLockLeft
  BY DEF Init, Undisturbed, NoLockLeft
<1>2. ProtocolInv /\ ProtocolInv' /\ Undisturbed /\ NoLockLeft /\ [Next]_vars
        => (Undisturbed /\ NoLockLeft)'
  BY UndisturbedNext, NoLockLeftNext
<1>3. QED
  BY <1>1, <1>2, LeaseInvariant, LeaseIsProtocol, PTL DEF Spec

-----------------------------------------------------------------------------
\* Who claims the lock: the process whose file the lock name is, and otherwise
\* what the record says.  ProtocolInv makes that process unique.
LEMMA ClaimedValue ==
  ASSUME ProtocolInv
  PROVE  /\ lockFile = NoFile => Claimed = NoFile
         /\ \A p \in Procs : lockFile # NoFile /\ mine[p] = lockFile => Claimed = p
         /\ lockFile # NoFile /\ (\A p \in Procs : mine[p] # lockFile)
              => Claimed = IF record[lockFile] = Exited THEN Exited ELSE Stuck
<1>1. ASSUME NEW p \in Procs, lockFile # NoFile, mine[p] = lockFile
      PROVE  Claimed = p
  <2>1. \A q \in Procs : mine[q] = lockFile => q = p
    BY <1>1 DEF ProtocolInv, OwnRecord
  <2>2. (CHOOSE q \in Procs : mine[q] = lockFile) = p
    BY <1>1, <2>1
  <2>3. QED
    BY <1>1, <2>2 DEF Claimed
<1>2. QED
  BY <1>1 DEF Claimed

\* The same in the next state.
LEMMA ClaimedValuePrime ==
  ASSUME ProtocolInv'
  PROVE  /\ lockFile' = NoFile => Claimed' = NoFile
         /\ \A p \in Procs : lockFile' # NoFile /\ mine'[p] = lockFile' => Claimed' = p
         /\ lockFile' # NoFile /\ (\A p \in Procs : mine'[p] # lockFile')
              => Claimed' = IF record'[lockFile'] = Exited THEN Exited ELSE Stuck
<1>1. ASSUME NEW p \in Procs, lockFile' # NoFile, mine'[p] = lockFile'
      PROVE  Claimed' = p
  <2>1. \A q \in Procs : mine'[q] = lockFile' => q = p
    BY <1>1 DEF ProtocolInv, OwnRecord
  <2>2. (CHOOSE q \in Procs : mine'[q] = lockFile') = p
    BY <1>1, <2>1
  <2>3. QED
    BY <1>1, <2>2 DEF Claimed
<1>2. QED
  BY <1>1 DEF Claimed

\* Steps that leave the lock name, its record and its owner alone are
\* invisible to the abstract lock.
LEMMA Invisible ==
  ASSUME ProtocolInv, ProtocolInv', lockFile' = lockFile,
         lockFile # NoFile => record'[lockFile] = record[lockFile],
         \A q \in Procs : mine'[q] = lockFile <=> mine[q] = lockFile
  PROVE  Claimed' = Claimed
<1>1. CASE lockFile = NoFile
  BY <1>1, ClaimedValue, ClaimedValuePrime
<1>2. CASE lockFile # NoFile /\ \E q \in Procs : mine[q] = lockFile
  BY <1>2, ClaimedValue, ClaimedValuePrime
<1>3. CASE lockFile # NoFile /\ \A q \in Procs : mine[q] # lockFile
  BY <1>3, ClaimedValue, ClaimedValuePrime
<1>4. QED
  BY <1>1, <1>2, <1>3

\* Every step of the file protocol is a step of the abstract lock, or leaves it
\* as it is.
LEMMA StepKeepsPromise ==
  ASSUME ProtocolInv, ProtocolInv', [Next]_vars
  PROVE  [Promise!ANext]_(Promise!avars)
<1> USE StuckAssumption, FreeAssumption, ConstantsAssumption
<1>1. ASSUME NEW p \in Procs, PublishLock(p) PROVE Promise!Claim(p)
  <2>1. Claimed = NoFile
    BY <1>1, ClaimedValue DEF PublishLock
  <2>2. mine[p] # NoFile
    BY <1>1 DEF PublishLock, ProtocolInv, HandlesTracked
  <2>3. Claimed' = p
    BY <1>1, <2>2, ClaimedValuePrime DEF PublishLock, handles
  <2>4. Holders' = Holders
    BY <1>1 DEF PublishLock, Goto, Holders, ProtocolInv, TypeOK
  <2>5. QED
    BY <2>1, <2>3, <2>4 DEF Promise!Claim
<1>2. ASSUME NEW p \in Procs, Acquired(p) PROVE Promise!Work(p)
  <2>1. mine[p] # NoFile
    BY <1>2 DEF Acquired, ProtocolInv, HandlesTracked, Owning
  <2>2. Claimed = p
    BY <1>2, <2>1, ClaimedValue DEF Acquired
  <2>3. Claimed' = Claimed
    BY <1>2, Invisible DEF Acquired, files, handles
  <2>4. Holders' = Holders \cup {p}
    BY <1>2 DEF Acquired, Goto, Holders, ProtocolInv, TypeOK
  <2>5. QED
    BY <2>2, <2>3, <2>4 DEF Promise!Work
<1>3. ASSUME NEW p \in Procs, BeginRelease(p) PROVE Promise!Rest(p)
  <2>1. Claimed' = Claimed
    BY <1>3, Invisible DEF BeginRelease, files, handles
  <2>2. p \in Holders /\ Holders' = Holders \ {p}
    BY <1>3 DEF BeginRelease, Goto, Holders, ProtocolInv, TypeOK
  <2>3. QED
    BY <2>1, <2>2 DEF Promise!Rest
<1>4. ASSUME NEW p \in Procs, UndoUnlink(p) \/ ReleaseUnlink(p) PROVE Promise!Drop(p)
  <2>1. lockFile = mine[p] /\ mine[p] # NoFile
    BY <1>4 DEF UndoUnlink, ReleaseUnlink, ProtocolInv, HandlesTracked,
         OwnLockStays, Owning
  <2>2. Claimed = p
    BY <2>1, ClaimedValue
  <2>3. Claimed' = NoFile
    BY <1>4, ClaimedValuePrime DEF UndoUnlink, ReleaseUnlink
  <2>4. p \notin Holders /\ Holders' = Holders
    BY <1>4 DEF UndoUnlink, ReleaseUnlink, Return, Goto, Holders, ProtocolInv,
         TypeOK
  <2>5. QED
    BY <2>2, <2>3, <2>4 DEF Promise!Drop
<1>5. ASSUME NEW p \in Procs, ReclaimUnlink(p) PROVE Promise!Reclaim
  <2>1. lockFile = seen[p] /\ seen[p] # NoFile /\ record[seen[p]] = Exited
    BY <1>5 DEF ReclaimUnlink, ProtocolInv, ReclaimsTheDead, HandlesTracked,
         Reclaiming
  <2>2. \A q \in Procs : mine[q] # lockFile
    BY <2>1 DEF ProtocolInv, OwnRecord
  <2>3. Claimed = Exited
    BY <2>1, <2>2, ClaimedValue
  <2>4. Claimed' = NoFile
    BY <1>5, ClaimedValuePrime DEF ReclaimUnlink
  <2>5. Holders' = Holders
    BY <1>5 DEF ReclaimUnlink, AfterReclaim, Return, Goto, Holders, ProtocolInv,
         TypeOK
  <2>6. QED
    BY <2>3, <2>4, <2>5 DEF Promise!Reclaim
<1>6. ASSUME NEW p \in Procs, ReleaseKeeps(p) PROVE Promise!Lose(p)
  <2>1. lockFile = mine[p] /\ mine[p] # NoFile
    BY <1>6 DEF ReleaseKeeps, ProtocolInv, HandlesTracked, OwnLockStays, Owning
  <2>2. Claimed = p
    BY <2>1, ClaimedValue
  <2>3. record[lockFile] # Exited
    BY <2>1 DEF ProtocolInv, OwnRecord
  <2>4. \A q \in Procs : mine'[q] # lockFile'
    BY <1>6, <2>1 DEF ReleaseKeeps, Return, files, ProtocolInv, OwnRecord, TypeOK
  <2>5. Claimed' = Stuck
    BY <1>6, <2>1, <2>3, <2>4, ClaimedValuePrime DEF ReleaseKeeps, files
  <2>6. p \notin Holders /\ Holders' = Holders
    BY <1>6 DEF ReleaseKeeps, Return, Goto, Holders, ProtocolInv, TypeOK
  <2>7. QED
    BY <2>2, <2>5, <2>6 DEF Promise!Lose
<1>7. ASSUME NEW p \in Procs, UndoTemp(p)
      PROVE  Promise!Lose(p) \/ UNCHANGED Promise!avars
  <2>1. p \notin Holders /\ Holders' = Holders
    BY <1>7 DEF UndoTemp, ThrowOrWait, Return, Goto, Holders, ProtocolInv, TypeOK
  <2>2. mine[p] # NoFile /\ mine' = [mine EXCEPT ![p] = NoFile]
    BY <1>7 DEF UndoTemp, ThrowOrWait, Return, ProtocolInv, HandlesTracked
  <2>3. CASE lockFile = mine[p]
    <3>1. Claimed = p
      BY <2>2, <2>3, ClaimedValue
    <3>2. record[lockFile] # Exited
      BY <2>2, <2>3 DEF ProtocolInv, OwnRecord
    <3>3. \A q \in Procs : mine'[q] # lockFile'
      BY <1>7, <2>2, <2>3 DEF UndoTemp, ProtocolInv, OwnRecord, TypeOK
    <3>4. Claimed' = Stuck
      BY <1>7, <2>2, <2>3, <3>2, <3>3, ClaimedValuePrime DEF UndoTemp
    <3>5. QED
      BY <2>1, <3>1, <3>4 DEF Promise!Lose
  <2>4. CASE lockFile # mine[p] /\ lockFile # NoFile
    <3>1. \A q \in Procs : mine'[q] = lockFile <=> mine[q] = lockFile
      BY <2>2, <2>4 DEF ProtocolInv, TypeOK
    <3>2. Claimed' = Claimed
      BY <1>7, <3>1, Invisible DEF UndoTemp
    <3>3. QED
      BY <2>1, <3>2 DEF Promise!avars
  <2>5. CASE lockFile = NoFile
    <3>1. Claimed' = Claimed
      BY <1>7, <2>5, ClaimedValue, ClaimedValuePrime DEF UndoTemp
    <3>2. QED
      BY <2>1, <3>1 DEF Promise!avars
  <2>6. QED
    BY <2>3, <2>4, <2>5
<1>8. ASSUME NEW p \in Procs, Exit(p) PROVE Promise!Leave(p)
  <2>1. Holders' = Holders \ {p}
    BY <1>8 DEF Exit, Holders, ProtocolInv, TypeOK
  <2>2. lockFile' = lockFile /\ mine' = [mine EXCEPT ![p] = NoFile]
    BY <1>8 DEF Exit
  <2>3. lockFile # NoFile =>
          record'[lockFile] = IF record[lockFile] = p THEN Exited ELSE record[lockFile]
    BY <1>8 DEF Exit, ProtocolInv, TypeOK, File
  <2>4. CASE lockFile = NoFile
    BY <2>1, <2>2, <2>4, ClaimedValue, ClaimedValuePrime DEF Promise!Leave
  <2>5. CASE lockFile # NoFile /\ mine[p] = lockFile
    <3>1. Claimed = p
      BY <2>5, ClaimedValue
    <3>2. \A q \in Procs : mine'[q] # lockFile'
      BY <2>2, <2>5 DEF ProtocolInv, OwnRecord, TypeOK
    <3>3. Claimed' \in {Exited, Stuck}
      BY <2>2, <2>5, <3>2, ClaimedValuePrime
    <3>4. QED
      BY <2>1, <3>1, <3>3 DEF Promise!Leave
  <2>6. CASE lockFile # NoFile /\ mine[p] # lockFile /\ \E q \in Procs : mine[q] = lockFile
    <3>1. PICK q \in Procs : mine[q] = lockFile
      BY <2>6
    <3>2. q # p /\ mine'[q] = lockFile'
      BY <2>2, <2>6, <3>1 DEF ProtocolInv, TypeOK
    <3>3. Claimed = q /\ Claimed' = q
      BY <2>2, <2>6, <3>1, <3>2, ClaimedValue, ClaimedValuePrime
    <3>4. QED
      BY <2>1, <3>2, <3>3 DEF Promise!Leave
  <2>7. CASE lockFile # NoFile /\ \A q \in Procs : mine[q] # lockFile
    <3>1. \A q \in Procs : mine'[q] # lockFile'
      BY <2>2, <2>7 DEF ProtocolInv, TypeOK
    <3>2. CASE record[lockFile] = Exited
      <4>1. Claimed = Exited /\ Claimed' = Exited
        BY <2>2, <2>3, <2>7, <3>1, <3>2, ClaimedValue, ClaimedValuePrime
      <4>2. QED
        BY <2>1, <4>1 DEF Promise!Leave
    <3>3. CASE record[lockFile] # Exited
      <4>1. Claimed = Stuck
        BY <2>7, <3>3, ClaimedValue
      <4>2. Claimed' \in {Exited, Stuck}
        BY <2>2, <2>7, <3>1, ClaimedValuePrime
      <4>3. QED
        BY <2>1, <4>1, <4>2 DEF Promise!Leave
    <3>4. QED
      BY <3>2, <3>3
  <2>8. QED
    BY <2>4, <2>5, <2>6, <2>7
<1>9. ASSUME NEW p \in Procs, NEW i \in Inodes, CreateTemp(p, i)
      PROVE  UNCHANGED Promise!avars
  <2>1. lockFile' = lockFile /\ lockFile # i
    BY <1>9 DEF CreateTemp, Fresh
  <2>2. lockFile # NoFile => record'[lockFile] = record[lockFile]
    BY <1>9, <2>1 DEF CreateTemp, ProtocolInv, TypeOK, File
  <2>3. mine[p] = NoFile
    BY <1>9 DEF CreateTemp, ProtocolInv, HandlesTracked, Owning
  <2>4. CASE lockFile = NoFile
    <3>1. Claimed' = Claimed
      BY <2>1, <2>4, ClaimedValue, ClaimedValuePrime
    <3>2. QED
      BY <1>9, <3>1 DEF CreateTemp, Goto, Holders, ProtocolInv, TypeOK,
           Promise!avars
  <2>5. CASE lockFile # NoFile
    <3>1. \A q \in Procs : mine'[q] = lockFile <=> mine[q] = lockFile
      BY <1>9, <2>1, <2>3, <2>5 DEF CreateTemp, ProtocolInv, TypeOK
    <3>2. Claimed' = Claimed
      BY <2>1, <2>2, <3>1, Invisible
    <3>3. QED
      BY <1>9, <3>2 DEF CreateTemp, Goto, Holders, ProtocolInv, TypeOK,
           Promise!avars
  <2>6. QED
    BY <2>4, <2>5
<1>10. ASSUME NEW p \in Procs,
             BeginAcquire(p) \/ BeginRecover(p) \/ Retry(p) \/
             VerifyBoth(p) \/ DropTemp(p) \/ AcquireFails(p) \/
             UndoCheck(p) \/ UndoSkipsLock(p) \/ ReleaseCheck(p)
      PROVE  UNCHANGED Promise!avars
  <2>1. UNCHANGED <<lockFile, record, mine>>
    BY <1>10 DEF BeginAcquire, BeginRecover, Retry, VerifyBoth, DropTemp,
         AcquireFails, UndoCheck, UndoSkipsLock, ReleaseCheck, files, handles
  <2>2. Claimed' = Claimed
    BY <2>1 DEF Claimed
  <2>3. Holders' = Holders
    BY <1>10 DEF BeginAcquire, BeginRecover, Retry, VerifyBoth, DropTemp,
         AcquireFails, UndoCheck, UndoSkipsLock, ReleaseCheck, Goto, Holders,
         ProtocolInv, TypeOK
  <2>4. QED
    BY <2>2, <2>3 DEF Promise!avars
<1>11. ASSUME NEW p \in Procs,
             BeginSweep(p) \/ OwnerDead(p) \/ DropSibling(p) \/
             ReclaimCheck(p) \/ EndPass(p) \/ Start(p)
      PROVE  UNCHANGED Promise!avars
  <2>1. UNCHANGED <<lockFile, record, mine>>
    BY <1>11 DEF BeginSweep, OwnerDead, DropSibling, ReclaimCheck, EndPass,
         Start, files, handles
  <2>2. Claimed' = Claimed
    BY <2>1 DEF Claimed
  <2>3. Holders' = Holders
    BY <1>11 DEF BeginSweep, OwnerDead, DropSibling, ReclaimCheck, EndPass,
         Start, Goto, Holders, ProtocolInv, TypeOK
  <2>4. QED
    BY <2>2, <2>3 DEF Promise!avars
<1>12. ASSUME NEW p \in Procs,
             Contended(p) \/ LinkFails(p) \/ DeadlinePassed(p) \/
             OpenReclaim(p) \/ OwnerNotDead(p) \/ ReclaimLost(p)
      PROVE  UNCHANGED Promise!avars
  <2>1. UNCHANGED <<lockFile, record>>
    BY <1>12 DEF Contended, LinkFails, DeadlinePassed, OpenReclaim,
         OwnerNotDead, ReclaimLost, AfterReclaim, files
  <2>2. lockFile # NoFile => mine[p] # lockFile
    BY <1>12 DEF Contended, LinkFails, DeadlinePassed, OpenReclaim,
         OwnerNotDead, ReclaimLost, ProtocolInv, OwnLockStays, HandlesTracked,
         Owning, Reclaiming
  <2>3. mine' = mine \/ mine' = [mine EXCEPT ![p] = NoFile]
    BY <1>12 DEF Contended, LinkFails, DeadlinePassed, OpenReclaim,
         OwnerNotDead, ReclaimLost, AfterReclaim, ThrowOrWait, Return
  <2>4. Claimed' = Claimed
    <3>1. CASE lockFile = NoFile
      BY <2>1, <3>1, ClaimedValue, ClaimedValuePrime
    <3>2. CASE lockFile # NoFile
      <4>1. \A q \in Procs : mine'[q] = lockFile <=> mine[q] = lockFile
        BY <2>2, <2>3, <3>2 DEF ProtocolInv, TypeOK
      <4>2. QED
        BY <2>1, <4>1, Invisible
    <3>3. QED
      BY <3>1, <3>2
  <2>5. Holders' = Holders
    BY <1>12 DEF Contended, LinkFails, DeadlinePassed, OpenReclaim,
         OwnerNotDead, ReclaimLost, AfterReclaim, ThrowOrWait, Return, Goto,
         Holders, ProtocolInv, TypeOK
  <2>6. QED
    BY <2>4, <2>5 DEF Promise!avars
<1>13. CASE UNCHANGED vars
  BY <1>13 DEF vars, Claimed, Holders, Promise!avars
<1>14. QED
  BY <1>1, <1>2, <1>3, <1>4, <1>5, <1>6, <1>7, <1>8, <1>9, <1>10, <1>11, <1>12,
       <1>13
     DEF Next, Acquiring, Releasing, ReclaimSteps, Promise!ANext

\* The file protocol implements the abstract lock, as far as no two removals
\* meet: this too is what recovery.lock keeps to otherwise.
THEOREM PromisedUnlessRemovalsMeet == Spec /\ []OneRemoval => ImplementsAbstractLock
<1>1. Init => Promise!AInit
  BY DEF Init, Promise!AInit, Claimed, Holders
<1>2. ProtocolInv /\ ProtocolInv' /\ [Next]_vars => [Promise!ANext]_(Promise!avars)
  BY StepKeepsPromise
<1>3. QED
  BY <1>1, <1>2, ProtocolInvariant, PTL DEF Spec, ImplementsAbstractLock, Promise!ASpec

\* Under the lease it always does: only its claimant works under a checkout
\* lock, only its claimant drops it, and only a dead claimant's is taken away.
THEOREM KeepsPromise == ASSUME UnderLease PROVE Spec => ImplementsAbstractLock
BY LeaseInvariant, LeaseIsProtocol, PromisedUnlessRemovalsMeet, PTL
=============================================================================
