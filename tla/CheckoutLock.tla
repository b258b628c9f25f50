----------------------------- MODULE CheckoutLock -----------------------------
(***************************************************************************)
(* The Checkout Lock protocol (src/platform/checkout-lock.ts): one         *)
(* <key>.lock file in the locks directory, taken by linking a private,     *)
(* fsynced temporary record into place, dropped by a checked unlink, and   *)
(* reclaimed from a process that exited by startup recovery.               *)
(*                                                                         *)
(* A file is an inode: its identity (dev, ino, birth time) never comes     *)
(* back once nothing can reach the file, so a model inode may be created   *)
(* again as soon as no name the protocol reads and no open handle refers   *)
(* to it.  A process slot that goes down and starts again is another       *)
(* process: the records the earlier one wrote then name a process that     *)
(* exited.  Each awaited file-system call that another process can come    *)
(* between is an action of its own.                                        *)
(***************************************************************************)
EXTENDS Naturals

CONSTANTS
  Procs,          \* process slots: MCP servers that share the state directory
  Inodes,         \* the identities files can have
  NoFile,         \* "no file has this name", "no handle"
  Exited,         \* the recorded process has exited
  Unnamed,        \* the record holds no process token: its owner is unknowable
  Faults,         \* what may go wrong: "io" a file-system call fails,
                  \*   "token" a process-start token cannot be read
  UnderLease      \* TRUE: a checkout lock, reclaimed only by the recovery pass
                  \* that holds recovery.lock; FALSE: recovery.lock itself,
                  \* which every starting server may reclaim

ASSUME ConstantsAssumption ==
  /\ NoFile \notin Inodes
  /\ Exited \notin Procs
  /\ Unnamed \notin Procs
  /\ Exited # Unnamed
  /\ Faults \subseteq {"io", "token"}
  /\ UnderLease \in BOOLEAN

VARIABLES
  lockFile,   \* the inode <key>.lock names, or NoFile
  temp,       \* the inodes whose .recovery-lock-<uuid>.tmp name exists
  record,     \* record[i]: the process the lock record in i names
  pc,         \* where each process is
  mine,       \* the inode of the acquisition a process is making or holds
  seen,       \* the inode of the handle a reclaim opened
  linked,     \* the link count of that file when it was opened
  call,       \* the operation a process is executing
  pass        \* the recovery pass of a process: "none", "begun", "swept"

files == <<lockFile, temp, record>>
handles == <<mine, seen, linked>>
calls == <<call, pass>>
vars  == <<lockFile, temp, record, pc, mine, seen, linked, call, pass>>

File == Inodes \cup {NoFile}

Reclaiming == {"openReclaim", "ownerStatus", "dropSibling", "checkReclaim",
               "unlinkReclaim"}

\* Positions at which <key>.lock must still be the process's own record.
Owning == {"verifyBoth", "dropTemp", "verifyLock", "held", "release",
           "unlinkOwn", "undo", "unlinkUndo"}

PCs == {"down", "idle", "create", "link", "wait", "dropTempUndo"}
         \cup Owning \cup Reclaiming

\* "live": acquireLock; "recover", "again": the two attempts of
\* tryAcquireLockReclaimingDead; "sweep": one reclaim of reclaimDeadCheckoutLocks.
Calls == {"none", "live", "recover", "again", "sweep"}

\* (Mutant: the handle itself is counted as a link.)
LinksAndHandle(i) == (IF i \in temp THEN 1 ELSE 0) + (IF lockFile = i THEN 1 ELSE 0) + 1

\* The link count a handle on inode i reports.
Links(i) == (IF i \in temp THEN 1 ELSE 0) + (IF lockFile = i THEN 1 ELSE 0)

\* An identity a new temporary can have.  A leftover temporary that no handle
\* and not the lock refers to is never looked at again.
Fresh(i) ==
  /\ i # lockFile
  /\ \A p \in Procs : i \notin {mine[p], seen[p]}

Goto(p, there) == pc' = [pc EXCEPT ![p] = there]

\* The call of p returns or throws; its handles are closed.
Return(p) ==
  /\ Goto(p, "idle")
  /\ mine' = [mine EXCEPT ![p] = NoFile]
  /\ seen' = [seen EXCEPT ![p] = NoFile]
  /\ linked' = [linked EXCEPT ![p] = 0]
  /\ call' = [call EXCEPT ![p] = "none"]
  /\ UNCHANGED pass

Init ==
  /\ lockFile = NoFile
  /\ temp = {}
  /\ record = [i \in Inodes |-> Exited]
  /\ pc = [p \in Procs |-> "down"]
  /\ mine = [p \in Procs |-> NoFile]
  /\ seen = [p \in Procs |-> NoFile]
  /\ linked = [p \in Procs |-> 0]
  /\ call = [p \in Procs |-> "none"]
  /\ pass = [p \in Procs |-> "none"]

-----------------------------------------------------------------------------
(* Acquisition: acquireLock, tryAcquireLock *)

\* A call of acquireLock.  recovery.lock is never taken this way.
BeginAcquire(p) ==
  /\ pc[p] = "idle"
  /\ UnderLease
  /\ Goto(p, "create")
  /\ call' = [call EXCEPT ![p] = "live"]
  /\ UNCHANGED <<files, handles, pass>>

\* A call of tryAcquireLockReclaimingDead: by a recovery pass, for the checkout
\* lock of any run or orphan it looks at, or by a starting server, once, for
\* recovery.lock.
BeginRecover(p) ==
  /\ pc[p] = "idle"
  /\ pass[p] \in (IF UnderLease THEN {"begun", "swept"} ELSE {"begun"})
  /\ pass' = [pass EXCEPT ![p] = IF UnderLease THEN @ ELSE "swept"]
  /\ Goto(p, "create")
  /\ call' = [call EXCEPT ![p] = "recover"]
  /\ UNCHANGED <<files, handles>>

\* Create the temporary exclusively, write the record, fsync, validate: the
\* name is a fresh uuid, so nobody can come between.  Without a readable start
\* token the record is written with a null one.
CreateTemp(p, i) ==
  /\ pc[p] = "create"
  /\ Fresh(i)
  /\ \E owner \in {p} \cup (IF "token" \in Faults THEN {Unnamed} ELSE {}) :
       record' = [record EXCEPT ![i] = owner]
  /\ temp' = temp \cup {i}
  /\ mine' = [mine EXCEPT ![p] = i]
  /\ Goto(p, "link")
  /\ UNCHANGED <<lockFile, seen, linked, call, pass>>

\* link(temporary, lock) succeeds only when the name is free.
PublishLock(p) ==
  /\ pc[p] = "link"
  /\ lockFile = NoFile
  /\ lockFile' = mine[p]
  /\ Goto(p, "verifyBoth")
  /\ UNCHANGED <<temp, record, handles, calls>>

\* EEXIST: the private temporary is removed.  A live caller waits to try again,
\* a recovering one looks at the holder, once; then it gives up.
Contended(p) ==
  /\ pc[p] = "link"
  /\ lockFile # NoFile
  /\ temp' = temp \ {mine[p]}
  /\ UNCHANGED <<lockFile, record>>
  /\ \/ /\ call[p] = "again"
        /\ Return(p)
     \/ /\ call[p] # "again"
        /\ Goto(p, IF call[p] = "live" THEN "wait" ELSE "openReclaim")
        /\ mine' = [mine EXCEPT ![p] = NoFile]
        /\ UNCHANGED <<seen, linked, call, pass>>

\* The error ends the call, or, for a live caller on Windows, is one of the
\* transient ones that are tried again.
ThrowOrWait(p) ==
  \/ Return(p)
  \/ /\ call[p] = "live"
     /\ Goto(p, "wait")
     /\ mine' = [mine EXCEPT ![p] = NoFile]
     /\ UNCHANGED <<seen, linked, call, pass>>

\* The link, or the removal of the temporary after it, failed.
LinkFails(p) ==
  /\ pc[p] = "link"
  /\ "io" \in Faults
  /\ temp' \in {temp, temp \ {mine[p]}}
  /\ ThrowOrWait(p)
  /\ UNCHANGED <<lockFile, record>>

\* After the retry delay: another attempt, or the deadline has passed.
Retry(p) ==
  /\ pc[p] = "wait"
  /\ Goto(p, "create")
  /\ UNCHANGED <<files, handles, calls>>

DeadlinePassed(p) ==
  /\ pc[p] = "wait"
  /\ Return(p)
  /\ UNCHANGED files

\* (Mutant: the temporary name is left behind.)
VerifyBothAndHold(p) ==
  /\ pc[p] = "verifyBoth"
  /\ lockFile = mine[p] /\ mine[p] \in temp
  /\ Goto(p, "held")
  /\ UNCHANGED <<files, handles, calls>>

\* Both names must still be the published record.
VerifyBoth(p) ==
  /\ pc[p] = "verifyBoth"
  /\ lockFile = mine[p] /\ mine[p] \in temp
  /\ Goto(p, "dropTemp")
  /\ UNCHANGED <<files, handles, calls>>

\* The temporary is removed as the second link of the file, or is gone.
DropTemp(p) ==
  /\ pc[p] = "dropTemp"
  /\ mine[p] \in temp => Links(mine[p]) = 2
  /\ temp' = temp \ {mine[p]}
  /\ Goto(p, "verifyLock")
  /\ UNCHANGED <<lockFile, record, handles, calls>>

\* The lock is held once its name is proved to be this record, with one link.
Acquired(p) ==
  /\ pc[p] = "verifyLock"
  /\ lockFile = mine[p] /\ Links(mine[p]) = 1
  /\ Goto(p, "held")
  /\ UNCHANGED <<files, handles, calls>>

\* A validation of a published lock fails: the record is not what was
\* written, or a file-system call failed.
AcquireFails(p) ==
  /\ \/ pc[p] = "verifyBoth" /\ ("io" \in Faults \/ ~ (lockFile = mine[p] /\ mine[p] \in temp))
     \/ pc[p] = "dropTemp" /\ ("io" \in Faults \/ (mine[p] \in temp /\ Links(mine[p]) # 2))
     \/ pc[p] = "verifyLock" /\ ("io" \in Faults \/ ~ (lockFile = mine[p] /\ Links(mine[p]) = 1))
  /\ Goto(p, "undo")
  /\ UNCHANGED <<files, handles, calls>>

-----------------------------------------------------------------------------
(* Cleanup of a published lock whose validation failed: cleanupOwnedLockPaths *)

\* The lock name is opened, its identity and link count compared ...
UndoCheck(p) ==
  /\ pc[p] = "undo"
  /\ lockFile = mine[p]
  /\ Goto(p, "unlinkUndo")
  /\ UNCHANGED <<files, handles, calls>>

\* (It is another file, or missing, or a call failed: the name stays.)
UndoSkipsLock(p) ==
  /\ \/ pc[p] = "undo" /\ (lockFile # mine[p] \/ "io" \in Faults)
     \/ pc[p] = "unlinkUndo" /\ "io" \in Faults
  /\ Goto(p, "dropTempUndo")
  /\ UNCHANGED <<files, handles, calls>>

\* ... and then whatever it names is removed.
UndoUnlink(p) ==
  /\ pc[p] = "unlinkUndo"
  /\ lockFile' = NoFile
  /\ Goto(p, "dropTempUndo")
  /\ UNCHANGED <<temp, record, handles, calls>>

\* The temporary goes too, unless the lock still is its second link; the error
\* that started the cleanup is thrown.
UndoTemp(p) ==
  /\ pc[p] = "dropTempUndo"
  /\ temp' = IF Links(mine[p]) = 1 THEN temp \ {mine[p]} ELSE temp
  /\ ThrowOrWait(p)
  /\ UNCHANGED <<lockFile, record>>

-----------------------------------------------------------------------------
(* Release: releaseLock, removeLockIfUnchanged *)

\* (Mutant: the operation threw and nothing released its lease.)
EndWithoutRelease(p) ==
  /\ pc[p] = "held"
  /\ Return(p)
  /\ UNCHANGED files

\* The operation under the lease ends.
BeginRelease(p) ==
  /\ pc[p] = "held"
  /\ Goto(p, "release")
  /\ UNCHANGED <<files, handles, calls>>

\* The file the lock name opens is this holder's record, with one link.
ReleaseCheck(p) ==
  /\ pc[p] = "release"
  /\ lockFile = mine[p] /\ Links(mine[p]) = 1
  /\ Goto(p, "unlinkOwn")
  /\ UNCHANGED <<files, handles, calls>>

\* It is missing, or it is not: nothing is removed.  Neither is it when a call
\* fails: the lock file then stays and names a process that lives on.
ReleaseKeeps(p) ==
  /\ \/ pc[p] = "release" /\ ~ (lockFile = mine[p] /\ Links(mine[p]) = 1)
     \/ pc[p] \in {"release", "unlinkOwn"} /\ "io" \in Faults
  /\ Return(p)
  /\ UNCHANGED files

\* rm(lockPath): the name is removed, whatever it names by now.
ReleaseUnlink(p) ==
  /\ pc[p] = "unlinkOwn"
  /\ lockFile' = NoFile
  /\ Return(p)
  /\ UNCHANGED <<temp, record>>

-----------------------------------------------------------------------------
(* Reclaim: reclaimDeadLock *)

\* The sweep over the locks directory reaches this lock.
BeginSweep(p) ==
  /\ pc[p] = "idle"
  /\ UnderLease /\ pass[p] = "begun"
  /\ pass' = [pass EXCEPT ![p] = "swept"]
  /\ Goto(p, "openReclaim")
  /\ call' = [call EXCEPT ![p] = "sweep"]
  /\ UNCHANGED <<files, handles>>

\* What follows a reclaim: tryAcquireLockReclaimingDead acquires once more
\* after it removed a dead lock, and reports the holder otherwise.
AfterReclaim(p, reclaimed) ==
  \/ /\ reclaimed /\ call[p] = "recover"
     /\ Goto(p, "create")
     /\ call' = [call EXCEPT ![p] = "again"]
     /\ seen' = [seen EXCEPT ![p] = NoFile]
     /\ linked' = [linked EXCEPT ![p] = 0]
     /\ UNCHANGED <<mine, pass>>
  \/ /\ ~ (reclaimed /\ call[p] = "recover")
     /\ Return(p)

\* parseLockOwner of the lock file.
OwnerNamed == lockFile # NoFile /\ record[lockFile] # Unnamed

\* Open the lock, stat it, read it.  A record without a token is malformed and
\* preserved, a missing file is left to the next attempt.
OpenReclaim(p) ==
  /\ pc[p] = "openReclaim"
  /\ UNCHANGED files
  /\ \/ /\ OwnerNamed
        /\ seen' = [seen EXCEPT ![p] = lockFile]
        /\ linked' = [linked EXCEPT ![p] = Links(lockFile)]
        /\ Goto(p, "ownerStatus")
        /\ UNCHANGED <<mine, calls>>
     \/ /\ ~OwnerNamed
        /\ AfterReclaim(p, FALSE)

\* (Mutant: whatever the record names is taken to be dead.)
AnyOwnerDead(p) ==
  /\ pc[p] = "ownerStatus"
  /\ Goto(p, IF linked[p] = 2 THEN "dropSibling" ELSE "checkReclaim")
  /\ UNCHANGED <<files, handles, calls>>

\* lockOwnerStatus: only an owner that has exited can be found dead.
OwnerDead(p) ==
  /\ pc[p] = "ownerStatus"
  /\ record[seen[p]] = Exited
  /\ Goto(p, IF linked[p] = 2 THEN "dropSibling" ELSE "checkReclaim")
  /\ UNCHANGED <<files, handles, calls>>

\* The owner lives, or its token cannot be read: the lock is preserved.
OwnerNotDead(p) ==
  /\ pc[p] = "ownerStatus"
  /\ record[seen[p]] # Exited \/ "token" \in Faults
  /\ AfterReclaim(p, FALSE)
  /\ UNCHANGED files

\* (Mutant: the sibling is only removed from a file that has one link.)
DropOnlyLink(p) ==
  /\ pc[p] = "dropSibling"
  /\ seen[p] \in temp /\ Links(seen[p]) = 1
  /\ temp' = temp \ {seen[p]}
  /\ Goto(p, "checkReclaim")
  /\ UNCHANGED <<lockFile, record, handles, calls>>

\* removeCrashedTemporarySibling: unlink the temporary name of the same file.
DropSibling(p) ==
  /\ pc[p] = "dropSibling"
  /\ seen[p] \in temp /\ Links(seen[p]) = 2
  /\ temp' = temp \ {seen[p]}
  /\ Goto(p, "checkReclaim")
  /\ UNCHANGED <<lockFile, record, handles, calls>>

\* No such sibling, or the file changed, or a call failed.
ReclaimLost(p) ==
  /\ \/ pc[p] \in {"dropSibling", "checkReclaim", "unlinkReclaim"} /\ "io" \in Faults
     \/ pc[p] = "dropSibling" /\ ~ (seen[p] \in temp /\ Links(seen[p]) = 2)
     \/ pc[p] = "checkReclaim" /\ Links(seen[p]) # 1
  /\ AfterReclaim(p, FALSE)
  /\ UNCHANGED files

\* (Mutant: nothing is compared before the removal.)
ReclaimUnchecked(p) ==
  /\ pc[p] = "checkReclaim"
  /\ Goto(p, "unlinkReclaim")
  /\ UNCHANGED <<files, handles, calls>>

\* removeLockIfUnchanged: the open handle still is that file, with one link ...
ReclaimCheck(p) ==
  /\ pc[p] = "checkReclaim"
  /\ Links(seen[p]) = 1
  /\ Goto(p, "unlinkReclaim")
  /\ UNCHANGED <<files, handles, calls>>

\* ... and then the name is removed, whatever it names by now; the handle's
\* link count says whether the file is gone.
ReclaimUnlink(p) ==
  /\ pc[p] = "unlinkReclaim"
  /\ lockFile' = NoFile
  /\ AfterReclaim(p, seen[p] \notin temp)
  /\ UNCHANGED <<temp, record>>

-----------------------------------------------------------------------------
(* Processes exit at any point, and new ones start *)

Exit(p) ==
  /\ pc[p] # "down"
  /\ pc' = [pc EXCEPT ![p] = "down"]
  /\ mine' = [mine EXCEPT ![p] = NoFile]
  /\ seen' = [seen EXCEPT ![p] = NoFile]
  /\ linked' = [linked EXCEPT ![p] = 0]
  /\ call' = [call EXCEPT ![p] = "none"]
  /\ pass' = [pass EXCEPT ![p] = "none"]
  /\ record' = [i \in Inodes |-> IF record[i] = p THEN Exited ELSE record[i]]
  /\ UNCHANGED <<lockFile, temp>>

\* A server starts with a recovery pass, unless another one's holds the lease:
\* then recovery is deferred.
Start(p) ==
  /\ pc[p] = "down"
  /\ Goto(p, "idle")
  /\ pass' = [pass EXCEPT ![p] =
       IF UnderLease /\ \E q \in Procs : pass[q] # "none" THEN "none" ELSE "begun"]
  /\ UNCHANGED <<files, handles, call>>

\* The pass releases the lease when it is through, or failed.
EndPass(p) ==
  /\ pc[p] = "idle"
  /\ pass[p] = "swept" \/ (pass[p] = "begun" /\ "io" \in Faults)
  /\ pass' = [pass EXCEPT ![p] = "none"]
  /\ UNCHANGED <<files, pc, handles, call>>

-----------------------------------------------------------------------------
Acquiring(p) ==
  \/ \E i \in Inodes : CreateTemp(p, i)
  \/ PublishLock(p) \/ Contended(p) \/ LinkFails(p)
  \/ Retry(p) \/ DeadlinePassed(p)
  \/ VerifyBoth(p) \/ DropTemp(p) \/ Acquired(p) \/ AcquireFails(p)
  \/ UndoCheck(p) \/ UndoSkipsLock(p) \/ UndoUnlink(p) \/ UndoTemp(p)

Releasing(p) ==
  BeginRelease(p) \/ ReleaseCheck(p) \/ ReleaseKeeps(p) \/ ReleaseUnlink(p)

ReclaimSteps(p) ==
  \/ OpenReclaim(p) \/ OwnerDead(p) \/ OwnerNotDead(p)
  \/ DropSibling(p) \/ ReclaimLost(p) \/ ReclaimCheck(p) \/ ReclaimUnlink(p)

Next ==
  \E p \in Procs :
    \/ BeginAcquire(p) \/ BeginRecover(p)
    \/ Acquiring(p)
    \/ Releasing(p)
    \/ BeginSweep(p)
    \/ ReclaimSteps(p)
    \/ EndPass(p)
    \/ Exit(p)
    \/ Start(p)

Spec == Init /\ [][Next]_vars

\* Servers come and go, and not every recovery pass is cut off at the same
\* point: each step of a reclaim that is possible again and again is taken.
Turnover ==
  /\ \A p \in Procs : WF_vars(Exit(p)) /\ WF_vars(Start(p))
  /\ SF_vars(\E p \in Procs : BeginSweep(p))
  /\ SF_vars(\E p \in Procs : OpenReclaim(p))
  /\ SF_vars(\E p \in Procs : OwnerDead(p))
  /\ SF_vars(\E p \in Procs : DropSibling(p))
  /\ SF_vars(\E p \in Procs : ReclaimCheck(p))
  /\ SF_vars(\E p \in Procs : ReclaimUnlink(p))

TurnoverSpec == Spec /\ Turnover

-----------------------------------------------------------------------------
(* Properties *)

\* Every variable has its type.
TypeOK ==
  /\ lockFile \in File
  /\ temp \subseteq Inodes
  /\ record \in [Inodes -> Procs \cup {Exited, Unnamed}]
  /\ pc \in [Procs -> PCs]
  /\ mine \in [Procs -> File]
  /\ seen \in [Procs -> File]
  /\ linked \in [Procs -> 0..2]
  /\ call \in [Procs -> Calls]
  /\ pass \in [Procs -> {"none", "begun", "swept"}]

Holders == {p \in Procs : pc[p] = "held"}

\* Two processes never both have the lock: "the exclusive claim on one
\* repository" of src/CONTEXT.md, whatever crashes, retries, reclaims and
\* failed calls came before.
MutualExclusion == \A p, q \in Holders : p = q

\* While a process works under the lock, the lock file is its own record with
\* its one name: nobody's checked removal (releaseLock, reclaimDeadLock,
\* cleanupOwnedLockPaths) has hit a successor's file.
HeldIsPublished ==
  \A p \in Holders : lockFile = mine[p] /\ Links(mine[p]) = 1

\* Why: the inductive invariant behind the two, for locks that are reclaimed
\* under the recovery lease.
\* Positions and handles go together ...
HandlesTracked ==
  \A p \in Procs :
    /\ mine[p] # NoFile <=> pc[p] \in Owning \cup {"link", "dropTempUndo"}
    /\ seen[p] # NoFile <=> pc[p] \in Reclaiming \ {"openReclaim"}
    /\ pc[p] \in {"down", "idle"} <=> call[p] = "none"
    /\ pc[p] \notin Reclaiming => call[p] # "sweep"
    /\ pc[p] = "down" => pass[p] = "none"

\* ... one recovery pass runs, and every reclaim is part of it ...
OnePass ==
  /\ \A p, q \in Procs : pass[p] # "none" /\ pass[q] # "none" => p = q
  /\ \A p \in Procs : pc[p] \in Reclaiming \/ call[p] \in {"recover", "again", "sweep"}
                        => pass[p] # "none"

\* ... an acquisition's file is its own and says so ...
OwnRecord ==
  \A p \in Procs : mine[p] # NoFile =>
    /\ record[mine[p]] \in {p, Unnamed}
    /\ \A q \in Procs : mine[q] = mine[p] => q = p

\* ... it stays in place from the link to the removal ...
OwnLockStays ==
  \A p \in Procs :
    /\ pc[p] \in Owning => lockFile = mine[p]
    /\ pc[p] = "link" => lockFile # mine[p]
    /\ pc[p] \in {"verifyLock", "held", "release", "unlinkOwn"} => mine[p] \notin temp

\* ... and what a reclaim has found dead is, and is still there when removed.
ReclaimsTheDead ==
  \A p \in Procs :
    /\ pc[p] \in {"dropSibling", "checkReclaim", "unlinkReclaim"} => record[seen[p]] = Exited
    /\ pc[p] = "ownerStatus" /\ linked[p] # 2 => seen[p] \notin temp
    /\ pc[p] \in {"checkReclaim", "unlinkReclaim"} => seen[p] \notin temp
    /\ pc[p] = "unlinkReclaim" => lockFile = seen[p]

LeaseInv ==
  /\ TypeOK
  /\ HandlesTracked
  /\ OnePass
  /\ OwnRecord
  /\ OwnLockStays
  /\ ReclaimsTheDead

\* A lock file that names a process that runs is one that process still
\* releases: no path through acquireLock, its retries or a reclaim leaves a
\* lock that only an exit can free.  (Without "io" faults.)
NoLockLeft ==
  lockFile # NoFile /\ record[lockFile] \in Procs
    => mine[record[lockFile]] = lockFile

Abandoned == lockFile # NoFile /\ record[lockFile] = Exited

\* A lock whose holder exited is reclaimed some day, as long as servers come
\* and go: no crash point of acquireLock or of a reclaim (the second link, the
\* half-done sibling removal) leaves a file reclaimDeadLock refuses for ever.
AbandonedReclaimed == Abandoned ~> ~Abandoned
=============================================================================
