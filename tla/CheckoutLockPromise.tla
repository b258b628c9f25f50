-------------------------- MODULE CheckoutLockPromise --------------------------
(***************************************************************************)
(* The mapping under which CheckoutLock implements AbstractLock.           *)
(***************************************************************************)
EXTENDS CheckoutLock

CONSTANT Stuck   \* a lock nobody claims and no reclaim may take

ASSUME StuckAssumption == Stuck \notin Procs \cup {NoFile, Exited}

ASSUME FreeAssumption == NoFile \notin Procs \cup {Exited}

\* The claimant is whoever has the lock file's inode as its own.
Claimed ==
  IF lockFile = NoFile THEN NoFile
  ELSE IF \E p \in Procs : mine[p] = lockFile
         THEN CHOOSE p \in Procs : mine[p] = lockFile
         ELSE IF record[lockFile] = Exited THEN Exited ELSE Stuck

Promise == INSTANCE AbstractLock WITH
  Free <- NoFile, Abandoned <- Exited,
  lock <- Claimed, working <- Holders

\* The file protocol keeps the promise of the abstract lock: between a check
\* and the removal it decides, no other process can make the removal hit a lock
\* it has no right to.
ImplementsAbstractLock == Promise!ASpec
=============================================================================
