----------------------------- MODULE RunRecovery -----------------------------
(***************************************************************************)
(* What a server does with a run at its start: recovery settles a run that *)
(* was interrupted (src/runtime/recovery-manager.ts, recovery-runs.ts)     *)
(* and then old archives are pruned (src/runtime/artifact-store.ts).       *)
(* Recovery reclaims a checkout lock whose owner has exited.               *)
(***************************************************************************)
EXTENDS RunArchive

\* The server that holds the lease exits, or one that idles does.  A pipeline
\* runs in the server that started the run; anything else may run in another.
Elsewhere == {"snapshot", "decide", "dropRejected", "apply", "applied", "dropApplied",
              "recoverAnchor", "recoverResult", "recoverClear"}

Exit(stays) ==
  /\ mode # "none"
  /\ pc # "idle" \/ alive
  /\ stays => alive /\ pc \in Elsewhere
  /\ alive' = stays
  /\ leftLock' = (leftLock \/ pc # "idle")
  /\ Over
  /\ UNCHANGED <<archive, anchor, checkout, started, told>>

ReclaimLock ==
  /\ leftLock
  /\ leftLock' = FALSE
  /\ UNCHANGED <<archive, anchor, checkout, started, pc, run, put, choice, alive, told>>

-----------------------------------------------------------------------------
(* A run without a result: recoverRun *)

\* Its candidate anchor goes, then a cancelled result is written.
BeginRecoverRun ==
  /\ pc = "idle" /\ ~gone
  /\ mode # "none" /\ result.status = "absent"
  /\ leftLock' = FALSE
  /\ pc' = "recoverAnchor"
  /\ UNCHANGED <<archive, anchor, checkout, started, run, put, choice, alive, told>>

RecoverAnchor ==
  /\ pc = "recoverAnchor"
  /\ anchor' = None
  /\ pc' = "recoverResult"
  /\ UNCHANGED <<archive, checkout, started, run, put, choice, server, told>>

RecoverResult ==
  /\ pc = "recoverResult"
  /\ result' = [status |-> "cancelled", cand |-> None, ev |-> {}]
  /\ Over
  /\ UNCHANGED <<manifest, gate, marker, decision, snapshot, gone, anchor, checkout, started,
                 server, told>>

\* A run that recovery fails on is quarantined.
Quarantine ==
  /\ MayFail
  /\ pc \in {"recoverAnchor", "recoverResult"}
  /\ gone' = TRUE
  /\ Over
  /\ UNCHANGED <<result, manifest, gate, marker, decision, snapshot, anchor, checkout, started,
                 server, told>>

-----------------------------------------------------------------------------
(* A run with a result and a marker whose owner has exited *)

\* Mutant: only a run that still offers a candidate is settled.
BeginRecoverVerified ==
  /\ pc = "idle" /\ ~gone
  /\ Verified(result)
  /\ marker /\ ~alive
  /\ leftLock' = FALSE
  /\ manifest # Absent
  /\ pc' = "putResult"
  /\ put' = [result |-> [result EXCEPT !.status = "failed"], manifest |-> manifest,
             done |-> "recoverClear", fail |-> "close"]
  /\ UNCHANGED <<archive, anchor, checkout, started, run, choice, alive, told>>

\* archiveInterruptedPipeline: a result that is still verified becomes a failure.
\* The candidate stays with it.
BeginRecoverPipeline ==
  /\ pc = "idle" /\ ~gone
  /\ result.status # "absent"
  /\ marker /\ ~alive
  /\ leftLock' = FALSE
  /\ IF Verified(result)
       THEN /\ manifest # Absent
            /\ pc' = "putResult"
            /\ put' = [result |-> [result EXCEPT !.status = "failed"], manifest |-> manifest,
                       done |-> "recoverClear", fail |-> "close"]
       ELSE pc' = "recoverClear" /\ UNCHANGED put
  /\ UNCHANGED <<archive, anchor, checkout, started, run, choice, alive, told>>

RecoverClear ==
  /\ pc = "recoverClear"
  /\ marker' = FALSE
  /\ Over
  /\ UNCHANGED <<result, manifest, gate, decision, snapshot, gone, anchor, checkout, started,
                 server, told>>

\* Otherwise the attempt to recover is noted as an issue, and made again later.
RecoverClearFails ==
  /\ MayFail
  /\ pc = "recoverClear"
  /\ Over
  /\ UNCHANGED <<archive, anchor, checkout, started, server, told>>

-----------------------------------------------------------------------------
(* ArtifactStore.prune, for a run old enough *)

\* prepareCandidateAnchorCleanup: the anchor is the archived candidate or gone.
Cleanable ==
  result.cand # None => manifest = TreeOf(result.cand) /\ anchor \in {None, result.cand}

Prune ==
  /\ LeaseFree
  /\ ~marker
  /\ manifest # Absent
  /\ result.status # "absent"
  /\ Cleanable
  /\ gone' = TRUE
  /\ anchor' = IF result.cand = None THEN anchor ELSE None
  /\ UNCHANGED <<result, manifest, gate, marker, decision, snapshot, checkout, started, pc,
                 run, put, choice, server, told>>

RecoveryNext ==
  \/ ReclaimLock
  \/ BeginRecoverRun
  \/ RecoverAnchor
  \/ RecoverResult
  \/ Quarantine
  \/ BeginRecoverPipeline
  \/ RecoverClear
  \/ RecoverClearFails
=============================================================================
