------------------------ MODULE MCCandidateLifecycle ------------------------
(* Instances of CandidateLifecycle for TLC. *)
EXTENDS CandidateLifecycle
=============================================================================
