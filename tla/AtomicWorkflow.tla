--------------------------- MODULE AtomicWorkflow ---------------------------
(***************************************************************************)
(* What an Autopilot workflow promises: one commit per task, each made     *)
(* once; it ends once, and is handed over only with all of them; and       *)
(* nothing is committed after its end.                                     *)
(***************************************************************************)
EXTENDS Naturals

CONSTANTS N

VARIABLES
  commits, \* promotions on the branch
  outcome  \* "open", "halted" or "handed over"

vars == <<commits, outcome>>

Init == commits = 0 /\ outcome = "open"

Promote ==
  /\ outcome = "open" /\ commits < N
  /\ commits' = commits + 1 /\ UNCHANGED outcome

HandOver == outcome = "open" /\ commits = N /\ outcome' = "handed over" /\ UNCHANGED commits

Halt == outcome = "open" /\ outcome' = "halted" /\ UNCHANGED commits

Next == Promote \/ HandOver \/ Halt

Spec == Init /\ [][Next]_vars
=============================================================================
