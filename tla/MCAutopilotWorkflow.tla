------------------------ MODULE MCAutopilotWorkflow ------------------------
(* AutopilotWorkflow on a small instance, up to the names of servers.       *)
EXTENDS AutopilotWorkflow, TLC

Symmetry == Permutations(Servers)
=============================================================================
