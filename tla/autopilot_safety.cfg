\* Two servers, two tasks, two runs of each; failing operations, cancelled requests, and a user
\* who works in the worktree.
CONSTANTS
  Servers = {s1, s2}
  N = 2
  MaxRuns = 2
  Faults = {"io", "abort", "user"}
SPECIFICATION Spec
SYMMETRY Symmetry
INVARIANTS
  TypeOK
  OneDriver
  PromotedInOrder
  AcceptedAsStaged
  BranchLeads
  JournalCovered
  VerdictStands
  HandedOverWhole
PROPERTIES
  ImplementsAtomicWorkflow
