\* Steps that throw, cleanup that fails, exits, and the recovery of what a run left.
SPECIFICATION FairSpec
CONSTANTS
  N = 3
  Paths <- MCPaths
  MaxRounds = 1
  Faults = {"throw", "io", "exit"}
  Plans <- MCPlans
INVARIANTS
  TypeOK
  ComposedIsSequential
  DependenciesSeen
  AdvancedNeverCollide
  ReturnLeavesNothing
PROPERTY LeftoversGo
CHECK_DEADLOCK FALSE
