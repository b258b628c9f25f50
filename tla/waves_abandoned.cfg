\* One slice of a wave throws: do the others stop with it?
SPECIFICATION FairSpec
CONSTANTS
  N = 3
  Paths <- MCPaths
  MaxRounds = 1
  Faults = {"throw"}
  Plans <- MCPlans
PROPERTY WorktreesUnderLease
CHECK_DEADLOCK FALSE
