SPECIFICATION Spec
CONSTANTS
  None = None
  Absent = Absent
  MaxCommits = 3
  Modes = {"unsliced"}
  Faults = {}
INVARIANT UnslicedLeavesNothing
