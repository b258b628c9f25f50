SPECIFICATION FairSpec
CONSTANTS
  None = None
  Absent = Absent
  MaxCommits = 3
  Modes = {"plain", "unsliced", "sliced"}
  Faults = {"io"}
INVARIANTS
  TypeOK
  OnlyAcceptedStaged
  AutonomyEarned
  SlicedLeavesNothing
  RejectionRepairable
  AcceptedStaysAnchored
PROPERTIES
  DecisionFinal
  InterruptedSettles
