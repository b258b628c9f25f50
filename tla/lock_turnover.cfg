\* Servers come and go: is an abandoned lock reclaimed?
SPECIFICATION TurnoverSpec
CONSTANTS
  NoFile = NoFile
  Exited = Exited
  Unnamed = Unnamed
  Stuck = Stuck
  Procs = {p1, p2}
  Inodes = {i1, i2, i3}
  Faults = {}
  UnderLease = TRUE
INVARIANT NoLockLeft
PROPERTY AbandonedReclaimed
