\* recovery.lock itself, two starting servers.
SPECIFICATION Spec
CONSTANTS
  NoFile = NoFile
  Exited = Exited
  Unnamed = Unnamed
  Stuck = Stuck
  Procs = {p1, p2}
  Inodes = {i1, i2, i3}
  Faults = {}
  UnderLease = FALSE
SYMMETRY Interchangeable
INVARIANT MutualExclusion
