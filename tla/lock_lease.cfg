\* A checkout lock, two servers, every fault.
SPECIFICATION Spec
CONSTANTS
  NoFile = NoFile
  Exited = Exited
  Unnamed = Unnamed
  Stuck = Stuck
  Procs = {p1, p2}
  Inodes = {i1, i2, i3}
  Faults = {"io", "token"}
  UnderLease = TRUE
SYMMETRY Interchangeable
INVARIANT TypeOK
INVARIANT MutualExclusion
INVARIANT HeldIsPublished
PROPERTY ImplementsAbstractLock
