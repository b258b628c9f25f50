\* What runs outside the lease, with another server at work.
CONSTANTS
  Servers = {s1, s2}
  Txns = {t1, t2, t3}
  Faults = {}
SPECIFICATION Spec
SYMMETRY Symmetry
INVARIANT NeverOrphaned
