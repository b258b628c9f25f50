\* Two servers, everything that may go wrong, and room for a removal inside a creation while
\* another manifest is pending.
CONSTANTS
  Servers = {s1, s2}
  Txns = {t1, t2, t3}
  Faults = {"io", "git", "user", "late"}
SPECIFICATION Spec
SYMMETRY Symmetry
INVARIANTS
  TypeOK
  SettledIsWhole
  AdmittedWhole
  RefusedIsResidue
PROPERTIES
  DeletedOnlyOnceStarted
  ImplementsAtomicWorktree
