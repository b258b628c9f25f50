\* Two servers, a name for each of them and one for the journal, failing steps, exits, and a user
\* who deletes the repository; in some behaviours servers keep apart, in the others they overlap.
CONSTANTS
  Servers = {s1, s2}
  Txns = {t1, t2, t3}
  Faults = {"io", "user"}
SPECIFICATION Spec
INVARIANTS
  TypeOK
  SettledIsWhole
PROPERTIES
  NamedUnlessUndoMeets
  MovedOnlyAsIntended
  IntentOutlivesQuarantine
