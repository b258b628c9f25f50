\* One server that exits while it prunes; nothing else goes wrong.
CONSTANTS
  Servers = {s1}
  Txns = {t1, t2}
  Faults = {}
SPECIFICATION FairSpec
PROPERTIES
  IntentReplayed
