\* docs/recovery.md on interrupted deletions.
CONSTANTS
  w1 = w1
  j1 = j1
  j2 = j2
  Workstations = {w1}
  VPN = {}
  Jobs = {j1, j2}
  ReconcileOnStartup = TRUE
SPECIFICATION Spec
INVARIANTS DeleteCanBeRetried
