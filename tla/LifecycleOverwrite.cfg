\* docs/architecture.md on concurrent actions.
CONSTANTS
  w1 = w1
  j1 = j1
  j2 = j2
  Workstations = {w1}
  VPN = {}
  Jobs = {j1, j2}
  ReconcileOnStartup = FALSE
SPECIFICATION UncutSpec
PROPERTIES NoSilentOverwrite
