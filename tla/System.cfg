\* Controller and worker; overlaps are cut off by the constraint.
CONSTANTS
  w1 = w1
  a1 = a1
  j1 = j1
  j2 = j2
  Workstations = {w1}
  VPN = {}
  Jobs = {j1, j2}
  ReconcileOnStartup = TRUE
  Apps = {a1}
  Owned = {a1}
  Probed = {a1}
  Seeding = FALSE
  MaxRequests = 3
  MaxFaults = 1
  MaxReconciles = 1
SYMMETRY Symmetric
SPECIFICATION SysSpec
INVARIANTS ReadyRuns DeletedIsGone
CHECK_DEADLOCK FALSE
CONSTRAINT Promising
VIEW Course
