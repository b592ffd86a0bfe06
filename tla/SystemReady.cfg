\* A workstation may be ready although the worker observed nothing.
CONSTANTS
  w1 = w1
  a1 = a1
  j1 = j1
  j2 = j2
  Workstations = {w1}
  VPN = {}
  Jobs = {j1, j2}
  ReconcileOnStartup = TRUE
  Apps = {a1}
  Owned = {a1}
  Probed = {a1}
  Seeding = FALSE
  MaxRequests = 2
  MaxFaults = 0
  MaxReconciles = 0
SPECIFICATION SysSpec
CHECK_DEADLOCK FALSE
INVARIANTS ReadyWasObserved
