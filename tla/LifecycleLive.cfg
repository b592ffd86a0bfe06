\* Liveness: no goroutine is cut short; the workstation needs no VPN.
CONSTANTS
  w1 = w1
  j1 = j1
  j2 = j2
  Workstations = {w1}
  VPN = {}
  Jobs = {j1, j2}
  ReconcileOnStartup = FALSE
VIEW Course
SPECIFICATION UncutSpec
PROPERTIES Settles
