\* Safety: crashes, deadlines, reconciliation; the workstation needs a VPN.
CONSTANTS
  w1 = w1
  j1 = j1
  j2 = j2
  Workstations = {w1}
  VPN = {w1}
  Jobs = {j1, j2}
  ReconcileOnStartup = TRUE
SYMMETRY Symmetric
CONSTRAINT Telling
SPECIFICATION Spec
INVARIANTS TypeOK TransientIsTended AppsFollowRow
PROPERTIES RowSpec DeletedIsFinal
