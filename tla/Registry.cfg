SPECIFICATION Spec
CONSTANTS
  app = app
  core = core
  p1 = p1
  p2 = p2
  Apps = {app, core}
  Core = {core}
  Packages = {p1, p2}
  Version <- MCVersion
  Listing <- MCListing
  Handlers = {h1, h2}
  MaxCrashes = 1
  MaxApprovals = 2
  Templates = {t1}
  Bodies <- MCBodies
CONSTRAINT OneFault
SYMMETRY HandlerSymmetry
INVARIANTS
  RegistryTypeOK
  EtagIsHonest
  RollbackPossible
  RecordedIsActive
  ActiveIsApproved
  PresetsResolve
  StartsAgain
  MemoryIsDisk
CHECK_DEADLOCK FALSE
