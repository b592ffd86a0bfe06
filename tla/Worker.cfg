\* One call at a time; containers fall, calls fail and are cancelled.
CONSTANTS
  a1 = a1
  a2 = a2
  k1 = k1
  k2 = k2
  Apps = {a1, a2}
  Owned = {a1}
  Probed = {a2}
  Seeding = TRUE
  Calls = {k1}
SPECIFICATION Spec
INVARIANTS TypeOK EditsAreKept RestartNotRefused ProvisionServes
PROPERTIES DependentsFirst
