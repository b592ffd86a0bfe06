\* Two calls at a time.
CONSTANTS
  a1 = a1
  a2 = a2
  k1 = k1
  k2 = k2
  Apps = {a1}
  Owned = {}
  Probed = {}
  Seeding = FALSE
  Calls = {k1, k2}
SYMMETRY Symmetric
VIEW Engine
SPECIFICATION Spec
INVARIANTS LoneDeleteCleans DeleteNotRefused
