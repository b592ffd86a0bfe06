\* First uses, saves, rotations and restarts in every order.
CONSTANTS
  None = None
  Torn = Torn
  Refs = {r1, r2}
  Handlers = {h1, h2}
  Ctl = ctl
  NewKeys = {n1, n2}
  MaxCrashes = 2
SPECIFICATION Spec
INVARIANTS TypeOK Readable Repeatable DoneIsDone
SYMMETRY Symmetric
CHECK_DEADLOCK FALSE
