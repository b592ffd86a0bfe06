CONSTANTS
  h1 = h1
  h2 = h2
  Slots <- MCSlots
  Grants <- MCGrants
  Presets <- MCPresets
  Shares <- MCShares
  SessionTime = 3
  Limit = 2
  BlockTime = 1
  MaxTime = 5
  MaxFailures = 4
SPECIFICATION Spec
SYMMETRY SlotSymmetry
CONSTRAINT OneTopic
CHECK_DEADLOCK FALSE
INVARIANT ModeIsKept
