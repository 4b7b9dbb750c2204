CONSTANTS
  Totals = {1, 2}
  Standard = 1
  Fps = {42, 60}
  StandardFps = 42
  Extra = {2}
  Absent = absent
  Unusable = unusable
  None = None
  MaxLosses = 2
  MaxFlashes = 1
  MaxEdits = 1
SPECIFICATION Spec
INVARIANTS
  OverridesAreSaved
