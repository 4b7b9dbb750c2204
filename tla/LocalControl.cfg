CONSTANTS
  rolled = rolled
  Random <- MCRandom
  Unset = Unset
  MaxTaps = 6
  MaxLosses = 1
SPECIFICATION FairSpec
PROPERTIES
  ApByThreeTaps
  RandomAfterAll
  ClickIsSaved
