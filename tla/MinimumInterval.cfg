CONSTANTS
  None = None
  Blank = Blank
  Start = Start
  a = a
  Names <- MCNames
  Slots = 2
  MinDefer = 1
  MaxDefer = 2
  MinInterval = 3
  FullEvery = 7
  PartialLimit = 1
SPECIFICATION Spec
PROPERTY MinimumInterval
