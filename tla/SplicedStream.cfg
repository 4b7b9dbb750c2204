CONSTANTS
  None = None
  short = short
  medium = medium
  long = long
  Messages <- MCMessages
  Size <- MCSize
  MaxFragments = 4
  MaxFaults = 4
SPECIFICATION Spec
INVARIANT AckedIsOneMessage
