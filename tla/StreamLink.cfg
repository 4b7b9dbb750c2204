CONSTANTS
  None = None
  short = short
  medium = medium
  long = long
  Messages <- MCMessages
  Size <- MCSize
  MaxFragments = 4
  MaxFaults = 6
SPECIFICATION FairSpec
INVARIANTS
  OneMessageIsWhole
PROPERTIES
  StreamArrives
  HandsOverOnce
