CONSTANTS
  None = None
  Packets = {p1}
  MaxFragments = 2
  DefaultRx = {"None", "Continuous"}
  ToA = 1
  InFlightStuck = 2
  SubmitStuck = 3
  Backoff = 1
  Window = 1
  Relax = 1
SPECIFICATION Spec
PROPERTY SubmitWatchdogSparesFlight
