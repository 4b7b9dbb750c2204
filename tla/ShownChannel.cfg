CONSTANTS
  None = None
  ch1 = ch1
  ch2 = ch2
  phy1 = phy1
  phy2 = phy2
  custom = custom
  bad = bad
  Configs = {phy1, phy2, custom, bad}
  Default = phy1
  Bad = {bad}
  Channels = {ch1, ch2}
  Phy <- MCPhy
  BootCounterMax = 3
  Saturation = 5
  MaxLosses = 0
  MaxFailures = 0
  MaxSeeds = 0
SPECIFICATION Spec
INVARIANT ShownChannelIsReal
