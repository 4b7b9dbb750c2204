CONSTANTS
  e1 = e1
  boot = boot
  None = None
  Effects = {e1}
  BootEffect = boot
  Brightness = {0, 1}
  BriS = 1
  Groups = {0, 1}
  ControlFlags <- MCBrightnessFlags
  PresetFlags = {}
  OffsetConfigs = {}
  Scenes = {}
  MasterTimebases <- MCMasterTimebases
  MaxOffset = 2
  HardResync = 2
  MaxStep = 1
  Half = 4
  Windows = 4
SPECIFICATION PacketSpec
PROPERTY SyncDrivesBrightness
