CONSTANTS
  e1 = e1
  boot = boot
  None = None
  Effects = {e1}
  BootEffect = boot
  Brightness = {0, 1}
  BriS = 1
  Groups = {0, 1}
  ControlFlags <- MCControlFlags
  PresetFlags <- MCPresetFlags
  OffsetConfigs <- MCOffsetConfigs
  Scenes <- MCScenes
  MasterTimebases <- MCMasterTimebases
  MaxOffset = 2
  HardResync = 2
  MaxStep = 1
  Half = 4
  Windows = 4
SPECIFICATION FairSpec
INVARIANTS
  OneQueuedEffect
  OffsetFixedAtArm
  FlagsFromControl
PROPERTIES
  LogicalTimeOnlyBySync
  SyncNeverDiverges
  FiredEffectLeaves
