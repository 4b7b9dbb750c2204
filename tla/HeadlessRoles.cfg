CONSTANTS
  Gateway = gw
  All = all
  None = None
  Node = {a, b}
  GatewayGroups = {2}
  MaxGroup = 3
  MaxSlaves = 1
  Budgets <- MCRoles
SPECIFICATION FairSpec
INVARIANTS
  RoleIsCoherent
  OffMeansOff
  CleanMeansSaved
PROPERTIES
  ResumeOnlyUnclaimed
  NoLastingRivals
  ResumeDecided
CHECK_DEADLOCK FALSE
