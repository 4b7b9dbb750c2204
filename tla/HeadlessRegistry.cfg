CONSTANTS
  Gateway = gw
  All = all
  None = None
  Node = {a, b, c}
  GatewayGroups = {}
  MaxGroup = 3
  MaxSlaves = 1
  Budgets <- MCRegistry
SPECIFICATION Spec
INVARIANTS
  TypeOK
  CleanMeansSaved
CHECK_DEADLOCK FALSE
