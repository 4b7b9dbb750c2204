CONSTANTS
  Gateway = gw
  All = all
  None = None
  Node = {a, b, c}
  GatewayGroups = {2}
  MaxGroup = 3
  MaxSlaves = 2
  Budgets <- MCDuplicate
SPECIFICATION Spec
PROPERTY ReservedIdIsFree
CHECK_DEADLOCK FALSE
