CONSTANTS
  Missing = Missing
  Torn = Torn
  NoDevice = NoDevice
  m1 = m1
  m2 = m2
  r1 = r1
  c1 = c1
  Roles <- AllRoles
  DefaultRoles <- BothRoles
  Inventories <- TwoInventories
  Environments <- NoOverride
  Stored <- FirstBoot
  MaxCommands = 1
  MaxChanges = 0
  MaxExits = 1
  MaxFaults = 0
SPECIFICATION Spec
INVARIANT SavedSurvivesExit
