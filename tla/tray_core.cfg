CONSTANTS
  Missing = Missing
  Torn = Torn
  NoDevice = NoDevice
  m1 = m1
  m2 = m2
  r1 = r1
  c1 = c1
  Roles <- AllRoles
  DefaultRoles <- BothRoles
  Inventories <- TwoInventories
  Environments <- AnyOverride
  Stored <- AnyStored
  MaxCommands = 1
  MaxChanges = 1
  MaxExits = 1
  MaxFaults = 1
SPECIFICATION Spec
INVARIANTS
  QuietIsConsistent
  DefaultIsFollowed
  EnvironmentIsTemporary
  SavedIsFound
