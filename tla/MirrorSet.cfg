SPECIFICATION Spec
CONSTANTS
  UUIDs = {1, 2, 3}
  mine = mine
  other = other
  third = third
  Ids = {mine, other, third}
  NoId = NoId
  Uefi = FALSE
  Settings = {1}
  ExplicitLists <- MCLists
  Hosts <- MCHosts
  MaxBuild = 2
  MaxCommands = 2
  MaxFaults = 1
  MaxCrashes = 1
CHECK_DEADLOCK FALSE
INVARIANTS NewestWins UpdatedAgree
PROPERTIES SettingKept ForeignUntouched
