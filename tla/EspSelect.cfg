SPECIFICATION Spec
CONSTANTS
  UUIDs = {1, 2, 3}
  mine = mine
  other = other
  Ids = {mine, other}
  NoId = NoId
  NDevices = 3
  Volumes <- MCVolumes
  CmdLists <- MCCmdLists
CHECK_DEADLOCK FALSE
INVARIANTS SameRules ClonesRefused OneInstallation
