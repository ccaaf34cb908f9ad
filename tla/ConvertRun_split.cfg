SPECIFICATION Spec
CONSTANTS
  EventBanks <- MCEventBanks
  nPoints_max = 4
  Channels = {0}
  ReadoutMasks <- MCMasks
  MaxEvents = 4
  MaxFiles = 2
  CutMidPoint = TRUE
  MaxCrashes = 0
  MaxUnread = 0
INVARIANT FinishedPointsWhole
