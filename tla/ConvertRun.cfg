SPECIFICATION Spec
CONSTANTS
  EventBanks <- MCAllBanks
  nPoints_max = 2
  Channels = {0, 1}
  ReadoutMasks <- MCMasks
  MaxEvents = 5
  MaxFiles = 3
  CutMidPoint = TRUE
  MaxCrashes = 1
  MaxUnread = 1
INVARIANTS TypeOK AcceptFollowsGantry NoMovingDataIfRead RecordedOnce WavesMatchTimestamps
PROPERTIES ImplementsStream
