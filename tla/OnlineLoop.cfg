SPECIFICATION FairSpec
CONSTANTS
  Displays = {TRUE, FALSE}
  Skips = {1, 2}
  MaxRuns = 2
  MaxEvents = 3
INVARIANTS OneEventAtATime LockFollowsStack PlotsMatchTitle FilledInOwnRun
PROPERTIES QuitEnds ShutdownEnds
