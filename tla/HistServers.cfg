SPECIFICATION FairSpec
CONSTANTS
  Servers = {t1, t2}
  Requests = {"GetListOfKeys", "FindObject", "Command", "SetCut", "GetPointer"}
  Names = {"h1", "h2"}
  MaxRuns = 2
INVARIANTS LockedUseLive
PROPERTIES StalledClientsHarmless
