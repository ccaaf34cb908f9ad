SPECIFICATION Spec
CONSTANTS
  Servers = {t1, t2}
  Requests = {"GetPointer", "FindObject"}
  Names = {"h1"}
  MaxRuns = 2
INVARIANTS UsesLiveObjects
