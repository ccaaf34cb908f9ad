SPECIFICATION LockFairSpec
CONSTANTS
  Servers = {t1, t2, t3}
INVARIANTS RootExclusive NoLostWakeup
PROPERTIES ImplementsMutex MainRegainsRoot SomebodyIsServed
