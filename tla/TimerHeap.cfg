SPECIFICATION Spec
CONSTANTS
  Timers = {t1, t2, t3, t4, t5, t6, t7}
  Null = Null
  MaxTime = 2
SYMMETRY Symmetry
INVARIANTS HeapIntact SleepsUntilFirst
PROPERTY CalledInOrder
