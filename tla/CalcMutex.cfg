CONSTANTS
  Names = {"a", "b"}
  IntMin <- MCIntMin
  IntMax = 3
  Threads = {t1, t2, t3}
  Lines <- MCLines
  MaxCalls = 2
SPECIFICATION MCSpec
INVARIANTS TypeOK MutualExclusion SoFar StrictCount
PROPERTIES RefinesAtomic EveryCallReturns
