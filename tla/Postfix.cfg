CONSTANTS
  IntMin <- MCIntMin
  IntMax = 3
  MaxStack = 2
  Garbage = {2}
  Inputs <- MCInputs
SPECIFICATION FairSpec
INVARIANTS TypeOK EvaluatesPostfix
PROPERTIES RefinesC Terminates
