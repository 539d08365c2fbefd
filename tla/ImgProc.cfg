CONSTANTS
  Depth = 4
  UintMax = 6
  Null = Null
  Partial = Partial
  Dirs <- MCDirs
  Argvs <- MCArgvs
  Files <- MCFiles
SPECIFICATION Spec
INVARIANTS TypeOK InOrder Released WritesOnce OutputRight
CHECK_DEADLOCK FALSE
