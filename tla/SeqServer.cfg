CONSTANTS
  Names = {"a", "b", "c", "d", "e", "quit", "shutdown"}
  IntMin <- MCIntMin
  IntMax = 2047
  Clients = {c1, c2}
  None = None
  Nl <- MCNl
  Cr <- MCCr
  Error <- MCError
  BufSize = 3
  LineSize = 5
  Scripts <- MCScripts
  MaxAddrs = 2
  Signals = {"SIGSEGV", "SIGILL"}
  MaxFaults = 2
SPECIFICATION ProgramsSpec
INVARIANTS Descriptors EveryTestCounted
PROPERTIES BlamesOwnTest RefinesSessions EveryoneServed
CHECK_DEADLOCK FALSE
