CONSTANTS
  Names = {"a"}
  IntMin <- MCIntMin
  IntMax = 1
  Clients = {c1, c2}
  Requests <- SessionRequests
  MaxSend <- OneEach
  MaxFd = 3
SPECIFICATION Spec
INVARIANTS NoUseAfterDestroy
