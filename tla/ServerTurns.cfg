CONSTANTS
  Names = {"a"}
  IntMin <- MCIntMin
  IntMax = 1
  Clients = {c1, c2, c3}
  Requests <- TurnRequests
  MaxSend <- OneEach
  MaxFd = 2
SYMMETRY Symmetry
SPECIFICATION Spec
INVARIANTS SlotAccounting
PROPERTIES RefinesService
