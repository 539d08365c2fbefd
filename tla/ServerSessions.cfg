CONSTANTS
  Names = {"a"}
  IntMin <- MCIntMin
  IntMax = 1
  Clients = {c1, c2}
  Requests <- SessionRequests
  MaxSend <- OneMore
  MaxFd = 3
SPECIFICATION FairSpec
INVARIANTS TypeOK Ownership
PROPERTIES SpawnedOnce RefinesService EveryLineAnswered
