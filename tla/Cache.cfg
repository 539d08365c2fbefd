CONSTANTS
  AddrBits = 5
  Arguments <- MCArguments
  Addresses <- MCAddresses
  MaxLines = 5
SPECIFICATION Spec
INVARIANTS TypeOK UniqueTags Stamps
PROPERTIES GivesUpOldest RefinesPolicy
CHECK_DEADLOCK FALSE
