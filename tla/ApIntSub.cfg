CONSTANTS
  HexBits = 1
  LimbDigits = 2
  Reg = {a, b}
  Null = Null
  U64s <- MCU64s
  Hexes <- MCHexes
  Shifts <- MCShifts
  Garbage = {2}
  MaxLen = 3
  Avoid = {"shift"}
SPECIFICATION Spec
INVARIANTS SubtractsRight
