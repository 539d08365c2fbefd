CONSTANTS
  ByteSize = 8
  UIntSize = 1024
  Garbage = {0, 5}
  Null = Null
  Files <- MCFiles
  Pictures <- MCPictures
SPECIFICATION Spec
INVARIANTS MemoryKept NeverWrong SoundDecoded
PROPERTIES Returns
CHECK_DEADLOCK FALSE
