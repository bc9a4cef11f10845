CONSTANTS
  MaxId = 12
  Types = {"full"}
  Sizes = {2}
  Modulus = 12
  MaxJump = 4
  Ttl = 1
  MaxGroups = 1
  MaxBuffered = 2
  MaxLag = 2
  MaxWire = 3
  MaxSessions = 2
SPECIFICATION ChunkSpec
INVARIANT Whole
CHECK_DEADLOCK FALSE
