SPECIFICATION Spec
CONSTANTS
  Sessions = {A, B}
  NoSession = NoSession
  NoHeader = NoHeader
  EndCount = 9
  Limits = {0, 4}
  MaxSeq = 5
  MaxCount = 2
  Feed <- AllFeed
  MaxPerRequest = 3
  Server = "prompt"
  PerPacket = 2
  MaxReplies = 2
  ReplyBuffer = 4
  Last = 5
  Noise <- NoNoise
INVARIANTS NothingMissed
PROPERTIES WholeInOrder
