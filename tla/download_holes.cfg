SPECIFICATION Spec
CONSTANTS
  Sessions = {A}
  NoSession = NoSession
  EndCount = 99
  Feed <- ProbeFeed
  StartSeq = 1
  Limits = {0}
  MaxPerRequest = 2
  Server = "any"
  PerPacket = 1
  MaxReplies = 2
  ReplyBuffer = 2
  Last = 6
  Noise <- NoNoise
INVARIANTS ChunksDecoded
