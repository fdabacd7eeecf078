SPECIFICATION Spec
CONSTANTS
  Sessions = {A}
  NoSession = NoSession
  NoHeader = NoHeader
  EndCount = 9
  Limits = {0}
  MaxSeq = 4
  MaxCount = 2
  Feed <- AllFeed
  MaxPerRequest = 2
  Server = "any"
  PerPacket = 2
  MaxReplies = 2
  ReplyBuffer = 2
  Last = 4
  Noise <- NoNoise
INVARIANTS SkipsDuplicates
