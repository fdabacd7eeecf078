SPECIFICATION FairSpec
CONSTANTS
  Sessions = {A}
  NoSession = NoSession
  NoHeader = NoHeader
  EndCount = 9
  Limits = {0, 3}
  MaxSeq = 4
  MaxCount = 2
  Feed <- AllFeed
  MaxPerRequest = 2
  Server = "any"
  PerPacket = 2
  MaxReplies = 2
  ReplyBuffer = 3
  Last = 4
  Noise <- AllNoise
INVARIANTS TypeOK RequestWithinGap NoLiveRepeat WithinLimit
PROPERTIES LiveInOrder GapFillEnds
