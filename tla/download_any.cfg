SPECIFICATION FairSpec
CONSTANTS
  Sessions = {A}
  NoSession = NoSession
  EndCount = 99
  Feed <- ProbeFeed
  StartSeq = 1
  Limits = {0, 4}
  MaxPerRequest = 2
  Server = "any"
  PerPacket = 2
  MaxReplies = 2
  ReplyBuffer = 3
  Last = 4
  Noise <- AllNoise
INVARIANTS TypeOK Accounted RequestWithinRange StatusAgrees
PROPERTIES TransferEnds
