SPECIFICATION Spec
CONSTANTS
  Sessions = {A}
  NoSession = NoSession
  EndCount = 99
  Feed <- ProbeFeed
  StartSeq = 1
  Limits = {5}
  MaxPerRequest = 2
  Server = "prompt"
  PerPacket = 2
  MaxReplies = 2
  ReplyBuffer = 2
  Last = 3
  Noise <- NoNoise
INVARIANTS ShortIsFailure
