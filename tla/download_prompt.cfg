SPECIFICATION Spec
CONSTANTS
  Sessions = {A}
  NoSession = NoSession
  EndCount = 99
  Feed <- ProbeFeed
  StartSeq = 2
  Limits = {0, 6, 20}
  MaxPerRequest = 4
  Server = "prompt"
  PerPacket = 3
  MaxReplies = 3
  ReplyBuffer = 6
  Last = 11
  Noise <- Idle
INVARIANTS Contiguous DownloadComplete
