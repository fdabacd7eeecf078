SPECIFICATION FairSpec
CONSTANTS
  Sessions = {A}
  Session = A
  NoPacket = NoPacket
  EndCount = 9
  Files <- AllFiles
  Filters <- AllFilters
  Limits = {0, 2, 3}
  MaxBody = 4
INVARIANTS TypeOK ReadsInPacket LimitEnds WalkMatches CursorOnFrame FileDecoded
PROPERTIES FileDone
