SPECIFICATION Spec
CONSTANTS
  Sessions = {A}
  Session = A
  NoPacket = NoPacket
  EndCount = 9
  Files <- AllFiles
  Filters <- AllFilters
  Limits = {2}
  MaxBody = 3
INVARIANTS StopsAfterDecoding
