SPECIFICATION Spec
CONSTANTS
  LengthWord = 16
  SizeWord = 64
  Types = {"A", "B"}
  NoType = NoType
  Documents <- AllDocuments
  Lengths = {0, 1, 2, 3, 4, 5, 6, 7, 8, 9, 10, 11, 12, 13, 15}
INVARIANTS TypeOK ReadsInside SpecOfOwnEntry PrintsWhatFits
