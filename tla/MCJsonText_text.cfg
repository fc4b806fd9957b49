SPECIFICATION Spec
CONSTANTS
  UintMax = 31
  FloatMaxExp = 9
  DIGITS10 = 2
  Kept <- Keeps
  Callbacks <- AllCallbacks
  Alphabets <- AllAlphabets
  MaxPieces = 5
INVARIANTS
  ParsesExactlyJson
  CallbackFilters
  DumpParses
  DumpIsOneLine
  BufferIsFilled
CHECK_DEADLOCK FALSE
