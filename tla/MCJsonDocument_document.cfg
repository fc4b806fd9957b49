SPECIFICATION Spec
CONSTANTS
  UintMax = 65535
  RADIX = 4
  INLINE = 1
  FIXINT = 1
  NEGFIX = 1
  FIXSTR = 1
  FIXMAP = 1
  Start <- Starts
  Argument <- Arguments
  Key <- TheKeys
  Pointer <- Pointers
  Operations <- Patches
  Others <- OtherStarts
  Third <- Thirds
  MaxNodes = 4
  MaxKey = 3
INVARIANTS
  DocumentTypeOK
  CborRoundTrip
  MsgpackRoundTrip
  TruncationThrows
  PatchAppliesDiff
  FlattenInverted
  OrderIsTotal
CHECK_DEADLOCK FALSE
