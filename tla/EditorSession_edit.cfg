SPECIFICATION Spec
CONSTANTS
  a = a
  b = b
  c = c
  Open = Open
  Close = Close
  Table = Table
  Empty = Empty
  NoSource = NoSource
  NoSplit = NoSplit
  Text <- MCText
  Replacement <- MCReplacement
  Saved <- MCSaved
  Puts <- MCPuts
  Uploads <- MCUploads
  Typed <- MCTyped
  Gestures <- EveryGesture
  MaxTyped = 1
  MaxGestures = 3
  MaxHistory = 4
  MaxRenders = 1
INVARIANT TypeOK
PROPERTY GesturesKeepText
PROPERTY FlushIsWhatIsShown
INVARIANT SourceModeAgrees
CHECK_DEADLOCK FALSE
