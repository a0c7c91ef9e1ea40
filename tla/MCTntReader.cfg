SPECIFICATION ReaderSpec
CONSTANTS
  MaxReplies = 2
  MaxPast = 2
INVARIANTS ParsedInOrder ParsersAgree OneCopy VisitsAll
CHECK_DEADLOCK FALSE
