SPECIFICATION Spec
CONSTANTS
  Size = 3
  Block = 1
  ReadMax = 2
  ReadyWm = 2
  ResumeWm = 2
  Word = 7
  MqDepth = 4
  MaxFetch = 4
  ReaderFirst = FALSE
  MayStop = TRUE
CHECK_DEADLOCK FALSE
INVARIANTS TypeOK OneJobAtATime ReadyTokens ResumeTokens
