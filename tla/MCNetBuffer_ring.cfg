SPECIFICATION FairSpec
CONSTANTS
  Size = 6
  Block = 2
  ReadMax = 3
  ReadyWm = 4
  ResumeWm = 3
  Word = 16
  MqDepth = 4
  MaxFetch = 8
  ReaderFirst = TRUE
  MayStop = FALSE
CHECK_DEADLOCK FALSE
INVARIANTS RingAgrees NoOverrun SessionsOwned
PROPERTIES InOrderStream EofReleasesReader ParkedWorkerResumes
