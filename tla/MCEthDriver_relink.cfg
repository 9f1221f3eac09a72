SPECIFICATION FairSpec
CONSTANTS
  TxBufs = 2
  RxBufs = 2
  MaxFrames = 3
  Drops = TRUE
  Relink = TRUE
CHECK_DEADLOCK FALSE
INVARIANT FullRingNoticed
PROPERTY ReceptionResumes
