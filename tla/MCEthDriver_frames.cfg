SPECIFICATION FairSpec
CONSTANTS
  TxBufs = 2
  RxBufs = 3
  MaxFrames = 4
  Drops = FALSE
  Relink = FALSE
CHECK_DEADLOCK FALSE
INVARIANTS TypeOK FillsFreeBuffer FrameNoticed
PROPERTIES SendsInOrder ReceivesInOrder BusySenderWakes QueuedFrameSent
