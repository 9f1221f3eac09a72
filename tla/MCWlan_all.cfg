SPECIFICATION FairSpec
CONSTANTS
  MailSlots = 1
  Wired = TRUE
  MaxFrames = 2
  MaxCmds = 2
CHECK_DEADLOCK FALSE
INVARIANT TypeOK
PROPERTIES FramesInOrder OnlyFullMailboxStrands OwnReplyOnly CommandCompletes
