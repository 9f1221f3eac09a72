SPECIFICATION FairSpec
CONSTANTS
  Sectors <- MCSectors
  Pages = 2
  Callers = {reader, writer}
  Data = {old, new}
  Garbage = Garbage
  Lost = Lost
  None = None
CHECK_DEADLOCK FALSE
PROPERTIES BlocksKept CallsReturn
