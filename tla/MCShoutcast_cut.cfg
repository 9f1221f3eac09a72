SPECIFICATION Spec
CONSTANTS
  MetaInt = 4
  Unit = 2
  Units <- MCUnits
  Titles = 3
  Length = 6
CHECK_DEADLOCK FALSE
INVARIANT TitlesSkipped
