SPECIFICATION FairSpec
CONSTANTS
  Raws = {0, 1, 2, 4, 5, 6, 7}
  MinX = 6
  MaxX = 1
  Calibrations <- MCCalibrations
  Width = 10
  Keep = 2
  Word = 16
CHECK_DEADLOCK FALSE
INVARIANT GuiAgrees
PROPERTIES OnlyRearmLosesPress PressReported PressReleased
