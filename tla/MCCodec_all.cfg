SPECIFICATION FairSpec
CONSTANTS
  Nodes = 3
  Blocks = {b1, b2, b3}
  None = None
CHECK_DEADLOCK FALSE
INVARIANTS TypeOK DmaServesHead StreamArmed
PROPERTIES OnlyRateChangeSplits BlocksLent BlockReturns
