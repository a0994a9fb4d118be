\* Which exceptions can _guests_prepare raise?
CONSTANTS
  NumVms = 3
  MemGiB = 16
  Ratios <- MCRatiosNonZero
  NodeSizes <- MCNodeSizes
  OtherUse <- MCOtherUse
  MaxClock = 2
  Timeout = 2
SPECIFICATION Spec
INVARIANTS
  OnlyNamedErrors
