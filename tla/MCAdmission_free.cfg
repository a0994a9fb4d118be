\* The design's admission bound, against the node's real free memory.
CONSTANTS
  NumVms = 3
  MemGiB = 16
  Ratios <- MCRatios
  NodeSizes <- MCNodeSizes
  OtherUse <- MCOtherUse
  MaxClock = 2
  Timeout = 2
SPECIFICATION Spec
INVARIANTS
  AdmitWithinFree
