\* _guests_prepare implements its abstract specification.
CONSTANTS
  NumVms = 3
  Timeout = 2
  MemGiB = 16
  Ratios <- MCRatios
  NodeSizes <- MCNodeSizes
  OtherUse <- MCOtherUse
  MaxClock = 2
SPECIFICATION Spec
INVARIANTS
  TypeOK
PROPERTIES
  AdmissionRefines
