CONSTANTS
  Designs <- MCDesigns
  ExitCodes <- MCExitCodes
  MaxFaults = 1
SPECIFICATION Spec
INVARIANT
  NoOrphanWorkload
