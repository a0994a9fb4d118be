\* No faults at all: can a VM's startup still roll back?
CONSTANTS
  Vms <- MCVms
  Timeouts <- MCTimeoutTwo
  MaxFaults = 0
SPECIFICATION Spec
INVARIANTS
  NoSpuriousRollback
