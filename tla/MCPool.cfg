\* Two VMs, wait_for_boot budget 0 or 2, at most two environment faults.
CONSTANTS
  Vms <- MCVms
  Timeouts <- MCTimeouts
  MaxFaults = 2
SPECIFICATION Spec
INVARIANTS
  TypeOK
  NoPartialPool
  BootedGuestsUp
  ExceptionalExitReleases
PROPERTIES
  VmStacksRefine
  Terminates
