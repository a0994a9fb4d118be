\* One daemon death during the run: does teardown still stop everything?
CONSTANTS
  Vms <- MCVms
  Timeouts <- MCTimeoutTwo
  MaxFaults = 1
SPECIFICATION Spec
INVARIANTS
  NoLeak
