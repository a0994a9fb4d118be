\* Where collect_datapoints leaves the run directories of nested tests,
\* failing runs and Ctrl-C (at most two) included.
CONSTANTS
  Sessions <- MCSessions
  MaxInterrupts = 2
SPECIFICATION Spec
INVARIANTS
  ArchivedWhereRun
  NeverMisfiled
