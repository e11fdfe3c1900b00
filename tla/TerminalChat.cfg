SPECIFICATION Spec
CONSTANTS
  MaxRuns = 2
  MaxLines = 3
  MaxFaults = 1
INVARIANT SettledTruly
INVARIANT OneLiveRun
INVARIANT CancelMarksCurrent
INVARIANT RecoveryDecides
CHECK_DEADLOCK FALSE
