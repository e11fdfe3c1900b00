SPECIFICATION Spec
CONSTANTS
  MaxRuns = 1
  MaxLines = 3
  MaxFaults = 1
PROPERTY QuitEnds
CHECK_DEADLOCK FALSE
