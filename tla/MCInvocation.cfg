SPECIFICATION Spec
CONSTANTS
  Workers = {w1, w2}
  MaxResults = 2
  Faults = {"interrupt", "fork", "cli"}
CHECK_DEADLOCK FALSE
INVARIANT ExitCodeTells
PROPERTY InterruptEnds
