SPECIFICATION LiveSpec
CONSTANTS
  w1 = w1
  w2 = w2
  Workers = {w1, w2}
  Tasks <- MCTasks
  Root <- MCRoot
  Children <- MCChildren
  Large <- MCLarge
  OutCap = 1
  InCap = 1
  MaxKills = 1
  Faults <- NoFaults
  Sentinel = Sentinel
  NoOne = NoOne
PROPERTY DeathAlwaysNoticed
CHECK_DEADLOCK FALSE
