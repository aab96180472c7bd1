SPECIFICATION LiveSpec
CONSTANTS
  w1 = w1
  w2 = w2
  Workers = {w1, w2}
  Tasks <- MCTasks
  Root <- MCRoot
  Children <- MCChildren
  Large <- MCLarge
  OutCap = 1
  InCap = 1
  MaxKills = 1
  Faults <- AllFaults
  Sentinel = Sentinel
  NoOne = NoOne
INVARIANT TypeOK
INVARIANT EachTaskOnce
INVARIANT UnfinishedIsExact
INVARIANT DoneMeansComplete
INVARIANT ParentFirst
PROPERTY ImplementsTaskPool
PROPERTY Termination
PROPERTY InterruptedCloses
PROPERTY NoOrphans
PROPERTY DeathNoticed
CHECK_DEADLOCK FALSE
