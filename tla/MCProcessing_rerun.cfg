SPECIFICATION Spec
CONSTANTS
  w1 = w1
  w2 = w2
  Workers <- MCWorkers
  Idle = Idle
  Content <- RerunContent
  DirHandlers <- MultiHandlers
  Links <- MCLinks
  Input <- MCInput
  Configs <- RerunConfigs
  MaxRuns = 2
INVARIANT OldUntouched
INVARIANT ForceIsFresh
PROPERTY RemovedMeansExtracted
SYMMETRY Symmetry
