SPECIFICATION LiveSpec
CONSTANTS
  w1 = w1
  w2 = w2
  Workers <- MCWorkers
  Idle = Idle
  Content <- MixedContent
  DirHandlers <- MultiHandlers
  Links <- MCLinks
  Input <- MCInput
  Configs <- PlainConfigs
  MaxRuns = 1
INVARIANT OneTaskPerPath
INVARIANT NoInterference
INVARIANT NothingLost
INVARIANT AllVisited
PROPERTY RunEnds
