SPECIFICATION Spec
CONSTANTS
  w1 = w1
  w2 = w2
  Workers <- MCWorkers
  Idle = Idle
  Content <- SecretContent
  DirHandlers <- MultiHandlers
  Links <- MCLinks
  Input <- MCInput
  Configs <- DeleteConfigs
  MaxRuns = 1
PROPERTY RemovedMeansExtracted
