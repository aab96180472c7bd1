SPECIFICATION Spec
CONSTANTS
  Tasks <- MCTasks
  Root <- MCRoot
  Children <- MCChildren
PROPERTY ImplementsTaskPool
