SPECIFICATION Spec
CONSTANTS
  FileSize = 5
  Inputs <- MCInputs
INVARIANT OuterAreMaximal
INVARIANT Tiled
INVARIANT RaisedMeansOverlap
