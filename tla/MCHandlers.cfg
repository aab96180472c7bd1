SPECIFICATION Spec
CONSTANTS
  Fields = {0, 1, 3}
  FileSizes = {2, 6}
  MaxEntries = 2
  Formats <- AllFormats
CHECK_DEADLOCK FALSE
INVARIANT EndsWhereRead
INVARIANT EndsInFile
INVARIANT Obeys
INVARIANT CarvesInside
PROPERTY CalculationEnds
