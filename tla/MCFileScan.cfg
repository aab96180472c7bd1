SPECIFICATION FileSpec
CONSTANTS
  Files <- ObedientFiles
  BufSize = 2
  NoChunk = NoChunk
  FileSize = 4
  Backs = {0, 2}
  Lengths = {1, 2}
INVARIANT Laminar
INVARIANT NothingMissed
INVARIANT NeverRaised
INVARIANT Accounted
PROPERTY ScanAdvances
