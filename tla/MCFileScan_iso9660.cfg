SPECIFICATION FileSpec
CONSTANTS
  Files <- Iso9660Files
  BufSize = 2
  NoChunk = NoChunk
  FileSize = 5
  Backs = {0}
  Lengths = {2}
PROPERTY ScanAdvances
