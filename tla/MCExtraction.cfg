SPECIFICATION Spec
CONSTANTS
  Names <- MCNames
  MaxLinks = 3
  ClientPaths <- MCClientPaths
  LinkTargets <- MCLinkTargets
  MaxCalls = 3
  StreamPaths <- MCStreamPaths
  MaxCommands = 4
  CpioPaths <- MCCpioPaths
  MaxEntries = 3
  MaxDepth = 4
  PerBlock = 2
  YaffsIds = {2, 3}
  YaffsNames = {"a", "b"}
  YaffsChunks = {1, 2}
  MaxPages = 4
  Disks <- MCDisks
  Roms <- MCRoms
  Jobs = {"client", "btrfs", "cpio", "minixfs", "ufs", "romfs", "yaffs"}
INVARIANT Contained
INVARIANT LossIsReported
INVARIANT LastEntryWins
INVARIANT WalkIsComplete
INVARIANT LatestHeaderHolds
PROPERTY WalkEnds
CHECK_DEADLOCK FALSE
