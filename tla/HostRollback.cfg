SPECIFICATION FairSpec
CONSTANTS
  FileOrder <- MCFileOrder
  DirOrder <- MCDirOrder
  Parent <- MCParent
  Root = "/"
  Objects = {"core"}
  Volumes = {"data"}
  CrossDevice = {"unit"}
  Versions = {"v1"}
  MaxIds = 4
  MaxFaults = 2
  MaxInstalls = 2
INVARIANT TypeOK
INVARIANT NothingLost
INVARIANT QuarantineMarked
INVARIANT RestoredIsBaseline
INVARIANT RegistryAuthGone
PROPERTY ObjectsKept
 
CHECK_DEADLOCK FALSE
