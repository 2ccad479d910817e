SPECIFICATION FairSpec
CONSTANTS
  FileOrder <- MCFileOrder
  DirOrder <- MCDirOrder
  Parent <- MCParent
  Root = "/"
  Objects = {"core"}
  Volumes = {"data"}
  CrossDevice = {"unit"}
  Versions = {}
  MaxIds = 4
  MaxFaults = 0
  MaxInstalls = 1
PROPERTY RollbackConverges
CHECK_DEADLOCK FALSE
