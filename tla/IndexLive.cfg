SPECIFICATION FairSpec
CONSTANTS
  Places = {p1, p2, p3}
  InG = {}
  FolderOf <- FolderOfPlace
  Contents = {c1, u}
  Stat <- StatsDiffer
  Digest <- BytesDiffer
  Size <- OneSize
  None = None
  Unreadable = {u}
  Malformed = {}
  PoolSize = 1
  BatchSize = 2
  HashBatchSize = 2
  HashLimit = 2
  MaxScans = 2
  ChangeKinds = {"delete"}
  MaxChanges = 1
  MaxBreaks = 0
  MaxBacklog = 1
CHECK_DEADLOCK FALSE
PROPERTIES
  EveryFileIsHashed
