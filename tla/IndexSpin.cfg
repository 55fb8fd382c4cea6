SPECIFICATION FairSpec
CONSTANTS
  Places = {p1}
  InG = {}
  FolderOf <- FolderOfPlace
  Contents = {u}
  Stat <- StatsDiffer
  Digest <- BytesDiffer
  Size <- OneSize
  None = None
  Unreadable = {u}
  Malformed = {}
  PoolSize = 1
  BatchSize = 2
  HashBatchSize = 2
  HashLimit = 2
  MaxScans = 1
  ChangeKinds = {"write", "delete", "move"}
  MaxChanges = 0
  MaxBreaks = 0
  MaxBacklog = 1
CHECK_DEADLOCK FALSE
PROPERTIES
  HashingRests
