SPECIFICATION Spec
CONSTANTS
  Places = {p1, q1, q2}
  InG = {q1, q2}
  FolderOf <- FolderOfPlace
  Contents = {c1}
  Stat <- StatsDiffer
  Digest <- BytesDiffer
  Size <- OneSize
  None = None
  Unreadable = {}
  Malformed = {}
  PoolSize = 1
  BatchSize = 2
  HashBatchSize = 2
  HashLimit = 2
  MaxScans = 3
  ChangeKinds = {"write", "delete", "move"}
  MaxChanges = 2
  MaxBreaks = 0
  MaxBacklog = 1
CHECK_DEADLOCK FALSE
INVARIANTS
  EveryFileWasRead
