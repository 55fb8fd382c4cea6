SPECIFICATION Spec
CONSTANTS
  Places = {p1, p2}
  InG = {}
  FolderOf <- FolderOfPlace
  Contents = {c1, c2, c3}
  Stat <- HeaderOnly
  Digest <- BytesDiffer
  Size <- OneSize
  None = None
  Unreadable = {}
  Malformed = {c2}
  PoolSize = 1
  BatchSize = 2
  HashBatchSize = 2
  HashLimit = 2
  MaxScans = 3
  ChangeKinds = {"write", "delete", "move"}
  MaxChanges = 2
  MaxBreaks = 1
  MaxBacklog = 1
CHECK_DEADLOCK FALSE
CONSTRAINT TwoUpsets
SYMMETRY Symmetry
INVARIANTS
  TypeOK
PROPERTIES
  CalmScanMirrorsDisk
  RowsAreKept
  CalmScanKnowsTheBytes
