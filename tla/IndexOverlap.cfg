SPECIFICATION Spec
CONSTANTS
  Places = {p1, q1}
  InG = {}
  FolderOf <- FolderOfItsOwn
  Contents = {c1}
  Stat <- StatsDiffer
  Digest <- BytesDiffer
  Size <- OneSize
  None = None
  Unreadable = {}
  Malformed = {}
  PoolSize = 2
  BatchSize = 2
  HashBatchSize = 2
  HashLimit = 2
  MaxScans = 4
  ChangeKinds = {"delete", "move"}
  MaxChanges = 1
  MaxBreaks = 0
  MaxBacklog = 1
CHECK_DEADLOCK FALSE
SYMMETRY Symmetry
INVARIANTS
  OneRowPerPlace
  DuplicatesPointBack
