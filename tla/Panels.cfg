SPECIFICATION FairSpec
CONSTANTS
  Folders = {f1}
  PoolSize = 1
  MaxJobs = 2
  MaxLives = 3
  MaxCalls = 1
  MaxWire = 2
INVARIANTS
  HeaderIsTrue
  HeaderShowsWork
  RowShowsTheEnd
  RowTellsTheMode
PROPERTY
  TogglesComeBack
CHECK_DEADLOCK FALSE
