SPECIFICATION Spec
CONSTANTS
  MaxJobs = 2
  PoolSize = 2
  Steps = 1
  MaxWorkerCrashes = 1
  MaxRestarts = 1
  MaxInbox = 2
INVARIANTS
  TypeOK
  RunningIsOwned
  OneWorkerPerJob
  CancelOnlyItsJob
  CancelIsOnItsWay
  SweepOnlyCompleted
PROPERTY
  TerminalIsFinal
