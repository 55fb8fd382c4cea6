SPECIFICATION FairSpec
CONSTANTS
  MaxJobs = 2
  PoolSize = 1
  Steps = 2
  MaxWorkerCrashes = 0
  MaxRestarts = 2
  MaxInbox = 1
INVARIANTS
  CompletedDemoRanEveryStep
PROPERTIES
  EveryJobEnds
  ImplementsLifecycle
