SPECIFICATION Spec
CONSTANTS
  MaxJobs = 2
  PoolSize = 1
  Steps = 1
  MaxWorkerCrashes = 1
  MaxRestarts = 0
  MaxInbox = 1
INVARIANT
  BusySlotIsServed
