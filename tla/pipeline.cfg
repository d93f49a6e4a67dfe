SPECIFICATION FairSpec
CONSTANTS
  MaxTasks = 2
  MaxEntries = 3
  MaxQueueSize = 2
  MaxDetections = 2
  MaxOverrides = 1
  MaxDays = 2
  MaxRestarts = 1
  MaxInsertFailures = 1
INVARIANTS TypeOK TrailIsTruthful RecordedInOneLife
CHECK_DEADLOCK FALSE
PROPERTIES ImplementsMailbox QueueDrains
