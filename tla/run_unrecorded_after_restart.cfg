SPECIFICATION Spec
CONSTANTS
  MaxTasks = 2
  MaxEntries = 2
  MaxQueueSize = 2
  MaxDetections = 1
  MaxOverrides = 0
  MaxDays = 1
  MaxRestarts = 1
  MaxInsertFailures = 0
INVARIANTS EveryRunRecorded
CHECK_DEADLOCK FALSE
