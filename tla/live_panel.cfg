SPECIFICATION FairSpec
CONSTANTS
  MaxVersion = 1
  MaxDrops = 1
  MaxFlips = 1
  MaxRetries = 3
INVARIANTS
  TypeOK
  PollsWhileDisconnected
  QuietWhileConnected
  RestsOnlyAfterRefusal
PROPERTY CatchesUpOffline
CHECK_DEADLOCK FALSE
