SPECIFICATION FairSpec
CONSTANTS
  MaxClients = 3
  MaxEvents = 2
  MaxSendings = 2
  MaxDrops = 1
INVARIANTS TypeOK  EndsOnlyByChurnOrRefusal
CHECK_DEADLOCK FALSE
  
