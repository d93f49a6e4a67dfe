SPECIFICATION FairSpec
CONSTANTS
  Body = {b1, b2}
  None = None
  MaxChanges = 0
  MaxErrors = 0
  MaxRefetches = 0
PROPERTY PageComesUp
