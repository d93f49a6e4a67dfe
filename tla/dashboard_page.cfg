SPECIFICATION FairSpec
CONSTANTS
  Body = {b1, b2}
  None = None
  MaxChanges = 2
  MaxErrors = 1
  MaxRefetches = 1
INVARIANTS TypeOK SpinnerMeansCall
PROPERTIES AnswersAreFresh Converges
