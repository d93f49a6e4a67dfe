SPECIFICATION FairSpec
CONSTANTS
  i1 = i1  i2 = i2  i3 = i3  l1 = l1  t1 = t1
  None = None
  Action = {a1}
  Anomaly = {n1, n2}
  Request = {r1, r2}
  Invoice = {i1, i2}
  License = {l1}
  Ticket = {t1}
  Quote = {i2}
  Pair <- OnePair
  Amount <- MCAmount
  AutoApproveLimit = 1
  Estimate = {0, 2}
  Reasoned <- DuplicateI2
  JsonDecoded = TRUE
  ReviewFromQueue = TRUE
  PatchStatus = {}
  MaxFaults = 1
INVARIANTS TypeOK SuccessMeansApplied SuccessMeansApproved GateRespected DecidedOnce OverriddenIsUndone QueueMirrorsActions
PROPERTIES ImplementsContract RejectedIsFinal ApprovedIsClosed PendingIsClosed
