SPECIFICATION Spec
CONSTANTS
  i1 = i1  i2 = i2  i3 = i3  l1 = l1  t1 = t1
  None = None
  Action = {a1}
  Anomaly = {n1, n2}
  Request = {r1, r2}
  Invoice = {}
  License = {}
  Ticket = {t1}
  Quote = {}
  Pair = {}
  Amount <- MCAmount
  AutoApproveLimit = 2
  Estimate = {}
  Reasoned = {}
  JsonDecoded = FALSE
  ReviewFromQueue = TRUE
  PatchStatus = {}
  MaxFaults = 0
PROPERTIES OverriddenIsFinal
CHECK_DEADLOCK FALSE
