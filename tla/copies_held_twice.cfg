SPECIFICATION Spec
CONSTANTS
  i1 = i1  i2 = i2  i3 = i3  l1 = l1  t1 = t1
  None = None
  Action = {a1, a2}
  Anomaly = {n1, n2}
  Request = {r1}
  Invoice = {i1, i2, i3}
  License = {}
  Ticket = {}
  Quote = {}
  Pair <- ThreeCopies
  Amount <- MCAmount
  AutoApproveLimit = 1
  Estimate = {}
  Reasoned = {}
  JsonDecoded = FALSE
  ReviewFromQueue = TRUE
  PatchStatus = {}
  MaxFaults = 0
INVARIANTS OneOpenHold
