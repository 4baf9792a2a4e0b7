SPECIFICATION FairSpec
CONSTANTS
  k1 = k1  k2 = k2  a = a  b = b  c = c  l1 = l1  l2 = l2  l3 = l3
  poll = poll  op = op
  None = None
  Procs = {poll, op}
  Pollers = {poll}
  Days = {1, 2}
  Keys = {k1, k2}
  Vals = {a, b, c}
  Lines = {l1, l2, l3}
  EnRows <- MCEnRows
  HsRows <- MCHsRows
  MaxCopies = 2
  InOrderFeed = FALSE
  NServices = 1
  MaxVersion = 2
  Mismatched <- MCSometimesMismatched
  WindowDays = 1
  LastDay = 3
  MaxFaults = 1
CHECK_DEADLOCK FALSE
PROPERTIES
  SelfHealing
