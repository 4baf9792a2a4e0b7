SPECIFICATION FairSpec
CONSTANTS
  d1 = d1  d2 = d2  k1 = k1  k2 = k2  w1 = w1  w2 = w2  e1 = e1  e2 = e2  c1 = c1  c2 = c2
  None = None
  Dispatchers = {d1}
  Workers = {k1}
  WatchIds = {w1}
  Events = {e1}
  Channels = {c1}
  Forms <- MCFirstForm
  EventRow <- MCEventRow
  Owner <- MCOwner
  Senderless = {}
  MaxAttempts = 5
  MaxEdits = 0
  MaxFaults = 0
CHECK_DEADLOCK FALSE
PROPERTIES
  PendingEnds
