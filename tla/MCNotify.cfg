SPECIFICATION FairSpec
CONSTANTS
  d1 = d1  d2 = d2  k1 = k1  k2 = k2  w1 = w1  w2 = w2  e1 = e1  e2 = e2  c1 = c1  c2 = c2
  None = None
  Dispatchers = {d1, d2}
  Workers = {k1, k2}
  WatchIds = {w1, w2}
  Events = {e1}
  Channels = {c1, c2}
  Forms <- MCScopedForm
  EventRow <- MCEventRow
  Owner <- MCOwner
  Senderless = {c2}
  MaxAttempts = 5
  MaxEdits = 1
  MaxFaults = 1
CHECK_DEADLOCK FALSE
INVARIANTS
  TypeOK
  OneJob
  AtMostOnce
  SentArrived
  NewHasJob

  
