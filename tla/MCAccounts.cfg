SPECIFICATION Spec
CONSTANTS
  None = None
  Pool = {c1, c2}
  e1 = e1  e2 = e2
  Emails = {e1, e2}
  Registered <- MCRegistered
  MaxChannels = 2
  MaxWatches = 1
  MaxHits = 1
  MaxRequests = 3
  MaxCrashes = 1
INVARIANTS
  TypeOK
  CapsHold
  OwnChannelOnly
  
  VerifiedArrived
PROPERTIES
  UsedLinkIsDead
  EveryRequestAnswered
CHECK_DEADLOCK FALSE
