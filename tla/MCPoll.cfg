SPECIFICATION FairSpec
CONSTANTS
  None = None
  Days = {1}
  MaxVersion = 2
  SweepEvery = 3
  MaxBackoff = 2
  RegenEvery = 2
  MaxOutages = 1
  MaxBusy = 1
  MaxErrors = 2
INVARIANTS
  TypeOK
  LatencyBound
PROPERTIES
  MissingIsFound
  EverythingIsFound
