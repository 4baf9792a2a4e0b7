SPECIFICATION FairSpec
CONSTANTS
  None = None
  Days = {1}
  MaxVersion = 2
  SweepEvery = 2
  MaxBackoff = 16
  RegenEvery = 1
  MaxOutages = 0
  MaxBusy = 0
  MaxErrors = 0
PROPERTIES
  SweepIsDirect
