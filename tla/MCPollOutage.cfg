SPECIFICATION Spec
CONSTANTS
  None = None
  Days = {1}
  MaxVersion = 2
  SweepEvery = 4
  MaxBackoff = 16
  RegenEvery = 3
  MaxOutages = 1
  MaxBusy = 0
  MaxErrors = 0
PROPERTIES
  OutageBacksOff
