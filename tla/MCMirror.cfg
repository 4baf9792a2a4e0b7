SPECIFICATION Spec
CONSTANTS
  f1 = f1 f2 = f2 f3 = f3
  Blank = Blank None = None Rest = Rest
  BatchSize = 2
  Keys = {1, 2, 3, 4}
  Call <- MCCall
  Frn <- MCFrn
  Style <- MCStyle
  Touched <- MCTouched
  Lapses <- MCLapses
  Window = 2
  CutDays = {2}
  MaxBootstraps = 1
  MaxFaults = 1
  Queries <- MCQueries
  PageSize = 2
  MaxCommits = 3
  NewHamsWindow = 3
INVARIANTS
  LoadTypeOK
  StoredAsWritten
  
  
  
  
  NothingMissed
  OneHolder
  
  HitsResolve
  ToolFiltersApply
CHECK_DEADLOCK FALSE
