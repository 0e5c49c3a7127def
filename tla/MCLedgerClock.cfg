SPECIFICATION Spec
CONSTANTS
  c1 = c1
  p1 = p1
  p2 = p2
  metered = metered
  j1 = j1
  Callers = {c1}
  Projects = {p1}
  Lanes = {metered}
  Jobs = {}
  NoJob = NoJob
  NoCap = NoCap
  ProjectCap <- MCProjectCap
  CallerDayCap <- MCUncappedCaller
  BrakeCap <- MCBrakeCap
  Inputs <- ClockInputs
  Actuals <- ClockActuals
  DayLength = 2
  DaysPerPeriod = 2
  Skew = 1
  MaxClock = 4
  MaxRequests = 2
INVARIANTS
  TotalsMatchRows
  PeriodsNeverReopen
  GateAgrees
PROPERTIES
  NoOrphanAtListen
  LatchStopsLane
