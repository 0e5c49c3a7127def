SPECIFICATION FairService
CONSTANTS
  c1 = c1
  p1 = p1
  metered = metered
  t1 = t1
  t2 = t2
  Tasks = {t1, t2}
  Callers = {c1}
  Projects = {p1}
  Lanes = {metered}
  Jobs = {}
  NoJob = NoJob
  NoCap = NoCap
  ProjectCap <- MCAmpleProject
  CallerDayCap <- MCNoDayCap
  BrakeCap <- MCBrake
  Inputs <- MCInputs
  Actuals <- MCActuals
  DayLength = 1
  DaysPerPeriod = 1
  Skew = 0
  MaxClock = 0
  MaxRequests = 2
INVARIANTS
  ServiceTypeOK
  FreeMeansUngenerated
  OneGenerationPerRow
  RetryNeverDoublesSpend
PROPERTIES
  EveryRowCloses
