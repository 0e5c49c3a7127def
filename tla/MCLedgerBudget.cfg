SPECIFICATION Spec
CONSTANTS
  c1 = c1
  p1 = p1
  p2 = p2
  metered = metered
  j1 = j1
  Callers = {c1}
  Projects = {p1, p2}
  Lanes = {metered}
  Jobs = {j1}
  NoJob = NoJob
  NoCap = NoCap
  ProjectCap <- MCProjectCap
  CallerDayCap <- MCCallerDayCap
  BrakeCap <- BudgetBrakeCap
  Inputs <- BudgetInputs
  Actuals <- BudgetActuals
  DayLength = 2
  DaysPerPeriod = 2
  Skew = 1
  MaxClock = 0
  MaxRequests = 3
INVARIANTS
  TypeOK
  TotalsMatchRows
  CapsHold
  NoFreeGeneration
  PinIsStable
PROPERTIES
  TerminalRowsFinal
  EveryAccountIsABudget
