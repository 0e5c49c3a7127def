CONSTANTS
  c1 = c1
  c2 = c2
  Calls <- MCCalls
  ConsecutiveFailures = 3
  FailureWindow = 3
  BackoffBase = 1
  BackoffCap = 2
  MaxEpisodes = 2
  SpendTimes <- MCSpendTimes
  ProbeFailDown = 2
  ProbeInterval = 3
  ProbeDownInterval = 1
  ProbeTimeout = 1
SPECIFICATION Spec
PROPERTIES CoolingHolds
