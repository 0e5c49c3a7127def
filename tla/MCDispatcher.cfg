SPECIFICATION FairSpec
CONSTANTS
  sync = sync
  smoke = smoke
  k1 = k1
  NoKey = NoKey
  TaskTypes = {sync, smoke}
  Envelopes <- MCEnvelopes
  MaxAttempts <- MCMaxAttempts
  Registries <- MCRegistries
  RetryUnit = 1
  RetryCap = 1
  Jitter = 0
  MaxJobs = 2
  Concurrency = 2
  BridgeUnit = 1
  BridgeCap = 2
  MaxExponent = 1
  MaxRestarts = 2
INVARIANTS
  TypeOK
  AttemptsWithinBudget
  DispatchOwnsRow
  ProbeRunsAlone
  NoOvertaking
PROPERTIES
  CleanExitSeversNothing
  EveryJobKeepsPromise
  EveryJobEnds
  OutageEnds
