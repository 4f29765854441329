SPECIFICATION Spec
CONSTANTS
  Executable <- MCExecutable
  RuntimeBase = 5
  QueueMax = 2
  Envs <- MCEnvs
  Configs <- MCConfigs
  Providers <- MCProviders
  Plans <- MCPlans
  Events <- MCEvents
  MaxAttempts = 2
  Budget = 5
INVARIANTS
  AcceptedIsCounted
  RingHoldsLatest
  FailedInstallLeavesNoCallback
  ShippedNeverPatches
  SelfcheckIsExact
PROPERTIES
  WiredIsPatched
  AllowedIsCurrent
CHECK_DEADLOCK FALSE
