\* Liveness across a crash, a pause, a resume and a retry.
SPECIFICATION FairSpec
CONSTANTS
  a = a
  b = b
  Inline = Inline
  Steps = {a}
  Plans <- SinglePlans
  MaxAttempts = 4
  MaxDecisions = 0
  MaxParallel = 1
  Adaptive = TRUE
  FailFast = {a}
  ProviderRetries = 0
  TimeoutRetries = 0
  MaxCommands = 2
  MaxCrashes = 1
  MaxFaults = 0
  MaxOutstanding = 1
  Commands = {"pause", "resume", "retry"}
PROPERTIES
  Progress
\* A settled execution has nothing left to do.
CHECK_DEADLOCK FALSE
