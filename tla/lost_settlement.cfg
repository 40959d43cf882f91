\* A steer between the read and the write of a settlement.
SPECIFICATION FairSpec
CONSTANTS
  a = a
  b = b
  Inline = Inline
  Steps = {a}
  Plans <- SinglePlans
  MaxAttempts = 1
  MaxDecisions = 0
  MaxParallel = 1
  Adaptive = TRUE
  FailFast = {a}
  ProviderRetries = 0
  TimeoutRetries = 0
  MaxCommands = 1
  MaxCrashes = 0
  MaxFaults = 0
  MaxOutstanding = 1
  Commands = {"steer"}
PROPERTIES
  Progress
\* A settled execution has nothing left to do.
CHECK_DEADLOCK FALSE
