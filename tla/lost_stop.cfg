\* A crash between a question and the stop of its turn.
SPECIFICATION FairSpec
CONSTANTS
  a = a
  b = b
  Inline = Inline
  Steps = {a}
  Plans <- SinglePlans
  MaxAttempts = 1
  MaxDecisions = 1
  MaxParallel = 1
  Adaptive = TRUE
  FailFast = {a}
  ProviderRetries = 0
  TimeoutRetries = 0
  MaxCommands = 0
  MaxCrashes = 1
  MaxFaults = 0
  MaxOutstanding = 1
  Commands = {"ask"}
PROPERTIES
  EffectsDelivered
\* A settled execution has nothing left to do.
CHECK_DEADLOCK FALSE
