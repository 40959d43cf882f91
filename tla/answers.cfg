\* Liveness of a question and its answer.
SPECIFICATION FairSpec
CONSTANTS
  a = a
  b = b
  Inline = Inline
  Steps = {a}
  Plans <- SinglePlans
  MaxAttempts = 3
  MaxDecisions = 1
  MaxParallel = 1
  Adaptive = TRUE
  FailFast = {a}
  ProviderRetries = 1
  TimeoutRetries = 1
  MaxCommands = 2
  MaxCrashes = 0
  MaxFaults = 0
  MaxOutstanding = 1
  Commands = {"ask", "answer", "pause"}
PROPERTIES
  EffectsDelivered
  Progress
\* A settled execution has nothing left to do.
CHECK_DEADLOCK FALSE
