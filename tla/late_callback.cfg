\* A callback from before a question.
SPECIFICATION Spec
CONSTANTS
  a = a
  b = b
  Inline = Inline
  Steps = {a}
  Plans <- SinglePlans
  MaxAttempts = 1
  MaxDecisions = 1
  MaxParallel = 1
  Adaptive = TRUE
  FailFast = {a}
  ProviderRetries = 0
  TimeoutRetries = 0
  MaxCommands = 1
  MaxCrashes = 0
  MaxFaults = 0
  MaxOutstanding = 1
  Commands = {"ask", "answer"}
PROPERTIES
  OnlyCurrentTurnSettles
\* A settled execution has nothing left to do.
CHECK_DEADLOCK FALSE
