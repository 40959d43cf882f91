\* Steps side by side and chained, retried, adopted and revised against a
\* stale snapshot.
SPECIFICATION Spec
CONSTANTS
  a = a
  b = b
  Inline = Inline
  Steps = {a, b}
  Plans <- RevisedPlans
  MaxAttempts = 2
  MaxDecisions = 0
  MaxParallel = 2
  Adaptive = TRUE
  FailFast = {a}
  ProviderRetries = 0
  TimeoutRetries = 0
  MaxCommands = 2
  MaxCrashes = 0
  MaxFaults = 0
  MaxOutstanding = 1
  Commands = {"approve", "replan", "adjust", "delete", "retry", "adopt", "pause"}
INVARIANTS
  RowsAgree
  SettledIsJustified
  QueuedHasOwner
PROPERTIES
  OnlyUsersReopen
  ImplementsLifecycle
\* A settled execution has nothing left to do.
CHECK_DEADLOCK FALSE
