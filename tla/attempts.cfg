\* One step: questions, answers and steers against pause, cancel, retry and adopt,
\* with a crash at any point and an expired lease.
SPECIFICATION Spec
CONSTANTS
  a = a
  b = b
  Inline = Inline
  Steps = {a}
  Plans <- SinglePlans
  MaxAttempts = 2
  MaxDecisions = 1
  MaxParallel = 2
  Adaptive = TRUE
  FailFast = {a}
  ProviderRetries = 1
  TimeoutRetries = 0
  MaxCommands = 2
  MaxCrashes = 1
  MaxFaults = 1
  MaxOutstanding = 1
  Commands = {"ask", "answer", "steer", "pause", "resume", "cancel", "retry", "adopt"}
INVARIANTS
  TypeOK
  RowsAgree
  SerialConversation
  OneActiveAttempt
  QueuedHasOwner
  PausedIsQuiet
  EffectsDeliverable
PROPERTIES
  ReviewIsFinal
  ImplementsLifecycle
\* A settled execution has nothing left to do.
CHECK_DEADLOCK FALSE
