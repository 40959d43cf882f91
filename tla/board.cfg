\* Two Conversations, two queues: stops, requeues and a restart.
SPECIFICATION AutoWorkSpec
CONSTANTS
  None = None
  User = User
  Boot = Boot
  Requirements = {r1}
  Tags = {g, k}
  Conversations = {v, w}
  Terminals = {}
  Declaring = {w}
  Handlers = {}
  MaxAttempts = 1
  MaxClaims = 2
  MaxEpochs = 1
  Commands = {"requeue", "set_status", "resume", "cancel", "send", "retag"}
  MaxCommands = 2
  MaxFaults = 1
INVARIANTS
  AutoWorkTypeOK
  AtMostOnce
PROPERTIES
  DoneWasRun
  UserStopHolds
\* An idle board may stop.
CHECK_DEADLOCK FALSE
