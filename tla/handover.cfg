\* A Conversation and a terminal whose loops are stopped, started and killed.
SPECIFICATION AutoWorkFairSpec
CONSTANTS
  None = None
  User = User
  Boot = Boot
  Requirements = {r1}
  Tags = {g}
  Conversations = {v}
  Terminals = {x}
  Declaring = {}
  Handlers = {h}
  MaxAttempts = 1
  MaxClaims = 2
  MaxEpochs = 2
  Commands = {"toggle", "cancel", "relaunch", "delete_terminal", "delete", "kill", "requeue"}
  MaxCommands = 2
  MaxFaults = 1
INVARIANTS
  OneDriver
  AtMostOnce
PROPERTIES
  CleanStart
  UserStopHolds
  ClaimsClose
\* An idle board may stop.
CHECK_DEADLOCK FALSE
