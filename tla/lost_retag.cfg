\* A claimed requirement changes its queue, and the process restarts.
SPECIFICATION AutoWorkFairSpec
CONSTANTS
  None = None
  User = User
  Boot = Boot
  Requirements = {r1}
  Tags = {g, k}
  Conversations = {v}
  Terminals = {}
  Declaring = {}
  Handlers = {h}
  MaxAttempts = 1
  MaxClaims = 2
  MaxEpochs = 1
  Commands = {"retag"}
  MaxCommands = 1
  MaxFaults = 1
PROPERTIES
  ClaimsClose
\* An idle board may stop.
CHECK_DEADLOCK FALSE
