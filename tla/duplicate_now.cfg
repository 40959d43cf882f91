\* Two requests to run a job now, with the same operation id.
SPECIFICATION CronSpec
CONSTANTS
  Jobs = {j1}
  Ops = {p1}
  Schedules <- BothSchedules
  MaxTime = 2
  MaxRevisions = 1
  None = None
  Workers = {w1, w2}
  Shared = {j1}
  Commands = {"now"}
  MaxCommands = 2
  MaxFaults = 0
INVARIANT
  RequestedReceiptDecides
\* The clock and the commands are bounded.
CHECK_DEADLOCK FALSE
