\* One job bound to a conversation, added, updated, removed, run by hand and
\* deleted with its conversation, across resumes and a crash.
SPECIFICATION CronFairSpec
CONSTANTS
  Jobs = {j1}
  Ops = {p1}
  Schedules <- BothSchedules
  MaxTime = 3
  MaxRevisions = 2
  None = None
  Workers = {w1, w2}
  Shared = {j1}
  Commands <- AllCommands
  MaxCommands = 2
  MaxFaults = 1
INVARIANTS
  CronTypeOK
  ReceiptDecides
  TimerCovers
PROPERTIES
  AdmittedIsCurrent
  OccurrenceCloses
\* The clock and the commands are bounded.
CHECK_DEADLOCK FALSE
