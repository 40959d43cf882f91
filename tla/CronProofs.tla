----------------------------- MODULE CronProofs -----------------------------
(***************************************************************************)
(* Proofs about Cron, for every value of its constants: types (CronInv),   *)
(* receipts decide (ReceiptInv), admissions are current (TickInv) and no   *)
(* occurrence is lost (CoverInv).  Each part uses the invariants before    *)
(* it.                                                                     *)
(***************************************************************************)
EXTENDS CronCorrectness, TLAPS

-----------------------------------------------------------------------------
(* Type correctness.  The fields that Occurrence and the next revision are *)
(* built from have to be in range where they are used.                     *)

RowsSane == \A j \in Jobs : job[j].status # "absent" => job[j].rev >= 1

TaskSane(t) ==
  /\ t.pc = "updating" => t.row.rev < MaxRevisions
  /\ t.pc = "advancing" /\ t.outcome # "unexecutable" => t.run \in Scheduled
TasksTyped ==
  /\ task \in [Workers -> Task]
  /\ \A w \in Workers : TaskSane(task[w])

SweepTyped ==
  /\ sweep \in Sweep
  /\ sweep.pc \in {"recovered", "missed", "passed"} => sweep.run \in Scheduled

TimersTyped == timer \in [Jobs -> Timer] /\ revoked \subseteq Workers

JobsTyped == job \in [Jobs -> JobRow] /\ RowsSane
RunsTyped == run \in [Runs -> RunRow]

TurnsTyped ==
  /\ receipt \in [Runs -> {"none", "accepted", "ok", "error"}]
  /\ live \subseteq Runs

BoundsTyped ==
  /\ now \in 1 .. MaxTime
  /\ left \in [commands : 0 .. MaxCommands, faults : 0 .. MaxFaults]

CronInv ==
  /\ JobsTyped /\ RunsTyped /\ TasksTyped /\ SweepTyped /\ TimersTyped
  /\ TurnsTyped /\ BoundsTyped

-----------------------------------------------------------------------------
(* The operators the actions are built from.                               *)

LEMMA TimesFacts ==
  /\ Times \subseteq Nat
  /\ NoTime \in Times /\ Later \in Times
  /\ \A t \in Nat : 1 <= t /\ t <= MaxTime => t \in Times
  /\ NoTime = 0
  <1>1. Later \in Nat /\ NoTime = 0 /\ Later = MaxTime + 1 /\ MaxTime \in Nat
    BY CronAssumption DEF Later, NoTime
  <1>2. Times = 0 .. MaxTime + 1
    BY <1>1 DEF Times
  <1>3. Times \subseteq Nat
    BY <1>1, <1>2
  <1>4. NoTime \in Times /\ Later \in Times
    BY <1>1, <1>2
  <1>5. \A t \in Nat : 1 <= t /\ t <= MaxTime => t \in Times
    BY <1>1, <1>2
  <1> QED BY <1>1, <1>3, <1>4, <1>5

LEMMA ScheduleFacts ==
  \A s \in Schedules : s.kind \in {"at", "every"} /\ s.n \in 1 .. MaxTime
  BY CronAssumption

LEMMA NextRunType ==
  ASSUME NEW s \in Schedules, NEW t \in 1 .. MaxTime
  PROVE  NextRun(s, t) \in Times
  BY CronAssumption, ScheduleFacts, TimesFacts DEF NextRun

LEMMA NewRowType ==
  ASSUME NEW s \in Schedules, NEW t \in 1 .. MaxTime
  PROVE  /\ NewRow(s, t) \in JobRow
         /\ NewRow(s, t).rev = 1
         /\ NewRow(s, t).status = "live"
  BY NextRunType, CronAssumption DEF NewRow, JobRow, Presence

LEMMA NewTimerType ==
  ASSUME NEW row \in JobRow
  PROVE  NewTimer(row) \in Timer
  BY ScheduleFacts, CronAssumption DEF NewTimer, Timer, JobRow

LEMMA NoTimerType == NoTimer \in Timer
  BY TimesFacts, CronAssumption DEF NoTimer, Timer

LEMMA OccurrenceType ==
  ASSUME NEW j \in Jobs, NEW r \in 1 .. MaxRevisions, NEW t \in Times
  PROVE  Occurrence(j, r, t) \in Scheduled
  BY DEF Occurrence, Scheduled

LEMMA RunNowType ==
  ASSUME NEW j \in Jobs, NEW o \in Ops
  PROVE  RunNow(j, o) \in Requested
  BY DEF RunNow, Requested

LEMMA RunsFacts ==
  /\ Scheduled \subseteq Runs
  /\ Requested \subseteq Runs
  /\ \A o \in Runs : o.job \in Jobs
  /\ \A o \in Scheduled : o.rev \in 1 .. MaxRevisions
  BY DEF Runs, Scheduled, Requested

LEMMA PlannedType ==
  ASSUME JobsTyped, NEW j \in Jobs, job[j].status # "absent"
  PROVE  Occurrence(j, job[j].rev, job[j].next) \in Scheduled
  <1>1. job[j].rev \in 1 .. MaxRevisions /\ job[j].next \in Times
    BY CronAssumption DEF JobsTyped, RowsSane, JobRow
  <1> QED BY <1>1, OccurrenceType

LEMMA CancelTimersType ==
  ASSUME TimersTyped, NEW js, CancelTimers(js)
  PROVE  TimersTyped'
  BY NoTimerType DEF TimersTyped, CancelTimers, TicksOf

LEMMA ScheduleJobType ==
  ASSUME TimersTyped, NEW j \in Jobs, NEW row \in JobRow, ScheduleJob(j, row)
  PROVE  TimersTyped'
  <1>1. CASE UNCHANGED <<timer, revoked>>
    BY <1>1 DEF TimersTyped
  <1>2. CASE CancelTimers({j})
    BY <1>2, CancelTimersType
  <1>3. CASE /\ timer' = [timer EXCEPT ![j] = NewTimer(row)]
             /\ revoked' = revoked \cup TicksOf({j})
    BY <1>3, NewTimerType DEF TimersTyped, TicksOf
  <1> QED BY <1>1, <1>2, <1>3 DEF ScheduleJob

LEMMA FinalizeType ==
  ASSUME RunsTyped, NEW o, NEW s \in Settled, Finalize(o, s)
  PROVE  RunsTyped'
  BY DEF RunsTyped, RunRow, Finalize

LEMMA ReserveType ==
  ASSUME RunsTyped, NEW o, Reserve(o)
  PROVE  RunsTyped'
  BY DEF RunsTyped, RunRow, Reserve

LEMMA AttachType ==
  ASSUME RunsTyped, NEW o, Attach(o)
  PROVE  RunsTyped'
  BY DEF RunsTyped, RunRow, Attach

LEMMA DeleteJobType ==
  ASSUME JobsTyped, RunsTyped, NEW j \in Jobs, NEW s \in {"removed", "cascaded"},
         Live(j), DeleteJob(j, s)
  PROVE  JobsTyped' /\ RunsTyped'
  <1>1. JobsTyped'
    BY DEF JobsTyped, RowsSane, JobRow, Presence, DeleteJob, Live
  <1>2. RunsTyped'
    BY DEF RunsTyped, RunRow, DeleteJob, NoRun
  <1> QED BY <1>1, <1>2

\* the fields of a task that is under way
LEMMA TaskFields ==
  ASSUME NEW t \in Task, t.pc # "idle"
  PROVE  /\ t \in [pc : Pcs \ {"idle"}, run : Runs, row : JobRow, outcome : Outcomes]
         /\ t.run \in Runs /\ t.row \in JobRow /\ t.outcome \in Outcomes
         /\ t.run.job \in Jobs
  BY RunsFacts DEF Task, NoTask

LEMMA ReturnType ==
  ASSUME TasksTyped, NEW w \in Workers, Return(w)
  PROVE  TasksTyped'
  BY DEF TasksTyped, Return, Task, NoTask, TaskSane

LEMMA StartType ==
  ASSUME TasksTyped, NEW w \in Workers, NEW pc \in Pcs \ {"idle", "advancing"},
         NEW o \in Runs, NEW row \in JobRow,
         pc = "updating" => row.rev < MaxRevisions,
         Start(w, pc, o, row)
  PROVE  TasksTyped'
  BY DEF TasksTyped, Start, Task, TaskSane, Outcomes

LEMMA StepType ==
  ASSUME TasksTyped, NEW w \in Workers, task[w].pc # "idle",
         NEW pc \in Pcs \ {"idle", "updating", "advancing"},
         NEW row \in JobRow, NEW outcome \in Outcomes,
         task' = [task EXCEPT ![w] = [pc |-> pc, run |-> task[w].run, row |-> row,
                                      outcome |-> outcome]]
  PROVE  TasksTyped'
  <1>1. task[w].run \in Runs
    BY TaskFields DEF TasksTyped
  <1> QED BY <1>1 DEF TasksTyped, Task, TaskSane

\* the record forms of the steps of a task
LEMMA StepForms ==
  ASSUME TasksTyped, NEW w \in Workers, task[w].pc # "idle", NEW pc
  PROVE  /\ [task[w] EXCEPT !.pc = pc] =
              [pc |-> pc, run |-> task[w].run, row |-> task[w].row,
               outcome |-> task[w].outcome]
         /\ \A r : [task[w] EXCEPT !.pc = pc, !.outcome = r] =
              [pc |-> pc, run |-> task[w].run, row |-> task[w].row, outcome |-> r]
         /\ \A r : [task[w] EXCEPT !.pc = pc, !.row = r] =
              [pc |-> pc, run |-> task[w].run, row |-> r,
               outcome |-> task[w].outcome]
  <1>1. task[w] \in [pc : Pcs \ {"idle"}, run : Runs, row : JobRow, outcome : Outcomes]
    BY TaskFields DEF TasksTyped
  <1> DEFINE t == task[w]
  <1>2. t = [pc |-> t.pc, run |-> t.run, row |-> t.row, outcome |-> t.outcome]
    BY <1>1
  <1> HIDE DEF t
  <1>3. [t EXCEPT !.pc = pc] =
          [pc |-> pc, run |-> t.run, row |-> t.row, outcome |-> t.outcome]
    BY <1>2
  <1>4. ASSUME NEW r
        PROVE  [t EXCEPT !.pc = pc, !.outcome = r] =
                 [pc |-> pc, run |-> t.run, row |-> t.row, outcome |-> r]
    <2> DEFINE u == [t EXCEPT !.pc = pc]
    <2>1. u = [pc |-> pc, run |-> t.run, row |-> t.row, outcome |-> t.outcome]
      BY <1>3
    <2> HIDE DEF u
    <2>2. [u EXCEPT !.outcome = r] =
            [pc |-> pc, run |-> t.run, row |-> t.row, outcome |-> r]
      BY <2>1
    <2> QED BY <2>2 DEF u
  <1>5. ASSUME NEW r
        PROVE  [t EXCEPT !.pc = pc, !.row = r] =
                 [pc |-> pc, run |-> t.run, row |-> r, outcome |-> t.outcome]
    <2> DEFINE u == [t EXCEPT !.pc = pc]
    <2>1. u = [pc |-> pc, run |-> t.run, row |-> t.row, outcome |-> t.outcome]
      BY <1>3
    <2> HIDE DEF u
    <2>2. [u EXCEPT !.row = r] =
            [pc |-> pc, run |-> t.run, row |-> r, outcome |-> t.outcome]
      BY <2>1
    <2> QED BY <2>2 DEF u
  <1> QED BY <1>3, <1>4, <1>5 DEF t

LEMMA RowForm ==
  ASSUME TasksTyped, NEW w \in Workers, task[w].pc # "idle", NEW pc, NEW r,
         task' = [task EXCEPT ![w].pc = pc, ![w].row = r]
  PROVE  task' = [task EXCEPT ![w] =
                    [pc |-> pc, run |-> task[w].run, row |-> r,
                     outcome |-> task[w].outcome]]
  <1> DEFINE t == [task[w] EXCEPT !.pc = pc, !.row = r]
  <1>1. t = [pc |-> pc, run |-> task[w].run, row |-> r, outcome |-> task[w].outcome]
    BY StepForms
  <1>2. task' = [task EXCEPT ![w] = t]
    <2>1. w \in DOMAIN task
      BY DEF TasksTyped
    <2> QED BY <2>1
  <1> HIDE DEF t
  <1> QED BY <1>1, <1>2

LEMMA ReportForm ==
  ASSUME TasksTyped, NEW w \in Workers, task[w].pc # "idle", NEW r,
         task' = [task EXCEPT ![w].pc = "result", ![w].outcome = r]
  PROVE  task' = [task EXCEPT ![w] =
                    [pc |-> "result", run |-> task[w].run, row |-> task[w].row,
                     outcome |-> r]]
  <1> DEFINE t == [task[w] EXCEPT !.pc = "result", !.outcome = r]
  <1>1. t = [pc |-> "result", run |-> task[w].run, row |-> task[w].row, outcome |-> r]
    BY StepForms
  <1>2. task' = [task EXCEPT ![w] = t]
    <2>1. w \in DOMAIN task
      BY DEF TasksTyped
    <2> QED BY <2>1
  <1> HIDE DEF t
  <1> QED BY <1>1, <1>2

LEMMA GotoType ==
  ASSUME TasksTyped, NEW w \in Workers, task[w].pc # "idle",
         NEW pc \in Pcs \ {"idle", "updating", "advancing"}, Goto(w, pc)
  PROVE  TasksTyped'
  <1>1. task' = [task EXCEPT ![w] =
                   [pc |-> pc, run |-> task[w].run, row |-> task[w].row,
                    outcome |-> task[w].outcome]]
    BY StepForms DEF Goto, TasksTyped
  <1>2. task[w].row \in JobRow /\ task[w].outcome \in Outcomes
    BY TaskFields DEF TasksTyped
  <1> QED BY <1>1, <1>2, StepType

LEMMA ReportedType ==
  ASSUME TasksTyped, NEW w \in Workers, task[w].pc # "idle", NEW r \in Outcomes,
         task' = [task EXCEPT ![w] =
                    [pc |-> "result", run |-> task[w].run, row |-> task[w].row,
                     outcome |-> r]]
  PROVE  TasksTyped'
  <1>1. task[w].row \in JobRow /\ "result" \in Pcs \ {"idle", "updating", "advancing"}
    BY TaskFields DEF TasksTyped, Pcs
  <1> QED BY <1>1, StepType

LEMMA ReportType ==
  ASSUME TasksTyped, NEW w \in Workers, task[w].pc # "idle", NEW r \in Outcomes,
         task' = [task EXCEPT ![w].pc = "result", ![w].outcome = r]
  PROVE  TasksTyped'
  <1>1. task' = [task EXCEPT ![w] =
                   [pc |-> "result", run |-> task[w].run, row |-> task[w].row,
                    outcome |-> r]]
    BY ReportForm
  <1> QED BY <1>1, ReportedType

LEMMA AdvancedRowType ==
  ASSUME JobsTyped, NEW o \in Scheduled, Live(o.job), NEW t \in 1 .. MaxTime
  PROVE  /\ AdvancedRow(o, t) \in JobRow
         /\ AdvancedRow(o, t).status = "live"
         /\ AdvancedRow(o, t).rev = job[o.job].rev
  <1>1. o.job \in Jobs
    BY RunsFacts
  <1>2. job[o.job] \in JobRow
    BY <1>1 DEF JobsTyped
  <1>3. NextRun(job[o.job].sched, t) \in Times
    BY <1>2, NextRunType DEF JobRow
  <1> QED BY <1>2, <1>3, TimesFacts DEF AdvancedRow, JobRow, Live

LEMMA AdvanceAfterType ==
  ASSUME JobsTyped, TimersTyped, NEW o \in Scheduled, now \in 1 .. MaxTime,
         AdvanceAfter(o)
  PROVE  JobsTyped' /\ TimersTyped'
  <1>1. CASE ~Advanceable(o)
    BY <1>1 DEF AdvanceAfter, JobsTyped, RowsSane, TimersTyped
  <1>2. CASE Advanceable(o)
    <2> DEFINE row == AdvancedRow(o, now)
    <2>1. o.job \in Jobs /\ Live(o.job)
      BY <1>2, RunsFacts DEF Advanceable, Plans
    <2>2. row \in JobRow /\ row.status = "live" /\ row.rev = job[o.job].rev
      BY <2>1, AdvancedRowType
    <2>3. job' = [job EXCEPT ![o.job] = row] /\ ScheduleJob(o.job, row)
      BY <1>2 DEF AdvanceAfter
    <2> HIDE DEF row
    <2>4. TimersTyped'
      BY <2>1, <2>2, <2>3, ScheduleJobType
    <2>5. JobsTyped'
      BY <2>1, <2>2, <2>3 DEF JobsTyped, RowsSane, Live
    <2> QED BY <2>4, <2>5
  <1> QED BY <1>1, <1>2

LEMMA DisabledType ==
  ASSUME JobsTyped, NEW w \in Workers, Disabled(w)
  PROVE  JobsTyped'
  <1> DEFINE j == task[w].run.job
             e == job[j].enabled /\ ~(Live(j) /\ job[j].rev = task[w].row.rev)
  <1>1. e \in BOOLEAN
    OBVIOUS
  <1>2. job' = [job EXCEPT ![j].enabled = e]
    BY DEF Disabled
  <1> HIDE DEF j, e
  <1> QED BY <1>1, <1>2 DEF JobsTyped, RowsSane, JobRow

LEMMA SpendType ==
  ASSUME BoundsTyped, NEW c, Spend(c), now' = now
  PROVE  BoundsTyped'
  BY WorkerAssumption DEF BoundsTyped, Spend


\* what a step leaves alone keeps its type
LEMMA Frame ==
  /\ JobsTyped /\ job' = job => JobsTyped'
  /\ RunsTyped /\ run' = run => RunsTyped'
  /\ TasksTyped /\ task' = task => TasksTyped'
  /\ SweepTyped /\ sweep' = sweep => SweepTyped'
  /\ TimersTyped /\ timer' = timer /\ revoked' = revoked => TimersTyped'
  /\ TurnsTyped /\ receipt' = receipt /\ live' = live => TurnsTyped'
  /\ BoundsTyped /\ now' = now /\ left' = left => BoundsTyped'
  BY DEF JobsTyped, RowsSane, RunsTyped, TasksTyped, TaskSane, SweepTyped,
         TimersTyped, TurnsTyped, BoundsTyped

-----------------------------------------------------------------------------
(* The timers and the ticks.                                               *)

LEMMA DispatchTickType ==
  ASSUME CronInv, NEW j \in Jobs, NEW w \in Workers, DispatchTick(j, w)
  PROVE  CronInv'
  <1> USE DEF CronInv
  <1> DEFINE past(t) ==
        IF timer[j].every = 0 \/ t + timer[j].every > MaxTime THEN Later
        ELSE t + timer[j].every
  <1>0. timer[j] \in Timer /\ job[j] \in JobRow
    BY DEF TimersTyped, JobsTyped
  <1>1. timer[j].rev \in 1 .. MaxRevisions /\ timer[j].at \in Times
        /\ timer[j].every \in 0 .. MaxTime
    BY <1>0, CronAssumption DEF Timer, DispatchTick
  <1>2. Occurrence(j, timer[j].rev, timer[j].at) \in Runs
    BY <1>1, OccurrenceType, RunsFacts
  <1>3. TasksTyped'
    BY <1>0, <1>2, StartType DEF DispatchTick, Pcs
  <1>4. \A t \in Times : past(t) \in Times
    <2> TAKE t \in Times
    <2>1. t \in Nat /\ MaxTime \in Nat /\ timer[j].every \in Nat
      BY <1>1, CronAssumption, TimesFacts DEF Times, NoTime, Later
    <2>2. CASE timer[j].every = 0 \/ t + timer[j].every > MaxTime
      BY <2>2, TimesFacts
    <2>3. CASE ~(timer[j].every = 0 \/ t + timer[j].every > MaxTime)
      BY <2>1, <2>3, TimesFacts
    <2> QED BY <2>2, <2>3
  <1>n. now \in Times
    BY TimesFacts DEF BoundsTyped
  <1>5. past(timer[j].at) \in Times /\ past(now) \in Times
    BY <1>1, <1>4, <1>n
  <1>6. timer' = [timer EXCEPT ![j].at = past(@), ![j].due = past(now)]
        /\ revoked' = revoked
    BY DEF DispatchTick
  <1> HIDE DEF past
  <1>7. [timer[j] EXCEPT !.at = past(timer[j].at), !.due = past(now)] \in Timer
    BY <1>0, <1>5 DEF Timer
  <1>8. TimersTyped'
    BY <1>6, <1>7 DEF TimersTyped
  <1> QED BY <1>3, <1>8, Frame DEF DispatchTick

LEMMA AbsorbedType ==
  ASSUME TasksTyped, TimersTyped, NEW w \in Workers, Absorbed(w), timer' = timer
  PROVE  TasksTyped' /\ TimersTyped'
  BY ReturnType DEF Absorbed, TimersTyped

LEMMA TickEntersType ==
  ASSUME CronInv, NEW w \in Workers, TickEnters(w)
  PROVE  CronInv'
  <1> USE DEF CronInv
  <1> DEFINE j == task[w].run.job
  <1>1. task[w].pc = "tick" /\ j \in Jobs /\ task[w].outcome \in Outcomes
    BY TaskFields DEF TickEnters, TasksTyped
  <1>2. job[j] \in JobRow
    BY <1>1 DEF JobsTyped
  <1>3. CASE Absorbed(w) /\ timer' = timer
    BY <1>3, AbsorbedType, Frame DEF TickEnters
  <1>4. CASE /\ timer' = [timer EXCEPT ![j] = NoTimer]
             /\ revoked' = (revoked \cup TicksOf({j})) \ {w}
             /\ Return(w)
    <2>1. TimersTyped'
      BY <1>4, NoTimerType DEF TimersTyped, TicksOf
    <2> QED BY <1>4, <2>1, ReturnType, Frame DEF TickEnters
  <1>5. CASE /\ task' = [task EXCEPT ![w].pc = "claiming", ![w].row = job[j]]
             /\ UNCHANGED <<timer, revoked>>
    <2>1. task' = [task EXCEPT ![w] =
                     [pc |-> "claiming", run |-> task[w].run, row |-> job[j],
                      outcome |-> task[w].outcome]]
      BY <1>1, <1>5, RowForm
    <2>2. TasksTyped'
      BY <1>1, <1>2, <2>1, StepType DEF Pcs
    <2> QED BY <1>5, <2>2, Frame DEF TickEnters
  <1> QED BY <1>3, <1>4, <1>5 DEF TickEnters

LEMMA TickReservesType ==
  ASSUME CronInv, NEW w \in Workers, TickReserves(w)
  PROVE  CronInv'
  <1> USE DEF CronInv
  <1>1. CASE Reserve(task[w].run) /\ Goto(w, "reserved") /\ revoked' = revoked
    BY <1>1, ReserveType, GotoType, Frame DEF TickReserves, Pcs
  <1>2. CASE run' = run /\ Absorbed(w)
    BY <1>2, AbsorbedType, Frame DEF TickReserves
  <1> QED BY <1>1, <1>2 DEF TickReserves

LEMMA TickVerifiesType ==
  ASSUME CronInv, NEW w \in Workers, TickVerifies(w)
  PROVE  CronInv'
  <1> USE DEF CronInv
  <1>1. CASE Goto(w, "verified") /\ UNCHANGED <<run, revoked>>
    BY <1>1, GotoType, Frame DEF TickVerifies, Pcs
  <1>2. CASE Finalize(task[w].run, "skipped") /\ Absorbed(w)
    BY <1>2, FinalizeType, AbsorbedType, Frame DEF TickVerifies, Settled
  <1> QED BY <1>1, <1>2 DEF TickVerifies

LEMMA TickCommitsType ==
  ASSUME CronInv, NEW w \in Workers, TickCommits(w)
  PROVE  CronInv'
  <1> USE DEF CronInv
  <1>1. CASE Goto(w, "admitted") /\ UNCHANGED <<run, revoked>>
    BY <1>1, GotoType, Frame DEF TickCommits, Pcs
  <1>2. CASE Finalize(task[w].run, "skipped") /\ Absorbed(w)
    BY <1>2, FinalizeType, AbsorbedType, Frame DEF TickCommits, Settled
  <1> QED BY <1>1, <1>2 DEF TickCommits

-----------------------------------------------------------------------------
(* A run from its admission to its end.                                    *)

LEMMA NowReservesType ==
  ASSUME CronInv, NEW w \in Workers, NEW j \in Jobs, NEW o \in Ops,
         NowReserves(w, j, o)
  PROVE  CronInv'
  <1> USE DEF CronInv
  <1> DEFINE r == RunNow(j, o)
  <1>1. r \in Runs /\ job[j] \in JobRow
    BY RunNowType, RunsFacts DEF JobsTyped
  <1>2. BoundsTyped'
    BY SpendType DEF NowReserves
  <1> HIDE DEF r
  <1>3. CASE Reserve(r) /\ Start(w, "admitted", r, job[j])
    BY <1>1, <1>2, <1>3, ReserveType, StartType, Frame DEF NowReserves, Pcs
  <1>4. CASE Start(w, "duplicate", r, job[j]) /\ run' = run
    BY <1>1, <1>2, <1>4, StartType, Frame DEF NowReserves, Pcs
  <1> QED BY <1>3, <1>4 DEF NowReserves, r

LEMMA DuplicateSettlesType ==
  ASSUME CronInv, NEW w \in Workers, DuplicateSettles(w)
  PROVE  CronInv'
  BY FinalizeType, ReturnType, Frame DEF CronInv, DuplicateSettles, Settled

LEMMA AttachesType ==
  ASSUME CronInv, NEW w \in Workers, Attaches(w)
  PROVE  CronInv'
  BY AttachType, GotoType, Frame DEF CronInv, Attaches, Pcs

LEMMA PrepareFailsType ==
  ASSUME CronInv, NEW w \in Workers, PrepareFails(w)
  PROVE  CronInv'
  <1> USE DEF CronInv
  <1>1. task[w].pc = "admitted"
    BY DEF PrepareFails
  <1>2. PICK r \in {"error", "unexecutable"} :
          IF task[w].run \in Scheduled
          THEN /\ task' = [task EXCEPT ![w].pc = "result", ![w].outcome = r]
               /\ UNCHANGED <<job, run>>
          ELSE /\ Finalize(task[w].run, "error")
               /\ IF r = "unexecutable" THEN Disabled(w) ELSE job' = job
               /\ Return(w)
    BY DEF PrepareFails
  <1>3. CASE task[w].run \in Scheduled
    BY <1>1, <1>2, <1>3, ReportType, Frame DEF PrepareFails, Outcomes
  <1>4. CASE task[w].run \notin Scheduled
    BY <1>2, <1>4, FinalizeType, DisabledType, ReturnType, Frame
    DEF PrepareFails, Settled
  <1> QED BY <1>3, <1>4

LEMMA BeginsType ==
  ASSUME CronInv, NEW w \in Workers, Begins(w)
  PROVE  CronInv'
  BY GotoType, ReportType, Frame DEF CronInv, Begins, Pcs, Outcomes

LEMMA SendsType ==
  ASSUME CronInv, NEW w \in Workers, Sends(w)
  PROVE  CronInv'
  <1> USE DEF CronInv
  <1>1. task[w].run \in Runs
    BY TaskFields DEF Sends, TasksTyped
  <1>2. TurnsTyped'
    BY <1>1 DEF Sends, TurnsTyped
  <1> QED BY <1>2, GotoType, Frame DEF Sends, Pcs

LEMMA SendRefusedType ==
  ASSUME CronInv, NEW w \in Workers, SendRefused(w)
  PROVE  CronInv'
  BY ReportType, Frame DEF CronInv, SendRefused, Outcomes

LEMMA SendUnprovenType ==
  ASSUME CronInv, NEW w \in Workers, SendUnproven(w)
  PROVE  CronInv'
  <1> USE DEF CronInv
  <1>1. TurnsTyped'
    BY DEF SendUnproven, TurnsTyped
  <1>2. BoundsTyped'
    BY WorkerAssumption DEF SendUnproven, BoundsTyped
  <1> QED BY <1>1, <1>2, ReturnType, Frame DEF SendUnproven

LEMMA TurnEndsType ==
  ASSUME CronInv, NEW o \in Runs, TurnEnds(o)
  PROVE  CronInv'
  <1>1. TurnsTyped'
    BY DEF CronInv, TurnEnds, TurnsTyped
  <1> QED BY <1>1, Frame DEF CronInv, TurnEnds

LEMMA WaitObservesType ==
  ASSUME CronInv, NEW w \in Workers, WaitObserves(w)
  PROVE  CronInv'
  <1>1. receipt[task[w].run] \in Outcomes
    BY DEF WaitObserves, Outcomes
  <1> QED BY <1>1, ReportType, Frame DEF CronInv, WaitObserves


LEMMA SettlesType ==
  ASSUME CronInv, NEW w \in Workers, Settles(w)
  PROVE  CronInv'
  <1> USE DEF CronInv
  <1>1. task[w].pc = "result" /\ task[w].outcome \in Outcomes
    BY TaskFields DEF Settles, TasksTyped
  <1>2. RunsTyped'
    <2>1. CASE SettledAs(task[w].outcome) \in Settled
      BY <2>1, FinalizeType DEF Settles
    <2>2. CASE SettledAs(task[w].outcome) = "none"
      BY <2>2 DEF Settles, Finalize, RunsTyped, RunRow
    <2> QED BY <1>1, <2>1, <2>2 DEF SettledAs, Settled, Outcomes
  <1>3. TasksTyped'
    <2>1. CASE Return(w)
      BY <2>1, ReturnType
    <2>2. CASE /\ Goto(w, "advancing")
               /\ task[w].run \in Scheduled \/ task[w].outcome = "unexecutable"
      <3>1. task' = [task EXCEPT ![w] =
                       [pc |-> "advancing", run |-> task[w].run,
                        row |-> task[w].row, outcome |-> task[w].outcome]]
        BY <1>1, <2>2, StepForms DEF Goto, TasksTyped
      <3>2. task[w].row \in JobRow /\ task[w].run \in Runs
        BY <1>1, TaskFields DEF TasksTyped
      <3> QED BY <1>1, <2>2, <3>1, <3>2 DEF TasksTyped, Task, TaskSane, Pcs
    <2> QED BY <2>1, <2>2 DEF Settles
  <1> QED BY <1>2, <1>3, Frame DEF Settles

LEMMA AdvancesType ==
  ASSUME CronInv, NEW w \in Workers, Advances(w)
  PROVE  CronInv'
  <1> USE DEF CronInv
  <1>1. CASE Disabled(w) /\ UNCHANGED <<timer, revoked>>
    BY <1>1, DisabledType, ReturnType, Frame DEF Advances
  <1>2. CASE AdvanceAfter(task[w].run) /\ task[w].outcome # "unexecutable"
    <2>1. task[w].run \in Scheduled
      BY <1>2 DEF Advances, TasksTyped, TaskSane
    <2> QED BY <1>2, <2>1, AdvanceAfterType, ReturnType, Frame DEF Advances, BoundsTyped
  <1> QED BY <1>1, <1>2 DEF Advances

-----------------------------------------------------------------------------
(* The users' commands.                                                    *)

LEMMA AddJobType ==
  ASSUME CronInv, NEW w \in Workers, NEW j \in Jobs, AddJob(w, j)
  PROVE  CronInv'
  <1> USE DEF CronInv
  <1>1. PICK s \in Schedules :
          /\ Spend("add")
          /\ job' = [job EXCEPT ![j] = NewRow(s, now)]
          /\ Start(w, "adding", Occurrence(j, 1, NewRow(s, now).next), NewRow(s, now))
          /\ UNCHANGED <<run, now, timer, revoked, receipt, live, sweep>>
    BY DEF AddJob
  <1> DEFINE row == NewRow(s, now)
  <1>2. row \in JobRow /\ row.rev = 1
    BY NewRowType DEF BoundsTyped
  <1> HIDE DEF row
  <1>3. Occurrence(j, 1, row.next) \in Runs
    BY <1>2, OccurrenceType, RunsFacts, CronAssumption DEF JobRow
  <1>4. TasksTyped'
    BY <1>1, <1>2, <1>3, StartType DEF Pcs, row
  <1>5. JobsTyped'
    BY <1>1, <1>2 DEF JobsTyped, RowsSane, row
  <1> QED BY <1>1, <1>4, <1>5, SpendType, Frame

LEMMA UpdateJobType ==
  ASSUME CronInv, NEW w \in Workers, NEW j \in Jobs, UpdateJob(w, j)
  PROVE  CronInv'
  <1> USE DEF CronInv
  <1>1. Occurrence(j, job[j].rev, job[j].next) \in Runs
    BY PlannedType, RunsFacts DEF UpdateJob, Live
  <1>2. job[j] \in JobRow /\ job[j].rev < MaxRevisions
    BY DEF JobsTyped, UpdateJob
  <1>3. TasksTyped'
    BY <1>1, <1>2, StartType DEF UpdateJob, Pcs
  <1> QED BY <1>3, SpendType, CancelTimersType, Frame DEF UpdateJob

LEMMA UpdateWritesType ==
  ASSUME CronInv, NEW w \in Workers, UpdateWrites(w)
  PROVE  CronInv'
  <1> USE DEF CronInv
  <1> DEFINE j == task[w].run.job
  <1>1. /\ task[w].pc = "updating" /\ j \in Jobs /\ task[w].row \in JobRow
        /\ task[w].outcome \in Outcomes /\ task[w].row.rev < MaxRevisions
    BY TaskFields DEF UpdateWrites, TasksTyped, TaskSane
  <1>2. job[j] \in JobRow
    BY <1>1 DEF JobsTyped
  <1>3. CASE Live(j) /\ job[j].rev = task[w].row.rev
    <2>1. PICK on \in BOOLEAN, s \in Schedules :
            LET row == [job[j] EXCEPT !.enabled = on, !.rev = @ + 1,
                          !.sched = s, !.next = NextRun(s, now)]
            IN /\ job' = [job EXCEPT ![j] = row]
               /\ task' = [task EXCEPT ![w].pc = "installing", ![w].row = row]
      BY <1>3 DEF UpdateWrites
    <2> DEFINE row == [job[j] EXCEPT !.enabled = on, !.rev = @ + 1,
                         !.sched = s, !.next = NextRun(s, now)]
    <2>2. NextRun(s, now) \in Times
      BY NextRunType DEF BoundsTyped
    <2>3. job[j].rev + 1 \in 1 .. MaxRevisions
      BY <1>1, <1>2, <1>3, CronAssumption DEF JobRow
    <2>r. job[j].rev + 1 >= 1 /\ job[j].rev + 1 \in 0 .. MaxRevisions
      BY <2>3
    <2>4. row \in JobRow /\ row.rev >= 1
      <3> DEFINE n == job[j].rev + 1
                 d == NextRun(s, now)
      <3>1. row = [job[j] EXCEPT !.enabled = on, !.rev = n, !.sched = s, !.next = d]
        OBVIOUS
      <3>2. n \in 0 .. MaxRevisions /\ n >= 1 /\ d \in Times
        BY <2>2, <2>r
      <3> HIDE DEF n, d, row
      <3>3. row \in JobRow /\ row.rev = n
        BY <1>2, <3>1, <3>2 DEF JobRow
      <3> QED BY <3>2, <3>3
    <2>5. job' = [job EXCEPT ![j] = row]
          /\ task' = [task EXCEPT ![w].pc = "installing", ![w].row = row]
      BY <2>1
    <2> HIDE DEF row
    <2>6. task' = [task EXCEPT ![w] =
                     [pc |-> "installing", run |-> task[w].run, row |-> row,
                      outcome |-> task[w].outcome]]
      BY <1>1, <2>5, RowForm
    <2>7. TasksTyped'
      BY <1>1, <2>4, <2>6, StepType DEF Pcs
    <2>8. JobsTyped'
      BY <1>1, <2>4, <2>5 DEF JobsTyped, RowsSane
    <2> QED BY <1>3, <2>7, <2>8, Frame DEF UpdateWrites
  <1>4. CASE ~(Live(j) /\ job[j].rev = task[w].row.rev)
    <2>1. TimersTyped'
      BY <1>1, <1>2, <1>4, ScheduleJobType, CancelTimersType DEF UpdateWrites
    <2> QED BY <1>4, <2>1, ReturnType, Frame DEF UpdateWrites
  <1> QED BY <1>3, <1>4

LEMMA InstallsType ==
  ASSUME CronInv, NEW w \in Workers, Installs(w)
  PROVE  CronInv'
  <1>1. task[w].run.job \in Jobs /\ task[w].row \in JobRow
    BY TaskFields DEF CronInv, Installs, TasksTyped
  <1> QED BY <1>1, ScheduleJobType, ReturnType, Frame DEF CronInv, Installs

LEMMA RemoveJobType ==
  ASSUME CronInv, NEW j \in Jobs, RemoveJob(j)
  PROVE  CronInv'
  BY CancelTimersType, DeleteJobType, SpendType, Frame DEF CronInv, RemoveJob

LEMMA CascadeDeleteType ==
  ASSUME CronInv, NEW w \in Workers, NEW j \in Jobs, CascadeDelete(w, j)
  PROVE  CronInv'
  <1> USE DEF CronInv
  <1>1. Occurrence(j, job[j].rev, job[j].next) \in Runs /\ job[j] \in JobRow
    BY PlannedType, RunsFacts DEF CascadeDelete, Live, JobsTyped
  <1>2. TasksTyped'
    BY <1>1, StartType DEF CascadeDelete, Pcs
  <1> QED BY <1>2, DeleteJobType, SpendType, Frame DEF CascadeDelete

LEMMA CleansUpType ==
  ASSUME CronInv, NEW w \in Workers, CleansUp(w)
  PROVE  CronInv'
  BY CancelTimersType, ReturnType, Frame DEF CronInv, CleansUp


-----------------------------------------------------------------------------
(* The sweep of a resume or a boot.                                        *)

LEMMA SystemResumeType ==
  ASSUME CronInv, SystemResume
  PROVE  CronInv'
  <1>1. SweepTyped'
    BY DEF CronInv, SweepTyped, SystemResume, Sweep, SweepPcs
  <1> QED BY <1>1, CancelTimersType, SpendType, Frame DEF CronInv, SystemResume

LEMMA SweepListsType ==
  ASSUME CronInv, SweepLists
  PROVE  CronInv'
  <1>1. SweepTyped'
    BY DEF CronInv, SweepTyped, SweepLists, Sweep, SweepPcs
  <1> QED BY <1>1, Frame DEF CronInv, SweepLists

LEMMA SweepsJobType ==
  ASSUME CronInv, NEW j \in Jobs, SweepsJob(j)
  PROVE  CronInv'
  <1> USE DEF CronInv
  <1> DEFINE o == Occurrence(j, job[j].rev, job[j].next)
             next == [sweep EXCEPT !.todo = @ \ {j}]
  <1>1. job[j] \in JobRow /\ now \in 1 .. MaxTime /\ sweep.pc = "sweeping"
    BY DEF JobsTyped, BoundsTyped, SweepsJob
  <1>2. Live(j) => o \in Scheduled
    BY PlannedType DEF Live
  <1>3. sweep' = next => SweepTyped'
    BY <1>1 DEF SweepTyped, Sweep, SweepPcs
  <1>4. CASE UNCHANGED <<storeVars, timer, revoked>> /\ sweep' = next
    BY <1>3, <1>4, Frame DEF SweepsJob, storeVars
  <1>5. CASE ScheduleJob(j, job[j]) /\ UNCHANGED storeVars /\ sweep' = next
    BY <1>1, <1>3, <1>5, ScheduleJobType, Frame DEF SweepsJob, storeVars
  <1>6. CASE /\ Live(j) /\ Reserve(o)
             /\ UNCHANGED <<job, timer, revoked>>
             /\ sweep' = [next EXCEPT !.pc = "missed", !.run = o]
    <2>1. o \in Runs /\ o \in Scheduled
      BY <1>2, <1>6, RunsFacts
    <2> HIDE DEF o
    <2>2. SweepTyped'
      BY <1>1, <1>6, <2>1 DEF SweepTyped, Sweep, SweepPcs
    <2> QED BY <1>6, <2>2, ReserveType, Frame DEF SweepsJob
  <1>7. CASE Live(j) /\ AdvanceAfter(o) /\ run' = run /\ sweep' = next
    BY <1>1, <1>2, <1>3, <1>7, AdvanceAfterType, Frame DEF SweepsJob
  <1> QED BY <1>4, <1>5, <1>6, <1>7 DEF SweepsJob

LEMMA SweepMissesType ==
  ASSUME CronInv, SweepMisses
  PROVE  CronInv'
  <1>1. SweepTyped'
    BY DEF CronInv, SweepTyped, SweepMisses, Sweep, SweepPcs
  <1> QED BY <1>1, FinalizeType, Frame DEF CronInv, SweepMisses, Settled

LEMMA SweepAdvancesType ==
  ASSUME CronInv, SweepAdvances
  PROVE  CronInv'
  <1> USE DEF CronInv
  <1>1. SweepTyped'
    BY DEF SweepTyped, SweepAdvances, Sweep, SweepPcs
  <1>2. sweep.run \in Scheduled /\ now \in 1 .. MaxTime
    BY DEF SweepTyped, SweepAdvances, BoundsTyped
  <1> QED BY <1>1, <1>2, AdvanceAfterType, Frame DEF SweepAdvances

LEMMA SweepEndsType ==
  ASSUME CronInv, SweepEnds
  PROVE  CronInv'
  <1>1. SweepTyped'
    BY DEF CronInv, SweepTyped, SweepEnds, NoSweep, Sweep, SweepPcs
  <1> QED BY <1>1, Frame DEF CronInv, SweepEnds

LEMMA CrashType ==
  ASSUME CronInv, Crash
  PROVE  CronInv'
  <1> USE DEF CronInv
  <1>1. SweepTyped'
    BY DEF SweepTyped, Crash, NoSweep, Sweep, SweepPcs
  <1>2. TimersTyped'
    BY NoTimerType DEF TimersTyped, Crash
  <1>3. TasksTyped'
    BY DEF TasksTyped, Task, NoTask, TaskSane, Crash
  <1>4. TurnsTyped'
    BY DEF TurnsTyped, Crash
  <1>5. BoundsTyped'
    BY WorkerAssumption DEF BoundsTyped, Crash
  <1> QED BY <1>1, <1>2, <1>3, <1>4, <1>5, Frame DEF Crash

LEMMA RecoverRunType ==
  ASSUME CronInv, NEW o \in Runs, RecoverRun(o)
  PROVE  CronInv'
  <1> USE DEF CronInv
  <1> DEFINE done == [sweep EXCEPT !.runs = @ \ {o}]
  <1>1. sweep.pc = "recovering"
    BY DEF RecoverRun
  <1>2. sweep' = done => SweepTyped'
    BY <1>1 DEF SweepTyped, Sweep, SweepPcs
  <1>3. CASE /\ Finalize(o, IF receipt[o] = "ok" THEN "ok" ELSE "error")
             /\ receipt' = receipt
             /\ sweep' = IF o \in Scheduled
                         THEN [done EXCEPT !.pc = "recovered", !.run = o]
                         ELSE done
    <2>1. SweepTyped'
      BY <1>2, <1>3 DEF SweepTyped, Sweep, SweepPcs
    <2>2. RunsTyped'
      BY <1>3, FinalizeType DEF Settled
    <2> QED BY <1>3, <2>1, <2>2, Frame DEF RecoverRun
  <1>4. CASE receipt' = [receipt EXCEPT ![o] = "error"] /\ UNCHANGED <<run, sweep>>
    <2>1. TurnsTyped'
      BY <1>4 DEF TurnsTyped, RecoverRun
    <2> QED BY <1>4, <2>1, Frame DEF RecoverRun
  <1>5. CASE sweep' = done /\ UNCHANGED <<run, receipt>>
    BY <1>2, <1>5, Frame DEF RecoverRun
  <1> QED BY <1>3, <1>4, <1>5 DEF RecoverRun

LEMMA RecoverEndsType ==
  ASSUME CronInv, RecoverEnds
  PROVE  CronInv'
  <1>1. SweepTyped'
    BY DEF CronInv, SweepTyped, RecoverEnds, Sweep, SweepPcs
  <1> QED BY <1>1, CancelTimersType, Frame DEF CronInv, RecoverEnds

LEMMA ClockTicksType ==
  ASSUME CronInv, ClockTicks
  PROVE  CronInv'
  <1>1. BoundsTyped'
    BY CronAssumption DEF CronInv, BoundsTyped, ClockTicks
  <1> QED BY <1>1, Frame DEF CronInv, ClockTicks

-----------------------------------------------------------------------------
LEMMA CronInitType == CronInit => CronInv
  <1> SUFFICES ASSUME CronInit PROVE CronInv
    OBVIOUS
  <1>1. 1 \in 1 .. MaxTime
    BY CronAssumption
  <1>2. AbsentRow \in JobRow /\ AbsentRow.status = "absent"
    BY CronAssumption, TimesFacts DEF AbsentRow, JobRow, Presence
  <1>3. \A s \in Schedules : NewRow(s, 1) \in JobRow /\ NewRow(s, 1).rev = 1
    BY <1>1, NewRowType
  <1>4. JobsTyped
    BY <1>2, <1>3 DEF CronInit, StoreInit, JobsTyped, RowsSane
  <1>5. RunsTyped
    BY DEF CronInit, StoreInit, RunsTyped, NoRun, RunRow
  <1>6. TimersTyped
    <2>1. \A j \in Jobs : NewTimer(job[j]) \in Timer
      BY <1>4, NewTimerType DEF JobsTyped
    <2> QED BY <2>1, NoTimerType DEF CronInit, TimersTyped
  <1>7. TasksTyped
    BY DEF CronInit, TasksTyped, Task, TaskSane, NoTask
  <1>8. SweepTyped
    BY DEF CronInit, SweepTyped, NoSweep, Sweep, SweepPcs
  <1>9. TurnsTyped
    BY DEF CronInit, TurnsTyped
  <1>10. BoundsTyped
    BY <1>1, WorkerAssumption DEF CronInit, BoundsTyped
  <1> QED BY <1>4, <1>5, <1>6, <1>7, <1>8, <1>9, <1>10 DEF CronInv

LEMMA CronStepType == CronInv /\ [CronNext]_cronVars => CronInv'
  <1> SUFFICES ASSUME CronInv, [CronNext]_cronVars PROVE CronInv'
    OBVIOUS
  <1>1. CASE UNCHANGED cronVars
    BY <1>1, Frame DEF CronInv, cronVars
  <1>2. ASSUME NEW w \in Workers, WorkerStep(w) PROVE CronInv'
    BY <1>2, TickEntersType, TickReservesType, TickVerifiesType, TickCommitsType,
       DuplicateSettlesType, AttachesType, PrepareFailsType, BeginsType, SendsType,
       SendRefusedType, SendUnprovenType, WaitObservesType, SettlesType,
       AdvancesType, UpdateWritesType, InstallsType, CleansUpType DEF WorkerStep
  <1>3. CASE SweepStep
    BY <1>3, SweepListsType, SweepsJobType, SweepMissesType, SweepAdvancesType,
       SweepEndsType, RecoverRunType, RecoverEndsType DEF SweepStep
  <1>4. CASE UserStep
    BY <1>4, AddJobType, UpdateJobType, CascadeDeleteType, NowReservesType,
       RemoveJobType, SystemResumeType DEF UserStep
  <1> QED BY <1>1, <1>2, <1>3, <1>4, DispatchTickType, TurnEndsType, CrashType,
             ClockTicksType DEF CronNext

\* Every reachable state of the cron service is well-typed, for any set of
\* jobs, workers and operation ids and any schedules: in particular a settled
\* run never records an outcome that its column does not have, whatever the
\* executor returned (SettledAs), and the revision of an update stays within
\* its bound although it is written in a later step than it is checked.
THEOREM CronTypeCorrect == CronSpec => []CronTypeOK
  <1>1. CronInv => CronTypeOK
    BY DEF CronInv, CronTypeOK, StoreTypeOK, JobsTyped, RunsTyped, TasksTyped,
           SweepTyped, TimersTyped, TurnsTyped, BoundsTyped
  <1> QED BY <1>1, CronInitType, CronStepType, PTL DEF CronSpec


-----------------------------------------------------------------------------
(* The record of a scheduled run agrees with its conversation.  What makes *)
(* it inductive: a run that is not settled has at most one party that may  *)
(* settle it - the task that reserved it, the sweep that claimed it as     *)
(* missed, or the recovery that listed it - and that party knows whether a *)
(* turn was accepted.                                                      *)

OwnPcs == {"reserved", "verified", "admitted", "attached", "sending", "waiting",
           "result"}
EarlyPcs == OwnPcs \ {"waiting", "result"}

\* the task that reserved the run and has not settled it
Owns(w, o) == task[w].run = o /\ task[w].pc \in OwnPcs
Owned(o) == \E w \in Workers : Owns(w, o)

\* a job that was deleted stays deleted
Dead(j) == job[j].status \in {"removed", "cascaded"}

\* the sweep is about to record the run as missed, or the recovery of a
\* boot will decide it
Missing(o) == sweep.pc = "missed" /\ sweep.run = o
Swept(o) == Missing(o) \/ o \in sweep.runs

OneOwner(o) == \A v, w \in Workers : Owns(v, o) /\ Owns(w, o) => v = w
OwnerHolds(o) ==
  /\ Owned(o) \/ Swept(o) => run[o].status = "reserved" \/ Dead(o.job)
  /\ run[o].status # "none" => Live(o.job)
SweptUnowned(o) == Swept(o) => ~Owned(o)
NotYetSent(o) ==
  /\ run[o].status = "none" /\ ~Dead(o.job) => receipt[o] = "none"
  /\ Missing(o) => receipt[o] = "none"
  /\ \A w \in Workers :
       Owns(w, o) /\ task[w].pc \in EarlyPcs => receipt[o] = "none"
TurnAwaited(o) ==
  o \in live =>
    /\ receipt[o] = "accepted"
    /\ \E w \in Workers : Owns(w, o) /\ task[w].pc = "waiting"
ReportTrue(o) ==
  \A w \in Workers :
    Owns(w, o) /\ task[w].pc = "result" =>
      \/ task[w].outcome = "ok" /\ receipt[o] = "ok"
      \/ /\ task[w].outcome \in {"error", "unexecutable", "skipped"}
         /\ receipt[o] \in {"none", "error"}

RunInv(o) ==
  /\ OneOwner(o) /\ OwnerHolds(o) /\ SweptUnowned(o) /\ NotYetSent(o)
  /\ TurnAwaited(o) /\ ReportTrue(o) /\ Agrees(o)

DuplicatesRequested ==
  \A w \in Workers : task[w].pc = "duplicate" => task[w].run \notin Scheduled
RecoveryFirst ==
  sweep.pc \notin {"recovering", "recovered"} => sweep.runs = {}

ReceiptInv ==
  /\ \A o \in Scheduled : RunInv(o)
  /\ DuplicatesRequested
  /\ RecoveryFirst

\* what a step of one task leaves to the others
Others(w) == \A v \in Workers \ {w} : task'[v] = task[v]

LEMMA GotoFacts ==
  ASSUME TasksTyped, NEW w \in Workers, NEW pc, Goto(w, pc), task[w].pc # "idle"
  PROVE  /\ Others(w)
         /\ task'[w].pc = pc /\ task'[w].run = task[w].run
         /\ task'[w].outcome = task[w].outcome
  <1>1. task' = [task EXCEPT ![w] =
                   [pc |-> pc, run |-> task[w].run, row |-> task[w].row,
                    outcome |-> task[w].outcome]]
    BY StepForms DEF Goto, TasksTyped
  <1> QED BY <1>1 DEF Others, TasksTyped

LEMMA ReportFacts ==
  ASSUME TasksTyped, NEW w \in Workers, NEW r, task[w].pc # "idle",
         task' = [task EXCEPT ![w].pc = "result", ![w].outcome = r]
  PROVE  /\ Others(w)
         /\ task'[w].pc = "result" /\ task'[w].run = task[w].run
         /\ task'[w].outcome = r
  <1>1. task' = [task EXCEPT ![w] =
                   [pc |-> "result", run |-> task[w].run, row |-> task[w].row,
                    outcome |-> r]]
    BY ReportForm
  <1> QED BY <1>1 DEF Others, TasksTyped

LEMMA ReturnFacts ==
  ASSUME TasksTyped, NEW w \in Workers, Return(w)
  PROVE  Others(w) /\ task'[w].pc = "idle"
  BY DEF Others, TasksTyped, Return, NoTask

LEMMA StartFacts ==
  ASSUME TasksTyped, NEW w \in Workers, NEW pc, NEW r, NEW row,
         Start(w, pc, r, row)
  PROVE  Others(w) /\ task[w].pc = "idle" /\ task'[w].pc = pc /\ task'[w].run = r
  BY DEF Others, TasksTyped, Start

\* a step that touches neither the run nor its parties
SameOwners(o) ==
  \A w \in Workers :
    /\ Owns(w, o)' <=> Owns(w, o)
    /\ Owns(w, o) => /\ task'[w].pc = task[w].pc
                     /\ task'[w].outcome = task[w].outcome
SamePresence(o) == (Dead(o.job)' <=> Dead(o.job)) /\ (Live(o.job) => Live(o.job)')
SameTurn(o) == receipt'[o] = receipt[o] /\ (o \in live' <=> o \in live)
SameRun(o) == run'[o].status = run[o].status
SameSweep(o) == (Swept(o)' => Swept(o)) /\ (Missing(o)' => Missing(o))

LEMMA Untouched ==
  ASSUME NEW o \in Scheduled, RunInv(o), SameOwners(o), SamePresence(o),
         SameTurn(o), SameRun(o), SameSweep(o)
  PROVE  RunInv(o)'
  <1> USE DEF RunInv, SameOwners, SamePresence, SameTurn, SameRun, SameSweep
  <1>0. Owned(o)' <=> Owned(o)
    BY DEF Owned
  <1>1. OneOwner(o)'
    BY DEF OneOwner
  <1>2. OwnerHolds(o)'
    BY <1>0 DEF OwnerHolds
  <1>3. SweptUnowned(o)'
    BY <1>0 DEF SweptUnowned
  <1>4. NotYetSent(o)'
    BY DEF NotYetSent
  <1>5. TurnAwaited(o)'
    BY DEF TurnAwaited
  <1>6. ReportTrue(o)'
    BY DEF ReportTrue
  <1>7. Agrees(o)'
    BY DEF Agrees
  <1> QED BY <1>1, <1>2, <1>3, <1>4, <1>5, <1>6, <1>7

\* a run nobody may settle
LEMMA Unattended ==
  ASSUME NEW o \in Scheduled, ~Owned(o)', ~Swept(o)', o \notin live',
         (run[o].status # "none" => Live(o.job))',
         (run[o].status = "none" /\ ~Dead(o.job) => receipt[o] = "none")',
         Agrees(o)'
  PROVE  RunInv(o)'
  <1>1. OneOwner(o)'
    BY DEF OneOwner, Owned
  <1>2. OwnerHolds(o)'
    BY DEF OwnerHolds
  <1>3. SweptUnowned(o)'
    BY DEF SweptUnowned
  <1>4. NotYetSent(o)'
    BY DEF NotYetSent, Owned, Swept
  <1>5. TurnAwaited(o)'
    BY DEF TurnAwaited
  <1>6. ReportTrue(o)'
    BY DEF ReportTrue, Owned
  <1> QED BY <1>1, <1>2, <1>3, <1>4, <1>5, <1>6 DEF RunInv

\* the task w, which is not the owner, becomes none
LEMMA OtherTask ==
  ASSUME NEW w \in Workers, Others(w), NEW o, ~Owns(w, o), ~Owns(w, o)'
  PROVE  SameOwners(o)
  <1> SUFFICES ASSUME NEW v \in Workers
               PROVE  /\ Owns(v, o)' <=> Owns(v, o)
                      /\ Owns(v, o) => /\ task'[v].pc = task[v].pc
                                       /\ task'[v].outcome = task[v].outcome
    BY DEF SameOwners
  <1>1. CASE v = w
    BY <1>1
  <1>2. CASE v # w
    BY <1>2 DEF Others, Owns
  <1> QED BY <1>1, <1>2

\* the owner goes on
LEMMA OwnerMoves ==
  ASSUME NEW w \in Workers, Others(w), NEW o, RunInv(o), Owns(w, o), Owns(w, o)',
         SamePresence(o), SameRun(o), sweep' = sweep
  PROVE  /\ OneOwner(o)' /\ OwnerHolds(o)' /\ SweptUnowned(o)'
         /\ ~Missing(o)' /\ \A v \in Workers : Owns(v, o)' => v = w
         /\ run'[o].status = "none" => Dead(o.job)'
  <1>1. \A v \in Workers : Owns(v, o)' => v = w
    BY DEF Others, RunInv, OneOwner, Owns
  <1>2. Owned(o) /\ Owned(o)'
    BY DEF Owned
  <1>3. ~Swept(o) /\ ~Swept(o)' /\ ~Missing(o)'
    BY <1>2 DEF RunInv, SweptUnowned, Swept, Missing
  <1>4. OneOwner(o)'
    BY <1>1 DEF OneOwner
  <1>5. OwnerHolds(o)'
    BY <1>2, <1>3 DEF RunInv, OwnerHolds, SamePresence, SameRun
  <1>6. SweptUnowned(o)'
    BY <1>3 DEF SweptUnowned
  <1>7. run'[o].status = "none" => Dead(o.job)'
    BY <1>2 DEF RunInv, OwnerHolds, SamePresence, SameRun
  <1> QED BY <1>1, <1>3, <1>4, <1>5, <1>6, <1>7

\* the owner lets go
LEMMA OwnerLeaves ==
  ASSUME NEW w \in Workers, Others(w), NEW o, RunInv(o), Owns(w, o), ~Owns(w, o)',
         sweep' = sweep
  PROVE  ~Owned(o)' /\ ~Swept(o)'
  <1>1. \A v \in Workers : ~Owns(v, o)'
    BY DEF Others, RunInv, OneOwner, Owns
  <1>2. Owned(o)
    BY DEF Owned
  <1>3. ~Swept(o)'
    BY <1>2 DEF RunInv, SweptUnowned, Swept, Missing
  <1> QED BY <1>1, <1>3 DEF Owned

\* no turn runs for an owner that does not wait
LEMMA NoTurnYet ==
  ASSUME NEW w \in Workers, NEW o, RunInv(o), Owns(w, o), task[w].pc # "waiting"
  PROVE  o \notin live
  BY DEF RunInv, TurnAwaited, OneOwner


LEMMA Unchanged ==
  ASSUME NEW o
  PROVE  /\ task' = task => SameOwners(o)
         /\ job' = job => SamePresence(o)
         /\ receipt' = receipt /\ live' = live => SameTurn(o)
         /\ run' = run => SameRun(o)
         /\ sweep' = sweep => SameSweep(o)
  BY DEF SameOwners, Owns, SamePresence, Dead, Live, SameTurn, SameRun, SameSweep,
         Swept, Missing

LEMMA FinalizeFacts ==
  ASSUME RunsTyped, NEW r \in Runs, NEW s, Finalize(r, s)
  PROVE  /\ \A o \in Runs : o # r => SameRun(o)
         /\ run'[r].status = IF Finalizable(r) THEN s ELSE run[r].status
  BY DEF RunsTyped, RunRow, Finalize, SameRun

\* the owner settles its run and lets go
LEMMA OwnerSettles ==
  ASSUME RunsTyped, NEW w \in Workers, NEW o \in Scheduled, RunInv(o),
         Owns(w, o), task[w].pc # "waiting", Others(w), ~Owns(w, o)',
         NEW s \in Settled, Finalize(o, s),
         s = "ok" => receipt[o] = "ok",
         s # "ok" => receipt[o] \in {"none", "error"},
         UNCHANGED <<job, receipt, live, sweep>>
  PROVE  RunInv(o)'
  <1>1. ~Owned(o)' /\ ~Swept(o)'
    BY OwnerLeaves
  <1>2. o \notin live'
    BY NoTurnYet
  <1>3. Owned(o)
    BY DEF Owned
  <1>4. \/ Live(o.job) /\ run'[o].status = s
        \/ Dead(o.job) /\ ~Live(o.job) /\ run'[o].status = "none"
    <2>1. o \in Runs
      BY RunsFacts
    <2>2. run'[o].status = IF Finalizable(o) THEN s ELSE run[o].status
      BY <2>1, FinalizeFacts
    <2> QED BY <1>3, <2>2 DEF RunInv, OwnerHolds, Finalizable, Dead, Live
  <1>5. (run[o].status # "none" => Live(o.job))'
    BY <1>4 DEF Live
  <1>6. (run[o].status = "none" /\ ~Dead(o.job) => receipt[o] = "none")'
    BY <1>4 DEF Dead, Settled
  <1>7. Agrees(o)'
    BY <1>4 DEF Agrees, Settled
  <1> QED BY <1>1, <1>2, <1>5, <1>6, <1>7, Unattended

\* the task of a worker that has one
LEMMA RunOfTask ==
  ASSUME TasksTyped, NEW w \in Workers, task[w].pc # "idle"
  PROVE  task[w].run \in Runs
  BY TaskFields DEF TasksTyped

-----------------------------------------------------------------------------
(* Each action keeps RunInv.                                               *)

LEMMA TickEntersRun ==
  ASSUME CronInv, NEW w \in Workers, TickEnters(w), NEW o \in Scheduled, RunInv(o)
  PROVE  RunInv(o)'
  <1>1. ~Owns(w, o)
    BY DEF TickEnters, Owns, OwnPcs
  <1>2. Others(w) /\ ~Owns(w, o)'
    <2>1. CASE Return(w)
      BY <2>1, ReturnFacts DEF CronInv, Owns, OwnPcs
    <2>2. CASE task' = [task EXCEPT ![w].pc = "claiming",
                                    ![w].row = job[task[w].run.job]]
      <3>1. task' = [task EXCEPT ![w] =
                       [pc |-> "claiming", run |-> task[w].run,
                        row |-> job[task[w].run.job], outcome |-> task[w].outcome]]
        BY <2>2, RowForm DEF CronInv, TickEnters
      <3> QED BY <3>1 DEF Others, Owns, OwnPcs, CronInv, TasksTyped
    <2> QED BY <2>1, <2>2 DEF TickEnters, Absorbed
  <1> QED BY <1>1, <1>2, OtherTask, Unchanged, Untouched DEF TickEnters

LEMMA TickReservesRun ==
  ASSUME CronInv, NEW w \in Workers, TickReserves(w), NEW o \in Scheduled, RunInv(o)
  PROVE  RunInv(o)'
  <1> USE DEF CronInv
  <1>0. task[w].pc = "claiming" /\ ~Owns(w, o)
    BY DEF TickReserves, Owns, OwnPcs
  <1>1. CASE run' = run /\ Absorbed(w)
    <2>1. Others(w) /\ ~Owns(w, o)'
      BY <1>1, ReturnFacts DEF Absorbed, Owns, OwnPcs
    <2> QED BY <1>0, <1>1, <2>1, OtherTask, Unchanged, Untouched DEF TickReserves
  <1>2. CASE Reservable(task[w].run) /\ Reserve(task[w].run) /\ Goto(w, "reserved")
    <2>1. Others(w) /\ task'[w].pc = "reserved" /\ task'[w].run = task[w].run
      BY <1>0, <1>2, GotoFacts
    <2>2. CASE task[w].run # o
      <3>1. SameRun(o)
        BY <1>2, <2>2 DEF Reserve, SameRun, RunsTyped
      <3>2. ~Owns(w, o)'
        BY <2>1, <2>2 DEF Owns
      <3> QED BY <1>0, <2>1, <3>1, <3>2, OtherTask, Unchanged, Untouched
              DEF TickReserves
    <2>3. CASE task[w].run = o
      <3>1. run[o].status = "none" /\ Live(o.job) /\ ~Dead(o.job)
        BY <1>2, <2>3 DEF Reservable, Plans, Live, Dead
      <3>2. ~Owned(o) /\ ~Swept(o) /\ receipt[o] = "none" /\ o \notin live
        BY <3>1 DEF RunInv, OwnerHolds, NotYetSent, TurnAwaited
      <3>3. UNCHANGED <<job, receipt, live, sweep>>
        BY DEF TickReserves
      <3>4. Live(o.job)' /\ ~Swept(o)' /\ ~Missing(o)'
        BY <3>1, <3>2, <3>3 DEF Live, Swept, Missing
      <3>5. run'[o].status = "reserved"
        BY <1>2, <2>3, RunsFacts DEF Reserve, RunsTyped, RunRow
      <3>6. \A v \in Workers : Owns(v, o)' => v = w
        BY <2>1, <3>2 DEF Others, Owned, Owns
      <3>7. OneOwner(o)'
        BY <3>6 DEF OneOwner
      <3>8. OwnerHolds(o)' /\ SweptUnowned(o)'
        BY <3>4, <3>5 DEF OwnerHolds, SweptUnowned
      <3>9. NotYetSent(o)' /\ TurnAwaited(o)'
        BY <3>2, <3>3 DEF NotYetSent, TurnAwaited
      <3>10. ReportTrue(o)'
        BY <2>1, <3>6 DEF ReportTrue
      <3>11. Agrees(o)'
        BY <3>5 DEF Agrees
      <3> QED BY <3>7, <3>8, <3>9, <3>10, <3>11 DEF RunInv
    <2> QED BY <2>2, <2>3
  <1> QED BY <1>1, <1>2 DEF TickReserves

\* a run goes on, no turn accepted yet
LEMMA EarlyGoesOn ==
  ASSUME CronInv, NEW w \in Workers, NEW o \in Scheduled, RunInv(o),
         task[w].pc \in EarlyPcs,
         NEW pc \in EarlyPcs, Goto(w, pc), SameRun(o),
         UNCHANGED <<job, receipt, live, sweep>>
  PROVE  RunInv(o)'
  <1> USE DEF CronInv
  <1>1. Others(w) /\ task'[w].pc = pc /\ task'[w].run = task[w].run
    BY GotoFacts DEF EarlyPcs, OwnPcs
  <1>2. CASE task[w].run # o
    BY <1>1, <1>2, OtherTask, Unchanged, Untouched DEF Owns
  <1>3. CASE task[w].run = o
    <2>1. Owns(w, o) /\ Owns(w, o)' /\ task[w].pc \in EarlyPcs
      BY <1>1, <1>3 DEF Owns, OwnPcs, EarlyPcs
    <2>2. /\ OneOwner(o)' /\ OwnerHolds(o)' /\ SweptUnowned(o)' /\ ~Missing(o)'
          /\ \A v \in Workers : Owns(v, o)' => v = w
          /\ run'[o].status = "none" => Dead(o.job)'
      BY <1>1, <2>1, OwnerMoves, Unchanged
    <2>3. receipt[o] = "none" /\ o \notin live
      BY <2>1, NoTurnYet DEF RunInv, NotYetSent, EarlyPcs
    <2>4. NotYetSent(o)' /\ TurnAwaited(o)'
      BY <2>3 DEF NotYetSent, TurnAwaited
    <2>5. ReportTrue(o)'
      BY <1>1, <2>2 DEF ReportTrue, EarlyPcs
    <2>6. Agrees(o)'
      BY DEF RunInv, Agrees, SameRun
    <2> QED BY <2>2, <2>4, <2>5, <2>6 DEF RunInv
  <1> QED BY <1>2, <1>3

LEMMA TickSkips ==
  ASSUME CronInv, NEW w \in Workers, NEW o \in Scheduled, RunInv(o),
         task[w].pc \in {"reserved", "verified"},
         Finalize(task[w].run, "skipped"), Return(w),
         UNCHANGED <<job, receipt, live, sweep>>
  PROVE  RunInv(o)'
  <1> USE DEF CronInv
  <1>1. Others(w) /\ ~Owns(w, o)'
    BY ReturnFacts DEF Owns, OwnPcs
  <1>2. CASE task[w].run # o
    <2>1. SameRun(o)
      BY <1>2, RunOfTask, FinalizeFacts, RunsFacts
    <2> QED BY <1>1, <1>2, <2>1, OtherTask, Unchanged, Untouched DEF Owns
  <1>3. CASE task[w].run = o
    <2>1. Owns(w, o) /\ task[w].pc \in EarlyPcs
      BY <1>3 DEF Owns, OwnPcs, EarlyPcs
    <2>2. receipt[o] = "none"
      BY <2>1 DEF RunInv, NotYetSent
    <2> QED BY <1>1, <1>3, <2>1, <2>2, OwnerSettles DEF Settled, EarlyPcs
  <1> QED BY <1>2, <1>3

LEMMA TickVerifiesRun ==
  ASSUME CronInv, NEW w \in Workers, TickVerifies(w), NEW o \in Scheduled, RunInv(o)
  PROVE  RunInv(o)'
  BY EarlyGoesOn, TickSkips, Unchanged DEF TickVerifies, Absorbed, EarlyPcs, OwnPcs

LEMMA TickCommitsRun ==
  ASSUME CronInv, NEW w \in Workers, TickCommits(w), NEW o \in Scheduled, RunInv(o)
  PROVE  RunInv(o)'
  BY EarlyGoesOn, TickSkips, Unchanged DEF TickCommits, Absorbed, EarlyPcs, OwnPcs


LEMMA AttachesRun ==
  ASSUME CronInv, NEW w \in Workers, Attaches(w), NEW o \in Scheduled, RunInv(o)
  PROVE  RunInv(o)'
  <1>1. SameRun(o)
    BY RunsFacts DEF Attaches, Attach, SameRun, CronInv, RunsTyped, RunRow
  <1> QED BY <1>1, EarlyGoesOn DEF Attaches, EarlyPcs, OwnPcs

\* an end is reported that no turn, or a failed turn, came to
LEMMA Reports ==
  ASSUME CronInv, NEW w \in Workers, NEW o \in Scheduled, RunInv(o),
         task[w].pc \in OwnPcs \ {"result"}, NEW r \in Outcomes \ {"none"},
         task' = [task EXCEPT ![w].pc = "result", ![w].outcome = r],
         task[w].run = o => IF r = "ok" THEN receipt[o] = "ok"
                            ELSE receipt[o] \in {"none", "error"},
         UNCHANGED <<job, run, receipt, live, sweep>>
  PROVE  RunInv(o)'
  <1> USE DEF CronInv
  <1>1. /\ Others(w) /\ task'[w].pc = "result" /\ task'[w].run = task[w].run
        /\ task'[w].outcome = r
    BY ReportFacts DEF OwnPcs
  <1>2. CASE task[w].run # o
    BY <1>1, <1>2, OtherTask, Unchanged, Untouched DEF Owns
  <1>3. CASE task[w].run = o
    <2>1. Owns(w, o) /\ Owns(w, o)'
      BY <1>1, <1>3 DEF Owns, OwnPcs
    <2>2. /\ OneOwner(o)' /\ OwnerHolds(o)' /\ SweptUnowned(o)' /\ ~Missing(o)'
          /\ \A v \in Workers : Owns(v, o)' => v = w
          /\ run'[o].status = "none" => Dead(o.job)'
      BY <1>1, <2>1, OwnerMoves, Unchanged
    <2>3. NotYetSent(o)'
      BY <1>1, <2>2 DEF NotYetSent, EarlyPcs
    <2>4. o \notin live'
      BY <1>3 DEF RunInv, TurnAwaited
    <2>5. TurnAwaited(o)'
      BY <2>4 DEF TurnAwaited
    <2>6. ReportTrue(o)'
      BY <1>1, <1>3, <2>2 DEF ReportTrue, Outcomes
    <2>7. Agrees(o)'
      BY DEF RunInv, Agrees
    <2> QED BY <2>2, <2>3, <2>5, <2>6, <2>7 DEF RunInv
  <1> QED BY <1>2, <1>3

LEMMA EarlyReceipt ==
  ASSUME NEW w \in Workers, NEW o, RunInv(o), task[w].run = o, task[w].pc \in EarlyPcs
  PROVE  receipt[o] = "none"
  BY DEF RunInv, NotYetSent, Owns, EarlyPcs

\* a step of a task whose run is not this one
LEMMA OtherRun ==
  ASSUME NEW w \in Workers, NEW o \in Scheduled, RunInv(o), Others(w),
         task[w].run # o, task'[w].pc = "idle" \/ task'[w].run # o,
         SamePresence(o), SameTurn(o), SameRun(o), SameSweep(o)
  PROVE  RunInv(o)'
  BY OtherTask, Untouched DEF Owns, OwnPcs

LEMMA DisabledPresence ==
  ASSUME JobsTyped, NEW w \in Workers, Disabled(w), NEW o \in Scheduled
  PROVE  SamePresence(o)
  BY RunsFacts DEF JobsTyped, JobRow, Disabled, SamePresence, Dead, Live

LEMMA PrepareFailsRun ==
  ASSUME CronInv, NEW w \in Workers, PrepareFails(w), NEW o \in Scheduled, RunInv(o)
  PROVE  RunInv(o)'
  <1> USE DEF CronInv
  <1>1. task[w].pc = "admitted" /\ UNCHANGED <<receipt, live, sweep>>
    BY DEF PrepareFails
  <1>2. PICK r \in {"error", "unexecutable"} :
          IF task[w].run \in Scheduled
          THEN /\ task' = [task EXCEPT ![w].pc = "result", ![w].outcome = r]
               /\ UNCHANGED <<job, run>>
          ELSE /\ Finalize(task[w].run, "error")
               /\ IF r = "unexecutable" THEN Disabled(w) ELSE job' = job
               /\ Return(w)
    BY DEF PrepareFails
  <1>3. CASE task[w].run \in Scheduled
    <2>1. task[w].run = o => receipt[o] = "none"
      BY <1>1, EarlyReceipt DEF EarlyPcs, OwnPcs
    <2> QED BY <1>1, <1>2, <1>3, <2>1, Reports DEF OwnPcs, Outcomes
  <1>4. CASE task[w].run \notin Scheduled
    <2>1. SameRun(o)
      BY <1>1, <1>2, <1>4, RunOfTask, FinalizeFacts, RunsFacts
    <2>2. SamePresence(o)
      BY <1>2, <1>4, DisabledPresence, Unchanged
    <2>3. Others(w) /\ task'[w].pc = "idle"
      BY <1>2, <1>4, ReturnFacts
    <2> QED BY <1>1, <1>4, <2>1, <2>2, <2>3, OtherRun, Unchanged
  <1> QED BY <1>3, <1>4

LEMMA BeginsRun ==
  ASSUME CronInv, NEW w \in Workers, Begins(w), NEW o \in Scheduled, RunInv(o)
  PROVE  RunInv(o)'
  <1>1. task[w].pc \in EarlyPcs /\ task[w].pc \in OwnPcs \ {"result"}
    BY DEF Begins, EarlyPcs, OwnPcs
  <1>2. CASE Goto(w, "sending")
    BY <1>1, <1>2, EarlyGoesOn, Unchanged DEF Begins, EarlyPcs, OwnPcs
  <1>3. CASE task' = [task EXCEPT ![w].pc = "result", ![w].outcome = "skipped"]
    <2>1. task[w].run = o => receipt[o] = "none"
      BY <1>1, EarlyReceipt
    <2>2. "skipped" \in Outcomes \ {"none"} /\ "skipped" # "ok"
      BY DEF Outcomes
    <2> QED BY <1>1, <1>3, <2>1, <2>2, Reports DEF Begins
  <1> QED BY <1>2, <1>3 DEF Begins

LEMMA SendRefusedRun ==
  ASSUME CronInv, NEW w \in Workers, SendRefused(w), NEW o \in Scheduled, RunInv(o)
  PROVE  RunInv(o)'
  <1>1. task[w].pc \in EarlyPcs /\ task[w].pc \in OwnPcs \ {"result"}
    BY DEF SendRefused, EarlyPcs, OwnPcs
  <1>2. task[w].run = o => receipt[o] = "none"
    BY <1>1, EarlyReceipt
  <1>3. "error" \in Outcomes \ {"none"} /\ "error" # "ok"
    BY DEF Outcomes
  <1> QED BY <1>1, <1>2, <1>3, Reports DEF SendRefused

LEMMA WaitObservesRun ==
  ASSUME CronInv, NEW w \in Workers, WaitObserves(w), NEW o \in Scheduled, RunInv(o)
  PROVE  RunInv(o)'
  <1>1. receipt[task[w].run] \in Outcomes \ {"none"}
    BY DEF WaitObserves, Outcomes
  <1> QED BY <1>1, Reports DEF WaitObserves, OwnPcs

LEMMA SendsRun ==
  ASSUME CronInv, NEW w \in Workers, Sends(w), NEW o \in Scheduled, RunInv(o)
  PROVE  RunInv(o)'
  <1> USE DEF CronInv
  <1>1. task[w].pc = "sending" /\ UNCHANGED <<job, run, sweep>>
    BY DEF Sends
  <1>2. Others(w) /\ task'[w].pc = "waiting" /\ task'[w].run = task[w].run
    BY <1>1, GotoFacts DEF Sends
  <1>3. CASE task[w].run # o
    <2>1. SameTurn(o)
      BY <1>3, RunsFacts DEF Sends, SameTurn, TurnsTyped
    <2> QED BY <1>1, <1>2, <1>3, <2>1, OtherRun, Unchanged
  <1>4. CASE task[w].run = o
    <2>1. Owns(w, o) /\ Owns(w, o)'
      BY <1>1, <1>2, <1>4 DEF Owns, OwnPcs
    <2>2. /\ OneOwner(o)' /\ OwnerHolds(o)' /\ SweptUnowned(o)' /\ ~Missing(o)'
          /\ \A v \in Workers : Owns(v, o)' => v = w
          /\ run'[o].status = "none" => Dead(o.job)'
      BY <1>1, <1>2, <2>1, OwnerMoves, Unchanged
    <2>3. receipt'[o] = "accepted"
      BY <1>4, RunsFacts DEF Sends, TurnsTyped
    <2>4. NotYetSent(o)'
      BY <1>2, <2>2 DEF NotYetSent, EarlyPcs
    <2>5. TurnAwaited(o)'
      BY <1>2, <2>1, <2>3 DEF TurnAwaited
    <2>6. ReportTrue(o)'
      BY <1>2, <2>2 DEF ReportTrue
    <2>7. Owned(o)
      BY <2>1 DEF Owned
    <2>8. run[o].status \in {"none", "reserved"}
      BY <2>7 DEF RunInv, OwnerHolds, Dead, Live
    <2>9. Agrees(o)'
      BY <1>1, <2>8 DEF Agrees
    <2> QED BY <2>2, <2>4, <2>5, <2>6, <2>9 DEF RunInv
  <1> QED BY <1>3, <1>4

LEMMA SendUnprovenRun ==
  ASSUME CronInv, NEW w \in Workers, SendUnproven(w), NEW o \in Scheduled, RunInv(o)
  PROVE  RunInv(o)'
  <1> USE DEF CronInv
  <1>1. task[w].pc = "sending" /\ UNCHANGED <<job, run, live, sweep>>
    BY DEF SendUnproven
  <1>2. Others(w) /\ task'[w].pc = "idle"
    BY ReturnFacts DEF SendUnproven
  <1>3. CASE task[w].run # o
    <2>1. SameTurn(o)
      BY <1>3, RunsFacts DEF SendUnproven, SameTurn, TurnsTyped
    <2> QED BY <1>1, <1>2, <1>3, <2>1, OtherRun, Unchanged
  <1>4. CASE task[w].run = o
    <2>1. Owns(w, o) /\ ~Owns(w, o)'
      BY <1>1, <1>2, <1>4 DEF Owns, OwnPcs
    <2>2. ~Owned(o)' /\ ~Swept(o)'
      BY <1>1, <1>2, <2>1, OwnerLeaves
    <2>3. o \notin live'
      BY <1>1, <2>1, NoTurnYet
    <2>4. Owned(o)
      BY <2>1 DEF Owned
    <2>5. \/ run[o].status = "reserved" /\ Live(o.job)
          \/ run[o].status = "none" /\ Dead(o.job)
      BY <2>4 DEF RunInv, OwnerHolds, Dead, Live
    <2>6. (run[o].status # "none" => Live(o.job))'
      BY <1>1, <2>5 DEF Live
    <2>7. (run[o].status = "none" /\ ~Dead(o.job) => receipt[o] = "none")'
      BY <1>1, <2>5 DEF Dead
    <2>8. Agrees(o)'
      BY <1>1, <2>5 DEF Agrees
    <2> QED BY <2>2, <2>3, <2>6, <2>7, <2>8, Unattended
  <1> QED BY <1>3, <1>4

LEMMA TurnEndsRun ==
  ASSUME CronInv, NEW r \in Runs, TurnEnds(r), NEW o \in Scheduled, RunInv(o)
  PROVE  RunInv(o)'
  <1> USE DEF CronInv
  <1>1. r \in live /\ live' = live \ {r} /\ UNCHANGED <<job, run, task, sweep>>
    BY DEF TurnEnds
  <1>2. CASE r # o
    <2>1. SameTurn(o)
      BY <1>1, <1>2, RunsFacts DEF TurnEnds, SameTurn, TurnsTyped
    <2> QED BY <1>1, <2>1, Unchanged, Untouched
  <1>3. CASE r = o
    <2>1. PICK w \in Workers : Owns(w, o) /\ task[w].pc = "waiting"
      BY <1>1, <1>3 DEF RunInv, TurnAwaited
    <2>2. \A v \in Workers : Owns(v, o) => v = w
      BY <2>1 DEF RunInv, OneOwner
    <2>3. Owned(o)
      BY <2>1 DEF Owned
    <2>4. ~Swept(o) /\ ~Missing(o)
      BY <2>3 DEF RunInv, SweptUnowned, Swept
    <2>5. /\ run[o].status = "reserved" \/ Dead(o.job)
          /\ run[o].status \in {"none", "reserved"}
      BY <2>3 DEF RunInv, OwnerHolds, Dead, Live
    <2>6. \A v : Owns(v, o)' <=> Owns(v, o)
      BY <1>1 DEF Owns
    <2>7. OneOwner(o)' /\ OwnerHolds(o)' /\ SweptUnowned(o)'
      BY <1>1 DEF RunInv, OneOwner, OwnerHolds, SweptUnowned, Owned, Owns, Swept,
                  Missing, Dead, Live
    <2>8. NotYetSent(o)'
      BY <1>1, <2>1, <2>2, <2>4, <2>5, <2>6 DEF NotYetSent, Dead, Missing, EarlyPcs
    <2>9. TurnAwaited(o)'
      BY <1>1, <1>3 DEF TurnAwaited
    <2>10. ReportTrue(o)'
      BY <1>1, <2>1, <2>2, <2>6 DEF ReportTrue
    <2>11. Agrees(o)'
      BY <1>1, <2>5 DEF Agrees
    <2> QED BY <2>7, <2>8, <2>9, <2>10, <2>11 DEF RunInv
  <1> QED BY <1>2, <1>3

LEMMA SettlesRun ==
  ASSUME CronInv, NEW w \in Workers, Settles(w), NEW o \in Scheduled, RunInv(o)
  PROVE  RunInv(o)'
  <1> USE DEF CronInv
  <1>1. task[w].pc = "result" /\ UNCHANGED <<job, receipt, live, sweep>>
        /\ Finalize(task[w].run, SettledAs(task[w].outcome))
    BY DEF Settles
  <1>2. Others(w) /\ task'[w].pc \in {"idle", "advancing"}
        /\ (task'[w].pc = "idle" \/ task'[w].run = task[w].run)
    BY <1>1, GotoFacts, ReturnFacts DEF Settles
  <1>3. CASE task[w].run # o
    <2>1. SameRun(o)
      BY <1>1, <1>3, RunOfTask, FinalizeFacts, RunsFacts
    <2> QED BY <1>1, <1>2, <1>3, <2>1, OtherRun, Unchanged
  <1>4. CASE task[w].run = o
    <2>1. Owns(w, o) /\ ~Owns(w, o)'
      BY <1>1, <1>2, <1>4 DEF Owns, OwnPcs
    <2>2. \/ task[w].outcome = "ok" /\ receipt[o] = "ok"
          \/ /\ task[w].outcome \in {"error", "unexecutable", "skipped"}
             /\ receipt[o] \in {"none", "error"}
      BY <1>1, <2>1 DEF RunInv, ReportTrue
    <2> DEFINE s == SettledAs(task[w].outcome)
    <2>3. /\ s \in Settled /\ (s = "ok" => receipt[o] = "ok")
          /\ s # "ok" => receipt[o] \in {"none", "error"}
      BY <2>2 DEF SettledAs, Settled
    <2>4. Finalize(o, s)
      BY <1>1, <1>4
    <2> HIDE DEF s
    <2> QED BY <1>1, <1>2, <2>1, <2>3, <2>4, OwnerSettles
  <1> QED BY <1>3, <1>4


\* a step of a task that owns no run, before and after
LEMMA NoOwner ==
  ASSUME NEW w \in Workers, NEW o \in Scheduled, RunInv(o), Others(w),
         task[w].pc \notin OwnPcs, task'[w].pc \notin OwnPcs,
         SamePresence(o), SameTurn(o), SameRun(o), SameSweep(o)
  PROVE  RunInv(o)'
  BY OtherTask, Untouched DEF Owns

LEMMA AdvancePresence ==
  ASSUME JobsTyped, NEW r \in Scheduled, now \in 1 .. MaxTime, AdvanceAfter(r),
         NEW o \in Scheduled
  PROVE  SamePresence(o)
  <1>1. CASE ~Advanceable(r)
    BY <1>1, Unchanged DEF AdvanceAfter
  <1>2. CASE Advanceable(r)
    <2>1. AdvancedRow(r, now).status = "live" /\ Live(r.job)
      BY <1>2, AdvancedRowType DEF Advanceable, Plans
    <2>2. job' = [job EXCEPT ![r.job] = AdvancedRow(r, now)]
      BY <1>2 DEF AdvanceAfter
    <2> QED BY <2>1, <2>2, RunsFacts DEF JobsTyped, SamePresence, Dead, Live
  <1> QED BY <1>1, <1>2

LEMMA AdvancesRun ==
  ASSUME CronInv, NEW w \in Workers, Advances(w), NEW o \in Scheduled, RunInv(o)
  PROVE  RunInv(o)'
  <1> USE DEF CronInv
  <1>1. SamePresence(o)
    <2>1. CASE Disabled(w)
      BY <2>1, DisabledPresence
    <2>2. CASE AdvanceAfter(task[w].run) /\ task[w].outcome # "unexecutable"
      BY <2>2, AdvancePresence DEF Advances, TasksTyped, TaskSane, BoundsTyped
    <2> QED BY <2>1, <2>2 DEF Advances
  <1> QED BY <1>1, ReturnFacts, NoOwner, Unchanged DEF Advances, OwnPcs

LEMMA DispatchTickRun ==
  ASSUME CronInv, NEW j \in Jobs, NEW w \in Workers, DispatchTick(j, w),
         NEW o \in Scheduled, RunInv(o)
  PROVE  RunInv(o)'
  <1>1. Others(w) /\ task[w].pc = "idle" /\ task'[w].pc = "tick"
    BY StartFacts DEF DispatchTick, CronInv
  <1> QED BY <1>1, NoOwner, Unchanged DEF DispatchTick, OwnPcs

LEMMA RequestedApart == \A j \in Jobs, p \in Ops : RunNow(j, p) \notin Scheduled
  BY CronAssumption DEF RunNow, Scheduled

LEMMA NowReservesRun ==
  ASSUME CronInv, NEW w \in Workers, NEW j \in Jobs, NEW p \in Ops,
         NowReserves(w, j, p), NEW o \in Scheduled, RunInv(o)
  PROVE  RunInv(o)'
  <1> USE DEF CronInv
  <1> DEFINE r == RunNow(j, p)
  <1>1. r # o
    BY RequestedApart
  <1> HIDE DEF r
  <1>2. /\ Others(w) /\ task[w].pc = "idle" /\ task'[w].run = r
        /\ UNCHANGED <<job, receipt, live, sweep>>
    BY StartFacts DEF NowReserves, r
  <1>3. SameRun(o)
    BY <1>1, RunsFacts DEF NowReserves, Reserve, SameRun, RunsTyped, r
  <1>4. ~Owns(w, o) /\ ~Owns(w, o)'
    BY <1>1, <1>2 DEF Owns, OwnPcs
  <1> QED BY <1>2, <1>3, <1>4, OtherTask, Unchanged, Untouched

LEMMA DuplicateSettlesRun ==
  ASSUME CronInv, DuplicatesRequested, NEW w \in Workers, DuplicateSettles(w),
         NEW o \in Scheduled, RunInv(o)
  PROVE  RunInv(o)'
  <1> USE DEF CronInv
  <1>1. task[w].run # o /\ task[w].run \in Runs
    BY RunOfTask DEF DuplicatesRequested, DuplicateSettles
  <1>2. SameRun(o)
    BY <1>1, FinalizeFacts, RunsFacts DEF DuplicateSettles
  <1>3. Others(w) /\ task'[w].pc = "idle"
    BY ReturnFacts DEF DuplicateSettles
  <1> QED BY <1>1, <1>2, <1>3, OtherRun, Unchanged DEF DuplicateSettles

LEMMA AddJobRun ==
  ASSUME CronInv, NEW w \in Workers, NEW j \in Jobs, AddJob(w, j),
         NEW o \in Scheduled, RunInv(o)
  PROVE  RunInv(o)'
  <1>1. PICK s \in Schedules :
          /\ job[j].status = "absent"
          /\ job' = [job EXCEPT ![j] = NewRow(s, now)]
          /\ Start(w, "adding", Occurrence(j, 1, NewRow(s, now).next), NewRow(s, now))
          /\ UNCHANGED <<run, now, timer, revoked, receipt, live, sweep>>
    BY DEF AddJob
  <1>2. NewRow(s, now).status = "live"
    BY DEF NewRow
  <1>3. SamePresence(o)
    BY <1>1, <1>2, RunsFacts DEF SamePresence, Dead, Live, CronInv, JobsTyped
  <1>4. Others(w) /\ task[w].pc = "idle" /\ task'[w].pc = "adding"
    BY <1>1, StartFacts DEF CronInv
  <1> QED BY <1>1, <1>3, <1>4, NoOwner, Unchanged DEF OwnPcs

LEMMA UpdateJobRun ==
  ASSUME CronInv, NEW w \in Workers, NEW j \in Jobs, UpdateJob(w, j),
         NEW o \in Scheduled, RunInv(o)
  PROVE  RunInv(o)'
  <1>1. Others(w) /\ task[w].pc = "idle" /\ task'[w].pc = "updating"
    BY StartFacts DEF UpdateJob, CronInv
  <1> QED BY <1>1, NoOwner, Unchanged DEF UpdateJob, OwnPcs

LEMMA UpdateWritesRun ==
  ASSUME CronInv, NEW w \in Workers, UpdateWrites(w), NEW o \in Scheduled, RunInv(o)
  PROVE  RunInv(o)'
  <1> USE DEF CronInv
  <1> DEFINE j == task[w].run.job
  <1>1. task[w].pc = "updating" /\ UNCHANGED <<run, receipt, live, sweep>>
    BY DEF UpdateWrites
  <1>2. CASE job' = job /\ Return(w)
    BY <1>1, <1>2, ReturnFacts, NoOwner, Unchanged DEF OwnPcs
  <1>3. CASE Live(j) /\ job[j].rev = task[w].row.rev
    <2>1. PICK on \in BOOLEAN, s \in Schedules :
            LET row == [job[j] EXCEPT !.enabled = on, !.rev = @ + 1,
                          !.sched = s, !.next = NextRun(s, now)]
            IN /\ job' = [job EXCEPT ![j] = row]
               /\ task' = [task EXCEPT ![w].pc = "installing", ![w].row = row]
      BY <1>3 DEF UpdateWrites
    <2> DEFINE row == [job[j] EXCEPT !.enabled = on, !.rev = @ + 1,
                         !.sched = s, !.next = NextRun(s, now)]
    <2>2. job[j] \in JobRow
      BY <1>1, TaskFields DEF TasksTyped, JobsTyped
    <2>3. row.status = "live"
      BY <1>3, <2>2 DEF Live, JobRow
    <2>4. job' = [job EXCEPT ![j] = row]
          /\ task' = [task EXCEPT ![w].pc = "installing", ![w].row = row]
      BY <2>1
    <2> HIDE DEF row
    <2>5. SamePresence(o)
      BY <1>3, <2>3, <2>4, RunsFacts DEF SamePresence, Dead, Live, JobsTyped
    <2>6. task' = [task EXCEPT ![w] =
                     [pc |-> "installing", run |-> task[w].run, row |-> row,
                      outcome |-> task[w].outcome]]
      BY <1>1, <2>4, RowForm
    <2>7. Others(w) /\ task'[w].pc = "installing"
      BY <2>6 DEF Others, TasksTyped
    <2> QED BY <1>1, <2>5, <2>7, NoOwner, Unchanged DEF OwnPcs
  <1> QED BY <1>2, <1>3 DEF UpdateWrites

LEMMA InstallsRun ==
  ASSUME CronInv, NEW w \in Workers, Installs(w), NEW o \in Scheduled, RunInv(o)
  PROVE  RunInv(o)'
  BY ReturnFacts, NoOwner, Unchanged DEF CronInv, Installs, OwnPcs

LEMMA CleansUpRun ==
  ASSUME CronInv, NEW w \in Workers, CleansUp(w), NEW o \in Scheduled, RunInv(o)
  PROVE  RunInv(o)'
  BY ReturnFacts, NoOwner, Unchanged DEF CronInv, CleansUp, OwnPcs

LEMMA DeleteRun ==
  ASSUME CronInv, NEW j \in Jobs, NEW s \in {"removed", "cascaded"}, DeleteJob(j, s),
         NEW o \in Scheduled, RunInv(o), SameOwners(o),
         UNCHANGED <<receipt, live, sweep>>
  PROVE  RunInv(o)'
  <1> USE DEF CronInv
  <1>1. CASE o.job # j
    <2>1. SameRun(o) /\ SamePresence(o)
      BY <1>1, RunsFacts DEF DeleteJob, SameRun, SamePresence, Dead, Live, JobsTyped,
                             JobRow
    <2> QED BY <2>1, Unchanged, Untouched
  <1>2. CASE o.job = j
    <2>1. run'[o].status = "none"
      BY <1>2, RunsFacts DEF DeleteJob, NoRun
    <2>2. Dead(o.job)'
      BY <1>2 DEF DeleteJob, Dead, JobsTyped, JobRow
    <2>3. \A w \in Workers :
            /\ Owns(w, o)' <=> Owns(w, o)
            /\ Owns(w, o) => /\ task'[w].pc = task[w].pc
                             /\ task'[w].outcome = task[w].outcome
      BY DEF SameOwners
    <2>4. OneOwner(o)'
      BY <2>3 DEF RunInv, OneOwner
    <2>5. OwnerHolds(o)'
      BY <2>1, <2>2 DEF OwnerHolds
    <2>6. SweptUnowned(o)'
      BY <2>3 DEF RunInv, SweptUnowned, Swept, Missing, Owned
    <2>7. NotYetSent(o)'
      BY <2>2, <2>3 DEF RunInv, NotYetSent, Missing
    <2>8. TurnAwaited(o)' /\ ReportTrue(o)'
      BY <2>3 DEF RunInv, TurnAwaited, ReportTrue
    <2>9. Agrees(o)'
      BY <2>1 DEF Agrees
    <2> QED BY <2>4, <2>5, <2>6, <2>7, <2>8, <2>9 DEF RunInv
  <1> QED BY <1>1, <1>2

LEMMA RemoveJobRun ==
  ASSUME CronInv, NEW j \in Jobs, RemoveJob(j), NEW o \in Scheduled, RunInv(o)
  PROVE  RunInv(o)'
  BY DeleteRun, Unchanged DEF RemoveJob

LEMMA CascadeDeleteRun ==
  ASSUME CronInv, NEW w \in Workers, NEW j \in Jobs, CascadeDelete(w, j),
         NEW o \in Scheduled, RunInv(o)
  PROVE  RunInv(o)'
  <1>1. Others(w) /\ task[w].pc = "idle" /\ task'[w].pc = "cleaning"
    BY StartFacts DEF CascadeDelete, CronInv
  <1>2. SameOwners(o)
    BY <1>1, OtherTask DEF Owns, OwnPcs
  <1> QED BY <1>2, DeleteRun DEF CascadeDelete


\* steps of the sweep that decide no run
LEMMA SweepTurns ==
  ASSUME NEW o \in Scheduled, RunInv(o), sweep'.pc # "missed",
         sweep'.runs \subseteq sweep.runs, SamePresence(o),
         UNCHANGED <<run, task, receipt, live>>
  PROVE  RunInv(o)'
  <1>1. SameSweep(o)
    BY DEF SameSweep, Swept, Missing
  <1> QED BY <1>1, Unchanged, Untouched

LEMMA SystemResumeRun ==
  ASSUME CronInv, SystemResume, NEW o \in Scheduled, RunInv(o)
  PROVE  RunInv(o)'
  <1>1. sweep'.pc = "listing" /\ sweep'.runs = sweep.runs
    BY DEF SystemResume, CronInv, SweepTyped, Sweep
  <1> QED BY <1>1, SweepTurns, Unchanged DEF SystemResume

LEMMA SweepListsRun ==
  ASSUME CronInv, SweepLists, NEW o \in Scheduled, RunInv(o)
  PROVE  RunInv(o)'
  <1>1. sweep'.pc = "sweeping" /\ sweep'.runs = sweep.runs
    BY DEF SweepLists, CronInv, SweepTyped, Sweep
  <1> QED BY <1>1, SweepTurns, Unchanged DEF SweepLists

LEMMA SweepsJobRun ==
  ASSUME CronInv, NEW j \in Jobs, SweepsJob(j), NEW o \in Scheduled, RunInv(o)
  PROVE  RunInv(o)'
  <1> USE DEF CronInv
  <1> DEFINE r == Occurrence(j, job[j].rev, job[j].next)
             next == [sweep EXCEPT !.todo = @ \ {j}]
  <1>1. sweep.pc = "sweeping" /\ UNCHANGED <<task, receipt, live>>
    BY DEF SweepsJob
  <1>2. Live(j) => r \in Scheduled
    BY PlannedType DEF Live
  <1>3. sweep \in Sweep
    BY DEF SweepTyped
  <1>4. CASE sweep' = next /\ job' = job /\ run' = run
    <2>1. sweep'.pc = "sweeping" /\ sweep'.runs = sweep.runs
      BY <1>1, <1>3, <1>4 DEF Sweep
    <2> QED BY <1>1, <1>4, <2>1, SweepTurns, Unchanged
  <1>5. CASE Live(j) /\ AdvanceAfter(r) /\ run' = run /\ sweep' = next
    <2>1. sweep'.pc = "sweeping" /\ sweep'.runs = sweep.runs
      BY <1>1, <1>3, <1>5 DEF Sweep
    <2>2. SamePresence(o)
      BY <1>2, <1>5, AdvancePresence DEF BoundsTyped
    <2> QED BY <1>1, <1>5, <2>1, <2>2, SweepTurns
  <1>6. CASE /\ Live(j) /\ run[r].status = "none" /\ Reserve(r)
             /\ UNCHANGED <<job, timer, revoked>>
             /\ sweep' = [next EXCEPT !.pc = "missed", !.run = r]
    <2>1. r \in Scheduled /\ r \in Runs /\ r.job = j
      BY <1>2, <1>6, RunsFacts DEF Occurrence
    <2> HIDE DEF r
    <2>2. sweep'.pc = "missed" /\ sweep'.run = r /\ sweep'.runs = sweep.runs
      BY <1>3, <1>6 DEF Sweep
    <2>3. CASE o # r
      <3>1. SameRun(o)
        BY <1>6, <2>3 DEF Reserve, SameRun, RunsTyped
      <3>2. SameSweep(o)
        BY <2>2, <2>3 DEF SameSweep, Swept, Missing
      <3> QED BY <1>1, <1>6, <3>1, <3>2, Unchanged, Untouched
    <2>4. CASE o = r
      <3>1. Live(o.job) /\ ~Dead(o.job)
        BY <1>6, <2>1, <2>4 DEF Live, Dead
      <3>2. ~Owned(o) /\ receipt[o] = "none" /\ o \notin live
        BY <1>6, <2>4, <3>1 DEF RunInv, OwnerHolds, NotYetSent, TurnAwaited
      <3>3. run'[o].status = "reserved"
        BY <1>6, <2>1, <2>4 DEF Reserve, RunsTyped, RunRow
      <3>4. \A w \in Workers : ~Owns(w, o)'
        BY <1>1, <3>2 DEF Owned, Owns
      <3>5. Live(o.job)'
        BY <1>6, <3>1 DEF Live
      <3>6. OneOwner(o)' /\ SweptUnowned(o)' /\ ReportTrue(o)'
        BY <3>4 DEF OneOwner, SweptUnowned, ReportTrue, Owned
      <3>7. OwnerHolds(o)'
        BY <3>3, <3>5 DEF OwnerHolds
      <3>8. NotYetSent(o)' /\ TurnAwaited(o)'
        BY <1>1, <3>2 DEF NotYetSent, TurnAwaited
      <3>9. Agrees(o)'
        BY <3>3 DEF Agrees
      <3> QED BY <3>6, <3>7, <3>8, <3>9 DEF RunInv
    <2> QED BY <2>3, <2>4
  <1> QED BY <1>4, <1>5, <1>6 DEF SweepsJob, storeVars

LEMMA SweepMissesRun ==
  ASSUME CronInv, RecoveryFirst, SweepMisses, NEW o \in Scheduled, RunInv(o)
  PROVE  RunInv(o)'
  <1> USE DEF CronInv
  <1>1. /\ sweep.pc = "missed" /\ sweep.run \in Scheduled /\ sweep.run \in Runs
        /\ Finalize(sweep.run, "missed") /\ UNCHANGED <<job, task, receipt, live>>
    BY RunsFacts DEF SweepMisses, SweepTyped
  <1>2. sweep.runs = {}
    BY <1>1 DEF RecoveryFirst
  <1>3. sweep'.pc \in {"passed", "sweeping"} /\ sweep'.runs = {}
    BY <1>2 DEF SweepMisses, SweepTyped, Sweep
  <1>4. ~Swept(o)' /\ ~Missing(o)'
    BY <1>3 DEF Swept, Missing
  <1>5. CASE sweep.run # o
    <2>1. SameRun(o)
      BY <1>1, <1>5, FinalizeFacts, RunsFacts
    <2>2. SameSweep(o)
      BY <1>4 DEF SameSweep
    <2> QED BY <1>1, <2>1, <2>2, Unchanged, Untouched
  <1>6. CASE sweep.run = o
    <2>1. Swept(o) /\ Missing(o)
      BY <1>1, <1>6 DEF Swept, Missing
    <2>2. ~Owned(o) /\ receipt[o] = "none" /\ o \notin live
      BY <2>1 DEF RunInv, SweptUnowned, NotYetSent, TurnAwaited
    <2>3. ~Owned(o)'
      BY <1>1, <2>2 DEF Owned, Owns
    <2>4. run'[o].status # "none" => Live(o.job)
      BY <1>1, <1>6, FinalizeFacts DEF RunInv, OwnerHolds, Finalizable
    <2>5. Agrees(o)'
      BY <1>1, <2>2, <1>6, FinalizeFacts DEF RunInv, Agrees
    <2>6. Live(o.job)' <=> Live(o.job)
      BY <1>1 DEF Live
    <2> QED BY <1>1, <1>4, <2>2, <2>3, <2>4, <2>5, <2>6, Unattended
  <1> QED BY <1>5, <1>6

LEMMA SweepAdvancesRun ==
  ASSUME CronInv, SweepAdvances, NEW o \in Scheduled, RunInv(o)
  PROVE  RunInv(o)'
  <1>1. sweep'.pc \in {"sweeping", "recovering"} /\ sweep'.runs = sweep.runs
    BY DEF SweepAdvances, CronInv, SweepTyped, Sweep
  <1>2. SamePresence(o)
    BY AdvancePresence DEF SweepAdvances, CronInv, SweepTyped, BoundsTyped
  <1> QED BY <1>1, <1>2, SweepTurns DEF SweepAdvances

LEMMA SweepEndsRun ==
  ASSUME CronInv, SweepEnds, NEW o \in Scheduled, RunInv(o)
  PROVE  RunInv(o)'
  <1>1. sweep'.pc = "off" /\ sweep'.runs = {}
    BY DEF SweepEnds, NoSweep
  <1> QED BY <1>1, SweepTurns, Unchanged DEF SweepEnds

LEMMA RecoverEndsRun ==
  ASSUME CronInv, RecoverEnds, NEW o \in Scheduled, RunInv(o)
  PROVE  RunInv(o)'
  <1>1. sweep'.pc = "listing" /\ sweep'.runs = sweep.runs
    BY DEF RecoverEnds, CronInv, SweepTyped, Sweep
  <1> QED BY <1>1, SweepTurns, Unchanged DEF RecoverEnds

LEMMA CrashRun ==
  ASSUME CronInv, Crash, NEW o \in Scheduled, RunInv(o)
  PROVE  RunInv(o)'
  <1>1. \A w \in Workers : ~Owns(w, o)'
    BY DEF Crash, Owns, OwnPcs, NoTask
  <1>2. sweep'.pc = "recovering" /\ sweep'.runs = {r \in Runs : run[r].status = "reserved"}
    BY DEF Crash, NoSweep
  <1>3. ~Missing(o)'
    BY <1>2 DEF Missing
  <1>4. OneOwner(o)' /\ SweptUnowned(o)' /\ ReportTrue(o)'
    BY <1>1 DEF OneOwner, SweptUnowned, ReportTrue, Owned
  <1>5. OwnerHolds(o)'
    BY <1>1, <1>2, <1>3 DEF RunInv, OwnerHolds, Owned, Swept, Live, Crash
  <1>6. NotYetSent(o)'
    BY <1>1, <1>3 DEF RunInv, NotYetSent, Dead, Crash
  <1>7. TurnAwaited(o)' /\ Agrees(o)'
    BY DEF RunInv, TurnAwaited, Agrees, Crash
  <1> QED BY <1>4, <1>5, <1>6, <1>7 DEF RunInv

LEMMA RecoverRunRun ==
  ASSUME CronInv, NEW r \in Runs, RecoverRun(r), NEW o \in Scheduled, RunInv(o)
  PROVE  RunInv(o)'
  <1> USE DEF CronInv
  <1> DEFINE done == [sweep EXCEPT !.runs = @ \ {r}]
  <1>1. /\ sweep.pc = "recovering" /\ r \in sweep.runs /\ sweep \in Sweep
        /\ UNCHANGED <<job, task, live>>
    BY DEF RecoverRun, SweepTyped
  <1>2. CASE /\ Proven(r)
             /\ Finalize(r, IF receipt[r] = "ok" THEN "ok" ELSE "error")
             /\ receipt' = receipt
             /\ sweep' = IF r \in Scheduled
                         THEN [done EXCEPT !.pc = "recovered", !.run = r]
                         ELSE done
    <2>1. sweep'.pc \in {"recovered", "recovering"} /\ sweep'.runs = sweep.runs \ {r}
      BY <1>1, <1>2 DEF Sweep
    <2>2. CASE r # o
      <3>1. SameRun(o)
        BY <1>2, <2>2, FinalizeFacts, RunsFacts
      <3>2. SameSweep(o)
        BY <2>1 DEF SameSweep, Swept, Missing
      <3> QED BY <1>1, <1>2, <3>1, <3>2, Unchanged, Untouched
    <2>3. CASE r = o
      <3>1. Swept(o)
        BY <1>1, <2>3 DEF Swept
      <3>2. ~Owned(o) /\ o \notin live
        BY <3>1 DEF RunInv, SweptUnowned, TurnAwaited, Owned
      <3>3. ~Owned(o)' /\ ~Swept(o)'
        BY <1>1, <2>1, <2>3, <3>2 DEF Owned, Owns, Swept, Missing
      <3>4. run'[o].status =
              IF Finalizable(o) THEN IF receipt[o] = "ok" THEN "ok" ELSE "error"
              ELSE run[o].status
        BY <1>2, <2>3, FinalizeFacts
      <3>5. receipt[o] \in {"none", "ok", "error"}
        BY <1>2, <2>3 DEF Proven, TurnsTyped
      <3>6. (run[o].status # "none" => Live(o.job))'
        BY <1>1, <3>4 DEF RunInv, OwnerHolds, Finalizable, Live
      <3>7. (run[o].status = "none" /\ ~Dead(o.job) => receipt[o] = "none")'
        BY <1>1, <1>2, <3>4 DEF RunInv, NotYetSent, Dead
      <3>8. Agrees(o)'
        BY <1>2, <3>4, <3>5 DEF RunInv, Agrees
      <3> QED BY <1>1, <3>2, <3>3, <3>6, <3>7, <3>8, Unattended
    <2> QED BY <2>2, <2>3
  <1>3. CASE /\ receipt[r] = "accepted" /\ receipt' = [receipt EXCEPT ![r] = "error"]
             /\ UNCHANGED <<run, sweep>>
    <2>1. CASE r # o
      <3>1. SameTurn(o)
        BY <1>1, <1>3, <2>1, RunsFacts DEF SameTurn, TurnsTyped
      <3> QED BY <1>1, <1>3, <3>1, Unchanged, Untouched
    <2>2. CASE r = o
      <3>1. Swept(o) /\ ~Missing(o)
        BY <1>1, <2>2 DEF Swept, Missing
      <3>2. \A w \in Workers : ~Owns(w, o)
        BY <3>1 DEF RunInv, SweptUnowned, Owned
      <3>3. o \notin live /\ run[o].status \in {"none", "reserved"}
        BY <3>1, <3>2 DEF RunInv, TurnAwaited, OwnerHolds, Dead, Live
      <3>4. \A w \in Workers : ~Owns(w, o)'
        BY <1>1, <3>2 DEF Owns
      <3>5. OneOwner(o)' /\ SweptUnowned(o)' /\ ReportTrue(o)'
        BY <3>4 DEF OneOwner, SweptUnowned, ReportTrue, Owned
      <3>6. OwnerHolds(o)'
        BY <1>1, <1>3, <3>1 DEF RunInv, OwnerHolds, Dead, Live
      <3>7. NotYetSent(o)'
        BY <1>1, <1>3, <2>2, <3>1, <3>4 DEF RunInv, NotYetSent, Dead, Missing
      <3>8. TurnAwaited(o)' /\ Agrees(o)'
        BY <1>1, <1>3, <3>3 DEF TurnAwaited, Agrees
      <3> QED BY <3>5, <3>6, <3>7, <3>8 DEF RunInv
    <2> QED BY <2>1, <2>2
  <1>4. CASE sweep' = done /\ UNCHANGED <<run, receipt>>
    <2>1. sweep'.pc = "recovering" /\ sweep'.runs \subseteq sweep.runs
      BY <1>1, <1>4 DEF Sweep
    <2> QED BY <1>1, <1>4, <2>1, SweepTurns, Unchanged
  <1> QED BY <1>2, <1>3, <1>4 DEF RecoverRun

-----------------------------------------------------------------------------
LEMMA RunInvStep ==
  ASSUME CronInv, ReceiptInv, [CronNext]_cronVars, NEW o \in Scheduled
  PROVE  RunInv(o)'
  <1>0. RunInv(o) /\ DuplicatesRequested /\ RecoveryFirst
    BY DEF ReceiptInv
  <1>1. CASE UNCHANGED cronVars
    BY <1>0, <1>1, Unchanged, Untouched DEF cronVars
  <1>2. ASSUME NEW w \in Workers, WorkerStep(w) PROVE RunInv(o)'
    BY <1>0, <1>2, TickEntersRun, TickReservesRun, TickVerifiesRun, TickCommitsRun,
       DuplicateSettlesRun, AttachesRun, PrepareFailsRun, BeginsRun, SendsRun,
       SendRefusedRun, SendUnprovenRun, WaitObservesRun, SettlesRun, AdvancesRun,
       UpdateWritesRun, InstallsRun, CleansUpRun DEF WorkerStep
  <1>3. CASE SweepStep
    BY <1>0, <1>3, SweepListsRun, SweepsJobRun, SweepMissesRun, SweepAdvancesRun,
       SweepEndsRun, RecoverRunRun, RecoverEndsRun DEF SweepStep
  <1>4. CASE UserStep
    BY <1>0, <1>4, AddJobRun, UpdateJobRun, CascadeDeleteRun, NowReservesRun,
       RemoveJobRun, SystemResumeRun DEF UserStep
  <1>5. CASE ClockTicks
    BY <1>0, <1>5, Unchanged, Untouched DEF ClockTicks
  <1> QED BY <1>0, <1>1, <1>2, <1>3, <1>4, <1>5, DispatchTickRun, TurnEndsRun, CrashRun
          DEF CronNext

LEMMA RecoveryFirstStep ==
  ASSUME CronInv, RecoveryFirst, [CronNext]_cronVars
  PROVE  RecoveryFirst'
  <1> USE DEF CronInv, RecoveryFirst
  <1>0. sweep \in Sweep
    BY DEF SweepTyped
  <1>1. CASE sweep' = sweep
    BY <1>1
  <1>2. CASE SystemResume \/ SweepLists \/ SweepMisses \/ SweepEnds \/ RecoverEnds
    <2>1. CASE SystemResume
      BY <1>0, <2>1 DEF SystemResume, Sweep
    <2>2. CASE SweepLists
      BY <1>0, <2>2 DEF SweepLists, Sweep
    <2>3. CASE SweepMisses
      BY <1>0, <2>3 DEF SweepMisses, Sweep
    <2>4. CASE SweepEnds
      BY <2>4 DEF SweepEnds, NoSweep
    <2>5. CASE RecoverEnds
      BY <1>0, <2>5 DEF RecoverEnds, Sweep
    <2> QED BY <1>2, <2>1, <2>2, <2>3, <2>4, <2>5
  <1>3. CASE SweepAdvances
    BY <1>0, <1>3 DEF SweepAdvances, Sweep
  <1>4. ASSUME NEW j \in Jobs, SweepsJob(j) PROVE RecoveryFirst'
    <2>1. sweep.runs = {} /\ sweep'.runs = sweep.runs
      BY <1>0, <1>4 DEF SweepsJob, Sweep
    <2> QED BY <2>1
  <1>5. ASSUME NEW r \in Runs, RecoverRun(r) PROVE RecoveryFirst'
    BY <1>0, <1>5 DEF RecoverRun, Sweep
  <1>6. CASE Crash
    BY <1>6 DEF Crash, NoSweep
  <1>7. (\E w \in Workers : WorkerStep(w)) => sweep' = sweep
    BY DEF WorkerStep, TickEnters, TickReserves, TickVerifies, TickCommits,
           DuplicateSettles, Attaches, PrepareFails, Begins, Sends, SendRefused,
           SendUnproven, WaitObserves, Settles, Advances, UpdateWrites, Installs,
           CleansUp
  <1>8. UserStep => sweep' = sweep \/ SystemResume
    BY DEF UserStep, AddJob, UpdateJob, CascadeDelete, NowReserves, RemoveJob
  <1> QED BY <1>1, <1>2, <1>3, <1>4, <1>5, <1>6, <1>7, <1>8
          DEF CronNext, SweepStep, DispatchTick, TurnEnds, ClockTicks, cronVars

\* only a repeated request runs into a duplicate
LEMMA DuplicateTask ==
  ASSUME DuplicatesRequested, NEW w \in Workers, Others(w), task'[w].pc # "duplicate"
  PROVE  DuplicatesRequested'
  BY DEF DuplicatesRequested, Others

LEMMA DuplicatesRequestedStep ==
  ASSUME CronInv, DuplicatesRequested, [CronNext]_cronVars
  PROVE  DuplicatesRequested'
  <1> USE DEF CronInv
  <1>1. CASE task' = task
    BY <1>1 DEF DuplicatesRequested
  <1>2. ASSUME NEW w \in Workers, WorkerStep(w) PROVE DuplicatesRequested'
    <2>1. CASE Return(w)
      BY <2>1, ReturnFacts, DuplicateTask
    <2>2. ASSUME NEW pc \in Pcs \ {"duplicate"}, Goto(w, pc), task[w].pc # "idle"
          PROVE  DuplicatesRequested'
      BY <2>2, GotoFacts, DuplicateTask
    <2>3. ASSUME NEW r, task[w].pc # "idle",
                 task' = [task EXCEPT ![w].pc = "result", ![w].outcome = r]
          PROVE  DuplicatesRequested'
      BY <2>3, ReportFacts, DuplicateTask
    <2>4. ASSUME NEW pc \in Pcs \ {"duplicate"}, NEW row, task[w].pc # "idle",
                 task' = [task EXCEPT ![w].pc = pc, ![w].row = row]
          PROVE  DuplicatesRequested'
      <3>1. task' = [task EXCEPT ![w] =
                       [pc |-> pc, run |-> task[w].run, row |-> row,
                        outcome |-> task[w].outcome]]
        BY <2>4, RowForm
      <3>2. Others(w) /\ task'[w].pc = pc
        BY <3>1 DEF Others, TasksTyped
      <3> QED BY <3>2, DuplicateTask
    <2>5. CASE TickEnters(w)
      BY <2>1, <2>4, <2>5 DEF TickEnters, Absorbed, Pcs
    <2>6. CASE UpdateWrites(w)
      <3>1. CASE Return(w)
        BY <3>1, <2>1
      <3>2. CASE \E row : task' = [task EXCEPT ![w].pc = "installing", ![w].row = row]
        BY <2>4, <2>6, <3>2 DEF UpdateWrites, Pcs
      <3> QED BY <2>6, <3>1, <3>2 DEF UpdateWrites
    <2>7. CASE TickReserves(w) \/ TickVerifies(w) \/ TickCommits(w) \/ Attaches(w)
               \/ Sends(w) \/ Settles(w)
      BY <2>1, <2>2, <2>7 DEF TickReserves, TickVerifies, TickCommits, Attaches,
                              Sends, Settles, Absorbed, Pcs
    <2>8. CASE PrepareFails(w) \/ Begins(w) \/ SendRefused(w) \/ WaitObserves(w)
      BY <2>1, <2>2, <2>3, <2>8 DEF PrepareFails, Begins, SendRefused, WaitObserves,
                                    Pcs
    <2>9. CASE DuplicateSettles(w) \/ SendUnproven(w) \/ Advances(w) \/ Installs(w)
               \/ CleansUp(w)
      BY <2>1, <2>9 DEF DuplicateSettles, SendUnproven, Advances, Installs, CleansUp
    <2> QED BY <1>2, <2>5, <2>6, <2>7, <2>8, <2>9 DEF WorkerStep
  <1>3. ASSUME NEW w \in Workers, NEW j \in Jobs,
               AddJob(w, j) \/ UpdateJob(w, j) \/ CascadeDelete(w, j)
               \/ DispatchTick(j, w)
        PROVE  DuplicatesRequested'
    <2>1. CASE AddJob(w, j)
      <3>1. PICK row : Start(w, "adding", Occurrence(j, 1, row.next), row)
        BY <2>1 DEF AddJob
      <3> QED BY <3>1, StartFacts, DuplicateTask
    <2>2. CASE UpdateJob(w, j)
      BY <2>2, StartFacts, DuplicateTask DEF UpdateJob
    <2>3. CASE CascadeDelete(w, j)
      BY <2>3, StartFacts, DuplicateTask DEF CascadeDelete
    <2>4. CASE DispatchTick(j, w)
      BY <2>4, StartFacts, DuplicateTask DEF DispatchTick
    <2> QED BY <1>3, <2>1, <2>2, <2>3, <2>4
  <1>4. ASSUME NEW w \in Workers, NEW j \in Jobs, NEW p \in Ops, NowReserves(w, j, p)
        PROVE  DuplicatesRequested'
    <2>1. Others(w) /\ task'[w].run = RunNow(j, p)
      BY <1>4, StartFacts DEF NowReserves
    <2> QED BY <2>1, RequestedApart DEF DuplicatesRequested, Others
  <1>5. CASE Crash
    BY <1>5 DEF Crash, DuplicatesRequested, NoTask
  <1>6. SweepStep => task' = task
    BY DEF SweepStep, SweepLists, SweepsJob, SweepMisses, SweepAdvances, SweepEnds,
           RecoverRun, RecoverEnds
  <1>7. CASE UserStep
    BY <1>1, <1>3, <1>4, <1>7 DEF UserStep, RemoveJob, SystemResume
  <1> QED BY <1>1, <1>2, <1>3, <1>5, <1>6, <1>7 DEF CronNext, TurnEnds, ClockTicks,
                                                   cronVars

LEMMA ReceiptInit == CronInit => ReceiptInv
  <1> SUFFICES ASSUME CronInit PROVE ReceiptInv
    OBVIOUS
  <1>1. \A w \in Workers : task[w].pc = "idle"
    BY DEF CronInit, NoTask
  <1>2. sweep.pc = "off" /\ sweep.runs = {} /\ live = {}
    BY DEF CronInit, NoSweep
  <1>3. ASSUME NEW o \in Scheduled PROVE RunInv(o)
    <2>1. run[o].status = "none" /\ receipt[o] = "none"
      BY RunsFacts DEF CronInit, StoreInit, NoRun
    <2> QED BY <1>1, <1>2, <2>1 DEF RunInv, OneOwner, OwnerHolds, SweptUnowned,
                NotYetSent, TurnAwaited, ReportTrue, Agrees, Owned, Owns, OwnPcs,
                Swept, Missing
  <1> QED BY <1>1, <1>2, <1>3 DEF ReceiptInv, DuplicatesRequested, RecoveryFirst

LEMMA ReceiptInvStep ==
  ASSUME CronInv, ReceiptInv, [CronNext]_cronVars
  PROVE  ReceiptInv'
  <1>1. \A o \in Scheduled : RunInv(o)'
    BY RunInvStep
  <1>2. Scheduled' = Scheduled
    BY DEF Scheduled
  <1> QED BY <1>1, <1>2, DuplicatesRequestedStep, RecoveryFirstStep DEF ReceiptInv

\* The record of every run of a schedule agrees with its conversation, for
\* any number of jobs, workers, crashes and commands: whoever settles a run -
\* its task, the sweep of a resume or the recovery of a boot - is the only
\* party that may, and knows whether its turn was accepted and how it ended.
THEOREM ReceiptAlwaysDecides == CronSpec => []ReceiptDecides
  <1>1. CronInit => CronInv /\ ReceiptInv
    BY CronInitType, ReceiptInit
  <1>2. CronInv /\ ReceiptInv /\ [CronNext]_cronVars => (CronInv /\ ReceiptInv)'
    BY CronStepType, ReceiptInvStep
  <1>3. ReceiptInv => ReceiptDecides
    BY DEF ReceiptInv, RunInv, ReceiptDecides
  <1> QED BY <1>1, <1>2, <1>3, PTL DEF CronSpec

-----------------------------------------------------------------------------
(* A callback is admitted only while its timer is installed.  What makes   *)
(* it inductive: the gate of a job has one holder; every change of a timer *)
(* revokes the callbacks of the job, so a callback that is not revoked     *)
(* came from the timer that is installed; and while a callback holds the   *)
(* gate nobody else writes the row it verified.                            *)

SweepGates == {"recovered", "missed", "passed"}
GateInv ==
  /\ \A v, w \in Workers :
       /\ task[v].pc \in GatePcs /\ task[w].pc \in GatePcs
       /\ task[v].run.job = task[w].run.job
       => v = w
  /\ sweep.pc \in SweepGates =>
       \A w \in Workers :
         task[w].pc \in GatePcs => task[w].run.job # sweep.run.job

\* a job that was never added has no timer and no task
NotYet ==
  \A j \in Jobs : job[j].status = "absent" =>
    /\ timer[j] = NoTimer
    /\ \A w \in Workers : task[w].pc # "idle" => task[w].run.job # j

RevokedTicks == \A w \in revoked : task[w].pc \in TickPcs
TicksScheduled ==
  \A w \in Workers : task[w].pc \in TickPcs => task[w].run \in Scheduled
TimerOrder ==
  \A j \in Jobs : timer[j].planned <= timer[j].at /\ timer[j].at <= timer[j].due
TickTimer ==
  \A w \in Workers : task[w].pc \in TickPcs /\ w \notin revoked =>
    /\ timer[task[w].run.job].rev = task[w].run.rev
    /\ timer[task[w].run.job].planned <= task[w].run.at
TicksPast == \A w \in Workers : task[w].pc \in TickPcs => task[w].run.at <= now
VerifiedPlans ==
  \A w \in Workers : task[w].pc = "verified" /\ Live(task[w].run.job) =>
    /\ job[task[w].run.job].rev = task[w].run.rev
    /\ job[task[w].run.job].next = task[w].run.at

TimersInv ==
  RevokedTicks /\ TicksScheduled /\ TimerOrder /\ TickTimer /\ TicksPast
TickInv == GateInv /\ NotYet /\ TimersInv /\ VerifiedPlans

-----------------------------------------------------------------------------
(* What a step does to the task it belongs to.                             *)

\* the task w goes on from one of the states in from to one of those in to,
\* or returns
GoesTo(w, from, to) ==
  /\ Others(w)
  /\ task[w].pc \in from
  /\ \/ task'[w].pc = "idle"
     \/ task'[w].pc \in to /\ task'[w].run = task[w].run

\* and keeps the row it has read
GoesOn(w, from, to) ==
  GoesTo(w, from, to) /\ (task'[w].pc # "idle" => task'[w].row = task[w].row)

LEMMA GotoGoes ==
  ASSUME TasksTyped, NEW w \in Workers, NEW from, NEW to, NEW pc \in to, Goto(w, pc),
         task[w].pc \in from, task[w].pc # "idle"
  PROVE  GoesOn(w, from, to)
  <1>1. task' = [task EXCEPT ![w] =
                   [pc |-> pc, run |-> task[w].run, row |-> task[w].row,
                    outcome |-> task[w].outcome]]
    BY StepForms DEF Goto, TasksTyped
  <1> QED BY <1>1 DEF Others, TasksTyped, GoesOn, GoesTo

LEMMA ReportGoes ==
  ASSUME TasksTyped, NEW w \in Workers, NEW from, NEW to, "result" \in to, NEW r,
         task' = [task EXCEPT ![w].pc = "result", ![w].outcome = r],
         task[w].pc \in from, task[w].pc # "idle"
  PROVE  GoesOn(w, from, to)
  <1>1. task' = [task EXCEPT ![w] =
                   [pc |-> "result", run |-> task[w].run, row |-> task[w].row,
                    outcome |-> r]]
    BY ReportForm
  <1> QED BY <1>1 DEF Others, TasksTyped, GoesOn, GoesTo

LEMMA ReturnGoes ==
  ASSUME TasksTyped, NEW w \in Workers, NEW from, NEW to, Return(w), task[w].pc \in from
  PROVE  GoesOn(w, from, to)
  BY ReturnFacts DEF GoesOn, GoesTo

LEMMA RowGoes ==
  ASSUME TasksTyped, NEW w \in Workers, NEW from, NEW to, NEW pc \in to, NEW r,
         task' = [task EXCEPT ![w].pc = pc, ![w].row = r],
         task[w].pc \in from, task[w].pc # "idle"
  PROVE  GoesTo(w, from, to) /\ task'[w].row = r /\ task'[w].pc = pc
  <1>1. task' = [task EXCEPT ![w] =
                   [pc |-> pc, run |-> task[w].run, row |-> r,
                    outcome |-> task[w].outcome]]
    BY RowForm
  <1> QED BY <1>1 DEF Others, TasksTyped, GoesTo

\* The stretch of code a worker's step leads through.
LEMMA RunGoes ==
  ASSUME TasksTyped, NEW w \in Workers
  PROVE  /\ TickReserves(w) => GoesOn(w, {"claiming"}, {"reserved"})
         /\ TickVerifies(w) => GoesOn(w, {"reserved"}, {"verified"})
         /\ TickCommits(w) => GoesOn(w, {"verified"}, {"admitted"})
         /\ DuplicateSettles(w) => GoesOn(w, {"duplicate"}, {})
         /\ Attaches(w) => GoesOn(w, {"admitted"}, {"attached"})
         /\ PrepareFails(w) => GoesOn(w, {"admitted"}, {"result"})
         /\ Begins(w) => GoesOn(w, {"attached"}, {"result", "sending"})
         /\ Sends(w) => GoesOn(w, {"sending"}, {"waiting"})
         /\ SendRefused(w) => GoesOn(w, {"sending"}, {"result"})
         /\ SendUnproven(w) => GoesOn(w, {"sending"}, {})
         /\ WaitObserves(w) => GoesOn(w, {"waiting"}, {"result"})
         /\ Settles(w) => GoesOn(w, {"result"}, {"advancing"})
         /\ Advances(w) => GoesOn(w, {"advancing"}, {})
         /\ Installs(w) => GoesOn(w, {"adding", "installing"}, {})
         /\ CleansUp(w) => GoesOn(w, {"cleaning"}, {})
  <1>1. TickReserves(w) => GoesOn(w, {"claiming"}, {"reserved"})
    BY GotoGoes, ReturnGoes DEF TickReserves, Absorbed
  <1>2. TickVerifies(w) => GoesOn(w, {"reserved"}, {"verified"})
    BY GotoGoes, ReturnGoes DEF TickVerifies, Absorbed
  <1>3. TickCommits(w) => GoesOn(w, {"verified"}, {"admitted"})
    BY GotoGoes, ReturnGoes DEF TickCommits, Absorbed
  <1>4. DuplicateSettles(w) => GoesOn(w, {"duplicate"}, {})
    BY ReturnGoes DEF DuplicateSettles
  <1>5. Attaches(w) => GoesOn(w, {"admitted"}, {"attached"})
    BY GotoGoes DEF Attaches
  <1>6. PrepareFails(w) => GoesOn(w, {"admitted"}, {"result"})
    BY ReportGoes, ReturnGoes DEF PrepareFails
  <1>7. Begins(w) => GoesOn(w, {"attached"}, {"result", "sending"})
    BY GotoGoes, ReportGoes DEF Begins
  <1>8. Sends(w) => GoesOn(w, {"sending"}, {"waiting"})
    BY GotoGoes DEF Sends
  <1>9. SendRefused(w) => GoesOn(w, {"sending"}, {"result"})
    BY ReportGoes DEF SendRefused
  <1>10. SendUnproven(w) => GoesOn(w, {"sending"}, {})
    BY ReturnGoes DEF SendUnproven
  <1>11. WaitObserves(w) => GoesOn(w, {"waiting"}, {"result"})
    BY ReportGoes DEF WaitObserves
  <1>12. Settles(w) => GoesOn(w, {"result"}, {"advancing"})
    BY GotoGoes, ReturnGoes DEF Settles
  <1>13. Advances(w) => GoesOn(w, {"advancing"}, {})
    BY ReturnGoes DEF Advances
  <1>14. Installs(w) => GoesOn(w, {"adding", "installing"}, {})
    BY ReturnGoes DEF Installs
  <1>15. CleansUp(w) => GoesOn(w, {"cleaning"}, {})
    BY ReturnGoes DEF CleansUp
  <1> QED BY <1>1, <1>2, <1>3, <1>4, <1>5, <1>6, <1>7, <1>8, <1>9, <1>10, <1>11,
             <1>12, <1>13, <1>14, <1>15

LEMMA TickEntersGoes ==
  ASSUME TasksTyped, NEW w \in Workers, TickEnters(w)
  PROVE  GoesTo(w, {"tick"}, {"claiming"})
  BY RowGoes, ReturnGoes DEF TickEnters, Absorbed, GoesOn

LEMMA UpdateWritesGoes ==
  ASSUME TasksTyped, NEW w \in Workers, UpdateWrites(w)
  PROVE  GoesTo(w, {"updating"}, {"installing"})
  <1>1. CASE Return(w)
    BY <1>1, ReturnGoes DEF UpdateWrites, GoesOn
  <1>2. CASE \E row : task' = [task EXCEPT ![w].pc = "installing", ![w].row = row]
    BY <1>2, RowGoes DEF UpdateWrites
  <1> QED BY <1>1, <1>2 DEF UpdateWrites

\* a task that begins
Begun(w, pc, o, row) ==
  /\ Others(w)
  /\ task[w].pc = "idle"
  /\ task'[w].pc = pc /\ task'[w].run = o /\ task'[w].row = row

LEMMA StartBegun ==
  ASSUME TasksTyped, NEW w \in Workers, NEW pc, NEW o, NEW row, Start(w, pc, o, row)
  PROVE  Begun(w, pc, o, row)
  BY DEF Others, TasksTyped, Start, Begun

-----------------------------------------------------------------------------
(* What a step does to the timers: every timer it changes it resets, and   *)
(* it revokes the callbacks of the job.                                    *)

Revokes(j) ==
  \A v \in Workers : task'[v].pc \in TickPcs /\ task'[v].run.job = j => v \in revoked'
Resets(j) ==
  /\ timer'[j].planned = timer'[j].at /\ timer'[j].at = timer'[j].due
  /\ Revokes(j)
TicksStay ==
  \A v \in Workers : task'[v].pc \in TickPcs =>
    task[v].pc \in TickPcs /\ task'[v].run = task[v].run
RevokedStay ==
  /\ \A v \in revoked : task'[v].pc \in TickPcs => v \in revoked'
  /\ \A v \in revoked' : task'[v].pc \in TickPcs
TimersMove ==
  /\ TicksStay
  /\ RevokedStay
  /\ \A j \in Jobs : timer'[j] = timer[j] \/ Resets(j)

LEMMA TimerNat ==
  ASSUME TimersTyped, NEW j \in Jobs
  PROVE  /\ timer[j].planned \in Nat /\ timer[j].at \in Nat /\ timer[j].due \in Nat
         /\ timer[j].rev \in Nat
  <1>1. timer[j] \in Timer
    BY DEF TimersTyped
  <1>2. /\ timer[j].planned \in Times /\ timer[j].at \in Times /\ timer[j].due \in Times
        /\ timer[j].rev \in 0 .. MaxRevisions
    BY <1>1 DEF Timer
  <1>3. MaxRevisions \in Nat
    BY CronAssumption
  <1>4. timer[j].rev \in Nat
    BY <1>2, <1>3
  <1>5. Times \subseteq Nat
    BY TimesFacts
  <1> QED BY <1>2, <1>4, <1>5

LEMMA MovesKeep ==
  ASSUME CronInv, CronInv', TimersInv, TimersMove, now' >= now
  PROVE  TimersInv'
  <1> USE DEF TimersInv
  <1>1. RevokedTicks'
    BY DEF TimersMove, RevokedStay, RevokedTicks
  <1>2. TicksScheduled'
    <2>1. Scheduled' = Scheduled
      BY DEF Scheduled
    <2> QED BY <2>1 DEF TimersMove, TicksStay, TicksScheduled
  <1>3. TimerOrder'
    <2> SUFFICES ASSUME NEW j \in Jobs
                 PROVE  timer'[j].planned <= timer'[j].at /\ timer'[j].at <= timer'[j].due
      BY DEF TimerOrder
    <2>1. CASE timer'[j] = timer[j]
      BY <2>1 DEF TimerOrder
    <2>2. CASE Resets(j)
      <3>1. timer'[j].due \in Nat
        BY TimesFacts DEF CronInv, TimersTyped, Timer
      <3> QED BY <2>2, <3>1 DEF Resets
    <2> QED BY <2>1, <2>2 DEF TimersMove
  <1>4. TickTimer'
    <2> SUFFICES ASSUME NEW w \in Workers, task'[w].pc \in TickPcs, w \notin revoked'
                 PROVE  /\ timer'[task'[w].run.job].rev = task'[w].run.rev
                        /\ timer'[task'[w].run.job].planned <= task'[w].run.at
      BY DEF TickTimer
    <2>1. task[w].pc \in TickPcs /\ task'[w].run = task[w].run /\ w \notin revoked
      BY DEF TimersMove, TicksStay, RevokedStay
    <2>2. task[w].run.job \in Jobs
      BY <2>1, TaskFields DEF CronInv, TasksTyped, TickPcs
    <2>3. timer'[task[w].run.job] = timer[task[w].run.job]
      BY <2>1, <2>2 DEF TimersMove, Resets, Revokes
    <2> QED BY <2>1, <2>3 DEF TickTimer
  <1>5. TicksPast'
    <2> SUFFICES ASSUME NEW w \in Workers, task'[w].pc \in TickPcs
                 PROVE  task'[w].run.at <= now'
      BY DEF TicksPast
    <2>1. task[w].run.at <= now /\ task[w].run \in Scheduled /\ task'[w].run = task[w].run
      BY DEF TimersMove, TicksStay, TicksPast, TicksScheduled
    <2>2. task[w].run.at \in Nat
      BY <2>1, TimesFacts DEF Scheduled
    <2>3. now \in Nat /\ now' \in Nat
      BY CronAssumption DEF CronInv, BoundsTyped
    <2> QED BY <2>1, <2>2, <2>3
  <1> QED BY <1>1, <1>2, <1>3, <1>4, <1>5

\* the tasks of a step that leaves the timers alone
LEMMA NoTimerMoves ==
  ASSUME UNCHANGED <<timer, revoked>>, TicksStay, \A v \in revoked : task'[v].pc \in TickPcs
  PROVE  TimersMove
  BY DEF TimersMove, RevokedStay

LEMMA CancelMoves ==
  ASSUME CronInv, RevokedTicks, NEW js, CancelTimers(js), TicksStay,
         \A v \in Workers : task[v].pc \in TickPcs => task'[v].pc \in TickPcs
  PROVE  TimersMove
  <1>1. \A v \in revoked : v \in revoked' /\ v \in Workers
    BY DEF CancelTimers, CronInv, TimersTyped
  <1>2. \A v \in revoked' : task'[v].pc \in TickPcs
    BY <1>1 DEF CancelTimers, TicksOf, RevokedTicks
  <1>3. ASSUME NEW j \in Jobs PROVE timer'[j] = timer[j] \/ Resets(j)
    <2>1. CASE j \notin js
      BY <2>1 DEF CancelTimers
    <2>2. CASE j \in js
      <3>1. timer'[j] = NoTimer
        BY <2>2 DEF CancelTimers
      <3>2. Revokes(j)
        BY <2>2 DEF Revokes, CancelTimers, TicksOf, TicksStay
      <3> QED BY <3>1, <3>2 DEF Resets, NoTimer
    <2> QED BY <2>1, <2>2
  <1> QED BY <1>1, <1>2, <1>3 DEF TimersMove, RevokedStay

LEMMA ScheduleMoves ==
  ASSUME CronInv, RevokedTicks, NEW j \in Jobs, NEW row, ScheduleJob(j, row), TicksStay,
         \A v \in Workers : task[v].pc \in TickPcs => task'[v].pc \in TickPcs
  PROVE  TimersMove
  <1>1. CASE UNCHANGED <<timer, revoked>>
    BY <1>1, NoTimerMoves DEF RevokedTicks, CronInv, TimersTyped
  <1>2. CASE CancelTimers({j})
    BY <1>2, CancelMoves
  <1>3. CASE /\ timer' = [timer EXCEPT ![j] = NewTimer(row)]
             /\ revoked' = revoked \cup TicksOf({j})
    <2>1. \A v \in revoked : v \in revoked' /\ v \in Workers
      BY <1>3 DEF CronInv, TimersTyped
    <2>2. \A v \in revoked' : task'[v].pc \in TickPcs
      BY <1>3, <2>1 DEF TicksOf, RevokedTicks
    <2>3. timer'[j] = NewTimer(row) /\ \A k \in Jobs \ {j} : timer'[k] = timer[k]
      BY <1>3 DEF CronInv, TimersTyped
    <2>4. Resets(j)
      BY <1>3, <2>3 DEF Resets, Revokes, TicksOf, TicksStay, NewTimer
    <2> QED BY <2>1, <2>2, <2>3, <2>4 DEF TimersMove, RevokedStay
  <1> QED BY <1>1, <1>2, <1>3 DEF ScheduleJob

LEMMA GoesTicks ==
  ASSUME NEW w \in Workers, NEW from, NEW to, GoesTo(w, from, to),
         from \subseteq TickPcs \/ to \cap TickPcs = {}
  PROVE  TicksStay
  BY DEF GoesTo, Others, TicksStay, TickPcs

\* a task that is no callback
LEMMA ElseTicks ==
  ASSUME NEW w \in Workers, NEW from, NEW to, GoesTo(w, from, to),
         from \cap TickPcs = {}, to \cap TickPcs = {}
  PROVE  /\ TicksStay
         /\ \A v \in Workers : task[v].pc \in TickPcs => task'[v].pc \in TickPcs
  BY DEF GoesTo, Others, TicksStay, TickPcs

LEMMA ElseMoves ==
  ASSUME CronInv, RevokedTicks, NEW w \in Workers, NEW from, NEW to, GoesTo(w, from, to),
         from \cap TickPcs = {}, to \cap TickPcs = {}, UNCHANGED <<timer, revoked>>
  PROVE  TimersMove
  <1>1. TicksStay /\ \A v \in Workers : task[v].pc \in TickPcs => task'[v].pc \in TickPcs
    BY ElseTicks
  <1> QED BY <1>1, NoTimerMoves DEF RevokedTicks, CronInv, TimersTyped

LEMMA BegunTicks ==
  ASSUME NEW w \in Workers, NEW pc, NEW o, NEW row, Begun(w, pc, o, row), pc \notin TickPcs
  PROVE  /\ TicksStay
         /\ \A v \in Workers : task[v].pc \in TickPcs => task'[v].pc \in TickPcs
  BY DEF Begun, Others, TicksStay, TickPcs

LEMMA BegunMoves ==
  ASSUME CronInv, RevokedTicks, NEW w \in Workers, NEW pc, NEW o, NEW row,
         Begun(w, pc, o, row), pc \notin TickPcs, UNCHANGED <<timer, revoked>>
  PROVE  TimersMove
  <1>1. TicksStay /\ \A v \in Workers : task[v].pc \in TickPcs => task'[v].pc \in TickPcs
    BY BegunTicks
  <1> QED BY <1>1, NoTimerMoves DEF RevokedTicks, CronInv, TimersTyped

LEMMA SameTasksTicks ==
  ASSUME task' = task
  PROVE  /\ TicksStay
         /\ \A v \in Workers : task[v].pc \in TickPcs => task'[v].pc \in TickPcs
  BY DEF TicksStay

LEMMA SameTasksMove ==
  ASSUME CronInv, RevokedTicks, task' = task, UNCHANGED <<timer, revoked>>
  PROVE  TimersMove
  BY SameTasksTicks, NoTimerMoves DEF RevokedTicks

\* a callback that goes on keeps what it was revoked by
LEMMA TickGoesMoves ==
  ASSUME RevokedTicks, NEW w \in Workers, NEW from, NEW to,
         GoesTo(w, from, to), from \subseteq TickPcs, timer' = timer,
         \/ revoked' = revoked /\ (task'[w].pc \in TickPcs \/ w \notin revoked)
         \/ revoked' = revoked \ {w} /\ task'[w].pc = "idle",
         CronInv
  PROVE  TimersMove
  <1>1. TicksStay
    BY GoesTicks
  <1>2. \A v \in Workers \ {w} : task'[v] = task[v]
    BY DEF GoesTo, Others
  <1>3. revoked \subseteq Workers
    BY DEF CronInv, TimersTyped
  <1>4. "idle" \notin TickPcs
    BY DEF TickPcs
  <1>5. RevokedStay
    BY <1>2, <1>3, <1>4 DEF RevokedStay, RevokedTicks
  <1> QED BY <1>1, <1>5 DEF TimersMove

LEMMA TickEntersMoves ==
  ASSUME CronInv, RevokedTicks, NEW w \in Workers, TickEnters(w)
  PROVE  TimersMove
  <1> DEFINE j == task[w].run.job
  <1>0. GoesTo(w, {"tick"}, {"claiming"}) /\ {"tick"} \subseteq TickPcs
    BY TickEntersGoes DEF CronInv, TickPcs
  <1>1. CASE Absorbed(w) /\ timer' = timer
    <2>1. task'[w].pc = "idle"
      BY <1>1, ReturnFacts DEF Absorbed, CronInv
    <2> QED BY <1>0, <1>1, <2>1, TickGoesMoves DEF Absorbed
  <1>2. CASE /\ timer' = [timer EXCEPT ![j] = NoTimer]
             /\ revoked' = (revoked \cup TicksOf({j})) \ {w}
             /\ Return(w)
    <2>1. task'[w].pc = "idle" /\ Others(w)
      BY <1>2, ReturnFacts DEF CronInv
    <2>2. TicksStay
      BY <1>0, GoesTicks
    <2>3. revoked \subseteq Workers /\ "idle" \notin TickPcs
      BY DEF CronInv, TimersTyped, TickPcs
    <2>4. RevokedStay
      BY <1>2, <2>1, <2>3 DEF RevokedStay, RevokedTicks, Others, TicksOf
    <2>5. Revokes(j)
      BY <1>2, <2>1, <2>2, <2>3 DEF Revokes, TicksOf, TicksStay
    <2>6. \A k \in Jobs : timer'[k] = timer[k] \/ (k = j /\ timer'[k] = NoTimer)
      BY <1>2 DEF CronInv, TimersTyped
    <2>7. ASSUME NEW k \in Jobs PROVE timer'[k] = timer[k] \/ Resets(k)
      BY <2>5, <2>6 DEF Resets, NoTimer
    <2> QED BY <2>2, <2>4, <2>7 DEF TimersMove
  <1>3. CASE /\ task' = [task EXCEPT ![w].pc = "claiming", ![w].row = job[j]]
             /\ UNCHANGED <<timer, revoked>>
    <2>0. task' = [task EXCEPT ![w] =
                     [pc |-> "claiming", run |-> task[w].run, row |-> job[j],
                      outcome |-> task[w].outcome]]
      <3> HIDE DEF j
      <3>1. task[w].pc # "idle" /\ TasksTyped
        BY DEF TickEnters, CronInv
      <3> QED BY <1>3, <3>1, RowForm
    <2>1. task'[w].pc = "claiming" /\ "claiming" \in TickPcs
      BY <2>0 DEF CronInv, TasksTyped, TickPcs
    <2> QED BY <1>0, <1>3, <2>1, TickGoesMoves
  <1> QED BY <1>1, <1>2, <1>3 DEF TickEnters

LEMMA TickReservesMoves ==
  ASSUME CronInv, RevokedTicks, NEW w \in Workers, TickReserves(w)
  PROVE  TimersMove
  <1>0. GoesTo(w, {"claiming"}, {"reserved"}) /\ {"claiming"} \subseteq TickPcs
    BY RunGoes DEF CronInv, TickPcs, GoesOn
  <1>1. CASE Absorbed(w)
    <2>1. task'[w].pc = "idle"
      BY <1>1, ReturnFacts DEF Absorbed, CronInv
    <2> QED BY <1>0, <1>1, <2>1, TickGoesMoves DEF Absorbed, TickReserves
  <1>2. CASE Goto(w, "reserved") /\ revoked' = revoked
    <2>1. task'[w].pc = "reserved" /\ "reserved" \in TickPcs
      BY <1>2, GotoFacts DEF TickReserves, CronInv, TickPcs
    <2> QED BY <1>0, <1>2, <2>1, TickGoesMoves DEF TickReserves
  <1> QED BY <1>1, <1>2 DEF TickReserves

LEMMA TickVerifiesMoves ==
  ASSUME CronInv, RevokedTicks, NEW w \in Workers, TickVerifies(w)
  PROVE  TimersMove
  <1>0. GoesTo(w, {"reserved"}, {"verified"}) /\ {"reserved"} \subseteq TickPcs
    BY RunGoes DEF CronInv, TickPcs, GoesOn
  <1>1. CASE Absorbed(w)
    <2>1. task'[w].pc = "idle"
      BY <1>1, ReturnFacts DEF Absorbed, CronInv
    <2> QED BY <1>0, <1>1, <2>1, TickGoesMoves DEF Absorbed, TickVerifies
  <1>2. CASE Goto(w, "verified") /\ revoked' = revoked
    <2>1. task'[w].pc = "verified" /\ "verified" \in TickPcs
      BY <1>2, GotoFacts DEF TickVerifies, CronInv, TickPcs
    <2> QED BY <1>0, <1>2, <2>1, TickGoesMoves DEF TickVerifies
  <1> QED BY <1>1, <1>2 DEF TickVerifies

LEMMA TickCommitsMoves ==
  ASSUME CronInv, RevokedTicks, NEW w \in Workers, TickCommits(w)
  PROVE  TimersMove
  <1>0. GoesTo(w, {"verified"}, {"admitted"}) /\ {"verified"} \subseteq TickPcs
    BY RunGoes DEF CronInv, TickPcs, GoesOn
  <1>1. CASE Absorbed(w)
    <2>1. task'[w].pc = "idle"
      BY <1>1, ReturnFacts DEF Absorbed, CronInv
    <2> QED BY <1>0, <1>1, <2>1, TickGoesMoves DEF Absorbed, TickCommits
  <1>2. CASE w \notin revoked /\ revoked' = revoked
    BY <1>0, <1>2, TickGoesMoves DEF TickCommits
  <1> QED BY <1>1, <1>2 DEF TickCommits, Current

LEMMA AdvanceMoves ==
  ASSUME CronInv, RevokedTicks, NEW o \in Scheduled, AdvanceAfter(o), TicksStay,
         \A v \in Workers : task[v].pc \in TickPcs => task'[v].pc \in TickPcs
  PROVE  TimersMove
  <1>1. CASE UNCHANGED <<timer, revoked>>
    BY <1>1, NoTimerMoves DEF RevokedTicks, CronInv, TimersTyped
  <1>2. CASE ScheduleJob(o.job, AdvancedRow(o, now))
    BY <1>2, ScheduleMoves, RunsFacts
  <1> QED BY <1>1, <1>2 DEF AdvanceAfter

LEMMA AdvancesMoves ==
  ASSUME CronInv, RevokedTicks, NEW w \in Workers, Advances(w)
  PROVE  TimersMove
  <1>0. GoesTo(w, {"advancing"}, {}) /\ {"advancing"} \cap TickPcs = {}
    BY RunGoes DEF CronInv, TickPcs, GoesOn
  <1>1. CASE UNCHANGED <<timer, revoked>>
    BY <1>0, <1>1, ElseMoves
  <1>2. CASE AdvanceAfter(task[w].run) /\ task[w].outcome # "unexecutable"
    <2>1. task[w].run \in Scheduled
      BY <1>2 DEF Advances, CronInv, TasksTyped, TaskSane
    <2> QED BY <1>0, <1>2, <2>1, ElseTicks, AdvanceMoves
  <1> QED BY <1>1, <1>2 DEF Advances

LEMMA UpdateWritesMoves ==
  ASSUME CronInv, RevokedTicks, NEW w \in Workers, UpdateWrites(w)
  PROVE  TimersMove
  <1>0. /\ GoesTo(w, {"updating"}, {"installing"})
        /\ {"updating"} \cap TickPcs = {} /\ {"installing"} \cap TickPcs = {}
    BY UpdateWritesGoes DEF CronInv, TickPcs
  <1>1. task[w].run.job \in Jobs
    BY TaskFields DEF CronInv, TasksTyped, UpdateWrites
  <1>2. CASE UNCHANGED <<timer, revoked>>
    BY <1>0, <1>2, ElseMoves
  <1>3. CASE ScheduleJob(task[w].run.job, job[task[w].run.job])
    BY <1>0, <1>1, <1>3, ElseTicks, ScheduleMoves
  <1>4. CASE CancelTimers({task[w].run.job})
    BY <1>0, <1>4, ElseTicks, CancelMoves
  <1> QED BY <1>2, <1>3, <1>4 DEF UpdateWrites

LEMMA InstallsMoves ==
  ASSUME CronInv, RevokedTicks, NEW w \in Workers, Installs(w)
  PROVE  TimersMove
  <1>0. GoesTo(w, {"adding", "installing"}, {}) /\ {"adding", "installing"} \cap TickPcs = {}
    BY RunGoes DEF CronInv, TickPcs, GoesOn
  <1>1. task[w].run.job \in Jobs
    BY TaskFields DEF CronInv, TasksTyped, Installs
  <1> QED BY <1>0, <1>1, ElseTicks, ScheduleMoves DEF Installs

LEMMA CleansUpMoves ==
  ASSUME CronInv, RevokedTicks, NEW w \in Workers, CleansUp(w)
  PROVE  TimersMove
  <1>0. GoesTo(w, {"cleaning"}, {}) /\ {"cleaning"} \cap TickPcs = {}
    BY RunGoes DEF CronInv, TickPcs, GoesOn
  <1>1. CASE UNCHANGED <<timer, revoked>>
    BY <1>0, <1>1, ElseMoves
  <1>2. CASE CancelTimers({task[w].run.job})
    BY <1>0, <1>2, ElseTicks, CancelMoves
  <1> QED BY <1>1, <1>2 DEF CleansUp

\* The steps of a run once it is admitted.
RunStep(w) ==
  \/ DuplicateSettles(w) \/ Attaches(w) \/ PrepareFails(w) \/ Begins(w) \/ Sends(w)
  \/ SendRefused(w) \/ SendUnproven(w) \/ WaitObserves(w) \/ Settles(w)
RunPcs == {"duplicate", "admitted", "attached", "sending", "waiting", "result"}

LEMMA RunStepGoes ==
  ASSUME TasksTyped, NEW w \in Workers, RunStep(w)
  PROVE  /\ GoesOn(w, RunPcs, (RunPcs \ {"duplicate", "admitted"}) \cup {"advancing"})
         /\ UNCHANGED <<now, timer, revoked, sweep>>
  <1>1. GoesOn(w, RunPcs, (RunPcs \ {"duplicate", "admitted"}) \cup {"advancing"})
    BY RunGoes DEF RunStep, RunPcs, GoesOn, GoesTo
  <1>2. UNCHANGED <<now, timer, revoked, sweep>>
    BY DEF RunStep, DuplicateSettles, Attaches, PrepareFails, Begins, Sends, SendRefused,
           SendUnproven, WaitObserves, Settles
  <1> QED BY <1>1, <1>2

LEMMA RunStepMoves ==
  ASSUME CronInv, RevokedTicks, NEW w \in Workers, RunStep(w)
  PROVE  TimersMove
  <1>1. RunPcs \cap TickPcs = {} /\ "advancing" \notin TickPcs
    BY DEF RunPcs, TickPcs
  <1>2. ((RunPcs \ {"duplicate", "admitted"}) \cup {"advancing"}) \cap TickPcs = {}
    BY <1>1
  <1>3. /\ GoesTo(w, RunPcs, (RunPcs \ {"duplicate", "admitted"}) \cup {"advancing"})
        /\ UNCHANGED <<timer, revoked>>
    BY RunStepGoes DEF GoesOn, CronInv
  <1> QED BY <1>1, <1>2, <1>3, ElseMoves

LEMMA WorkerMoves ==
  ASSUME CronInv, RevokedTicks, NEW w \in Workers, WorkerStep(w)
  PROVE  TimersMove
  BY TickEntersMoves, TickReservesMoves, TickVerifiesMoves, TickCommitsMoves,
     RunStepMoves, AdvancesMoves, UpdateWritesMoves, InstallsMoves, CleansUpMoves
  DEF WorkerStep, RunStep

LEMMA UserMoves ==
  ASSUME CronInv, RevokedTicks, UserStep
  PROVE  TimersMove
  <1>1. ASSUME NEW w \in Workers, NEW j \in Jobs, AddJob(w, j) PROVE TimersMove
    <2>1. PICK row : /\ Start(w, "adding", Occurrence(j, 1, row.next), row)
                     /\ UNCHANGED <<timer, revoked>>
      BY <1>1 DEF AddJob
    <2> QED BY <2>1, StartBegun, BegunMoves DEF CronInv, TickPcs
  <1>2. ASSUME NEW w \in Workers, NEW j \in Jobs, UpdateJob(w, j) PROVE TimersMove
    <2>1. Begun(w, "updating", Occurrence(j, job[j].rev, job[j].next), job[j])
      BY <1>2, StartBegun DEF UpdateJob, CronInv
    <2>2. "updating" \notin TickPcs
      BY DEF TickPcs
    <2> QED BY <1>2, <2>1, <2>2, BegunTicks, CancelMoves DEF UpdateJob
  <1>3. ASSUME NEW w \in Workers, NEW j \in Jobs, CascadeDelete(w, j) PROVE TimersMove
    <2>1. Begun(w, "cleaning", Occurrence(j, job[j].rev, job[j].next), job[j])
      BY <1>3, StartBegun DEF CascadeDelete, CronInv
    <2> QED BY <1>3, <2>1, BegunMoves DEF CascadeDelete, TickPcs
  <1>4. ASSUME NEW w \in Workers, NEW j \in Jobs, NEW p \in Ops, NowReserves(w, j, p)
        PROVE  TimersMove
    <2>1. \E pc \in {"admitted", "duplicate"} : Begun(w, pc, RunNow(j, p), job[j])
      BY <1>4, StartBegun DEF NowReserves, CronInv
    <2> QED BY <1>4, <2>1, BegunMoves DEF NowReserves, TickPcs
  <1>5. ASSUME NEW j \in Jobs, RemoveJob(j) PROVE TimersMove
    BY <1>5, SameTasksTicks, CancelMoves DEF RemoveJob
  <1>6. CASE SystemResume
    BY <1>6, SameTasksTicks, CancelMoves DEF SystemResume
  <1> QED BY <1>1, <1>2, <1>3, <1>4, <1>5, <1>6 DEF UserStep

LEMMA SweepMoves ==
  ASSUME CronInv, RevokedTicks, SweepStep
  PROVE  TimersMove
  <1>1. CASE SweepLists \/ SweepMisses \/ SweepEnds \/ (\E o \in Runs : RecoverRun(o))
    BY <1>1, SameTasksMove DEF SweepLists, SweepMisses, SweepEnds, RecoverRun
  <1>2. CASE RecoverEnds
    BY <1>2, SameTasksTicks, CancelMoves DEF RecoverEnds
  <1>3. CASE SweepAdvances
    <2>1. sweep.run \in Scheduled /\ task' = task /\ AdvanceAfter(sweep.run)
      BY <1>3 DEF SweepAdvances, CronInv, SweepTyped
    <2> QED BY <2>1, SameTasksTicks, AdvanceMoves
  <1>4. ASSUME NEW j \in Jobs, SweepsJob(j) PROVE TimersMove
    <2>0. task' = task
      BY <1>4 DEF SweepsJob
    <2>1. CASE UNCHANGED <<timer, revoked>>
      BY <2>0, <2>1, SameTasksMove
    <2>2. CASE ScheduleJob(j, job[j])
      BY <2>0, <2>2, SameTasksTicks, ScheduleMoves
    <2>3. CASE Live(j) /\ AdvanceAfter(Occurrence(j, job[j].rev, job[j].next))
      <3>1. Occurrence(j, job[j].rev, job[j].next) \in Scheduled
        BY <2>3, PlannedType DEF CronInv, Live
      <3> QED BY <2>0, <2>3, <3>1, SameTasksTicks, AdvanceMoves
    <2> QED BY <1>4, <2>1, <2>2, <2>3 DEF SweepsJob
  <1> QED BY <1>1, <1>2, <1>3, <1>4 DEF SweepStep

LEMMA CrashMoves ==
  ASSUME CronInv, Crash
  PROVE  TimersMove
  <1>1. /\ \A v \in Workers : task'[v].pc = "idle"
        /\ \A j \in Jobs : timer'[j] = NoTimer
        /\ revoked' = {}
    BY DEF Crash, NoTask
  <1>2. "idle" \notin TickPcs /\ revoked \subseteq Workers
    BY DEF TickPcs, CronInv, TimersTyped
  <1> QED BY <1>1, <1>2 DEF TimersMove, TicksStay, RevokedStay, Resets, Revokes, NoTimer

\* A timer calls back: the callback came from the timer that is installed.
LEMMA DispatchFacts ==
  ASSUME CronInv, TimersInv, NEW j \in Jobs, NEW w \in Workers, DispatchTick(j, w)
  PROVE  /\ Begun(w, "tick", Occurrence(j, timer[j].rev, timer[j].at), job[j])
         /\ timer[j].rev > 0 /\ timer[j].at <= now
         /\ timer'[j].rev = timer[j].rev /\ timer'[j].planned = timer[j].planned
         /\ timer'[j].planned <= timer'[j].at /\ timer'[j].at <= timer'[j].due
         /\ \A k \in Jobs \ {j} : timer'[k] = timer[k]
         /\ revoked' = revoked /\ w \notin revoked
  <1> DEFINE past(t) ==
        IF timer[j].every = 0 \/ t + timer[j].every > MaxTime THEN Later
        ELSE t + timer[j].every
  <1>1. timer[j] \in Timer /\ timer[j].every \in Nat /\ now \in 1 .. MaxTime /\ MaxTime \in Nat
    BY CronAssumption DEF CronInv, TimersTyped, Timer, BoundsTyped
  <1>2. timer[j].planned \in Nat /\ timer[j].at \in Nat /\ timer[j].due \in Nat
    BY TimerNat DEF CronInv
  <1>3. timer[j].planned <= timer[j].at /\ timer[j].at <= timer[j].due /\ timer[j].due <= now
    BY DEF TimersInv, TimerOrder, DispatchTick
  <1>4. timer' = [timer EXCEPT ![j].at = past(@), ![j].due = past(now)]
        /\ revoked' = revoked
    BY DEF DispatchTick
  <1>5. ASSUME NEW t \in Nat, NEW u \in Nat, t <= u, u <= now
        PROVE  t <= past(t) /\ past(t) <= past(u) /\ past(t) \in Nat /\ past(u) \in Nat
    BY <1>1, <1>5 DEF Later
  <1> DEFINE a == past(timer[j].at)
             d == past(now)
  <1>6. timer[j].at <= a /\ a <= d /\ a \in Nat /\ d \in Nat
    BY <1>1, <1>2, <1>3, <1>5
  <1>7. timer' = [timer EXCEPT ![j] = [timer[j] EXCEPT !.at = a, !.due = d]]
    BY <1>4
  <1> HIDE DEF a, d
  <1>8. /\ timer'[j] = [timer[j] EXCEPT !.at = a, !.due = d]
        /\ \A k \in Jobs \ {j} : timer'[k] = timer[k]
    BY <1>7 DEF CronInv, TimersTyped
  <1>9. timer'[j].rev = timer[j].rev /\ timer'[j].planned = timer[j].planned
        /\ timer'[j].at = a /\ timer'[j].due = d
    BY <1>1, <1>8 DEF Timer
  <1>10. timer'[j].planned <= timer'[j].at /\ timer'[j].at <= timer'[j].due
    BY <1>2, <1>3, <1>6, <1>9
  <1>11. Begun(w, "tick", Occurrence(j, timer[j].rev, timer[j].at), job[j])
    BY StartBegun DEF DispatchTick, CronInv
  <1>12. w \notin revoked
    BY <1>11 DEF Begun, TimersInv, RevokedTicks, TickPcs
  <1>13. timer[j].at <= now
    BY <1>1, <1>2, <1>3
  <1> QED BY <1>4, <1>8, <1>9, <1>10, <1>11, <1>12, <1>13 DEF DispatchTick

LEMMA DispatchKeeps ==
  ASSUME CronInv, TimersInv, NEW j \in Jobs, NEW w \in Workers, DispatchTick(j, w)
  PROVE  TimersInv'
  <1> DEFINE o == Occurrence(j, timer[j].rev, timer[j].at)
  <1>0. /\ Others(w) /\ task[w].pc = "idle" /\ task'[w].pc = "tick" /\ task'[w].run = o
        /\ timer[j].rev > 0 /\ timer[j].at <= now
        /\ timer'[j].rev = timer[j].rev /\ timer'[j].planned = timer[j].planned
        /\ timer'[j].planned <= timer'[j].at /\ timer'[j].at <= timer'[j].due
        /\ \A k \in Jobs \ {j} : timer'[k] = timer[k]
        /\ revoked' = revoked /\ w \notin revoked /\ now' = now
    BY DispatchFacts DEF Begun, DispatchTick
  <1>1. timer[j].rev \in 1 .. MaxRevisions /\ timer[j].at \in Times
    BY <1>0, CronAssumption DEF CronInv, TimersTyped, Timer
  <1>2. o \in Scheduled /\ o.job = j /\ o.rev = timer[j].rev /\ o.at = timer[j].at
    BY <1>1, OccurrenceType DEF Occurrence
  <1> HIDE DEF o
  <1>3. Scheduled' = Scheduled
    BY DEF Scheduled
  <1>4. \A k \in Jobs : timer'[k].rev = timer[k].rev /\ timer'[k].planned = timer[k].planned
    BY <1>0
  <1>5. \A v \in Workers : v # w => task'[v] = task[v]
    BY <1>0 DEF Others
  <1>6. RevokedTicks'
    BY <1>0, <1>5 DEF TimersInv, RevokedTicks, CronInv, TimersTyped
  <1>7. TicksScheduled'
    BY <1>0, <1>2, <1>3, <1>5 DEF TimersInv, TicksScheduled
  <1>8. TimerOrder'
    BY <1>0 DEF TimersInv, TimerOrder
  <1>9. TicksPast'
    <2>1. task'[w].run.at <= now'
      BY <1>0, <1>2
    <2> QED BY <1>0, <1>5, <2>1 DEF TimersInv, TicksPast
  <1>10. TickTimer'
    <2> SUFFICES ASSUME NEW v \in Workers, task'[v].pc \in TickPcs, v \notin revoked'
                 PROVE  /\ timer'[task'[v].run.job].rev = task'[v].run.rev
                        /\ timer'[task'[v].run.job].planned <= task'[v].run.at
      BY DEF TickTimer
    <2>1. CASE v = w
      BY <1>0, <1>2, <2>1 DEF TimersInv, TimerOrder
    <2>2. CASE v # w
      <3>1. task'[v] = task[v] /\ task[v].run.job \in Jobs
        BY <1>5, <2>2, TaskFields DEF CronInv, TasksTyped, TickPcs
      <3> QED BY <1>0, <1>4, <3>1 DEF TimersInv, TickTimer
    <2> QED BY <2>1, <2>2
  <1> QED BY <1>6, <1>7, <1>8, <1>9, <1>10 DEF TimersInv

LEMMA ClockOnward ==
  ASSUME CronInv, [CronNext]_cronVars
  PROVE  now' >= now
  <1>1. now \in Nat
    BY CronAssumption DEF CronInv, BoundsTyped
  <1>2. ClockTicks => now' = now + 1
    BY DEF ClockTicks
  <1>3. (\E w \in Workers : WorkerStep(w)) => now' = now
    BY DEF WorkerStep, TickEnters, TickReserves, TickVerifies, TickCommits,
           DuplicateSettles, Attaches, PrepareFails, Begins, Sends, SendRefused,
           SendUnproven, WaitObserves, Settles, Advances, UpdateWrites, Installs,
           CleansUp
  <1>4. UserStep => now' = now
    BY DEF UserStep, AddJob, UpdateJob, CascadeDelete, NowReserves, RemoveJob, SystemResume
  <1>5. SweepStep => now' = now
    BY DEF SweepStep, SweepLists, SweepsJob, SweepMisses, SweepAdvances, SweepEnds,
           RecoverRun, RecoverEnds
  <1>6. now' = now \/ now' = now + 1
    BY <1>2, <1>3, <1>4, <1>5 DEF CronNext, DispatchTick, TurnEnds, Crash, cronVars
  <1> QED BY <1>1, <1>6

LEMMA TimersInvStep ==
  ASSUME CronInv, TimersInv, [CronNext]_cronVars
  PROVE  TimersInv'
  <1>0. CronInv' /\ now' >= now /\ RevokedTicks
    BY CronStepType, ClockOnward DEF TimersInv
  <1>1. CASE UNCHANGED cronVars \/ ClockTicks \/ \E o \in Runs : TurnEnds(o)
    BY <1>0, <1>1, SameTasksMove, MovesKeep DEF cronVars, ClockTicks, TurnEnds
  <1>2. CASE (\E w \in Workers : WorkerStep(w)) \/ SweepStep \/ UserStep \/ Crash
    BY <1>0, <1>2, WorkerMoves, SweepMoves, UserMoves, CrashMoves, MovesKeep
  <1>3. CASE \E j \in Jobs, w \in Workers : DispatchTick(j, w)
    BY <1>3, DispatchKeeps
  <1> QED BY <1>1, <1>2, <1>3 DEF CronNext

-----------------------------------------------------------------------------
(* The gate of a job has one holder.                                       *)

LEMMA GateTask ==
  ASSUME GateInv, NEW w \in Workers, Others(w), sweep' = sweep,
         task'[w].pc \in GatePcs =>
           \/ task[w].pc \in GatePcs /\ task'[w].run = task[w].run
           \/ GateFree(task'[w].run.job)
  PROVE  GateInv'
  <1>1. \A v \in Workers : v # w => task'[v] = task[v]
    BY DEF Others
  <1>2. ASSUME NEW v \in Workers, v # w, task[v].pc \in GatePcs, task'[w].pc \in GatePcs
        PROVE  task[v].run.job # task'[w].run.job
    BY <1>2 DEF GateInv, GateFree
  <1>3. ASSUME NEW u \in Workers, NEW v \in Workers, task'[u].pc \in GatePcs,
               task'[v].pc \in GatePcs, task'[u].run.job = task'[v].run.job
        PROVE  u = v
    BY <1>1, <1>2, <1>3 DEF GateInv
  <1>4. ASSUME sweep'.pc \in SweepGates, NEW v \in Workers, task'[v].pc \in GatePcs
        PROVE  task'[v].run.job # sweep'.run.job
    BY <1>1, <1>4 DEF GateInv, GateFree, SweepGates
  <1> QED BY <1>3, <1>4 DEF GateInv

LEMMA GateSweep ==
  ASSUME GateInv, task' = task,
         sweep'.pc \in SweepGates =>
           \/ sweep.pc \in SweepGates /\ sweep'.run = sweep.run
           \/ GateFree(sweep'.run.job)
  PROVE  GateInv'
  BY DEF GateInv, GateFree

LEMMA GoesGate ==
  ASSUME GateInv, NEW w \in Workers, NEW from, NEW to, GoesTo(w, from, to), sweep' = sweep,
         from \subseteq GatePcs \/ to \cap GatePcs = {}
  PROVE  GateInv'
  BY GateTask DEF GoesTo, GatePcs

LEMMA WorkerGate ==
  ASSUME CronInv, GateInv, NEW w \in Workers, WorkerStep(w)
  PROVE  GateInv'
  <1> USE DEF CronInv
  <1>0. sweep' = sweep
    BY DEF WorkerStep, TickEnters, TickReserves, TickVerifies, TickCommits,
           DuplicateSettles, Attaches, PrepareFails, Begins, Sends, SendRefused,
           SendUnproven, WaitObserves, Settles, Advances, UpdateWrites, Installs,
           CleansUp
  <1>1. CASE TickEnters(w)
    <2>1. GoesTo(w, {"tick"}, {"claiming"})
      BY <1>1, TickEntersGoes
    <2> QED BY <1>0, <1>1, <2>1, GateTask DEF TickEnters, GoesTo, GatePcs
  <1>2. CASE Settles(w)
    <2>1. GoesTo(w, {"result"}, {"advancing"})
      BY <1>2, RunGoes DEF GoesOn
    <2> QED BY <1>0, <1>2, <2>1, GateTask DEF Settles, GoesTo, GatePcs
  <1>3. CASE UpdateWrites(w)
    <2>1. GoesTo(w, {"updating"}, {"installing"})
      BY <1>3, UpdateWritesGoes
    <2> QED BY <1>0, <2>1, GoesGate DEF GatePcs
  <1>4. CASE TickReserves(w)
    <2>1. GoesTo(w, {"claiming"}, {"reserved"})
      BY <1>4, RunGoes DEF GoesOn
    <2> QED BY <1>0, <2>1, GoesGate DEF GatePcs
  <1>5. CASE TickVerifies(w)
    <2>1. GoesTo(w, {"reserved"}, {"verified"})
      BY <1>5, RunGoes DEF GoesOn
    <2> QED BY <1>0, <2>1, GoesGate DEF GatePcs
  <1>6. CASE \/ TickCommits(w) \/ DuplicateSettles(w) \/ Attaches(w) \/ PrepareFails(w)
             \/ Begins(w) \/ Sends(w) \/ SendRefused(w) \/ SendUnproven(w)
             \/ WaitObserves(w) \/ Advances(w) \/ Installs(w) \/ CleansUp(w)
    <2> DEFINE to == {"admitted", "attached", "result", "sending", "waiting"}
    <2>1. GoesTo(w, Pcs, to)
      BY <1>6, RunGoes DEF GoesOn, GoesTo, Pcs
    <2>2. to \cap GatePcs = {}
      BY DEF GatePcs
    <2> QED BY <1>0, <2>1, <2>2, GoesGate
  <1> QED BY <1>1, <1>2, <1>3, <1>4, <1>5, <1>6 DEF WorkerStep

LEMMA BegunGate ==
  ASSUME GateInv, NEW w \in Workers, NEW pc, NEW o, NEW row, Begun(w, pc, o, row),
         sweep' = sweep, pc \notin GatePcs \/ GateFree(o.job)
  PROVE  GateInv'
  BY GateTask DEF Begun

LEMMA UserGate ==
  ASSUME CronInv, GateInv, UserStep
  PROVE  GateInv'
  <1> USE DEF CronInv
  <1>1. ASSUME NEW w \in Workers, NEW j \in Jobs, AddJob(w, j) PROVE GateInv'
    <2>1. PICK row : /\ Start(w, "adding", Occurrence(j, 1, row.next), row)
                     /\ sweep' = sweep
      BY <1>1 DEF AddJob
    <2> QED BY <2>1, StartBegun, BegunGate DEF GatePcs
  <1>2. ASSUME NEW w \in Workers, NEW j \in Jobs, UpdateJob(w, j) PROVE GateInv'
    <2>1. Begun(w, "updating", Occurrence(j, job[j].rev, job[j].next), job[j])
      BY <1>2, StartBegun DEF UpdateJob
    <2>2. Occurrence(j, job[j].rev, job[j].next).job = j
      BY DEF Occurrence
    <2> QED BY <1>2, <2>1, <2>2, BegunGate DEF UpdateJob
  <1>3. ASSUME NEW w \in Workers, NEW j \in Jobs, CascadeDelete(w, j) PROVE GateInv'
    <2>1. Begun(w, "cleaning", Occurrence(j, job[j].rev, job[j].next), job[j])
      BY <1>3, StartBegun DEF CascadeDelete
    <2> QED BY <1>3, <2>1, BegunGate DEF CascadeDelete, GatePcs
  <1>4. ASSUME NEW w \in Workers, NEW j \in Jobs, NEW p \in Ops, NowReserves(w, j, p)
        PROVE  GateInv'
    <2>1. \E pc \in {"admitted", "duplicate"} : Begun(w, pc, RunNow(j, p), job[j])
      BY <1>4, StartBegun DEF NowReserves
    <2> QED BY <1>4, <2>1, BegunGate DEF NowReserves, GatePcs
  <1>5. ASSUME NEW j \in Jobs, RemoveJob(j) PROVE GateInv'
    BY <1>5, GateSweep DEF RemoveJob
  <1>6. CASE SystemResume
    <2>1. sweep'.pc = "listing" /\ task' = task
      BY <1>6 DEF SystemResume, SweepTyped, Sweep
    <2> QED BY <2>1, GateSweep DEF SweepGates
  <1> QED BY <1>1, <1>2, <1>3, <1>4, <1>5, <1>6 DEF UserStep

LEMMA SweepGate ==
  ASSUME CronInv, GateInv, SweepStep
  PROVE  GateInv'
  <1> USE DEF CronInv
  <1>0. sweep \in Sweep /\ task' = task
    BY DEF SweepTyped, SweepStep, SweepLists, SweepsJob, SweepMisses, SweepAdvances,
           SweepEnds, RecoverRun, RecoverEnds
  <1>1. CASE SweepLists
    BY <1>0, <1>1, GateSweep DEF SweepLists, Sweep, SweepGates
  <1>2. CASE SweepMisses
    BY <1>0, <1>2, GateSweep DEF SweepMisses, Sweep, SweepGates
  <1>3. CASE SweepAdvances
    BY <1>0, <1>3, GateSweep DEF SweepAdvances, Sweep, SweepGates
  <1>4. CASE SweepEnds
    BY <1>0, <1>4, GateSweep DEF SweepEnds, NoSweep, SweepGates
  <1>5. CASE RecoverEnds
    BY <1>0, <1>5, GateSweep DEF RecoverEnds, Sweep, SweepGates
  <1>6. ASSUME NEW j \in Jobs, SweepsJob(j) PROVE GateInv'
    <2> DEFINE o == Occurrence(j, job[j].rev, job[j].next)
    <2>1. o.job = j
      BY DEF Occurrence
    <2> HIDE DEF o
    <2>2. \/ sweep' = [sweep EXCEPT !.todo = @ \ {j}]
          \/ sweep' = [[sweep EXCEPT !.todo = @ \ {j}] EXCEPT !.pc = "missed", !.run = o]
      BY <1>6 DEF SweepsJob, o
    <2>3. (sweep'.pc = sweep.pc /\ sweep'.run = sweep.run) \/ sweep'.run = o
      BY <1>0, <2>2 DEF Sweep
    <2>4. GateFree(j)
      BY <1>6 DEF SweepsJob
    <2> QED BY <1>0, <2>1, <2>3, <2>4, GateSweep
  <1>7. ASSUME NEW o \in Runs, RecoverRun(o) PROVE GateInv'
    <2>1. \/ sweep' = sweep
          \/ sweep' = [sweep EXCEPT !.runs = @ \ {o}]
          \/ sweep' = [[sweep EXCEPT !.runs = @ \ {o}] EXCEPT !.pc = "recovered", !.run = o]
      BY <1>7 DEF RecoverRun
    <2>2. (sweep'.pc = sweep.pc /\ sweep'.run = sweep.run) \/ sweep'.run = o
      BY <1>0, <2>1 DEF Sweep
    <2>3. GateFree(o.job)
      BY <1>7 DEF RecoverRun
    <2> QED BY <1>0, <2>2, <2>3, GateSweep
  <1> QED BY <1>1, <1>2, <1>3, <1>4, <1>5, <1>6, <1>7 DEF SweepStep

LEMMA GateInvStep ==
  ASSUME CronInv, GateInv, [CronNext]_cronVars
  PROVE  GateInv'
  <1>1. CASE UNCHANGED cronVars \/ ClockTicks \/ \E o \in Runs : TurnEnds(o)
    BY <1>1, GateSweep DEF cronVars, ClockTicks, TurnEnds
  <1>2. CASE Crash
    <2>1. \A v \in Workers : task'[v].pc = "idle"
      BY <1>2 DEF Crash, NoTask
    <2> QED BY <2>1 DEF GateInv, GatePcs
  <1>3. ASSUME NEW j \in Jobs, NEW w \in Workers, DispatchTick(j, w) PROVE GateInv'
    <2>1. Begun(w, "tick", Occurrence(j, timer[j].rev, timer[j].at), job[j])
      BY <1>3, StartBegun DEF DispatchTick, CronInv
    <2> QED BY <1>3, <2>1, BegunGate DEF DispatchTick, GatePcs
  <1> QED BY <1>1, <1>2, <1>3, WorkerGate, UserGate, SweepGate DEF CronNext

-----------------------------------------------------------------------------
(* The rows.  A job that is present stays so, and a row whose gate is held *)
(* is written by the holder only; a deletion and mark_job_unexecutable do  *)
(* without the gate, and neither changes what the row plans.               *)

Present(j) == job[j].status # "absent"
RowHeld(j) ==
  /\ Present(j) => Present(j)'
  /\ Live(j)' => Live(j)
  /\ job'[j].rev = job[j].rev /\ job'[j].next = job[j].next
  /\ job'[j].enabled => job[j].enabled

LEMMA RowSame ==
  ASSUME NEW j, job'[j] = job[j]
  PROVE  RowHeld(j)
  BY DEF RowHeld, Present, Live

LEMMA DisabledHolds ==
  ASSUME CronInv, NEW w \in Workers, Disabled(w), task[w].pc # "idle"
  PROVE  /\ \A j \in Jobs : RowHeld(j) /\ (Live(j) <=> Live(j)') /\ (Present(j)' => Present(j))
         /\ Live(task[w].run.job) /\ job[task[w].run.job].rev = task[w].row.rev
              => ~job'[task[w].run.job].enabled
  <1> DEFINE k == task[w].run.job
             e == job[k].enabled /\ ~(Live(k) /\ job[k].rev = task[w].row.rev)
  <1>1. job' = [job EXCEPT ![k].enabled = e] /\ k \in Jobs
    BY TaskFields DEF Disabled, CronInv, TasksTyped
  <1>2. /\ e => job[k].enabled
        /\ Live(k) /\ job[k].rev = task[w].row.rev => ~e
    OBVIOUS
  <1> HIDE DEF k, e
  <1>3. \A j \in Jobs : j # k => job'[j] = job[j]
    BY <1>1 DEF CronInv, JobsTyped
  <1>4. /\ job'[k].status = job[k].status /\ job'[k].rev = job[k].rev
        /\ job'[k].next = job[k].next /\ job'[k].enabled = e
    BY <1>1 DEF CronInv, JobsTyped, JobRow
  <1>5. \A j \in Jobs : RowHeld(j) /\ (Live(j) <=> Live(j)') /\ (Present(j)' => Present(j))
    BY <1>2, <1>3, <1>4 DEF RowHeld, Present, Live
  <1> QED BY <1>2, <1>4, <1>5 DEF k

\* what an advance writes
LEMMA AdvanceRows ==
  ASSUME CronInv, NEW o \in Scheduled, AdvanceAfter(o)
  PROVE  /\ \A j \in Jobs \ {o.job} : job'[j] = job[j]
         /\ \A j \in Jobs : (Live(j) <=> Live(j)') /\ (Present(j) <=> Present(j)')
         /\ job'[o.job].rev = job[o.job].rev
  <1>0. o.job \in Jobs
    BY RunsFacts
  <1>1. CASE ~Advanceable(o)
    <2>1. job' = job
      BY <1>1 DEF AdvanceAfter
    <2> QED BY <2>1 DEF Live, Present
  <1>2. CASE Advanceable(o)
    <2> DEFINE row == AdvancedRow(o, now)
    <2>1. Live(o.job) /\ now \in 1 .. MaxTime
      BY <1>2 DEF Advanceable, Plans, CronInv, BoundsTyped
    <2>2. row.status = "live" /\ row.rev = job[o.job].rev
      BY <2>1, AdvancedRowType DEF CronInv
    <2>3. job' = [job EXCEPT ![o.job] = row]
      BY <1>2 DEF AdvanceAfter
    <2> HIDE DEF row
    <2>4. job'[o.job] = row /\ \A j \in Jobs \ {o.job} : job'[j] = job[j]
      BY <1>0, <2>3 DEF CronInv, JobsTyped
    <2> QED BY <2>1, <2>2, <2>4 DEF Live, Present
  <1> QED BY <1>1, <1>2

LEMMA DeleteRows ==
  ASSUME CronInv, NEW j \in Jobs, NEW s \in {"removed", "cascaded"}, DeleteJob(j, s)
  PROVE  /\ \A k \in Jobs \ {j} : job'[k] = job[k]
         /\ job'[j].status = s
         /\ \A k \in Jobs : RowHeld(k) /\ Present(j)'
  <1>1. job' = [job EXCEPT ![j].status = s]
    BY DEF DeleteJob
  <1>2. /\ job'[j].status = s /\ job'[j].rev = job[j].rev /\ job'[j].next = job[j].next
        /\ job'[j].enabled = job[j].enabled
        /\ \A k \in Jobs \ {j} : job'[k] = job[k]
    BY <1>1 DEF CronInv, JobsTyped, JobRow
  <1>3. s # "absent" /\ s # "live"
    OBVIOUS
  <1>4. \A k \in Jobs : RowHeld(k) /\ Present(j)'
    BY <1>2, <1>3 DEF RowHeld, Present, Live
  <1> QED BY <1>2, <1>4

LEMMA AddRows ==
  ASSUME CronInv, NEW w \in Workers, NEW j \in Jobs, AddJob(w, j)
  PROVE  /\ \A k \in Jobs \ {j} : job'[k] = job[k]
         /\ ~Present(j) /\ Present(j)' /\ job'[j].rev = 1 /\ job'[j].enabled
         /\ job'[j].next \in Times \ {NoTime}
         /\ Begun(w, "adding", Occurrence(j, 1, job'[j].next), job'[j])
         /\ UNCHANGED <<run, now, timer, revoked, sweep>>
         /\ MayOverlap(TRUE, sweep.pc # "off")
  <1>1. PICK s \in Schedules :
          /\ job' = [job EXCEPT ![j] = NewRow(s, now)]
          /\ Start(w, "adding", Occurrence(j, 1, NewRow(s, now).next), NewRow(s, now))
          /\ UNCHANGED <<run, now, timer, revoked, receipt, live, sweep>>
          /\ MayOverlap(TRUE, sweep.pc # "off")
    BY DEF AddJob
  <1> DEFINE row == NewRow(s, now)
  <1>2. row \in JobRow /\ row.rev = 1 /\ row.status = "live" /\ row.enabled
        /\ row.next = NextRun(s, now)
    BY NewRowType DEF CronInv, BoundsTyped, NewRow
  <1>3. NextRun(s, now) # NoTime /\ NextRun(s, now) \in Times
    <2>1. s.n \in 1 .. MaxTime /\ now \in 1 .. MaxTime /\ MaxTime \in Nat
      BY ScheduleFacts, CronAssumption DEF CronInv, BoundsTyped
    <2>2. NextRun(s, now) \in {s.n, Later, now + s.n}
      BY DEF NextRun
    <2> QED BY <2>1, <2>2, NextRunType DEF NoTime, Later
  <1> HIDE DEF row
  <1>4. job'[j] = row /\ \A k \in Jobs \ {j} : job'[k] = job[k]
    BY <1>1 DEF CronInv, JobsTyped, row
  <1>5. Begun(w, "adding", Occurrence(j, 1, row.next), row)
    BY <1>1, StartBegun DEF CronInv, row
  <1> QED BY <1>1, <1>2, <1>3, <1>4, <1>5 DEF Present, AddJob

LEMMA UpdateRows ==
  ASSUME CronInv, NEW w \in Workers, UpdateWrites(w), NEW j, j = task[w].run.job,
         Live(j) /\ job[j].rev = task[w].row.rev
  PROVE  /\ \A k \in Jobs \ {j} : job'[k] = job[k]
         /\ Live(j)' /\ job'[j].rev = job[j].rev + 1
         /\ job'[j].next \in Times \ {NoTime}
         /\ GoesTo(w, {"updating"}, {"installing"})
         /\ task'[w].pc = "installing" /\ task'[w].row = job'[j]
         /\ UNCHANGED <<run, now, timer, revoked, sweep>>
  <1>1. PICK on \in BOOLEAN, s \in Schedules :
          LET row == [job[j] EXCEPT !.enabled = on, !.rev = @ + 1,
                        !.sched = s, !.next = NextRun(s, now)]
          IN /\ job' = [job EXCEPT ![j] = row]
             /\ task' = [task EXCEPT ![w].pc = "installing", ![w].row = row]
    BY DEF UpdateWrites
  <1> DEFINE n == job[j].rev + 1
             d == NextRun(s, now)
             row == [job[j] EXCEPT !.enabled = on, !.rev = n, !.sched = s, !.next = d]
  <1>2. job' = [job EXCEPT ![j] = row]
        /\ task' = [task EXCEPT ![w].pc = "installing", ![w].row = row]
    BY <1>1
  <1>3. d # NoTime /\ d \in Times
    <2>1. s.n \in 1 .. MaxTime /\ now \in 1 .. MaxTime /\ MaxTime \in Nat
      BY ScheduleFacts, CronAssumption DEF CronInv, BoundsTyped
    <2>2. d \in {s.n, Later, now + s.n}
      BY DEF NextRun
    <2> QED BY <2>1, <2>2, NextRunType DEF NoTime, Later
  <1>4. j \in Jobs /\ task[w].pc = "updating"
    BY TaskFields DEF UpdateWrites, CronInv, TasksTyped
  <1> HIDE DEF n, d
  <1>5. row.status = job[j].status /\ row.rev = n /\ row.next = d
    BY <1>4 DEF CronInv, JobsTyped, JobRow
  <1> HIDE DEF row
  <1>6. job'[j] = row /\ \A k \in Jobs \ {j} : job'[k] = job[k]
    BY <1>2, <1>4 DEF CronInv, JobsTyped
  <1>7. /\ GoesTo(w, {"updating"}, {"installing"}) /\ task'[w].row = row
        /\ task'[w].pc = "installing"
    <2>1. /\ task[w].pc \in {"updating"} /\ task[w].pc # "idle"
          /\ "installing" \in {"installing"}
      BY <1>4
    <2>2. task' = [task EXCEPT ![w].pc = "installing", ![w].row = row] /\ TasksTyped
      BY <1>2 DEF CronInv
    <2> QED BY <2>1, <2>2, RowGoes, Zenon
  <1>8. UNCHANGED <<run, now, timer, revoked, sweep>>
    BY DEF UpdateWrites
  <1> QED BY <1>3, <1>5, <1>6, <1>7, <1>8 DEF n, Live

\* a step that writes a row leaves those alone that other tasks hold
HeldRows ==
  /\ \A j \in Jobs : Present(j) => Present(j)'
  /\ \A v \in Workers, j \in Jobs :
       task[v].pc \in GatePcs /\ task'[v] = task[v] /\ task[v].run.job = j => RowHeld(j)

LEMMA SameRowsHeld ==
  ASSUME job' = job
  PROVE  HeldRows
  BY DEF HeldRows, RowHeld, Present, Live

LEMMA TaskJob ==
  ASSUME CronInv, NEW w \in Workers, task[w].pc # "idle"
  PROVE  task[w].run.job \in Jobs /\ task[w].run \in Runs /\ task[w].row \in JobRow
  BY TaskFields DEF CronInv, TasksTyped

LEMMA AdvancesHeld ==
  ASSUME CronInv, GateInv, NEW w \in Workers, Advances(w)
  PROVE  HeldRows
  <1>0. task[w].pc = "advancing" /\ task'[w].pc = "idle"
    BY ReturnFacts DEF Advances, CronInv
  <1>1. CASE Disabled(w)
    BY <1>0, <1>1, DisabledHolds, TaskJob DEF HeldRows, RowHeld, GatePcs
  <1>2. CASE AdvanceAfter(task[w].run) /\ task[w].outcome # "unexecutable"
    <2>1. task[w].run \in Scheduled
      BY <1>0, <1>2 DEF CronInv, TasksTyped, TaskSane
    <2>2. /\ \A j \in Jobs \ {task[w].run.job} : job'[j] = job[j]
          /\ \A j \in Jobs : Present(j) => Present(j)'
      BY <1>2, <2>1, AdvanceRows
    <2>3. ASSUME NEW v \in Workers, task[v].pc \in GatePcs, task'[v] = task[v],
                 NEW k \in Jobs, task[v].run.job = k
          PROVE  RowHeld(k)
      <3>1. v # w /\ task[w].pc \in GatePcs /\ task[v].pc # "idle"
        BY <1>0, <2>3 DEF GatePcs
      <3>2. k # task[w].run.job
        BY <2>3, <3>1 DEF GateInv
      <3> QED BY <2>2, <3>2, RowSame
    <2> QED BY <2>2, <2>3 DEF HeldRows
  <1> QED BY <1>1, <1>2 DEF Advances

LEMMA UpdateWritesHeld ==
  ASSUME CronInv, GateInv, NEW w \in Workers, UpdateWrites(w)
  PROVE  HeldRows
  <1>0. PICK j \in Jobs : task[w].pc = "updating" /\ j = task[w].run.job
    BY TaskJob DEF UpdateWrites
  <1>1. CASE ~(Live(j) /\ job[j].rev = task[w].row.rev)
    BY <1>0, <1>1, SameRowsHeld DEF UpdateWrites
  <1>2. CASE Live(j) /\ job[j].rev = task[w].row.rev
    <2>1. /\ \A k \in Jobs \ {j} : job'[k] = job[k]
          /\ Live(j)' /\ task'[w].pc = "installing"
      BY <1>0, <1>2, UpdateRows
    <2>2. \A k \in Jobs : Present(k) => Present(k)'
      BY <2>1 DEF Present, Live
    <2>3. ASSUME NEW v \in Workers, task[v].pc \in GatePcs, task'[v] = task[v],
                 NEW k \in Jobs, task[v].run.job = k
          PROVE  RowHeld(k)
      <3>1. v # w /\ task[w].pc \in GatePcs /\ task[v].pc # "idle"
        BY <1>0, <2>1, <2>3 DEF GatePcs
      <3>2. k # j
        BY <1>0, <2>3, <3>1 DEF GateInv
      <3> QED BY <2>1, <3>2, RowSame
    <2> QED BY <2>2, <2>3 DEF HeldRows
  <1> QED BY <1>1, <1>2

LEMMA WorkerHeld ==
  ASSUME CronInv, GateInv, NEW w \in Workers, WorkerStep(w)
  PROVE  HeldRows
  <1>1. CASE PrepareFails(w)
    <2>0. task[w].pc = "admitted"
      BY <1>1 DEF PrepareFails
    <2>1. CASE Disabled(w)
      BY <2>0, <2>1, DisabledHolds, TaskJob DEF HeldRows, RowHeld, GatePcs
    <2>2. CASE job' = job
      BY <2>2, SameRowsHeld
    <2> QED BY <1>1, <2>1, <2>2 DEF PrepareFails
  <1>2. CASE \/ TickEnters(w) \/ TickReserves(w) \/ TickVerifies(w) \/ TickCommits(w)
             \/ DuplicateSettles(w) \/ Attaches(w) \/ Begins(w) \/ Sends(w)
             \/ SendRefused(w) \/ SendUnproven(w) \/ WaitObserves(w) \/ Settles(w)
             \/ Installs(w) \/ CleansUp(w)
    <2>1. job' = job
      BY <1>2 DEF TickEnters, TickReserves, TickVerifies, TickCommits, DuplicateSettles,
         Attaches, Begins, Sends, SendRefused, SendUnproven, WaitObserves, Settles,
         Installs, CleansUp
    <2> QED BY <2>1, SameRowsHeld
  <1> QED BY <1>1, <1>2, AdvancesHeld, UpdateWritesHeld DEF WorkerStep

LEMMA FreeRowsHeld ==
  ASSUME CronInv, NEW o \in Scheduled, AdvanceAfter(o), task' = task,
         \A v \in Workers : task[v].pc \in GatePcs => task[v].run.job # o.job
  PROVE  HeldRows
  <1>1. /\ \A j \in Jobs \ {o.job} : job'[j] = job[j]
        /\ \A j \in Jobs : Present(j) => Present(j)'
    BY AdvanceRows
  <1>2. ASSUME NEW v \in Workers, task[v].pc \in GatePcs, NEW k \in Jobs, task[v].run.job = k
        PROVE  RowHeld(k)
    <2>1. k # o.job
      BY <1>2
    <2> QED BY <1>1, <2>1, RowSame
  <1> QED BY <1>1, <1>2 DEF HeldRows

LEMMA SweepHeld ==
  ASSUME CronInv, GateInv, SweepStep
  PROVE  HeldRows
  <1>1. CASE SweepLists \/ SweepMisses \/ SweepEnds \/ RecoverEnds
             \/ \E o \in Runs : RecoverRun(o)
    BY <1>1, SameRowsHeld DEF SweepLists, SweepMisses, SweepEnds, RecoverEnds, RecoverRun
  <1>2. CASE SweepAdvances
    <2>1. /\ sweep.run \in Scheduled /\ task' = task /\ AdvanceAfter(sweep.run)
          /\ sweep.pc \in SweepGates
      BY <1>2 DEF SweepAdvances, CronInv, SweepTyped, SweepGates
    <2> QED BY <2>1, FreeRowsHeld DEF GateInv
  <1>3. ASSUME NEW j \in Jobs, SweepsJob(j) PROVE HeldRows
    <2> DEFINE o == Occurrence(j, job[j].rev, job[j].next)
    <2>1. CASE job' = job
      BY <2>1, SameRowsHeld
    <2>2. CASE Live(j) /\ AdvanceAfter(o)
      <3>1. o \in Scheduled /\ o.job = j
        BY <2>2, PlannedType DEF CronInv, Live, Occurrence
      <3> HIDE DEF o
      <3> QED BY <1>3, <2>2, <3>1, FreeRowsHeld DEF SweepsJob, GateFree
    <2> QED BY <1>3, <2>1, <2>2 DEF SweepsJob, storeVars
  <1> QED BY <1>1, <1>2, <1>3 DEF SweepStep

LEMMA UserHeld ==
  ASSUME CronInv, NotYet, UserStep
  PROVE  HeldRows
  <1>1. ASSUME NEW w \in Workers, NEW j \in Jobs, AddJob(w, j) PROVE HeldRows
    <2>1. /\ \A k \in Jobs \ {j} : job'[k] = job[k]
          /\ ~Present(j) /\ Present(j)'
      BY <1>1, AddRows
    <2>2. ASSUME NEW v \in Workers, task[v].pc \in GatePcs, NEW k \in Jobs,
                 task[v].run.job = k
          PROVE  RowHeld(k)
      <3>1. k # j
        BY <2>1, <2>2 DEF GatePcs, NotYet, Present
      <3> QED BY <2>1, <3>1, RowSame
    <2>3. \A k \in Jobs : Present(k) => Present(k)'
      BY <2>1 DEF Present
    <2> QED BY <2>2, <2>3 DEF HeldRows
  <1>2. ASSUME NEW j \in Jobs, NEW s \in {"removed", "cascaded"}, DeleteJob(j, s)
        PROVE  HeldRows
    <2>1. \A k \in Jobs : RowHeld(k)
      BY <1>2, DeleteRows
    <2> QED BY <2>1, TaskJob DEF HeldRows, RowHeld, GatePcs
  <1>3. ASSUME NEW w \in Workers, NEW j \in Jobs, UpdateJob(w, j) \/ CascadeDelete(w, j)
        PROVE  HeldRows
    BY <1>2, <1>3, SameRowsHeld DEF UpdateJob, CascadeDelete
  <1>4. ASSUME NEW w \in Workers, NEW j \in Jobs, NEW p \in Ops, NowReserves(w, j, p)
        PROVE  HeldRows
    BY <1>4, SameRowsHeld DEF NowReserves
  <1>5. ASSUME NEW j \in Jobs, RemoveJob(j) PROVE HeldRows
    BY <1>2, <1>5 DEF RemoveJob
  <1>6. CASE SystemResume
    BY <1>6, SameRowsHeld DEF SystemResume
  <1> QED BY <1>1, <1>3, <1>4, <1>5, <1>6 DEF UserStep

LEMMA RowsHeld ==
  ASSUME CronInv, GateInv, NotYet, [CronNext]_cronVars
  PROVE  HeldRows
  <1>1. CASE UNCHANGED cronVars \/ ClockTicks \/ Crash \/ (\E o \in Runs : TurnEnds(o))
             \/ \E j \in Jobs, w \in Workers : DispatchTick(j, w)
    BY <1>1, SameRowsHeld DEF cronVars, ClockTicks, TurnEnds, Crash, DispatchTick
  <1> QED BY <1>1, WorkerHeld, SweepHeld, UserHeld DEF CronNext

-----------------------------------------------------------------------------
(* A job that was never added has no timer and no task.                    *)

TimersPresent ==
  \A j \in Jobs : ~Present(j)' => timer'[j] = timer[j] \/ timer'[j] = NoTimer
TasksPresent ==
  \A w \in Workers, j \in Jobs :
    task'[w].pc # "idle" /\ task'[w].run.job = j =>
      Present(j)' \/ (task[w].pc # "idle" /\ task[w].run.job = j)

LEMMA StillNotYet ==
  ASSUME NotYet, \A j \in Jobs : Present(j) => Present(j)', TimersPresent, TasksPresent
  PROVE  NotYet'
  <1> SUFFICES ASSUME NEW j \in Jobs, ~Present(j)'
               PROVE  /\ timer'[j] = NoTimer
                      /\ \A w \in Workers : task'[w].pc # "idle" => task'[w].run.job # j
    BY DEF NotYet, Present
  <1>1. timer[j] = NoTimer /\ \A w \in Workers : task[w].pc # "idle" => task[w].run.job # j
    BY DEF NotYet, Present
  <1> QED BY <1>1 DEF TimersPresent, TasksPresent

LEMMA CancelPresent ==
  ASSUME NEW js, CancelTimers(js)
  PROVE  TimersPresent
  BY DEF TimersPresent, CancelTimers

LEMMA SchedulePresent ==
  ASSUME CronInv, NEW j \in Jobs, NEW row, ScheduleJob(j, row), Present(j)'
  PROVE  TimersPresent
  <1>1. CASE timer' = timer
    BY <1>1 DEF TimersPresent
  <1>2. CASE CancelTimers({j})
    BY <1>2, CancelPresent
  <1>3. CASE timer' = [timer EXCEPT ![j] = NewTimer(row)]
    BY <1>3 DEF TimersPresent, CronInv, TimersTyped
  <1> QED BY <1>1, <1>2, <1>3 DEF ScheduleJob

LEMMA AdvancePresent ==
  ASSUME CronInv, NEW o \in Scheduled, AdvanceAfter(o)
  PROVE  TimersPresent
  <1>1. CASE timer' = timer
    BY <1>1 DEF TimersPresent
  <1>2. CASE Advanceable(o) /\ ScheduleJob(o.job, AdvancedRow(o, now))
    <2>1. o.job \in Jobs /\ Live(o.job)
      BY <1>2, RunsFacts DEF Advanceable, Plans
    <2>2. Present(o.job)'
      BY <2>1, AdvanceRows DEF Live, Present
    <2> QED BY <1>2, <2>1, <2>2, SchedulePresent
  <1> QED BY <1>1, <1>2 DEF AdvanceAfter

LEMMA GoesPresent ==
  ASSUME NEW w \in Workers, NEW from, NEW to, GoesTo(w, from, to), "idle" \notin from
  PROVE  TasksPresent
  BY DEF GoesTo, Others, TasksPresent

LEMMA BegunPresent ==
  ASSUME NEW w \in Workers, NEW pc, NEW o, NEW row, Begun(w, pc, o, row), Present(o.job)'
  PROVE  TasksPresent
  BY DEF Begun, Others, TasksPresent

LEMMA WorkerPresent ==
  ASSUME CronInv, NotYet, NEW w \in Workers, WorkerStep(w),
         \A j \in Jobs : Present(j) => Present(j)'
  PROVE  TimersPresent /\ TasksPresent
  <1> USE DEF CronInv
  <1>1. CASE \/ TickReserves(w) \/ TickVerifies(w) \/ TickCommits(w) \/ RunStep(w)
    <2>1. timer' = timer
      BY <1>1, RunStepGoes DEF TickReserves, TickVerifies, TickCommits
    <2>2. GoesTo(w, Pcs \ {"idle"}, Pcs)
      BY <1>1, RunStepGoes, RunGoes DEF GoesOn, GoesTo, Pcs, RunPcs
    <2> QED BY <2>1, <2>2, GoesPresent DEF TimersPresent
  <1>2. CASE TickEnters(w)
    <2>1. GoesTo(w, {"tick"}, {"claiming"})
      BY <1>2, TickEntersGoes
    <2>2. timer' = timer \/ timer' = [timer EXCEPT ![task[w].run.job] = NoTimer]
      BY <1>2 DEF TickEnters
    <2>3. TimersPresent
      BY <2>2 DEF TimersPresent, TimersTyped
    <2> QED BY <2>1, <2>3, GoesPresent
  <1>3. CASE Advances(w)
    <2>1. GoesTo(w, {"advancing"}, {})
      BY <1>3, RunGoes DEF GoesOn
    <2>2. ASSUME timer' = timer PROVE TimersPresent
      BY <2>2 DEF TimersPresent
    <2>3. ASSUME AdvanceAfter(task[w].run), task[w].outcome # "unexecutable"
          PROVE  TimersPresent
      <3>1. task[w].run \in Scheduled
        BY <1>3, <2>3 DEF Advances, TasksTyped, TaskSane
      <3> QED BY <2>3, <3>1, AdvancePresent
    <2>4. TimersPresent
      BY <1>3, <2>2, <2>3 DEF Advances
    <2> QED BY <2>1, <2>4, GoesPresent
  <1>4. CASE UpdateWrites(w) \/ Installs(w) \/ CleansUp(w)
    <2>0. PICK j \in Jobs : task[w].pc # "idle" /\ j = task[w].run.job
      BY <1>4, TaskJob DEF UpdateWrites, Installs, CleansUp
    <2>1. GoesTo(w, {"updating", "adding", "installing", "cleaning"}, {"installing"})
      BY <1>4, UpdateWritesGoes, RunGoes DEF GoesOn, GoesTo
    <2>2. Present(j)'
      BY <2>0 DEF NotYet, Present
    <2>3. timer' = timer \/ CancelTimers({j}) \/ \E row : ScheduleJob(j, row)
      BY <1>4, <2>0 DEF UpdateWrites, Installs, CleansUp
    <2>4. TimersPresent
      BY <2>2, <2>3, CancelPresent, SchedulePresent DEF TimersPresent
    <2> QED BY <2>1, <2>4, GoesPresent
  <1> QED BY <1>1, <1>2, <1>3, <1>4 DEF WorkerStep, RunStep

LEMMA UserPresent ==
  ASSUME CronInv, UserStep, \A j \in Jobs : Present(j) => Present(j)'
  PROVE  TimersPresent /\ TasksPresent
  <1> USE DEF CronInv
  <1>0. \A j, r, t : Occurrence(j, r, t).job = j
    BY DEF Occurrence
  <1>1. ASSUME NEW w \in Workers, NEW j \in Jobs, AddJob(w, j)
        PROVE  TimersPresent /\ TasksPresent
    <2> DEFINE o == Occurrence(j, 1, job'[j].next)
    <2>1. /\ Begun(w, "adding", o, job'[j]) /\ Present(j)' /\ timer' = timer
      BY <1>1, AddRows
    <2>2. o.job = j
      BY <1>0
    <2>3. \A v \in Workers : v # w => task'[v] = task[v]
      BY <2>1 DEF Begun, Others
    <2>4. task'[w].run.job = j
      BY <2>1, <2>2 DEF Begun
    <2> QED BY <2>1, <2>3, <2>4 DEF TimersPresent, TasksPresent
  <1>2. ASSUME NEW w \in Workers, NEW j \in Jobs, UpdateJob(w, j)
        PROVE  TimersPresent /\ TasksPresent
    <2>1. Begun(w, "updating", Occurrence(j, job[j].rev, job[j].next), job[j])
      BY <1>2, StartBegun DEF UpdateJob
    <2>2. Present(j)' /\ CancelTimers({j})
      BY <1>2 DEF UpdateJob, Live, Present
    <2> QED BY <1>0, <2>1, <2>2, BegunPresent, CancelPresent
  <1>3. ASSUME NEW w \in Workers, NEW j \in Jobs, CascadeDelete(w, j)
        PROVE  TimersPresent /\ TasksPresent
    <2>1. Begun(w, "cleaning", Occurrence(j, job[j].rev, job[j].next), job[j])
      BY <1>3, StartBegun DEF CascadeDelete
    <2>2. Present(j)' /\ timer' = timer
      BY <1>3 DEF CascadeDelete, Live, Present
    <2> QED BY <1>0, <2>1, <2>2, BegunPresent DEF TimersPresent
  <1>4. ASSUME NEW w \in Workers, NEW j \in Jobs, NEW p \in Ops, NowReserves(w, j, p)
        PROVE  TimersPresent /\ TasksPresent
    <2> DEFINE o == RunNow(j, p)
    <2>0. o.job = j
      BY DEF RunNow
    <2>1. \E pc : Begun(w, pc, o, job[j])
      BY <1>4, StartBegun DEF NowReserves
    <2>2. Live(j)
      BY <1>4, <2>0 DEF NowReserves, Reservable, Finalizable, Plans
    <2>3. Present(j)' /\ timer' = timer
      BY <1>4, <2>2 DEF NowReserves, Live, Present
    <2> HIDE DEF o
    <2> QED BY <2>0, <2>1, <2>3, BegunPresent DEF TimersPresent
  <1>5. CASE SystemResume \/ \E j \in Jobs : RemoveJob(j)
    <2>1. task' = task /\ \E js : CancelTimers(js)
      BY <1>5 DEF SystemResume, RemoveJob
    <2> QED BY <2>1, CancelPresent DEF TasksPresent
  <1> QED BY <1>1, <1>2, <1>3, <1>4, <1>5 DEF UserStep

LEMMA SweepPresent ==
  ASSUME CronInv, SweepStep, \A j \in Jobs : Present(j) => Present(j)'
  PROVE  TimersPresent /\ TasksPresent
  <1>0. task' = task
    BY DEF SweepStep, SweepLists, SweepsJob, SweepMisses, SweepAdvances, SweepEnds,
           RecoverRun, RecoverEnds
  <1>1. TasksPresent
    BY <1>0 DEF TasksPresent
  <1>2. CASE SweepLists \/ SweepMisses \/ SweepEnds \/ (\E o \in Runs : RecoverRun(o))
    BY <1>1, <1>2 DEF SweepLists, SweepMisses, SweepEnds, RecoverRun, TimersPresent
  <1>3. CASE RecoverEnds
    BY <1>1, <1>3, CancelPresent DEF RecoverEnds
  <1>4. CASE SweepAdvances
    BY <1>1, <1>4, AdvancePresent DEF SweepAdvances, CronInv, SweepTyped
  <1>5. ASSUME NEW j \in Jobs, SweepsJob(j) PROVE TimersPresent
    <2>1. CASE timer' = timer
      BY <2>1 DEF TimersPresent
    <2>2. CASE Live(j) /\ ScheduleJob(j, job[j])
      BY <2>2, SchedulePresent DEF Live, Present
    <2>3. CASE Live(j) /\ AdvanceAfter(Occurrence(j, job[j].rev, job[j].next))
      <3>1. Occurrence(j, job[j].rev, job[j].next) \in Scheduled
        BY <2>3, PlannedType DEF CronInv, Live
      <3> QED BY <2>3, <3>1, AdvancePresent
    <2> QED BY <1>5, <2>1, <2>2, <2>3 DEF SweepsJob
  <1> QED BY <1>1, <1>2, <1>3, <1>4, <1>5 DEF SweepStep

LEMMA NotYetStep ==
  ASSUME CronInv, GateInv, NotYet, TimersInv, [CronNext]_cronVars
  PROVE  NotYet'
  <1>0. \A j \in Jobs : Present(j) => Present(j)'
    BY RowsHeld DEF HeldRows
  <1>1. CASE UNCHANGED cronVars \/ ClockTicks \/ \E o \in Runs : TurnEnds(o)
    BY <1>1, <1>0, StillNotYet DEF cronVars, ClockTicks, TurnEnds, TimersPresent, TasksPresent
  <1>2. CASE Crash
    BY <1>0, <1>2, StillNotYet DEF Crash, TimersPresent, TasksPresent, NoTask
  <1>3. ASSUME NEW j \in Jobs, NEW w \in Workers, DispatchTick(j, w) PROVE NotYet'
    <2> DEFINE o == Occurrence(j, timer[j].rev, timer[j].at)
    <2>1. /\ Begun(w, "tick", o, job[j]) /\ timer[j].rev > 0
          /\ \A k \in Jobs \ {j} : timer'[k] = timer[k]
      BY <1>3, DispatchFacts
    <2>2. o.job = j
      BY DEF Occurrence
    <2> HIDE DEF o
    <2>3. Present(j)'
      <3>1. timer[j] # NoTimer
        BY <2>1 DEF NoTimer
      <3> QED BY <1>0, <3>1 DEF NotYet, Present
    <2>4. TimersPresent
      BY <2>1, <2>3 DEF TimersPresent
    <2> QED BY <1>0, <2>1, <2>2, <2>3, <2>4, BegunPresent, StillNotYet
  <1>4. CASE (\E w \in Workers : WorkerStep(w)) \/ SweepStep \/ UserStep
    BY <1>0, <1>4, WorkerPresent, SweepPresent, UserPresent, StillNotYet
  <1> QED BY <1>1, <1>2, <1>3, <1>4 DEF CronNext

-----------------------------------------------------------------------------
(* The row a callback verified stays as it is while it holds the gate.     *)

\* where the callbacks are that have verified their row
LEMMA VerifiedForms ==
  ASSUME CronInv, [CronNext]_cronVars, NEW v \in Workers, task'[v].pc = "verified"
  PROVE  task'[v] = task[v] \/ TickVerifies(v)
  <1> USE DEF CronInv
  <1>1. CASE task' = task
    BY <1>1
  <1>2. ASSUME NEW w \in Workers, WorkerStep(w)
        PROVE  task'[v] = task[v] \/ TickVerifies(v)
    <2>1. CASE v # w
      <3>1. CASE RunStep(w)
        BY <2>1, <3>1, RunStepGoes DEF GoesOn, GoesTo, Others
      <3>2. CASE ~RunStep(w)
        <4>1. Others(w)
          BY <1>2, <3>2, RunGoes, TickEntersGoes, UpdateWritesGoes
          DEF WorkerStep, RunStep, GoesOn, GoesTo
        <4> QED BY <2>1, <4>1 DEF Others
      <3> QED BY <3>1, <3>2
    <2>2. CASE v = w /\ RunStep(w)
      BY <2>2, RunStepGoes DEF GoesOn, GoesTo, RunPcs
    <2>3. CASE v = w /\ ~RunStep(w)
      BY <1>2, <2>3, RunGoes, TickEntersGoes, UpdateWritesGoes
      DEF WorkerStep, RunStep, GoesOn, GoesTo
    <2> QED BY <2>1, <2>2, <2>3
  <1>3. ASSUME NEW w \in Workers, NEW pc \in Pcs \ {"verified"}, NEW o, NEW row,
               Start(w, pc, o, row)
        PROVE  task'[v] = task[v]
    BY <1>3, StartBegun DEF Begun, Others
  <1>4. CASE UserStep
    <2>1. ASSUME NEW w \in Workers, NEW j \in Jobs,
                 AddJob(w, j) \/ UpdateJob(w, j) \/ CascadeDelete(w, j)
          PROVE  task'[v] = task[v]
      BY <2>1, <1>3 DEF AddJob, UpdateJob, CascadeDelete, Pcs
    <2>2. ASSUME NEW w \in Workers, NEW j \in Jobs, NEW p \in Ops, NowReserves(w, j, p)
          PROVE  task'[v] = task[v]
      BY <2>2, <1>3 DEF NowReserves, Pcs
    <2> QED BY <1>1, <1>4, <2>1, <2>2 DEF UserStep, RemoveJob, SystemResume
  <1>5. CASE \E j \in Jobs, w \in Workers : DispatchTick(j, w)
    BY <1>3, <1>5 DEF DispatchTick, Pcs
  <1>6. CASE Crash
    BY <1>6 DEF Crash, NoTask
  <1>7. SweepStep => task' = task
    BY DEF SweepStep, SweepLists, SweepsJob, SweepMisses, SweepAdvances, SweepEnds,
           RecoverRun, RecoverEnds
  <1> QED BY <1>1, <1>2, <1>4, <1>5, <1>6, <1>7
          DEF CronNext, ClockTicks, TurnEnds, cronVars

LEMMA VerifiedPlansStep ==
  ASSUME CronInv, GateInv, NotYet, VerifiedPlans, [CronNext]_cronVars
  PROVE  VerifiedPlans'
  <1> SUFFICES ASSUME NEW v \in Workers, task'[v].pc = "verified",
                      job'[task'[v].run.job].status = "live"
               PROVE  /\ job'[task'[v].run.job].rev = task'[v].run.rev
                      /\ job'[task'[v].run.job].next = task'[v].run.at
    BY DEF VerifiedPlans, Live
  <1>1. CASE task'[v] = task[v]
    <2>1. PICK j \in Jobs : j = task[v].run.job
      BY <1>1, TaskJob
    <2>2. RowHeld(j) /\ Live(j)'
      BY <1>1, <2>1, RowsHeld DEF HeldRows, GatePcs, Live
    <2>3. Live(j) /\ job'[j].rev = job[j].rev /\ job'[j].next = job[j].next
      BY <2>2 DEF RowHeld
    <2> QED BY <1>1, <2>1, <2>3 DEF VerifiedPlans
  <1>2. CASE TickVerifies(v)
    <2>1. job' = job /\ task[v].pc = "reserved" /\ task'[v].run = task[v].run
      BY <1>2, RunGoes DEF TickVerifies, GoesOn, GoesTo, CronInv
    <2>2. Plans(task[v].run)
      <3>1. CASE Absorbed(v)
        BY <3>1, ReturnFacts DEF Absorbed, CronInv
      <3> QED BY <1>2, <3>1 DEF TickVerifies
    <2> QED BY <2>1, <2>2 DEF Plans
  <1> QED BY <1>1, <1>2, VerifiedForms

LEMMA TickInvInit == CronInit => TickInv
  <1> SUFFICES ASSUME CronInit PROVE TickInv
    OBVIOUS
  <1>0. CronInv
    BY CronInitType
  <1>1. (\A w \in Workers : task[w].pc = "idle") /\ sweep.pc = "off" /\ revoked = {}
    BY DEF CronInit, NoTask, NoSweep
  <1>2. \A j \in Jobs :
          /\ timer[j].planned = timer[j].at /\ timer[j].at = timer[j].due
          /\ job[j].status = "absent" => timer[j] = NoTimer
    BY DEF CronInit, NewTimer, NoTimer
  <1>3. TimerOrder
    <2>1. \A j \in Jobs : timer[j].at \in Nat /\ timer[j].due \in Nat
      BY <1>0, TimerNat DEF CronInv
    <2> QED BY <1>2, <2>1 DEF TimerOrder
  <1>4. "idle" \notin TickPcs /\ "idle" \notin GatePcs /\ "off" \notin SweepGates
    BY DEF TickPcs, GatePcs, SweepGates
  <1> QED BY <1>1, <1>2, <1>3, <1>4
          DEF TickInv, TimersInv, GateInv, NotYet, RevokedTicks, TicksScheduled, TickTimer,
              TicksPast, VerifiedPlans

LEMMA TickInvStep ==
  ASSUME CronInv, TickInv, [CronNext]_cronVars
  PROVE  TickInv'
  BY GateInvStep, NotYetStep, TimersInvStep, VerifiedPlansStep DEF TickInv

\* Only commit_if_current_generation admits a run of a schedule.
LEMMA AdmittedForms ==
  ASSUME CronInv, [CronNext]_cronVars, NEW o \in Scheduled, NEW v \in Workers,
         task'[v].pc = "admitted", task'[v].run = o, ~Admitted(o)
  PROVE  TickCommits(v) /\ task[v].run = o
  <1> USE DEF CronInv
  <1>0. task'[v] # task[v]
    BY DEF Admitted
  <1>1. ASSUME NEW w \in Workers, WorkerStep(w)
        PROVE  TickCommits(v) /\ task[v].run = o
    <2>1. CASE v # w
      <3>1. CASE RunStep(w)
        BY <1>0, <2>1, <3>1, RunStepGoes DEF GoesOn, GoesTo, Others
      <3>2. CASE ~RunStep(w)
        <4>1. Others(w)
          BY <1>1, <3>2, RunGoes, TickEntersGoes, UpdateWritesGoes
          DEF WorkerStep, RunStep, GoesOn, GoesTo
        <4> QED BY <1>0, <2>1, <4>1 DEF Others
      <3> QED BY <3>1, <3>2
    <2>2. CASE v = w /\ RunStep(w)
      BY <2>2, RunStepGoes DEF GoesOn, GoesTo, RunPcs
    <2>3. CASE v = w /\ ~RunStep(w)
      BY <1>1, <2>3, RunGoes, TickEntersGoes, UpdateWritesGoes
      DEF WorkerStep, RunStep, GoesOn, GoesTo
    <2> QED BY <2>1, <2>2, <2>3
  <1>2. ASSUME NEW w \in Workers, NEW pc, NEW r, NEW row, Start(w, pc, r, row),
               pc # "admitted" \/ r \notin Scheduled
        PROVE  FALSE
    BY <1>0, <1>2, StartBegun DEF Begun, Others
  <1>3. CASE UserStep
    <2>1. ASSUME NEW w \in Workers, NEW j \in Jobs,
                 AddJob(w, j) \/ UpdateJob(w, j) \/ CascadeDelete(w, j)
          PROVE  FALSE
      BY <2>1, <1>2 DEF AddJob, UpdateJob, CascadeDelete
    <2>2. ASSUME NEW w \in Workers, NEW j \in Jobs, NEW p \in Ops, NowReserves(w, j, p)
          PROVE  FALSE
      BY <2>2, <1>2, RequestedApart DEF NowReserves
    <2> QED BY <1>0, <1>3, <2>1, <2>2 DEF UserStep, RemoveJob, SystemResume
  <1>4. CASE \E j \in Jobs, w \in Workers : DispatchTick(j, w)
    BY <1>2, <1>4 DEF DispatchTick
  <1>5. CASE Crash
    BY <1>5 DEF Crash, NoTask
  <1>6. SweepStep => task' = task
    BY DEF SweepStep, SweepLists, SweepsJob, SweepMisses, SweepAdvances, SweepEnds,
           RecoverRun, RecoverEnds
  <1> QED BY <1>0, <1>1, <1>3, <1>4, <1>5, <1>6
          DEF CronNext, ClockTicks, TurnEnds, cronVars

\* A callback is admitted only while the timer it came from is installed and
\* its row, unless deleted or disabled meanwhile, plans that very occurrence,
\* for any number of jobs, callbacks, updates, resumes and crashes.
THEOREM AdmissionIsCurrent == CronSpec => AdmittedIsCurrent
  <1>1. CronInit => CronInv /\ TickInv
    BY CronInitType, TickInvInit
  <1>2. CronInv /\ TickInv /\ [CronNext]_cronVars => (CronInv /\ TickInv)'
    BY CronStepType, TickInvStep
  <1>3. CronInv /\ TickInv /\ [CronNext]_cronVars =>
          [\A o \in Scheduled :
             Admitted(o)' /\ ~Admitted(o) =>
               /\ timer[o.job].rev = o.rev
               /\ timer[o.job].planned <= o.at
               /\ Live(o.job) => job[o.job].rev = o.rev /\ job[o.job].next = o.at]_cronVars
    <2> SUFFICES ASSUME CronInv, TickInv, [CronNext]_cronVars,
                        NEW o \in Scheduled, Admitted(o)', ~Admitted(o)
                 PROVE  /\ timer[o.job].rev = o.rev
                        /\ timer[o.job].planned <= o.at
                        /\ Live(o.job) => job[o.job].rev = o.rev /\ job[o.job].next = o.at
      OBVIOUS
    <2>1. PICK v \in Workers : task'[v].pc = "admitted" /\ task'[v].run = o
      BY DEF Admitted
    <2>2. TickCommits(v) /\ task[v].run = o
      BY <2>1, AdmittedForms
    <2>3. v \notin revoked
      <3>1. CASE Absorbed(v)
        BY <2>1, <3>1, ReturnFacts DEF Absorbed, CronInv
      <3> QED BY <2>2, <3>1 DEF TickCommits, Current
    <2>4. task[v].pc = "verified" /\ "verified" \in TickPcs
      BY <2>2 DEF TickCommits, TickPcs
    <2> QED BY <2>2, <2>3, <2>4 DEF TickInv, TimersInv, TickTimer, VerifiedPlans
  <1> QED BY <1>1, <1>2, <1>3, PTL DEF CronSpec, AdmittedIsCurrent

-----------------------------------------------------------------------------
(* No occurrence is lost.  Besides what the timers keep, it takes: a run   *)
(* exists only for an occurrence whose time has come and whose revision is *)
(* not ahead of its row; a timer is never ahead of the row; the row that a *)
(* task is about to install is the job's own; whoever loses a reserved     *)
(* occurrence to a revocation leaves it to a sweep that has not come to    *)
(* the job yet; and in every state somebody has the planned occurrence of  *)
(* the job in hand.                                                        *)

Planned(j) == Occurrence(j, job[j].rev, job[j].next)

RunsPast ==
  \A o \in Scheduled :
    run[o].status # "none" => o.at <= now /\ o.rev <= job[o.job].rev
NextSet == \A j \in Jobs : job[j].enabled => job[j].next # NoTime
TimerBehind ==
  \A j \in Jobs :
    /\ timer[j].rev <= job[j].rev
    /\ timer[j].rev = job[j].rev /\ job[j].enabled => timer[j].planned <= job[j].next

\* the row a callback has read is of the revision it was called for
ClaimPcs == OwnPcs \cup {"claiming", "advancing"}
RowOfRun ==
  \A w \in Workers :
    task[w].pc \in ClaimPcs /\ task[w].run \in Scheduled =>
      task[w].row.rev = task[w].run.rev

\* until the timer of an added job is installed nothing of its first
\* revision runs
AddingInv ==
  \A w \in Workers, j \in Jobs : task[w].pc = "adding" /\ task[w].run.job = j =>
    /\ sweep.pc = "off"
    /\ task[w].row.rev = 1 /\ task[w].row.enabled /\ task[w].row.next # NoTime
    /\ timer[j].rev # 1
    /\ job[j].rev = 1 => job[j].next = task[w].row.next
    /\ \A o \in Scheduled : o.job = j /\ o.rev = 1 => run[o].status = "none"
    /\ \A v \in Workers : task[v].pc = "adding" /\ task[v].run.job = j => v = w

\* the row of an update is the job's while the update holds the gate
UpdatingInv ==
  \A w \in Workers, j \in Jobs :
    /\ task[w].pc = "updating" /\ task[w].run.job = j => job[j].rev = task[w].row.rev
    /\ task[w].pc = "installing" /\ task[w].run.job = j =>
         /\ task[w].row.rev > 1
         /\ job[j].rev = task[w].row.rev /\ job[j].next = task[w].row.next
         /\ job[j].enabled => task[w].row.enabled
CleaningGone ==
  \A w \in Workers, j \in Jobs :
    task[w].pc = "cleaning" /\ task[w].run.job = j => Dead(j)

\* the sweep will come to the job
Waiting(j) ==
  \/ sweep.pc \in {"recovering", "recovered", "listing"}
  \/ sweep.pc \in {"sweeping", "missed", "passed"} /\ j \in sweep.todo
RevokedWaits ==
  \A w \in Workers :
    task[w].pc \in {"reserved", "verified"} /\ w \in revoked /\ Plans(task[w].run) =>
      Waiting(task[w].run.job)

\* who has the planned occurrence in hand
TimerSet(j) ==
  timer[j].rev = job[j].rev /\ timer[j].at = job[j].next /\ timer[j].due <= job[j].next
Called(j) ==
  \E w \in Workers :
    task[w].pc \in {"tick", "claiming"} /\ task[w].run = Planned(j) /\ w \notin revoked
Installing(j) ==
  \E w \in Workers :
    /\ task[w].pc \in {"updating", "installing"} \/ (task[w].pc = "adding" /\ job[j].rev = 1)
    /\ task[w].run.job = j
Closing(j) ==
  \/ \E w \in Workers : task[w].pc = "advancing" /\ task[w].run = Planned(j)
  \/ sweep.pc = "passed" /\ sweep.run = Planned(j)
Secured(j) ==
  \/ Waiting(j)
  \/ run[Planned(j)].status = "none" /\ (TimerSet(j) \/ Called(j) \/ Installing(j))
  \/ run[Planned(j)].status = "reserved"
  \/ run[Planned(j)].status \in Settled /\ Closing(j)
SecuredIfOn(j) == Live(j) /\ job[j].enabled => Secured(j)

CoverInv ==
  /\ RunsPast /\ NextSet /\ TimerBehind /\ RowOfRun /\ AddingInv /\ UpdatingInv
  /\ CleaningGone /\ RevokedWaits
  /\ \A j \in Jobs : SecuredIfOn(j)

-----------------------------------------------------------------------------
(* What a step may do.                                                     *)

\* a task that is not what it was took the step, or began with it
LEMMA TaskForms ==
  ASSUME CronInv, [CronNext]_cronVars, NEW v \in Workers, task'[v].pc # "idle"
  PROVE  \/ task'[v] = task[v]
         \/ WorkerStep(v)
         \/ \E j \in Jobs :
              \/ DispatchTick(j, v) \/ AddJob(v, j) \/ UpdateJob(v, j) \/ CascadeDelete(v, j)
              \/ \E p \in Ops : NowReserves(v, j, p)
  <1> USE DEF CronInv
  <1>1. CASE task' = task
    BY <1>1
  <1>2. ASSUME NEW w \in Workers, WorkerStep(w)
        PROVE  task'[v] = task[v] \/ WorkerStep(v)
    <2>1. Others(w)
      <3>1. CASE RunStep(w)
        BY <3>1, RunStepGoes DEF GoesOn, GoesTo
      <3>2. CASE ~RunStep(w)
        BY <1>2, <3>2, RunGoes, TickEntersGoes, UpdateWritesGoes
        DEF WorkerStep, RunStep, GoesOn, GoesTo
      <3> QED BY <3>1, <3>2
    <2> QED BY <1>2, <2>1 DEF Others
  <1>3. ASSUME NEW w \in Workers, NEW pc, NEW o, NEW row, Start(w, pc, o, row)
        PROVE  v = w \/ task'[v] = task[v]
    BY <1>3, StartBegun DEF Begun, Others
  <1>4. CASE UserStep
    <2>1. ASSUME NEW w \in Workers, NEW j \in Jobs,
                 AddJob(w, j) \/ UpdateJob(w, j) \/ CascadeDelete(w, j)
          PROVE  v = w \/ task'[v] = task[v]
      BY <2>1, <1>3 DEF AddJob, UpdateJob, CascadeDelete
    <2>2. ASSUME NEW w \in Workers, NEW j \in Jobs, NEW p \in Ops, NowReserves(w, j, p)
          PROVE  v = w \/ task'[v] = task[v]
      BY <2>2, <1>3 DEF NowReserves
    <2> QED BY <1>1, <1>4, <2>1, <2>2 DEF UserStep, RemoveJob, SystemResume
  <1>5. ASSUME NEW j \in Jobs, NEW w \in Workers, DispatchTick(j, w)
        PROVE  v = w \/ task'[v] = task[v]
    BY <1>3, <1>5 DEF DispatchTick
  <1>6. CASE Crash
    BY <1>6 DEF Crash, NoTask
  <1>7. SweepStep => task' = task
    BY DEF SweepStep, SweepLists, SweepsJob, SweepMisses, SweepAdvances, SweepEnds,
           RecoverRun, RecoverEnds
  <1> QED BY <1>1, <1>2, <1>4, <1>5, <1>6, <1>7
          DEF CronNext, ClockTicks, TurnEnds, cronVars

LEMMA RowNat ==
  ASSUME JobsTyped, NEW j \in Jobs
  PROVE  job[j].rev \in Nat /\ job[j].next \in Nat /\ job[j].next \in Times
  <1>1. job[j].rev \in 0 .. MaxRevisions /\ job[j].next \in Times /\ MaxRevisions \in Nat
    BY CronAssumption DEF JobsTyped, JobRow
  <1>2. job[j].rev \in Nat
    BY <1>1
  <1>3. Times \subseteq Nat
    BY TimesFacts
  <1> QED BY <1>1, <1>2, <1>3

LEMMA RowNatNext ==
  ASSUME JobsTyped', NEW j \in Jobs
  PROVE  job'[j].rev \in Nat /\ job'[j].next \in Nat
  <1>1. /\ job'[j].rev \in 0 .. MaxRevisions /\ job'[j].next \in Times
        /\ MaxRevisions \in Nat
    BY CronAssumption DEF JobsTyped, JobRow, Times, Later, Presence
  <1>2. job'[j].rev \in Nat
    BY <1>1
  <1>3. Times \subseteq Nat
    BY TimesFacts
  <1> QED BY <1>1, <1>2, <1>3

LEMMA RunNat ==
  ASSUME NEW o \in Scheduled
  PROVE  o.rev \in Nat /\ o.rev >= 1 /\ o.at \in Nat
  <1>1. o.rev \in 1 .. MaxRevisions /\ o.at \in Times /\ MaxRevisions \in Nat
    BY CronAssumption DEF Scheduled
  <1>2. o.rev \in Nat /\ o.rev >= 1
    BY <1>1
  <1>3. Times \subseteq Nat
    BY TimesFacts
  <1> QED BY <1>1, <1>2, <1>3

LEMMA ClockNat ==
  /\ BoundsTyped => now \in Nat /\ now \in 1 .. MaxTime
  /\ BoundsTyped' => now' \in Nat
  BY CronAssumption DEF BoundsTyped

\* a row never goes back to an earlier revision, and a deleted job does not
\* return
LEMMA RowsOnward ==
  ASSUME CronInv, [CronNext]_cronVars, NEW j \in Jobs
  PROVE  /\ Present(j) => job'[j].rev >= job[j].rev
         /\ Dead(j) => Dead(j)'
         /\ Live(j)' => Live(j) \/ ~Present(j)
  <1> DEFINE Goal == /\ Present(j) => job'[j].rev >= job[j].rev
                     /\ Dead(j) => Dead(j)'
                     /\ Live(j)' => Live(j) \/ ~Present(j)
  <1>0. job[j].rev \in Nat /\ job[j].status \in Presence
    BY CronAssumption DEF CronInv, JobsTyped, JobRow
  <1>1. ASSUME job'[j] = job[j] PROVE Goal
    BY <1>0, <1>1 DEF Live, Dead, Present
  <1>2. ASSUME RowHeld(j), Live(j) <=> Live(j)', Present(j)' => Present(j) PROVE Goal
    <2>1. CronInv'
      BY CronStepType
    <2>2. job'[j].status \in Presence
      BY <2>1 DEF CronInv, JobsTyped, JobRow
    <2> QED BY <1>0, <1>2, <2>2 DEF RowHeld, Live, Dead, Present, Presence
  <1>3. ASSUME NEW o \in Scheduled, AdvanceAfter(o) PROVE Goal
    <2>1. /\ job'[j].rev = job[j].rev
          /\ Live(j) <=> Live(j)'
          /\ Present(j) <=> Present(j)'
      BY <1>3, AdvanceRows
    <2>2. CronInv'
      BY CronStepType
    <2>3. job'[j].status \in Presence
      BY <2>2 DEF CronInv, JobsTyped, JobRow
    <2> QED BY <1>0, <2>1, <2>3 DEF Live, Dead, Present, Presence
  <1>4. ASSUME NEW w \in Workers, WorkerStep(w) PROVE Goal
    <2>1. CASE Disabled(w) /\ task[w].pc # "idle"
      BY <1>2, <2>1, DisabledHolds
    <2>2. CASE PrepareFails(w)
      BY <1>1, <2>1, <2>2 DEF PrepareFails
    <2>3. CASE Advances(w)
      <3>1. CASE task[w].outcome = "unexecutable"
        BY <2>1, <2>3, <3>1 DEF Advances
      <3>2. CASE task[w].outcome # "unexecutable"
        <4>1. task[w].run \in Scheduled /\ AdvanceAfter(task[w].run)
          BY <2>3, <3>2 DEF Advances, CronInv, TasksTyped, TaskSane
        <4> QED BY <1>3, <4>1
      <3> QED BY <3>1, <3>2
    <2>4. CASE UpdateWrites(w)
      <3>0. PICK k \in Jobs : task[w].pc = "updating" /\ k = task[w].run.job
        BY <2>4, TaskJob DEF UpdateWrites
      <3>1. CASE ~(Live(k) /\ job[k].rev = task[w].row.rev)
        BY <1>1, <2>4, <3>0, <3>1 DEF UpdateWrites
      <3>2. CASE Live(k) /\ job[k].rev = task[w].row.rev
        <4>1. /\ \A i \in Jobs \ {k} : job'[i] = job[i]
              /\ Live(k)' /\ job'[k].rev = job[k].rev + 1
          BY <2>4, <3>0, <3>2, UpdateRows
        <4>2. CASE j = k
          BY <1>0, <3>2, <4>1, <4>2 DEF Live, Dead, Present
        <4> QED BY <1>1, <4>1, <4>2
      <3> QED BY <3>1, <3>2
    <2>5. CASE \/ TickEnters(w) \/ TickReserves(w) \/ TickVerifies(w) \/ TickCommits(w)
               \/ DuplicateSettles(w) \/ Attaches(w) \/ Begins(w) \/ Sends(w)
               \/ SendRefused(w) \/ SendUnproven(w) \/ WaitObserves(w) \/ Settles(w)
               \/ Installs(w) \/ CleansUp(w)
      BY <1>1, <2>5 DEF TickEnters, TickReserves, TickVerifies, TickCommits,
         DuplicateSettles, Attaches, Begins, Sends, SendRefused, SendUnproven,
         WaitObserves, Settles, Installs, CleansUp
    <2> QED BY <1>4, <2>2, <2>3, <2>4, <2>5 DEF WorkerStep
  <1>5. CASE SweepStep
    <2>1. CASE SweepAdvances
      BY <1>3, <2>1 DEF SweepAdvances, CronInv, SweepTyped
    <2>2. ASSUME NEW k \in Jobs, SweepsJob(k) PROVE Goal
      <3>1. CASE job' = job
        BY <1>1, <3>1
      <3>2. CASE Live(k) /\ AdvanceAfter(Planned(k))
        <4>1. Planned(k) \in Scheduled
          BY <3>2, PlannedType DEF CronInv, Live, Planned
        <4> QED BY <1>3, <3>2, <4>1
      <3> QED BY <2>2, <3>1, <3>2 DEF SweepsJob, storeVars, Planned
    <2>3. CASE SweepLists \/ SweepMisses \/ SweepEnds \/ RecoverEnds
               \/ \E o \in Runs : RecoverRun(o)
      BY <1>1, <2>3 DEF SweepLists, SweepMisses, SweepEnds, RecoverEnds, RecoverRun
    <2> QED BY <1>5, <2>1, <2>2, <2>3 DEF SweepStep
  <1>6. CASE UserStep
    <2>1. ASSUME NEW k \in Jobs, NEW s \in {"removed", "cascaded"}, DeleteJob(k, s), Live(k)
          PROVE  Goal
      <3>1. /\ \A i \in Jobs \ {k} : job'[i] = job[i]
            /\ job'[k].status = s /\ RowHeld(j)
        BY <2>1, DeleteRows
      <3>2. CASE j = k
        BY <1>0, <2>1, <3>1, <3>2 DEF RowHeld, Dead, Live
      <3> QED BY <1>1, <3>1, <3>2
    <2>2. ASSUME NEW w \in Workers, NEW k \in Jobs, AddJob(w, k) PROVE Goal
      <3>1. ~Present(k) /\ \A i \in Jobs \ {k} : job'[i] = job[i]
        BY <2>2, AddRows
      <3>2. CASE j = k
        BY <3>1, <3>2 DEF Present, Dead
      <3> QED BY <1>1, <3>1, <3>2
    <2>3. ASSUME NEW w \in Workers, NEW k \in Jobs, UpdateJob(w, k) \/ CascadeDelete(w, k)
          PROVE  Goal
      BY <1>1, <2>1, <2>3 DEF UpdateJob, CascadeDelete
    <2>4. ASSUME NEW w \in Workers, NEW k \in Jobs, NEW p \in Ops, NowReserves(w, k, p)
          PROVE  Goal
      BY <1>1, <2>4 DEF NowReserves
    <2>5. CASE SystemResume \/ \E k \in Jobs : RemoveJob(k)
      BY <1>1, <2>1, <2>5 DEF SystemResume, RemoveJob
    <2> QED BY <1>6, <2>2, <2>3, <2>4, <2>5 DEF UserStep
  <1>7. CASE UNCHANGED cronVars \/ ClockTicks \/ Crash \/ (\E o \in Runs : TurnEnds(o))
             \/ \E k \in Jobs, w \in Workers : DispatchTick(k, w)
    BY <1>1, <1>7 DEF cronVars, ClockTicks, TurnEnds, Crash, DispatchTick
  <1> QED BY <1>4, <1>5, <1>6, <1>7 DEF CronNext

\* who reserves a run of a schedule, and what it has checked
Reserving(o) ==
  /\ Plans(o) /\ o.at <= now /\ job' = job /\ run[o].status = "none"
  /\ \/ sweep.pc = "sweeping"
     \/ \E w \in Workers : task[w].pc = "claiming" /\ task[w].run = o /\ w \notin revoked

LEMMA ReserveForms ==
  ASSUME CronInv, TimersInv, [CronNext]_cronVars, NEW o \in Scheduled,
         run'[o].status # "none"
  PROVE  run[o].status # "none" \/ Reserving(o)
  <1> USE DEF CronInv
  <1>0. o \in Runs
    BY RunsFacts
  <1>1. CASE run'[o].status = run[o].status
    BY <1>1
  <1>2. ASSUME NEW r \in Runs, NEW s, Finalize(r, s) PROVE run[o].status # "none"
    BY <1>0, <1>2, FinalizeFacts DEF Finalizable, SameRun
  <1>3. ASSUME NEW r, Reserve(r), r # o PROVE run'[o].status = run[o].status
    BY <1>0, <1>3 DEF Reserve, RunsTyped
  <1>4. ASSUME NEW w \in Workers, WorkerStep(w)
        PROVE  run[o].status # "none" \/ Reserving(o)
    <2>0. task[w].pc # "idle" => task[w].run \in Runs
      BY TaskJob
    <2>1. CASE TickReserves(w)
      <3>1. CASE Current(w) /\ Reservable(task[w].run) /\ Reserve(task[w].run)
                 /\ task[w].run = o
        <4>1. o.at <= now
          BY <2>1, <3>1 DEF TickReserves, TimersInv, TicksPast, TickPcs
        <4> QED BY <2>1, <3>1, <4>1 DEF TickReserves, Reservable, Reserving, Current
      <3> QED BY <1>1, <1>3, <2>1, <3>1 DEF TickReserves
    <2>2. CASE TickVerifies(w) \/ TickCommits(w) \/ DuplicateSettles(w) \/ Settles(w)
               \/ PrepareFails(w)
      BY <1>1, <1>2, <2>0, <2>2 DEF TickVerifies, TickCommits, DuplicateSettles, Settles,
                                  PrepareFails
    <2>3. CASE Attaches(w)
      BY <1>0, <1>1, <2>3 DEF Attaches, Attach, RunsTyped, RunRow
    <2>4. CASE \/ TickEnters(w) \/ Begins(w) \/ Sends(w) \/ SendRefused(w)
               \/ SendUnproven(w) \/ WaitObserves(w) \/ Advances(w) \/ UpdateWrites(w)
               \/ Installs(w) \/ CleansUp(w)
      BY <1>1, <2>4 DEF TickEnters, Begins, Sends, SendRefused, SendUnproven,
         WaitObserves, Advances, UpdateWrites, Installs, CleansUp
    <2> QED BY <1>4, <2>1, <2>2, <2>3, <2>4 DEF WorkerStep
  <1>5. CASE SweepStep
    <2>1. ASSUME NEW j \in Jobs, SweepsJob(j) PROVE run[o].status # "none" \/ Reserving(o)
      <3>1. CASE run' = run
        BY <1>1, <3>1
      <3>2. CASE run' # run
        <4>1. /\ Live(j) /\ job[j].enabled /\ job[j].next <= now
              /\ run[Planned(j)].status = "none" /\ Reserve(Planned(j))
              /\ job' = job /\ sweep.pc = "sweeping"
          BY <2>1, <3>2 DEF SweepsJob, storeVars, Planned
        <4>2. CASE o = Planned(j)
          <5>1. o.job = j /\ o.rev = job[j].rev /\ o.at = job[j].next
            BY <4>2 DEF Planned, Occurrence
          <5> QED BY <4>1, <4>2, <5>1 DEF Plans, Reserving
        <4> QED BY <1>1, <1>3, <4>1, <4>2
      <3> QED BY <3>1, <3>2
    <2>2. CASE SweepMisses
      BY <1>2, <2>2, RunsFacts DEF SweepMisses, SweepTyped
    <2>3. ASSUME NEW r \in Runs, RecoverRun(r) PROVE run[o].status # "none" \/ Reserving(o)
      BY <1>1, <1>2, <2>3 DEF RecoverRun
    <2>4. CASE SweepLists \/ SweepAdvances \/ SweepEnds \/ RecoverEnds
      BY <1>1, <2>4 DEF SweepLists, SweepAdvances, SweepEnds, RecoverEnds
    <2> QED BY <1>5, <2>1, <2>2, <2>3, <2>4 DEF SweepStep
  <1>6. CASE UserStep
    <2>1. ASSUME NEW k \in Jobs, NEW s, DeleteJob(k, s)
          PROVE  run[o].status # "none"
      BY <1>0, <2>1 DEF DeleteJob, NoRun
    <2>2. ASSUME NEW w \in Workers, NEW k \in Jobs,
                 AddJob(w, k) \/ UpdateJob(w, k) \/ CascadeDelete(w, k)
          PROVE  run[o].status # "none" \/ Reserving(o)
      BY <1>1, <2>1, <2>2 DEF AddJob, UpdateJob, CascadeDelete
    <2>3. ASSUME NEW w \in Workers, NEW k \in Jobs, NEW p \in Ops, NowReserves(w, k, p)
          PROVE  run[o].status # "none" \/ Reserving(o)
      BY <1>1, <1>3, <2>3, RequestedApart DEF NowReserves
    <2>4. CASE SystemResume \/ \E k \in Jobs : RemoveJob(k)
      BY <1>1, <2>1, <2>4 DEF SystemResume, RemoveJob
    <2> QED BY <1>6, <2>2, <2>3, <2>4 DEF UserStep
  <1>7. CASE UNCHANGED cronVars \/ ClockTicks \/ Crash \/ (\E r \in Runs : TurnEnds(r))
             \/ \E k \in Jobs, w \in Workers : DispatchTick(k, w)
    BY <1>1, <1>7 DEF cronVars, ClockTicks, TurnEnds, Crash, DispatchTick
  <1> QED BY <1>4, <1>5, <1>6, <1>7 DEF CronNext

LEMMA RunsPastStep ==
  ASSUME CronInv, ReceiptInv, TimersInv, RunsPast, [CronNext]_cronVars
  PROVE  RunsPast'
  <1> SUFFICES ASSUME NEW o \in Scheduled, run'[o].status # "none"
               PROVE  o.at <= now' /\ o.rev <= job'[o.job].rev
    BY DEF RunsPast, Scheduled
  <1>0. /\ o.job \in Jobs /\ o.rev \in Nat /\ o.at \in Nat /\ now \in Nat /\ now' \in Nat
        /\ job[o.job].rev \in Nat /\ job'[o.job].rev \in Nat
    <2>1. CronInv' /\ o.job \in Jobs
      BY CronStepType, RunsFacts
    <2> QED BY <2>1, RowNat, RowNatNext, RunNat, ClockNat DEF CronInv
  <1>1. o.at <= now /\ o.rev <= job[o.job].rev /\ Present(o.job)
    <2>1. CASE run[o].status # "none"
      BY <2>1 DEF RunsPast, ReceiptInv, RunInv, OwnerHolds, Live, Present
    <2>2. CASE Reserving(o)
      BY <1>0, <2>2 DEF Reserving, Plans, Live, Present
    <2> QED BY <2>1, <2>2, ReserveForms
  <1> QED BY <1>0, <1>1, RowsOnward, ClockOnward

-----------------------------------------------------------------------------
(* The rows and the timers.                                                *)

LEMMA ScheduleEffect ==
  ASSUME TimersTyped, NEW j \in Jobs, NEW row, ScheduleJob(j, row)
  PROVE  /\ \A k \in Jobs \ {j} : timer'[k] = timer[k]
         /\ timer'[j] = timer[j] \/ timer'[j] = NoTimer \/ timer'[j] = NewTimer(row)
         /\ revoked' \subseteq revoked \cup TicksOf({j})
  BY DEF TimersTyped, ScheduleJob, CancelTimers

LEMMA Install ==
  ASSUME TimersTyped, NEW j \in Jobs, NEW row, ScheduleJob(j, row), row.enabled,
         row.next # NoTime, Newer(j, row)
  PROVE  timer'[j] = NewTimer(row)
  BY DEF TimersTyped, ScheduleJob

\* what an advance leaves behind
LEMMA AdvanceFacts ==
  ASSUME CronInv, TimerBehind, NEW o \in Scheduled, AdvanceAfter(o), Advanceable(o),
         o.at <= now, NEW j, j = o.job
  PROVE  /\ job'[j].rev = job[j].rev
         /\ \/ ~job'[j].enabled /\ timer'[j] = NoTimer
            \/ /\ job'[j].enabled /\ job'[j].next > now /\ job'[j].next # NoTime
               /\ timer'[j] = NewTimer(job'[j])
  <1> DEFINE row == AdvancedRow(o, now)
  <1>0. /\ j \in Jobs /\ now \in Nat /\ now \in 1 .. MaxTime
        /\ job[j].rev \in Nat /\ timer[j].rev \in Nat /\ timer[j].planned \in Nat
        /\ job[j] \in JobRow
    BY RunsFacts, ClockNat, RowNat, TimerNat DEF CronInv, JobsTyped
  <1>1. /\ Live(j) /\ job[j].enabled /\ job[j].rev = o.rev /\ job[j].next = o.at
    BY DEF Advanceable, Plans
  <1>2. job' = [job EXCEPT ![j] = row] /\ ScheduleJob(j, row)
    BY DEF AdvanceAfter
  <1>3. job'[j] = row
    BY <1>0, <1>2 DEF CronInv, JobsTyped
  <1>4. row.rev = job[j].rev
    BY <1>0, <1>1, AdvancedRowType DEF CronInv
  <1>5. CASE job[j].sched.kind = "at"
    <2>1. ~row.enabled
      BY <1>0, <1>5 DEF AdvancedRow, JobRow
    <2> HIDE DEF row
    <2>2. timer[j].rev <= row.rev
      BY <1>0, <1>4 DEF TimerBehind
    <2>3. timer'[j] = NoTimer
      BY <1>0, <1>2, <2>1, <2>2 DEF ScheduleJob, CancelTimers
    <2> QED BY <1>3, <1>4, <2>1, <2>3
  <1>6. CASE job[j].sched.kind # "at"
    <2>1. row.enabled /\ row.next = NextRun(job[j].sched, now)
      BY <1>0, <1>1, <1>6 DEF AdvancedRow, JobRow
    <2>2. job[j].sched \in Schedules
      BY <1>0 DEF JobRow
    <2>3. job[j].sched.n \in 1 .. MaxTime /\ MaxTime \in Nat
      BY <2>2, ScheduleFacts, CronAssumption
    <2>4. NextRun(job[j].sched, now) > now /\ NextRun(job[j].sched, now) \in Nat
      BY <1>0, <1>6, <2>3 DEF NextRun, Later
    <2> HIDE DEF row
    <2>5. row.next > now /\ row.next \in Nat /\ row.next # NoTime
      BY <1>0, <2>1, <2>4 DEF NoTime
    <2>6. timer[j].rev <= job[j].rev
          /\ (timer[j].rev = job[j].rev => timer[j].planned <= now)
      <3>1. o.at \in Nat
        BY RunNat
      <3> QED BY <1>0, <1>1, <3>1 DEF TimerBehind
    <2>7. Newer(j, row)
      BY <1>0, <1>4, <2>5, <2>6 DEF Newer
    <2>8. timer'[j] = NewTimer(row)
      BY <1>0, <1>2, <2>1, <2>5, <2>7, Install DEF CronInv
    <2> QED BY <1>3, <1>4, <2>1, <2>5, <2>8
  <1> QED BY <1>5, <1>6

\* how the row of a job is written
RowAdvanced(j) ==
  \E o \in Scheduled : o.job = j /\ AdvanceAfter(o) /\ Advanceable(o) /\ run' = run
RowUpdated(j) ==
  \E w \in Workers :
    /\ UpdateWrites(w) /\ task[w].run.job = j
    /\ Live(j) /\ job[j].rev = task[w].row.rev
RowAdded(j) == \E w \in Workers : AddJob(w, j)

LEMMA RowForms ==
  ASSUME CronInv, [CronNext]_cronVars, NEW j \in Jobs
  PROVE  RowHeld(j) \/ RowAdvanced(j) \/ RowUpdated(j) \/ RowAdded(j)
  <1> DEFINE Goal == RowHeld(j) \/ RowAdvanced(j) \/ RowUpdated(j) \/ RowAdded(j)
  <1>1. ASSUME job'[j] = job[j] PROVE Goal
    BY <1>1, RowSame
  <1>2. ASSUME NEW o \in Scheduled, AdvanceAfter(o), run' = run PROVE Goal
    <2>1. CASE o.job # j
      BY <1>1, <1>2, <2>1, AdvanceRows
    <2>2. CASE ~Advanceable(o)
      BY <1>1, <1>2, <2>2 DEF AdvanceAfter
    <2> QED BY <1>2, <2>1, <2>2 DEF RowAdvanced
  <1>3. ASSUME NEW w \in Workers, WorkerStep(w) PROVE Goal
    <2>1. CASE Disabled(w) /\ task[w].pc # "idle"
      BY <2>1, DisabledHolds
    <2>2. CASE PrepareFails(w)
      BY <1>1, <2>1, <2>2 DEF PrepareFails
    <2>3. CASE Advances(w)
      <3>1. CASE task[w].outcome = "unexecutable"
        BY <2>1, <2>3, <3>1 DEF Advances
      <3>2. CASE task[w].outcome # "unexecutable"
        <4>1. task[w].run \in Scheduled /\ AdvanceAfter(task[w].run) /\ run' = run
          BY <2>3, <3>2 DEF Advances, CronInv, TasksTyped, TaskSane
        <4> QED BY <1>2, <4>1
      <3> QED BY <3>1, <3>2
    <2>4. CASE UpdateWrites(w)
      <3>0. PICK k \in Jobs : task[w].pc = "updating" /\ k = task[w].run.job
        BY <2>4, TaskJob DEF UpdateWrites
      <3>1. CASE ~(Live(k) /\ job[k].rev = task[w].row.rev)
        BY <1>1, <2>4, <3>0, <3>1 DEF UpdateWrites
      <3>2. CASE Live(k) /\ job[k].rev = task[w].row.rev
        <4>1. \A i \in Jobs \ {k} : job'[i] = job[i]
          BY <2>4, <3>0, <3>2, UpdateRows
        <4>2. CASE j = k
          BY <2>4, <3>0, <3>2, <4>2 DEF RowUpdated
        <4> QED BY <1>1, <4>1, <4>2
      <3> QED BY <3>1, <3>2
    <2>5. CASE \/ TickEnters(w) \/ TickReserves(w) \/ TickVerifies(w) \/ TickCommits(w)
               \/ DuplicateSettles(w) \/ Attaches(w) \/ Begins(w) \/ Sends(w)
               \/ SendRefused(w) \/ SendUnproven(w) \/ WaitObserves(w) \/ Settles(w)
               \/ Installs(w) \/ CleansUp(w)
      BY <1>1, <2>5 DEF TickEnters, TickReserves, TickVerifies, TickCommits,
         DuplicateSettles, Attaches, Begins, Sends, SendRefused, SendUnproven,
         WaitObserves, Settles, Installs, CleansUp
    <2> QED BY <1>3, <2>2, <2>3, <2>4, <2>5 DEF WorkerStep
  <1>4. CASE SweepStep
    <2>1. CASE SweepAdvances
      BY <1>2, <2>1 DEF SweepAdvances, CronInv, SweepTyped
    <2>2. ASSUME NEW k \in Jobs, SweepsJob(k) PROVE Goal
      <3>1. CASE job' = job
        BY <1>1, <3>1
      <3>2. CASE Live(k) /\ AdvanceAfter(Planned(k)) /\ run' = run
        <4>1. Planned(k) \in Scheduled
          BY <3>2, PlannedType DEF CronInv, Live, Planned
        <4> QED BY <1>2, <3>2, <4>1
      <3> QED BY <2>2, <3>1, <3>2 DEF SweepsJob, storeVars, Planned
    <2>3. CASE SweepLists \/ SweepMisses \/ SweepEnds \/ RecoverEnds
               \/ \E o \in Runs : RecoverRun(o)
      BY <1>1, <2>3 DEF SweepLists, SweepMisses, SweepEnds, RecoverEnds, RecoverRun
    <2> QED BY <1>4, <2>1, <2>2, <2>3 DEF SweepStep
  <1>5. CASE UserStep
    <2>1. ASSUME NEW k \in Jobs, NEW s \in {"removed", "cascaded"}, DeleteJob(k, s)
          PROVE  Goal
      BY <2>1, DeleteRows
    <2>2. ASSUME NEW w \in Workers, NEW k \in Jobs, AddJob(w, k) PROVE Goal
      BY <1>1, <2>2, AddRows DEF RowAdded
    <2>3. ASSUME NEW w \in Workers, NEW k \in Jobs, UpdateJob(w, k) \/ CascadeDelete(w, k)
          PROVE  Goal
      BY <1>1, <2>1, <2>3 DEF UpdateJob, CascadeDelete
    <2>4. ASSUME NEW w \in Workers, NEW k \in Jobs, NEW p \in Ops, NowReserves(w, k, p)
          PROVE  Goal
      BY <1>1, <2>4 DEF NowReserves
    <2>5. CASE SystemResume \/ \E k \in Jobs : RemoveJob(k)
      BY <1>1, <2>1, <2>5 DEF SystemResume, RemoveJob
    <2> QED BY <1>5, <2>2, <2>3, <2>4, <2>5 DEF UserStep
  <1>6. CASE UNCHANGED cronVars \/ ClockTicks \/ Crash \/ (\E o \in Runs : TurnEnds(o))
             \/ \E k \in Jobs, w \in Workers : DispatchTick(k, w)
    BY <1>1, <1>6 DEF cronVars, ClockTicks, TurnEnds, Crash, DispatchTick
  <1> QED BY <1>3, <1>4, <1>5, <1>6 DEF CronNext

\* what is advanced was due
LEMMA AdvancedPast ==
  ASSUME CronInv, RunsPast, NEW o \in Scheduled, Advanceable(o)
  PROVE  o.at <= now
  BY DEF RunsPast, Advanceable, Settled

LEMMA NextSetStep ==
  ASSUME CronInv, RunsPast, TimerBehind, NextSet, [CronNext]_cronVars
  PROVE  NextSet'
  <1> SUFFICES ASSUME NEW j \in Jobs, job'[j].enabled PROVE job'[j].next # NoTime
    BY DEF NextSet, NoTime
  <1>1. CASE RowHeld(j)
    BY <1>1 DEF RowHeld, NextSet
  <1>2. CASE RowAdvanced(j)
    <2>1. PICK o \in Scheduled : o.job = j /\ AdvanceAfter(o) /\ Advanceable(o)
      BY <1>2 DEF RowAdvanced
    <2> QED BY <2>1, AdvancedPast, AdvanceFacts
  <1>3. CASE RowUpdated(j)
    BY <1>3, UpdateRows DEF RowUpdated
  <1>4. CASE RowAdded(j)
    BY <1>4, AddRows DEF RowAdded
  <1> QED BY <1>1, <1>2, <1>3, <1>4, RowForms

\* how the timer of a job changes: never to a row that is not the job's
TimerMatches(j) ==
  \/ timer'[j].rev = timer[j].rev /\ timer'[j].planned = timer[j].planned
  \/ timer'[j] = NoTimer
  \/ \E row : /\ timer'[j] = NewTimer(row) /\ row.rev <= job'[j].rev
              /\ row.rev = job'[j].rev => row.next = job'[j].next

LEMMA ScheduleMatches ==
  ASSUME CronInv, NEW k \in Jobs, NEW row, ScheduleJob(k, row), row.rev <= job'[k].rev,
         row.rev = job'[k].rev => row.next = job'[k].next, NEW j \in Jobs
  PROVE  TimerMatches(j)
  BY ScheduleEffect DEF TimerMatches, CronInv

LEMMA CancelMatches ==
  ASSUME NEW js, CancelTimers(js), NEW j \in Jobs
  PROVE  TimerMatches(j)
  BY DEF CancelTimers, TimerMatches

LEMMA AdvanceMatches ==
  ASSUME CronInv, NEW o \in Scheduled, AdvanceAfter(o), NEW j \in Jobs
  PROVE  TimerMatches(j)
  <1>1. CASE ~Advanceable(o)
    BY <1>1 DEF AdvanceAfter, TimerMatches
  <1>2. CASE Advanceable(o)
    <2> DEFINE row == AdvancedRow(o, now)
    <2>1. o.job \in Jobs /\ job' = [job EXCEPT ![o.job] = row] /\ ScheduleJob(o.job, row)
      BY <1>2, RunsFacts DEF AdvanceAfter
    <2>2. row.rev \in Nat
      BY <1>2, <2>1, RowNat, AdvancedRowType, ClockNat DEF CronInv, Advanceable, Plans
    <2> HIDE DEF row
    <2>3. job'[o.job] = row
      BY <2>1 DEF CronInv, JobsTyped
    <2>4. row.rev <= job'[o.job].rev
      BY <2>2, <2>3
    <2> QED BY <2>1, <2>3, <2>4, ScheduleMatches
  <1> QED BY <1>1, <1>2

LEMMA SelfMatches ==
  ASSUME CronInv, NEW k \in Jobs, ScheduleJob(k, job[k]), job' = job, NEW j \in Jobs
  PROVE  TimerMatches(j)
  <1>1. job[k].rev <= job'[k].rev
    BY RowNat DEF CronInv
  <1> QED BY <1>1, ScheduleMatches

LEMMA TimerForms ==
  ASSUME CronInv, TimersInv, AddingInv, UpdatingInv, NotYet, [CronNext]_cronVars, NEW j \in Jobs
  PROVE  TimerMatches(j)
  <1>1. CASE timer' = timer
    BY <1>1 DEF TimerMatches
  <1>2. ASSUME NEW w \in Workers, WorkerStep(w) PROVE TimerMatches(j)
    <2>1. CASE TickEnters(w)
      <3>1. timer' = timer \/ timer' = [timer EXCEPT ![task[w].run.job] = NoTimer]
        BY <2>1 DEF TickEnters
      <3> QED BY <3>1 DEF TimerMatches, CronInv, TimersTyped
    <2>2. CASE Advances(w)
      <3>1. CASE task[w].outcome # "unexecutable"
        <4>1. task[w].run \in Scheduled /\ AdvanceAfter(task[w].run)
          BY <2>2, <3>1 DEF Advances, CronInv, TasksTyped, TaskSane
        <4> QED BY <4>1, AdvanceMatches
      <3> QED BY <1>1, <2>2, <3>1 DEF Advances
    <2>3. CASE UpdateWrites(w)
      <3>0. PICK k \in Jobs : task[w].pc = "updating" /\ k = task[w].run.job
        BY <2>3, TaskJob DEF UpdateWrites
      <3>1. timer' = timer \/ CancelTimers({k}) \/ (ScheduleJob(k, job[k]) /\ job' = job)
        BY <2>3, <3>0 DEF UpdateWrites
      <3> QED BY <1>1, <3>1, CancelMatches, SelfMatches
    <2>4. CASE Installs(w)
      <3>0. PICK k \in Jobs : task[w].pc \in {"adding", "installing"} /\ k = task[w].run.job
        BY <2>4, TaskJob DEF Installs
      <3>1. ScheduleJob(k, task[w].row) /\ job' = job
        BY <2>4, <3>0 DEF Installs
      <3>2. Present(k)
        BY <3>0 DEF NotYet, Present
      <3>3. job[k].rev \in Nat /\ job[k].rev >= 1
        BY <3>2, RowNat DEF CronInv, JobsTyped, RowsSane, Present
      <3>4. CASE task[w].pc = "adding"
        <4>1. task[w].row.rev = 1 /\ (job[k].rev = 1 => job[k].next = task[w].row.next)
          BY <3>0, <3>4 DEF AddingInv
        <4> QED BY <3>1, <3>3, <4>1, ScheduleMatches
      <3>5. CASE task[w].pc = "installing"
        <4>1. job[k].rev = task[w].row.rev /\ job[k].next = task[w].row.next
          BY <3>0, <3>5 DEF UpdatingInv
        <4> QED BY <3>1, <3>3, <4>1, ScheduleMatches
      <3> QED BY <3>0, <3>4, <3>5
    <2>5. CASE CleansUp(w)
      BY <1>1, <2>5, CancelMatches DEF CleansUp
    <2>6. CASE \/ TickReserves(w) \/ TickVerifies(w) \/ TickCommits(w) \/ RunStep(w)
      BY <1>1, <2>6, RunStepGoes DEF TickReserves, TickVerifies, TickCommits, CronInv
    <2> QED BY <1>2, <2>1, <2>2, <2>3, <2>4, <2>5, <2>6 DEF WorkerStep, RunStep
  <1>3. CASE SweepStep
    <2>1. CASE SweepAdvances
      BY <2>1, AdvanceMatches DEF SweepAdvances, CronInv, SweepTyped
    <2>2. ASSUME NEW k \in Jobs, SweepsJob(k) PROVE TimerMatches(j)
      <3>1. CASE ScheduleJob(k, job[k]) /\ job' = job
        BY <3>1, SelfMatches
      <3>2. CASE Live(k) /\ AdvanceAfter(Planned(k))
        <4>1. Planned(k) \in Scheduled
          BY <3>2, PlannedType DEF CronInv, Live, Planned
        <4> QED BY <3>2, <4>1, AdvanceMatches
      <3> QED BY <1>1, <2>2, <3>1, <3>2 DEF SweepsJob, storeVars, Planned
    <2>3. CASE SweepLists \/ SweepMisses \/ SweepEnds \/ RecoverEnds
               \/ \E o \in Runs : RecoverRun(o)
      BY <1>1, <2>3, CancelMatches
      DEF SweepLists, SweepMisses, SweepEnds, RecoverEnds, RecoverRun
    <2> QED BY <1>3, <2>1, <2>2, <2>3 DEF SweepStep
  <1>4. CASE UserStep
    <2>1. ASSUME NEW w \in Workers, NEW k \in Jobs,
                 AddJob(w, k) \/ UpdateJob(w, k) \/ CascadeDelete(w, k)
          PROVE  TimerMatches(j)
      BY <1>1, <2>1, CancelMatches, AddRows DEF UpdateJob, CascadeDelete
    <2>2. ASSUME NEW w \in Workers, NEW k \in Jobs, NEW p \in Ops, NowReserves(w, k, p)
          PROVE  TimerMatches(j)
      BY <1>1, <2>2 DEF NowReserves
    <2>3. CASE SystemResume \/ \E k \in Jobs : RemoveJob(k)
      BY <2>3, CancelMatches DEF SystemResume, RemoveJob
    <2> QED BY <1>4, <2>1, <2>2, <2>3 DEF UserStep
  <1>5. ASSUME NEW k \in Jobs, NEW w \in Workers, DispatchTick(k, w) PROVE TimerMatches(j)
    BY <1>5, DispatchFacts DEF TimerMatches
  <1>6. CASE UNCHANGED cronVars \/ ClockTicks \/ Crash \/ (\E o \in Runs : TurnEnds(o))
    BY <1>1, <1>6 DEF cronVars, ClockTicks, TurnEnds, Crash, TimerMatches
  <1> QED BY <1>2, <1>3, <1>4, <1>5, <1>6 DEF CronNext

LEMMA TimerBehindStep ==
  ASSUME CronInv, TimersInv, RunsPast, NotYet, TimerBehind, AddingInv, UpdatingInv,
         [CronNext]_cronVars
  PROVE  TimerBehind'
  <1> SUFFICES ASSUME NEW j \in Jobs
               PROVE  /\ timer'[j].rev <= job'[j].rev
                      /\ timer'[j].rev = job'[j].rev /\ job'[j].enabled =>
                           timer'[j].planned <= job'[j].next
    BY DEF TimerBehind
  <1>0. CronInv'
    BY CronStepType
  <1>1. /\ job[j].rev \in Nat /\ job[j].next \in Nat /\ timer[j].rev \in Nat
        /\ job'[j].rev \in Nat /\ job'[j].next \in Nat
    BY <1>0, RowNat, RowNatNext, TimerNat DEF CronInv
  <1>2. CASE RowHeld(j)
    <2>1. CASE timer'[j].rev = timer[j].rev /\ timer'[j].planned = timer[j].planned
      BY <1>2, <2>1 DEF TimerBehind, RowHeld
    <2>2. CASE timer'[j] = NoTimer
      BY <1>1, <2>2 DEF NoTimer, NoTime
    <2>3. CASE \E row : /\ timer'[j] = NewTimer(row) /\ row.rev <= job'[j].rev
                        /\ row.rev = job'[j].rev => row.next = job'[j].next
      BY <1>1, <2>3 DEF NewTimer
    <2> QED BY <2>1, <2>2, <2>3, TimerForms DEF TimerMatches
  <1>3. CASE RowAdvanced(j)
    <2>1. PICK o \in Scheduled : o.job = j /\ AdvanceAfter(o) /\ Advanceable(o)
      BY <1>3 DEF RowAdvanced
    <2>2. \/ ~job'[j].enabled /\ timer'[j] = NoTimer
          \/ timer'[j] = NewTimer(job'[j])
      BY <2>1, AdvancedPast, AdvanceFacts
    <2> QED BY <1>1, <2>2 DEF NewTimer, NoTimer
  <1>4. CASE RowUpdated(j)
    <2>1. timer'[j] = timer[j] /\ job'[j].rev = job[j].rev + 1
      BY <1>4, UpdateRows DEF RowUpdated
    <2> QED BY <1>1, <2>1 DEF TimerBehind
  <1>5. CASE RowAdded(j)
    <2>1. timer'[j] = NoTimer
      BY <1>5, AddRows DEF RowAdded, NotYet, Present
    <2> QED BY <1>1, <2>1 DEF NoTimer, NoTime
  <1> QED BY <1>2, <1>3, <1>4, <1>5, RowForms

-----------------------------------------------------------------------------
(* The tasks.                                                              *)

LEMMA RowOfRunStep ==
  ASSUME CronInv, RowOfRun, [CronNext]_cronVars
  PROVE  RowOfRun'
  <1> SUFFICES ASSUME NEW v \in Workers, task'[v].pc \in ClaimPcs, task'[v].run \in Scheduled
               PROVE  task'[v].row.rev = task'[v].run.rev
    BY DEF RowOfRun, Scheduled
  <1> USE DEF CronInv
  <1>0. ClaimPcs = {"reserved", "verified", "admitted", "attached", "sending", "waiting",
                    "result", "claiming", "advancing"}
    BY DEF ClaimPcs, OwnPcs
  <1>1. CASE task'[v] = task[v]
    BY <1>1 DEF RowOfRun
  <1>3. CASE TickEnters(v)
    <2>1. /\ task[v].run.rev = job[task[v].run.job].rev
          /\ task' = [task EXCEPT ![v].pc = "claiming", ![v].row = job[task[v].run.job]]
      <3>1. CASE Return(v)
        BY <1>0, <3>1, ReturnFacts
      <3> QED BY <1>3, <3>1 DEF TickEnters, Absorbed
    <2>2. task'[v].row = job[task[v].run.job] /\ task'[v].run = task[v].run
      <3>1. task[v].pc \in {"tick"} /\ task[v].pc # "idle" /\ "claiming" \in {"claiming"}
        BY <1>3 DEF TickEnters
      <3>2. /\ GoesTo(v, {"tick"}, {"claiming"}) /\ task'[v].row = job[task[v].run.job]
            /\ task'[v].pc = "claiming"
        BY <2>1, <3>1, RowGoes, Zenon
      <3> QED BY <3>2 DEF GoesTo
    <2> QED BY <2>1, <2>2
  <1>4. CASE \/ TickReserves(v) \/ TickVerifies(v) \/ TickCommits(v) \/ Attaches(v)
             \/ PrepareFails(v) \/ Begins(v) \/ Sends(v) \/ SendRefused(v)
             \/ SendUnproven(v) \/ WaitObserves(v) \/ Settles(v) \/ Advances(v)
    <2>1. GoesOn(v, ClaimPcs, ClaimPcs)
      BY <1>0, <1>4, RunGoes DEF GoesOn, GoesTo
    <2> QED BY <1>0, <2>1 DEF GoesOn, GoesTo, RowOfRun
  <1>5. CASE DuplicateSettles(v) \/ Installs(v) \/ CleansUp(v) \/ UpdateWrites(v)
    <2>1. GoesTo(v, Pcs, {"installing"})
      BY <1>5, RunGoes, UpdateWritesGoes DEF GoesOn, GoesTo, Pcs
    <2> QED BY <1>0, <2>1 DEF GoesTo
  <1>6. ASSUME NEW j \in Jobs,
               \/ DispatchTick(j, v) \/ AddJob(v, j) \/ UpdateJob(v, j) \/ CascadeDelete(v, j)
        PROVE  FALSE
    <2>1. ASSUME NEW pc, NEW o, NEW row, Start(v, pc, o, row), pc \notin ClaimPcs
          PROVE  FALSE
      BY <2>1, StartBegun DEF Begun
    <2>2. {"tick", "adding", "updating", "cleaning"} \cap ClaimPcs = {}
      BY <1>0
    <2>3. \E pc \in {"tick", "adding", "updating", "cleaning"} : \E o, row : Start(v, pc, o, row)
      BY <1>6 DEF DispatchTick, AddJob, UpdateJob, CascadeDelete
    <2> QED BY <2>1, <2>2, <2>3
  <1>7. ASSUME NEW j \in Jobs, NEW p \in Ops, NowReserves(v, j, p) PROVE FALSE
    <2>1. task'[v].run = RunNow(j, p)
      BY <1>7, StartBegun DEF NowReserves, Begun
    <2> QED BY <2>1, RequestedApart
  <1>8. task'[v].pc # "idle"
    BY <1>0
  <1> QED BY <1>1, <1>3, <1>4, <1>5, <1>6, <1>7, <1>8, TaskForms DEF WorkerStep

\* the tasks of a command that writes the row of its job
LEMMA CommandForms ==
  ASSUME CronInv, [CronNext]_cronVars, NEW v \in Workers,
         task'[v].pc \in {"adding", "updating", "installing", "cleaning"}
  PROVE  \/ task'[v] = task[v]
         \/ task'[v].pc = "installing" /\ UpdateWrites(v)
         \/ \E j \in Jobs : \/ task'[v].pc = "adding" /\ AddJob(v, j)
                            \/ task'[v].pc = "updating" /\ UpdateJob(v, j)
                            \/ task'[v].pc = "cleaning" /\ CascadeDelete(v, j)
  <1> USE DEF CronInv
  <1>1. ASSUME WorkerStep(v) PROVE task'[v].pc = "installing" /\ UpdateWrites(v)
    <2>1. CASE RunStep(v)
      BY <2>1, RunStepGoes DEF GoesOn, GoesTo, RunPcs
    <2>2. CASE ~RunStep(v)
      BY <1>1, <2>2, RunGoes, TickEntersGoes, UpdateWritesGoes
      DEF WorkerStep, RunStep, GoesOn, GoesTo
    <2> QED BY <2>1, <2>2
  <1>2. ASSUME NEW pc, NEW o, NEW row, Start(v, pc, o, row) PROVE task'[v].pc = pc
    BY <1>2, StartBegun DEF Begun
  <1>3. ASSUME NEW j \in Jobs
        PROVE  /\ DispatchTick(j, v) => FALSE
               /\ AddJob(v, j) => task'[v].pc = "adding"
               /\ UpdateJob(v, j) => task'[v].pc = "updating"
               /\ CascadeDelete(v, j) => task'[v].pc = "cleaning"
               /\ \A p \in Ops : NowReserves(v, j, p) => FALSE
    BY <1>2 DEF DispatchTick, AddJob, UpdateJob, CascadeDelete, NowReserves
  <1> QED BY <1>1, <1>3, TaskForms

LEMMA UpdatingInvStep ==
  ASSUME CronInv, GateInv, NotYet, UpdatingInv, [CronNext]_cronVars
  PROVE  UpdatingInv'
  <1> SUFFICES ASSUME NEW v \in Workers, NEW j \in Jobs, task'[v].run.job = j,
                      task'[v].pc \in {"updating", "installing"}
               PROVE  /\ task'[v].pc = "updating" => job'[j].rev = task'[v].row.rev
                      /\ task'[v].pc = "installing" =>
                           /\ task'[v].row.rev > 1
                           /\ job'[j].rev = task'[v].row.rev
                           /\ job'[j].next = task'[v].row.next
                           /\ job'[j].enabled => task'[v].row.enabled
    BY DEF UpdatingInv
  <1>1. CASE task'[v] = task[v]
    <2>1. RowHeld(j)
      BY <1>1, RowsHeld DEF HeldRows, GatePcs
    <2> QED BY <1>1, <2>1 DEF UpdatingInv, RowHeld
  <1>2. CASE task'[v].pc = "installing" /\ UpdateWrites(v)
    <2>1. task[v].pc = "updating" /\ task[v].run.job = j
      BY <1>2, UpdateWritesGoes DEF GoesTo, CronInv, UpdateWrites
    <2>2. Live(j) /\ job[j].rev = task[v].row.rev
      <3>1. CASE Return(v)
        BY <1>2, <3>1, ReturnFacts DEF CronInv
      <3> QED BY <1>2, <2>1, <3>1 DEF UpdateWrites
    <2>3. job'[j].rev = job[j].rev + 1 /\ task'[v].row = job'[j]
      BY <1>2, <2>1, <2>2, UpdateRows
    <2>4. job[j].rev \in Nat /\ job[j].rev >= 1
      BY <2>2, RowNat DEF CronInv, JobsTyped, RowsSane, Live
    <2> QED BY <1>2, <2>3, <2>4
  <1>3. ASSUME NEW k \in Jobs, UpdateJob(v, k), task'[v].pc = "updating"
        PROVE  job'[j].rev = task'[v].row.rev
    <2>1. Begun(v, "updating", Planned(k), job[k]) /\ job' = job
      BY <1>3, StartBegun DEF UpdateJob, CronInv, Planned
    <2>2. Planned(k).job = k
      BY DEF Planned, Occurrence
    <2> QED BY <2>1, <2>2 DEF Begun
  <1> QED BY <1>1, <1>2, <1>3, CommandForms

LEMMA CleaningGoneStep ==
  ASSUME CronInv, CleaningGone, [CronNext]_cronVars
  PROVE  CleaningGone'
  <1> SUFFICES ASSUME NEW v \in Workers, NEW j \in Jobs, task'[v].run.job = j,
                      task'[v].pc = "cleaning"
               PROVE  Dead(j)'
    BY DEF CleaningGone, Dead
  <1>1. CASE task'[v] = task[v]
    BY <1>1, RowsOnward DEF CleaningGone
  <1>2. ASSUME NEW k \in Jobs, CascadeDelete(v, k) PROVE Dead(j)'
    <2>1. Begun(v, "cleaning", Planned(k), job[k])
      BY <1>2, StartBegun DEF CascadeDelete, CronInv, Planned
    <2>2. Planned(k).job = k
      BY DEF Planned, Occurrence
    <2>3. job'[k].status = "cascaded"
      BY <1>2, DeleteRows DEF CascadeDelete
    <2> QED BY <2>1, <2>2, <2>3 DEF Begun, Dead
  <1> QED BY <1>1, <1>2, CommandForms

\* what starts a sweep
LEMMA SweepStarts ==
  ASSUME [CronNext]_cronVars, sweep.pc = "off"
  PROVE  sweep' = sweep \/ SystemResume \/ Crash
  <1>1. ASSUME NEW w \in Workers, WorkerStep(w) PROVE sweep' = sweep
    BY <1>1 DEF WorkerStep, TickEnters, TickReserves, TickVerifies, TickCommits,
       DuplicateSettles, Attaches, PrepareFails, Begins, Sends, SendRefused, SendUnproven,
       WaitObserves, Settles, Advances, UpdateWrites, Installs, CleansUp
  <1>2. ~SweepStep
    BY DEF SweepStep, SweepLists, SweepsJob, SweepMisses, SweepAdvances, SweepEnds,
           RecoverRun, RecoverEnds
  <1>3. CASE UserStep
    BY <1>3 DEF UserStep, AddJob, UpdateJob, CascadeDelete, NowReserves, RemoveJob
  <1> QED BY <1>1, <1>2, <1>3
          DEF CronNext, DispatchTick, TurnEnds, ClockTicks, cronVars

\* who installs a timer of the first revision while there is no sweep
LEMMA FirstTimer ==
  ASSUME CronInv, TimersInv, UpdatingInv, [CronNext]_cronVars, sweep.pc = "off",
         NEW j \in Jobs, timer'[j].rev = 1, timer[j].rev # 1
  PROVE  \/ \E w \in Workers :
              Installs(w) /\ task[w].pc = "adding" /\ task[w].run.job = j
         \/ \E o \in Scheduled : o.job = j /\ o.rev = 1 /\ run[o].status # "none"
                                 /\ job[j].rev = 1
  <1> DEFINE Goal ==
        \/ \E w \in Workers : Installs(w) /\ task[w].pc = "adding" /\ task[w].run.job = j
        \/ \E o \in Scheduled : o.job = j /\ o.rev = 1 /\ run[o].status # "none"
                                /\ job[j].rev = 1
  <1>0. timer'[j] # timer[j] /\ timer'[j] # NoTimer
    BY DEF NoTimer
  <1>1. ASSUME NEW js, CancelTimers(js) PROVE FALSE
    BY <1>0, <1>1 DEF CancelTimers
  <1>2. ASSUME NEW k \in Jobs, NEW row, ScheduleJob(k, row) PROVE j = k /\ row.rev = 1
    <2>1. j = k /\ timer'[j] = NewTimer(row)
      BY <1>0, <1>2, ScheduleEffect DEF CronInv
    <2> QED BY <2>1 DEF NewTimer
  <1>3. ASSUME NEW w \in Workers, WorkerStep(w) PROVE Goal
    <2>1. CASE TickEnters(w)
      <3>1. timer' = timer \/ timer' = [timer EXCEPT ![task[w].run.job] = NoTimer]
        BY <2>1 DEF TickEnters
      <3> QED BY <1>0, <3>1 DEF CronInv, TimersTyped
    <2>2. CASE Advances(w)
      <3>1. task[w].outcome # "unexecutable" /\ AdvanceAfter(task[w].run)
        BY <1>0, <2>2 DEF Advances
      <3>2. PICK o \in Scheduled : o = task[w].run
        BY <2>2, <3>1 DEF Advances, CronInv, TasksTyped, TaskSane
      <3>3. Advanceable(o) /\ ScheduleJob(o.job, AdvancedRow(o, now))
        BY <1>0, <3>1, <3>2 DEF AdvanceAfter
      <3>4. o.job = j /\ AdvancedRow(o, now).rev = 1
        BY <1>2, <3>3, RunsFacts
      <3>5. job[j].rev = 1
        BY <3>3, <3>4, AdvancedRowType, ClockNat DEF CronInv, Advanceable, Plans
      <3> QED BY <3>3, <3>4, <3>5 DEF Advanceable, Plans, Settled
    <2>3. CASE UpdateWrites(w)
      <3>1. PICK k \in Jobs : task[w].pc = "updating" /\ k = task[w].run.job
        BY <2>3, TaskJob DEF UpdateWrites
      <3>2. job[k].rev = task[w].row.rev
        BY <3>1 DEF UpdatingInv
      <3>3. timer' = timer \/ CancelTimers({k})
        BY <2>3, <3>1, <3>2 DEF UpdateWrites
      <3> QED BY <1>0, <1>1, <3>3
    <2>4. CASE Installs(w)
      <3>1. PICK k \in Jobs : task[w].pc \in {"adding", "installing"} /\ k = task[w].run.job
        BY <2>4, TaskJob DEF Installs
      <3>2. j = k /\ task[w].row.rev = 1
        BY <1>2, <2>4, <3>1 DEF Installs
      <3>3. task[w].pc # "installing"
        BY <3>1, <3>2 DEF UpdatingInv
      <3> QED BY <2>4, <3>1, <3>2, <3>3
    <2>5. CASE CleansUp(w)
      BY <1>0, <1>1, <2>5 DEF CleansUp
    <2>6. CASE \/ TickReserves(w) \/ TickVerifies(w) \/ TickCommits(w) \/ RunStep(w)
      BY <1>0, <2>6, RunStepGoes DEF TickReserves, TickVerifies, TickCommits, CronInv
    <2> QED BY <1>3, <2>1, <2>2, <2>3, <2>4, <2>5, <2>6 DEF WorkerStep, RunStep
  <1>4. ~SweepStep
    BY DEF SweepStep, SweepLists, SweepsJob, SweepMisses, SweepAdvances, SweepEnds,
           RecoverRun, RecoverEnds
  <1>5. ~UserStep
    BY <1>0, <1>1
    DEF UserStep, AddJob, UpdateJob, CascadeDelete, NowReserves, RemoveJob, SystemResume
  <1>6. ASSUME NEW k \in Jobs, NEW w \in Workers, DispatchTick(k, w) PROVE FALSE
    <2>1. timer'[j].rev = timer[j].rev
      BY <1>6, DispatchFacts
    <2> QED BY <2>1
  <1>7. CASE UNCHANGED cronVars \/ ClockTicks \/ Crash \/ (\E o \in Runs : TurnEnds(o))
    BY <1>0, <1>7 DEF cronVars, ClockTicks, TurnEnds, Crash
  <1> QED BY <1>3, <1>4, <1>5, <1>6, <1>7 DEF CronNext

LEMMA AddingInvStep ==
  ASSUME CronInv, ReceiptInv, TickInv, AddingInv, UpdatingInv, [CronNext]_cronVars,
         "resume_add" \notin Commands
  PROVE  AddingInv'
  <1> SUFFICES ASSUME NEW v \in Workers, NEW j \in Jobs, task'[v].pc = "adding",
                      task'[v].run.job = j
               PROVE  /\ sweep'.pc = "off"
                      /\ task'[v].row.rev = 1 /\ task'[v].row.enabled
                      /\ task'[v].row.next # NoTime
                      /\ timer'[j].rev # 1
                      /\ job'[j].rev = 1 => job'[j].next = task'[v].row.next
                      /\ \A o \in Scheduled : o.job = j /\ o.rev = 1 => run'[o].status = "none"
                      /\ \A u \in Workers :
                           task'[u].pc = "adding" /\ task'[u].run.job = j => u = v
    <2>1. Scheduled' = Scheduled /\ NoTime' = NoTime
      BY DEF Scheduled, NoTime
    <2> QED BY <2>1 DEF AddingInv
  <1>1. CASE task'[v] = task[v]
    <2>1. /\ sweep.pc = "off"
          /\ task[v].row.rev = 1 /\ task[v].row.enabled /\ task[v].row.next # NoTime
          /\ timer[j].rev # 1
          /\ job[j].rev = 1 => job[j].next = task[v].row.next
          /\ \A o \in Scheduled : o.job = j /\ o.rev = 1 => run[o].status = "none"
          /\ \A u \in Workers : task[u].pc = "adding" /\ task[u].run.job = j => u = v
      BY <1>1 DEF AddingInv
    <2>2. Present(j)
      BY <1>1 DEF TickInv, NotYet, Present
    <2>3. sweep' = sweep
      <3>1. ~SystemResume
        BY <1>1 DEF SystemResume, MayOverlap
      <3>2. ~Crash
        BY DEF Crash, NoTask
      <3> QED BY <2>1, <3>1, <3>2, SweepStarts
    <2>4. timer'[j].rev # 1
      <3>1. ASSUME NEW w \in Workers, Installs(w), task[w].pc = "adding",
                   task[w].run.job = j
            PROVE  FALSE
        <4>1. task'[w].pc = "idle" /\ w = v
          BY <2>1, <3>1, ReturnFacts DEF Installs, CronInv
        <4> QED BY <4>1
      <3> QED BY <2>1, <3>1, FirstTimer DEF TickInv
    <2>5. ASSUME job'[j].rev = 1 PROVE job'[j].next = task[v].row.next
      <3>1. CASE RowHeld(j)
        BY <2>1, <2>5, <3>1 DEF RowHeld
      <3>2. CASE RowAdvanced(j)
        <4>1. PICK o \in Scheduled : o.job = j /\ AdvanceAfter(o) /\ Advanceable(o)
          BY <3>2 DEF RowAdvanced
        <4>2. o.rev = 1
          BY <2>5, <4>1, AdvanceRows DEF Advanceable, Plans
        <4> QED BY <2>1, <4>1, <4>2 DEF Advanceable, Settled
      <3>3. CASE RowUpdated(j)
        <4>1. job'[j].rev = job[j].rev + 1 /\ Live(j)
          BY <3>3, UpdateRows DEF RowUpdated
        <4>2. job[j].rev \in Nat /\ job[j].rev >= 1
          BY <4>1, RowNat DEF CronInv, JobsTyped, RowsSane, Live
        <4> QED BY <2>5, <4>1, <4>2
      <3>4. CASE RowAdded(j)
        BY <2>2, <3>4, AddRows DEF RowAdded
      <3> QED BY <3>1, <3>2, <3>3, <3>4, RowForms
    <2>6. ASSUME NEW o \in Scheduled, o.job = j, o.rev = 1 PROVE run'[o].status = "none"
      <3>1. ~Reserving(o)
        <4>1. ASSUME NEW w \in Workers, task[w].pc = "claiming", task[w].run = o, w \notin revoked
              PROVE  FALSE
          BY <2>1, <2>6, <4>1 DEF TickInv, TimersInv, TickTimer, TickPcs
        <4> QED BY <2>1, <4>1 DEF Reserving
      <3> QED BY <2>1, <2>6, <3>1, ReserveForms DEF TickInv
    <2>7. ASSUME NEW u \in Workers, task'[u].pc = "adding", task'[u].run.job = j PROVE u = v
      <3>1. CASE task'[u] = task[u]
        BY <2>1, <2>7, <3>1
      <3>2. ASSUME NEW k \in Jobs, AddJob(u, k) PROVE FALSE
        <4>1. /\ ~Present(k) /\ Begun(u, "adding", Occurrence(k, 1, job'[k].next), job'[k])
          BY <3>2, AddRows
        <4>2. Occurrence(k, 1, job'[k].next).job = k
          BY DEF Occurrence
        <4> QED BY <2>2, <2>7, <4>1, <4>2 DEF Begun
      <3> QED BY <2>7, <3>1, <3>2, CommandForms
    <2> QED BY <1>1, <2>1, <2>3, <2>4, <2>5, <2>6, <2>7
  <1>2. ASSUME NEW k \in Jobs, AddJob(v, k) PROVE
                      /\ sweep'.pc = "off"
                      /\ task'[v].row.rev = 1 /\ task'[v].row.enabled
                      /\ task'[v].row.next # NoTime
                      /\ timer'[j].rev # 1
                      /\ job'[j].rev = 1 => job'[j].next = task'[v].row.next
                      /\ \A o \in Scheduled : o.job = j /\ o.rev = 1 => run'[o].status = "none"
                      /\ \A u \in Workers :
                           task'[u].pc = "adding" /\ task'[u].run.job = j => u = v
    <2>1. /\ ~Present(k) /\ Begun(v, "adding", Occurrence(k, 1, job'[k].next), job'[k])
          /\ job'[k].rev = 1 /\ job'[k].enabled /\ job'[k].next # NoTime
          /\ UNCHANGED <<run, timer, sweep>> /\ MayOverlap(TRUE, sweep.pc # "off")
      BY <1>2, AddRows
    <2>2. Occurrence(k, 1, job'[k].next).job = k
      BY DEF Occurrence
    <2>3. j = k /\ task'[v].row = job'[k] /\ Others(v)
      BY <2>1, <2>2 DEF Begun
    <2>4. sweep'.pc = "off"
      BY <2>1 DEF MayOverlap
    <2>5. timer'[j] = NoTimer /\ \A u \in Workers : task[u].pc # "idle" => task[u].run.job # j
      BY <2>1, <2>3 DEF TickInv, NotYet, Present
    <2>6. ASSUME NEW o \in Scheduled, o.job = j PROVE run'[o].status = "none"
      <3>1. ~Live(j)
        BY <2>1, <2>3 DEF Present, Live
      <3> QED BY <2>1, <2>6, <3>1 DEF ReceiptInv, RunInv, OwnerHolds
    <2>7. ASSUME NEW u \in Workers, task'[u].pc = "adding", task'[u].run.job = j PROVE u = v
      BY <2>3, <2>5, <2>7 DEF Others
    <2> QED BY <2>1, <2>3, <2>4, <2>5, <2>6, <2>7 DEF NoTimer
  <1> QED BY <1>1, <1>2, CommandForms

-----------------------------------------------------------------------------
(* A reservation that was revoked waits for the sweep.                     *)

LEMMA SweepKeeps ==
  ASSUME CronInv, [CronNext]_cronVars
  PROVE  sweep' = sweep \/ SweepStep \/ SystemResume \/ Crash
  <1>1. ASSUME NEW w \in Workers, WorkerStep(w) PROVE sweep' = sweep
    BY <1>1 DEF WorkerStep, TickEnters, TickReserves, TickVerifies, TickCommits,
       DuplicateSettles, Attaches, PrepareFails, Begins, Sends, SendRefused, SendUnproven,
       WaitObserves, Settles, Advances, UpdateWrites, Installs, CleansUp
  <1>3. CASE UserStep
    BY <1>3 DEF UserStep, AddJob, UpdateJob, CascadeDelete, NowReserves, RemoveJob
  <1> QED BY <1>1, <1>3
          DEF CronNext, DispatchTick, TurnEnds, ClockTicks, cronVars

LEMMA WaitingStays ==
  ASSUME CronInv, [CronNext]_cronVars, NEW j \in Jobs, Waiting(j)
  PROVE  \/ Waiting(j)'
         \/ SweepsJob(j)
         \/ SweepLists /\ ~(Live(j) /\ job[j].enabled)
  <1>0. sweep \in Sweep
    BY DEF CronInv, SweepTyped
  <1>1. CASE sweep' = sweep
    BY <1>1 DEF Waiting
  <1>2. CASE SystemResume \/ Crash
    <2>1. sweep'.pc \in {"listing", "recovering"}
      BY <1>0, <1>2 DEF SystemResume, Crash, Sweep, NoSweep
    <2> QED BY <2>1 DEF Waiting
  <1>3. CASE SweepStep
    <2>1. CASE SweepLists
      <3>1. /\ sweep'.pc = "sweeping"
            /\ sweep'.todo = {k \in Jobs : Live(k) /\ job[k].enabled}
        BY <1>0, <2>1 DEF SweepLists, Sweep
      <3> QED BY <2>1, <3>1 DEF Waiting
    <2>2. CASE SweepMisses
      <3>1. sweep.pc = "missed" /\ sweep'.pc \in {"passed", "sweeping"} /\ sweep'.todo = sweep.todo
        BY <1>0, <2>2 DEF SweepMisses, Sweep
      <3> QED BY <3>1 DEF Waiting
    <2>3. CASE SweepAdvances
      <3>1. /\ sweep'.todo = sweep.todo
            /\ sweep.pc = "passed" => sweep'.pc = "sweeping"
            /\ sweep.pc # "passed" => sweep'.pc = "recovering"
        BY <1>0, <2>3 DEF SweepAdvances, Sweep
      <3> QED BY <3>1 DEF Waiting
    <2>4. CASE SweepEnds
      BY <2>4 DEF SweepEnds, Waiting
    <2>5. CASE RecoverEnds
      <3>1. sweep'.pc = "listing"
        BY <1>0, <2>5 DEF RecoverEnds, Sweep
      <3> QED BY <3>1 DEF Waiting
    <2>6. ASSUME NEW o \in Runs, RecoverRun(o) PROVE Waiting(j)'
      <3>1. \/ sweep' = sweep
            \/ sweep' = [sweep EXCEPT !.runs = @ \ {o}]
            \/ sweep' = [[sweep EXCEPT !.runs = @ \ {o}] EXCEPT !.pc = "recovered", !.run = o]
        BY <2>6 DEF RecoverRun
      <3>2. sweep'.pc \in {"recovering", "recovered"}
        BY <1>0, <2>6, <3>1 DEF RecoverRun, Sweep
      <3> QED BY <3>2 DEF Waiting
    <2>7. ASSUME NEW k \in Jobs, k # j, SweepsJob(k) PROVE Waiting(j)'
      <3> DEFINE o == Planned(k)
      <3>1. \/ sweep' = [sweep EXCEPT !.todo = @ \ {k}]
            \/ sweep' = [[sweep EXCEPT !.todo = @ \ {k}] EXCEPT !.pc = "missed", !.run = o]
        BY <2>7 DEF SweepsJob, Planned
      <3> HIDE DEF o
      <3>2. sweep'.pc \in {"sweeping", "missed"} /\ sweep'.todo = sweep.todo \ {k}
            /\ sweep.pc = "sweeping"
        BY <1>0, <2>7, <3>1 DEF SweepsJob, Sweep
      <3> QED BY <2>7, <3>2 DEF Waiting
    <2> QED BY <1>3, <2>1, <2>2, <2>3, <2>4, <2>5, <2>6, <2>7 DEF SweepStep
  <1> QED BY <1>1, <1>2, <1>3, SweepKeeps

\* who revokes a callback that holds the gate of its job
LEMMA RevokedNew ==
  ASSUME CronInv, TickInv, AddingInv, CleaningGone, [CronNext]_cronVars,
         NEW v \in Workers, task'[v] = task[v], task[v].pc \in {"reserved", "verified"},
         v \notin revoked, v \in revoked', NEW j \in Jobs, task[v].run.job = j
  PROVE  Waiting(j)' \/ ~Live(j)'
  <1>0. task[v].pc \in GatePcs /\ task[v].pc \in TickPcs /\ revoked' # revoked
    BY DEF GatePcs, TickPcs
  <1>1. ASSUME NEW js, CancelTimers(js) PROVE j \in js
    BY <1>1 DEF CancelTimers, TicksOf
  <1>2. ASSUME NEW k \in Jobs, NEW row, ScheduleJob(k, row) PROVE k = j
    BY <1>2, ScheduleEffect DEF TicksOf, CronInv
  <1>3. ASSUME NEW k \in Jobs, GateFree(k) PROVE k # j
    BY <1>0, <1>3 DEF GateFree
  <1>4. ASSUME NEW w \in Workers, task[w].pc \in GatePcs \ {"reserved", "verified"}
        PROVE  task[w].run.job # j
    <2>1. v # w
      BY <1>4
    <2> QED BY <1>0, <1>4, <2>1 DEF TickInv, GateInv
  <1>5. ASSUME NEW w \in Workers, WorkerStep(w) PROVE ~Live(j)'
    <2>1. CASE TickEnters(w)
      <3>1. PICK k \in Jobs : task[w].pc = "tick" /\ k = task[w].run.job
        BY <2>1, TaskJob DEF TickEnters
      <3>2. GateFree(k)
        BY <2>1, <3>1 DEF TickEnters
      <3>3. revoked' \subseteq revoked \cup TicksOf({k})
        <4>1. CASE Absorbed(w) \/ UNCHANGED revoked
          BY <4>1 DEF Absorbed
        <4>2. CASE revoked' = (revoked \cup TicksOf({k})) \ {w}
          BY <4>2
        <4> QED BY <2>1, <3>1, <4>1, <4>2 DEF TickEnters
      <3> QED BY <1>3, <3>2, <3>3 DEF TicksOf
    <2>2. CASE Advances(w)
      <3>1. task[w].outcome # "unexecutable" /\ AdvanceAfter(task[w].run)
            /\ task[w].pc = "advancing"
        BY <1>0, <2>2 DEF Advances
      <3>2. PICK o \in Scheduled : o = task[w].run
        BY <2>2, <3>1 DEF Advances, CronInv, TasksTyped, TaskSane
      <3>3. ScheduleJob(o.job, AdvancedRow(o, now))
        BY <1>0, <3>1, <3>2 DEF AdvanceAfter
      <3> QED BY <1>2, <1>4, <3>1, <3>2, <3>3, RunsFacts DEF GatePcs
    <2>3. CASE UpdateWrites(w)
      <3>1. PICK k \in Jobs : task[w].pc = "updating" /\ k = task[w].run.job
        BY <2>3, TaskJob DEF UpdateWrites
      <3>2. CancelTimers({k}) \/ ScheduleJob(k, job[k])
        BY <1>0, <2>3, <3>1 DEF UpdateWrites
      <3> QED BY <1>1, <1>2, <1>4, <3>1, <3>2 DEF GatePcs
    <2>4. CASE Installs(w)
      <3>1. PICK k \in Jobs : task[w].pc \in {"adding", "installing"} /\ k = task[w].run.job
        BY <2>4, TaskJob DEF Installs
      <3>2. k = j /\ ScheduleJob(j, task[w].row)
        BY <1>2, <2>4, <3>1 DEF Installs
      <3>3. task[w].pc = "adding"
        BY <1>4, <3>1, <3>2 DEF GatePcs
      <3>4. task[w].row.rev = 1 /\ task[w].row.enabled /\ task[w].row.next # NoTime
            /\ timer[j].rev # 1
        <4>1. task[w].run.job = j
          BY <3>1, <3>2
        <4> QED BY <3>3, <4>1 DEF AddingInv
      <3>5. timer[j].rev = task[v].run.rev /\ task[v].run \in Scheduled
        BY <1>0 DEF TickInv, TimersInv, TickTimer, TicksScheduled
      <3>6. Newer(j, task[w].row)
        BY <1>0, <3>2, <3>4 DEF ScheduleJob
      <3> QED BY <3>4, <3>5, <3>6, RunNat DEF Newer
    <2>5. CASE CleansUp(w)
      <3>1. PICK k \in Jobs : task[w].pc = "cleaning" /\ k = task[w].run.job
        BY <2>5, TaskJob DEF CleansUp
      <3>2. k = j /\ job' = job
        BY <1>0, <1>1, <2>5, <3>1 DEF CleansUp
      <3> QED BY <3>1, <3>2 DEF CleaningGone, Dead, Live
    <2>6. CASE \/ TickReserves(w) \/ TickVerifies(w) \/ TickCommits(w) \/ RunStep(w)
      <3>1. revoked' \subseteq revoked
        BY <2>6, RunStepGoes DEF TickReserves, TickVerifies, TickCommits, Absorbed, CronInv
      <3> QED BY <3>1
    <2> QED BY <1>5, <2>1, <2>2, <2>3, <2>4, <2>5, <2>6 DEF WorkerStep, RunStep
  <1>6. CASE SweepStep
    <2>0. sweep \in Sweep
      BY DEF CronInv, SweepTyped
    <2>1. CASE SweepAdvances
      <3>1. sweep.run \in Scheduled /\ AdvanceAfter(sweep.run) /\ sweep.pc \in SweepGates
        BY <2>1 DEF SweepAdvances, CronInv, SweepTyped, SweepGates
      <3>2. ScheduleJob(sweep.run.job, AdvancedRow(sweep.run, now))
        BY <1>0, <3>1 DEF AdvanceAfter
      <3>3. sweep.run.job = j
        BY <1>2, <3>1, <3>2, RunsFacts
      <3> QED BY <1>0, <3>1, <3>3 DEF TickInv, GateInv
    <2>2. ASSUME NEW k \in Jobs, SweepsJob(k) PROVE FALSE
      <3>1. k # j
        BY <1>3, <2>2 DEF SweepsJob
      <3>2. CASE ScheduleJob(k, job[k])
        BY <1>2, <3>1, <3>2
      <3>3. CASE Live(k) /\ AdvanceAfter(Planned(k))
        <4>1. Planned(k).job = k
          BY DEF Planned, Occurrence
        <4>2. ScheduleJob(k, AdvancedRow(Planned(k), now))
          BY <1>0, <3>3, <4>1 DEF AdvanceAfter
        <4> QED BY <1>2, <3>1, <4>2
      <3> QED BY <1>0, <2>2, <3>2, <3>3 DEF SweepsJob, Planned
    <2>3. CASE RecoverEnds
      <3>1. sweep'.pc = "listing"
        BY <2>0, <2>3 DEF RecoverEnds, Sweep
      <3> QED BY <3>1 DEF Waiting
    <2> QED BY <1>0, <1>6, <2>1, <2>2, <2>3
            DEF SweepStep, SweepLists, SweepMisses, SweepEnds, RecoverRun
  <1>7. CASE UserStep
    <2>1. ASSUME NEW w \in Workers, NEW k \in Jobs, UpdateJob(w, k) PROVE FALSE
      BY <1>1, <1>3, <2>1 DEF UpdateJob
    <2>2. ASSUME NEW k \in Jobs, RemoveJob(k) PROVE ~Live(j)'
      <3>1. k = j /\ DeleteJob(k, "removed")
        BY <1>1, <2>2 DEF RemoveJob
      <3>2. job'[j].status = "removed"
        BY <3>1, DeleteRows
      <3> QED BY <3>2 DEF Live
    <2>3. CASE SystemResume
      <3>1. sweep'.pc = "listing"
        BY <2>3 DEF SystemResume, CronInv, SweepTyped, Sweep
      <3> QED BY <3>1 DEF Waiting
    <2> QED BY <1>0, <1>7, <2>1, <2>2, <2>3 DEF UserStep, AddJob, CascadeDelete, NowReserves
  <1>8. CASE Crash
    BY <1>8 DEF Crash
  <1> QED BY <1>0, <1>5, <1>6, <1>7, <1>8
          DEF CronNext, DispatchTick, TurnEnds, ClockTicks, cronVars

LEMMA RevokedWaitsStep ==
  ASSUME CronInv, TickInv, AddingInv, CleaningGone, RevokedWaits, [CronNext]_cronVars
  PROVE  RevokedWaits'
  <1> SUFFICES ASSUME NEW v \in Workers, task'[v].pc \in {"reserved", "verified"},
                      v \in revoked', Plans(task[v].run)'
               PROVE  Waiting(task[v].run.job)'
    BY DEF RevokedWaits
  <1>0. PICK j \in Jobs : j = task'[v].run.job
    <2>1. CronInv'
      BY CronStepType
    <2> QED BY <2>1, TaskFields DEF CronInv, TasksTyped
  <1>1. CASE task'[v] = task[v]
    <2>1. RowHeld(j) /\ task[v].run.job = j
      BY <1>0, <1>1, RowsHeld DEF HeldRows, GatePcs, TickInv
    <2>2. Live(j)' /\ Plans(task[v].run)
      BY <1>0, <1>1, <2>1 DEF Plans, RowHeld, Live
    <2>3. ASSUME v \in revoked PROVE Waiting(j)'
      <3>1. Waiting(j)
        BY <1>1, <2>1, <2>2, <2>3 DEF RevokedWaits
      <3>2. ~SweepsJob(j)
        BY <1>1, <2>1 DEF SweepsJob, GateFree, GatePcs
      <3>3. Live(j) /\ job[j].enabled
        BY <2>1, <2>2 DEF Plans
      <3> QED BY <3>1, <3>2, <3>3, WaitingStays
    <2>4. Waiting(j)'
      BY <1>1, <2>1, <2>2, <2>3, RevokedNew
    <2> QED BY <1>0, <2>4 DEF Waiting
  <1>2. CASE task'[v] # task[v]
    <2>1. TickReserves(v) \/ TickVerifies(v)
      <3>1. ASSUME NEW pc, NEW o, NEW row, Start(v, pc, o, row),
                   pc \notin {"reserved", "verified"}
            PROVE  FALSE
        BY <3>1, StartBegun DEF Begun, CronInv
      <3>2. ASSUME NEW k \in Jobs
            PROVE  /\ ~DispatchTick(k, v) /\ ~AddJob(v, k) /\ ~UpdateJob(v, k)
                   /\ ~CascadeDelete(v, k) /\ \A p \in Ops : ~NowReserves(v, k, p)
        <4>1. ~DispatchTick(k, v) /\ ~UpdateJob(v, k) /\ ~CascadeDelete(v, k)
          BY <3>1 DEF DispatchTick, UpdateJob, CascadeDelete
        <4>2. ~AddJob(v, k)
          BY AddRows DEF Begun
        <4>3. \A p \in Ops : ~NowReserves(v, k, p)
          BY <3>1 DEF NowReserves
        <4> QED BY <4>1, <4>2, <4>3
      <3>3. WorkerStep(v)
        BY <1>2, <3>2, TaskForms, Zenon
      <3>4. ~RunStep(v)
        BY RunStepGoes DEF GoesOn, GoesTo, RunPcs, CronInv
      <3> QED BY <3>3, <3>4, RunGoes, TickEntersGoes, UpdateWritesGoes
              DEF WorkerStep, RunStep, GoesOn, GoesTo, CronInv
    <2>2. ~Absorbed(v)
      BY ReturnFacts DEF Absorbed, CronInv
    <2>3. v \notin revoked'
      BY <2>1, <2>2 DEF TickReserves, TickVerifies, Current
    <2> QED BY <2>3
  <1> QED BY <1>1, <1>2

-----------------------------------------------------------------------------
(* Somebody has the planned occurrence of every job in hand.               *)

Pending(j) == TimerSet(j) \/ Called(j) \/ Installing(j)
Spares(j) ==
  /\ SameRun(Planned(j))
  /\ Waiting(j) => Waiting(j)'
  /\ run[Planned(j)].status = "none" /\ Pending(j) => Pending(j)'
  /\ run[Planned(j)].status \in Settled /\ Closing(j) => Closing(j)'

LEMMA SamePlan ==
  ASSUME NEW j \in Jobs, RowHeld(j)
  PROVE  Planned(j)' = Planned(j)
  BY DEF RowHeld, Planned, Occurrence

LEMMA PlannedFacts ==
  ASSUME CronInv, NEW j \in Jobs
  PROVE  /\ Planned(j).job = j /\ Planned(j).rev = job[j].rev /\ Planned(j).at = job[j].next
         /\ Live(j) => Planned(j) \in Scheduled /\ Planned(j) \in Runs
         /\ Live(j) /\ job[j].enabled => Plans(Planned(j))
  <1>1. Planned(j).job = j /\ Planned(j).rev = job[j].rev /\ Planned(j).at = job[j].next
    BY DEF Planned, Occurrence
  <1>2. Live(j) => Planned(j) \in Scheduled
    BY PlannedType DEF CronInv, Live, Planned
  <1> QED BY <1>1, <1>2, RunsFacts DEF Plans

\* the occurrence that the row plans is known by its fields
LEMMA PlannedIs ==
  ASSUME NEW j \in Jobs, NEW o \in Scheduled, o.job = j, o.rev = job[j].rev,
         o.at = job[j].next
  PROVE  o = Planned(j)
  BY DEF Planned, Occurrence, Scheduled

LEMMA SparedSecured ==
  ASSUME NEW j \in Jobs, RowHeld(j), SecuredIfOn(j),
         Live(j) /\ job[j].enabled => Spares(j)
  PROVE  SecuredIfOn(j)'
  <1> SUFFICES ASSUME Live(j)', job'[j].enabled
               PROVE  \/ Waiting(j)'
                      \/ run'[Planned(j)'].status = "none" /\ Pending(j)'
                      \/ run'[Planned(j)'].status = "reserved"
                      \/ run'[Planned(j)'].status \in Settled /\ Closing(j)'
    BY DEF SecuredIfOn, Secured, Pending, Settled
  <1>1. Live(j) /\ job[j].enabled
    BY DEF RowHeld
  <1>2. \/ Waiting(j)
        \/ run[Planned(j)].status = "none" /\ Pending(j)
        \/ run[Planned(j)].status = "reserved"
        \/ run[Planned(j)].status \in Settled /\ Closing(j)
    BY <1>1 DEF SecuredIfOn, Secured, Pending
  <1>3. Planned(j)' = Planned(j)
    BY SamePlan
  <1> QED BY <1>1, <1>2, <1>3 DEF Spares, SameRun

\* the tasks that have the planned occurrence in hand
Minds(v, j) ==
  \/ task[v].pc \in {"tick", "claiming"} /\ task[v].run = Planned(j) /\ v \notin revoked
  \/ task[v].pc \in {"updating", "installing"} /\ task[v].run.job = j
  \/ task[v].pc = "adding" /\ task[v].run.job = j /\ job[j].rev = 1
Closes(v, j) == task[v].pc = "advancing" /\ task[v].run = Planned(j)

\* a step that leaves the job's timer, callbacks and tasks alone
CoverPcs == {"tick", "claiming", "updating", "installing", "adding", "advancing"}
TasksSpared(j) ==
  \A v \in Workers : Minds(v, j) \/ Closes(v, j) => task'[v] = task[v]
TicksSpared(j) ==
  \A v \in Workers :
    task[v].pc \in {"tick", "claiming"} /\ task[v].run.job = j /\ v \notin revoked =>
      v \notin revoked'
SweepSpared(j) ==
  /\ Waiting(j) => Waiting(j)'
  /\ sweep.pc = "passed" /\ sweep.run.job = j => sweep'.pc = "passed" /\ sweep'.run = sweep.run

LEMMA MindsSpared ==
  ASSUME CronInv, NEW j \in Jobs, RowHeld(j), TicksSpared(j), NEW w \in Workers,
         Minds(w, j), task'[w] = task[w]
  PROVE  Pending(j)'
  <1>1. Planned(j)' = Planned(j) /\ Planned(j).job = j /\ job'[j].rev = job[j].rev
    BY SamePlan, PlannedFacts DEF RowHeld
  <1>2. CASE task[w].pc \in {"tick", "claiming"} /\ task[w].run = Planned(j) /\ w \notin revoked
    <2>1. w \notin revoked'
      BY <1>1, <1>2 DEF TicksSpared
    <2>2. Called(j)'
      BY <1>1, <1>2, <2>1 DEF Called
    <2> QED BY <2>2 DEF Pending
  <1>3. CASE \/ task[w].pc \in {"updating", "installing"} /\ task[w].run.job = j
             \/ task[w].pc = "adding" /\ task[w].run.job = j /\ job[j].rev = 1
    <2>1. Installing(j)'
      BY <1>1, <1>3 DEF Installing
    <2> QED BY <2>1 DEF Pending
  <1> QED BY <1>2, <1>3 DEF Minds

LEMMA PendingForms ==
  ASSUME NEW j \in Jobs, Pending(j)
  PROVE  TimerSet(j) \/ \E w \in Workers : Minds(w, j)
  BY DEF Pending, Called, Installing, Minds

LEMMA TimerSpared ==
  ASSUME NEW j \in Jobs, RowHeld(j), timer'[j] = timer[j], TimerSet(j)
  PROVE  Pending(j)'
  BY DEF Pending, TimerSet, RowHeld

LEMMA PendingSpared ==
  ASSUME CronInv, NEW j \in Jobs, RowHeld(j), timer'[j] = timer[j], TicksSpared(j),
         \A v \in Workers : Minds(v, j) => task'[v] = task[v], Pending(j)
  PROVE  Pending(j)'
  BY PendingForms, TimerSpared, MindsSpared

LEMMA ClosingSpared ==
  ASSUME CronInv, NEW j \in Jobs, RowHeld(j), SweepSpared(j),
         \A v \in Workers : Closes(v, j) => task'[v] = task[v], Closing(j)
  PROVE  Closing(j)'
  <1>1. Planned(j)' = Planned(j) /\ Planned(j).job = j
    BY SamePlan, PlannedFacts
  <1>2. ASSUME NEW w \in Workers, task[w].pc = "advancing", task[w].run = Planned(j)
        PROVE  Closing(j)'
    <2>1. task'[w] = task[w]
      BY <1>1, <1>2 DEF Closes
    <2> QED BY <1>1, <1>2, <2>1 DEF Closing
  <1>3. ASSUME sweep.pc = "passed", sweep.run = Planned(j) PROVE Closing(j)'
    BY <1>1, <1>3 DEF SweepSpared, Closing
  <1> QED BY <1>2, <1>3 DEF Closing

LEMMA Bystander ==
  ASSUME CronInv, NEW j \in Jobs, SecuredIfOn(j), RowHeld(j), timer'[j] = timer[j],
         TasksSpared(j), TicksSpared(j), SweepSpared(j), Live(j) => SameRun(Planned(j))
  PROVE  SecuredIfOn(j)'
  BY SparedSecured, PendingSpared, ClosingSpared DEF Spares, SweepSpared, TasksSpared

\* the step of a task that does not have the job's occurrence in hand
LEMMA LeavesSpared ==
  ASSUME NEW w \in Workers, Others(w), NEW j, ~Minds(w, j), ~Closes(w, j)
  PROVE  TasksSpared(j)
  BY DEF Others, TasksSpared

LEMMA MindsOwn ==
  ASSUME CronInv, NEW w \in Workers, NEW j \in Jobs, Minds(w, j) \/ Closes(w, j)
  PROVE  task[w].run.job = j /\ task[w].pc \in CoverPcs
  BY PlannedFacts DEF Minds, Closes, CoverPcs

LEMMA GoesSpares ==
  ASSUME CronInv, NEW w \in Workers, NEW from, NEW to, GoesTo(w, from, to), NEW j \in Jobs,
         task[w].run.job # j \/ from \cap CoverPcs = {}
  PROVE  TasksSpared(j)
  BY LeavesSpared, MindsOwn DEF GoesTo

LEMMA BegunSpares ==
  ASSUME NEW w \in Workers, NEW pc, NEW o, NEW row, Begun(w, pc, o, row), NEW j
  PROVE  TasksSpared(j)
  BY LeavesSpared DEF Begun, Minds, Closes

LEMMA SweepSame ==
  ASSUME sweep' = sweep, NEW j
  PROVE  SweepSpared(j)
  BY DEF SweepSpared, Waiting

LEMMA ScheduleSpares ==
  ASSUME CronInv, NEW k \in Jobs, NEW row, ScheduleJob(k, row), NEW j \in Jobs, j # k
  PROVE  timer'[j] = timer[j] /\ TicksSpared(j)
  BY ScheduleEffect DEF CronInv, TicksSpared, TicksOf

LEMMA CancelSpares ==
  ASSUME NEW k \in Jobs, CancelTimers({k}), NEW j \in Jobs, j # k
  PROVE  timer'[j] = timer[j] /\ TicksSpared(j)
  BY DEF CancelTimers, TicksSpared, TicksOf

LEMMA AdvanceSpares ==
  ASSUME CronInv, NEW o \in Scheduled, AdvanceAfter(o), NEW j \in Jobs,
         j # o.job \/ ~Advanceable(o)
  PROVE  RowHeld(j) /\ timer'[j] = timer[j] /\ TicksSpared(j)
  <1>1. CASE ~Advanceable(o)
    BY <1>1, RowSame DEF AdvanceAfter, TicksSpared
  <1>2. CASE Advanceable(o)
    <2>1. job'[j] = job[j] /\ ScheduleJob(o.job, AdvancedRow(o, now)) /\ o.job \in Jobs
      BY <1>2, AdvanceRows, RunsFacts DEF AdvanceAfter
    <2> QED BY <1>2, <2>1, RowSame, ScheduleSpares
  <1> QED BY <1>1, <1>2

\* a run that is not the planned one is settled
LEMMA OtherRunSame ==
  ASSUME CronInv, NEW r \in Runs, NEW s, Finalize(r, s), NEW j \in Jobs, Live(j),
         r # Planned(j)
  PROVE  SameRun(Planned(j))
  BY FinalizeFacts, PlannedFacts DEF CronInv

LEMMA QuietRun ==
  ASSUME CronInv, ReceiptInv, NEW w \in Workers, RunStep(w), NEW j \in Jobs,
         Settles(w) => task[w].run # Planned(j)
  PROVE  RowHeld(j) /\ (Live(j) => SameRun(Planned(j)))
  <1>0. task[w].pc # "idle" => task[w].run \in Runs
    BY TaskJob
  <1>1. CASE DuplicateSettles(w)
    <2>1. task[w].run \notin Scheduled
      BY <1>1 DEF DuplicateSettles, ReceiptInv, DuplicatesRequested
    <2> QED BY <1>0, <1>1, <2>1, RowSame, OtherRunSame, PlannedFacts DEF DuplicateSettles
  <1>2. CASE Attaches(w)
    <2>1. Live(j) => SameRun(Planned(j))
      BY <1>2, PlannedFacts DEF Attaches, Attach, SameRun, CronInv, RunsTyped, RunRow
    <2> QED BY <1>2, <2>1, RowSame DEF Attaches
  <1>3. CASE PrepareFails(w)
    <2>0. task[w].pc = "admitted"
      BY <1>3 DEF PrepareFails
    <2>1. CASE UNCHANGED <<job, run>>
      BY <2>1, RowSame DEF SameRun
    <2>2. CASE task[w].run \notin Scheduled /\ Finalize(task[w].run, "error")
      <3>1. Live(j) => SameRun(Planned(j))
        BY <1>0, <2>0, <2>2, OtherRunSame, PlannedFacts
      <3>2. CASE Disabled(w)
        BY <2>0, <3>1, <3>2, DisabledHolds
      <3>3. CASE job' = job
        BY <3>1, <3>3, RowSame
      <3> QED BY <1>3, <2>2, <3>2, <3>3 DEF PrepareFails
    <2> QED BY <1>3, <2>1, <2>2 DEF PrepareFails
  <1>4. CASE Begins(w) \/ Sends(w) \/ SendRefused(w) \/ SendUnproven(w) \/ WaitObserves(w)
    <2>1. UNCHANGED <<job, run>>
      BY <1>4 DEF Begins, Sends, SendRefused, SendUnproven, WaitObserves
    <2> QED BY <2>1, RowSame DEF SameRun
  <1>5. CASE Settles(w)
    BY <1>0, <1>5, RowSame, OtherRunSame DEF Settles
  <1> QED BY <1>1, <1>2, <1>3, <1>4, <1>5 DEF RunStep

LEMMA RunStepSecured ==
  ASSUME CronInv, ReceiptInv, NEW w \in Workers, RunStep(w), NEW j \in Jobs, SecuredIfOn(j)
  PROVE  SecuredIfOn(j)'
  <1>0. /\ GoesOn(w, RunPcs, (RunPcs \ {"duplicate", "admitted"}) \cup {"advancing"})
        /\ UNCHANGED <<timer, revoked, sweep>>
    BY RunStepGoes DEF CronInv
  <1>1. TasksSpared(j) /\ TicksSpared(j) /\ SweepSpared(j)
    <2>1. RunPcs \cap CoverPcs = {}
      BY DEF RunPcs, CoverPcs
    <2> QED BY <1>0, <2>1, GoesSpares, SweepSame DEF GoesOn, TicksSpared
  <1>2. CASE Settles(w) => task[w].run # Planned(j)
    BY <1>0, <1>1, <1>2, QuietRun, Bystander
  <1>3. CASE Settles(w) /\ task[w].run = Planned(j)
    <2> DEFINE o == task[w].run
    <2>1. RowHeld(j) /\ job' = job /\ task[w].pc = "result"
      BY <1>3, RowSame DEF Settles
    <2> SUFFICES ASSUME Live(j), job[j].enabled PROVE Secured(j)'
      BY <2>1 DEF SecuredIfOn, Live
    <2>2. o \in Scheduled /\ o \in Runs /\ o.job = j
      BY <1>3, PlannedFacts
    <2>3. CASE ~Finalizable(o)
      <3>1. SameRun(o)
        BY <1>3, <2>2, <2>3, FinalizeFacts DEF Settles, SameRun, CronInv
      <3> QED BY <1>0, <1>1, <1>3, <2>1, <3>1, Bystander DEF SecuredIfOn, Live
    <2>4. CASE Finalizable(o)
      <3>1. task[w].outcome \in {"ok", "error", "unexecutable", "skipped"}
        BY <2>1, <2>2 DEF ReceiptInv, RunInv, ReportTrue, Owns, OwnPcs
      <3>2. run'[o].status \in Settled
        BY <1>3, <2>2, <2>4, <3>1, FinalizeFacts DEF Settles, SettledAs, Settled, CronInv
      <3>3. Goto(w, "advancing")
        BY <1>3, <2>2, <2>4 DEF Settles
      <3>4. task'[w].pc = "advancing" /\ task'[w].run = o
        BY <2>1, <3>3, GotoFacts DEF CronInv
      <3>5. Planned(j)' = o
        BY <1>3, <2>1, SamePlan
      <3> QED BY <3>2, <3>4, <3>5 DEF Secured, Closing, Settled
    <2> QED BY <2>3, <2>4
  <1> QED BY <1>2, <1>3

LEMMA PlannedNext ==
  ASSUME CronInv', NEW j \in Jobs, Live(j)'
  PROVE  /\ Planned(j)' \in Scheduled
         /\ (Planned(j)').job = j /\ (Planned(j)').rev = job'[j].rev
         /\ (Planned(j)').at = job'[j].next
  <1>1. /\ job'[j].rev \in 0 .. MaxRevisions /\ job'[j].next \in Times
        /\ job'[j].rev >= 1 /\ MaxRevisions \in Nat
    BY CronAssumption DEF CronInv, JobsTyped, JobRow, RowsSane, Live, Times, Later, Presence
  <1>2. job'[j].rev \in 1 .. MaxRevisions
    BY <1>1
  <1>3. Occurrence(j, job'[j].rev, job'[j].next) \in Scheduled
    BY <1>1, <1>2, OccurrenceType
  <1>4. Planned(j)' = Occurrence(j, job'[j].rev, job'[j].next)
    BY DEF Planned, Occurrence
  <1> QED BY <1>3, <1>4 DEF Occurrence

\* a plan that nobody has reserved, with its timer or the task that will
\* install it
LEMMA FreshSecured ==
  ASSUME CronInv', NEW j \in Jobs, Live(j)' => Pending(j)',
         \A o \in Scheduled :
           o.job = j /\ o.rev = job'[j].rev /\ o.at = job'[j].next =>
             run'[o].status = "none"
  PROVE  SecuredIfOn(j)'
  <1> SUFFICES ASSUME Live(j)' PROVE Secured(j)'
    BY DEF SecuredIfOn
  <1>1. run'[Planned(j)'].status = "none"
    BY PlannedNext
  <1>2. TimerSet(j)' \/ Called(j)' \/ Installing(j)'
    BY DEF Pending
  <1> QED BY <1>1, <1>2 DEF Secured

LEMMA NewTimerSet ==
  ASSUME CronInv', NEW j \in Jobs, timer'[j] = NewTimer(job'[j])
  PROVE  Pending(j)'
  <1>1. timer'[j].rev = job'[j].rev /\ timer'[j].at = job'[j].next
        /\ timer'[j].due = job'[j].next
    BY DEF NewTimer
  <1>2. job'[j].next \in Nat
    BY RowNatNext DEF CronInv
  <1>3. TimerSet(j)'
    BY <1>1, <1>2 DEF TimerSet
  <1> QED BY <1>3 DEF Pending

\* an advance plans a time to come and installs its timer
LEMMA AdvanceSecured ==
  ASSUME CronInv, CronInv', RunsPast, TimerBehind, NEW o \in Scheduled, AdvanceAfter(o),
         Advanceable(o), run' = run, NEW j \in Jobs, j = o.job
  PROVE  SecuredIfOn(j)'
  <1>1. o.at <= now
    BY AdvancedPast
  <1>2. /\ job'[j].rev = job[j].rev
        /\ \/ ~job'[j].enabled
           \/ /\ job'[j].next > now
              /\ timer'[j] = NewTimer(job'[j])
    BY <1>1, AdvanceFacts
  <1>3. CASE ~job'[j].enabled
    BY <1>3 DEF SecuredIfOn
  <1>4. CASE job'[j].next > now /\ timer'[j] = NewTimer(job'[j])
    <2>1. ASSUME NEW p \in Scheduled, p.at = job'[j].next PROVE run'[p].status = "none"
      <3>1. p.at \in Nat /\ now \in Nat
        BY RunNat, ClockNat DEF CronInv
      <3> QED BY <1>4, <2>1, <3>1 DEF RunsPast
    <2>2. Pending(j)'
      BY <1>4, NewTimerSet
    <2> QED BY <2>1, <2>2, FreshSecured
  <1> QED BY <1>2, <1>3, <1>4

\* the callbacks
LEMMA TickEntersSecured ==
  ASSUME CronInv, NEW w \in Workers, TickEnters(w), NEW j \in Jobs, SecuredIfOn(j)
  PROVE  SecuredIfOn(j)'
  <1>0. /\ task[w].pc = "tick" /\ GoesTo(w, {"tick"}, {"claiming"}) /\ Others(w)
        /\ UNCHANGED <<job, run, sweep>>
    BY TickEntersGoes DEF TickEnters, CronInv, GoesTo
  <1>1. RowHeld(j) /\ SameRun(Planned(j)) /\ SweepSpared(j)
    BY <1>0, RowSame, SweepSame DEF SameRun
  <1>2. PICK k \in Jobs : k = task[w].run.job
    BY <1>0, TaskJob
  <1>3. CASE j # k
    <2>1. revoked' \subseteq revoked \cup TicksOf({k}) /\ timer'[j] = timer[j]
      <3>1. timer \in [Jobs -> Timer]
        BY DEF CronInv, TimersTyped
      <3> QED BY <1>2, <1>3, <3>1 DEF TickEnters, Absorbed
    <2>2. TicksSpared(j)
      BY <1>3, <2>1 DEF TicksSpared, TicksOf
    <2>3. TasksSpared(j)
      BY <1>0, <1>2, <1>3, GoesSpares
    <2> QED BY <1>1, <2>1, <2>2, <2>3, Bystander
  <1>4. CASE j = k /\ (~Current(w) \/ (Live(j) /\ job[j].rev # task[w].run.rev))
    <2>1. timer' = timer /\ revoked' \subseteq revoked
      BY <1>2, <1>4 DEF TickEnters, Absorbed, Current
    <2>2. ~Live(j) \/ (~Minds(w, j) /\ ~Closes(w, j))
      BY <1>0, <1>4, PlannedFacts DEF Minds, Closes, Current
    <2>3. CASE ~Minds(w, j) /\ ~Closes(w, j)
      <3>1. TasksSpared(j) /\ TicksSpared(j)
        BY <1>0, <2>1, <2>3, LeavesSpared DEF TicksSpared
      <3> QED BY <1>1, <2>1, <3>1, Bystander
    <2>4. CASE ~Live(j)
      BY <1>1, <2>4 DEF SecuredIfOn, RowHeld
    <2> QED BY <2>2, <2>3, <2>4
  <1>5. CASE ~Live(j) \/ ~job[j].enabled
    BY <1>1, <1>5 DEF SecuredIfOn, RowHeld
  <1>6. CASE /\ j = k /\ Current(w) /\ Live(j) /\ job[j].rev = task[w].run.rev
             /\ job[j].enabled
    <2>1. /\ task' = [task EXCEPT ![w].pc = "claiming", ![w].row = job[j]]
          /\ UNCHANGED <<timer, revoked>>
      BY <1>2, <1>6 DEF TickEnters
    <2>2. task'[w].pc = "claiming" /\ task'[w].run = task[w].run
      <3>1. task' = [task EXCEPT ![w] =
                       [pc |-> "claiming", run |-> task[w].run, row |-> job[j],
                        outcome |-> task[w].outcome]]
        BY <1>0, <2>1, RowForm DEF CronInv
      <3> QED BY <3>1 DEF CronInv, TasksTyped
    <2>3. TicksSpared(j) /\ timer'[j] = timer[j]
      BY <2>1 DEF TicksSpared
    <2>4. CASE ~Minds(w, j)
      <3>1. TasksSpared(j)
        BY <1>0, <2>4, LeavesSpared DEF Closes
      <3> QED BY <1>1, <2>3, <3>1, Bystander
    <2>5. CASE Minds(w, j)
      <3>1. task[w].run = Planned(j)
        BY <1>0, <2>5 DEF Minds
      <3>2. Called(j)'
        <4>1. Planned(j)' = Planned(j)
          BY <1>1, SamePlan
        <4> QED BY <1>6, <2>1, <2>2, <3>1, <4>1 DEF Called, Current
      <3>3. \A v \in Workers : Closes(v, j) => task'[v] = task[v]
        BY <1>0 DEF Closes, Others
      <3>4. Spares(j)
        BY <1>1, <3>2, <3>3, ClosingSpared DEF Spares, Pending, SweepSpared
      <3> QED BY <1>1, <3>4, SparedSecured
    <2> QED BY <2>4, <2>5
  <1> QED BY <1>3, <1>4, <1>5, <1>6

LEMMA TickReservesSecured ==
  ASSUME CronInv, TimersInv, NEW w \in Workers, TickReserves(w), NEW j \in Jobs, SecuredIfOn(j)
  PROVE  SecuredIfOn(j)'
  <1>0. /\ task[w].pc = "claiming" /\ Others(w) /\ UNCHANGED <<job, timer, sweep>>
        /\ revoked' \subseteq revoked
    BY RunGoes DEF TickReserves, CronInv, GoesOn, GoesTo, Absorbed
  <1>1. RowHeld(j) /\ SweepSpared(j) /\ TicksSpared(j) /\ timer'[j] = timer[j]
    BY <1>0, RowSame, SweepSame DEF TicksSpared
  <1>2. PICK o \in Scheduled : o = task[w].run
    BY <1>0 DEF TimersInv, TicksScheduled, TickPcs
  <1>3. ASSUME Live(j) => SameRun(Planned(j)), ~Minds(w, j) PROVE SecuredIfOn(j)'
    <2>1. TasksSpared(j)
      BY <1>0, <1>3, LeavesSpared DEF Closes
    <2> QED BY <1>1, <1>3, <2>1, Bystander
  <1>4. CASE Current(w) /\ Reservable(o)
    <2>1. Reserve(o) /\ o \in Runs
      BY <1>2, <1>4, RunsFacts DEF TickReserves
    <2>2. CASE o = Planned(j)
      <3>1. run'[o].status = "reserved"
        BY <2>1 DEF Reserve, CronInv, RunsTyped, RunRow
      <3> QED BY <1>1, <2>2, <3>1, SamePlan DEF SecuredIfOn, Secured
    <2>3. CASE o # Planned(j)
      <3>1. Live(j) => SameRun(Planned(j))
        BY <2>1, <2>3, PlannedFacts DEF Reserve, SameRun, CronInv, RunsTyped
      <3> QED BY <1>0, <1>2, <1>3, <2>3, <3>1 DEF Minds
    <2> QED BY <2>2, <2>3
  <1>5. CASE ~(Current(w) /\ Reservable(o))
    <2>1. run' = run
      BY <1>2, <1>5 DEF TickReserves
    <2>2. CASE ~Minds(w, j)
      BY <1>3, <2>1, <2>2 DEF SameRun
    <2>3. CASE Minds(w, j)
      <3>1. o = Planned(j) /\ Current(w)
        BY <1>0, <1>2, <2>3 DEF Minds, Current
      <3>2. ASSUME Live(j), job[j].enabled PROVE Spares(j)
        <4>1. run[Planned(j)].status # "none"
          BY <1>5, <3>1, <3>2, PlannedFacts DEF Reservable
        <4>2. \A v \in Workers : Closes(v, j) => task'[v] = task[v]
          BY <1>0 DEF Closes, Others
        <4> QED BY <1>1, <2>1, <4>1, <4>2, ClosingSpared DEF Spares, SweepSpared, SameRun
      <3> QED BY <1>1, <3>2, SparedSecured
    <2> QED BY <2>2, <2>3
  <1> QED BY <1>4, <1>5

\* a callback that gives up the occurrence it has reserved leaves it to a
\* sweep, or the row does not plan it any more
LEMMA GivenUp ==
  ASSUME CronInv, RevokedWaits, NEW w \in Workers, task[w].pc \in {"reserved", "verified"},
         w \in revoked \/ ~Plans(task[w].run), Finalize(task[w].run, "skipped"), Others(w),
         UNCHANGED <<job, timer, sweep>>, revoked' \subseteq revoked,
         NEW j \in Jobs, SecuredIfOn(j)
  PROVE  SecuredIfOn(j)'
  <1>1. RowHeld(j) /\ SweepSpared(j) /\ TicksSpared(j) /\ timer'[j] = timer[j]
    BY RowSame, SweepSame DEF TicksSpared
  <1>2. TasksSpared(j)
    BY LeavesSpared DEF Minds, Closes
  <1>3. task[w].run \in Runs
    BY TaskJob
  <1>4. CASE task[w].run # Planned(j)
    BY <1>1, <1>2, <1>3, <1>4, OtherRunSame, Bystander
  <1>5. CASE task[w].run = Planned(j)
    <2> SUFFICES ASSUME Live(j), job[j].enabled PROVE Secured(j)'
      BY DEF SecuredIfOn, Live
    <2>1. Plans(task[w].run) /\ task[w].run.job = j
      BY <1>5, PlannedFacts
    <2>2. Waiting(j)
      BY <2>1 DEF RevokedWaits
    <2> QED BY <1>1, <2>2 DEF SweepSpared, Secured
  <1> QED BY <1>4, <1>5

LEMMA TickGoesSecured ==
  ASSUME CronInv, RevokedWaits, NEW w \in Workers, TickVerifies(w) \/ TickCommits(w),
         NEW j \in Jobs, SecuredIfOn(j)
  PROVE  SecuredIfOn(j)'
  <1>0. /\ task[w].pc \in {"reserved", "verified"} /\ Others(w)
        /\ UNCHANGED <<job, timer, sweep>> /\ revoked' \subseteq revoked
    BY RunGoes DEF TickVerifies, TickCommits, CronInv, GoesOn, GoesTo, Absorbed
  <1>1. \/ run' = run
        \/ /\ w \in revoked \/ ~Plans(task[w].run)
           /\ Finalize(task[w].run, "skipped")
    BY DEF TickVerifies, TickCommits, Current
  <1>2. CASE run' = run
    <2>1. TasksSpared(j)
      BY <1>0, LeavesSpared DEF Minds, Closes
    <2> QED BY <1>0, <1>2, <2>1, RowSame, SweepSame, Bystander DEF TicksSpared, SameRun
  <1> QED BY <1>0, <1>1, <1>2, GivenUp

\* a task advances the job it has settled a run of
LEMMA AdvancesSecured ==
  ASSUME CronInv, CronInv', RunsPast, TimerBehind, RowOfRun, NEW w \in Workers, Advances(w),
         NEW j \in Jobs, SecuredIfOn(j)
  PROVE  SecuredIfOn(j)'
  <1>0. /\ task[w].pc = "advancing" /\ Others(w) /\ UNCHANGED <<run, sweep>>
    BY RunGoes DEF Advances, CronInv, GoesOn, GoesTo
  <1>1. SweepSpared(j) /\ ~Minds(w, j)
    BY <1>0, SweepSame DEF Minds
  <1>2. CASE task[w].outcome = "unexecutable"
    <2>1. Disabled(w) /\ UNCHANGED <<timer, revoked>>
      BY <1>2 DEF Advances
    <2>2. RowHeld(j) /\ TicksSpared(j) /\ timer'[j] = timer[j]
      BY <1>0, <2>1, DisabledHolds DEF TicksSpared
    <2>3. CASE ~Closes(w, j)
      BY <1>0, <1>1, <2>2, <2>3, LeavesSpared, Bystander DEF SameRun
    <2>4. CASE Closes(w, j)
      <3> SUFFICES ASSUME Live(j) PROVE ~job'[j].enabled
        BY <2>2 DEF SecuredIfOn, RowHeld
      <3>1. task[w].run \in Scheduled /\ task[w].run.job = j /\ task[w].run.rev = job[j].rev
        BY <2>4, PlannedFacts DEF Closes
      <3>2. task[w].row.rev = job[j].rev
        BY <1>0, <3>1 DEF RowOfRun, ClaimPcs
      <3> QED BY <1>0, <2>1, <3>1, <3>2, DisabledHolds
    <2> QED BY <2>3, <2>4
  <1>3. CASE task[w].outcome # "unexecutable"
    <2>1. task[w].run \in Scheduled /\ AdvanceAfter(task[w].run)
      BY <1>0, <1>3 DEF Advances, CronInv, TasksTyped, TaskSane
    <2>2. CASE j = task[w].run.job /\ Advanceable(task[w].run)
      BY <1>0, <2>1, <2>2, AdvanceSecured
    <2>3. CASE ~(j = task[w].run.job /\ Advanceable(task[w].run))
      <3>1. RowHeld(j) /\ timer'[j] = timer[j] /\ TicksSpared(j)
        BY <2>1, <2>3, AdvanceSpares
      <3>2. CASE ~Closes(w, j)
        BY <1>0, <1>1, <3>1, <3>2, LeavesSpared, Bystander DEF SameRun
      <3>3. CASE Closes(w, j)
        <4>1. ASSUME Live(j), job[j].enabled PROVE Spares(j)
          <5>1. run[Planned(j)].status \notin Settled
            BY <2>3, <3>3, <4>1, PlannedFacts DEF Closes, Advanceable
          <5>2. \A v \in Workers : Minds(v, j) => task'[v] = task[v]
            BY <1>0, <1>1 DEF Others
          <5> QED BY <1>0, <1>1, <3>1, <5>1, <5>2, PendingSpared
                  DEF Spares, SweepSpared, SameRun
        <4> QED BY <3>1, <4>1, SparedSecured
      <3> QED BY <3>2, <3>3
    <2> QED BY <2>2, <2>3
  <1> QED BY <1>2, <1>3

\* an update writes a plan of a revision that nobody has reserved
LEMMA UpdateWritesSecured ==
  ASSUME CronInv, CronInv', RunsPast, UpdatingInv, NEW w \in Workers, UpdateWrites(w),
         NEW j \in Jobs, SecuredIfOn(j)
  PROVE  SecuredIfOn(j)'
  <1>0. /\ task[w].pc = "updating" /\ GoesTo(w, {"updating"}, {"installing"})
        /\ UNCHANGED <<run, sweep>>
    BY UpdateWritesGoes DEF UpdateWrites, CronInv
  <1>1. PICK k \in Jobs : k = task[w].run.job
    BY <1>0, TaskJob
  <1>2. job[k].rev = task[w].row.rev
    BY <1>0, <1>1 DEF UpdatingInv
  <1>3. SweepSpared(j) /\ (j # k => TasksSpared(j)) /\ SameRun(Planned(j))
    BY <1>0, <1>1, SweepSame, GoesSpares DEF SameRun
  <1>4. CASE Live(k)
    <2>1. /\ \A i \in Jobs \ {k} : job'[i] = job[i]
          /\ job'[k].rev = job[k].rev + 1 /\ task'[w].pc = "installing"
          /\ UNCHANGED <<timer, revoked>>
      BY <1>1, <1>2, <1>4, UpdateRows
    <2>2. CASE j # k
      BY <1>3, <2>1, <2>2, RowSame, Bystander DEF TicksSpared
    <2>3. CASE j = k
      <3>1. task'[w].run.job = j
        BY <1>0, <1>1, <2>1, <2>3 DEF GoesTo
      <3>2. Pending(j)'
        BY <2>1, <3>1 DEF Pending, Installing
      <3>3. ASSUME NEW o \in Scheduled, o.job = j, o.rev = job'[j].rev
            PROVE  run'[o].status = "none"
        <4>1. job[j].rev \in Nat
          BY RowNat DEF CronInv
        <4>2. ~(o.rev <= job[o.job].rev)
          BY <2>1, <2>3, <3>3, <4>1
        <4> QED BY <1>0, <4>2 DEF RunsPast
      <3> QED BY <3>2, <3>3, FreshSecured
    <2> QED BY <2>2, <2>3
  <1>5. CASE ~Live(k)
    <2>1. job' = job /\ CancelTimers({k})
      BY <1>1, <1>5 DEF UpdateWrites
    <2>2. CASE j = k
      BY <1>5, <2>1, <2>2 DEF SecuredIfOn, Live
    <2>3. CASE j # k
      BY <1>3, <2>1, <2>3, RowSame, CancelSpares, Bystander
    <2> QED BY <2>2, <2>3
  <1> QED BY <1>4, <1>5

\* while a task installs the timer of a job nobody else advances the job
LEMMA InstallsAlone ==
  ASSUME CronInv, GateInv, NEW w \in Workers, task[w].pc = "installing", NEW j \in Jobs,
         task[w].run.job = j
  PROVE  ~Closing(j)
  <1>1. Planned(j).job = j
    BY PlannedFacts
  <1>2. \A v \in Workers : ~(task[v].pc = "advancing" /\ task[v].run = Planned(j))
    BY <1>1 DEF GateInv, GatePcs
  <1>3. ~(sweep.pc = "passed" /\ sweep.run = Planned(j))
    BY <1>1 DEF GateInv, GatePcs, SweepGates
  <1> QED BY <1>2, <1>3 DEF Closing

LEMMA InstallsUpdate ==
  ASSUME CronInv, CronInv', GateInv, NextSet, TimerBehind, UpdatingInv, NEW w \in Workers,
         Installs(w), task[w].pc = "installing", NEW j \in Jobs, task[w].run.job = j,
         SecuredIfOn(j)
  PROVE  SecuredIfOn(j)'
  <1> DEFINE row == task[w].row
  <1>0. ScheduleJob(j, row) /\ UNCHANGED <<job, run, sweep>>
    BY DEF Installs
  <1>1. RowHeld(j) /\ SameRun(Planned(j)) /\ SweepSpared(j)
    BY <1>0, RowSame, SweepSame DEF SameRun
  <1>2. ASSUME Live(j), job[j].enabled PROVE Spares(j)
    <2>1. row.rev = job[j].rev /\ row.next = job[j].next /\ row.enabled
      BY <1>2 DEF UpdatingInv
    <2>2. row.next # NoTime
      BY <1>2, <2>1 DEF NextSet
    <2>3. Newer(j, row)
      <3>1. /\ job[j].rev \in Nat /\ timer[j].rev \in Nat
            /\ job[j].next \in Nat /\ timer[j].planned \in Nat
        BY RowNat, TimerNat DEF CronInv
      <3> QED BY <1>2, <2>1, <3>1 DEF Newer, TimerBehind
    <2>4. timer'[j] = NewTimer(row)
      BY <1>0, <2>1, <2>2, <2>3, Install DEF CronInv
    <2>5. /\ timer'[j].rev = job'[j].rev /\ timer'[j].at = job'[j].next
          /\ timer'[j].due = job'[j].next
      BY <1>0, <2>1, <2>4 DEF NewTimer
    <2>6. job'[j].next \in Nat
      BY RowNatNext DEF CronInv
    <2>7. Pending(j)'
      BY <2>5, <2>6 DEF Pending, TimerSet
    <2> QED BY <1>1, <2>7, InstallsAlone DEF Spares, SweepSpared
  <1> QED BY <1>1, <1>2, SparedSecured

\* the timer of an added job comes late when an update has been there first
LEMMA InstallsLate ==
  ASSUME CronInv, TimersInv, AddingInv, NEW w \in Workers, Installs(w),
         task[w].pc = "adding", NEW j \in Jobs, task[w].run.job = j, job[j].rev # 1,
         SecuredIfOn(j)
  PROVE  SecuredIfOn(j)'
  <1> DEFINE row == task[w].row
  <1>0. ScheduleJob(j, row) /\ UNCHANGED <<job, run, sweep>> /\ Others(w)
    BY RunGoes DEF Installs, CronInv, GoesOn, GoesTo
  <1>1. RowHeld(j) /\ SameRun(Planned(j)) /\ SweepSpared(j)
    BY <1>0, RowSame, SweepSame DEF SameRun
  <1>2. row.rev = 1 /\ row.enabled /\ row.next # NoTime /\ timer[j].rev # 1
    BY DEF AddingInv
  <1>3. ~Minds(w, j) /\ ~Closes(w, j)
    BY DEF Minds, Closes
  <1>4. TasksSpared(j)
    BY <1>0, <1>3, LeavesSpared
  <1>5. CASE ~Newer(j, row)
    <2>1. UNCHANGED <<timer, revoked>>
      BY <1>0, <1>2, <1>5 DEF ScheduleJob
    <2> QED BY <1>1, <1>4, <2>1, Bystander DEF TicksSpared
  <1>6. CASE Newer(j, row)
    <2>1. timer[j].rev = 0
      <3>1. timer[j].rev \in Nat
        BY TimerNat DEF CronInv
      <3> QED BY <1>2, <1>6, <3>1 DEF Newer
    <2>2. ASSUME Live(j) PROVE Spares(j)
      <3>1. job[j].rev >= 1 /\ job[j].rev \in Nat
        BY <2>2, RowNat DEF CronInv, JobsTyped, RowsSane, Live
      <3>2. ~TimerSet(j)
        BY <2>1, <3>1 DEF TimerSet
      <3>3. ~Called(j)
        BY <2>1, <3>1, PlannedFacts DEF Called, TimersInv, TickTimer, TickPcs
      <3>4. ASSUME Installing(j) PROVE Pending(j)'
        <4>1. PICK v \in Workers : task[v].pc \in {"updating", "installing"}
                                   /\ task[v].run.job = j
          BY <3>4 DEF Installing
        <4>2. task'[v] = task[v]
          BY <1>0, <4>1 DEF Others
        <4> QED BY <4>1, <4>2 DEF Pending, Installing
      <3>5. Closing(j) => Closing(j)'
        BY <1>1, <1>4, ClosingSpared DEF TasksSpared
      <3> QED BY <1>1, <3>2, <3>3, <3>4, <3>5 DEF Spares, SweepSpared, Pending
    <2> QED BY <1>1, <2>2, SparedSecured
  <1> QED BY <1>5, <1>6

LEMMA InstallsFirst ==
  ASSUME CronInv, CronInv', TimerBehind, AddingInv, NEW w \in Workers, Installs(w),
         task[w].pc = "adding", NEW j \in Jobs, task[w].run.job = j, job[j].rev = 1
  PROVE  SecuredIfOn(j)'
  <1> DEFINE row == task[w].row
  <1>0. ScheduleJob(j, row) /\ UNCHANGED <<job, run>>
    BY DEF Installs
  <1>1. /\ row.rev = 1 /\ row.enabled /\ row.next # NoTime /\ timer[j].rev # 1
        /\ job[j].next = row.next
        /\ \A o \in Scheduled : o.job = j /\ o.rev = 1 => run[o].status = "none"
    BY DEF AddingInv
  <1>2. Newer(j, row)
    <2>1. timer[j].rev \in Nat /\ timer[j].rev <= 1
      BY TimerNat DEF CronInv, TimerBehind
    <2> QED BY <1>1, <2>1 DEF Newer
  <1>3. timer'[j] = NewTimer(row)
    BY <1>0, <1>1, <1>2, Install DEF CronInv
  <1>4. /\ timer'[j].rev = job'[j].rev /\ timer'[j].at = job'[j].next
        /\ timer'[j].due = job'[j].next
    BY <1>0, <1>1, <1>3 DEF NewTimer
  <1>5. job'[j].next \in Nat
    BY RowNatNext DEF CronInv
  <1>6. Pending(j)'
    BY <1>4, <1>5 DEF Pending, TimerSet
  <1> QED BY <1>0, <1>1, <1>6, FreshSecured

LEMMA InstallsSecured ==
  ASSUME CronInv, CronInv', TickInv, CoverInv, NEW w \in Workers, Installs(w), NEW j \in Jobs
  PROVE  SecuredIfOn(j)'
  <1> USE DEF CoverInv, TickInv
  <1>0. /\ GoesTo(w, {"adding", "installing"}, {}) /\ task[w].pc \in {"adding", "installing"}
        /\ UNCHANGED <<job, run, sweep>>
    BY RunGoes DEF Installs, CronInv, GoesOn
  <1>1. PICK k \in Jobs : k = task[w].run.job /\ ScheduleJob(k, task[w].row)
    BY <1>0, TaskJob DEF Installs
  <1>2. CASE j # k
    <2>1. TasksSpared(j) /\ timer'[j] = timer[j] /\ TicksSpared(j)
      BY <1>0, <1>1, <1>2, GoesSpares, ScheduleSpares
    <2> QED BY <1>0, <2>1, RowSame, SweepSame, Bystander DEF SameRun
  <1>3. CASE j = k
    BY <1>0, <1>1, <1>3, InstallsUpdate, InstallsLate, InstallsFirst
  <1> QED BY <1>2, <1>3

LEMMA CleansUpSecured ==
  ASSUME CronInv, CleaningGone, NEW w \in Workers, CleansUp(w), NEW j \in Jobs, SecuredIfOn(j)
  PROVE  SecuredIfOn(j)'
  <1>0. /\ task[w].pc = "cleaning" /\ GoesTo(w, {"cleaning"}, {})
        /\ UNCHANGED <<job, run, sweep>>
    BY RunGoes DEF CleansUp, CronInv, GoesOn
  <1>1. PICK k \in Jobs : k = task[w].run.job
    BY <1>0, TaskJob
  <1>2. CASE j = k
    BY <1>0, <1>1, <1>2 DEF CleaningGone, Dead, SecuredIfOn, Live
  <1>3. CASE j # k
    <2>1. CancelTimers({k}) \/ UNCHANGED <<timer, revoked>>
      BY <1>1 DEF CleansUp
    <2>2. timer'[j] = timer[j] /\ TicksSpared(j)
      BY <1>3, <2>1, CancelSpares DEF TicksSpared
    <2>3. TasksSpared(j)
      BY <1>0, <1>1, <1>3, GoesSpares
    <2> QED BY <1>0, <2>2, <2>3, RowSame, SweepSame, Bystander DEF SameRun
  <1> QED BY <1>2, <1>3

\* the timer's callback takes the occurrence over
LEMMA DispatchSecured ==
  ASSUME CronInv, TimersInv, NEW i \in Jobs, NEW w \in Workers, DispatchTick(i, w),
         NEW j \in Jobs, SecuredIfOn(j)
  PROVE  SecuredIfOn(j)'
  <1>0. /\ Begun(w, "tick", Occurrence(i, timer[i].rev, timer[i].at), job[i])
        /\ \A k \in Jobs \ {i} : timer'[k] = timer[k]
        /\ revoked' = revoked /\ w \notin revoked
    BY DispatchFacts
  <1>1. UNCHANGED <<job, run, sweep>>
    BY DEF DispatchTick
  <1>2. /\ RowHeld(j) /\ SweepSpared(j) /\ SameRun(Planned(j))
        /\ TasksSpared(j) /\ TicksSpared(j)
    BY <1>0, <1>1, RowSame, SweepSame, BegunSpares DEF SameRun, TicksSpared
  <1>3. CASE j # i
    BY <1>0, <1>2, <1>3, Bystander
  <1>4. CASE j = i
    <2>1. ASSUME TimerSet(j) PROVE Pending(j)'
      <3>1. task'[w].pc = "tick" /\ task'[w].run = Planned(j)
        BY <1>0, <1>4, <2>1 DEF Begun, TimerSet, Planned
      <3>2. Planned(j)' = Planned(j)
        BY <1>2, SamePlan
      <3>3. Called(j)'
        BY <1>0, <3>1, <3>2 DEF Called
      <3> QED BY <3>3 DEF Pending
    <2>2. ASSUME NEW v \in Workers, Minds(v, j) PROVE Pending(j)'
      BY <1>2, <2>2, MindsSpared DEF TasksSpared
    <2>3. Pending(j) => Pending(j)'
      BY <2>1, <2>2, PendingForms
    <2>4. Closing(j) => Closing(j)'
      BY <1>2, ClosingSpared DEF TasksSpared
    <2> QED BY <1>2, <2>3, <2>4, SparedSecured DEF Spares, SweepSpared
  <1> QED BY <1>3, <1>4

\* the commands of the users
LEMMA AddJobSecured ==
  ASSUME CronInv, CronInv', ReceiptInv, NEW i \in Jobs, NEW w \in Workers, AddJob(w, i),
         NEW j \in Jobs, SecuredIfOn(j)
  PROVE  SecuredIfOn(j)'
  <1>0. /\ \A k \in Jobs \ {i} : job'[k] = job[k]
        /\ ~Present(i) /\ job'[i].rev = 1
        /\ Begun(w, "adding", Occurrence(i, 1, job'[i].next), job'[i])
        /\ UNCHANGED <<run, timer, revoked, sweep>>
    BY AddRows
  <1>1. CASE j # i
    <2>1. TasksSpared(j)
      BY <1>0, BegunSpares
    <2> QED BY <1>0, <1>1, <2>1, RowSame, SweepSame, Bystander DEF SameRun, TicksSpared
  <1>2. CASE j = i
    <2>1. task'[w].pc = "adding" /\ task'[w].run.job = j /\ job'[j].rev = 1
      BY <1>0, <1>2 DEF Begun, Occurrence
    <2>2. Pending(j)'
      BY <2>1 DEF Pending, Installing
    <2>3. ASSUME NEW o \in Scheduled, o.job = j PROVE run'[o].status = "none"
      BY <1>0, <1>2, <2>3 DEF ReceiptInv, RunInv, OwnerHolds, Live, Present
    <2> QED BY <2>2, <2>3, FreshSecured
  <1> QED BY <1>1, <1>2

LEMMA UpdateJobSecured ==
  ASSUME CronInv, NEW i \in Jobs, NEW w \in Workers, UpdateJob(w, i),
         NEW j \in Jobs, SecuredIfOn(j)
  PROVE  SecuredIfOn(j)'
  <1>0. /\ Begun(w, "updating", Occurrence(i, job[i].rev, job[i].next), job[i])
        /\ CancelTimers({i}) /\ GateFree(i) /\ UNCHANGED <<job, run, sweep>>
    BY StartBegun DEF UpdateJob, CronInv
  <1>1. RowHeld(j) /\ SameRun(Planned(j)) /\ SweepSpared(j) /\ TasksSpared(j)
    BY <1>0, RowSame, SweepSame, BegunSpares DEF SameRun
  <1>2. CASE j # i
    BY <1>0, <1>1, <1>2, CancelSpares, Bystander
  <1>3. CASE j = i
    <2>1. task'[w].pc = "updating" /\ task'[w].run.job = j
      BY <1>0, <1>3 DEF Begun, Occurrence
    <2>2. Pending(j)'
      BY <2>1 DEF Pending, Installing
    <2>3. ~Closing(j)
      BY <1>0, <1>3, PlannedFacts DEF Closing, GateFree, GatePcs
    <2> QED BY <1>1, <2>2, <2>3, SparedSecured DEF Spares, SweepSpared
  <1> QED BY <1>2, <1>3

LEMMA DeleteSecured ==
  ASSUME CronInv, NEW i \in Jobs,
         RemoveJob(i) \/ \E w \in Workers : CascadeDelete(w, i),
         NEW j \in Jobs, SecuredIfOn(j)
  PROVE  SecuredIfOn(j)'
  <1>0. PICK s \in {"removed", "cascaded"} : DeleteJob(i, s)
    BY DEF RemoveJob, CascadeDelete
  <1>1. job'[i].status = s /\ \A k \in Jobs \ {i} : job'[k] = job[k]
    BY <1>0, DeleteRows
  <1>2. CASE j = i
    BY <1>1, <1>2 DEF SecuredIfOn, Live
  <1>3. CASE j # i
    <2>1. Live(j) => SameRun(Planned(j))
      BY <1>0, <1>3, PlannedFacts DEF DeleteJob, SameRun
    <2>2. sweep' = sweep
      BY DEF RemoveJob, CascadeDelete
    <2>3. CASE RemoveJob(i)
      <3>1. task' = task /\ CancelTimers({i})
        BY <2>3 DEF RemoveJob
      <3> QED BY <1>1, <1>3, <2>1, <2>2, <3>1, RowSame, SweepSame, CancelSpares, Bystander
              DEF TasksSpared
    <2>4. ASSUME NEW w \in Workers, CascadeDelete(w, i) PROVE SecuredIfOn(j)'
      <3>1. /\ Begun(w, "cleaning", Occurrence(i, job[i].rev, job[i].next), job[i])
            /\ UNCHANGED <<timer, revoked>>
        BY <2>4, StartBegun DEF CascadeDelete, CronInv
      <3>2. TasksSpared(j) /\ TicksSpared(j)
        BY <3>1, BegunSpares DEF TicksSpared
      <3> QED BY <1>1, <1>3, <2>1, <2>2, <3>1, <3>2, RowSame, SweepSame, Bystander
    <2> QED BY <2>3, <2>4
  <1> QED BY <1>2, <1>3

LEMMA NowReservesSecured ==
  ASSUME CronInv, NEW i \in Jobs, NEW w \in Workers, NEW p \in Ops, NowReserves(w, i, p),
         NEW j \in Jobs, SecuredIfOn(j)
  PROVE  SecuredIfOn(j)'
  <1>0. UNCHANGED <<job, timer, revoked, sweep>>
    BY DEF NowReserves
  <1>1. PICK pc \in {"admitted", "duplicate"} : Start(w, pc, RunNow(i, p), job[i])
    BY DEF NowReserves
  <1>2. TasksSpared(j)
    BY <1>1, StartBegun, BegunSpares DEF CronInv
  <1>3. Planned(j) # RunNow(i, p)
    <2>1. Planned(j).op = None /\ RunNow(i, p).op = p
      BY DEF Planned, Occurrence, RunNow
    <2> QED BY <2>1, CronAssumption
  <1>4. Live(j) => SameRun(Planned(j))
    <2>1. run' = run \/ Reserve(RunNow(i, p))
      BY DEF NowReserves
    <2> QED BY <1>3, <2>1, PlannedFacts DEF Reserve, SameRun, CronInv, RunsTyped
  <1> QED BY <1>0, <1>2, <1>4, RowSame, SweepSame, Bystander DEF TicksSpared

\* after a resume or a crash every job waits for the sweep
LEMMA WaitSecured ==
  ASSUME CronInv, NEW j \in Jobs,
         SystemResume \/ Crash \/ RecoverEnds \/ \E o \in Runs : RecoverRun(o)
  PROVE  SecuredIfOn(j)'
  <1>0. sweep \in Sweep
    BY DEF CronInv, SweepTyped
  <1>1. sweep'.pc \in {"recovering", "recovered", "listing"}
    <2>1. CASE Crash
      BY <2>1 DEF Crash, NoSweep
    <2>2. CASE SystemResume \/ RecoverEnds
      BY <1>0, <2>2 DEF SystemResume, RecoverEnds, Sweep
    <2>3. ASSUME NEW o \in Runs, RecoverRun(o) PROVE sweep'.pc \in {"recovering", "recovered"}
      BY <1>0, <2>3 DEF RecoverRun, Sweep
    <2> QED BY <2>1, <2>2, <2>3
  <1> QED BY <1>1 DEF SecuredIfOn, Secured, Waiting

LEMMA IdleSecured ==
  ASSUME CronInv, NEW j \in Jobs, SecuredIfOn(j),
         UNCHANGED cronVars \/ ClockTicks \/ \E o \in Runs : TurnEnds(o)
  PROVE  SecuredIfOn(j)'
  <1>1. UNCHANGED <<job, run, timer, revoked, task, sweep>>
    BY DEF cronVars, ClockTicks, TurnEnds
  <1> QED BY <1>1, RowSame, SweepSame, Bystander DEF SameRun, TasksSpared, TicksSpared

\* the sweep
LEMMA SweepListsSecured ==
  ASSUME CronInv, NEW j \in Jobs, SweepLists
  PROVE  SecuredIfOn(j)'
  <1>1. /\ sweep'.pc = "sweeping" /\ sweep'.todo = {k \in Jobs : Live(k) /\ job[k].enabled}
        /\ job' = job
    BY DEF SweepLists, CronInv, SweepTyped, Sweep
  <1> QED BY <1>1 DEF SecuredIfOn, Secured, Waiting, Live

LEMMA SweepEndsSecured ==
  ASSUME CronInv, NEW j \in Jobs, SecuredIfOn(j), SweepEnds
  PROVE  SecuredIfOn(j)'
  <1>1. UNCHANGED <<job, run, timer, revoked, task>>
    BY DEF SweepEnds
  <1>2. SweepSpared(j)
    BY DEF SweepSpared, Waiting, SweepEnds
  <1> QED BY <1>1, <1>2, RowSame, Bystander DEF SameRun, TasksSpared, TicksSpared

LEMMA SweepMissesSecured ==
  ASSUME CronInv, NEW j \in Jobs, SecuredIfOn(j), SweepMisses
  PROVE  SecuredIfOn(j)'
  <1>0. /\ sweep \in Sweep /\ sweep.pc = "missed" /\ sweep.run \in Scheduled
        /\ sweep.run \in Runs
    BY RunsFacts DEF SweepMisses, CronInv, SweepTyped
  <1>1. UNCHANGED <<job, timer, revoked, task>> /\ Finalize(sweep.run, "missed")
    BY DEF SweepMisses
  <1>2. RowHeld(j) /\ TasksSpared(j) /\ TicksSpared(j) /\ timer'[j] = timer[j]
    BY <1>1, RowSame DEF TasksSpared, TicksSpared
  <1>3. sweep'.todo = sweep.todo /\ sweep'.pc \in {"passed", "sweeping"}
    BY <1>0 DEF SweepMisses, Sweep
  <1>4. SweepSpared(j)
    BY <1>0, <1>3 DEF SweepSpared, Waiting
  <1>5. CASE sweep.run # Planned(j) \/ ~Finalizable(sweep.run)
    <2>1. Live(j) => SameRun(Planned(j))
      BY <1>0, <1>1, <1>5, OtherRunSame, FinalizeFacts DEF SameRun, CronInv
    <2> QED BY <1>2, <1>4, <2>1, Bystander
  <1>6. CASE sweep.run = Planned(j) /\ Finalizable(sweep.run)
    <2>1. run'[sweep.run].status = "missed"
      BY <1>0, <1>1, <1>6, FinalizeFacts DEF CronInv
    <2>2. sweep'.pc = "passed" /\ sweep'.run = sweep.run
      BY <1>0, <1>6 DEF SweepMisses, Sweep
    <2>3. Planned(j)' = Planned(j)
      BY <1>2, SamePlan
    <2>4. Closing(j)'
      BY <1>6, <2>2, <2>3 DEF Closing
    <2> QED BY <1>6, <2>1, <2>3, <2>4 DEF SecuredIfOn, Secured, Settled
  <1> QED BY <1>5, <1>6

LEMMA SweepAdvancesSecured ==
  ASSUME CronInv, CronInv', RunsPast, TimerBehind, NEW j \in Jobs, SecuredIfOn(j),
         SweepAdvances
  PROVE  SecuredIfOn(j)'
  <1>0. /\ sweep \in Sweep /\ sweep.pc \in {"passed", "recovered"}
        /\ UNCHANGED <<run, task>>
    BY DEF SweepAdvances, CronInv, SweepTyped
  <1>1. PICK o \in Scheduled : o = sweep.run /\ AdvanceAfter(o)
    BY DEF SweepAdvances, CronInv, SweepTyped
  <1>2. CASE j = o.job /\ Advanceable(o)
    BY <1>0, <1>1, <1>2, AdvanceSecured
  <1>3. CASE ~(j = o.job /\ Advanceable(o))
    <2>1. RowHeld(j) /\ timer'[j] = timer[j] /\ TicksSpared(j)
      BY <1>1, <1>3, AdvanceSpares
    <2>2. Waiting(j) => Waiting(j)'
      <3>1. /\ sweep'.todo = sweep.todo
            /\ sweep'.pc = IF sweep.pc = "passed" THEN "sweeping" ELSE "recovering"
        BY <1>0 DEF SweepAdvances, Sweep
      <3> QED BY <1>0, <3>1 DEF Waiting
    <2>3. TasksSpared(j) /\ SameRun(Planned(j))
      BY <1>0 DEF TasksSpared, SameRun
    <2>4. ASSUME Live(j), job[j].enabled PROVE Spares(j)
      <3>1. Pending(j) => Pending(j)'
        BY <2>1, <2>3, PendingSpared DEF TasksSpared
      <3>2. ASSUME run[Planned(j)].status \in Settled, Closing(j) PROVE Closing(j)'
        <4>1. o # Planned(j)
          BY <1>3, <2>4, <3>2, PlannedFacts DEF Advanceable
        <4>2. PICK w \in Workers : task[w].pc = "advancing" /\ task[w].run = Planned(j)
          BY <1>1, <3>2, <4>1 DEF Closing
        <4>3. Planned(j)' = Planned(j)
          BY <2>1, SamePlan
        <4> QED BY <1>0, <4>2, <4>3 DEF Closing
      <3> QED BY <2>2, <2>3, <3>1, <3>2 DEF Spares
    <2> QED BY <2>1, <2>4, SparedSecured
  <1> QED BY <1>2, <1>3

LEMMA SweepsOtherSecured ==
  ASSUME CronInv, NEW i \in Jobs, NEW j \in Jobs, j # i, SecuredIfOn(j), SweepsJob(i)
  PROVE  SecuredIfOn(j)'
  <1>0. sweep \in Sweep /\ sweep.pc = "sweeping" /\ task' = task
    BY DEF SweepsJob, CronInv, SweepTyped
  <1>1. sweep'.todo = sweep.todo \ {i} /\ sweep'.pc \in {"sweeping", "missed"}
    BY <1>0 DEF SweepsJob, Sweep
  <1>2. SweepSpared(j) /\ TasksSpared(j)
    BY <1>0, <1>1 DEF SweepSpared, Waiting, TasksSpared
  <1>3. ASSUME RowHeld(j), timer'[j] = timer[j], TicksSpared(j), Live(j) => SameRun(Planned(j))
        PROVE  SecuredIfOn(j)'
    BY <1>2, <1>3, Bystander
  <1>4. Planned(i).job = i /\ Planned(j).job = j /\ (Live(i) => Planned(i) \in Scheduled)
        /\ (Live(j) => Planned(j) \in Runs)
    BY PlannedFacts
  <1>5. CASE UNCHANGED <<job, run, timer, revoked>>
    BY <1>3, <1>5, RowSame DEF SameRun, TicksSpared
  <1>6. CASE ScheduleJob(i, job[i]) /\ UNCHANGED <<job, run>>
    BY <1>3, <1>6, RowSame, ScheduleSpares DEF SameRun
  <1>7. CASE Reserve(Planned(i)) /\ UNCHANGED <<job, timer, revoked>>
    <2>1. Live(j) => SameRun(Planned(j))
      BY <1>4, <1>7 DEF Reserve, SameRun, CronInv, RunsTyped
    <2> QED BY <1>3, <1>7, <2>1, RowSame DEF TicksSpared
  <1>8. CASE Live(i) /\ AdvanceAfter(Planned(i)) /\ run' = run
    BY <1>3, <1>4, <1>8, AdvanceSpares DEF SameRun
  <1> QED BY <1>5, <1>6, <1>7, <1>8 DEF SweepsJob, Planned, storeVars

LEMMA SweepsOwnSecured ==
  ASSUME CronInv, CronInv', RunsPast, NextSet, TimerBehind, NEW j \in Jobs, SecuredIfOn(j),
         SweepsJob(j)
  PROVE  SecuredIfOn(j)'
  <1> DEFINE overdue == job[j].enabled /\ job[j].next # NoTime /\ job[j].next <= now
  <1>1. CASE ~Live(j)
    <2>1. job' = job
      BY <1>1 DEF SweepsJob, storeVars
    <2> QED BY <1>1, <2>1 DEF SecuredIfOn, Live
  <1>2. CASE Live(j) /\ ~overdue
    <2>1. ScheduleJob(j, job[j]) /\ UNCHANGED <<job, run>>
      BY <1>2 DEF SweepsJob, storeVars
    <2>2. CASE ~job[j].enabled
      BY <2>1, <2>2 DEF SecuredIfOn
    <2>3. CASE job[j].enabled
      <3>1. /\ job[j].rev \in Nat /\ job[j].next \in Nat /\ now \in Nat
            /\ timer[j].rev \in Nat /\ timer[j].planned \in Nat
        BY RowNat, ClockNat, TimerNat DEF CronInv
      <3>2. job[j].next # NoTime /\ job[j].next > now
        BY <1>2, <2>3, <3>1 DEF NextSet
      <3>3. Newer(j, job[j])
        BY <2>3, <3>1 DEF Newer, TimerBehind
      <3>4. timer'[j] = NewTimer(job[j])
        BY <2>1, <2>3, <3>2, <3>3, Install DEF CronInv
      <3>5. Pending(j)'
        BY <2>1, <3>4, NewTimerSet
      <3>6. ASSUME NEW o \in Scheduled, o.at = job'[j].next PROVE run'[o].status = "none"
        BY <2>1, <3>1, <3>2, <3>6 DEF RunsPast
      <3> QED BY <3>5, <3>6, FreshSecured
    <2> QED BY <2>2, <2>3
  <1>3. CASE Live(j) /\ overdue
    <2>0. Planned(j) \in Scheduled /\ Planned(j) \in Runs /\ Planned(j).job = j
          /\ Plans(Planned(j))
      BY <1>3, PlannedFacts
    <2>1. CASE Reserve(Planned(j)) /\ job' = job
      <3>1. run'[Planned(j)].status = "reserved"
        BY <2>0, <2>1 DEF Reserve, CronInv, RunsTyped, RunRow
      <3> QED BY <2>1, <3>1, RowSame, SamePlan DEF SecuredIfOn, Secured
    <2>2. CASE run[Planned(j)].status = "reserved" /\ UNCHANGED <<job, run>>
      BY <2>2, RowSame, SamePlan DEF SecuredIfOn, Secured
    <2>3. CASE /\ run[Planned(j)].status \in Settled /\ AdvanceAfter(Planned(j))
               /\ run' = run
      BY <2>0, <2>3, AdvanceSecured DEF Advanceable
    <2> QED BY <1>3, <2>1, <2>2, <2>3 DEF SweepsJob, Planned, storeVars
  <1> QED BY <1>1, <1>2, <1>3

LEMMA SecuredStep ==
  ASSUME CronInv, ReceiptInv, TickInv, CoverInv, [CronNext]_cronVars, NEW j \in Jobs
  PROVE  SecuredIfOn(j)'
  <1>0. /\ CronInv' /\ SecuredIfOn(j)
        /\ RunsPast /\ NextSet /\ TimerBehind /\ RowOfRun /\ UpdatingInv
        /\ CleaningGone /\ RevokedWaits /\ TimersInv
    BY CronStepType DEF CoverInv, TickInv
  <1>1. ASSUME NEW w \in Workers, WorkerStep(w) PROVE SecuredIfOn(j)'
    <2>1. CASE TickEnters(w) \/ TickReserves(w) \/ TickVerifies(w) \/ TickCommits(w)
      BY <1>0, <2>1, TickEntersSecured, TickReservesSecured, TickGoesSecured
    <2>2. CASE RunStep(w)
      BY <1>0, <2>2, RunStepSecured
    <2>3. CASE Advances(w) \/ UpdateWrites(w) \/ Installs(w) \/ CleansUp(w)
      BY <1>0, <2>3, AdvancesSecured, UpdateWritesSecured, InstallsSecured, CleansUpSecured
    <2> QED BY <1>1, <2>1, <2>2, <2>3 DEF WorkerStep, RunStep
  <1>2. CASE SweepStep
    <2>1. ASSUME NEW i \in Jobs, SweepsJob(i) PROVE SecuredIfOn(j)'
      BY <1>0, <2>1, SweepsOtherSecured, SweepsOwnSecured
    <2> QED BY <1>0, <1>2, <2>1, SweepListsSecured, SweepMissesSecured,
               SweepAdvancesSecured, SweepEndsSecured, WaitSecured DEF SweepStep
  <1>3. CASE UserStep
    BY <1>0, <1>3, AddJobSecured, UpdateJobSecured, DeleteSecured, NowReservesSecured,
       WaitSecured DEF UserStep
  <1>4. ASSUME NEW i \in Jobs, NEW w \in Workers, DispatchTick(i, w) PROVE SecuredIfOn(j)'
    BY <1>0, <1>4, DispatchSecured
  <1> QED BY <1>0, <1>1, <1>2, <1>3, <1>4, IdleSecured, WaitSecured DEF CronNext

LEMMA CoverInvInit == CronInit => CoverInv
  <1> SUFFICES ASSUME CronInit PROVE CoverInv
    OBVIOUS
  <1>0. CronInv /\ TickInv
    BY CronInitType, TickInvInit
  <1>1. /\ \A w \in Workers : task[w].pc = "idle"
        /\ \A o \in Runs : run[o].status = "none"
    BY DEF CronInit, StoreInit, NoTask, NoRun
  <1>2. ASSUME NEW j \in Jobs
        PROVE  /\ job[j].enabled => job[j].next # NoTime
               /\ timer[j].rev <= job[j].rev
               /\ job[j].enabled => timer[j] = NewTimer(job[j])
    <2>0. job[j] \in {AbsentRow} \cup {NewRow(s, 1) : s \in Schedules}
      BY DEF CronInit, StoreInit
    <2>1. CASE job[j] = AbsentRow
      <3>1. timer[j] = NoTimer
        BY <2>1 DEF CronInit, AbsentRow
      <3> QED BY <2>1, <3>1 DEF AbsentRow, NoTimer
    <2>2. ASSUME NEW s \in Schedules, job[j] = NewRow(s, 1)
          PROVE  job[j].next # NoTime /\ timer[j] = NewTimer(job[j])
      <3>1. s.kind \in {"at", "every"} /\ s.n \in 1 .. MaxTime /\ MaxTime \in Nat
        BY ScheduleFacts, CronAssumption
      <3>2. NextRun(s, 1) # NoTime
        BY <3>1 DEF NextRun, NoTime, Later
      <3> QED BY <2>2, <3>2 DEF CronInit, NewRow
    <2>3. ASSUME timer[j] = NewTimer(job[j]) PROVE timer[j].rev <= job[j].rev
      <3>1. timer[j].rev = job[j].rev /\ job[j].rev \in Nat
        BY <1>0, <2>3, RowNat DEF NewTimer, CronInv
      <3> QED BY <3>1
    <2> QED BY <2>0, <2>1, <2>2, <2>3
  <1>3. ASSUME NEW j \in Jobs, job[j].enabled
        PROVE  /\ TimerSet(j) /\ timer[j].planned <= job[j].next
    <2>1. timer[j] = NewTimer(job[j]) /\ job[j].next \in Nat
      BY <1>0, <1>2, <1>3, RowNat DEF CronInv
    <2> QED BY <2>1 DEF NewTimer, TimerSet
  <1>4. RunsPast /\ NextSet /\ TimerBehind
    BY <1>1, <1>2, <1>3, RunsFacts DEF RunsPast, NextSet, TimerBehind
  <1>5. RowOfRun /\ AddingInv /\ UpdatingInv /\ CleaningGone /\ RevokedWaits
    BY <1>1 DEF RowOfRun, ClaimPcs, OwnPcs, AddingInv, UpdatingInv, CleaningGone, RevokedWaits
  <1>6. \A j \in Jobs : SecuredIfOn(j)
    BY <1>0, <1>1, <1>3, PlannedFacts DEF SecuredIfOn, Secured
  <1> QED BY <1>4, <1>5, <1>6 DEF CoverInv

LEMMA CoverInvStep ==
  ASSUME CronInv, ReceiptInv, TickInv, CoverInv, [CronNext]_cronVars,
         "resume_add" \notin Commands
  PROVE  CoverInv'
  <1>0. /\ RunsPast /\ NextSet /\ TimerBehind /\ RowOfRun /\ AddingInv /\ UpdatingInv
        /\ CleaningGone /\ RevokedWaits /\ GateInv /\ NotYet /\ TimersInv
    BY DEF CoverInv, TickInv
  <1>1. RunsPast' /\ NextSet' /\ TimerBehind'
    BY <1>0, RunsPastStep, NextSetStep, TimerBehindStep
  <1>2. RowOfRun' /\ AddingInv' /\ UpdatingInv' /\ CleaningGone' /\ RevokedWaits'
    BY <1>0, RowOfRunStep, AddingInvStep, UpdatingInvStep, CleaningGoneStep, RevokedWaitsStep
  <1>3. \A j \in Jobs : SecuredIfOn(j)'
    BY SecuredStep
  <1> QED BY <1>1, <1>2, <1>3 DEF CoverInv

\* with nobody at work on the job, whoever has its occurrence in hand is the
\* timer, a callback on its way, or the owner of the reserved run
LEMMA SecuredCovers ==
  ASSUME CronInv, CoverInv
  PROVE  TimerCovers
  <1> SUFFICES ASSUME NEW j \in Jobs, Live(j), job[j].enabled, GateFree(j), sweep.pc = "off",
                      \A w \in Workers : ~(task[w].pc = "adding" /\ task[w].run.job = j)
               PROVE  Covered(j)
    BY DEF TimerCovers
  <1>1. Secured(j) /\ ~Waiting(j)
    BY DEF CoverInv, SecuredIfOn, Waiting
  <1>2. ~Installing(j) /\ ~Closing(j)
    BY PlannedFacts DEF Installing, Closing, GateFree, GatePcs
  <1>3. Called(j) => \E w \in Workers : /\ task[w].pc = "tick" /\ task[w].run = Planned(j)
                                        /\ Current(w)
    BY PlannedFacts DEF Called, GateFree, GatePcs, Current
  <1>4. CASE TimerSet(j)
    BY <1>4 DEF TimerSet, Covered, Occurrence
  <1>5. CASE Called(j)
    BY <1>3, <1>5 DEF Covered, Planned
  <1>6. CASE run[Planned(j)].status = "reserved"
    BY <1>6 DEF Covered, Planned
  <1> QED BY <1>1, <1>2, <1>4, <1>5, <1>6 DEF Secured

\* No occurrence is lost: whenever nobody is working on a job, the next
\* occurrence its row plans has its timer, a callback on its way or a
\* reserved run, across crashes, resumes, updates and deletions - provided
\* no resume overlaps an add_job, which takes no gate.
THEOREM OccurrencesCovered ==
  ASSUME "resume_add" \notin Commands
  PROVE  CronSpec => []TimerCovers
  <1> DEFINE Inv == CronInv /\ ReceiptInv /\ TickInv /\ CoverInv
  <1>1. CronInit => Inv
    BY CronInitType, ReceiptInit, TickInvInit, CoverInvInit
  <1>2. Inv /\ [CronNext]_cronVars => Inv'
    BY CronStepType, ReceiptInvStep, TickInvStep, CoverInvStep
  <1>3. Inv => TimerCovers
    BY SecuredCovers
  <1> QED BY <1>1, <1>2, <1>3, PTL DEF CronSpec
=============================================================================
