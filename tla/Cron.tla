-------------------------------- MODULE Cron --------------------------------
(***************************************************************************)
(* Scheduled jobs: the timers (nomifun-cron/src/scheduler.rs), the service *)
(* that admits, settles and advances their occurrences (service.rs) and    *)
(* the executor that hands a run to its conversation (executor.rs), over   *)
(* the rows of CronStore.                                                  *)
(*                                                                         *)
(* A worker is a tokio task: a timer's callback, a run-now request, an     *)
(* update, an insertion or the clean-up after a deletion.  The program     *)
(* counter of a task says which locks it holds: the job's gate and the     *)
(* executor's busy mark last as long as a stretch of the running function, *)
(* so they are operators here.  The registration of active runs decides    *)
(* only what a resume logs.                                                *)
(*                                                                         *)
(* Timer generations are numbers in the code; what they decide is whether  *)
(* the installation a callback came from is still the current one, so the  *)
(* model keeps the set of tasks whose installation was replaced or         *)
(* cancelled.                                                              *)
(*                                                                         *)
(* One unit of the model's clock is longer than the code's millisecond: an *)
(* occurrence whose time has come is overdue for a resume that follows.    *)
(***************************************************************************)
EXTENDS CronStore

CONSTANTS
  Workers,      \* tokio tasks
  Shared,       \* the jobs bound to one conversation
  Commands,     \* what the users of this instance do
  MaxCommands,  \* bound of the users' commands
  MaxFaults     \* bound of crashes and unproven turns

ASSUME WorkerAssumption ==
  /\ Shared \subseteq Jobs
  /\ MaxCommands \in Nat
  /\ MaxFaults \in Nat

VARIABLES
  now,      \* the wall clock
  timer,    \* CronScheduler.handles, per job
  revoked,  \* tasks whose timer installation is no longer current
  task,     \* per worker
  receipt,  \* the conversation's delivery receipt of a run
  live,     \* runs whose turn a runtime of this process executes
  sweep,    \* the pass of init or of handle_system_resume
  left      \* what remains of the bounds

cronVars ==
  <<job, run, now, timer, revoked, task, receipt, live, sweep, left>>

NoTimer == [rev |-> 0, planned |-> NoTime, at |-> NoTime,
            due |-> NoTime, every |-> 0]
Timer == [rev : 0 .. MaxRevisions, planned : Times, at : Times,
          due : Times, every : 0 .. MaxTime]
NewTimer(row) ==
  [rev |-> row.rev, planned |-> row.next, at |-> row.next,
   due |-> row.next,
   every |-> IF row.sched.kind = "at" THEN 0 ELSE row.sched.n]

Pcs == {"idle", "tick", "claiming", "reserved", "verified", "admitted",
        "attached", "sending", "waiting", "result", "advancing",
        "duplicate", "adding", "updating", "installing", "cleaning"}
Outcomes == {"none", "ok", "error", "unexecutable", "skipped"}
NoTask ==
  [pc |-> "idle", run |-> None, row |-> None, outcome |-> "none"]
Task ==
  {NoTask} \cup [pc : Pcs \ {"idle"}, run : Runs, row : JobRow,
                 outcome : Outcomes]

SweepPcs == {"off", "recovering", "recovered", "listing", "sweeping",
             "missed", "passed"}
Sweep == [pc : SweepPcs, boot : BOOLEAN, runs : SUBSET Runs,
          todo : SUBSET Jobs, run : Runs \cup {None}]
NoSweep == [pc |-> "off", boot |-> FALSE, runs |-> {}, todo |-> {},
            run |-> None]

CronTypeOK ==
  /\ StoreTypeOK
  /\ now \in 1 .. MaxTime
  /\ timer \in [Jobs -> Timer]
  /\ revoked \subseteq Workers
  /\ task \in [Workers -> Task]
  /\ receipt \in [Runs -> {"none", "accepted", "ok", "error"}]
  /\ live \subseteq Runs
  /\ sweep \in Sweep
  /\ left \in [commands : 0 .. MaxCommands, faults : 0 .. MaxFaults]

CronInit ==
  /\ StoreInit
  /\ now = 1
  /\ timer = [j \in Jobs |->
                IF job[j].status = "live" THEN NewTimer(job[j]) ELSE NoTimer]
  /\ revoked = {}
  /\ task = [w \in Workers |-> NoTask]
  /\ receipt = [o \in Runs |-> "none"]
  /\ live = {}
  /\ sweep = NoSweep
  /\ left = [commands |-> MaxCommands, faults |-> MaxFaults]

---------------------------------------------------------------------------
(* Locks that are held as long as a function runs                          *)

\* job_gate
GatePcs == {"claiming", "reserved", "verified", "advancing", "updating",
            "installing"}
GateFree(j) ==
  /\ \A w \in Workers :
       task[w].pc \in GatePcs => task[w].run.job # j
  /\ sweep.pc \in {"recovered", "missed", "passed"} => sweep.run.job # j

\* CronBusyGuard: a run of an unbound job has a conversation of its own
Busy(o) ==
  /\ o.job \in Shared
  /\ \E w \in Workers :
       task[w].pc \in {"sending", "waiting"} /\ task[w].run.job = o.job

---------------------------------------------------------------------------
(* The timers.  Every installation, replacement or cancellation revokes    *)
(* the callbacks of the installation before it.                            *)

TickPcs == {"tick", "claiming", "reserved", "verified"}
TicksOf(js) ==
  {w \in Workers : task[w].pc \in TickPcs /\ task[w].run.job \in js}

CancelTimers(js) ==
  /\ timer' = [j \in Jobs |-> IF j \in js THEN NoTimer ELSE timer[j]]
  /\ revoked' = revoked \cup TicksOf(js)

\* the incoming installation is not older than the current one
Newer(j, row) ==
  \/ row.rev > timer[j].rev
  \/ row.rev = timer[j].rev /\ row.next >= timer[j].planned

\* schedule_job
ScheduleJob(j, row) ==
  IF row.enabled /\ row.next # NoTime
  THEN IF Newer(j, row)
       THEN /\ timer' = [timer EXCEPT ![j] = NewTimer(row)]
            /\ revoked' = revoked \cup TicksOf({j})
       ELSE UNCHANGED <<timer, revoked>>
  ELSE IF timer[j].rev <= row.rev THEN CancelTimers({j})
       ELSE UNCHANGED <<timer, revoked>>

\* is_current_generation
AlwaysCurrent(w) == TRUE
Current(w) == w \notin revoked

Goto(w, pc) == task' = [task EXCEPT ![w].pc = pc]
Return(w) == task' = [task EXCEPT ![w] = NoTask]
\* workers are alike: a new task takes one fixed idle worker
Start(w, pc, o, row) ==
  /\ task[w].pc = "idle"
  /\ w = CHOOSE v \in Workers : task[v].pc = "idle"
  /\ task' = [task EXCEPT ![w] =
                [pc |-> pc, run |-> o, row |-> row, outcome |-> "none"]]

\* a timer whose time has come calls back; an interval goes on from the
\* time of the call, and so does the time it plans next
DispatchTick(j, w) ==
  /\ timer[j].rev > 0
  /\ timer[j].due <= now
  /\ Start(w, "tick", Occurrence(j, timer[j].rev, timer[j].at), job[j])
  /\ LET n == timer[j].every
         past(t) == IF n = 0 \/ t + n > MaxTime THEN Later ELSE t + n
     IN timer' = [timer EXCEPT ![j].at = past(@), ![j].due = past(now)]
  /\ UNCHANGED <<job, run, now, revoked, receipt, live, sweep, left>>

---------------------------------------------------------------------------
(* tick_occurrence_with_generation                                         *)

\* the callback returns, and with it its claim to an installation
Absorbed(w) == Return(w) /\ revoked' = revoked \ {w}

\* a revoked callback and one of another revision are absorbed, the timer
\* of a job that is gone or disabled is cancelled
TickEnters(w) ==
  LET j == task[w].run.job
      same == job[j].rev = task[w].run.rev
  IN /\ task[w].pc = "tick"
     /\ GateFree(j)
     /\ \/ /\ ~Current(w) \/ (Live(j) /\ ~same)
           /\ Absorbed(w)
           /\ timer' = timer
        \/ /\ Current(w) /\ (~Live(j) \/ (same /\ ~job[j].enabled))
           /\ timer' = [timer EXCEPT ![j] = NoTimer]
           /\ revoked' = (revoked \cup TicksOf({j})) \ {w}
           /\ Return(w)
        \/ /\ Current(w) /\ Live(j) /\ same /\ job[j].enabled
           /\ task' = [task EXCEPT ![w].pc = "claiming", ![w].row = job[j]]
           /\ UNCHANGED <<timer, revoked>>
     /\ UNCHANGED <<job, run, now, receipt, live, sweep, left>>

\* the durable claim; a replay or a stale claim is absorbed
TickReserves(w) ==
  /\ task[w].pc = "claiming"
  /\ IF Current(w) /\ Reservable(task[w].run)
     THEN /\ Reserve(task[w].run)
          /\ Goto(w, "reserved")
          /\ revoked' = revoked
     ELSE run' = run /\ Absorbed(w)
  /\ UNCHANGED <<job, now, timer, receipt, live, sweep, left>>

\* the second proof of the generation and of the exact row; an occurrence
\* that lost its authority is settled and not advanced
TickVerifies(w) ==
  /\ task[w].pc = "reserved"
  /\ IF Current(w) /\ Plans(task[w].run)
     THEN Goto(w, "verified") /\ UNCHANGED <<run, revoked>>
     ELSE Finalize(task[w].run, "skipped") /\ Absorbed(w)
  /\ UNCHANGED <<job, now, timer, receipt, live, sweep, left>>

\* commit_if_current_generation; the gate is released
TickCommits(w) ==
  /\ task[w].pc = "verified"
  /\ IF Current(w)
     THEN Goto(w, "admitted") /\ UNCHANGED <<run, revoked>>
     ELSE Finalize(task[w].run, "skipped") /\ Absorbed(w)
  /\ UNCHANGED <<job, now, timer, receipt, live, sweep, left>>

---------------------------------------------------------------------------
(* run_now                                                                 *)

Spend(c) ==
  /\ c \in Commands
  /\ ~sweep.boot
  /\ left.commands > 0
  /\ left' = [left EXCEPT !.commands = @ - 1]

\* a new operation id is admitted; one that is known and has no
\* conversation yet goes on to settle the reservation it read
NowReserves(w, j, o) ==
  LET r == RunNow(j, o)
  IN /\ Spend("now")
     /\ \/ /\ Reservable(r)
           /\ Reserve(r)
           /\ Start(w, "admitted", r, job[j])
        \/ /\ Finalizable(r)
           /\ ~run[r].attached
           /\ Start(w, "duplicate", r, job[j])
           /\ run' = run
     /\ UNCHANGED <<job, now, timer, revoked, receipt, live, sweep>>

DuplicateSettles(w) ==
  /\ task[w].pc = "duplicate"
  /\ Finalize(task[w].run, "error")
  /\ Return(w)
  /\ UNCHANGED <<job, now, timer, revoked, receipt, live, sweep, left>>

\* mark_job_unexecutable
Disabled(w) ==
  LET j == task[w].run.job
  IN job' = [job EXCEPT ![j].enabled =
               @ /\ ~(Live(j) /\ job[j].rev = task[w].row.rev)]

---------------------------------------------------------------------------
(* prepare_run_now, attach_run_conversation and execute_prepared, for the  *)
(* runs of a schedule and of a request                                     *)

Attaches(w) ==
  /\ task[w].pc = "admitted"
  /\ Attachable(task[w].run)
  /\ Attach(task[w].run)
  /\ Goto(w, "attached")
  /\ UNCHANGED <<job, now, timer, revoked, receipt, live, sweep, left>>

\* the model, the workspace, the conversation or the row is missing: a run
\* of the schedule reports it, a request settles its own run and returns
\* without the job's gate
PrepareFails(w) ==
  /\ task[w].pc = "admitted"
  /\ \E r \in {"error", "unexecutable"} :
       IF task[w].run \in Scheduled
       THEN /\ task' = [task EXCEPT ![w].pc = "result", ![w].outcome = r]
            /\ UNCHANGED <<job, run>>
       ELSE /\ Finalize(task[w].run, "error")
            /\ IF r = "unexecutable" THEN Disabled(w) ELSE job' = job
            /\ Return(w)
  /\ UNCHANGED <<now, timer, revoked, receipt, live, sweep, left>>

\* is_busy and handle_busy, or the busy mark
Begins(w) ==
  /\ task[w].pc = "attached"
  /\ IF Busy(task[w].run)
     THEN task' = [task EXCEPT ![w].pc = "result", ![w].outcome = "skipped"]
     ELSE Goto(w, "sending")
  /\ UNCHANGED <<job, run, now, timer, revoked, receipt, live, sweep, left>>

\* the conversation accepts the turn under the run's own key
Sends(w) ==
  /\ task[w].pc = "sending"
  /\ job[task[w].run.job].status # "cascaded"
  /\ receipt' = [receipt EXCEPT ![task[w].run] = "accepted"]
  /\ live' = live \cup {task[w].run}
  /\ Goto(w, "waiting")
  /\ UNCHANGED <<job, run, now, timer, revoked, sweep, left>>

\* the conversation is gone, busy with someone else's turn or being stopped
SendRefused(w) ==
  /\ task[w].pc = "sending"
  /\ task' = [task EXCEPT ![w].pc = "result", ![w].outcome = "error"]
  /\ UNCHANGED <<job, run, now, timer, revoked, receipt, live, sweep, left>>

\* accepted, then an error whose turn cannot be proved to have ended: the
\* run stays reserved (ExecutionResult::Quarantined)
SendUnproven(w) ==
  /\ task[w].pc = "sending"
  /\ left.faults > 0
  /\ job[task[w].run.job].status # "cascaded"
  /\ receipt' = [receipt EXCEPT ![task[w].run] = "accepted"]
  /\ left' = [left EXCEPT !.faults = @ - 1]
  /\ Return(w)
  /\ UNCHANGED <<job, run, now, timer, revoked, live, sweep>>

\* the turn ends and its receipt with it
TurnEnds(o) ==
  /\ o \in live
  /\ \E r \in {"ok", "error"} : receipt' = [receipt EXCEPT ![o] = r]
  /\ live' = live \ {o}
  /\ UNCHANGED <<job, run, now, timer, revoked, task, sweep, left>>

\* await_durable_turn_completion
WaitObserves(w) ==
  /\ task[w].pc = "waiting"
  /\ receipt[task[w].run] \in {"ok", "error"}
  /\ task' = [task EXCEPT ![w].pc = "result",
                          ![w].outcome = receipt[task[w].run]]
  /\ UNCHANGED <<job, run, now, timer, revoked, receipt, live, sweep, left>>

\* handle_execution_result and handle_run_now_result: a run that is not
\* reserved any more leaves the job alone.  success_run_projection does not
\* fail (see the README).
SettledVerbatim(outcome) == outcome
SettledAs(outcome) ==
  IF outcome = "unexecutable" THEN "error" ELSE outcome
Settles(w) ==
  LET o == task[w].run
  IN /\ task[w].pc = "result"
     /\ GateFree(o.job)
     /\ Finalize(o, SettledAs(task[w].outcome))
     /\ IF Finalizable(o)
           /\ (o \in Scheduled \/ task[w].outcome = "unexecutable")
        THEN Goto(w, "advancing")
        ELSE Return(w)
     /\ UNCHANGED <<job, now, timer, revoked, receipt, live, sweep, left>>

\* advance_after_terminal_occurrence: a stale finalizer changes nothing
AdvancesRowOnly(o) ==
  /\ job' = [job EXCEPT ![o.job] =
               IF Advanceable(o) THEN AdvancedRow(o, now) ELSE @]
  /\ UNCHANGED <<timer, revoked>>
AdvanceAfter(o) ==
  IF Advanceable(o)
  THEN LET row == AdvancedRow(o, now)
       IN job' = [job EXCEPT ![o.job] = row] /\ ScheduleJob(o.job, row)
  ELSE UNCHANGED <<job, timer, revoked>>

Advances(w) ==
  /\ task[w].pc = "advancing"
  /\ IF task[w].outcome = "unexecutable"
     THEN Disabled(w) /\ UNCHANGED <<timer, revoked>>
     ELSE AdvanceAfter(task[w].run)
  /\ Return(w)
  /\ UNCHANGED <<run, now, receipt, live, sweep, left>>

---------------------------------------------------------------------------
(* The users' commands                                                     *)

\* A resume may install the timer of a row that add_job has written before
\* add_job does.  add_job's own installation can then revoke a callback that
\* has reserved its occurrence, and nobody advances the job (see the README).
\* The code has no such guard: this one keeps the two apart unless the command
\* "resume_add" lets them overlap.
MayOverlap(adding, resuming) ==
  adding /\ resuming => "resume_add" \in Commands

\* add_job, without the gate: the row, then its timer
AddJob(w, j) ==
  \E s \in Schedules :
    LET row == NewRow(s, now)
    IN /\ job[j].status = "absent"
       /\ Spend("add")
       /\ MayOverlap(TRUE, sweep.pc # "off")
       /\ job' = [job EXCEPT ![j] = row]
       /\ Start(w, "adding", Occurrence(j, 1, row.next), row)
       /\ UNCHANGED <<run, now, timer, revoked, receipt, live, sweep>>

\* update_job, under the gate: the timer is cancelled, the row is written
\* with the next revision, its timer is installed
UpdateJob(w, j) ==
  /\ Live(j)
  /\ GateFree(j)
  /\ job[j].rev < MaxRevisions
  /\ Spend("update")
  /\ CancelTimers({j})
  /\ Start(w, "updating", Occurrence(j, job[j].rev, job[j].next), job[j])
  /\ UNCHANGED <<job, run, now, receipt, live, sweep>>

UpdateWrites(w) ==
  LET j == task[w].run.job
      same == Live(j) /\ job[j].rev = task[w].row.rev
  IN /\ task[w].pc = "updating"
     /\ \/ /\ same
           /\ \E on \in BOOLEAN, s \in Schedules :
                LET row == [job[j] EXCEPT !.enabled = on, !.rev = @ + 1,
                              !.sched = s, !.next = NextRun(s, now)]
                IN /\ job' = [job EXCEPT ![j] = row]
                   /\ task' = [task EXCEPT ![w].pc = "installing",
                                           ![w].row = row]
           /\ UNCHANGED <<timer, revoked>>
        \/ /\ ~same
           /\ IF Live(j) THEN ScheduleJob(j, job[j]) ELSE CancelTimers({j})
           /\ job' = job
           /\ Return(w)
     /\ UNCHANGED <<run, now, receipt, live, sweep, left>>

\* the timer of the row add_job or update_job wrote
Installs(w) ==
  /\ task[w].pc \in {"adding", "installing"}
  /\ ScheduleJob(task[w].run.job, task[w].row)
  /\ Return(w)
  /\ UNCHANGED <<job, run, now, receipt, live, sweep, left>>

\* remove_job, under the gate
RemoveJob(j) ==
  /\ Live(j)
  /\ GateFree(j)
  /\ Spend("remove")
  /\ CancelTimers({j})
  /\ DeleteJob(j, "removed")
  /\ UNCHANGED <<now, task, receipt, live, sweep>>

\* the bound conversation is deleted, once no turn runs in it, and its job
\* with it: the rows without the gate, the timer afterwards
CascadeDelete(w, j) ==
  /\ j \in Shared
  /\ Live(j)
  /\ \A o \in live : o.job # j
  /\ Spend("cascade")
  /\ DeleteJob(j, "cascaded")
  /\ Start(w, "cleaning", Occurrence(j, job[j].rev, job[j].next), job[j])
  /\ UNCHANGED <<now, timer, revoked, receipt, live, sweep>>

\* cleanup_deleted_jobs, which its caller may give up waiting for
CleansUp(w) ==
  /\ task[w].pc = "cleaning"
  /\ \/ GateFree(task[w].run.job) /\ CancelTimers({task[w].run.job})
     \/ UNCHANGED <<timer, revoked>>
  /\ Return(w)
  /\ UNCHANGED <<job, run, now, receipt, live, sweep, left>>

---------------------------------------------------------------------------
(* handle_system_resume, and init after a crash                            *)

SystemResume ==
  /\ sweep.pc = "off"
  /\ Spend("resume")
  /\ \A w \in Workers : MayOverlap(task[w].pc = "adding", TRUE)
  /\ CancelTimers(Jobs)
  /\ sweep' = [sweep EXCEPT !.pc = "listing"]
  /\ UNCHANGED <<job, run, now, task, receipt, live>>

SweepLists ==
  /\ sweep.pc = "listing"
  /\ sweep' = [sweep EXCEPT !.pc = "sweeping",
                 !.todo = {j \in Jobs : Live(j) /\ job[j].enabled}]
  /\ UNCHANGED <<job, run, now, timer, revoked, task, receipt, live, left>>

\* one job of the list, reloaded under its gate.  An overdue occurrence
\* that nobody claimed is claimed as missed; one that is reserved is left
\* to its owner or, without one, to the next boot; one that is settled is
\* advanced.
SweepsJob(j) ==
  LET o == Occurrence(j, job[j].rev, job[j].next)
      overdue == /\ job[j].enabled /\ job[j].next # NoTime
                 /\ job[j].next <= now
      next == [sweep EXCEPT !.todo = @ \ {j}]
  IN /\ sweep.pc = "sweeping"
     /\ j \in sweep.todo
     /\ GateFree(j)
     /\ \/ /\ ~Live(j)
           /\ UNCHANGED <<storeVars, timer, revoked>> /\ sweep' = next
        \/ /\ Live(j) /\ ~overdue
           /\ ScheduleJob(j, job[j])
           /\ UNCHANGED storeVars /\ sweep' = next
        \/ /\ Live(j) /\ overdue /\ run[o].status = "none"
           /\ Reserve(o)
           /\ UNCHANGED <<job, timer, revoked>>
           /\ sweep' = [next EXCEPT !.pc = "missed", !.run = o]
        \/ /\ Live(j) /\ overdue /\ run[o].status = "reserved"
           /\ UNCHANGED <<storeVars, timer, revoked>> /\ sweep' = next
        \/ /\ Live(j) /\ overdue /\ run[o].status \in Settled
           /\ AdvanceAfter(o)
           /\ run' = run /\ sweep' = next
     /\ UNCHANGED <<now, task, receipt, live, left>>

SweepMisses ==
  /\ sweep.pc = "missed"
  /\ Finalize(sweep.run, "missed")
  /\ sweep' = IF Finalizable(sweep.run)
              THEN [sweep EXCEPT !.pc = "passed"]
              ELSE [sweep EXCEPT !.pc = "sweeping", !.run = None]
  /\ UNCHANGED <<job, now, timer, revoked, task, receipt, live, left>>

SweepAdvances ==
  /\ sweep.pc \in {"passed", "recovered"}
  /\ AdvanceAfter(sweep.run)
  /\ sweep' = [sweep EXCEPT !.run = None,
                 !.pc = IF sweep.pc = "passed" THEN "sweeping"
                        ELSE "recovering"]
  /\ UNCHANGED <<run, now, task, receipt, live, left>>

SweepEnds ==
  /\ sweep.pc = "sweeping"
  /\ sweep.todo = {}
  /\ sweep' = NoSweep
  /\ UNCHANGED <<job, run, now, timer, revoked, task, receipt, live, left>>

\* the process dies; init lists the reserved runs before anything else
Crash ==
  /\ left.faults > 0
  /\ left' = [left EXCEPT !.faults = @ - 1]
  /\ timer' = [j \in Jobs |-> NoTimer]
  /\ revoked' = {}
  /\ task' = [w \in Workers |-> NoTask]
  /\ live' = {}
  /\ sweep' = [NoSweep EXCEPT !.pc = "recovering", !.boot = TRUE,
                 !.runs = {o \in Runs : run[o].status = "reserved"}]
  /\ UNCHANGED <<job, run, now, receipt>>

\* recover_exact_reserved_run: without a receipt the turn never started; a
\* receipt that is accepted is ended by the conversation's own recovery or
\* keeps the run reserved
ProofAssumed(o) == TRUE
Proven(o) == receipt[o] # "accepted"
RecoverRun(o) ==
  LET done == [sweep EXCEPT !.runs = @ \ {o}]
  IN /\ sweep.pc = "recovering"
     /\ o \in sweep.runs
     /\ GateFree(o.job)
     /\ \/ /\ Proven(o)
           /\ Finalize(o, IF receipt[o] = "ok" THEN "ok" ELSE "error")
           /\ receipt' = receipt
           /\ sweep' = IF o \in Scheduled
                       THEN [done EXCEPT !.pc = "recovered", !.run = o]
                       ELSE done
        \/ /\ receipt[o] = "accepted"
           /\ receipt' = [receipt EXCEPT ![o] = "error"]
           /\ UNCHANGED <<run, sweep>>
        \/ /\ receipt[o] = "accepted"
           /\ sweep' = done
           /\ UNCHANGED <<run, receipt>>
     /\ UNCHANGED <<job, now, timer, revoked, task, live, left>>

RecoverEnds ==
  /\ sweep.pc = "recovering"
  /\ sweep.runs = {}
  /\ CancelTimers(Jobs)
  /\ sweep' = [sweep EXCEPT !.pc = "listing"]
  /\ UNCHANGED <<job, run, now, task, receipt, live, left>>

ClockTicks ==
  /\ now < MaxTime
  /\ now' = now + 1
  /\ UNCHANGED <<job, run, timer, revoked, task, receipt, live, sweep, left>>

---------------------------------------------------------------------------
WorkerStep(w) ==
  \/ TickEnters(w) \/ TickReserves(w) \/ TickVerifies(w) \/ TickCommits(w)
  \/ DuplicateSettles(w) \/ Attaches(w) \/ PrepareFails(w) \/ Begins(w)
  \/ Sends(w) \/ SendRefused(w) \/ SendUnproven(w) \/ WaitObserves(w)
  \/ Settles(w) \/ Advances(w) \/ UpdateWrites(w) \/ Installs(w)
  \/ CleansUp(w)

SweepStep ==
  \/ SweepLists \/ (\E j \in Jobs : SweepsJob(j)) \/ SweepMisses
  \/ SweepAdvances \/ SweepEnds \/ (\E o \in Runs : RecoverRun(o))
  \/ RecoverEnds

UserStep ==
  \/ \E w \in Workers, j \in Jobs :
       \/ AddJob(w, j) \/ UpdateJob(w, j) \/ CascadeDelete(w, j)
       \/ \E o \in Ops : NowReserves(w, j, o)
  \/ \E j \in Jobs : RemoveJob(j)
  \/ SystemResume

CronNext ==
  \/ \E w \in Workers : WorkerStep(w)
  \/ \E j \in Jobs, w \in Workers : DispatchTick(j, w)
  \/ \E o \in Runs : TurnEnds(o)
  \/ SweepStep \/ UserStep \/ Crash \/ ClockTicks

CronSpec == CronInit /\ [][CronNext]_cronVars

\* tokio runs every task that is ready and every timer whose time has come,
\* the sweep is a task itself, and turns end
CronFairSpec ==
  /\ CronSpec
  /\ \A w \in Workers : WF_cronVars(WorkerStep(w))
  /\ \A j \in Jobs :
       WF_cronVars(\E w \in Workers : DispatchTick(j, w))
  /\ WF_cronVars(\E o \in Runs : TurnEnds(o))
  /\ WF_cronVars(SweepStep)
=============================================================================
