----------------------------- MODULE CronStore -----------------------------
(***************************************************************************)
(* The durable rows of scheduled jobs and the transactions on them         *)
(* (nomifun-db/src/repository/sqlite_cron.rs): one row per job and one     *)
(* reservation per run.  A run of the schedule is identified by the job,   *)
(* the revision of its schedule and the planned time; a run asked for by   *)
(* the user is identified by the operation id of the request.              *)
(*                                                                         *)
(* Abstractions.  A row keeps what the transactions compare; the result    *)
(* text, the history table and the counters projected onto the job are     *)
(* left out.  Times after MaxTime are one value, Later: no model run gets  *)
(* that far.  Database errors are left out.                                *)
(***************************************************************************)
EXTENDS Naturals, FiniteSets

CONSTANTS
  Jobs,           \* cron_jobs.cron_job_id
  Ops,            \* operation ids of run-now requests
  Schedules,      \* the schedules users choose from
  MaxTime,        \* bound of the clock
  MaxRevisions,   \* bound of schedule_revision
  None            \* no operation id: a run of the schedule

Later == MaxTime + 1
NoTime == 0
Times == NoTime .. Later

ASSUME CronAssumption ==
  /\ MaxTime \in Nat \ {0}
  /\ MaxRevisions \in Nat \ {0}
  /\ None \notin Ops
  /\ Schedules # {}
  /\ Schedules \subseteq [kind : {"at", "every"}, n : 1 .. MaxTime]

VARIABLES
  job,   \* cron_jobs, per job
  run    \* cron_run_reservations, per run

storeVars == <<job, run>>

\* "removed" by its user, "cascaded" with the conversation it is bound to
Presence == {"absent", "live", "removed", "cascaded"}
JobRow ==
  [status : Presence, enabled : BOOLEAN, rev : 0 .. MaxRevisions,
   sched : Schedules, next : Times]

Scheduled ==
  [job : Jobs, rev : 1 .. MaxRevisions, at : Times, op : {None}]
Requested == [job : Jobs, rev : {0}, at : {NoTime}, op : Ops]
Runs == Scheduled \cup Requested

Occurrence(j, r, t) == [job |-> j, rev |-> r, at |-> t, op |-> None]
RunNow(j, o) == [job |-> j, rev |-> 0, at |-> NoTime, op |-> o]

Settled == {"ok", "error", "skipped", "missed"}
RunRow ==
  [status : {"none", "reserved"} \cup Settled, attached : BOOLEAN]
NoRun == [status |-> "none", attached |-> FALSE]

StoreTypeOK ==
  /\ job \in [Jobs -> JobRow]
  /\ run \in [Runs -> RunRow]

\* compute_next_run: a one-time schedule keeps its time, even in the past
NextRun(s, t) ==
  IF s.kind = "at" THEN s.n
  ELSE IF t + s.n > MaxTime THEN Later ELSE t + s.n

NewRow(s, t) ==
  [status |-> "live", enabled |-> TRUE, rev |-> 1, sched |-> s,
   next |-> NextRun(s, t)]
AbsentRow ==
  [status |-> "absent", enabled |-> FALSE, rev |-> 0,
   sched |-> CHOOSE s \in Schedules : TRUE, next |-> NoTime]

\* some of the jobs were added before
StoreInit ==
  /\ job \in [Jobs -> {AbsentRow} \cup {NewRow(s, 1) : s \in Schedules}]
  /\ run = [o \in Runs |-> NoRun]

---------------------------------------------------------------------------
Live(j) == job[j].status = "live"

\* the row still plans exactly this occurrence
Plans(o) ==
  /\ Live(o.job)
  /\ job[o.job].enabled
  /\ job[o.job].rev = o.rev
  /\ job[o.job].next = o.at

\* reserve_run: the insert is authorized by the job's row
Reservable(o) ==
  /\ run[o].status = "none"
  /\ IF o \in Scheduled THEN Plans(o)
     ELSE /\ Live(o.job)
          /\ \A j \in Jobs : run[RunNow(j, o.op)].status = "none"
Reserve(o) == run' = [run EXCEPT ![o].status = "reserved"]

\* attach_run_conversation: a settled run acquires no conversation
Attachable(o) ==
  /\ Live(o.job)
  /\ run[o].status = "reserved" \/ run[o].attached
Attach(o) == run' = [run EXCEPT ![o].attached = TRUE]

\* finalize_run_with_job_projection: only a reserved run is settled
Finalizable(o) == Live(o.job) /\ run[o].status = "reserved"
Finalize(o, s) ==
  run' = [run EXCEPT ![o].status = IF Finalizable(o) THEN s ELSE @]

\* advance_scheduled_occurrence: a compare-and-set on the planned occurrence
\* that also demands its settled run
AdvanceableOk(o) == Plans(o) /\ run[o].status = "ok"
Advanceable(o) == Plans(o) /\ run[o].status \in Settled
AdvancedRow(o, t) ==
  IF job[o.job].sched.kind = "at"
  THEN [job[o.job] EXCEPT !.enabled = FALSE, !.next = NoTime]
  ELSE [job[o.job] EXCEPT !.next = NextRun(job[o.job].sched, t)]

\* delete and delete_by_conversation take the job's runs with them
DeleteJob(j, s) ==
  /\ job' = [job EXCEPT ![j].status = s]
  /\ run' = [o \in Runs |-> IF o.job = j THEN NoRun ELSE run[o]]
=============================================================================
