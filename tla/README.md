# Agent executions, AutoWork and cron: TLA+ models

This directory holds TLA+ models of the three parts of allo that start model
turns on their own: the Agent Execution engine, the AutoWork loop over the
requirement board, and the cron service. Each keeps durable rows, carries what
it read from them across awaits, and has to survive users, timers and crashes
in any order. TLC checks the models on small instances, and TLAPS proves their
type correctness and their main safety properties for every value of their
constants.

## The system

### Parts of the repository

allo is a desktop and server product around AI agents: a Rust backend of some
forty crates, React front ends and desktop shells. Most crates are adapters
(messengers, files, MCP, PTYs, HTTP routes) around a SQLite database. Three
parts have to be right under concurrency and failure, because the model turns
they start take minutes, cost money and act on the user's machine:

* the Agent Execution engine carries out a plan of dependent steps while users
  pause, steer, answer, retry and replan it;
* AutoWork gives the requirements of a queue one after the other to a
  Conversation or a terminal and settles them from what it can prove;
* cron runs jobs at their times, across sleeping machines and edited schedules.

| Component | State | Operations | Interaction |
|---|---|---|---|
| store (`nomifun-db`, `sqlite_agent_execution.rs`) | rows of executions, steps, attempts, dependencies, Conversation links, receipts | one transaction per method, fenced by versions and by the scheduler lease | called by everything below |
| scheduler (`nomifun-agent-execution`, `scheduler.rs`) | the active map, a cancel and a restart flag per generation, in-flight jobs, the last snapshot | lease, effect delivery, recovery, loop, dispatch, settlement, finalisation | reads and writes the store; calls the runner |
| engine (`engine.rs`) | none of its own | plan, approve, pause, resume, cancel, delete, replan, adjust, retry, adopt, steer, ask, answer, boot recovery | commits a command, then starts or stops the scheduler |
| attempt runner (`attempt_runner.rs`) | none | create a Conversation, deliver a turn, wait for its end | called by jobs of the scheduler |
| Conversation service (`nomifun-conversation`, `service.rs`) | admission, active turn, receipts | admit, launch, stop, steer, finish a turn | runs turns detached from the caller |
| status tables (`nomi-types`, `nomifun-common`) | none | `can_transition_to` | consulted by no write of the repository |
| planner, participants, control steps, event outbox, artifact contract, cleanup, lead report | rows of their own | see `PROJECT.json` | around the loop |
| requirement board (`nomifun-db`, `sqlite_requirement.rs`) | requirement rows with status, owner and claim generation; paused tags | claim, recover, abandon, resolve, requeue, sweep, pause and resume a tag | every statement compares the exact claim |
| AutoWork (`nomifun-requirement`, `auto_work_runner.rs`, `service.rs`, `routes.rs`) | one loop per bound target, a transition lock per target, persisted bindings | claim, send, wait, settle; stop, start, boot, custody of a dead loop | board rows; turns of Conversations and terminals |
| turn receivers (`sqlite_conversation.rs`, `nomifun-terminal`, `sqlite_terminal.rs`) | delivery receipts; turn admissions with phases, bound to a PTY generation | admit, type, submit, settle, park; kill, relaunch, exit | called by the loops; parking projects onto the board |
| cron (`nomifun-cron`, `sqlite_cron.rs`) | job rows with revisions, run reservations, timers with generations, a gate per job, a busy mark | tick, run now, add, update, remove, resume, boot recovery | sends turns to Conversations and reads their receipts |
| IDMM, channels, gateway, knowledge, UI | rows of their own | see `PROJECT.json` | issue the same commands |

### What is hard about it

* A transaction is atomic, but the scheduler carries what it read across
  awaits: the snapshot of a pass, the versions a job was dispatched with, the
  versions its settlement is pinned to.
* A queued attempt leaves its step `pending`; the schema has no unique index on
  active attempts. Nothing but the in-memory reservation, and recovery after a
  crash, keeps a step from being dispatched twice.
* A model turn outlives the job that launched it: a dropped future, a timeout
  or a cancelled generation leaves it running.
* `stop` and `start` follow the commit of a command after further awaits, so
  they reach the scheduler in any order.
* A lease can expire under live jobs; a generation can be cancelled between any
  two steps; the process can die anywhere.
* A question stops its own turn by a durable effect, the answer starts the next
  turn by another; both are delivered at least once.
* A requirement's claim passes through a loop, a receiver, a custodian, a
  request that stops the loop and a sweeper; each may find that another was
  faster, and none may hand out work that was admitted before.
* A prompt is typed and submitted in two writes to a PTY that may be killed,
  relaunched or lost between them.
* A timer's callback is on its way when a resume cancels all timers or an
  update replaces the schedule; reserving its run is an await.
* After a crash only a receipt tells whether a cron run or a requirement was
  given to an agent.

`PROJECT.json` lists these as hazards, each at its line, with the properties
that would catch it.

### What makes it correct

* store: rows of one aggregate agree with each other (`RowsAgree`), statuses
  move only as `can_transition_to` allows (`ImplementsLifecycle`), a settled
  aggregate changes only at a user's command (`OnlyUsersReopen`).
* scheduler: one attempt in flight per step (`OneActiveAttempt`), every
  reservation owned (`QueuedHasOwner`), settlement justified by the steps
  (`SettledIsJustified`), a pause leaves nothing behind (`PausedIsQuiet`).
* Conversations: one turn at a time (`SerialConversation`), effects deliverable
  (`EffectsDeliverable`) and delivered (`EffectsDelivered`), an attempt parked
  for review not taken up again (`ReviewIsFinal`).
* an execution as a whole: a running one moves on (`Progress`).
* AutoWork: work is handed out at most once (`AtMostOnce`), reported done only
  when it was handed out (`DoneWasRun`), by one driver at a time (`OneDriver`);
  a user's stop holds (`UserStopHolds`), a new loop meets no half-written prompt
  (`CleanStart`), and every claim is closed in the end (`ClaimsClose`).
* cron: the record of a run agrees with its turn (`ReceiptDecides`,
  `RequestedReceiptDecides`), a planned occurrence has a timer (`TimerCovers`),
  a revoked callback runs nothing (`AdmittedIsCurrent`), and every due
  occurrence is dealt with (`OccurrenceCloses`).

## Modules

| Module | What it is |
|---|---|
| `ExecutionStore` | the rows, and one operator per repository transaction |
| `ExecutionScheduler` | generations, lease, loop, futures, settlement, turns, crash |
| `AgentExecution` | commands and their continuations; `Spec` and `FairSpec` |
| `ExecutionLifecycle` | abstract specification: the three status tables |
| `ExecutionCorrectness` | every property, and the refinement mapping |
| `MCAgentExecution` | the plans TLC uses |
| `ExecutionProofs` | type correctness: proofs |
| `OwnershipProofs` | one attempt in flight, agreeing rows, owned reservations, quiet pauses: proofs |
| `SettlementProofs` | justified settlement, final reviews, reopening by users only, deliverable effects, the refinement of the lifecycle: proofs |
| `ConversationProofs` | one turn at a time: proof |
| `RequirementStore` | the requirement rows and paused tags, and what each statement selects and writes |
| `TurnReceivers` | Conversations and terminals as receivers of claims |
| `AutoWork` | loops, custody, sweeper, requests, boot, commands; `AutoWorkSpec`, `AutoWorkFairSpec` |
| `AutoWorkCorrectness`, `MCAutoWork` | its properties; the instances TLC checks |
| `AutoWorkProofs`, `VerdictProofs` | types, at most once, stops hold; done only after a run: proofs |
| `DriverProofs` | one driver per claim, clean starts: proofs |
| `CronStore` | job rows and run reservations, and the transactions on them |
| `Cron` | timers, ticks, runs, commands, resume, boot; `CronSpec`, `CronFairSpec` |
| `CronCorrectness`, `MCCron` | its properties; the schedules TLC uses |
| `CronProofs` | types, receipts decide, admissions are current, no occurrence is lost: proofs |

`AgentExecution` extends `ExecutionScheduler`, which extends `ExecutionStore`;
`ExecutionCorrectness` extends `AgentExecution` and instantiates
`ExecutionLifecycle` with the statuses of the rows. `AutoWork` extends
`TurnReceivers`, which extends `RequirementStore`; `Cron` extends `CronStore`.
The three families share no state: an attempt's Conversation is never an
AutoWork target, and cron sends to Conversations through their receipts, which
`Cron` models itself.

### ExecutionStore

Every method of the repository is one SQLite transaction that rolls back when a
compare-and-set affects no row. A method `m` is the pair `CanM` (the condition
under which it commits) and `M` (its updates). Kept: statuses, the step and
attempt versions (the fences of callbacks), the lease, the tombstone, the retry
time, the plan membership of a step, the dependency edges, the pending
conversation effects, the review mark, the active link, and of a Conversation
its active operation, its receipts and whether the receipt of the pending steer
was claimed (`steer_message_idempotent`: a claimed steer counts as delivered
from then on, even if the turn ended between claim and delivery).

Abstracted:

* *Aggregate version.* Every transaction bumps it and every command compares it
  with the value it read, so a command's read and commit are one action. Where
  the scheduler carries it across an await, `sched.fresh` says whether it is
  still the stored one.
* *Time.* A retry time is not set, ahead or reached; a lease is live or expired.
* *Lease owner.* One process owns a data directory (`server.lock`) and the owner
  name is per generation, so an owner is the generation that runs now
  (`"mine"`) or one that is gone.
* *Ids and text.* An attempt is a pair of a step and a number, an operation a
  number: 0 the initial turn, i the continuation of the i-th answer.

### ExecutionScheduler

`sched` is the registered generation with its program counter; `job` has one
future per step and one for the continuation the loop awaits inline. Every
await separates two actions. Jobs advance only in the state `wait`, the inline
continuation only in `inline`, as in the code, where the loop polls nothing
else meanwhile. Leaving the loop drops every future, and an admission that had
not launched its turn is left to its custodian (`orphan`). `turn` is what the
agent runtimes run; a turn ends at any time, well or badly.

A crash (`CrashAndRestart`) drops everything but the store, and the restart
starts a generation for an active execution, as boot recovery does. The
reconciliation of the cleanup outbox appears as `CleanupConversation`. A lost
race inside `recover_interrupted` between its read and its transaction is
folded into one step: the code restarts the generation and reads again.

### AgentExecution

A command commits (one action) and leaves a continuation in `post`: `stop`,
`start`, both in order, or the immediate delivery of an effect with its
acknowledgement. Continuations of several commands interleave freely; a crash
loses them.

### ExecutionLifecycle

The moves of `can_transition_to` for executions, steps and attempts, with three
rules that relate them: nothing moves while a settled execution stays settled,
an execution settles together with its last attempt, and a started attempt
moves together with its step. `ImplementsLifecycle` is the refinement, under
the identity mapping on statuses.

### RequirementStore and TurnReceivers

A claim is the pair of a requirement and the generation minted with it; the
random token changes with the generation and is left out. `Claimable`, `Active`
and `OwnsActive` are what the claiming transactions select, and `Claimed`,
`Abandoned`, `Resolved`, `Requeued` and `Detached` the rows they write. A lease
expires whenever no loop of its owner is installed, since the sweeper may run
at any later time.

A Conversation admits a claim with a receipt (`AdmitTurn`) whose turn starts,
ends and completes the receipt; a user may hold the Conversation, and an agent
with the requirement tools may declare a verdict (`AgentDeclares`). A terminal
admits with a row whose phase is written before the bytes (`admitted`,
`body_written`, `effects_started`, `settled`) and is bound to the PTY generation.
`term.line` holds what was typed and not yet submitted; a submit hands over the
whole line, as a carriage return does. `Park` is `park_open_turn_admissions`: it
settles every open admission of the given generations and sends the rows of
exact claims to review. `runs` is a history variable: the claims an agent was
given. The agents are external and end, fail or declare at any time.

### AutoWork

`loop[t]` is `run_loop` of a target between two awaits: preparing, claiming or
recovering, publishing, sending, waiting, settling, pausing, releasing. A loop
that panics or is cancelled in its preparation hands its claim to the
custodian (`custody`, `closing`). `handler[h]` is a `set_autowork` request, or the
boot task, on its way through stop (abort, park, resolve) and start under the
target's transition lock. `Sweep`, the user's commands (`Requeue`, `SetStatus`,
`Delete`, `Retag`, `ResumeTag`, `UserCancels`, `DeleteTerminal`) and `Crash`
interleave with every step. A crash drops loops, turns and PTYs, reconciles the
terminal rows as the boot does and leaves the persisted bindings to `Boot`.
`requeuedAt` and `stopped` are history variables of the properties.

### CronStore and Cron

A scheduled run is identified by job, schedule revision and planned time, a
requested one by its operation id. `Reserve`, `Attach`, `Finalize` and the
advance (`Advanceable`, `AdvancedRow`) are the transactions with their fences.
`task[w]` is a tokio task; its program counter says whether it holds the gate of
the job and the busy mark of the executor, so neither needs a variable. Of a
timer generation only "still current" matters: `revoked` holds the tasks whose
installation was replaced or cancelled. `sweep` is the pass of
`handle_system_resume` or of the recovery at boot. `now` is the wall clock; it
advances at any time, so a timer fires arbitrarily late. A receipt survives the
process; an accepted turn whose process died is either proved an orphan by the
recovery, which closes it as an error, or stays unknown, and then its run stays
reserved.

## Runs

| Run | Instance | Shows |
|---|---|---|
| `attempts` | one step, 2 attempts, one question, 2 commands, a crash, a stalled heartbeat | whatever the order of asking, answering, steering, pausing, resuming, cancelling, retrying and adopting, with automatic retries, and wherever the crash falls: rows agree, no second attempt or turn, no reservation forgotten, pauses quiet, effects deliverable, review final, the lifecycle implemented. `MaxParallel` is 2 so that a free slot never hides a second dispatch |
| `plans` | two steps, chained or side by side, plans revised, 2 commands | snapshots outdated by replan, adjust, retry, adopt and delete settle nothing wrongly; every command that reopens is a user's; the lifecycle again |
| `progress` | fair, a crash, pause, resume, retry | a running execution settles or stops at a command |
| `answers` | fair, a question, an answer, a pause | effects are delivered and the execution moves on |
| `board` | one requirement, two queues, two Conversations, 2 commands, a fault | work is handed out at most once, done only after a run, a stop holds |
| `handover` | fair; a Conversation and a terminal with two PTY generations on one queue, a request, 2 commands, a fault | one driver, at most once across kills and relaunches, clean starts, stops hold, every claim is closed |
| `cron` | fair; one bound job, two revisions, a clock of 3, two tasks, 2 commands, a crash | receipts decide, timers cover, callbacks are current, occurrences close |
| `late_callback` | violation | a callback from before a question settles the answered attempt |
| `lost_stop` | violation, fair; a question, a crash | the stop that a question owes is refused for ever |
| `lost_settlement` | violation, fair; a steer | a settlement that lost to a steer is dropped and the execution runs for ever |
| `lost_retag` | violation | a claim retagged before a restart is never closed |
| `duplicate_now` | violation | a repeated request settles a run whose turn is under way |

The five violations are disagreements between the code and its own
documentation or comments; each is quoted under `findings`.

### Bounds

Executions: `MaxAttempts`, `MaxDecisions`, `MaxCommands`, `MaxCrashes`,
`MaxFaults`, `MaxOutstanding`. Two attempts per step are what a duplicate
dispatch, a retry and an adoption need; one question per attempt gives two
turns to one Conversation, which is what a serial Conversation, a late callback
and a repeated effect need; two commands, besides questions and a crash, are a
command and its undoing with an intruder (pause, crash, resume). The runs
keep one continuation outstanding. When a step has used its attempts,
`JobCreate` is blocked: the safety runs are then cut short, and the passing fair
runs choose `MaxAttempts` so large that the retries, commands and crashes of the
instance cannot use them up (the violations under fairness do not come from it:
see Fairness).

AutoWork: `MaxClaims` (generations of one requirement), `MaxEpochs` (PTY
generations), `MaxCommands`, `MaxFaults`. Two claims are what it takes to run a
requirement twice or to confuse two generations; two PTY generations are what it
takes to write to the wrong one. A claim is refused when its requirement has
used its generations, so a fair run ends with the requirement pending, which
`ClaimsClose` allows. The runs have one requirement; that several do not disturb
each other rests on the proofs, which are for any set of requirements.

Cron: `MaxTime`, `MaxRevisions`, `MaxCommands`, `MaxFaults` and the number of
`Workers`. A time after `MaxTime` is the one value `Later`; three units are an
occurrence, its successor and a resume after both; two revisions are an update
under a callback; two tasks are a run and its competitor.

In each run a settled execution, an idle board or a finished clock has nothing
left to do, so deadlock is not checked.

### Fairness

`FairSpec` assumes weak fairness of what the program runs by itself: the loop
and its futures (the async runtime polls a spawned task), continuations of
committed commands, planning, the end of every turn (the code has a turn
timeout, and cleanup of a cancelled one is retried), timers, and the expiry of a
lease whose owner is gone. `AutoWorkFairness` is weak fairness of each loop (whose
waits have a hard timeout), each request and the boot task, the resumption of
each binding, and the sweeper, which runs every minute. `CronFairSpec` is weak
fairness of each task, the firing of a due timer, the end of a turn and the
steps of a resume. Nothing is assumed of commands, crashes, faults, agents
(AutoWork) or the clock.

`Progress` and `EffectsDelivered` hold in instances without three interleavings
that break them. Two have runs of their own, under the same fairness:
`lost_settlement`, a steer that commits between the read and the write of a
settlement (`scheduler.rs:1860` repeats the settlement only if the step version
moved, which a steer does not do; with that condition dropped the instance
satisfies `Progress`), and `lost_stop`, a crash between a question and the stop
of its turn (`service.rs:16175` refuses the cold Conversation, and the sweep at
boot skips the Conversations of attempts; with a stop that closes the turn the
instance satisfies `EffectsDelivered`). In both the scheduler generations follow
each other for ever, each failing on the effect it delivers first. The third is a
pause's `stop` that runs after the start of the next resume
(`scheduler.rs:308`): it needs two commands whose continuations are outstanding,
which the fair runs exclude.
`OccurrenceCloses` and `TimerCovers` hold when no `add_job` overlaps a resume:
otherwise the timer of the new job can revoke the callback that has just
reserved its occurrence, the run is skipped without an advance, and the job
stands still until the next resume, boot or update. The guard `MayOverlap`
excludes it; the code has no such guard, and the constant `Commands` admits the
overlap with `"resume_add"`. `ClaimsClose` holds without `retag`; `lost_retag` is
that case. `CleanStart` depends on the same thing: a custodian looks for the
claim of a dead loop by the loop's tag, so a row retagged while its terminal has
an open admission is not found, and the next loop starts beside it.

## Proofs

The theorems hold for all constants that meet the named assumptions
(`StepsAssumption`, `PlansAssumption`, `BoundsAssumption`, `InlineAssumption`,
`PolicyAssumption`, `BudgetAssumption`, `CommandsAssumption`), so for any plans,
any `max_parallel` and retry policy, and any number of attempts, questions,
commands, crashes and stalled heartbeats.

### Type correctness (`ExecutionProofs`)

`TypeCorrect` is `Spec => []TypeOK`, and `FuturesWellFormed` says that a future
holds, in each of its states, the attempt, the operation and the verdict that
state reads. `TypeOK` is not inductive; `TypeInv` adds two facts:

* `AnswersLeft`: an attempt with an open question has had fewer than
  `MaxDecisions` questions answered, so the operation of its continuation
  exists;
* `WellFormedJob`: the fields each program counter of a future reads are set.

There is one lemma per transaction of the store (it preserves `StoreInv`), one
per action of the loop, the futures, the commands and the continuations, and
the theorem combines them.

### Who holds a queued attempt (`OwnershipProofs`)

`OneAttemptInFlight`, `RowsAlwaysAgree`, `QueuedAlwaysOwned` and
`PausedStaysQuiet` prove `OneActiveAttempt`, `RowsAgree`, `QueuedHasOwner` and
`PausedIsQuiet`. They share the invariant `SafeInv`, which is `TypeInv` and:

* `RowInv`, about the rows alone: they agree, the attempts of a step are
  numbered without gaps, only the last can be in flight, there are no steps
  before the first plan, and a paused execution is quiet;
* `OwnInv`, about the rows and the memory of the scheduler. `create_attempt`
  would accept a second attempt while the first is queued, since the step is
  still pending with the version the second job read. So the rows do not
  protect themselves, and the invariant has to say who holds a queued attempt:
  past recovery and unless an error is being drained, the job of its step
  (`QueuedIsHeld`), with the versions that are in the rows (`HeldVersions`); a
  step that is reserved or offered by the snapshot has none (`Reserved`); a job
  past its start holds none (`StartedJob`); jobs exist only while a recovered
  generation loops (`JobsWhileLooping`, `BootFirst`); a deferred error dispatches
  nothing (`ErrDrains`); a settled execution has none queued (`SettledIsEmpty`).

The argument has two layers. A lemma per transaction shows that it preserves
`RowInv` and, except for `create_attempt`, is `Calm`: no attempt becomes queued,
none vanishes, and the versions of a queued attempt and of its step stay. A
lemma per action then shows `OwnInv` from `Calm` and from what the action does
to the futures. The delicate steps are a job that drops its settlement because
the versions moved (they cannot have moved under an attempt that is still
queued), a snapshot read while other jobs run, and the end of recovery.

### How an execution settles (`SettlementProofs`)

`SettlementJustified`, `ReviewStaysFinal`, `SettledUntilReopened` and
`EffectsHaveLinks` prove `SettledIsJustified`, `ReviewIsFinal`,
`OnlyUsersReopen` and `EffectsDeliverable`, and `RefinesLifecycle` proves
`ImplementsLifecycle`: initial states map to initial states, and every step of
the detailed specification is a step of `ExecutionLifecycle` or a stutter.

`EffectsDeliverable` follows from `SafeInv`. The others need `FullInv`, which is
`SafeInv` and:

* `SettleInv`, about the rows: `SettledIsJustified` itself, a retry time only on
  a pending step of the plan and never beside a queued attempt, a review mark
  only on an attempt that was parked, and an open question or review whenever
  the execution waits;
* `GenInv`, about what the loop may believe. `finalize_if_settled` decides on a
  snapshot and compares the aggregate version, so a snapshot whose version is
  current describes the steps (`SnapTrue`), and the first one of a boot is never
  taken for current (`BootStale`). A settlement compares the attempt version it
  was pinned to, so a pin equals the stored version only while the attempt is
  queued or running (`Pinned`): this is what keeps a late job from settling an
  attempt that was parked, cancelled or adopted meanwhile.

`StoreMoves` says what a transaction may do to the rows: which status moves it
makes, that nothing moves in a settled execution without a user's command, that
an execution settles with its attempts and a started attempt moves with its
step. One lemma per transaction shows it, one per action lifts it to the
scheduler and the commands, and the action properties and the refinement are
read off it.

### One turn at a time (`ConversationProofs`)

`OneTurnAtATime` proves `SerialConversation`. A turn is admitted by one
transaction, validated by another just before the runtime is called, and
outlives the job that launched it. `ConvInv` follows an operation from its
admission on: an attempt that has not started claimed nothing
(`FreshConversation`); an admission that has not launched is held by one
launching future or was left to the custodian (`Tickets`), so nobody launches it
twice; a live turn was claimed and is the active operation while the attempt
has its link (`LiveIsActive`), so the validation refuses the next one; and at
most one is live (`OneLive`).

### At most once, and stops that hold (`AutoWorkProofs`)

The theorems assume `StoreAssumption`, `ReceiversAssumption` and
`AutoWorkAssumption`: any requirements, tags, targets and requests, any number
of claims, PTY generations, commands and faults.

`AutoWorkTypeCorrect` is `AutoWorkSpec => []AutoWorkTypeOK`, from `BoardTyped`,
which adds that a claimed row has an owner and a generation, that a loop past
its claim has one, that a starting turn belongs to a claim and that a settled
admission has an outcome.

`RunsAtMostOnce` and `StopsHold` share `HeldInv`:

* `AdmittedHeld`: the row of an admitted claim that was not requeued since stays
  at the claim's generation and is not pending, so no later generation can be
  minted. This is the fact behind `AtMostOnce`: nothing in the row says that it
  was admitted, only the receipt and the admission do, and the abandon
  transaction reads them;
* `TurnsAdmitted`, `LinesAdmitted`, `RunsAdmitted`: what an agent is or will be
  given was admitted, also what is left on an input line;
* `StopsPaused`: the tag of a stopped requirement is paused.

Row moves made without a user are `Quiet` (kept, closed, or returned because no
receiver admitted the claim), and a step that admits nothing and moves rows
quietly is `Still`; one lemma shows that `Still` steps preserve `HeldInv`, one
lemma per action that it is `Still`, and the few others (claims, admissions,
submits, requeues, pauses) are proved one by one.

### Done only after a run (`VerdictProofs`)

`DoneOnlyAfterRun` proves `DoneWasRun`. `EarnedInv` says of every place where a
good outcome waits to be applied that it was earned: running turns
(`TurnsRun`), good receipts (`ReceiptsRun`), prompts handed to a terminal
(`GivenRun`), settled admissions (`OutcomesEarned`) and outcomes in a loop
(`LoopsEarned`). A loop may hold an outcome of a claim the board has moved past;
`Earned` admits those, since no statement applies them. Each step is `Honest`: it
only moves earned outcomes on.

### One driver, clean starts (`DriverProofs`)

`ClaimsHaveOneDriver` proves `OneDriver` from `DriverInv`. A request holds the
transition lock of its target from the moment the loop is taken out until the
new one is installed (`LockInv`): no two requests are past that point for one
target, and its loop is off meanwhile. Who works on a claim works for the
owner of its generation (`HoldInv`): a holder's claim is not ahead of its row
and, if it is the row's own, the row belongs to the holder's target or to
nobody, so two targets never hold one claim.

`StartsAreClean` proves `CleanStart` under the assumption that `"retag"` is not
among the commands (see Fairness). `CleanInv` says that an open admission is of
the PTY generation its terminal runs (`LiveInv`), that the row of a loop's claim
has the loop's tag (`LoopTagged`), and that an open admission of a claim the
terminal holds is driven (`OpenDriven`): its loop is installed for the tag of
the row, where a custodian will find the claim, or a request is about to park it.

### Cron (`CronProofs`)

From `CronAssumption` and `WorkerAssumption`, `CronTypeCorrect` and
`ReceiptAlwaysDecides` hold for any jobs, schedules, tasks, commands and
crashes. `ReceiptInv` says of each scheduled run that it has one owning task
(`OneOwner`) which holds its reservation (`OwnerHolds`), that a resume or a
recovery settles only runs nobody owns (`SweptUnowned`), that before the send
there is no receipt (`NotYetSent`), that a live turn has a waiting owner
(`TurnAwaited`), that what the owner is about to record is what the receipt
says (`ReportTrue`), and `ReceiptDecides` itself; besides, only requested runs
have duplicates (`DuplicatesRequested`), and recovery precedes every task after
a boot (`RecoveryFirst`). `RequestedReceiptDecides` is false (`duplicate_now`),
and the proof shows where it would break: a duplicate request is a second owner.

`AdmissionIsCurrent` proves `AdmittedIsCurrent` from `TickInv`: the gate of a job
has one holder (`GateInv`); a job that was never added has no timer and no task
(`NotYet`); every change of a timer revokes the callbacks of the job, so a
callback that is not revoked came from the timer that is installed and its time
has passed (`TimersInv`); and what a callback verified under the gate stays in
the row until it commits (`VerifiedPlans`). A deletion and
`mark_job_unexecutable` write without the gate; neither changes what the row
plans, which is why they do no harm.

`OccurrencesCovered` proves `TimerCovers` under the assumption that no `add_job`
overlaps a resume (`"resume_add"` not among the commands). `TimerCovers` speaks
only of states in which nobody works on the job, so it is far from inductive.
`CoverInv` extends it to all states, on top of `CronInv`, `ReceiptInv` and
`TickInv`:

* `SecuredIfOn`: the planned occurrence of an enabled job is always in somebody's
  hand. If its run does not exist, that is the timer set for it, a callback on
  its way that is not revoked, or a task that will install the timer; if the run
  is reserved, its owner; if it is settled, the task or sweep that is about to
  advance the job; or a sweep that has not come to the job yet;
* `RevokedWaits`: a callback that reserved the planned occurrence and was
  revoked has a sweep behind it. This is the heart of the argument, since such a
  callback settles the run and advances nothing, and the fact that fails when
  `add_job` overlaps a resume;
* `RunsPast`: a run exists only for a time that has come and a revision that is
  not ahead of the row, so the plan an advance or an update writes is fresh;
* `NextSet`, `TimerBehind`: an enabled job has a next time, and a timer is never
  ahead of its row, so `schedule_job` does not refuse the installation the job
  needs as older than the current one;
* `AddingInv`, `UpdatingInv`, `CleaningGone`, `RowOfRun`: the row a task is about
  to install, disable or clean up after is the one the job has, or an older one
  that cannot do harm.

A step that leaves the job's timer, callbacks and tasks alone keeps
`SecuredIfOn` (`Bystander`); the other steps hand the occurrence from one of the
parties to the next, and there is one lemma for each.

### Only model-checked

Liveness (`Progress`, `EffectsDelivered`, `ClaimsClose`, `OccurrenceCloses`) stays
with TLC: the prover does not reason about fairness and ENABLED. Every other
property that a passing run checks is proved, the type invariants included;
`CleanStart` and `TimerCovers` under a restriction of the commands that the runs
checking them make as well.

## Not modelled

* `append_steps`, `append_steps_from_attempt` (delegation), control steps
  (verify, judge, loop) with the loop reset of `settle_attempt`, participants
  and their concurrency limits, work directories, lead Conversations and the
  lead report, event rows and their outbox, the rows of the cleanup outbox.
* The planner (a model call; its results are the constant `Plans`) and the
  validation of its graph.
* Internal errors of the loop that are not conflicts: they end in
  `fail_if_active`, which is reached here only with "no schedulable active
  step".
* AutoWork: the creation and ordering of requirements, `max_requirements` as a
  number (a loop may reach its cap at any settlement), deletion of a target's
  Conversation, database errors, an admission whose reply is lost, PTYs that are
  quarantined or cannot be stopped, a user who presses Enter in the terminal,
  agents that outlive the process.
* Cron: the compensation of a failed binding and the deletion of orphans at
  boot, skill files, a clock that moves backwards, a resume within the
  millisecond of an occurrence, cron expressions (scheduled like intervals),
  two resumes at once, database errors. With them goes the `Err` result of
  `success_run_projection` (`service.rs:2586`), which records a turn that ended
  well as "error" (lines 1221, 2351, 2488): it takes a database error or a
  Conversation or job that has vanished. The busy guard's check and set are one
  step; a conversation is deleted with its jobs only when it has no running
  turn; a resume visits the jobs in any order.
* Everything else; `PROJECT.json` says why, part by part.

Differences from documents and comments that are in the model without a run of
their own:

* a pause parks an attempt without a receipt for review
  (`docs/architecture/agent-execution.zh.md` line 128 says it becomes
  `interrupted` and its step `pending`), and an answered question resumes
  without taking one of the `max_parallel` slots (line 183);
* dispatch does not confirm dependencies and retry time in its transaction
  (line 329 says it does): `create_attempt` compares status and version only;
* a retry time that passes between `ready_steps` and `next_retry_at` makes the
  loop fail the execution with "no schedulable active step"
  (`scheduler.rs:943`);
* `docs/guides/autowork-requirements.md` says the sweeper makes expired rows
  pending again; the code sends them to review;
* a claim refused by a busy Conversation is sent to review, since the abandon
  transaction requires an idle one; the comment at `auto_work_runner.rs:1368`
  says the claim is reverted and retried.

## Plan

Done: executions, AutoWork and cron with their runs and the proofs above. Left,
in this order:

1. Proofs: what has to hold for the liveness properties and is safety - that a
   claim in progress always has a party that will close it, as `SecuredIfOn`
   says of an occurrence, and the same for an execution that runs.
2. Dynamic plans: `append_steps`, delegation with its operation receipts and
   depth bound, control steps and the loop reset; participants and their
   limits. Runs on plans with a loop body.
3. One abstract specification of a turn receiver (admit, run once, complete,
   park) that attempts, AutoWork and cron are shown to use.
4. The event outbox: sequence numbers, redelivery, order.
5. Graph validation (Kahn) and participant matching as operators checked
   against reference definitions.
