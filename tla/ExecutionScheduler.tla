------------------------- MODULE ExecutionScheduler -------------------------
(***************************************************************************)
(* The scheduler of one Agent Execution (nomifun-agent-execution,          *)
(* scheduler.rs) on top of the transactions of ExecutionStore.             *)
(*                                                                         *)
(* One scheduler generation at a time owns the execution in this process   *)
(* (the active map), and one process owns the data directory.  A           *)
(* generation acquires the lease, delivers pending conversation effects,   *)
(* recovers interrupted attempts and then loops: it reads a snapshot of    *)
(* the aggregate, skips blocked steps, reserves ready steps as jobs and    *)
(* waits for one of them.  Jobs and the inline continuation of an answered *)
(* question are futures of the loop: they advance only while the loop      *)
(* polls them and are dropped when the loop is left.  A launched model     *)
(* turn is detached from its job and outlives it.                          *)
(*                                                                         *)
(* Every await separates two actions; what happens between two awaits is   *)
(* one action.  A snapshot is kept as the answers the loop takes from it;  *)
(* sched.fresh says whether its aggregate version is still the stored one. *)
(***************************************************************************)
EXTENDS ExecutionStore

CONSTANTS
  Inline,           \* the fiber that continues an answered question
  MaxParallel,      \* the execution's max_parallel
  Adaptive,         \* adaptation_policy is Adaptive
  FailFast,         \* the steps whose failure_policy is FailExecution
  ProviderRetries,  \* MAX_PROVIDER_RETRIES
  TimeoutRetries,   \* MAX_TIMEOUT_RETRIES
  MaxCommands,      \* bound: user commands
  MaxCrashes,       \* bound: process crashes
  MaxFaults         \* bound: stalled heartbeats

ASSUME InlineAssumption == Inline \notin Steps
ASSUME PolicyAssumption ==
  /\ MaxParallel \in Nat \ {0} /\ Adaptive \in BOOLEAN /\ FailFast \subseteq Steps
  /\ ProviderRetries \in Nat /\ TimeoutRetries \in Nat
ASSUME BudgetAssumption ==
  MaxCommands \in Nat /\ MaxCrashes \in Nat /\ MaxFaults \in Nat

VARIABLES
  sched,   \* the generation: program counter and its flags
  snap,    \* what the loop took from its last read of the aggregate
  job,     \* the futures of the loop, one per step, and the inline one
  turn,    \* live model turns: Conversation and operation
  orphan,  \* admissions whose request was dropped before the turn launched
  left     \* what is left of the bounds on commands, crashes and faults

schedVars == <<sched, snap, job, turn, orphan, left>>
vars == <<storeVars, schedVars>>

-----------------------------------------------------------------------------
(* State.                                                                  *)

Fibers == Steps \cup {Inline}

\* The states in which the generation's heartbeat runs.
Leased == {"effects", "recover", "loop", "pass", "rest", "wait", "inline", "sleep", "fail"}
\* The states in which the active map holds the generation's lease token.
Published == Leased \cup {"exit", "end"}
SchedulerPc == {"off", "acquire", "publish"} \cup Published

\* A conversation effect in delivery, a step from its dispatch on, and the
\* settlement of either.
JobPc == {"idle", "stop", "steer", "ack", "new", "create", "start", "claim", "launch",
          "await", "settle", "commit", "recheck", "recommit"}

\* What a delivery returned, and what the settlement makes of it.
Outcome == {"none", "ok", "failed", "retryable", "timeout", "error"}
Verdict == {"completed", "fail", "retry", "requeue", "drop"}

NoSlot == <<>>

Generation == [pc: SchedulerPc, boot: BOOLEAN, cancel: BOOLEAN, restart: BOOLEAN,
               lost: BOOLEAN, err: BOOLEAN, fresh: BOOLEAN]
Snapshot == [blocked: SUBSET Steps, ready: SUBSET Steps, timed: SUBSET Steps, room: Nat,
             settled: TerminalExecution \cup {"none"}, waiting: BOOLEAN]
Job == [pc: JobPc, k: Slots \cup {NoSlot}, op: Ops \cup {NoOp}, sv: Nat, av: Nat,
        psv: Nat, pav: Nat, out: Outcome \cup Verdict]

NewGeneration == [pc |-> "acquire", boot |-> TRUE, cancel |-> FALSE, restart |-> FALSE,
                  lost |-> FALSE, err |-> FALSE, fresh |-> FALSE]
NoGeneration == [NewGeneration EXCEPT !.pc = "off"]
NoSnapshot == [blocked |-> {}, ready |-> {}, timed |-> {}, room |-> 0,
               settled |-> "none", waiting |-> FALSE]
Idle == [pc |-> "idle", k |-> NoSlot, op |-> NoOp, sv |-> 0, av |-> 0,
         psv |-> 0, pav |-> 0, out |-> "none"]
IdleJobs == [f \in Fibers |-> Idle]

SchedulerTypeOK ==
  /\ sched \in Generation
  /\ snap \in Snapshot
  /\ job \in [Fibers -> Job]
  /\ turn \subseteq Slots \X Ops
  /\ orphan \subseteq [k: Slots, op: Ops, sv: Nat, av: Nat]
  /\ left \in [commands: 0 .. MaxCommands, crashes: 0 .. MaxCrashes, faults: 0 .. MaxFaults]

SchedulerInit ==
  /\ sched = NoGeneration
  /\ snap = NoSnapshot
  /\ job = IdleJobs
  /\ turn = {}
  /\ orphan = {}
  /\ left = [commands |-> MaxCommands, crashes |-> MaxCrashes, faults |-> MaxFaults]

\* start: a second request is remembered by the generation that still runs.
Started(sc) == IF sc.pc = "off" THEN NewGeneration ELSE [sc EXCEPT !.restart = TRUE]
\* stop: the cancel flag of whichever generation is registered.
Stopped(sc) == IF sc.pc = "off" THEN sc ELSE [sc EXCEPT !.cancel = TRUE]

Goto(pc) == sched' = [sched EXCEPT !.pc = pc]
Polled(f) == sched.pc = IF f = Inline THEN "inline" ELSE "wait"
LiveTurns(k) == {o \in Ops : <<k, o>> \in turn}
InFlight == {s \in Steps : job[s].pc # "idle"}

\* Leaving the loop drops every future; an admission that had not launched
\* its turn is left to its custodian.
LeaveLoop(restart) ==
  /\ sched' = [sched EXCEPT !.pc = "exit", !.restart = @ \/ restart \/ sched.lost]
  /\ snap' = NoSnapshot
  /\ job' = IdleJobs
  /\ orphan' = orphan \cup
       {[k |-> job[f].k, op |-> job[f].op, sv |-> job[f].sv, av |-> job[f].av] :
          f \in {g \in Fibers : job[g].pc = "launch"}}

\* A future ends.  An error of a job is deferred until the others ended; an
\* error of the inline continuation leaves the loop.
Finish(f, failed) ==
  IF f = Inline
  THEN IF failed THEN LeaveLoop(TRUE)
       ELSE /\ sched' = [sched EXCEPT !.pc = IF sched.boot THEN "effects" ELSE "loop"]
            /\ job' = [job EXCEPT ![f] = Idle]
            /\ UNCHANGED <<snap, orphan>>
  ELSE /\ sched' = [sched EXCEPT !.pc = "loop", !.err = @ \/ failed]
       /\ job' = [job EXCEPT ![f] = Idle]
       /\ UNCHANGED <<snap, orphan>>

SetJob(f, row) == job' = [job EXCEPT ![f] = row]

-----------------------------------------------------------------------------
(* Lease.                                                                  *)

\* acquire_lease: retries until it owns the lease, the execution is no
\* longer active or the generation is cancelled.  Custodians of an earlier
\* generation lose their authority for good.
Acquire ==
  /\ sched.pc = "acquire"
  /\ \/ /\ sched.cancel \/ ~Active
        /\ Goto("end")
        /\ UNCHANGED <<storeVars, orphan>>
     \/ /\ ~sched.cancel /\ CanAcquireLease
        /\ AcquireLease
        /\ Goto("publish")
        /\ orphan' = {}
  /\ UNCHANGED <<snap, job, turn, left>>

\* publish_lease_token: refused once the generation was cancelled.
Publish ==
  /\ sched.pc = "publish"
  /\ \/ /\ sched.cancel
        /\ ReleaseLease(TRUE)
        /\ Goto("end")
     \/ /\ ~sched.cancel
        /\ Goto("effects")
        /\ UNCHANGED storeVars
  /\ UNCHANGED <<snap, job, turn, orphan, left>>

HeartbeatRenew ==
  /\ sched.pc \in Leased /\ ~sched.lost
  /\ CanRenewLease /\ ~exec.live
  /\ RenewLease
  /\ UNCHANGED schedVars

\* The renewal finds another owner or an execution that is not active.
HeartbeatLost ==
  /\ sched.pc \in Leased /\ ~sched.lost
  /\ ~CanRenewLease
  /\ sched' = [sched EXCEPT !.lost = TRUE]
  /\ UNCHANGED <<storeVars, snap, job, turn, orphan, left>>

\* The clock passes the expiry: of an ended owner's lease, or of this
\* generation's while its heartbeat is stalled.
LeaseExpires ==
  /\ exec.live
  /\ \/ exec.lease = "gone" /\ UNCHANGED left
     \/ /\ exec.lease = "mine" /\ left.faults > 0
        /\ left' = [left EXCEPT !.faults = @ - 1]
  /\ exec' = [exec EXCEPT !.live = FALSE]
  /\ UNCHANGED <<step, blockers, attempt, conv, sched, snap, job, turn, orphan>>

\* The heartbeat is stopped and the lease released; a renewal that was
\* dropped after its commit moved the expiry, so the release matches no row.
Exit ==
  /\ sched.pc = "exit"
  /\ ReleaseLease(TRUE) \/ ReleaseLease(FALSE)
  /\ Goto("end")
  /\ UNCHANGED <<snap, job, turn, orphan, left>>

\* Mutant of End: a start requested while the generation ran is lost.
EndForgetsRestart ==
  /\ sched.pc = "end"
  /\ sched' = NoGeneration
  /\ UNCHANGED <<storeVars, snap, job, turn, orphan, left>>

\* The generation leaves the active map and starts its successor.
End ==
  /\ sched.pc = "end"
  /\ sched' = IF sched.restart THEN NewGeneration ELSE NoGeneration
  /\ UNCHANGED <<storeVars, snap, job, turn, orphan, left>>

-----------------------------------------------------------------------------
(* Durable conversation effects.                                           *)

Undelivered(k) ==
  /\ attempt[k].status \in {"running", "waiting_input"} /\ ~attempt[k].review
  /\ attempt[k].effects # <<>>
  /\ step[k[1]].current

\* process_one_pending_conversation_effect reads the aggregate again and
\* takes the first pending effect of one attempt.
EffectRead ==
  /\ sched.pc = "effects"
  /\ \/ /\ exec.deleted
        /\ LeaveLoop(TRUE)
     \/ /\ ~exec.deleted /\ ~\E k \in Slots : Undelivered(k)
        /\ Goto(IF sched.boot THEN "recover" ELSE "pass")
        /\ UNCHANGED <<snap, job, orphan>>
     \/ \E k \in Slots :
          /\ ~exec.deleted /\ Undelivered(k)
          /\ SetJob(Inline, [Idle EXCEPT
                !.pc = CASE Head(attempt[k].effects) = "stop_turn" -> "stop"
                         [] Head(attempt[k].effects) = "steer" -> "steer"
                         [] Head(attempt[k].effects) = "decision_input" -> "claim",
                !.k = k, !.sv = step[k[1]].version, !.av = attempt[k].version,
                !.op = IF Head(attempt[k].effects) = "decision_input"
                       THEN attempt[k].decisions ELSE NoOp])
          /\ Goto("inline")
          /\ snap' = NoSnapshot
          /\ UNCHANGED orphan
  /\ UNCHANGED <<storeVars, turn, left>>

\* Mutant of StopTurn: the end of the cancelled turn is not waited for.
StopTurnNoWait(k) ==
  /\ conv' = [conv EXCEPT ![k] =
                IF @.active \in LiveTurns(k) THEN FinishedTurn(@, @.active, "failed") ELSE @]
  /\ UNCHANGED <<exec, step, blockers, attempt, turn>>

\* stop_attempt_turn cancels whatever turn the Conversation runs and waits
\* for its end; a running Conversation without a local turn owner (its
\* process died) refuses.
StopTurn(k) ==
  /\ turn' = {t \in turn : t[1] # k}
  /\ conv' = [conv EXCEPT ![k] =
                IF @.active \in LiveTurns(k) THEN FinishedTurn(@, @.active, "failed") ELSE @]
  /\ UNCHANGED <<exec, step, blockers, attempt>>
StopRefused(k) == LiveTurns(k) = {} /\ conv[k].active # NoOp

EffectStop ==
  /\ sched.pc = "inline" /\ job[Inline].pc = "stop"
  /\ \/ /\ StopRefused(job[Inline].k)
        /\ LeaveLoop(TRUE)
        /\ UNCHANGED <<storeVars, turn>>
     \/ /\ ~StopRefused(job[Inline].k)
        /\ StopTurn(job[Inline].k)
        /\ SetJob(Inline, [job[Inline] EXCEPT !.pc = "ack"])
        /\ UNCHANGED <<sched, snap, orphan>>
  /\ UNCHANGED left

\* steer_message_idempotent needs a live turn and never starts one; a steer
\* whose receipt was claimed once is reported as delivered from then on, also
\* when the turn ended between the claim and the delivery and the claiming
\* call failed.
SteerAccepted(k) == conv[k].steered \/ LiveTurns(k) # {}
SteerFailsClaimed(k) == ~conv[k].steered /\ LiveTurns(k) # {}
SteerTurn(k) ==
  /\ conv' = [conv EXCEPT ![k].steered = TRUE]
  /\ UNCHANGED <<exec, step, blockers, attempt>>

EffectSteer ==
  /\ sched.pc = "inline" /\ job[Inline].pc = "steer"
  /\ \/ /\ ~SteerAccepted(job[Inline].k)
        /\ LeaveLoop(TRUE)
        /\ UNCHANGED storeVars
     \/ /\ SteerFailsClaimed(job[Inline].k)
        /\ SteerTurn(job[Inline].k)
        /\ LeaveLoop(TRUE)
     \/ /\ SteerAccepted(job[Inline].k)
        /\ SteerTurn(job[Inline].k)
        /\ SetJob(Inline, [job[Inline] EXCEPT !.pc = "ack"])
        /\ UNCHANGED <<sched, snap, orphan>>
  /\ UNCHANGED <<turn, left>>

EffectAck ==
  /\ sched.pc = "inline" /\ job[Inline].pc = "ack"
  /\ LET k == job[Inline].k IN
     IF CanAcknowledgeEffect(k, job[Inline].av)
     THEN AcknowledgeEffect(k, SubSeq(attempt[k].effects, 2, Len(attempt[k].effects)))
          /\ Finish(Inline, FALSE)
     ELSE LeaveLoop(TRUE) /\ UNCHANGED storeVars
  /\ UNCHANGED <<turn, left>>

-----------------------------------------------------------------------------
(* The loop.                                                               *)

\* Mutant of Recover: only running attempts are reconciled.
RecoverRunningOnly ==
  /\ sched.pc = "recover"
  /\ \/ /\ ~\E k \in Slots : attempt[k].status = "running"
        /\ sched' = [sched EXCEPT !.pc = "loop", !.boot = FALSE]
        /\ UNCHANGED <<storeVars, snap, job, orphan>>
     \/ \E k \in Slots :
          /\ attempt[k].status = "running" /\ CanReconcileRecovered(k)
          /\ ReconcileRecovered(k)
          /\ UNCHANGED <<sched, snap, job, orphan>>
  /\ UNCHANGED <<turn, left>>

\* recover_interrupted: the attempts a previous generation left queued or
\* running are reconciled one transaction at a time.
Recover ==
  /\ sched.pc = "recover"
  /\ \/ /\ exec.deleted
        /\ LeaveLoop(TRUE)
        /\ UNCHANGED storeVars
     \/ /\ ~exec.deleted /\ ~\E k \in Slots : attempt[k].status \in {"queued", "running"}
        /\ sched' = [sched EXCEPT !.pc = "loop", !.boot = FALSE]
        /\ UNCHANGED <<storeVars, snap, job, orphan>>
     \/ \E k \in Slots :
          /\ CanReconcileRecovered(k)
          /\ ReconcileRecovered(k)
          /\ UNCHANGED <<sched, snap, job, orphan>>
     \/ \E k \in Slots :
          /\ attempt[k].status \in {"queued", "running"} /\ ~CanReconcileRecovered(k)
          /\ LeaveLoop(TRUE)
          /\ UNCHANGED storeVars
  /\ UNCHANGED <<turn, left>>

\* skip_one_blocked_step.
Blocked(s) ==
  /\ step[s].current /\ step[s].status = "pending"
  /\ \E b \in blockers[s] : step[b].status \in {"failed", "skipped", "cancelled"}

\* ready_steps, but for the retry time, which is compared with the clock
\* later.
Unblocked(s) ==
  /\ step[s].current /\ step[s].status = "pending"
  /\ \A b \in blockers[s] : step[b].status = "completed"

Timed(s) ==
  step[s].current /\ step[s].status = "pending" /\ step[s].dispatchAfter = "future"

\* A reserved step stays pending until its attempt starts, so the
\* reservations are taken out.
ReadyReserved == {s \in Steps : Unblocked(s)}   \* mutant of Ready: they are not
Ready == {s \in Steps : Unblocked(s)} \ InFlight

\* select_agent_steps: the steps with a queued or running attempt and the
\* reserved ones take the execution's parallel slots.
Busy ==
  {s \in Current : \/ s \in InFlight
                   \/ \E k \in SlotsOf(s) : attempt[k].status \in {"queued", "running"}}

Room == IF Cardinality(Busy) < MaxParallel THEN MaxParallel - Cardinality(Busy) ELSE 0

\* finalize_if_settled.
SettledStatus ==
  IF Current = {} \/ \E s \in Current : step[s].status \notin TerminalStep THEN "none"
  ELSE IF \E s \in Current \cap FailFast : step[s].status = "failed" THEN "failed"
  ELSE IF \E s \in Current : step[s].status # "completed" THEN "completed_with_failures"
  ELSE "completed"

\* The top of the loop: cancellation and lease loss, then a deferred error,
\* which first drains the jobs, then the read of the aggregate.
LoopTop ==
  /\ sched.pc = "loop"
  /\ \/ /\ sched.cancel \/ sched.lost
        /\ LeaveLoop(FALSE)
     \/ /\ ~sched.cancel /\ ~sched.lost /\ sched.err
        /\ IF InFlight = {} THEN LeaveLoop(TRUE)
           ELSE Goto("wait") /\ UNCHANGED <<snap, job, orphan>>
     \/ /\ ~sched.cancel /\ ~sched.lost /\ ~sched.err
        /\ ~Active
        /\ LeaveLoop(exec.deleted)
     \/ /\ ~sched.cancel /\ ~sched.lost /\ ~sched.err
        /\ Active
        /\ snap' = [blocked |-> {s \in Steps : Blocked(s)},
                    ready |-> Ready,
                    timed |-> {s \in Steps : Timed(s)},
                    room |-> Room,
                    settled |-> SettledStatus,
                    waiting |-> WaitingAttempts # {}]
        /\ sched' = [sched EXCEPT !.pc = "effects", !.fresh = TRUE]
        /\ UNCHANGED <<job, orphan>>
  /\ UNCHANGED <<storeVars, turn, left>>

\* The transactions the loop takes on its snapshot compare the aggregate
\* version it read.
SkipBlocked ==
  /\ sched.pc = "pass" /\ snap.blocked # {}
  /\ \/ \E s \in snap.blocked :
          /\ sched.fresh /\ CanTransitionStep(s, step[s].version)
          /\ TransitionStep(s, "skipped")
          /\ Goto("loop")
          /\ snap' = NoSnapshot
          /\ UNCHANGED <<job, orphan>>
     \/ /\ \E s \in snap.blocked : ~(sched.fresh /\ CanTransitionStep(s, step[s].version))
        /\ LeaveLoop(TRUE)
        /\ UNCHANGED storeVars
  /\ UNCHANGED <<turn, left>>

\* Ready steps are reserved before their future is polled for the first time.
Due == snap.ready \ snap.timed

Dispatch ==
  /\ sched.pc = "pass" /\ snap.blocked = {}
  /\ \E pick \in SUBSET Due :
       /\ Cardinality(pick) = IF Cardinality(Due) < snap.room THEN Cardinality(Due) ELSE snap.room
       /\ job' = [f \in Fibers |-> IF f \in pick THEN [Idle EXCEPT !.pc = "new"] ELSE job[f]]
       /\ IF InFlight \cup pick # {}
          THEN Goto("wait") /\ snap' = NoSnapshot
          ELSE Goto("rest") /\ UNCHANGED snap
  /\ UNCHANGED <<storeVars, turn, orphan, left>>

\* finalize_if_settled compares the version the loop read and its lease.
CanFinalizeStale == TRUE   \* mutant of CanFinalize: it does not
CanFinalize == sched.fresh /\ SchedulerFence

\* Nothing runs: finalize, sleep until a retry is due, leave while a question
\* is open, or fail the execution.
Rest ==
  /\ sched.pc = "rest"
  /\ \/ /\ snap.settled # "none"
        /\ IF CanFinalize
           THEN UpdateStatus(snap.settled) /\ LeaveLoop(FALSE)
           ELSE LeaveLoop(TRUE) /\ UNCHANGED storeVars
     \/ /\ snap.settled = "none" /\ snap.timed # {}
        /\ Goto("sleep") /\ snap' = NoSnapshot
        /\ UNCHANGED <<storeVars, job, orphan>>
     \/ /\ snap.settled = "none" /\ snap.timed = {} /\ snap.waiting
        /\ LeaveLoop(FALSE)
        /\ UNCHANGED storeVars
     \/ /\ snap.settled = "none" /\ snap.timed = {} /\ ~snap.waiting
        /\ Goto("fail") /\ snap' = NoSnapshot
        /\ UNCHANGED <<storeVars, job, orphan>>
  /\ UNCHANGED <<turn, left>>

Wake ==
  /\ sched.pc = "sleep"
  /\ Goto("loop")
  /\ UNCHANGED <<storeVars, snap, job, turn, orphan, left>>

\* fail_if_active: follows version drift while it owns the lease.
FailIfActive ==
  /\ sched.pc = "fail"
  /\ IF SchedulerFence THEN FailActiveExecution ELSE UNCHANGED storeVars
  /\ LeaveLoop(FALSE)
  /\ UNCHANGED <<turn, left>>

\* Waiting for a job, the loop also wakes for cancellation and lease loss.
WaitAborted ==
  /\ sched.pc = "wait"
  /\ sched.cancel \/ sched.lost
  /\ LeaveLoop(FALSE)
  /\ UNCHANGED <<storeVars, turn, left>>

\* The clock reaches a step's retry time.
BackoffOver ==
  /\ \E s \in Steps :
       /\ step[s].dispatchAfter = "future"
       /\ step' = [step EXCEPT ![s].dispatchAfter = "past"]
       /\ snap' = [snap EXCEPT !.timed = @ \ {s}]
  /\ UNCHANGED <<exec, blockers, attempt, conv, sched, job, turn, orphan, left>>

-----------------------------------------------------------------------------
(* execute_agent_step.                                                     *)

\* The step is read again: it must still be pending.  Its dependencies and
\* its retry time are not looked at.
JobRead(s) ==
  /\ Polled(s) /\ job[s].pc = "new"
  /\ IF exec.deleted THEN Finish(s, TRUE)
     ELSE IF Active /\ step[s].current /\ step[s].status = "pending"
     THEN /\ SetJob(s, [job[s] EXCEPT !.pc = "create", !.sv = step[s].version])
          /\ UNCHANGED <<sched, snap, orphan>>
     ELSE Finish(s, FALSE)
  /\ UNCHANGED <<storeVars, turn, left>>

JobCreate(s) ==
  /\ Polled(s) /\ job[s].pc = "create"
  /\ \/ \E k \in SlotsOf(s) :
          /\ CanCreateAttempt(s, job[s].sv)
          /\ FreshSlot(k)
          /\ CreateAttempt(k)
          /\ SetJob(s, [job[s] EXCEPT !.pc = "start", !.k = k, !.sv = @ + 1, !.av = 0])
          /\ UNCHANGED <<sched, snap, orphan>>
     \/ /\ ~CanCreateAttempt(s, job[s].sv)
        /\ Finish(s, TRUE)
        /\ UNCHANGED storeVars
  /\ UNCHANGED <<turn, left>>

\* The Conversation is created and on_started commits start_attempt; if
\* either fails, the attempt is settled as a failed dispatch.
JobStart(s) ==
  /\ Polled(s) /\ job[s].pc = "start"
  /\ LET j == job[s] IN
     \/ /\ CanStartAttempt(j.k, j.sv, j.av)
        /\ StartAttempt(j.k)
        /\ SetJob(s, [j EXCEPT !.pc = "claim", !.op = InitialTurn, !.sv = @ + 1, !.av = @ + 1])
     \/ /\ SetJob(s, [j EXCEPT !.pc = "settle", !.out = "error"])
        /\ UNCHANGED storeVars
  /\ UNCHANGED <<sched, snap, turn, orphan, left>>

\* deliver_turn: the admission of an operation seen for the first time; an
\* operation with a receipt is only observed.
JobClaim(f) ==
  /\ Polled(f) /\ job[f].pc = "claim"
  /\ LET j == job[f]
         r == conv[j.k].receipt[j.op] IN
     \/ /\ r = "none" /\ CanClaimTurn(j.k, j.op, j.sv, j.av)
        /\ ClaimTurn(j.k, j.op)
        /\ SetJob(f, [j EXCEPT !.pc = "launch"])
        /\ UNCHANGED <<sched, snap, orphan>>
     \/ /\ r = "none" /\ ~CanClaimTurn(j.k, j.op, j.sv, j.av)
        /\ IF f = Inline THEN Finish(f, TRUE)
           ELSE SetJob(f, [j EXCEPT !.pc = "settle", !.out = "error"])
                /\ UNCHANGED <<sched, snap, orphan>>
        /\ UNCHANGED storeVars
     \/ /\ r # "none"
        /\ SetJob(f, [j EXCEPT !.pc = "await"])
        /\ UNCHANGED <<storeVars, sched, snap, orphan>>
  /\ UNCHANGED <<turn, left>>

\* The authority is validated again before the turn is handed to the
\* runtime; a refused admission is closed as failed.
JobLaunch(f) ==
  /\ Polled(f) /\ job[f].pc = "launch"
  /\ LET j == job[f] IN
     \/ /\ ValidTurnEffect(j.k, j.op, j.sv, j.av)
        /\ turn' = turn \cup {<<j.k, j.op>>}
        /\ SetJob(f, [j EXCEPT !.pc = "await"])
        /\ UNCHANGED <<storeVars, sched, snap, orphan>>
     \/ /\ ~ValidTurnEffect(j.k, j.op, j.sv, j.av)
        /\ FinishTurn(j.k, j.op, "failed")
        /\ IF f = Inline
           THEN LeaveLoop(TRUE)
           ELSE SetJob(f, [j EXCEPT !.pc = "settle", !.out = "error"])
                /\ UNCHANGED <<sched, snap, orphan>>
        /\ UNCHANGED turn
  /\ UNCHANGED left

\* A turn can end well and still miss its output contract.
OutcomeOf(receipt) ==
  IF receipt = "ok" THEN {"ok", "retryable"} ELSE {"failed", "retryable", "timeout"}

\* The Conversation is polled until it runs no turn; then the exact receipt
\* is read.  A timeout leaves the turn running.
JobAwait(f) ==
  /\ Polled(f) /\ job[f].pc = "await"
  /\ LET j == job[f] IN
     \/ /\ LiveTurns(j.k) = {}
        /\ \E out \in OutcomeOf(conv[j.k].receipt[j.op]) :
             SetJob(f, [j EXCEPT !.pc = "settle", !.out = out])
     \/ /\ LiveTurns(j.k) # {}
        /\ SetJob(f, [j EXCEPT !.pc = "settle", !.out = "timeout"])
  /\ UNCHANGED <<storeVars, sched, snap, turn, orphan, left>>

-----------------------------------------------------------------------------
(* settle_agent_outcome.                                                   *)

\* A job numbers attempts from 1; the inline continuation uses the stored
\* number, which starts from 0.
AttemptNo(f) == IF f = Inline THEN job[f].k[2] - 1 ELSE job[f].k[2]

\* agent_outcome_can_complete, the retry rules and attempt_error_transition.
VerdictOf(f) ==
  LET provider == Adaptive /\ AttemptNo(f) <= ProviderRetries
      timeout == Adaptive /\ AttemptNo(f) <= TimeoutRetries
      Retry(allowed) == IF allowed THEN "retry" ELSE "fail"
      out == job[f].out
  IN CASE out = "ok" -> "completed"
       [] out = "retryable" -> Retry(provider)
       [] out = "timeout" -> Retry(timeout)
       [] out = "error" /\ attempt[job[f].k].status = "queued" ->
            IF AttemptNo(f) <= ProviderRetries THEN "requeue" ELSE "drop"
       [] out = "error" -> Retry(provider)
       [] OTHER -> "fail"

\* What the settlement writes: attempt, step and retry time.
AttemptTo(verdict) ==
  CASE verdict = "completed" -> "completed"
    [] verdict \in {"fail", "retry"} -> "failed"
    [] verdict \in {"requeue", "drop"} -> "cancelled"
StepTo(verdict) ==
  CASE verdict = "completed" -> "completed"
    [] verdict \in {"fail", "drop"} -> "failed"
    [] verdict \in {"retry", "requeue"} -> "pending"
RetryAt(verdict) == IF verdict \in {"retry", "requeue"} THEN "future" ELSE "none"

\* The fence the delivery started with still holds, or only a steer is
\* thought to have moved it.
SameVersions(f) ==
  step[job[f].k[1]].version = job[f].sv /\ attempt[job[f].k].version = job[f].av
SameGeneration(f) ==
  /\ attempt[job[f].k].status = "running"
  /\ attempt[job[f].k].version > job[f].av
  /\ step[job[f].k[1]].version >= job[f].sv

JobSettle(f) ==
  /\ Polled(f) /\ job[f].pc = "settle"
  /\ LET k == job[f].k IN
     IF exec.deleted THEN Finish(f, TRUE)
     ELSE IF \/ Terminal \/ attempt[k].status \notin {"queued", "running"}
             \/ ~SameVersions(f) /\ ~SameGeneration(f)
     THEN Finish(f, FALSE)
     ELSE /\ SetJob(f, [job[f] EXCEPT !.pc = "commit", !.psv = step[k[1]].version,
                                      !.pav = attempt[k].version, !.out = VerdictOf(f)])
          /\ UNCHANGED <<sched, snap, orphan>>
  /\ UNCHANGED <<storeVars, turn, left>>

CanCommit(f) == CanSettleAttempt(job[f].k, job[f].psv, job[f].pav, AttemptTo(job[f].out))
Commit(f) ==
  /\ SettleAttempt(job[f].k, AttemptTo(job[f].out), StepTo(job[f].out), RetryAt(job[f].out))
  /\ Finish(f, FALSE)

JobCommit(f) ==
  /\ Polled(f) /\ job[f].pc = "commit"
  /\ IF CanCommit(f) THEN Commit(f)
     ELSE /\ SetJob(f, [job[f] EXCEPT !.pc = "recheck"])
          /\ UNCHANGED <<storeVars, sched, snap, orphan>>
  /\ UNCHANGED <<turn, left>>

\* After a Conflict the step is read again.  The settlement is tried once
\* more only if the step version moved too; if any version moved it is
\* dropped, and otherwise the Conflict is the job's error.
JobRecheck(f) ==
  /\ Polled(f) /\ job[f].pc = "recheck"
  /\ LET k == job[f].k
         moved == ~SameVersions(f) \/ ~LatestSlot(k)
         repin == LatestSlot(k) /\ SameGeneration(f) /\ step[k[1]].version > job[f].sv
     IN
     IF repin
     THEN /\ SetJob(f, [job[f] EXCEPT !.pc = "recommit", !.psv = step[k[1]].version,
                                      !.pav = attempt[k].version])
          /\ UNCHANGED <<sched, snap, orphan>>
     ELSE Finish(f, ~moved)
  /\ UNCHANGED <<storeVars, turn, left>>

JobRecommit(f) ==
  /\ Polled(f) /\ job[f].pc = "recommit"
  /\ IF CanCommit(f) THEN Commit(f) ELSE Finish(f, TRUE) /\ UNCHANGED storeVars
  /\ UNCHANGED <<turn, left>>

-----------------------------------------------------------------------------
(* Model turns, Conversation cleanup and crashes.                          *)

\* The runtime ends a turn and completes its receipt.
TurnEnds(k, o) ==
  /\ <<k, o>> \in turn
  /\ turn' = turn \ {<<k, o>>}
  /\ \E r \in {"ok", "failed"} : FinishTurn(k, o, r)
  /\ UNCHANGED <<sched, snap, job, orphan, left>>

\* reconcile_conversation_cleanup cancels the turn of an inactive link.
CleanupConversation(k) ==
  /\ ~attempt[k].link /\ LiveTurns(k) # {}
  /\ StopTurn(k)
  /\ UNCHANGED <<sched, snap, job, orphan, left>>

\* abandon_exact_attempt_turn_admission, by the custodian of a dropped
\* request: it retries, and closes the receipt only under the authority the
\* turn was claimed with, that is while the lease row still names the
\* generation that claimed it.
Abandon(a) ==
  /\ a \in orphan
  /\ Active /\ exec.live
  /\ exec.lease = "gone" \/ (exec.lease = "mine" /\ sched.pc = "exit")
  /\ InvocationCurrent(a.k, a.sv, a.av)
  /\ orphan' = orphan \ {a}
  /\ FinishTurn(a.k, a.op, "failed")
  /\ UNCHANGED <<sched, snap, job, turn, left>>

\* The process dies; nothing but the store survives, and recover starts a
\* generation for an active execution.
CrashAndRestart ==
  /\ left.crashes > 0
  /\ left' = [left EXCEPT !.crashes = @ - 1]
  /\ exec' = [exec EXCEPT !.lease = IF @ = "mine" THEN "gone" ELSE @]
  /\ sched' = IF Active THEN NewGeneration ELSE NoGeneration
  /\ snap' = NoSnapshot
  /\ job' = IdleJobs
  /\ turn' = {}
  /\ orphan' = {}
  /\ UNCHANGED <<step, blockers, attempt, conv>>

-----------------------------------------------------------------------------

LoopStep ==
  \/ Acquire \/ Publish \/ EffectRead \/ EffectStop \/ EffectSteer \/ EffectAck
  \/ Recover \/ LoopTop \/ SkipBlocked \/ Dispatch \/ Rest \/ Wake \/ FailIfActive
  \/ WaitAborted \/ Exit \/ End

DispatchStep(s) == JobRead(s) \/ JobCreate(s) \/ JobStart(s)

FiberStep(f) ==
  \/ JobClaim(f) \/ JobLaunch(f) \/ JobAwait(f)
  \/ JobSettle(f) \/ JobCommit(f) \/ JobRecheck(f) \/ JobRecommit(f)

ClockStep == HeartbeatRenew \/ HeartbeatLost \/ LeaseExpires \/ BackoffOver

TurnStep(k) == CleanupConversation(k) \/ \E o \in Ops : TurnEnds(k, o)

SchedulerNext ==
  \/ LoopStep
  \/ \E s \in Steps : DispatchStep(s)
  \/ \E f \in Fibers : FiberStep(f)
  \/ ClockStep
  \/ \E k \in Slots : TurnStep(k)
  \/ \E a \in orphan : Abandon(a)

=============================================================================
