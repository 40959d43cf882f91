--------------------------- MODULE ExecutionStore ---------------------------
(***************************************************************************)
(* The durable state of one Agent Execution and the SQLite transactions on *)
(* it (nomifun-db, repository/sqlite_agent_execution.rs).                  *)
(*                                                                         *)
(* Every repository method is one transaction: it either commits all of    *)
(* its updates or, when a compare-and-set affects no row, rolls back.      *)
(* A method M is modelled by CanM, the condition under which it commits,   *)
(* and M, the updates; a caller whose CanM is false gets a Conflict.       *)
(*                                                                         *)
(* Abstractions.  The aggregate's own version is not a variable: every     *)
(* transaction bumps it and every user command compares it with the value  *)
(* it read, so a command's read and commit are one atomic step; where the  *)
(* scheduler carries it across an await, ExecutionScheduler keeps a flag   *)
(* that says whether it is still current.  Step and attempt versions, the  *)
(* fences of the callbacks, are kept.  Time is a Boolean: a retry delay is *)
(* pending or over, a lease is live or expired.  A Conversation is kept as *)
(* its active turn operation, its delivery receipts and whether the        *)
(* pending steer was delivered.                                            *)
(***************************************************************************)
EXTENDS Integers, Sequences, FiniteSets

CONSTANTS
  Steps,          \* the step ids a plan may use
  Plans,          \* the plans the planner may produce: steps and their blockers
  MaxAttempts,    \* bound: attempts recorded per step
  MaxDecisions    \* bound: questions answered per attempt

ASSUME StepsAssumption == IsFiniteSet(Steps) /\ Steps # {}
ASSUME PlansAssumption ==
  Plans \subseteq [steps: SUBSET Steps, blockers: [Steps -> SUBSET Steps]]
ASSUME BoundsAssumption == MaxAttempts \in Nat \ {0} /\ MaxDecisions \in Nat

VARIABLES
  exec,     \* the execution row: status, scheduler lease, tombstone
  step,     \* step rows: status, version, retry delay pending, in the plan
  blockers, \* active dependency edges: the blockers of each step
  attempt,  \* attempt rows, with their durable conversation effects and link
  conv      \* the attempt's Conversation: active operation and receipts

storeVars == <<exec, step, blockers, attempt, conv>>

-----------------------------------------------------------------------------
(* Rows.                                                                   *)

ExecutionStatus ==
  {"planning", "awaiting_approval", "running", "paused", "waiting_input",
   "completed", "completed_with_failures", "failed", "cancelled"}
TerminalExecution == {"completed", "completed_with_failures", "failed", "cancelled"}
ActiveExecution == {"running", "waiting_input"}

StepStatus ==
  {"pending", "running", "waiting_input", "completed", "failed", "skipped", "cancelled"}
TerminalStep == {"completed", "failed", "skipped", "cancelled"}

AttemptStatus ==
  {"queued", "running", "waiting_input", "completed", "failed", "cancelled", "interrupted"}
ActiveAttempt == {"queued", "running", "waiting_input"}

EffectKind == {"stop_turn", "steer", "decision_input"}

\* Attempt number a of step s.
Slots == Steps \X (1 .. MaxAttempts)

\* Turn operations of an attempt's Conversation: 0 is "{attempt}:initial-turn",
\* i > 0 the continuation that carries the i-th answer.
Ops == 0 .. MaxDecisions
InitialTurn == 0
NoOp == -1

\* A step's retry time: not set, ahead, or reached.
DispatchAfter == {"none", "future", "past"}

ReceiptStatus == {"none", "accepted", "ok", "failed"}

\* A lease owner is the generation that runs now, or one that is gone.
ExecutionRow ==
  [status: ExecutionStatus, lease: {"none", "mine", "gone"}, live: BOOLEAN,
   deleted: BOOLEAN]
StepRow ==
  [status: StepStatus \cup {"absent"}, version: Nat, dispatchAfter: DispatchAfter,
   current: BOOLEAN]
AttemptRow ==
  [status: AttemptStatus \cup {"absent"}, version: Nat, effects: Seq(EffectKind),
   review: BOOLEAN, link: BOOLEAN, decisions: Ops]
ConversationRow ==
  [active: Ops \cup {NoOp}, receipt: [Ops -> ReceiptStatus], steered: BOOLEAN]

NoStep == [status |-> "absent", version |-> 0, dispatchAfter |-> "none", current |-> FALSE]
NewStep == [status |-> "pending", version |-> 0, dispatchAfter |-> "none", current |-> TRUE]
NoAttempt ==
  [status |-> "absent", version |-> 0, effects |-> <<>>, review |-> FALSE,
   link |-> FALSE, decisions |-> 0]
NewConversation ==
  [active |-> NoOp, receipt |-> [o \in Ops |-> "none"], steered |-> FALSE]

StoreTypeOK ==
  /\ exec \in ExecutionRow
  /\ step \in [Steps -> StepRow]
  /\ blockers \in [Steps -> SUBSET Steps]
  /\ attempt \in [Slots -> AttemptRow]
  /\ conv \in [Slots -> ConversationRow]

\* create_execution: the aggregate is born planning, without a plan.
StoreInit ==
  /\ exec = [status |-> "planning", lease |-> "none", live |-> FALSE, deleted |-> FALSE]
  /\ step = [s \in Steps |-> NoStep]
  /\ blockers = [s \in Steps |-> {}]
  /\ attempt = [k \in Slots |-> NoAttempt]
  /\ conv = [k \in Slots |-> NewConversation]

-----------------------------------------------------------------------------
(* Reading the rows.                                                       *)

Active == exec.status \in ActiveExecution /\ ~exec.deleted
Terminal == exec.status \in TerminalExecution
Current == {s \in Steps : step[s].current}
SlotsOf(s) == {k \in Slots : k[1] = s}
HasActiveAttempt(s) == \E k \in SlotsOf(s) : attempt[k].status \in ActiveAttempt
WaitingAttempts == {k \in Slots : attempt[k].status = "waiting_input"}

\* The row the next attempt of k's step is inserted in (attempt_no is MAX + 1).
FreshSlot(k) ==
  /\ attempt[k].status = "absent"
  /\ \A a \in 1 .. k[2] - 1 : attempt[<<k[1], a>>].status # "absent"

\* The step's most recent attempt.
LatestSlot(k) ==
  /\ attempt[k].status # "absent"
  /\ \A j \in SlotsOf(k[1]) : j[2] > k[2] => attempt[j].status = "absent"

\* fence_scheduler_write_tx: only the unexpired lease owner of an active
\* execution may write on the scheduler's behalf.
SchedulerFence == exec.lease = "mine" /\ exec.live /\ Active

\* fence_attempt_turn_authority_tx: the lease, and the exact step and attempt
\* generation.
InvocationCurrent(k, sv, av) ==
  /\ step[k[1]].current /\ step[k[1]].status = "running" /\ step[k[1]].version = sv
  /\ attempt[k].status = "running" /\ attempt[k].version = av
  /\ attempt[k].link
TurnAuthority(k, sv, av) == SchedulerFence /\ InvocationCurrent(k, sv, av)

\* The status an execution keeps its lease in; any other status clears it.
WithStatus(row, status) ==
  [row EXCEPT !.status = status,
              !.lease = IF status \in ActiveExecution THEN @ ELSE "none",
              !.live = IF status \in ActiveExecution THEN @ ELSE FALSE]

\* A transition moves the row's version; an attempt that ends gives up its
\* Conversation link.
SetStep(row, status) ==
  [row EXCEPT !.status = status, !.version = @ + 1]
SetAttempt(row, status) ==
  [row EXCEPT !.status = status, !.version = @ + 1]
EndAttempt(row, status) ==
  [SetAttempt(row, status) EXCEPT !.link = FALSE]

-----------------------------------------------------------------------------
(* Lease.                                                                  *)

\* try_acquire_lease: free or expired.
CanAcquireLease == Active /\ (exec.lease = "none" \/ ~exec.live)
AcquireLease ==
  /\ exec' = [exec EXCEPT !.lease = "mine", !.live = TRUE]
  /\ UNCHANGED <<step, blockers, attempt, conv>>

\* renew_lease compares owner and expiry but does not require the lease to
\* be unexpired.
CanRenewLease == exec.lease = "mine" /\ Active
RenewLease ==
  /\ exec' = [exec EXCEPT !.live = TRUE]
  /\ UNCHANGED <<step, blockers, attempt, conv>>

\* release_lease by the owner; FALSE when a heartbeat moved the expiry first.
ReleaseLease(matches) ==
  /\ exec' = IF exec.lease # "mine" THEN exec
             ELSE IF matches THEN [exec EXCEPT !.lease = "none", !.live = FALSE]
             ELSE [exec EXCEPT !.lease = "gone"]
  /\ UNCHANGED <<step, blockers, attempt, conv>>

-----------------------------------------------------------------------------
(* Attempt lifecycle, written by the scheduler.                            *)

\* create_attempt for an agent step: the step stays pending.
CanCreateAttempt(s, sv) ==
  /\ SchedulerFence
  /\ step[s].current /\ step[s].status = "pending" /\ step[s].version = sv
CreateAttempt(k) ==
  /\ step' = [step EXCEPT ![k[1]] = [SetStep(@, "pending") EXCEPT !.dispatchAfter = "none"]]
  /\ attempt' = [attempt EXCEPT ![k] = [NoAttempt EXCEPT !.status = "queued"]]
  /\ UNCHANGED <<exec, blockers, conv>>

CanStartAttempt(k, sv, av) ==
  /\ SchedulerFence
  /\ step[k[1]].current /\ step[k[1]].status = "pending" /\ step[k[1]].version = sv
  /\ attempt[k].status = "queued" /\ attempt[k].version = av
StartAttempt(k) ==
  /\ step' = [step EXCEPT ![k[1]] = SetStep(@, "running")]
  /\ attempt' = [attempt EXCEPT ![k] = [SetAttempt(@, "running") EXCEPT !.link = TRUE]]
  /\ UNCHANGED <<exec, blockers, conv>>

\* settle_attempt: attempt and step are written together; a queued attempt
\* can only be cancelled.
CanSettleAttempt(k, sv, av, to) ==
  /\ SchedulerFence
  /\ attempt[k].status \in ActiveAttempt /\ attempt[k].version = av
  /\ attempt[k].status = "queued" => to = "cancelled"
  /\ step[k[1]].current /\ step[k[1]].version = sv
SettleAttempt(k, to, stepTo, after) ==
  /\ attempt' = [attempt EXCEPT ![k] = [EndAttempt(@, to) EXCEPT !.effects = <<>>,
                                                                  !.review = FALSE]]
  /\ step' = [step EXCEPT ![k[1]] = [SetStep(@, stepTo) EXCEPT !.dispatchAfter = after]]
  /\ UNCHANGED <<exec, blockers, conv>>

\* settle_attempt as request_user_decision calls it: the question parks
\* attempt, step and execution, and a StopTurn effect replaces the pending
\* effects.
AskDecision(k) ==
  /\ attempt' = [attempt EXCEPT ![k] = [SetAttempt(@, "waiting_input") EXCEPT
                                         !.effects = <<"stop_turn">>, !.review = FALSE]]
  /\ step' = [step EXCEPT ![k[1]] = SetStep(@, "waiting_input")]
  /\ exec' = WithStatus(exec, "waiting_input")
  /\ UNCHANGED <<blockers, conv>>

\* acknowledge_attempt_conversation_effect: only the attempt version moves.
CanAcknowledgeEffect(k, av) ==
  /\ attempt[k].version = av /\ attempt[k].status \in {"running", "waiting_input"}
  /\ Active
AcknowledgeEffect(k, rest) ==
  /\ attempt' = [attempt EXCEPT ![k] = [SetAttempt(@, @.status) EXCEPT !.effects = rest]]
  /\ UNCHANGED <<exec, step, blockers, conv>>

\* transition_step_status with the scheduler's lease.
CanTransitionStep(s, sv) ==
  /\ SchedulerFence
  /\ step[s].current /\ step[s].version = sv /\ ~HasActiveAttempt(s)
TransitionStep(s, to) ==
  /\ step' = [step EXCEPT ![s] = [SetStep(@, to) EXCEPT
                                    !.dispatchAfter = IF to = "pending" THEN @ ELSE "none"]]
  /\ UNCHANGED <<exec, blockers, attempt, conv>>

-----------------------------------------------------------------------------
(* Turn delivery receipts.                                                 *)

\* claim_attempt_turn_delivery_receipt, as the winner of the INSERT: the
\* Conversation must be idle and hold no other accepted turn.
CanClaimTurn(k, o, sv, av) ==
  /\ conv[k].receipt[o] = "none"
  /\ TurnAuthority(k, sv, av)
  /\ conv[k].active = NoOp
  /\ \A p \in Ops : conv[k].receipt[p] # "accepted"
ClaimTurn(k, o) ==
  /\ conv' = [conv EXCEPT ![k].active = o, ![k].receipt[o] = "accepted"]
  /\ UNCHANGED <<exec, step, blockers, attempt>>

\* validate_attempt_turn_effect_authority, just before the turn runs.
ValidTurnEffect(k, o, sv, av) ==
  /\ TurnAuthority(k, sv, av)
  /\ conv[k].active = o /\ conv[k].receipt[o] = "accepted"

\* The Conversation after operation o ended with result r, or was found
\* displaced: only the exact active operation is touched.
FinishedTurn(row, o, r) ==
  IF row.active = o
  THEN [row EXCEPT !.active = NoOp,
                   !.receipt[o] = IF @ = "accepted" THEN r ELSE @]
  ELSE row

FinishTurn(k, o, r) ==
  /\ conv' = [conv EXCEPT ![k] = FinishedTurn(@, o, r)]
  /\ UNCHANGED <<exec, step, blockers, attempt>>

-----------------------------------------------------------------------------
(* Reconciliation of attempts whose call was lost.                         *)

\* reconcile_running_attempt_receipt_tx: the completed receipt of the initial
\* turn is adopted, unless another operation is active in the Conversation.
Adoptable(k) ==
  /\ attempt[k].link
  /\ conv[k].receipt[InitialTurn] \in {"ok", "failed"}
  /\ conv[k].active \in {NoOp, InitialTurn}

\* Any other running attempt is parked for review.
ReconciledStatus(k) ==
  IF ~Adoptable(k) THEN "waiting_input"
  ELSE IF conv[k].receipt[InitialTurn] = "ok" THEN "completed" ELSE "failed"

\* Mutant of ReconciledAttempt: the link of a parked attempt stays active.
ReconciledKeepsLink(k) ==
  [SetAttempt(attempt[k], ReconciledStatus(k)) EXCEPT
     !.effects = <<>>, !.review = ~Adoptable(k)]

ReconciledAttempt(k) ==
  [EndAttempt(attempt[k], ReconciledStatus(k)) EXCEPT
     !.effects = <<>>, !.review = ~Adoptable(k)]

ReconciledStep(k) ==
  [SetStep(step[k[1]], ReconciledStatus(k)) EXCEPT !.dispatchAfter = "none"]

\* settle_recovered_attempt_conversation_tx: an accepted initial turn is
\* closed as failed; a successor operation is left alone.
ReconciledConversation(k) ==
  IF attempt[k].link THEN FinishedTurn(conv[k], InitialTurn, "failed") ELSE conv[k]

\* reconcile_recovered_attempt, one queued or running attempt at a time.
CanReconcileRecovered(k) ==
  /\ SchedulerFence
  /\ attempt[k].status \in {"queued", "running"}
  /\ step[k[1]].current
  /\ step[k[1]].status = IF attempt[k].status = "queued" THEN "pending" ELSE "running"
ReconcileRecovered(k) ==
  IF attempt[k].status = "queued"
  THEN /\ attempt' = [attempt EXCEPT ![k] = [EndAttempt(@, "cancelled") EXCEPT !.effects = <<>>]]
       /\ step' = [step EXCEPT ![k[1]] = [SetStep(@, "pending") EXCEPT !.dispatchAfter = "none"]]
       /\ UNCHANGED <<exec, blockers, conv>>
  ELSE /\ attempt' = [attempt EXCEPT ![k] = ReconciledAttempt(k)]
       /\ step' = [step EXCEPT ![k[1]] = ReconciledStep(k)]
       /\ conv' = [conv EXCEPT ![k] = ReconciledConversation(k)]
       /\ exec' = IF Adoptable(k) THEN exec ELSE WithStatus(exec, "waiting_input")
       /\ UNCHANGED blockers

-----------------------------------------------------------------------------
(* Aggregate transitions written by the scheduler.                         *)

\* Mutants of TerminateChildren: settled attempts are cancelled too; the
\* attempts are forgotten.
TerminateEverything ==
  /\ step' = [s \in Steps |->
                IF step[s].current /\ step[s].status \notin TerminalStep
                THEN [SetStep(step[s], "cancelled") EXCEPT !.dispatchAfter = "none"]
                ELSE step[s]]
  /\ attempt' = [k \in Slots |->
                   IF attempt[k].status # "absent"
                   THEN EndAttempt(attempt[k], "cancelled")
                   ELSE attempt[k]]
  /\ UNCHANGED <<blockers, conv>>
TerminateStepsOnly ==
  /\ step' = [s \in Steps |->
                IF step[s].current /\ step[s].status \notin TerminalStep
                THEN [SetStep(step[s], "cancelled") EXCEPT !.dispatchAfter = "none"]
                ELSE step[s]]
  /\ UNCHANGED <<blockers, attempt, conv>>

\* terminate_unfinished_execution_children_tx, with the aggregate's status.
TerminateChildren ==
  /\ step' = [s \in Steps |->
                IF step[s].current /\ step[s].status \notin TerminalStep
                THEN [SetStep(step[s], "cancelled") EXCEPT !.dispatchAfter = "none"]
                ELSE step[s]]
  /\ attempt' = [k \in Slots |->
                   IF attempt[k].status \in ActiveAttempt
                   THEN EndAttempt(attempt[k], "cancelled")
                   ELSE [attempt[k] EXCEPT !.link = FALSE]]
  /\ UNCHANGED <<blockers, conv>>

\* fail_active_execution.
FailActiveExecution ==
  /\ exec' = WithStatus(exec, "failed")
  /\ TerminateChildren

\* update_execution with a terminal status (finalize_if_settled) or approval.
UpdateStatus(status) ==
  /\ exec' = WithStatus(exec, status)
  /\ UNCHANGED <<step, blockers, attempt, conv>>

-----------------------------------------------------------------------------
(* User commands.  The aggregate version compare-and-set makes reading the *)
(* aggregate and committing one step.                                      *)

\* A step that leaves the plan.
DroppedStep(row) ==
  [SetStep(row, CASE row.status = "pending" -> "skipped"
                  [] row.status \in {"running", "waiting_input"} -> "cancelled"
                  [] OTHER -> row.status)
     EXCEPT !.dispatchAfter = "none", !.current = FALSE]

\* Mutant of ReconcilePlan: the queued attempts of dropped steps survive.
ReconcileKeepsQueued(keep, plan, status) ==
  LET dropped == Current \ keep IN
  /\ exec' = WithStatus(exec, status)
  /\ step' = [s \in Steps |->
                IF s \in plan.steps THEN NewStep
                ELSE IF s \in dropped
                THEN DroppedStep(step[s])
                ELSE step[s]]
  /\ blockers' = [s \in Steps |->
                    IF s \in plan.steps THEN plan.blockers[s]
                    ELSE IF s \in keep THEN blockers[s] \cap keep ELSE {}]
  /\ attempt' = [k \in Slots |->
                   IF k[1] \in dropped /\ attempt[k].status \in {"running", "waiting_input"}
                   THEN EndAttempt(attempt[k], "interrupted")
                   ELSE attempt[k]]
  /\ UNCHANGED conv

\* reconcile_plan: steps outside keep leave the plan, the new ones enter it,
\* and the dependency edges are replaced as a whole.
CanReconcilePlan(keep, plan) ==
  /\ ~Terminal /\ ~exec.deleted
  /\ keep \subseteq Current
  /\ \A s \in plan.steps : step[s].status = "absent" /\ plan.blockers[s] \subseteq keep \cup plan.steps
  /\ keep \cup plan.steps # {}
ReconcilePlan(keep, plan, status) ==
  LET dropped == Current \ keep IN
  /\ exec' = WithStatus(exec, status)
  /\ step' = [s \in Steps |->
                IF s \in plan.steps THEN NewStep
                ELSE IF s \in dropped
                THEN DroppedStep(step[s])
                ELSE step[s]]
  /\ blockers' = [s \in Steps |->
                    IF s \in plan.steps THEN plan.blockers[s]
                    ELSE IF s \in keep THEN blockers[s] \cap keep ELSE {}]
  /\ attempt' = [k \in Slots |->
                   IF k[1] \notin dropped THEN attempt[k]
                   ELSE IF attempt[k].status \in ActiveAttempt
                   THEN EndAttempt(attempt[k], IF attempt[k].status = "queued"
                                               THEN "cancelled" ELSE "interrupted")
                   ELSE [attempt[k] EXCEPT !.link = FALSE]]
  /\ UNCHANGED conv

\* Mutant of PauseExecution: queued reservations are left behind.
PauseKeepsQueued ==
  LET lost == {k \in Slots : /\ attempt[k].status = "running"
                             /\ step[k[1]].current /\ step[k[1]].status = "running"}
  IN
  /\ exec' = WithStatus(exec, "paused")
  /\ attempt' = [k \in Slots |-> IF k \in lost THEN ReconciledAttempt(k) ELSE attempt[k]]
  /\ step' = [s \in Steps |->
                IF \E k \in lost : k[1] = s
                THEN ReconciledStep(CHOOSE k \in lost : k[1] = s) ELSE step[s]]
  /\ conv' = [k \in Slots |-> IF k \in lost THEN ReconciledConversation(k) ELSE conv[k]]
  /\ UNCHANGED blockers

\* pause_execution: the lease is revoked, started calls are reconciled with
\* their receipts, queued reservations are cancelled.
PauseExecution ==
  LET lost == {k \in Slots : /\ attempt[k].status = "running"
                             /\ step[k[1]].current /\ step[k[1]].status = "running"}
  IN
  /\ exec' = WithStatus(exec, "paused")
  /\ attempt' = [k \in Slots |->
                   IF k \in lost THEN ReconciledAttempt(k)
                   ELSE IF attempt[k].status = "queued"
                   THEN EndAttempt(attempt[k], "cancelled")
                   ELSE attempt[k]]
  /\ step' = [s \in Steps |->
                IF \E k \in lost : k[1] = s
                THEN ReconciledStep(CHOOSE k \in lost : k[1] = s) ELSE step[s]]
  /\ conv' = [k \in Slots |-> IF k \in lost THEN ReconciledConversation(k) ELSE conv[k]]
  /\ UNCHANGED blockers

\* resume_execution: refused while an attempt is blocked for review.
CanResumeExecution ==
  /\ exec.status = "paused" /\ ~exec.deleted
  /\ \A k \in WaitingAttempts : ~attempt[k].review
ResumeExecution ==
  /\ exec' = [exec EXCEPT !.status = IF WaitingAttempts = {} THEN "running"
                                     ELSE "waiting_input"]
  /\ UNCHANGED <<step, blockers, attempt, conv>>

CancelExecution ==
  /\ exec' = WithStatus(exec, "cancelled")
  /\ TerminateChildren

\* delete_execution: a tombstone; an unfinished execution is cancelled.
DeleteExecution ==
  /\ exec' = [WithStatus(exec, IF Terminal THEN exec.status ELSE "cancelled")
                EXCEPT !.deleted = TRUE]
  /\ TerminateChildren

\* s and every step that depends on it, directly or not.
Downstream(s) ==
  {t \in Steps : \A D \in SUBSET Steps :
      (s \in D /\ \A u \in Steps : blockers[u] \cap D # {} => u \in D) => t \in D}

Reopens(status) == IF status \in TerminalExecution THEN "running" ELSE status

\* reset_steps_for_retry, of one step.
CanResetForRetry(s) ==
  /\ ~exec.deleted
  /\ exec.status \in ActiveExecution \cup {"paused"} \cup (TerminalExecution \ {"cancelled"})
  /\ step[s].current
  /\ \/ step[s].status \in {"completed", "failed", "skipped"}
     \/ step[s].status = "pending" /\ step[s].dispatchAfter # "none"
  /\ \A t \in Downstream(s) : step[t].status # "cancelled" /\ ~HasActiveAttempt(t)
ResetForRetry(s) ==
  /\ exec' = [exec EXCEPT !.status = "running"]
  /\ step' = [t \in Steps |->
                IF t \in Downstream(s)
                THEN [SetStep(step[t], "pending") EXCEPT !.dispatchAfter = "none"] ELSE step[t]]
  /\ UNCHANGED <<blockers, attempt, conv>>

\* reopen_adopt_downstream_tx: the skipped steps downstream of s that no
\* failed, skipped or cancelled blocker holds back once s is completed.
Reopened(s) ==
  LET Free(b, R) == \/ b = s \/ b \in R
                    \/ step[b].status \notin {"failed", "skipped", "cancelled"}
      skipped == {t \in Downstream(s) \ {s} : step[t].status = "skipped"}
  IN UNION {R \in SUBSET skipped : \A t \in R : \A b \in blockers[t] : Free(b, R)}

\* adopt_step_output: a completed attempt is recorded without running one.
CanAdoptOutput(k) ==
  /\ ~exec.deleted
  /\ exec.status \in ActiveExecution \cup {"paused"} \cup (TerminalExecution \ {"cancelled"})
  /\ step[k[1]].current /\ step[k[1]].status # "cancelled"
  /\ ~HasActiveAttempt(k[1])
  /\ FreshSlot(k)
AdoptOutput(k) ==
  LET reopened == Reopened(k[1]) IN
  /\ exec' = [exec EXCEPT !.status = Reopens(@)]
  /\ step' = [t \in Steps |->
                IF t = k[1] THEN [SetStep(step[t], "completed") EXCEPT !.dispatchAfter = "none"]
                ELSE IF t \in reopened THEN SetStep(step[t], "pending")
                ELSE step[t]]
  /\ attempt' = [attempt EXCEPT ![k] = [NoAttempt EXCEPT !.status = "completed"]]
  /\ UNCHANGED <<blockers, conv>>

\* Mutant of CanAnswer: an attempt parked for review can be answered.
CanAnswerReviewed(k) ==
  /\ Active
  /\ attempt[k].status = "waiting_input"
  /\ step[k[1]].current /\ step[k[1]].status = "waiting_input"
  /\ \A i \in 1 .. Len(attempt[k].effects) : attempt[k].effects[i] # "decision_input"

\* resume_waiting_attempt: the answer becomes a durable DecisionInput effect.
CanAnswer(k) ==
  /\ Active
  /\ attempt[k].status = "waiting_input" /\ ~attempt[k].review /\ attempt[k].link
  /\ step[k[1]].current /\ step[k[1]].status = "waiting_input"
  /\ \A i \in 1 .. Len(attempt[k].effects) : attempt[k].effects[i] # "decision_input"
AnsweredAttempt(row) ==
  [SetAttempt(row, "running") EXCEPT
     !.effects = Append(@, "decision_input"), !.review = FALSE, !.decisions = @ + 1]
ResumeWaitingAttempt(k) ==
  /\ attempt' = [attempt EXCEPT ![k] = AnsweredAttempt(@)]
  /\ step' = [step EXCEPT ![k[1]] = SetStep(@, "running")]
  /\ exec' = [exec EXCEPT !.status = IF WaitingAttempts \ {k} = {} THEN "running"
                                     ELSE "waiting_input"]
  /\ UNCHANGED <<blockers, conv>>

\* enqueue_attempt_conversation_effect: a steer moves only the attempt version.
CanEnqueueSteer(k) ==
  /\ Active
  /\ attempt[k].status = "running" /\ attempt[k].effects = <<>>
  /\ step[k[1]].current /\ step[k[1]].status = "running" /\ attempt[k].link
EnqueueSteer(k) ==
  /\ attempt' = [attempt EXCEPT ![k] = [SetAttempt(@, @.status) EXCEPT
                                         !.effects = <<"steer">>]]
  /\ conv' = [conv EXCEPT ![k].steered = FALSE]
  /\ UNCHANGED <<exec, step, blockers>>

=============================================================================
