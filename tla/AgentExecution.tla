--------------------------- MODULE AgentExecution ---------------------------
(***************************************************************************)
(* The command side of one Agent Execution (nomifun-agent-execution,       *)
(* engine.rs) composed with its scheduler.                                 *)
(*                                                                         *)
(* A command reads the aggregate and commits one versioned transaction,    *)
(* here one action; what it does after the commit (stopping or starting    *)
(* the scheduler, delivering a conversation effect at once) happens after  *)
(* further awaits and is kept as a continuation in post.  A crash loses    *)
(* the continuations.                                                      *)
(***************************************************************************)
EXTENDS ExecutionScheduler

CONSTANTS
  Commands,        \* the commands this instance issues
  MaxOutstanding   \* bound: commands whose continuation has not finished

ASSUME CommandsAssumption == MaxOutstanding \in Nat \ {0}

VARIABLE
  post     \* continuations of committed commands

allVars == <<vars, post>>

Continuation == [do: {"start", "stop", "stop_start", "steer", "stop_turn", "ack"},
                 k: Slots \cup {NoSlot}, av: Nat]
Then(do) == [do |-> do, k |-> NoSlot, av |-> 0]
ThenDeliver(do, k, av) == [do |-> do, k |-> k, av |-> av]

TypeOK == StoreTypeOK /\ SchedulerTypeOK /\ post \subseteq Continuation

Init == StoreInit /\ SchedulerInit /\ post = {}

\* Every transaction moves the aggregate version under the loop's snapshot.
StaleSnapshot == [sched EXCEPT !.fresh = FALSE]

-----------------------------------------------------------------------------
(* Commands.                                                               *)

Committed(continuations) ==
  /\ Cardinality(post) < MaxOutstanding
  /\ post' = post \cup continuations
  /\ sched' = StaleSnapshot
  /\ UNCHANGED <<snap, job, turn, orphan>>

\* A user command, within the bound.
Issue(command, continuations) ==
  /\ command \in Commands /\ left.commands > 0
  /\ left' = [left EXCEPT !.commands = @ - 1]
  /\ Committed(continuations)

\* planned_status: the plan gate decides whether the plan needs approval.
PlannedStatus == {"running", "awaiting_approval"}

\* plan_initial, and fail_planning.
PlanInitial ==
  /\ exec.status = "planning" /\ ~exec.deleted
  /\ \E plan \in Plans, status \in PlannedStatus :
       /\ CanReconcilePlan({}, plan)
       /\ ReconcilePlan({}, plan, status)
       /\ Committed(IF status = "running" THEN {Then("start")} ELSE {})
  /\ UNCHANGED left

PlanFails ==
  /\ exec.status = "planning" /\ ~exec.deleted
  /\ UpdateStatus("failed")
  /\ Committed({})
  /\ UNCHANGED left

Approve ==
  /\ exec.status = "awaiting_approval" /\ ~exec.deleted
  /\ UpdateStatus("running")
  /\ Issue("approve", {Then("start")})

Pause ==
  /\ Active
  /\ PauseExecution
  /\ Issue("pause", {Then("stop")})

Resume ==
  /\ CanResumeExecution
  /\ ResumeExecution
  /\ Issue("resume", {Then("start")})

Cancel ==
  /\ ~Terminal /\ ~exec.deleted
  /\ CancelExecution
  /\ Issue("cancel", {Then("stop")})

Delete ==
  /\ ~exec.deleted
  /\ DeleteExecution
  /\ Issue("delete", {Then("stop")})

\* replan keeps no step.
Replan ==
  /\ \E plan \in Plans, status \in PlannedStatus :
       /\ CanReconcilePlan({}, plan)
       /\ ReconcilePlan({}, plan, status)
       /\ Issue("replan", {Then(IF status = "running" THEN "stop_start" ELSE "stop")})

\* adjust keeps some steps and the execution's gate.
Adjust ==
  /\ exec.status \in {"running", "paused", "awaiting_approval"}
  /\ \E keep \in SUBSET Current, plan \in Plans :
       /\ CanReconcilePlan(keep, plan)
       /\ ReconcilePlan(keep, plan, exec.status)
       /\ Issue("adjust", {Then(IF exec.status = "running" THEN "stop_start" ELSE "stop")})

Retry(s) ==
  /\ CanResetForRetry(s)
  /\ ResetForRetry(s)
  /\ Issue("retry", {Then("start")})

\* The output of the step's latest Conversation is adopted.
Adopt(k) ==
  /\ CanAdoptOutput(k)
  /\ \E j \in SlotsOf(k[1]) : LatestSlot(j) /\ \E o \in Ops : conv[j].receipt[o] # "none"
  /\ AdoptOutput(k)
  /\ Issue("adopt", {Then("start")})

Steer(k) ==
  /\ CanEnqueueSteer(k)
  /\ EnqueueSteer(k)
  /\ Issue("steer", {ThenDeliver("steer", k, attempt[k].version + 1)})

\* Mutant of Answer: the scheduler is not woken.
AnswerWithoutWake(k) ==
  /\ CanAnswer(k)
  /\ ResumeWaitingAttempt(k)
  /\ Issue("answer", {})

Answer(k) ==
  /\ CanAnswer(k)
  /\ ResumeWaitingAttempt(k)
  /\ Issue("answer", {Then("start")})

\* request_user_decision, called by a tool of the live turn under the lease
\* of the generation registered in this process.
RequestUserDecision(k) ==
  /\ "ask" \in Commands /\ attempt[k].decisions < MaxDecisions
  /\ LiveTurns(k) # {}
  /\ attempt[k].status = "running" /\ attempt[k].link /\ step[k[1]].current
  /\ sched.pc \in Published /\ SchedulerFence
  /\ AskDecision(k)
  /\ Committed({ThenDeliver("stop_turn", k, attempt[k].version + 1)})
  /\ UNCHANGED left

-----------------------------------------------------------------------------
(* Continuations.                                                          *)

PostStart(p) ==
  /\ p \in post /\ p.do = "start"
  /\ sched' = Started(sched)
  /\ post' = post \ {p}
  /\ UNCHANGED <<storeVars, snap, job, turn, orphan, left>>

PostStop(p) ==
  /\ p \in post /\ p.do \in {"stop", "stop_start"}
  /\ sched' = Stopped(sched)
  /\ post' = (post \ {p}) \cup (IF p.do = "stop_start" THEN {Then("start")} ELSE {})
  /\ UNCHANGED <<storeVars, snap, job, turn, orphan, left>>

\* The immediate delivery of a steer or a stop; on failure the durable effect
\* stays pending for the scheduler.
PostSteer(p) ==
  /\ p \in post /\ p.do = "steer"
  /\ \/ /\ SteerAccepted(p.k)
        /\ IF attempt[p.k].version = p.av THEN SteerTurn(p.k) ELSE UNCHANGED storeVars
        /\ \/ post' = (post \ {p}) \cup {ThenDeliver("ack", p.k, p.av)}
           \/ /\ SteerFailsClaimed(p.k)
              /\ post' = (post \ {p}) \cup {Then("start")}
     \/ /\ ~SteerAccepted(p.k)
        /\ post' = (post \ {p}) \cup {Then("start")}
        /\ UNCHANGED storeVars
  /\ UNCHANGED schedVars

PostStopTurn(p) ==
  /\ p \in post /\ p.do = "stop_turn"
  /\ IF StopRefused(p.k)
     THEN /\ post' = (post \ {p}) \cup {Then("start")}
          /\ UNCHANGED <<storeVars, turn>>
     ELSE /\ StopTurn(p.k)
          /\ post' = (post \ {p}) \cup {ThenDeliver("ack", p.k, p.av)}
  /\ UNCHANGED <<sched, snap, job, orphan, left>>

PostAck(p) ==
  /\ p \in post /\ p.do = "ack"
  /\ post' = (post \ {p}) \cup {Then("start")}
  /\ IF CanAcknowledgeEffect(p.k, p.av)
     THEN AcknowledgeEffect(p.k, <<>>) /\ sched' = StaleSnapshot
     ELSE UNCHANGED <<storeVars, sched>>
  /\ UNCHANGED <<snap, job, turn, orphan, left>>

-----------------------------------------------------------------------------
(* Specification.                                                          *)

Planning == PlanInitial \/ PlanFails

Command ==
  \/ Approve \/ Pause \/ Resume \/ Cancel \/ Delete \/ Replan \/ Adjust
  \/ \E s \in Steps : Retry(s)
  \/ \E k \in Slots : Adopt(k) \/ Steer(k) \/ Answer(k) \/ RequestUserDecision(k)

Continue(p) == PostStart(p) \/ PostStop(p) \/ PostSteer(p) \/ PostStopTurn(p) \/ PostAck(p)

Next ==
  \/ SchedulerNext /\ UNCHANGED post
  \/ Planning
  \/ Command
  \/ \E p \in post : Continue(p)
  \/ CrashAndRestart /\ post' = {}

Spec == Init /\ [][Next]_allVars

\* The runtime polls every spawned future and every turn ends (or times out);
\* timers fire and leases expire.  Nobody has to issue a command, and crashes
\* and stalled heartbeats need not happen.
Fairness ==
  /\ WF_allVars(Planning)
  /\ WF_allVars(LoopStep /\ UNCHANGED post)
  /\ \A s \in Steps : WF_allVars(DispatchStep(s) /\ UNCHANGED post)
  /\ \A f \in Fibers : WF_allVars(FiberStep(f) /\ UNCHANGED post)
  /\ WF_allVars(HeartbeatRenew /\ UNCHANGED post)
  /\ WF_allVars(HeartbeatLost /\ UNCHANGED post)
  /\ WF_allVars(LeaseExpires /\ exec.lease = "gone" /\ UNCHANGED post)
  /\ WF_allVars(BackoffOver /\ UNCHANGED post)
  /\ \A k \in Slots : WF_allVars(TurnStep(k) /\ UNCHANGED post)
  /\ WF_allVars((\E a \in orphan : Abandon(a)) /\ UNCHANGED post)
  /\ WF_allVars(\E p \in post : Continue(p))

FairSpec == Spec /\ Fairness

=============================================================================
