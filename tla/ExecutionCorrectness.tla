------------------------ MODULE ExecutionCorrectness ------------------------
(***************************************************************************)
(* The properties of an Agent Execution.                                   *)
(***************************************************************************)
EXTENDS AgentExecution

-----------------------------------------------------------------------------
(* Invariants.                                                             *)

\* A step never has two attempts in flight.  The schema has no unique index
\* for it: create_attempt only compares the step version, a queued attempt
\* leaves its step pending, and the scheduler's in-flight reservations and
\* recover_interrupted must make up for that across generations and crashes.
OneActiveAttempt ==
  \A j, k \in Slots :
    /\ j[1] = k[1]
    /\ attempt[j].status \in ActiveAttempt
    /\ attempt[k].status \in ActiveAttempt
    => j = k

\* Step and attempt rows tell the same story in every reachable state: an
\* attempt in flight belongs to a current step of the matching status, a step
\* that runs or waits has such an attempt, and only attempts that started and
\* are not settled or parked hold an active Conversation link.
RowsAgree ==
  /\ \A k \in Slots :
       /\ attempt[k].status = "queued" => step[k[1]].status = "pending"
       /\ attempt[k].status = "running" => step[k[1]].status = "running" /\ attempt[k].link
       /\ attempt[k].status = "waiting_input" =>
            step[k[1]].status = "waiting_input" /\ attempt[k].link = ~attempt[k].review
       /\ attempt[k].status \in ActiveAttempt => step[k[1]].current
       /\ attempt[k].link => attempt[k].status \in {"running", "waiting_input"}
  /\ \A s \in Steps :
       step[s].status \in {"running", "waiting_input"} => HasActiveAttempt(s)

\* A Conversation never runs two model turns at once, whatever stops, answers,
\* pauses, dropped futures and crashes interleave with its deliveries.
SerialConversation ==
  \A k \in Slots : Cardinality(LiveTurns(k)) <= 1

\* An effect the scheduler will deliver always has a Conversation to deliver
\* it to; otherwise the loop fails the whole execution with an internal error.
EffectsDeliverable ==
  \A k \in Slots : Undelivered(k) => attempt[k].link

\* A settled execution has nothing in flight and its status is the one its
\* steps justify, although finalize_if_settled decides on a snapshot that
\* commands may have outdated.
SettledIsJustified ==
  /\ Terminal => \A k \in Slots : attempt[k].status \notin ActiveAttempt
  /\ Terminal => \A s \in Current : step[s].status \in TerminalStep
  /\ exec.status = "completed" => \A s \in Current : step[s].status = "completed"

\* A paused execution has no lease and no attempt that was dispatched; a
\* generation that is still unwinding cannot add one.
PausedIsQuiet ==
  exec.status = "paused" =>
    /\ exec.lease = "none"
    /\ \A k \in Slots : attempt[k].status \notin {"queued", "running"}

\* While a generation loops, every queued attempt is in the hands of the job
\* of its step: no reservation is forgotten and none is shared.
QueuedHasOwner ==
  \A k \in Slots :
    attempt[k].status = "queued" /\ sched.pc \in {"loop", "pass", "rest", "wait", "sleep"}
      => sched.err \/ job[k[1]].k = k

-----------------------------------------------------------------------------
(* Action properties.                                                      *)

\* An attempt parked for review is never taken up again by the scheduler: it
\* leaves that state only when the execution settles or its step leaves the
\* plan.
ReviewIsFinal ==
  [][\A k \in Slots : attempt[k].review =>
       \/ attempt'[k].review /\ attempt'[k].status = attempt[k].status
       \/ exec'.status \in TerminalExecution
       \/ ~step'[k[1]].current]_allVars

\* A settled execution is reopened, and its steps move again, only by a user
\* command, and a cancelled one never; the writes of a scheduler that has not
\* noticed are fenced off.
OnlyUsersReopen ==
  [][Terminal /\ (exec'.status # exec.status \/ step' # step \/ attempt' # attempt)
       => left'.commands < left.commands /\ (exec.status = "cancelled" => exec'.deleted)]_allVars

-----------------------------------------------------------------------------
(* The abstract specification.                                             *)

Lifecycle == INSTANCE ExecutionLifecycle WITH
  Attempts <- Slots,
  execution <- exec.status,
  steps <- [s \in Steps |-> step[s].status],
  attempts <- [k \in Slots |-> attempt[k].status]

\* The aggregate takes only the transitions its documentation allows.
ImplementsLifecycle == Lifecycle!Spec

-----------------------------------------------------------------------------
(* Liveness.                                                               *)

\* An execution that runs settles, or stops to ask or at a user's command.
Progress ==
  (exec.status = "running") ~> (exec.status # "running" \/ exec.deleted)

\* A conversation effect the scheduler owes is delivered, or its attempt ends.
EffectsDelivered ==
  \A k \in Slots : Undelivered(k) ~> ~Undelivered(k)

-----------------------------------------------------------------------------
(* A statement of the documentation that the code does not meet.           *)

\* agent-execution.zh.md:159: a callback from before a question must not
\* settle the attempt once the answer resumed it.
OnlyCurrentTurnSettles ==
  [][\A f \in Fibers :
       /\ job[f].pc \in {"commit", "recommit"} /\ job'[f].pc = "idle"
       /\ attempt[job[f].k].status = "running" /\ attempt'[job[f].k].status # "running"
       => job[f].op \in {NoOp, attempt[job[f].k].decisions}]_allVars

=============================================================================
