------------------------- MODULE ExecutionLifecycle -------------------------
(***************************************************************************)
(* What the Agent Execution aggregate promises its readers: the life of an *)
(* execution, of its steps and of its attempts, without leases, versions,  *)
(* receipts or the scheduler.  The allowed moves are the can_transition_to *)
(* tables of the three status enums (nomi-types, nomifun-common), which no *)
(* write of the repository consults: its SQL has to respect them on its    *)
(* own.                                                                    *)
(***************************************************************************)
EXTENDS Integers

CONSTANTS
  Steps,     \* step ids
  Attempts   \* attempt ids: a pair of a step and a number

VARIABLES
  execution, \* status of the execution
  steps,     \* status of every step, "absent" before it is planned
  attempts   \* status of every attempt, "absent" before it is dispatched

lifeVars == <<execution, steps, attempts>>

SettledExecution == {"completed", "completed_with_failures", "failed", "cancelled"}
SettledAttempt == {"completed", "failed", "cancelled", "interrupted"}

\* can_transition_to: the allowed next statuses.
ExecutionNext(from) ==
  CASE from = "planning" -> {"awaiting_approval", "running", "failed", "cancelled"}
    [] from = "awaiting_approval" -> {"running", "failed", "cancelled"}
    [] from = "running" ->
         {"awaiting_approval", "paused", "waiting_input"} \cup SettledExecution
    [] from = "paused" ->
         {"awaiting_approval", "running", "waiting_input", "failed", "cancelled"}
    [] from = "waiting_input" ->
         {"awaiting_approval", "running", "paused", "failed", "cancelled"}
    [] from \in {"completed", "completed_with_failures", "failed"} -> {"running"}
    [] from = "cancelled" -> {}

StepNext(from) ==
  CASE from = "absent" -> {"pending"}
    [] from = "pending" -> {"running", "completed", "failed", "skipped", "cancelled"}
    [] from \in {"running", "waiting_input"} ->
         {"pending", "running", "waiting_input", "completed", "failed", "cancelled"}
    [] from = "completed" -> {"pending"}
    [] from \in {"failed", "skipped"} -> {"pending", "completed"}
    [] from = "cancelled" -> {}

\* An adopted output is recorded as an attempt that is born completed.
AttemptNext(from) ==
  CASE from = "absent" -> {"queued", "completed"}
    [] from = "queued" -> {"running", "cancelled"}
    [] from = "running" -> {"waiting_input"} \cup SettledAttempt
    [] from = "waiting_input" -> {"running"} \cup SettledAttempt
    [] from \in SettledAttempt -> {}

Init ==
  /\ execution = "planning"
  /\ steps = [s \in Steps |-> "absent"]
  /\ attempts = [k \in Attempts |-> "absent"]

Moves(from, to, Allowed(_)) == from = to \/ to \in Allowed(from)

\* Late completions never touch a settled execution: it changes only by being
\* reopened, and an execution settles together with its last attempt.
SettledStays ==
  execution \in SettledExecution /\ execution' \in SettledExecution
    => UNCHANGED <<steps, attempts>>
SettlesWhole ==
  execution' \in SettledExecution =>
    \A k \in Attempts : attempts'[k] \in SettledAttempt \cup {"absent"}

\* A started attempt and its step move together.
MovesTogether ==
  \A k \in Attempts :
    attempts[k] \in {"running", "waiting_input"} /\ attempts'[k] # attempts[k]
      => steps'[k[1]] # steps[k[1]]

Next ==
  /\ Moves(execution, execution', ExecutionNext)
  /\ \A s \in Steps : Moves(steps[s], steps'[s], StepNext)
  /\ \A k \in Attempts : Moves(attempts[k], attempts'[k], AttemptNext)
  /\ SettledStays
  /\ SettlesWhole
  /\ MovesTogether

Spec == Init /\ [][Next]_lifeVars

=============================================================================
