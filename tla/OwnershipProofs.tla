-------------------------- MODULE OwnershipProofs --------------------------
(***************************************************************************)
(* A step never has two attempts in flight, and the rows of an execution   *)
(* agree: proofs for every value of the constants.                         *)
(*                                                                         *)
(* The rows alone do not show it.  A queued attempt leaves its step        *)
(* pending, so create_attempt would accept a second one; that none is      *)
(* created rests on who holds a queued attempt.  RowInv relates the rows   *)
(* and OwnInv the rows to the loop and its futures; together with TypeInv  *)
(* they are inductive.                                                     *)
(***************************************************************************)
EXTENDS ExecutionProofs

-----------------------------------------------------------------------------
(* The inductive invariant.                                                *)

\* Attempts are numbered without gaps, and only the last is in flight.
Dense ==
  \A k \in Slots : attempt[k].status # "absent" =>
    \A j \in SlotsOf(k[1]) : j[2] < k[2] => attempt[j].status # "absent"
ActiveIsLatest ==
  \A k \in Slots : attempt[k].status \in ActiveAttempt => LatestSlot(k)

\* Before the first plan there are no steps.
PlanningIsEmpty == exec.status = "planning" => Current = {}

RowInv == RowsAgree /\ Dense /\ ActiveIsLatest /\ PlanningIsEmpty /\ PausedIsQuiet

\* The generation is past recovery and has not left its loop.
Looping == ~sched.boot /\ sched.pc \in Leased \ {"recover"}

\* The states in which a job may hold a queued attempt.
Holding == {"start", "settle", "commit", "recheck"}
Started_ == {"claim", "launch", "await", "recommit"}

NoneQueued(s) == \A k \in SlotsOf(s) : attempt[k].status # "queued"

JobsWhileLooping == \A s \in Steps : job[s].pc # "idle" => Looping
RestIsIdle == sched.pc = "rest" => \A s \in Steps : job[s].pc = "idle"
ErrDrains == sched.err => sched.pc \in {"loop", "wait", "exit", "end"}

\* A generation recovers once, before its loop.
BootFirst ==
  /\ sched.pc \in {"off", "acquire", "publish", "recover"} => sched.boot
  /\ sched.pc \in {"loop", "pass", "rest", "wait", "sleep", "fail"} => ~sched.boot

\* A job works on its own step, and a reserved step has no queued attempt.
OwnSlot ==
  \A s \in Steps : job[s].pc \notin {"idle", "new", "create"} => job[s].k[1] = s
Reserved ==
  /\ \A s \in Steps : job[s].pc \in {"new", "create"} => NoneQueued(s)
  /\ \A s \in snap.ready : job[s].pc = "idle" /\ NoneQueued(s)

\* While the loop runs, a queued attempt is held by the job of its step, with
\* the versions of the rows; a job past its start holds none.
QueuedIsHeld ==
  \A k \in Slots : attempt[k].status = "queued" /\ Looping /\ ~sched.err =>
    job[k[1]].k = k /\ job[k[1]].pc \in Holding
HeldVersions ==
  \A s \in Steps : job[s].pc \in Holding =>
    /\ attempt[job[s].k].status # "absent"
    /\ attempt[job[s].k].status = "queued" =>
         step[s].version = job[s].sv /\ attempt[job[s].k].version = job[s].av
StartedJob ==
  \A s \in Steps : job[s].pc \in Started_ => attempt[job[s].k].status \notin {"queued", "absent"}

SettledIsEmpty == Terminal => \A k \in Slots : attempt[k].status # "queued"

OwnInv ==
  /\ JobsWhileLooping /\ RestIsIdle /\ ErrDrains /\ BootFirst /\ OwnSlot /\ Reserved
  /\ QueuedIsHeld /\ HeldVersions /\ StartedJob /\ SettledIsEmpty

SafeInv == TypeInv /\ RowInv /\ OwnInv

-----------------------------------------------------------------------------
(* Transactions and the rows.                                              *)

\* An attempt row and its step's row agree.
PairAgrees(srow, arow) ==
  /\ arow.status = "queued" => srow.status = "pending"
  /\ arow.status = "running" => srow.status = "running" /\ arow.link
  /\ arow.status = "waiting_input" =>
       srow.status = "waiting_input" /\ arow.link = ~arow.review
  /\ arow.status \in ActiveAttempt => srow.current
  /\ arow.link => arow.status \in {"running", "waiting_input"}

RowsInv == RowsAgree /\ Dense /\ ActiveIsLatest

\* What every transaction but create_attempt leaves alone: attempts do not
\* become queued or vanish, and the versions of a queued attempt and of its
\* step do not move.
Calm ==
  \A k \in Slots :
    /\ attempt'[k].status = "queued" =>
         /\ attempt[k].status = "queued" /\ attempt'[k].version = attempt[k].version
         /\ step'[k[1]].version = step[k[1]].version
    /\ attempt[k].status # "absent" => attempt'[k].status # "absent"

LEMMA LatestIsOnly ==
  ASSUME StoreInv, ActiveIsLatest, NEW k \in Slots, attempt[k].status \in ActiveAttempt,
         NEW j \in SlotsOf(k[1]), j # k
  PROVE  attempt[j].status \notin ActiveAttempt
  <1>1. j \in Slots /\ j[1] = k[1] /\ j[2] \in Nat /\ k[2] \in Nat /\ j[2] # k[2]
    BY DEF SlotsOf, Slots
  <1>2. CASE j[2] > k[2]
    BY <1>1, <1>2 DEF ActiveIsLatest, LatestSlot, ActiveAttempt
  <1>3. CASE j[2] < k[2]
    BY <1>1, <1>3 DEF ActiveIsLatest, LatestSlot, ActiveAttempt, SlotsOf
  <1> QED
    BY <1>1, <1>2, <1>3

\* The transition of the one attempt in flight and of its step.
LEMMA PairWritten ==
  ASSUME StoreInv, RowsInv, NEW k \in Slots, attempt[k].status \in ActiveAttempt,
         NEW srow, NEW arow, step' = [step EXCEPT ![k[1]] = srow],
         attempt' = [attempt EXCEPT ![k] = arow],
         PairAgrees(srow, arow), arow.status \notin {"absent", "queued"},
         srow.status \in {"running", "waiting_input"} => arow.status \in ActiveAttempt
  PROVE  RowsInv' /\ Calm
  <1>1. /\ k[1] \in Steps /\ step'[k[1]] = srow /\ attempt'[k] = arow
        /\ \A s \in Steps : s # k[1] => step'[s] = step[s]
        /\ \A j \in Slots : j # k => attempt'[j] = attempt[j]
    BY SlotStep DEF StoreInv, StoreTypeOK
  <1>2. \A j \in Slots : j # k /\ j[1] = k[1] => attempt[j].status \notin ActiveAttempt
    BY LatestIsOnly DEF RowsInv, SlotsOf
  <1>3. ASSUME NEW j \in Slots
        PROVE  PairAgrees(step'[j[1]], attempt'[j])
    <2>1. CASE j = k
      BY <1>1, <2>1
    <2>2. CASE j # k /\ j[1] = k[1]
      <3>1. attempt'[j] = attempt[j] /\ attempt[j].status \notin ActiveAttempt
        BY <1>1, <1>2, <2>2
      <3>2. ~attempt[j].link
        BY <3>1 DEF RowsInv, RowsAgree, ActiveAttempt, StoreInv, StoreTypeOK, AttemptRow
      <3> QED
        BY <3>1, <3>2 DEF PairAgrees, ActiveAttempt
    <2>3. CASE j[1] # k[1]
      <3>1. attempt'[j] = attempt[j] /\ step'[j[1]] = step[j[1]]
        BY <1>1, <2>3, SlotStep
      <3> QED
        BY <3>1 DEF PairAgrees, RowsInv, RowsAgree
    <2> QED
      BY <2>1, <2>2, <2>3
  <1>4. ASSUME NEW s \in Steps, step'[s].status \in {"running", "waiting_input"}
        PROVE  \E j \in SlotsOf(s) : attempt'[j].status \in ActiveAttempt
    <2>1. CASE s = k[1]
      BY <1>1, <1>4, <2>1 DEF SlotsOf
    <2>2. CASE s # k[1]
      <3>1. step[s].status \in {"running", "waiting_input"}
        BY <1>1, <1>4, <2>2
      <3>2. PICK j \in SlotsOf(s) : attempt[j].status \in ActiveAttempt
        BY <3>1 DEF RowsInv, RowsAgree, HasActiveAttempt
      <3> QED
        BY <1>1, <2>2, <3>2 DEF SlotsOf
    <2> QED
      BY <2>1, <2>2
  <1>5. RowsAgree'
    BY <1>3, <1>4 DEF RowsAgree, PairAgrees, HasActiveAttempt
  <1>6. \A j \in Slots : attempt'[j].status = "absent" <=> attempt[j].status = "absent"
    BY <1>1 DEF ActiveAttempt
  <1>7. Dense'
    BY <1>6 DEF RowsInv, Dense, SlotsOf
  <1>8. ActiveIsLatest'
    <2>1. \A j \in Slots : attempt'[j].status \in ActiveAttempt => attempt[j].status \in ActiveAttempt
      BY <1>1
    <2> QED
      BY <1>6, <2>1 DEF RowsInv, ActiveIsLatest, LatestSlot, SlotsOf
  <1>9. Calm
    <2>1. ASSUME NEW j \in Slots, attempt'[j].status = "queued"
          PROVE  attempt'[j] = attempt[j] /\ step'[j[1]] = step[j[1]]
      <3>1. j # k /\ attempt'[j] = attempt[j]
        BY <1>1, <2>1
      <3>2. j[1] # k[1]
        BY <1>2, <2>1, <3>1 DEF ActiveAttempt
      <3> QED
        BY <1>1, <3>1, <3>2, SlotStep
    <2> QED
      BY <1>6, <2>1 DEF Calm
  <1> QED
    BY <1>5, <1>7, <1>8, <1>9 DEF RowsInv

\* What a transaction on an active execution has to show.
LEMMA ActiveStays ==
  ASSUME RowsInv', Calm, exec'.status \in ActiveExecution
  PROVE  RowInv' /\ Calm /\ SettledIsEmpty'
  BY DEF RowsInv, RowInv, PlanningIsEmpty, PausedIsQuiet, SettledIsEmpty, Terminal,
         ActiveExecution, TerminalExecution

LEMMA RowInvRows == RowInv => RowsInv
  BY DEF RowInv, RowsInv

LEMMA StepFields ==
  ASSUME NEW row \in StepRow, NEW status, NEW after
  PROVE  /\ SetStep(row, status).status = status
         /\ SetStep(row, status).current = row.current
         /\ [SetStep(row, status) EXCEPT !.dispatchAfter = after].status = status
         /\ [SetStep(row, status) EXCEPT !.dispatchAfter = after].current = row.current
  BY DEF SetStep, StepRow

LEMMA StartAttemptSafe ==
  ASSUME StoreInv, RowInv, NEW k \in Slots, NEW sv, NEW av,
         CanStartAttempt(k, sv, av), StartAttempt(k)
  PROVE  RowInv' /\ Calm /\ SettledIsEmpty'
  <1> DEFINE srow == SetStep(step[k[1]], "running")
             arow == [SetAttempt(attempt[k], "running") EXCEPT !.link = TRUE]
  <1>1. srow.status = "running" /\ srow.current
    BY RowsOf, StepFields DEF CanStartAttempt
  <1>2. arow.status = "running" /\ arow.link
    BY RowsOf DEF SetAttempt, AttemptRow
  <1>3. /\ step' = [step EXCEPT ![k[1]] = srow]
        /\ attempt' = [attempt EXCEPT ![k] = arow]
        /\ attempt[k].status \in ActiveAttempt
        /\ exec'.status \in ActiveExecution
    BY DEF CanStartAttempt, StartAttempt, SchedulerFence, Active, ActiveAttempt
  <1>4. PairAgrees(srow, arow) /\ arow.status \in ActiveAttempt
    BY <1>1, <1>2 DEF PairAgrees, ActiveAttempt
  <1> HIDE DEF srow, arow
  <1> QED
    BY <1>2, <1>3, <1>4, RowInvRows, PairWritten, ActiveStays

LEMMA SettleAttemptSafe ==
  ASSUME StoreInv, RowInv, NEW k \in Slots, NEW sv, NEW av,
         NEW to \in {"completed", "failed", "cancelled"},
         NEW stepTo \in {"completed", "failed", "pending"}, NEW after,
         CanSettleAttempt(k, sv, av, to), SettleAttempt(k, to, stepTo, after)
  PROVE  RowInv' /\ Calm /\ SettledIsEmpty' /\ attempt'[k].status # "queued"
  <1> DEFINE srow == [SetStep(step[k[1]], stepTo) EXCEPT !.dispatchAfter = after]
             arow == [EndAttempt(attempt[k], to) EXCEPT !.effects = <<>>, !.review = FALSE]
  <1>1. srow.status = stepTo /\ arow.status = to /\ arow.link = FALSE
    BY RowsOf, StepFields DEF EndAttempt, SetAttempt, AttemptRow
  <1>2. /\ step' = [step EXCEPT ![k[1]] = srow]
        /\ attempt' = [attempt EXCEPT ![k] = arow]
        /\ attempt[k].status \in ActiveAttempt
        /\ exec'.status \in ActiveExecution
    BY DEF CanSettleAttempt, SettleAttempt, SchedulerFence, Active
  <1>3. PairAgrees(srow, arow)
    BY <1>1 DEF PairAgrees, ActiveAttempt
  <1>4. attempt'[k] = arow
    BY <1>2 DEF StoreInv, StoreTypeOK
  <1> HIDE DEF srow, arow
  <1> QED
    BY <1>1, <1>2, <1>3, <1>4, RowInvRows, PairWritten, ActiveStays

LEMMA AskDecisionSafe ==
  ASSUME StoreInv, RowInv, NEW k \in Slots, attempt[k].status = "running",
         step[k[1]].current, AskDecision(k)
  PROVE  RowInv' /\ Calm /\ SettledIsEmpty'
  <1> DEFINE srow == SetStep(step[k[1]], "waiting_input")
             arow == [SetAttempt(attempt[k], "waiting_input") EXCEPT
                        !.effects = <<"stop_turn">>, !.review = FALSE]
  <1>1. attempt[k].link
    BY DEF RowInv, RowsAgree
  <1>2. srow.status = "waiting_input" /\ srow.current
    BY RowsOf, StepFields
  <1>3. arow.status = "waiting_input" /\ arow.review = FALSE /\ arow.link = attempt[k].link
    BY RowsOf DEF SetAttempt, AttemptRow
  <1>4. arow.link = TRUE
    BY <1>1, <1>3, RowsOf DEF AttemptRow
  <1>5. /\ step' = [step EXCEPT ![k[1]] = srow]
        /\ attempt' = [attempt EXCEPT ![k] = arow]
        /\ attempt[k].status \in ActiveAttempt
    BY DEF AskDecision, ActiveAttempt
  <1>6. exec'.status \in ActiveExecution
    BY DEF AskDecision, WithStatus, ActiveExecution, StoreInv, StoreTypeOK, ExecutionRow
  <1>7. PairAgrees(srow, arow) /\ arow.status \in ActiveAttempt
    BY <1>2, <1>3, <1>4 DEF PairAgrees, ActiveAttempt
  <1> HIDE DEF srow, arow
  <1> QED
    BY <1>3, <1>5, <1>6, <1>7, RowInvRows, PairWritten, ActiveStays

\* Effects are enqueued and acknowledged without moving a status.
LEMMA EffectSafe ==
  ASSUME StoreInv, RowInv, NEW k \in Slots, Active,
         attempt[k].status \in {"running", "waiting_input"}, NEW rest,
         attempt' = [attempt EXCEPT ![k] = [SetAttempt(@, @.status) EXCEPT !.effects = rest]],
         step' = step, exec' = exec
  PROVE  RowInv' /\ Calm /\ SettledIsEmpty'
  <1> DEFINE srow == step[k[1]]
             arow == [SetAttempt(attempt[k], attempt[k].status) EXCEPT !.effects = rest]
  <1>1. /\ arow.status = attempt[k].status /\ arow.link = attempt[k].link
        /\ arow.review = attempt[k].review
    BY RowsOf DEF SetAttempt, AttemptRow
  <1>2. /\ step' = [step EXCEPT ![k[1]] = srow]
        /\ attempt' = [attempt EXCEPT ![k] = arow]
        /\ attempt[k].status \in ActiveAttempt
        /\ exec'.status \in ActiveExecution
    BY SlotStep DEF ActiveAttempt, Active, StoreInv, StoreTypeOK
  <1>3. PairAgrees(srow, attempt[k])
    BY DEF RowInv, RowsAgree, PairAgrees
  <1> HIDE DEF arow
  <1>4. PairAgrees(srow, arow) /\ arow.status \in ActiveAttempt
    BY <1>1, <1>3 DEF PairAgrees, ActiveAttempt
  <1> HIDE DEF srow
  <1> QED
    BY <1>1, <1>2, <1>4, RowInvRows, PairWritten, ActiveStays

LEMMA ResumeWaitingSafe ==
  ASSUME StoreInv, RowInv, NEW k \in Slots, CanAnswer(k), ResumeWaitingAttempt(k)
  PROVE  RowInv' /\ Calm /\ SettledIsEmpty'
  <1> DEFINE srow == SetStep(step[k[1]], "running")
             arow == AnsweredAttempt(attempt[k])
  <1>1. srow.status = "running" /\ srow.current
    BY RowsOf, StepFields DEF CanAnswer
  <1>2. arow.status = "running" /\ arow.link = attempt[k].link
    BY RowsOf DEF AnsweredAttempt, SetAttempt, AttemptRow
  <1>3. /\ step' = [step EXCEPT ![k[1]] = srow]
        /\ attempt' = [attempt EXCEPT ![k] = arow]
        /\ attempt[k].status \in ActiveAttempt /\ attempt[k].link
    BY DEF CanAnswer, ResumeWaitingAttempt, ActiveAttempt
  <1>4. exec'.status \in ActiveExecution
    BY DEF ResumeWaitingAttempt, ActiveExecution, StoreInv, StoreTypeOK, ExecutionRow
  <1> HIDE DEF srow, arow
  <1>5. PairAgrees(srow, arow) /\ arow.status \in ActiveAttempt
    BY <1>1, <1>2, <1>3 DEF PairAgrees, ActiveAttempt
  <1> QED
    BY <1>2, <1>3, <1>4, <1>5, RowInvRows, PairWritten, ActiveStays

\* Transactions that write several rows, none of which becomes active.
LEMMA RowsMoved ==
  ASSUME StoreInv, RowsInv,
         \A k \in Slots : PairAgrees(step'[k[1]], attempt'[k]),
         \A s \in Steps : step'[s].status \in {"running", "waiting_input"} =>
           \E k \in SlotsOf(s) : attempt'[k].status \in ActiveAttempt,
         \A k \in Slots : attempt'[k].status = "absent" <=> attempt[k].status = "absent",
         \A k \in Slots : attempt'[k].status \in ActiveAttempt => attempt[k].status \in ActiveAttempt
  PROVE  RowsInv'
  <1>1. RowsAgree'
    BY DEF RowsAgree, PairAgrees, HasActiveAttempt
  <1>2. Dense'
    BY DEF RowsInv, Dense, SlotsOf
  <1>3. ActiveIsLatest'
    BY DEF RowsInv, ActiveIsLatest, LatestSlot, SlotsOf
  <1> QED
    BY <1>1, <1>2, <1>3 DEF RowsInv

LEMMA PairOf ==
  ASSUME RowsInv, NEW k \in Slots
  PROVE  PairAgrees(step[k[1]], attempt[k])
  BY DEF RowsInv, RowsAgree, PairAgrees

LEMMA InactiveAgrees ==
  ASSUME RowsInv, NEW k \in Slots, attempt[k].status \notin ActiveAttempt
  PROVE  \A srow : PairAgrees(srow, attempt[k])
  <1>1. attempt[k].status \notin {"queued", "running", "waiting_input"} /\ ~attempt[k].link
    BY DEF RowsInv, RowsAgree, ActiveAttempt
  <1> QED
    BY <1>1 DEF PairAgrees, ActiveAttempt

\* Steps without an attempt in flight are moved out of running and waiting.
LEMMA StepsMoved ==
  ASSUME StoreInv, RowsInv, attempt' = attempt, NEW moved \in SUBSET Steps,
         \A s \in moved : ~HasActiveAttempt(s) /\ step'[s].status \notin {"running", "waiting_input"},
         \A s \in Steps \ moved : step'[s] = step[s]
  PROVE  RowsInv' /\ Calm
  <1>1. ASSUME NEW k \in Slots
        PROVE  PairAgrees(step'[k[1]], attempt'[k])
    <2>1. CASE k[1] \in moved
      <3>1. attempt[k].status \notin ActiveAttempt
        BY <2>1 DEF HasActiveAttempt, SlotsOf
      <3> QED
        BY <3>1, InactiveAgrees
    <2>2. CASE k[1] \notin moved
      BY <2>2, SlotStep, PairOf
    <2> QED
      BY <2>1, <2>2
  <1>2. ASSUME NEW s \in Steps, step'[s].status \in {"running", "waiting_input"}
        PROVE  \E k \in SlotsOf(s) : attempt'[k].status \in ActiveAttempt
    BY <1>2 DEF RowsInv, RowsAgree, HasActiveAttempt
  <1>3. RowsInv'
    BY <1>1, <1>2, RowsMoved
  <1>4. Calm
    <2>1. ASSUME NEW k \in Slots, attempt[k].status = "queued"
          PROVE  step'[k[1]] = step[k[1]]
      <3>1. k[1] \in Steps \ moved
        BY <2>1, SlotStep DEF HasActiveAttempt, SlotsOf, ActiveAttempt
      <3> QED
        BY <3>1
    <2> QED
      BY <2>1 DEF Calm
  <1> QED
    BY <1>3, <1>4

LEMMA TransitionStepSafe ==
  ASSUME StoreInv, RowInv, NEW s \in Steps, NEW sv, CanTransitionStep(s, sv),
         TransitionStep(s, "skipped")
  PROVE  RowInv' /\ Calm /\ SettledIsEmpty'
  <1>1. step' = [step EXCEPT ![s] = [SetStep(step[s], "skipped") EXCEPT !.dispatchAfter = "none"]]
    BY DEF TransitionStep
  <1>2. [SetStep(step[s], "skipped") EXCEPT !.dispatchAfter = "none"].status = "skipped"
    BY DEF SetStep, StoreInv, StoreTypeOK, StepRow
  <1>3. /\ step'[s].status = "skipped"
        /\ \A t \in Steps \ {s} : step'[t] = step[t]
    BY <1>1, <1>2 DEF StoreInv, StoreTypeOK
  <1>4. ~HasActiveAttempt(s) /\ attempt' = attempt /\ exec'.status \in ActiveExecution
    BY DEF CanTransitionStep, TransitionStep, SchedulerFence, Active
  <1>5. RowsInv' /\ Calm
    <2> DEFINE moved == {s}
    <2>1. /\ moved \in SUBSET Steps
          /\ \A t \in moved : ~HasActiveAttempt(t) /\ step'[t].status \notin {"running", "waiting_input"}
          /\ \A t \in Steps \ moved : step'[t] = step[t]
      BY <1>3, <1>4
    <2> HIDE DEF moved
    <2> QED
      BY <1>4, <2>1, RowInvRows, StepsMoved
  <1> QED
    BY <1>4, <1>5, ActiveStays

LEMMA ResetForRetrySafe ==
  ASSUME StoreInv, RowInv, NEW s \in Steps, CanResetForRetry(s), ResetForRetry(s)
  PROVE  RowInv' /\ Calm /\ SettledIsEmpty'
  <1> DEFINE moved == Downstream(s)
  <1>1. moved \in SUBSET Steps
    BY DEF Downstream
  <1>2. ASSUME NEW t \in moved
        PROVE  ~HasActiveAttempt(t) /\ step'[t].status = "pending"
    <2>1. t \in Steps /\ step[t] \in StepRow /\ ~HasActiveAttempt(t)
      BY <1>1 DEF CanResetForRetry, StoreInv, StoreTypeOK
    <2>2. step'[t] = [SetStep(step[t], "pending") EXCEPT !.dispatchAfter = "none"]
      BY <2>1 DEF ResetForRetry
    <2> QED
      BY <2>1, <2>2 DEF SetStep, StepRow
  <1>3. \A t \in Steps \ moved : step'[t] = step[t]
    BY DEF ResetForRetry
  <1>4. attempt' = attempt /\ exec'.status \in ActiveExecution
    BY DEF ResetForRetry, StoreInv, StoreTypeOK, ExecutionRow, ActiveExecution
  <1> HIDE DEF moved
  <1> QED
    BY <1>1, <1>2, <1>3, <1>4, RowInvRows, StepsMoved, ActiveStays

LEMMA TerminateChildrenSafe ==
  ASSUME StoreInv, RowInv, TerminateChildren, exec'.status \in TerminalExecution
  PROVE  RowInv' /\ Calm /\ SettledIsEmpty'
  <1>1. ASSUME NEW k \in Slots
        PROVE  /\ attempt'[k].status \notin ActiveAttempt /\ ~attempt'[k].link
               /\ attempt'[k].status = "absent" <=> attempt[k].status = "absent"
    <2>1. CASE attempt[k].status \in ActiveAttempt
      <3>1. attempt'[k] = EndAttempt(attempt[k], "cancelled")
        BY <2>1 DEF TerminateChildren
      <3> QED
        BY <2>1, <3>1, RowsOf DEF EndAttempt, SetAttempt, AttemptRow, ActiveAttempt
    <2>2. CASE attempt[k].status \notin ActiveAttempt
      <3>1. attempt'[k] = [attempt[k] EXCEPT !.link = FALSE]
        BY <2>2 DEF TerminateChildren
      <3> QED
        BY <2>2, <3>1, RowsOf DEF AttemptRow
    <2> QED
      BY <2>1, <2>2
  <1>2. ASSUME NEW s \in Steps
        PROVE  step'[s].status \notin {"running", "waiting_input"}
    <2>1. step[s] \in StepRow
      BY DEF StoreInv, StoreTypeOK
    <2>2. CASE step[s].current /\ step[s].status \notin TerminalStep
      <3>1. step'[s] = [SetStep(step[s], "cancelled") EXCEPT !.dispatchAfter = "none"]
        BY <2>2 DEF TerminateChildren
      <3> QED
        BY <2>1, <3>1 DEF SetStep, StepRow
    <2>3. CASE ~(step[s].current /\ step[s].status \notin TerminalStep)
      <3>1. step'[s] = step[s]
        BY <2>3 DEF TerminateChildren
      <3>2. step[s].status \in {"running", "waiting_input"} => step[s].current
        BY DEF RowInv, RowsAgree, HasActiveAttempt, SlotsOf
      <3> QED
        BY <2>3, <3>1, <3>2 DEF TerminalStep
    <2> QED
      BY <2>2, <2>3
  <1>3. \A k \in Slots : PairAgrees(step'[k[1]], attempt'[k])
    BY <1>1 DEF PairAgrees, ActiveAttempt
  <1>4. RowsInv'
    BY <1>1, <1>2, <1>3, RowInvRows, RowsMoved
  <1>5. Calm
    BY <1>1 DEF Calm, ActiveAttempt
  <1>6. SettledIsEmpty'
    BY <1>1 DEF SettledIsEmpty, ActiveAttempt
  <1>7. PlanningIsEmpty' /\ PausedIsQuiet'
    BY DEF PlanningIsEmpty, PausedIsQuiet, TerminalExecution
  <1> QED
    BY <1>4, <1>5, <1>6, <1>7 DEF RowInv, RowsInv

\* The execution row alone is written.
LEMMA StatusWritten ==
  ASSUME RowInv, step' = step, attempt' = attempt
  PROVE  RowsInv' /\ Calm
  BY DEF RowInv, RowsInv, RowsAgree, HasActiveAttempt, Dense, ActiveIsLatest, LatestSlot, Calm

LEMMA ReconciledStatusType ==
  \A k \in Slots : ReconciledStatus(k) \in {"completed", "failed", "waiting_input"}
  BY DEF ReconciledStatus

\* A reconciled attempt is settled, or parked for review without its link.
LEMMA ReconciledPair ==
  ASSUME StoreInv, NEW k \in Slots, step[k[1]].current
  PROVE  /\ PairAgrees(ReconciledStep(k), ReconciledAttempt(k))
         /\ ReconciledAttempt(k).status \in {"completed", "failed", "waiting_input"}
         /\ ReconciledStep(k).status = "waiting_input" => ReconciledAttempt(k).status = "waiting_input"
         /\ ReconciledStep(k).status # "running"
  <1> DEFINE to == ReconciledStatus(k)
  <1>1. PICK flag \in BOOLEAN : flag = ~Adoptable(k)
    OBVIOUS
  <1>2. to \in {"completed", "failed", "waiting_input"} /\ (to = "waiting_input" <=> flag = TRUE)
    BY <1>1, ReconciledStatusType DEF ReconciledStatus
  <1> HIDE DEF to
  <1>3. /\ ReconciledAttempt(k).status = to /\ ReconciledAttempt(k).link = FALSE
        /\ ReconciledAttempt(k).review = flag
    <2>1. ReconciledAttempt(k) = [EndAttempt(attempt[k], to) EXCEPT !.effects = <<>>, !.review = flag]
      BY <1>1 DEF ReconciledAttempt, to
    <2> QED
      BY <2>1, RowsOf DEF EndAttempt, SetAttempt, AttemptRow
  <1>4. ReconciledStep(k).status = to /\ ReconciledStep(k).current
    BY RowsOf DEF ReconciledStep, SetStep, StepRow, to
  <1> QED
    BY <1>2, <1>3, <1>4 DEF PairAgrees, ActiveAttempt

LEMMA ReconcileRecoveredSafe ==
  ASSUME StoreInv, RowInv, NEW k \in Slots, CanReconcileRecovered(k), ReconcileRecovered(k)
  PROVE  RowInv' /\ Calm /\ SettledIsEmpty'
  <1>1. attempt[k].status \in ActiveAttempt /\ step[k[1]].current
    BY DEF CanReconcileRecovered, ActiveAttempt
  <1>2. exec'.status \in ActiveExecution
    BY DEF CanReconcileRecovered, ReconcileRecovered, SchedulerFence, Active, ActiveExecution,
           WithStatus, StoreInv, StoreTypeOK, ExecutionRow
  <1>3. CASE attempt[k].status = "queued"
    <2> DEFINE srow == [SetStep(step[k[1]], "pending") EXCEPT !.dispatchAfter = "none"]
               arow == [EndAttempt(attempt[k], "cancelled") EXCEPT !.effects = <<>>]
    <2>1. srow.status = "pending"
      BY RowsOf DEF SetStep, StepRow
    <2>2. arow.status = "cancelled" /\ arow.link = FALSE
      BY RowsOf DEF EndAttempt, SetAttempt, AttemptRow
    <2>3. step' = [step EXCEPT ![k[1]] = srow] /\ attempt' = [attempt EXCEPT ![k] = arow]
      BY <1>3 DEF ReconcileRecovered
    <2> HIDE DEF srow, arow
    <2>4. PairAgrees(srow, arow)
      BY <2>1, <2>2 DEF PairAgrees, ActiveAttempt
    <2> QED
      BY <1>1, <1>2, <2>1, <2>2, <2>3, <2>4, RowInvRows, PairWritten, ActiveStays
  <1>4. CASE attempt[k].status # "queued"
    <2>1. /\ step' = [step EXCEPT ![k[1]] = ReconciledStep(k)]
          /\ attempt' = [attempt EXCEPT ![k] = ReconciledAttempt(k)]
      BY <1>4 DEF ReconcileRecovered
    <2>2. ReconciledStep(k).status \in {"running", "waiting_input"} =>
            ReconciledAttempt(k).status \in ActiveAttempt
      BY <1>1, ReconciledPair DEF ActiveAttempt
    <2> QED
      BY <1>1, <1>2, <2>1, <2>2, RowInvRows, ReconciledPair, PairWritten, ActiveStays
  <1> QED
    BY <1>3, <1>4

\* create_attempt adds a row that is not in flight yet; it is the last one.
LEMMA FreshIsLast ==
  ASSUME StoreInv, Dense, NEW k \in Slots, FreshSlot(k)
  PROVE  /\ \A j \in SlotsOf(k[1]) : j[2] < k[2] => attempt[j].status # "absent"
         /\ \A j \in SlotsOf(k[1]) : j[2] >= k[2] => attempt[j].status = "absent"
  <1>1. ASSUME NEW j \in SlotsOf(k[1]), j[2] < k[2]
        PROVE  attempt[j].status # "absent"
    <2>1. j = <<k[1], j[2]>> /\ j[2] \in 1 .. k[2] - 1
      BY <1>1 DEF SlotsOf, Slots
    <2> QED
      BY <2>1 DEF FreshSlot
  <1>2. ASSUME NEW j \in SlotsOf(k[1]), j[2] >= k[2], attempt[j].status # "absent"
        PROVE  FALSE
    <2>1. j \in Slots /\ j[1] = k[1] /\ j[2] \in Nat /\ k[2] \in Nat
      BY DEF SlotsOf, Slots
    <2>2. j # k
      BY <1>2 DEF FreshSlot
    <2>3. k[2] < j[2] /\ k \in SlotsOf(j[1])
      BY <1>2, <2>1, <2>2 DEF SlotsOf, Slots
    <2> QED
      BY <1>2, <2>1, <2>3 DEF Dense, FreshSlot
  <1> QED
    BY <1>1, <1>2

\* A row is added to a step without an attempt in flight.
LEMMA RowAdded ==
  ASSUME StoreInv, RowsInv, NEW k \in Slots, FreshSlot(k), ~HasActiveAttempt(k[1]),
         NEW arow, attempt' = [attempt EXCEPT ![k] = arow],
         arow.status # "absent", PairAgrees(step'[k[1]], arow),
         \A s \in Steps : s # k[1] /\ HasActiveAttempt(s) => step'[s] = step[s],
         \A s \in Steps : step'[s].status \in {"running", "waiting_input"} => step'[s] = step[s] /\ s # k[1]
  PROVE  RowsInv'
  <1>1. attempt'[k] = arow /\ \A j \in Slots : j # k => attempt'[j] = attempt[j]
    BY DEF StoreInv, StoreTypeOK
  <1>2. ASSUME NEW j \in Slots
        PROVE  PairAgrees(step'[j[1]], attempt'[j])
    <2>1. CASE j = k
      BY <1>1, <2>1
    <2>2. CASE j # k /\ attempt[j].status \notin ActiveAttempt
      BY <1>1, <2>2, InactiveAgrees
    <2>3. CASE j # k /\ attempt[j].status \in ActiveAttempt
      <3>1. HasActiveAttempt(j[1]) /\ j[1] \in Steps
        BY <2>3, SlotStep DEF HasActiveAttempt, SlotsOf
      <3>2. step'[j[1]] = step[j[1]]
        BY <3>1
      <3> QED
        BY <1>1, <2>3, <3>2, PairOf
    <2> QED
      BY <2>1, <2>2, <2>3
  <1>3. ASSUME NEW s \in Steps, step'[s].status \in {"running", "waiting_input"}
        PROVE  \E j \in SlotsOf(s) : attempt'[j].status \in ActiveAttempt
    <2>1. PICK j \in SlotsOf(s) : attempt[j].status \in ActiveAttempt
      BY <1>3 DEF RowsInv, RowsAgree, HasActiveAttempt
    <2> QED
      BY <1>1, <1>3, <2>1 DEF SlotsOf
  <1>4. RowsAgree'
    BY <1>2, <1>3 DEF RowsAgree, PairAgrees, HasActiveAttempt
  <1>5. Dense'
    <2>1. ASSUME NEW i \in Slots, attempt'[i].status # "absent",
                 NEW j \in SlotsOf(i[1]), j[2] < i[2]
          PROVE  attempt'[j].status # "absent"
      <3>1. j \in Slots /\ j[1] = i[1]
        BY DEF SlotsOf
      <3>2. CASE i = k
        BY <1>1, <2>1, <3>1, <3>2, FreshIsLast DEF RowsInv
      <3>3. CASE i # k
        BY <1>1, <2>1, <3>1, <3>3 DEF RowsInv, Dense
      <3> QED
        BY <3>2, <3>3
    <2> QED
      BY <2>1 DEF Dense, SlotsOf
  <1>6. ActiveIsLatest'
    <2>1. ASSUME NEW i \in Slots, attempt'[i].status \in ActiveAttempt,
                 NEW j \in SlotsOf(i[1]), j[2] > i[2]
          PROVE  attempt'[j].status = "absent"
      <3>1. j \in Slots /\ j[1] = i[1] /\ j[2] \in Nat /\ i[2] \in Nat
        BY SlotStep DEF SlotsOf, Slots
      <3>2. CASE i = k
        BY <1>1, <2>1, <3>1, <3>2, FreshIsLast DEF RowsInv
      <3>3. CASE i # k
        <4>1. attempt[i].status \in ActiveAttempt
          BY <1>1, <2>1, <3>3
        <4>2. j # k
          BY <3>1, <4>1 DEF HasActiveAttempt, SlotsOf
        <4> QED
          BY <1>1, <2>1, <3>1, <4>1, <4>2 DEF RowsInv, ActiveIsLatest, LatestSlot
      <3> QED
        BY <3>2, <3>3
    <2>2. \A i \in Slots : attempt'[i].status \in ActiveAttempt => attempt'[i].status # "absent"
      BY DEF ActiveAttempt
    <2> QED
      BY <2>1, <2>2 DEF ActiveIsLatest, LatestSlot, SlotsOf
  <1> QED
    BY <1>4, <1>5, <1>6 DEF RowsInv

LEMMA CreateAttemptSafe ==
  ASSUME StoreInv, RowInv, NEW k \in Slots, NEW sv, CanCreateAttempt(k[1], sv), FreshSlot(k),
         ~HasActiveAttempt(k[1]), CreateAttempt(k)
  PROVE  /\ RowInv' /\ SettledIsEmpty'
         /\ attempt' = [attempt EXCEPT ![k] = [NoAttempt EXCEPT !.status = "queued"]]
         /\ attempt'[k].status = "queued" /\ attempt'[k].version = 0
         /\ step'[k[1]].version = step[k[1]].version + 1
         /\ \A s \in Steps : s # k[1] => step'[s] = step[s]
  <1> DEFINE arow == [NoAttempt EXCEPT !.status = "queued"]
             srow == [SetStep(step[k[1]], "pending") EXCEPT !.dispatchAfter = "none"]
  <1>1. arow.status = "queued" /\ arow.version = 0 /\ arow.link = FALSE
    BY DEF NoAttempt
  <1>2. srow.status = "pending" /\ srow.current /\ srow.version = step[k[1]].version + 1
    BY RowsOf DEF CanCreateAttempt, SetStep, StepRow
  <1>3. step' = [step EXCEPT ![k[1]] = srow] /\ attempt' = [attempt EXCEPT ![k] = arow]
    BY DEF CreateAttempt
  <1> HIDE DEF srow, arow
  <1>4. /\ step'[k[1]] = srow /\ attempt'[k] = arow
        /\ \A s \in Steps : s # k[1] => step'[s] = step[s]
    BY <1>3, SlotStep DEF StoreInv, StoreTypeOK
  <1>5. PairAgrees(srow, arow)
    BY <1>1, <1>2 DEF PairAgrees
  <1>6. RowsInv'
    <2>1. \A s \in Steps : s # k[1] /\ HasActiveAttempt(s) => step'[s] = step[s]
      BY <1>4
    <2>2. \A s \in Steps : step'[s].status \in {"running", "waiting_input"} =>
                             step'[s] = step[s] /\ s # k[1]
      BY <1>2, <1>4
    <2> QED
      BY <1>1, <1>3, <1>4, <1>5, <2>1, <2>2, RowInvRows, RowAdded
  <1>7. exec'.status \in ActiveExecution
    BY DEF CreateAttempt, CanCreateAttempt, SchedulerFence, Active
  <1>8. RowInv' /\ SettledIsEmpty'
    BY <1>6, <1>7 DEF RowsInv, RowInv, PlanningIsEmpty, PausedIsQuiet, SettledIsEmpty, Terminal,
                      ActiveExecution, TerminalExecution
  <1> QED
    BY <1>1, <1>2, <1>3, <1>4, <1>8 DEF arow

LEMMA AdoptOutputSafe ==
  ASSUME StoreInv, RowInv, NEW k \in Slots, CanAdoptOutput(k), AdoptOutput(k)
  PROVE  RowInv' /\ Calm /\ SettledIsEmpty'
  <1> DEFINE arow == [NoAttempt EXCEPT !.status = "completed"]
             reopened == Reopened(k[1])
  <1>1. arow.status = "completed" /\ arow.link = FALSE
    BY DEF NoAttempt
  <1>2. /\ attempt' = [attempt EXCEPT ![k] = arow]
        /\ ~HasActiveAttempt(k[1]) /\ FreshSlot(k)
    BY DEF AdoptOutput, CanAdoptOutput
  <1>3. \A t \in reopened : t \in Steps /\ step[t].status = "skipped"
    BY DEF Reopened, Downstream
  <1> HIDE DEF arow
  <1>4. /\ k[1] \in Steps
        /\ step'[k[1]] = [SetStep(step[k[1]], "completed") EXCEPT !.dispatchAfter = "none"]
        /\ \A t \in Steps : t # k[1] /\ t \in reopened => step'[t] = SetStep(step[t], "pending")
        /\ \A t \in Steps : t # k[1] /\ t \notin reopened => step'[t] = step[t]
    BY SlotStep DEF AdoptOutput
  <1> HIDE DEF reopened
  <1>5. /\ step'[k[1]].status = "completed"
        /\ \A t \in Steps : t # k[1] /\ t \in reopened => step'[t].status = "pending"
    <2>1. \A t \in Steps : /\ SetStep(step[t], "pending").status = "pending"
                            /\ [SetStep(step[t], "completed") EXCEPT !.dispatchAfter = "none"].status
                                 = "completed"
      BY DEF SetStep, StoreInv, StoreTypeOK, StepRow
    <2> QED
      BY <1>4, <2>1
  <1>6. \A t \in Steps : HasActiveAttempt(t) => t # k[1] /\ t \notin reopened /\ step'[t] = step[t]
    <2>1. \A t \in Steps : HasActiveAttempt(t) => step[t].status # "skipped"
      BY DEF RowInv, RowsAgree, HasActiveAttempt, SlotsOf, ActiveAttempt
    <2> QED
      BY <1>2, <1>3, <1>4, <2>1
  <1>7. PairAgrees(step'[k[1]], arow)
    BY <1>1 DEF PairAgrees, ActiveAttempt
  <1>8. RowsInv'
    <2>1. \A s \in Steps : step'[s].status \in {"running", "waiting_input"} =>
                             step'[s] = step[s] /\ s # k[1]
      BY <1>4, <1>5
    <2> QED
      BY <1>1, <1>2, <1>6, <1>7, <2>1, RowInvRows, RowAdded
  <1>9. attempt'[k] = arow /\ \A j \in Slots : j # k => attempt'[j] = attempt[j]
    BY <1>2 DEF StoreInv, StoreTypeOK
  <1>10. Calm
    <2>1. ASSUME NEW j \in Slots, attempt'[j].status = "queued"
          PROVE  attempt'[j] = attempt[j] /\ step'[j[1]] = step[j[1]]
      <3>1. j # k /\ attempt'[j] = attempt[j]
        BY <1>1, <1>9, <2>1
      <3>2. HasActiveAttempt(j[1]) /\ j[1] \in Steps
        BY <2>1, <3>1, SlotStep DEF HasActiveAttempt, SlotsOf, ActiveAttempt
      <3> QED
        BY <1>6, <3>1, <3>2
    <2>2. \A j \in Slots : attempt[j].status # "absent" => attempt'[j].status # "absent"
      BY <1>1, <1>9
    <2> QED
      BY <2>1, <2>2 DEF Calm
  <1>11. /\ exec'.status = Reopens(exec.status) /\ exec'.lease = exec.lease
    BY DEF AdoptOutput, StoreInv, StoreTypeOK, ExecutionRow
  <1>12. PlanningIsEmpty' /\ SettledIsEmpty'
    BY <1>11 DEF CanAdoptOutput, Reopens, PlanningIsEmpty, SettledIsEmpty, Terminal,
                 ActiveExecution, TerminalExecution
  <1>13. PausedIsQuiet'
    <2>1. \A j \in Slots : attempt'[j].status \in {"queued", "running"} =>
                             attempt[j].status \in {"queued", "running"}
      BY <1>1, <1>9
    <2>2. exec'.status = "paused" => exec.status = "paused"
      BY <1>11 DEF Reopens
    <2> QED
      BY <1>11, <2>1, <2>2 DEF RowInv, PausedIsQuiet
  <1> QED
    BY <1>8, <1>10, <1>12, <1>13 DEF RowInv, RowsInv

LEMMA ReconcilePlanSafe ==
  ASSUME StoreInv, RowInv, NEW keep, NEW plan \in Plans, NEW status \in ExecutionStatus,
         CanReconcilePlan(keep, plan), ReconcilePlan(keep, plan, status),
         status \notin TerminalExecution \cup {"planning"},
         status = "paused" => exec.status = "paused"
  PROVE  RowInv' /\ Calm /\ SettledIsEmpty'
  <1> DEFINE dropped == Current \ keep
  <1>1. ASSUME NEW s \in Steps
        PROVE  /\ s \in plan.steps => step'[s] = NewStep /\ step[s].status = "absent"
               /\ s \notin plan.steps /\ s \in dropped => step'[s] = DroppedStep(step[s])
               /\ s \notin plan.steps /\ s \notin dropped => step'[s] = step[s]
    BY DEF ReconcilePlan, CanReconcilePlan
  <1>2. ASSUME NEW s \in Steps
        PROVE  DroppedStep(step[s]).status \notin {"running", "waiting_input"}
    <2> DEFINE row == step[s]
               to == CASE row.status = "pending" -> "skipped"
                       [] row.status \in {"running", "waiting_input"} -> "cancelled"
                       [] OTHER -> row.status
    <2>1. to \notin {"running", "waiting_input"}
      OBVIOUS
    <2>2. DroppedStep(row) = [SetStep(row, to) EXCEPT !.dispatchAfter = "none", !.current = FALSE]
      BY DEF DroppedStep
    <2> HIDE DEF to
    <2>3. DroppedStep(row).status = to
      BY <2>2 DEF SetStep, StoreInv, StoreTypeOK, StepRow
    <2> QED
      BY <2>1, <2>3
  <1>3. ASSUME NEW k \in Slots, k[1] \in dropped
        PROVE  /\ attempt'[k].status \notin ActiveAttempt /\ ~attempt'[k].link
               /\ attempt'[k].status = "absent" <=> attempt[k].status = "absent"
    <2>1. CASE attempt[k].status \in ActiveAttempt
      <3>1. \/ attempt'[k] = EndAttempt(attempt[k], "cancelled")
            \/ attempt'[k] = EndAttempt(attempt[k], "interrupted")
        BY <1>3, <2>1 DEF ReconcilePlan
      <3> QED
        BY <2>1, <3>1, RowsOf DEF EndAttempt, SetAttempt, AttemptRow, ActiveAttempt
    <2>2. CASE attempt[k].status \notin ActiveAttempt
      <3>1. attempt'[k] = [attempt[k] EXCEPT !.link = FALSE]
        BY <1>3, <2>2 DEF ReconcilePlan
      <3> QED
        BY <2>2, <3>1, RowsOf DEF AttemptRow
    <2> QED
      BY <2>1, <2>2
  <1>4. ASSUME NEW k \in Slots, k[1] \notin dropped
        PROVE  attempt'[k] = attempt[k]
    BY <1>4 DEF ReconcilePlan
  <1>5. \A k \in Slots : attempt[k].status \in ActiveAttempt => step[k[1]].status # "absent"
    BY DEF RowInv, RowsAgree, ActiveAttempt
  <1>6. exec'.status = status
    BY DEF ReconcilePlan, WithStatus, StoreInv, StoreTypeOK, ExecutionRow
  <1>7. status = "paused" => exec'.lease = "none"
    BY DEF ReconcilePlan, WithStatus, StoreInv, StoreTypeOK, ExecutionRow, ActiveExecution
  <1> HIDE DEF dropped
  <1>8. ASSUME NEW k \in Slots
        PROVE  PairAgrees(step'[k[1]], attempt'[k])
    <2>1. CASE k[1] \in dropped
      BY <1>3, <2>1 DEF PairAgrees, ActiveAttempt
    <2>2. CASE k[1] \notin dropped /\ attempt[k].status \in ActiveAttempt
      BY <1>1, <1>4, <1>5, <2>2, SlotStep, PairOf, RowInvRows
    <2>3. CASE k[1] \notin dropped /\ attempt[k].status \notin ActiveAttempt
      BY <1>4, <2>3, InactiveAgrees, RowInvRows
    <2> QED
      BY <2>1, <2>2, <2>3
  <1>9. ASSUME NEW s \in Steps, step'[s].status \in {"running", "waiting_input"}
        PROVE  \E k \in SlotsOf(s) : attempt'[k].status \in ActiveAttempt
    <2>1. s \notin dropped /\ step'[s] = step[s]
      <3>1. NewStep.status = "pending"
        BY DEF NewStep
      <3>2. s \notin plan.steps
        BY <1>1, <1>9, <3>1
      <3> QED
        BY <1>1, <1>2, <1>9, <3>2
    <2>2. PICK k \in SlotsOf(s) : attempt[k].status \in ActiveAttempt
      BY <1>9, <2>1 DEF RowInv, RowsAgree, HasActiveAttempt
    <2> QED
      BY <1>4, <2>1, <2>2 DEF SlotsOf
  <1>10. RowsInv'
    <2>1. \A k \in Slots : attempt'[k].status = "absent" <=> attempt[k].status = "absent"
      BY <1>3, <1>4
    <2>2. \A k \in Slots : attempt'[k].status \in ActiveAttempt => attempt[k].status \in ActiveAttempt
      BY <1>3, <1>4
    <2> QED
      BY <1>8, <1>9, <2>1, <2>2, RowInvRows, RowsMoved
  <1>11. Calm
    <2>1. ASSUME NEW k \in Slots, attempt'[k].status = "queued"
          PROVE  attempt'[k] = attempt[k] /\ step'[k[1]] = step[k[1]]
      <3>1. k[1] \notin dropped /\ attempt'[k] = attempt[k]
        BY <1>3, <1>4, <2>1 DEF ActiveAttempt
      <3>2. step[k[1]].status # "absent"
        BY <1>5, <2>1, <3>1 DEF ActiveAttempt
      <3> QED
        BY <1>1, <3>1, <3>2, SlotStep
    <2>2. \A k \in Slots : attempt[k].status # "absent" => attempt'[k].status # "absent"
      BY <1>3, <1>4
    <2> QED
      BY <2>1, <2>2 DEF Calm
  <1>12. PlanningIsEmpty' /\ SettledIsEmpty'
    BY <1>6 DEF PlanningIsEmpty, SettledIsEmpty, Terminal
  <1>13. PausedIsQuiet'
    <2>1. \A k \in Slots : attempt'[k].status \in {"queued", "running"} =>
                             attempt[k].status \in {"queued", "running"}
      BY <1>3, <1>4 DEF ActiveAttempt
    <2> QED
      BY <1>6, <1>7, <2>1 DEF RowInv, PausedIsQuiet
  <1> QED
    BY <1>10, <1>11, <1>12, <1>13 DEF RowInv, RowsInv

LEMMA PauseExecutionSafe ==
  ASSUME StoreInv, RowInv, PauseExecution
  PROVE  RowInv' /\ Calm /\ SettledIsEmpty'
  <1> DEFINE lost == {k \in Slots : /\ attempt[k].status = "running"
                                    /\ step[k[1]].current /\ step[k[1]].status = "running"}
  <1>1. lost \subseteq Slots /\ \A k \in Slots : k \in lost <=> attempt[k].status = "running"
    BY DEF RowInv, RowsAgree, ActiveAttempt
  <1>2. \A k \in lost : step[k[1]].current /\ step[k[1]].status = "running"
    OBVIOUS
  <1>3. /\ \A k \in Slots : k \in lost => attempt'[k] = ReconciledAttempt(k)
        /\ \A k \in Slots : attempt[k].status = "queued" =>
                              attempt'[k] = EndAttempt(attempt[k], "cancelled")
        /\ \A k \in Slots : attempt[k].status \notin {"queued", "running"} =>
                              attempt'[k] = attempt[k]
    BY <1>1 DEF PauseExecution
  <1>4. ASSUME NEW k \in lost
        PROVE  step'[k[1]] = ReconciledStep(k)
    <2>1. \A j \in lost : j[1] = k[1] => j = k
      BY <1>1, LatestIsOnly DEF RowInv, SlotsOf, ActiveAttempt
    <2>2. (CHOOSE j \in lost : j[1] = k[1]) = k
      BY <2>1
    <2>3. k[1] \in Steps /\ \E j \in lost : j[1] = k[1]
      BY <1>1, SlotStep
    <2>4. step'[k[1]] = ReconciledStep(CHOOSE j \in lost : j[1] = k[1])
      BY <2>3 DEF PauseExecution
    <2> QED
      BY <2>2, <2>4
  <1>5. \A s \in Steps : (~\E k \in lost : k[1] = s) => step'[s] = step[s]
    BY DEF PauseExecution
  <1>6. exec'.status = "paused" /\ exec'.lease = "none"
    BY DEF PauseExecution, WithStatus, StoreInv, StoreTypeOK, ExecutionRow, ActiveExecution
  <1> HIDE DEF lost
  <1>7. ASSUME NEW k \in lost
        PROVE  /\ PairAgrees(ReconciledStep(k), ReconciledAttempt(k))
               /\ ReconciledAttempt(k).status \in {"completed", "failed", "waiting_input"}
               /\ ReconciledStep(k).status = "waiting_input" =>
                    ReconciledAttempt(k).status = "waiting_input"
               /\ ReconciledStep(k).status # "running"
    BY <1>1, <1>2, ReconciledPair
  <1>8. ASSUME NEW k \in Slots, attempt[k].status = "queued"
        PROVE  attempt'[k].status = "cancelled" /\ ~attempt'[k].link
    BY <1>3, <1>8, RowsOf DEF EndAttempt, SetAttempt, AttemptRow
  <1>9. \A k \in Slots : attempt'[k].status \notin {"queued", "running"}
    BY <1>1, <1>3, <1>7, <1>8
  <1>10. ASSUME NEW k \in Slots
         PROVE  PairAgrees(step'[k[1]], attempt'[k])
    <2>1. CASE attempt[k].status = "running"
      BY <1>1, <1>3, <1>4, <1>7, <2>1
    <2>2. CASE attempt[k].status = "queued"
      BY <1>8, <2>2 DEF PairAgrees, ActiveAttempt
    <2>3. CASE attempt[k].status = "waiting_input"
      <3>1. step[k[1]].status = "waiting_input" /\ k[1] \in Steps
        BY <2>3, SlotStep DEF RowInv, RowsAgree
      <3>2. step'[k[1]] = step[k[1]]
        BY <1>2, <1>5, <3>1
      <3> QED
        BY <1>3, <2>3, <3>2, PairOf, RowInvRows
    <2>4. CASE attempt[k].status \notin ActiveAttempt
      BY <1>3, <2>4, InactiveAgrees, RowInvRows DEF ActiveAttempt
    <2> QED
      BY <2>1, <2>2, <2>3, <2>4 DEF ActiveAttempt
  <1>11. ASSUME NEW s \in Steps, step'[s].status \in {"running", "waiting_input"}
         PROVE  \E k \in SlotsOf(s) : attempt'[k].status \in ActiveAttempt
    <2>1. CASE \E k \in lost : k[1] = s
      <3>1. PICK k \in lost : k[1] = s
        BY <2>1
      <3>2. attempt'[k].status = "waiting_input"
        BY <1>1, <1>3, <1>4, <1>7, <1>11, <3>1
      <3> QED
        BY <1>1, <3>1, <3>2 DEF SlotsOf, ActiveAttempt
    <2>2. CASE ~\E k \in lost : k[1] = s
      <3>1. step'[s] = step[s]
        BY <1>5, <2>2
      <3>2. PICK k \in SlotsOf(s) : attempt[k].status \in ActiveAttempt
        BY <1>11, <3>1 DEF RowInv, RowsAgree, HasActiveAttempt
      <3>3. k \in Slots /\ k[1] = s /\ attempt[k].status = "waiting_input"
        BY <1>1, <1>11, <2>2, <3>1, <3>2 DEF SlotsOf, ActiveAttempt, RowInv, RowsAgree
      <3> QED
        BY <1>3, <3>2, <3>3 DEF ActiveAttempt
    <2> QED
      BY <2>1, <2>2
  <1>12. /\ \A k \in Slots : attempt'[k].status = "absent" <=> attempt[k].status = "absent"
         /\ \A k \in Slots : attempt'[k].status \in ActiveAttempt => attempt[k].status \in ActiveAttempt
    BY <1>1, <1>3, <1>7, <1>8 DEF ActiveAttempt
  <1>13. RowsInv'
    BY <1>10, <1>11, <1>12, RowInvRows, RowsMoved
  <1>14. Calm
    BY <1>9, <1>12 DEF Calm
  <1>15. PlanningIsEmpty' /\ PausedIsQuiet' /\ SettledIsEmpty'
    BY <1>6, <1>9 DEF PlanningIsEmpty, PausedIsQuiet, SettledIsEmpty, Terminal, TerminalExecution
  <1> QED
    BY <1>13, <1>14, <1>15 DEF RowInv, RowsInv

\* Lease and status of the execution row.
LEMMA LeaseSafe ==
  ASSUME StoreInv, RowInv, SettledIsEmpty, step' = step, attempt' = attempt,
         exec'.status = exec.status, exec.lease = "none" => exec'.lease = "none" \/ Active
  PROVE  RowInv' /\ Calm /\ SettledIsEmpty'
  <1>1. RowsInv' /\ Calm
    BY StatusWritten
  <1>2. PlanningIsEmpty' /\ SettledIsEmpty'
    BY DEF RowInv, PlanningIsEmpty, Current, SettledIsEmpty, Terminal
  <1>3. PausedIsQuiet'
    BY DEF RowInv, PausedIsQuiet, Active, ActiveExecution
  <1> QED
    BY <1>1, <1>2, <1>3 DEF RowInv, RowsInv

LEMMA ResumeExecutionSafe ==
  ASSUME StoreInv, RowInv, ResumeExecution
  PROVE  RowInv' /\ Calm /\ SettledIsEmpty'
  <1>1. exec'.status \in ActiveExecution
    BY DEF ResumeExecution, StoreInv, StoreTypeOK, ExecutionRow, ActiveExecution
  <1> QED
    BY <1>1, StatusWritten, ActiveStays DEF ResumeExecution

LEMMA UpdateStatusSafe ==
  ASSUME StoreInv, RowInv, NEW status, UpdateStatus(status),
         status # "planning", status # "paused",
         status \in TerminalExecution => \A k \in Slots : attempt[k].status # "queued"
  PROVE  RowInv' /\ Calm /\ SettledIsEmpty'
  <1>1. exec'.status = status /\ step' = step /\ attempt' = attempt
    BY DEF UpdateStatus, WithStatus, StoreInv, StoreTypeOK, ExecutionRow
  <1>2. RowsInv' /\ Calm
    BY <1>1, StatusWritten
  <1>3. PlanningIsEmpty' /\ PausedIsQuiet' /\ SettledIsEmpty'
    BY <1>1 DEF PlanningIsEmpty, PausedIsQuiet, SettledIsEmpty, Terminal
  <1> QED
    BY <1>2, <1>3 DEF RowInv, RowsInv

LEMMA StoreKept ==
  ASSUME RowInv, SettledIsEmpty, UNCHANGED <<exec, step, attempt>>
  PROVE  RowInv' /\ Calm /\ SettledIsEmpty'
  BY DEF RowInv, RowsAgree, HasActiveAttempt, Dense, ActiveIsLatest, LatestSlot,
         PlanningIsEmpty, Current, PausedIsQuiet, SettledIsEmpty, Terminal, Calm

-----------------------------------------------------------------------------
(* Who holds a queued attempt.                                             *)

LEMMA HeldSlot ==
  ASSUME SchedInv, NEW s \in Steps, job[s].pc \in Holding \cup Started_
  PROVE  job[s].k \in Slots
  BY JobOf, InlineFiber DEF WellFormedJob, Holding, Started_

LEMMA ReadySteps == SchedInv => snap.ready \subseteq Steps
  BY DEF SchedInv, LoopInv, Snapshot

\* A step that leaves the step jobs alone; what it reads is neither reserved
\* nor queued.
LEMMA OwnRead ==
  ASSUME SchedInv, OwnInv, Calm, SettledIsEmpty', \A s \in Steps : job'[s] = job[s],
         Reserved',
         JobsWhileLooping', RestIsIdle', ErrDrains', BootFirst',
         \/ Looping' /\ ~sched'.err => Looping /\ ~sched.err
         \/ \A k \in Slots : attempt[k].status # "queued"
  PROVE  OwnInv'
  <1>3. OwnSlot'
    BY DEF OwnInv, OwnSlot
  <1>4. QueuedIsHeld'
    <2>1. ASSUME NEW k \in Slots, attempt'[k].status = "queued", Looping', ~sched'.err
          PROVE  job'[k[1]].k = k /\ job'[k[1]].pc \in Holding
      <3>1. attempt[k].status = "queued" /\ Looping /\ ~sched.err
        BY <2>1 DEF Calm
      <3> QED
        BY <3>1, SlotStep DEF OwnInv, QueuedIsHeld
    <2> QED
      BY <2>1 DEF QueuedIsHeld
  <1>5. HeldVersions'
    <2>1. ASSUME NEW s \in Steps, job'[s].pc \in Holding
          PROVE  /\ attempt'[job'[s].k].status # "absent"
                 /\ attempt'[job'[s].k].status = "queued" =>
                      step'[s].version = job'[s].sv /\ attempt'[job'[s].k].version = job'[s].av
      <3>1. job[s].k \in Slots /\ job[s].k[1] = s /\ job'[s] = job[s] /\ job[s].pc \in Holding
        BY <2>1, HeldSlot DEF OwnInv, OwnSlot, Holding
      <3> QED
        BY <3>1 DEF OwnInv, HeldVersions, Calm
    <2> QED
      BY <2>1 DEF HeldVersions
  <1>6. StartedJob'
    <2>1. ASSUME NEW s \in Steps, job'[s].pc \in Started_
          PROVE  attempt'[job'[s].k].status \notin {"queued", "absent"}
      <3>1. job[s].k \in Slots /\ job'[s] = job[s]
        BY <2>1, HeldSlot
      <3> QED
        BY <2>1, <3>1 DEF OwnInv, StartedJob, Calm
    <2> QED
      BY <2>1 DEF StartedJob
  <1> QED
    BY <1>3, <1>4, <1>5, <1>6 DEF OwnInv

LEMMA OwnKept ==
  ASSUME SchedInv, OwnInv, Calm, SettledIsEmpty', \A s \in Steps : job'[s] = job[s],
         snap'.ready \subseteq snap.ready,
         JobsWhileLooping', RestIsIdle', ErrDrains', BootFirst',
         \/ Looping' /\ ~sched'.err => Looping /\ ~sched.err
         \/ \A k \in Slots : attempt[k].status # "queued"
  PROVE  OwnInv'
  <1>1. \A s \in Steps : NoneQueued(s) => \A k \in SlotsOf(s) : attempt'[k].status # "queued"
    BY DEF Calm, NoneQueued, SlotsOf
  <1>2. Reserved'
    BY <1>1, ReadySteps DEF OwnInv, Reserved, NoneQueued, SlotsOf
  <1> QED
    BY <1>2, OwnRead

\* The generation stays where it is; only its flags may change.
LEMMA OwnFlags ==
  ASSUME SchedInv, OwnInv, Calm, SettledIsEmpty', \A s \in Steps : job'[s] = job[s],
         snap'.ready \subseteq snap.ready,
         sched'.pc = sched.pc, sched'.boot = sched.boot, sched'.err = sched.err
  PROVE  OwnInv'
  <1>1. Looping' <=> Looping
    BY DEF Looping
  <1>2. JobsWhileLooping'
    BY <1>1 DEF OwnInv, JobsWhileLooping
  <1>3. RestIsIdle' /\ ErrDrains' /\ BootFirst'
    BY DEF OwnInv, RestIsIdle, ErrDrains, BootFirst
  <1> QED
    BY <1>1, <1>2, <1>3, OwnKept

\* Nobody holds anything outside the loop.
LEMMA OwnIdle ==
  ASSUME SettledIsEmpty', \A s \in Steps : job'[s].pc = "idle", snap'.ready = {},
         ~Looping', ErrDrains', BootFirst'
  PROVE  OwnInv'
  BY DEF OwnInv, JobsWhileLooping, RestIsIdle, OwnSlot, Reserved, QueuedIsHeld, HeldVersions,
         StartedJob, Holding, Started_

LEMMA OwnLeft ==
  ASSUME SchedInv, OwnInv, SettledIsEmpty', NEW restart, LeaveLoop(restart)
  PROVE  OwnInv'
  <1>1. \A s \in Steps : job'[s].pc = "idle"
    BY InlineFiber DEF LeaveLoop, IdleJobs, Idle
  <1>2. snap'.ready = {}
    BY DEF LeaveLoop, NoSnapshot
  <1>3. sched'.pc = "exit"
    BY DEF LeaveLoop, SchedInv, LoopInv, Generation
  <1>4. ~Looping' /\ ErrDrains' /\ BootFirst'
    BY <1>3 DEF Looping, ErrDrains, BootFirst, Leased
  <1> QED
    BY <1>1, <1>2, <1>4, OwnIdle

\* The loop moves on, its jobs untouched.
LEMMA OwnGoto ==
  ASSUME SchedInv, OwnInv, Calm, SettledIsEmpty', \A s \in Steps : job'[s] = job[s],
         snap'.ready \subseteq snap.ready, Looping, NEW pc \in Leased \ {"recover", "rest"},
         sched'.pc = pc, sched'.boot = sched.boot, sched'.err = sched.err,
         sched.err => pc \in {"loop", "wait"}
  PROVE  OwnInv'
  <1>1. Looping'
    BY DEF Looping
  <1>2. JobsWhileLooping' /\ RestIsIdle' /\ ErrDrains' /\ BootFirst'
    BY <1>1 DEF JobsWhileLooping, RestIsIdle, ErrDrains, BootFirst, Looping, Leased
  <1> QED
    BY <1>1, <1>2, OwnKept

\* A job ends: an attempt it held is no longer queued, or its error is kept.
LEMMA OwnFinished ==
  ASSUME SchedInv, OwnInv, Calm, SettledIsEmpty', NEW s \in Steps, sched.pc = "wait",
         NEW failed \in BOOLEAN, Finish(s, failed),
         ~failed /\ ~sched.err => \A k \in SlotsOf(s) : attempt'[k].status # "queued"
  PROVE  OwnInv'
  <1>1. s # Inline /\ s \in Fibers /\ job \in [Fibers -> Job] /\ sched \in Generation
    BY InlineAssumption, InlineFiber DEF SchedInv, LoopInv
  <1>2. /\ sched' = [sched EXCEPT !.pc = "loop", !.err = @ \/ failed]
        /\ job' = [job EXCEPT ![s] = Idle] /\ snap' = snap
    BY <1>1 DEF Finish
  <1>3. /\ sched'.pc = "loop" /\ sched'.boot = sched.boot
        /\ sched'.err <=> sched.err \/ failed
    BY <1>1, <1>2 DEF Generation
  <1>4. /\ job'[s] = Idle /\ job'[s].pc = "idle"
        /\ \A t \in Steps : t # s => job'[t] = job[t]
    BY <1>1, <1>2, InlineFiber DEF Idle
  <1>5. ~sched.boot /\ Looping /\ Looping'
    BY <1>3 DEF OwnInv, BootFirst, Looping, Leased
  <1>6. JobsWhileLooping' /\ RestIsIdle' /\ ErrDrains' /\ BootFirst'
    BY <1>3, <1>5 DEF JobsWhileLooping, RestIsIdle, ErrDrains, BootFirst
  <1>7. OwnSlot'
    BY <1>4 DEF OwnInv, OwnSlot
  <1>8. Reserved'
    <2>1. \A t \in Steps : NoneQueued(t) => \A k \in SlotsOf(t) : attempt'[k].status # "queued"
      BY DEF Calm, NoneQueued, SlotsOf
    <2> QED
      BY <1>2, <1>4, <2>1, ReadySteps DEF OwnInv, Reserved, NoneQueued, SlotsOf
  <1>9. QueuedIsHeld'
    <2>1. ASSUME NEW k \in Slots, attempt'[k].status = "queued", ~sched'.err
          PROVE  job'[k[1]].k = k /\ job'[k[1]].pc \in Holding
      <3>1. attempt[k].status = "queued" /\ ~sched.err /\ ~failed
        BY <1>3, <2>1 DEF Calm
      <3>2. k[1] # s /\ k[1] \in Steps
        BY <2>1, <3>1, SlotStep DEF SlotsOf
      <3> QED
        BY <1>4, <1>5, <3>1, <3>2 DEF OwnInv, QueuedIsHeld
    <2> QED
      BY <2>1 DEF QueuedIsHeld
  <1>10. HeldVersions'
    <2>1. ASSUME NEW t \in Steps, job'[t].pc \in Holding
          PROVE  /\ attempt'[job'[t].k].status # "absent"
                 /\ attempt'[job'[t].k].status = "queued" =>
                      step'[t].version = job'[t].sv /\ attempt'[job'[t].k].version = job'[t].av
      <3>1. t # s /\ job'[t] = job[t]
        BY <1>4, <2>1 DEF Holding
      <3>2. job[t].k \in Slots /\ job[t].k[1] = t /\ job[t].pc \in Holding
        BY <2>1, <3>1, HeldSlot DEF OwnInv, OwnSlot, Holding
      <3> QED
        BY <3>1, <3>2 DEF OwnInv, HeldVersions, Calm
    <2> QED
      BY <2>1 DEF HeldVersions
  <1>11. StartedJob'
    <2>1. ASSUME NEW t \in Steps, job'[t].pc \in Started_
          PROVE  attempt'[job'[t].k].status \notin {"queued", "absent"}
      <3>1. t # s /\ job'[t] = job[t]
        BY <1>4, <2>1 DEF Started_
      <3>2. job[t].k \in Slots
        BY <2>1, <3>1, HeldSlot
      <3> QED
        BY <2>1, <3>1, <3>2 DEF OwnInv, StartedJob, Calm
    <2> QED
      BY <2>1 DEF StartedJob
  <1> QED
    BY <1>6, <1>7, <1>8, <1>9, <1>10, <1>11 DEF OwnInv

\* A job moves on with the attempt it has.
LEMMA OwnMoved ==
  ASSUME SchedInv, OwnInv, Calm, SettledIsEmpty', NEW s \in Steps, NEW row, SetJob(s, row),
         UNCHANGED <<sched, snap>>, job[s].pc \in Holding \cup Started_, row.k = job[s].k,
         \/ row.pc \in Holding /\ row.sv = job[s].sv /\ row.av = job[s].av
         \/ row.pc \in Started_ /\ attempt'[row.k].status \notin {"queued", "absent"}
  PROVE  OwnInv'
  <1>1. /\ job'[s] = row
        /\ \A t \in Steps : t # s => job'[t] = job[t]
    BY InlineFiber DEF SetJob, SchedInv, LoopInv
  <1>2. /\ job[s].pc \notin {"idle", "new", "create"} /\ row.pc \notin {"idle", "new", "create"}
        /\ job[s].k \in Slots /\ job[s].k[1] = s
    BY HeldSlot DEF OwnInv, OwnSlot, Holding, Started_
  <1>3. Looping' <=> Looping
    BY DEF Looping
  <1>4. JobsWhileLooping' /\ RestIsIdle' /\ ErrDrains' /\ BootFirst' /\ OwnSlot'
    BY <1>1, <1>2, <1>3
    DEF OwnInv, JobsWhileLooping, RestIsIdle, ErrDrains, BootFirst, OwnSlot
  <1>5. Reserved'
    <2>1. \A t \in Steps : NoneQueued(t) => \A k \in SlotsOf(t) : attempt'[k].status # "queued"
      BY DEF Calm, NoneQueued, SlotsOf
    <2> QED
      BY <1>1, <1>2, <2>1, ReadySteps DEF OwnInv, Reserved, NoneQueued, SlotsOf
  <1>6. QueuedIsHeld'
    <2>1. ASSUME NEW k \in Slots, attempt'[k].status = "queued", Looping, ~sched.err
          PROVE  job'[k[1]].k = k /\ job'[k[1]].pc \in Holding
      <3>1. attempt[k].status = "queued" /\ k[1] \in Steps
        BY <2>1, SlotStep DEF Calm
      <3>2. job[k[1]].k = k /\ job[k[1]].pc \in Holding
        BY <2>1, <3>1 DEF OwnInv, QueuedIsHeld
      <3> QED
        BY <1>1, <2>1, <3>1, <3>2
    <2> QED
      BY <1>3, <2>1 DEF QueuedIsHeld
  <1>7. \A t \in Steps : t # s /\ job[t].pc \in Holding \cup Started_ =>
          job[t].k \in Slots /\ job[t].k[1] = t
    BY HeldSlot DEF OwnInv, OwnSlot, Holding, Started_
  <1>8. HeldVersions'
    <2>1. ASSUME NEW t \in Steps, job'[t].pc \in Holding
          PROVE  /\ attempt'[job'[t].k].status # "absent"
                 /\ attempt'[job'[t].k].status = "queued" =>
                      step'[t].version = job'[t].sv /\ attempt'[job'[t].k].version = job'[t].av
      <3>1. CASE t # s
        BY <1>1, <1>7, <2>1, <3>1 DEF OwnInv, HeldVersions, Calm
      <3>2. CASE t = s
        <4>1. row.sv = job[s].sv /\ row.av = job[s].av
          BY <1>1, <2>1, <3>2 DEF Holding, Started_
        <4>2. CASE job[s].pc \in Holding
          BY <1>1, <1>2, <3>2, <4>1, <4>2 DEF OwnInv, HeldVersions, Calm
        <4>3. CASE job[s].pc \in Started_
          BY <1>1, <1>2, <3>2, <4>3 DEF OwnInv, StartedJob, Calm
        <4> QED
          BY <4>2, <4>3
      <3> QED
        BY <3>1, <3>2
    <2> QED
      BY <2>1 DEF HeldVersions
  <1>9. StartedJob'
    <2>1. ASSUME NEW t \in Steps, job'[t].pc \in Started_
          PROVE  attempt'[job'[t].k].status \notin {"queued", "absent"}
      <3>1. CASE t # s
        BY <1>1, <1>7, <2>1, <3>1 DEF OwnInv, StartedJob, Calm
      <3>2. CASE t = s
        BY <1>1, <2>1, <3>2 DEF Holding, Started_
      <3> QED
        BY <3>1, <3>2
    <2> QED
      BY <2>1 DEF StartedJob
  <1> QED
    BY <1>4, <1>5, <1>6, <1>8, <1>9 DEF OwnInv

LEMMA GotoFields ==
  ASSUME SchedInv, NEW pc, Goto(pc)
  PROVE  sched'.pc = pc /\ sched'.boot = sched.boot /\ sched'.err = sched.err
  BY DEF SchedInv, LoopInv, Generation, Goto

LEMMA NoJobsOutside ==
  ASSUME OwnInv, ~Looping
  PROVE  \A s \in Steps : job[s].pc = "idle"
  BY DEF OwnInv, JobsWhileLooping

\* The generation moves on outside its loop.
LEMMA OwnOutside ==
  ASSUME SchedInv, OwnInv, Calm, SettledIsEmpty', \A s \in Steps : job'[s] = job[s],
         snap'.ready \subseteq snap.ready, ~Looping, ~Looping', sched'.pc # "rest",
         ErrDrains', BootFirst'
  PROVE  OwnInv'
  <1>1. JobsWhileLooping' /\ RestIsIdle'
    BY NoJobsOutside DEF JobsWhileLooping, RestIsIdle
  <1> QED
    BY <1>1, OwnKept

-----------------------------------------------------------------------------
(* The actions of the loop.                                                *)

LEMMA AcquireSafe ==
  ASSUME StoreInv, SchedInv, RowInv, OwnInv, Acquire
  PROVE  RowInv' /\ OwnInv'
  <1>1. ~Looping /\ ~sched.err /\ sched.boot
    BY DEF Acquire, OwnInv, ErrDrains, BootFirst, Looping
  <1>2. job' = job /\ snap' = snap
    BY DEF Acquire
  <1>3. RowInv' /\ Calm /\ SettledIsEmpty'
    <2>1. CASE UNCHANGED storeVars
      BY <2>1, StoreKept DEF OwnInv, storeVars
    <2>2. CASE AcquireLease /\ CanAcquireLease
      BY <2>2, LeaseSafe
      DEF OwnInv, AcquireLease, CanAcquireLease, StoreInv, StoreTypeOK, ExecutionRow
    <2> QED
      BY <2>1, <2>2 DEF Acquire
  <1>4. sched'.pc \in {"end", "publish"} /\ sched'.boot = sched.boot /\ sched'.err = sched.err
    BY GotoFields DEF Acquire
  <1>5. ~Looping' /\ ErrDrains' /\ BootFirst'
    BY <1>1, <1>4 DEF Looping, ErrDrains, BootFirst
  <1> QED
    BY <1>1, <1>2, <1>3, <1>4, <1>5, OwnOutside

LEMMA ReleaseSafe ==
  ASSUME StoreInv, RowInv, SettledIsEmpty, NEW matches \in BOOLEAN, ReleaseLease(matches)
  PROVE  RowInv' /\ Calm /\ SettledIsEmpty'
  <1>1. /\ exec'.status = exec.status /\ step' = step /\ attempt' = attempt
        /\ exec.lease = "none" => exec'.lease = "none"
    BY DEF ReleaseLease, StoreInv, StoreTypeOK, ExecutionRow
  <1> QED
    BY <1>1, LeaseSafe

LEMMA PublishSafe ==
  ASSUME StoreInv, SchedInv, RowInv, OwnInv, Publish
  PROVE  RowInv' /\ OwnInv'
  <1>1. ~Looping /\ ~sched.err /\ sched.boot
    BY DEF Publish, OwnInv, ErrDrains, BootFirst, Looping
  <1>2. job' = job /\ snap' = snap
    BY DEF Publish
  <1>3. RowInv' /\ Calm /\ SettledIsEmpty'
    BY StoreKept, ReleaseSafe DEF Publish, OwnInv, storeVars
  <1>4. sched'.pc \in {"end", "effects"} /\ sched'.boot = sched.boot /\ sched'.err = sched.err
    BY GotoFields DEF Publish
  <1>5. ~Looping' /\ ErrDrains' /\ BootFirst'
    BY <1>1, <1>4 DEF Looping, ErrDrains, BootFirst
  <1> QED
    BY <1>1, <1>2, <1>3, <1>4, <1>5, OwnOutside

LEMMA ExitSafe ==
  ASSUME StoreInv, SchedInv, RowInv, OwnInv, Exit
  PROVE  RowInv' /\ OwnInv'
  <1>1. ~Looping
    BY DEF Exit, Looping, Leased
  <1>2. job' = job /\ snap' = snap
    BY DEF Exit
  <1>3. RowInv' /\ Calm /\ SettledIsEmpty'
    BY ReleaseSafe DEF Exit, OwnInv
  <1>4. sched'.pc = "end"
    BY GotoFields DEF Exit
  <1>5. ~Looping' /\ ErrDrains' /\ BootFirst'
    BY <1>4 DEF Looping, ErrDrains, BootFirst, Leased
  <1> QED
    BY <1>1, <1>2, <1>3, <1>4, <1>5, OwnOutside

LEMMA EndSafe ==
  ASSUME StoreInv, SchedInv, RowInv, OwnInv, End
  PROVE  RowInv' /\ OwnInv'
  <1>1. ~Looping
    BY DEF End, Looping, Leased
  <1>2. job' = job /\ snap' = snap
    BY DEF End
  <1>3. RowInv' /\ Calm /\ SettledIsEmpty'
    BY StoreKept DEF End, OwnInv, storeVars
  <1>4. sched'.pc \in {"off", "acquire"} /\ sched'.boot /\ ~sched'.err
    BY DEF End, NewGeneration, NoGeneration
  <1>5. ~Looping' /\ ErrDrains' /\ BootFirst'
    BY <1>4 DEF Looping, ErrDrains, BootFirst
  <1> QED
    BY <1>1, <1>2, <1>3, <1>4, <1>5, OwnOutside

LEMMA EffectReadSafe ==
  ASSUME StoreInv, SchedInv, RowInv, OwnInv, EffectRead
  PROVE  RowInv' /\ OwnInv'
  <1>1. RowInv' /\ Calm /\ SettledIsEmpty'
    BY StoreKept DEF EffectRead, OwnInv, storeVars
  <1>2. ~sched.err /\ (sched.boot \/ Looping)
    BY DEF EffectRead, OwnInv, ErrDrains, Looping, Leased
  <1>3. CASE exec.deleted /\ LeaveLoop(TRUE)
    BY <1>1, <1>3, OwnLeft
  <1>4. CASE Goto(IF sched.boot THEN "recover" ELSE "pass") /\ UNCHANGED <<snap, job, orphan>>
    <2>1. CASE sched.boot
      <3>1. sched'.pc = "recover" /\ sched'.boot = sched.boot /\ sched'.err = sched.err
        BY <1>4, <2>1, GotoFields
      <3>2. ~Looping /\ ~Looping' /\ ErrDrains' /\ BootFirst'
        BY <1>2, <2>1, <3>1 DEF Looping, ErrDrains, BootFirst
      <3> QED
        BY <1>1, <1>4, <3>1, <3>2, OwnOutside
    <2>2. CASE ~sched.boot
      <3>1. sched'.pc = "pass" /\ sched'.boot = sched.boot /\ sched'.err = sched.err
        BY <1>4, <2>2, GotoFields
      <3>2. "pass" \in Leased \ {"recover", "rest"}
        BY DEF Leased
      <3> QED
        BY <1>1, <1>2, <1>4, <2>2, <3>1, <3>2, OwnGoto
    <2> QED
      BY <2>1, <2>2
  <1>5. ASSUME NEW row, SetJob(Inline, row), Goto("inline"), snap' = NoSnapshot
        PROVE  OwnInv'
    <2>1. sched'.pc = "inline" /\ sched'.boot = sched.boot /\ sched'.err = sched.err
      BY <1>5, GotoFields
    <2>2. (\A s \in Steps : job'[s] = job[s]) /\ snap'.ready \subseteq snap.ready
      BY <1>5, InlineAssumption, InlineFiber DEF SetJob, NoSnapshot, SchedInv, LoopInv
    <2>3. CASE sched.boot
      <3>1. ~Looping /\ ~Looping' /\ ErrDrains' /\ BootFirst'
        BY <1>2, <2>1, <2>3 DEF Looping, ErrDrains, BootFirst
      <3> QED
        BY <1>1, <2>1, <2>2, <3>1, OwnOutside
    <2>4. CASE ~sched.boot
      <3>1. "inline" \in Leased \ {"recover", "rest"}
        BY DEF Leased
      <3> QED
        BY <1>1, <1>2, <2>1, <2>2, <2>4, <3>1, OwnGoto
    <2> QED
      BY <2>3, <2>4
  <1> QED
    BY <1>1, <1>3, <1>4, <1>5 DEF EffectRead

\* The loop runs wherever BootFirst says so.
LEMMA InLoop ==
  ASSUME OwnInv, sched.pc \in {"loop", "pass", "rest", "wait", "sleep", "fail"}
  PROVE  Looping /\ ~sched.boot
  BY DEF OwnInv, BootFirst, Looping, Leased

\* The inline continuation works beside the step jobs.
LEMMA OwnInline ==
  ASSUME SchedInv, OwnInv, Calm, SettledIsEmpty', NEW row, SetJob(Inline, row),
         UNCHANGED <<sched, snap>>
  PROVE  OwnInv'
  <1>1. \A s \in Steps : job'[s] = job[s]
    BY InlineAssumption, InlineFiber DEF SetJob, SchedInv, LoopInv
  <1> QED
    BY <1>1, OwnFlags

LEMMA OwnInlineFinished ==
  ASSUME SchedInv, OwnInv, Calm, SettledIsEmpty', NEW failed \in BOOLEAN, sched.pc = "inline",
         Finish(Inline, failed)
  PROVE  OwnInv'
  <1>1. CASE failed
    BY <1>1, OwnLeft DEF Finish
  <1>2. CASE ~failed
    <2>1. /\ sched' = [sched EXCEPT !.pc = IF sched.boot THEN "effects" ELSE "loop"]
          /\ job' = [job EXCEPT ![Inline] = Idle] /\ snap' = snap
      BY <1>2 DEF Finish
    <2>2. /\ sched'.pc = IF sched.boot THEN "effects" ELSE "loop"
          /\ sched'.boot = sched.boot /\ sched'.err = sched.err
      BY <2>1 DEF SchedInv, LoopInv, Generation
    <2>3. \A s \in Steps : job'[s] = job[s]
      BY <2>1, InlineAssumption, InlineFiber DEF SchedInv, LoopInv
    <2>4. ~sched.err
      BY DEF OwnInv, ErrDrains
    <2>5. CASE sched.boot
      <3>1. ~Looping /\ ~Looping' /\ ErrDrains' /\ BootFirst' /\ sched'.pc # "rest"
        BY <2>2, <2>4, <2>5 DEF Looping, ErrDrains, BootFirst
      <3> QED
        BY <2>1, <2>3, <3>1, OwnOutside
    <2>6. CASE ~sched.boot
      <3>1. "loop" \in Leased \ {"recover", "rest"} /\ Looping
        BY <2>6 DEF Looping, Leased
      <3> QED
        BY <2>1, <2>2, <2>3, <2>4, <2>6, <3>1, OwnGoto
    <2> QED
      BY <2>5, <2>6
  <1> QED
    BY <1>1, <1>2

LEMMA EffectStopSafe ==
  ASSUME StoreInv, SchedInv, RowInv, OwnInv, EffectStop
  PROVE  RowInv' /\ OwnInv'
  <1>1. RowInv' /\ Calm /\ SettledIsEmpty'
    BY StoreKept DEF EffectStop, StopTurn, OwnInv, storeVars
  <1> QED
    BY <1>1, OwnLeft, OwnInline DEF EffectStop

LEMMA EffectSteerSafe ==
  ASSUME StoreInv, SchedInv, RowInv, OwnInv, EffectSteer
  PROVE  RowInv' /\ OwnInv'
  <1>1. RowInv' /\ Calm /\ SettledIsEmpty'
    BY StoreKept DEF EffectSteer, SteerTurn, OwnInv, storeVars
  <1> QED
    BY <1>1, OwnLeft, OwnInline DEF EffectSteer

LEMMA AcknowledgeSafe ==
  ASSUME StoreInv, RowInv, NEW k \in Slots, NEW av, NEW rest, CanAcknowledgeEffect(k, av),
         AcknowledgeEffect(k, rest)
  PROVE  RowInv' /\ Calm /\ SettledIsEmpty'
  BY EffectSafe DEF CanAcknowledgeEffect, AcknowledgeEffect

LEMMA EffectAckSafe ==
  ASSUME StoreInv, SchedInv, RowInv, OwnInv, EffectAck
  PROVE  RowInv' /\ OwnInv'
  <1>1. job[Inline].k \in Slots /\ sched.pc = "inline"
    BY InlineFiber, JobOf DEF EffectAck, WellFormedJob
  <1>2. CASE CanAcknowledgeEffect(job[Inline].k, job[Inline].av)
    <2>1. /\ Finish(Inline, FALSE)
          /\ \E rest : AcknowledgeEffect(job[Inline].k, rest)
      BY <1>2 DEF EffectAck
    <2>2. RowInv' /\ Calm /\ SettledIsEmpty'
      BY <1>1, <1>2, <2>1, AcknowledgeSafe
    <2> QED
      BY <1>1, <2>1, <2>2, OwnInlineFinished
  <1>3. CASE ~CanAcknowledgeEffect(job[Inline].k, job[Inline].av)
    <2>1. LeaveLoop(TRUE) /\ UNCHANGED storeVars
      BY <1>3 DEF EffectAck
    <2> QED
      BY <2>1, StoreKept, OwnLeft DEF OwnInv, storeVars
  <1> QED
    BY <1>2, <1>3

LEMMA RecoverSafe ==
  ASSUME StoreInv, SchedInv, RowInv, OwnInv, Recover
  PROVE  RowInv' /\ OwnInv'
  <1>1. ~Looping /\ ~sched.err
    BY DEF Recover, OwnInv, BootFirst, ErrDrains, Looping
  <1>2. CASE LeaveLoop(TRUE) /\ UNCHANGED storeVars
    BY <1>2, StoreKept, OwnLeft DEF OwnInv, storeVars
  <1>3. CASE /\ ~\E k \in Slots : attempt[k].status \in {"queued", "running"}
             /\ sched' = [sched EXCEPT !.pc = "loop", !.boot = FALSE]
             /\ UNCHANGED <<storeVars, snap, job, orphan>>
    <2>1. RowInv' /\ Calm /\ SettledIsEmpty'
      BY <1>3, StoreKept DEF OwnInv, storeVars
    <2>2. sched'.pc = "loop" /\ sched'.boot = FALSE /\ sched'.err = sched.err
      BY <1>3 DEF SchedInv, LoopInv, Generation
    <2>3. JobsWhileLooping' /\ RestIsIdle' /\ ErrDrains' /\ BootFirst'
      BY <1>1, <1>3, <2>2, NoJobsOutside DEF JobsWhileLooping, RestIsIdle, ErrDrains, BootFirst
    <2>4. \A k \in Slots : attempt[k].status # "queued"
      BY <1>3
    <2> QED
      BY <1>3, <2>1, <2>3, <2>4, OwnKept
  <1>4. ASSUME NEW k \in Slots, CanReconcileRecovered(k), ReconcileRecovered(k),
               UNCHANGED <<sched, snap, job, orphan>>
        PROVE  RowInv' /\ OwnInv'
    <2>1. RowInv' /\ Calm /\ SettledIsEmpty'
      BY <1>4, ReconcileRecoveredSafe
    <2> QED
      BY <1>4, <2>1, OwnFlags
  <1> QED
    BY <1>2, <1>3, <1>4 DEF Recover

LEMMA LoopTopSafe ==
  ASSUME StoreInv, SchedInv, RowInv, OwnInv, LoopTop
  PROVE  RowInv' /\ OwnInv'
  <1>1. RowInv' /\ Calm /\ SettledIsEmpty'
    BY StoreKept DEF LoopTop, OwnInv, storeVars
  <1>2. Looping /\ ~sched.boot
    BY InLoop DEF LoopTop
  <1>3. CASE \E restart : LeaveLoop(restart)
    BY <1>1, <1>3, OwnLeft
  <1>4. CASE Goto("wait") /\ UNCHANGED <<snap, job, orphan>>
    <2>1. sched'.pc = "wait" /\ sched'.boot = sched.boot /\ sched'.err = sched.err
      BY <1>4, GotoFields
    <2>2. "wait" \in Leased \ {"recover", "rest"}
      BY DEF Leased
    <2> QED
      BY <1>1, <1>2, <1>4, <2>1, <2>2, OwnGoto
  <1>5. CASE /\ ~sched.err /\ snap'.ready = Ready
             /\ sched' = [sched EXCEPT !.pc = "effects", !.fresh = TRUE]
             /\ UNCHANGED <<job, orphan>>
    <2>1. sched'.pc = "effects" /\ sched'.boot = sched.boot /\ sched'.err = sched.err
      BY <1>5 DEF SchedInv, LoopInv, Generation
    <2>2. Looping'
      BY <1>2, <2>1 DEF Looping, Leased
    <2>3. ASSUME NEW s \in snap'.ready
          PROVE  s \in Steps /\ job[s].pc = "idle" /\ NoneQueued(s)
      <3>1. s \in Steps /\ job[s].pc = "idle"
        BY <1>5, <2>3 DEF Ready, InFlight
      <3>2. NoneQueued(s)
        BY <1>2, <1>5, <3>1 DEF NoneQueued, SlotsOf, OwnInv, QueuedIsHeld, Holding
      <3> QED
        BY <3>1, <3>2
    <2>4. JobsWhileLooping' /\ RestIsIdle' /\ ErrDrains' /\ BootFirst'
      BY <1>5, <2>1, <2>2 DEF JobsWhileLooping, RestIsIdle, ErrDrains, BootFirst
    <2>5. Reserved'
      <3>1. step' = step /\ attempt' = attempt
        BY DEF LoopTop, storeVars
      <3> QED
        BY <1>5, <2>3, <3>1 DEF OwnInv, Reserved, NoneQueued, SlotsOf
    <2> QED
      BY <1>1, <1>2, <1>5, <2>1, <2>2, <2>4, <2>5, OwnRead
  <1>6. CASE snap' = [blocked |-> {s \in Steps : Blocked(s)},
                      ready |-> Ready,
                      timed |-> {s \in Steps : Timed(s)},
                      room |-> Room,
                      settled |-> SettledStatus,
                      waiting |-> WaitingAttempts # {}]
    <2>1. snap'.ready = Ready
      BY <1>6
    <2> QED
      BY <1>3, <1>4, <1>5, <2>1 DEF LoopTop
  <1> QED
    BY <1>3, <1>4, <1>5, <1>6 DEF LoopTop


LEMMA SkipBlockedSafe ==
  ASSUME StoreInv, SchedInv, RowInv, OwnInv, SkipBlocked
  PROVE  RowInv' /\ OwnInv'
  <1>1. Looping /\ ~sched.boot /\ ~sched.err
    BY InLoop DEF SkipBlocked, OwnInv, ErrDrains
  <1>2. CASE LeaveLoop(TRUE) /\ UNCHANGED storeVars
    BY <1>2, StoreKept, OwnLeft DEF OwnInv, storeVars
  <1>3. ASSUME NEW s \in snap.blocked, CanTransitionStep(s, step[s].version),
               TransitionStep(s, "skipped"), Goto("loop"), snap' = NoSnapshot, job' = job
        PROVE  RowInv' /\ OwnInv'
    <2>1. s \in Steps
      BY DEF SchedInv, LoopInv, Snapshot
    <2>2. RowInv' /\ Calm /\ SettledIsEmpty'
      BY <1>3, <2>1, TransitionStepSafe
    <2>3. sched'.pc = "loop" /\ sched'.boot = sched.boot /\ sched'.err = sched.err
      BY <1>3, GotoFields
    <2>4. "loop" \in Leased \ {"recover", "rest"} /\ snap'.ready = {}
      BY <1>3 DEF Leased, NoSnapshot
    <2> QED
      BY <1>1, <1>3, <2>2, <2>3, <2>4, OwnGoto
  <1> QED
    BY <1>2, <1>3 DEF SkipBlocked

LEMMA DispatchSafe ==
  ASSUME StoreInv, SchedInv, RowInv, OwnInv, Dispatch
  PROVE  RowInv' /\ OwnInv'
  <1>1. RowInv' /\ Calm /\ SettledIsEmpty' /\ attempt' = attempt /\ step' = step
    BY StoreKept DEF Dispatch, OwnInv, storeVars
  <1>2. Looping /\ ~sched.boot /\ ~sched.err
    BY InLoop DEF Dispatch, OwnInv, ErrDrains
  <1>3. PICK pick \in SUBSET Due :
          /\ job' = [f \in Fibers |-> IF f \in pick THEN [Idle EXCEPT !.pc = "new"] ELSE job[f]]
          /\ IF InFlight \cup pick # {}
             THEN Goto("wait") /\ snap' = NoSnapshot
             ELSE Goto("rest") /\ UNCHANGED snap
    BY DEF Dispatch
  <1>4. pick \subseteq Steps /\ \A s \in pick : job[s].pc = "idle" /\ NoneQueued(s)
    BY ReadySteps DEF Due, OwnInv, Reserved
  <1>5. /\ \A s \in Steps : s \in pick => job'[s].pc = "new"
        /\ \A s \in Steps : s \notin pick => job'[s] = job[s]
    BY <1>3, InlineFiber DEF Idle
  <1>6. CASE InFlight \cup pick = {}
    <2>1. sched'.pc = "rest" /\ sched'.boot = sched.boot /\ sched'.err = sched.err
      BY <1>3, <1>6, GotoFields
    <2>2. \A s \in Steps : job[s].pc = "idle" /\ job'[s] = job[s]
      BY <1>5, <1>6 DEF InFlight
    <2>3. Looping'
      BY <1>2, <2>1 DEF Looping, Leased
    <2>4. JobsWhileLooping' /\ RestIsIdle' /\ ErrDrains' /\ BootFirst'
      BY <1>2, <2>1, <2>2, <2>3 DEF JobsWhileLooping, RestIsIdle, ErrDrains, BootFirst
    <2> QED
      BY <1>1, <1>2, <1>3, <1>6, <2>2, <2>4, OwnKept
  <1>7. CASE InFlight \cup pick # {}
    <2>1. sched'.pc = "wait" /\ sched'.boot = sched.boot /\ sched'.err = sched.err
      BY <1>3, <1>7, GotoFields
    <2>2. snap'.ready = {}
      BY <1>3, <1>7 DEF NoSnapshot
    <2>3. Looping'
      BY <1>2, <2>1 DEF Looping, Leased
    <2>4. JobsWhileLooping' /\ RestIsIdle' /\ ErrDrains' /\ BootFirst'
      BY <1>2, <2>1, <2>3 DEF JobsWhileLooping, RestIsIdle, ErrDrains, BootFirst
    <2>5. OwnSlot'
      BY <1>5 DEF OwnInv, OwnSlot
    <2>6. Reserved'
      BY <1>1, <1>4, <1>5, <2>2 DEF OwnInv, Reserved, NoneQueued, SlotsOf
    <2>7. QueuedIsHeld'
      <3>1. ASSUME NEW k \in Slots, attempt'[k].status = "queued"
            PROVE  job'[k[1]].k = k /\ job'[k[1]].pc \in Holding
        <4>1. k[1] \in Steps /\ k[1] \notin pick
          BY <1>1, <1>4, <3>1, SlotStep DEF NoneQueued, SlotsOf
        <4>2. job[k[1]].k = k /\ job[k[1]].pc \in Holding
          BY <1>1, <1>2, <3>1 DEF OwnInv, QueuedIsHeld
        <4> QED
          BY <1>5, <4>1, <4>2
      <3> QED
        BY <3>1 DEF QueuedIsHeld
    <2>8. HeldVersions' /\ StartedJob'
      <3>1. ASSUME NEW s \in Steps, job'[s].pc \in Holding \cup Started_
            PROVE  job'[s] = job[s]
        BY <1>5, <3>1 DEF Holding, Started_
      <3> QED
        BY <1>1, <3>1 DEF OwnInv, HeldVersions, StartedJob
    <2> QED
      BY <1>1, <2>4, <2>5, <2>6, <2>7, <2>8 DEF OwnInv
  <1> QED
    BY <1>1, <1>6, <1>7

LEMMA RestSafe ==
  ASSUME StoreInv, SchedInv, RowInv, OwnInv, Rest
  PROVE  RowInv' /\ OwnInv'
  <1>1. Looping /\ ~sched.boot /\ ~sched.err
    BY InLoop DEF Rest, OwnInv, ErrDrains
  <1>2. CASE LeaveLoop(TRUE) /\ UNCHANGED storeVars
    BY <1>2, StoreKept, OwnLeft DEF OwnInv, storeVars
  <1>3. CASE LeaveLoop(FALSE) /\ UNCHANGED storeVars
    BY <1>3, StoreKept, OwnLeft DEF OwnInv, storeVars
  <1>4. CASE snap.settled # "none" /\ UpdateStatus(snap.settled) /\ LeaveLoop(FALSE)
    <2>1. snap.settled \in TerminalExecution
      BY <1>4 DEF SchedInv, LoopInv, Snapshot
    <2>2. \A k \in Slots : attempt[k].status # "queued"
      <3>1. \A s \in Steps : job[s].pc = "idle"
        BY DEF Rest, OwnInv, RestIsIdle
      <3> QED
        BY <1>1, <3>1, SlotStep DEF OwnInv, QueuedIsHeld, Holding
    <2>3. snap.settled # "planning" /\ snap.settled # "paused"
      BY <2>1 DEF TerminalExecution
    <2>4. RowInv' /\ Calm /\ SettledIsEmpty'
      BY <1>4, <2>2, <2>3, UpdateStatusSafe
    <2> QED
      BY <1>4, <2>4, OwnLeft
  <1>5. ASSUME NEW pc \in {"sleep", "fail"}, Goto(pc), snap' = NoSnapshot,
               UNCHANGED <<storeVars, job, orphan>>
        PROVE  RowInv' /\ OwnInv'
    <2>1. RowInv' /\ Calm /\ SettledIsEmpty'
      BY <1>5, StoreKept DEF OwnInv, storeVars
    <2>2. sched'.pc = pc /\ sched'.boot = sched.boot /\ sched'.err = sched.err
      BY <1>5, GotoFields
    <2>3. pc \in Leased \ {"recover", "rest"} /\ snap'.ready = {}
      BY <1>5 DEF Leased, NoSnapshot
    <2> QED
      BY <1>1, <1>5, <2>1, <2>2, <2>3, OwnGoto
  <1> QED
    BY <1>2, <1>3, <1>4, <1>5 DEF Rest

\* The ways out of the loop, and the wake-up after a retry delay.
LEMMA LoopEndsSafe ==
  ASSUME StoreInv, SchedInv, RowInv, OwnInv, Wake \/ FailIfActive \/ WaitAborted
  PROVE  RowInv' /\ OwnInv'
  <1>1. CASE Wake
    <2>1. RowInv' /\ Calm /\ SettledIsEmpty'
      BY <1>1, StoreKept DEF Wake, OwnInv, storeVars
    <2>2. sched'.pc = "loop" /\ sched'.boot = sched.boot /\ sched'.err = sched.err
      BY <1>1, GotoFields DEF Wake
    <2>3. "loop" \in Leased \ {"recover", "rest"} /\ Looping
      BY <1>1, InLoop DEF Wake, Leased
    <2> QED
      BY <1>1, <2>1, <2>2, <2>3, OwnGoto DEF Wake
  <1>2. CASE FailIfActive
    <2>1. CASE FailActiveExecution
      <3>1. exec'.status = "failed"
        BY <2>1 DEF FailActiveExecution, WithStatus, StoreInv, StoreTypeOK, ExecutionRow
      <3>2. RowInv' /\ Calm /\ SettledIsEmpty'
        BY <2>1, <3>1, TerminateChildrenSafe DEF FailActiveExecution, TerminalExecution
      <3> QED
        BY <1>2, <3>2, OwnLeft DEF FailIfActive
    <2>2. CASE UNCHANGED storeVars
      BY <1>2, <2>2, StoreKept, OwnLeft DEF FailIfActive, OwnInv, storeVars
    <2> QED
      BY <1>2, <2>1, <2>2 DEF FailIfActive
  <1>3. CASE WaitAborted
    BY <1>3, StoreKept, OwnLeft DEF WaitAborted, OwnInv, storeVars
  <1> QED
    BY <1>1, <1>2, <1>3

LEMMA BackoffOverSafe ==
  ASSUME StoreInv, SchedInv, RowInv, OwnInv, BackoffOver
  PROVE  RowInv' /\ OwnInv'
  <1>1. \A s \in Steps : /\ step'[s].status = step[s].status
                         /\ step'[s].version = step[s].version
                         /\ step'[s].current = step[s].current
    BY DEF BackoffOver, StoreInv, StoreTypeOK, StepRow
  <1>2. UNCHANGED <<exec, attempt, sched, job>> /\ snap'.ready = snap.ready
    BY DEF BackoffOver, SchedInv, LoopInv, Snapshot
  <1>3. RowsAgree' /\ Dense' /\ ActiveIsLatest'
    BY <1>1, <1>2, SlotStep
    DEF RowInv, RowsAgree, HasActiveAttempt, Dense, ActiveIsLatest, LatestSlot
  <1>4. PlanningIsEmpty'
    BY <1>1, <1>2 DEF RowInv, PlanningIsEmpty, Current
  <1>5. PausedIsQuiet' /\ SettledIsEmpty'
    BY <1>2 DEF RowInv, PausedIsQuiet, OwnInv, SettledIsEmpty, Terminal
  <1>6. Calm
    BY <1>1, <1>2, SlotStep DEF Calm
  <1>7. OwnInv'
    BY <1>2, <1>5, <1>6, OwnFlags
  <1> QED
    BY <1>3, <1>4, <1>5, <1>7 DEF RowInv

LEMMA ClockStepSafe ==
  ASSUME StoreInv, SchedInv, RowInv, OwnInv, ClockStep
  PROVE  RowInv' /\ OwnInv'
  <1>1. CASE HeartbeatRenew \/ LeaseExpires
    <2>1. /\ exec'.status = exec.status /\ exec'.lease = exec.lease
          /\ UNCHANGED <<step, attempt, sched, snap, job>>
      BY <1>1 DEF HeartbeatRenew, RenewLease, LeaseExpires, schedVars, StoreInv, StoreTypeOK,
                  ExecutionRow
    <2>2. RowInv' /\ Calm /\ SettledIsEmpty'
      BY <2>1, LeaseSafe DEF OwnInv
    <2> QED
      BY <2>1, <2>2, OwnFlags
  <1>2. CASE HeartbeatLost
    <2>1. RowInv' /\ Calm /\ SettledIsEmpty'
      BY <1>2, StoreKept DEF HeartbeatLost, OwnInv, storeVars
    <2>2. sched'.pc = sched.pc /\ sched'.boot = sched.boot /\ sched'.err = sched.err
      BY <1>2 DEF HeartbeatLost, SchedInv, LoopInv, Generation
    <2> QED
      BY <1>2, <2>1, <2>2, OwnFlags DEF HeartbeatLost
  <1> QED
    BY <1>1, <1>2, BackoffOverSafe DEF ClockStep

-----------------------------------------------------------------------------
(* The actions of the futures.                                             *)

LEMMA PolledStep ==
  ASSUME SchedInv, OwnInv, NEW s \in Steps, Polled(s)
  PROVE  sched.pc = "wait" /\ Looping
  <1>1. sched.pc = "wait"
    BY InlineAssumption DEF Polled
  <1> QED
    BY <1>1, InLoop

LEMMA JobReadSafe ==
  ASSUME StoreInv, SchedInv, RowInv, OwnInv, NEW s \in Steps, JobRead(s)
  PROVE  RowInv' /\ OwnInv'
  <1>1. RowInv' /\ Calm /\ SettledIsEmpty' /\ attempt' = attempt /\ step' = step
    BY StoreKept DEF JobRead, OwnInv, storeVars
  <1>2. sched.pc = "wait" /\ Looping /\ job[s].pc = "new"
    BY PolledStep DEF JobRead
  <1>3. NoneQueued(s)
    BY <1>2 DEF OwnInv, Reserved
  <1>4. CASE Finish(s, TRUE)
    BY <1>1, <1>2, <1>4, OwnFinished
  <1>5. CASE Finish(s, FALSE)
    <2>1. \A k \in SlotsOf(s) : attempt'[k].status # "queued"
      BY <1>1, <1>3 DEF NoneQueued
    <2> QED
      BY <1>1, <1>2, <1>5, <2>1, OwnFinished
  <1>6. CASE /\ SetJob(s, [job[s] EXCEPT !.pc = "create", !.sv = step[s].version])
             /\ UNCHANGED <<sched, snap, orphan>>
    <2>1. /\ job'[s].pc = "create"
          /\ \A t \in Steps : t # s => job'[t] = job[t]
      <3>1. job[s] \in Job /\ job \in [Fibers -> Job] /\ s \in Fibers
        BY InlineFiber, JobOf DEF SchedInv, LoopInv
      <3> QED
        BY <1>6, <3>1, InlineFiber DEF SetJob, Job
    <2>2. Looping'
      BY <1>2, <1>6 DEF Looping
    <2>3. JobsWhileLooping' /\ RestIsIdle' /\ ErrDrains' /\ BootFirst'
      BY <1>2, <1>6, <2>2 DEF JobsWhileLooping, RestIsIdle, ErrDrains, BootFirst, OwnInv
    <2>4. OwnSlot'
      BY <2>1 DEF OwnInv, OwnSlot
    <2>5. Reserved'
      BY <1>1, <1>2, <1>3, <1>6, <2>1, ReadySteps DEF OwnInv, Reserved, NoneQueued, SlotsOf
    <2>6. QueuedIsHeld'
      <3>1. ASSUME NEW k \in Slots, attempt'[k].status = "queued", ~sched'.err
            PROVE  job'[k[1]].k = k /\ job'[k[1]].pc \in Holding
        <4>1. k[1] \in Steps /\ k[1] # s
          BY <1>1, <1>3, <3>1, SlotStep DEF NoneQueued, SlotsOf
        <4>2. job[k[1]].k = k /\ job[k[1]].pc \in Holding
          BY <1>1, <1>2, <1>6, <3>1 DEF OwnInv, QueuedIsHeld
        <4> QED
          BY <2>1, <4>1, <4>2
      <3> QED
        BY <3>1 DEF QueuedIsHeld
    <2>7. HeldVersions' /\ StartedJob'
      <3>1. ASSUME NEW t \in Steps, job'[t].pc \in Holding \cup Started_
            PROVE  job'[t] = job[t]
        BY <2>1, <3>1 DEF Holding, Started_
      <3> QED
        BY <1>1, <3>1 DEF OwnInv, HeldVersions, StartedJob
    <2> QED
      BY <1>1, <2>3, <2>4, <2>5, <2>6, <2>7 DEF OwnInv
  <1> QED
    BY <1>1, <1>4, <1>5, <1>6 DEF JobRead

\* create_attempt, by the job that reserved the step: the new attempt is in
\* its hands, and there was none in flight.
LEMMA JobCreateSafe ==
  ASSUME StoreInv, SchedInv, RowInv, OwnInv, NEW s \in Steps, JobCreate(s)
  PROVE  RowInv' /\ OwnInv'
  <1>1. sched.pc = "wait" /\ Looping /\ job[s].pc = "create"
    BY PolledStep DEF JobCreate
  <1>2. NoneQueued(s)
    BY <1>1 DEF OwnInv, Reserved
  <1>3. CASE Finish(s, TRUE) /\ UNCHANGED storeVars
    <2>1. RowInv' /\ Calm /\ SettledIsEmpty'
      BY <1>3, StoreKept DEF OwnInv, storeVars
    <2> QED
      BY <1>1, <1>3, <2>1, OwnFinished
  <1>4. ASSUME NEW k \in SlotsOf(s), CanCreateAttempt(s, job[s].sv), FreshSlot(k),
               CreateAttempt(k), UNCHANGED <<sched, snap, orphan>>,
               SetJob(s, [job[s] EXCEPT !.pc = "start", !.k = k, !.sv = @ + 1, !.av = 0])
        PROVE  RowInv' /\ OwnInv'
    <2>1. k \in Slots /\ k[1] = s /\ attempt[k].status = "absent"
      BY <1>4 DEF SlotsOf, FreshSlot
    <2>2. ~HasActiveAttempt(s)
      BY <1>2, <1>4
      DEF HasActiveAttempt, NoneQueued, SlotsOf, ActiveAttempt, CanCreateAttempt, RowInv, RowsAgree
    <2>3. /\ RowInv' /\ SettledIsEmpty'
          /\ attempt' = [attempt EXCEPT ![k] = [NoAttempt EXCEPT !.status = "queued"]]
          /\ attempt'[k].status = "queued" /\ attempt'[k].version = 0
          /\ step'[s].version = step[s].version + 1
          /\ \A t \in Steps : t # s => step'[t] = step[t]
      BY <1>4, <2>1, <2>2, CreateAttemptSafe
    <2>4. \A j \in Slots : j # k => attempt'[j] = attempt[j]
      BY <2>3 DEF StoreInv, StoreTypeOK
    <2>5. /\ job'[s].pc = "start" /\ job'[s].k = k /\ job'[s].sv = job[s].sv + 1
          /\ job'[s].av = 0
          /\ \A t \in Steps : t # s => job'[t] = job[t]
      <3>1. job[s] \in Job /\ job \in [Fibers -> Job] /\ s \in Fibers
        BY InlineFiber, JobOf DEF SchedInv, LoopInv
      <3> QED
        BY <1>4, <3>1, InlineFiber DEF SetJob, Job
    <2>6. step'[s].version = job'[s].sv
      BY <1>4, <2>3, <2>5 DEF CanCreateAttempt
    <2>7. Looping'
      BY <1>1, <1>4 DEF Looping
    <2>8. JobsWhileLooping' /\ RestIsIdle' /\ ErrDrains' /\ BootFirst'
      BY <1>1, <1>4, <2>7 DEF JobsWhileLooping, RestIsIdle, ErrDrains, BootFirst, OwnInv
    <2>9. OwnSlot'
      BY <2>1, <2>5 DEF OwnInv, OwnSlot
    <2>10. Reserved'
      <3>1. \A t \in Steps : t # s /\ NoneQueued(t) =>
                               \A j \in SlotsOf(t) : attempt'[j].status # "queued"
        BY <2>1, <2>4 DEF NoneQueued, SlotsOf
      <3>2. s \notin snap.ready
        BY <1>1 DEF OwnInv, Reserved
      <3> QED
        BY <1>4, <2>5, <3>1, <3>2, ReadySteps DEF OwnInv, Reserved, NoneQueued, SlotsOf
    <2>11. QueuedIsHeld'
      <3>1. ASSUME NEW j \in Slots, attempt'[j].status = "queued", ~sched'.err
            PROVE  job'[j[1]].k = j /\ job'[j[1]].pc \in Holding
        <4>1. CASE j = k
          BY <2>1, <2>5, <4>1 DEF Holding
        <4>2. CASE j # k
          <5>1. attempt[j].status = "queued" /\ j[1] \in Steps
            BY <2>4, <3>1, <4>2, SlotStep
          <5>2. job[j[1]].k = j /\ job[j[1]].pc \in Holding
            BY <1>1, <1>4, <3>1, <5>1 DEF OwnInv, QueuedIsHeld
          <5>3. j[1] # s
            BY <1>1, <5>2 DEF Holding
          <5> QED
            BY <2>5, <5>1, <5>2, <5>3
        <4> QED
          BY <4>1, <4>2
      <3> QED
        BY <3>1 DEF QueuedIsHeld
    <2>12. ASSUME NEW t \in Steps, t # s, job[t].pc \in Holding \cup Started_
           PROVE  /\ job'[t] = job[t] /\ step'[t] = step[t]
                  /\ attempt'[job[t].k] = attempt[job[t].k]
      <3>1. job[t].k \in Slots /\ job[t].k[1] = t
        BY <2>12, HeldSlot DEF OwnInv, OwnSlot, Holding, Started_
      <3> QED
        BY <2>1, <2>3, <2>4, <2>5, <2>12, <3>1
    <2>13. HeldVersions'
      <3>1. ASSUME NEW t \in Steps, job'[t].pc \in Holding
            PROVE  /\ attempt'[job'[t].k].status # "absent"
                   /\ attempt'[job'[t].k].status = "queued" =>
                        step'[t].version = job'[t].sv /\ attempt'[job'[t].k].version = job'[t].av
        <4>1. CASE t = s
          BY <2>3, <2>5, <2>6, <4>1
        <4>2. CASE t # s
          <5>1. job[t].pc \in Holding
            BY <2>5, <3>1, <4>2
          <5> QED
            BY <2>12, <4>2, <5>1 DEF OwnInv, HeldVersions
        <4> QED
          BY <4>1, <4>2
      <3> QED
        BY <3>1 DEF HeldVersions
    <2>14. StartedJob'
      <3>1. ASSUME NEW t \in Steps, job'[t].pc \in Started_
            PROVE  attempt'[job'[t].k].status \notin {"queued", "absent"}
        <4>1. t # s
          BY <2>5, <3>1 DEF Started_
        <4>2. job[t].pc \in Started_
          BY <2>5, <3>1, <4>1
        <4> QED
          BY <2>12, <4>1, <4>2 DEF OwnInv, StartedJob
      <3> QED
        BY <3>1 DEF StartedJob
    <2> QED
      BY <2>3, <2>8, <2>9, <2>10, <2>11, <2>13, <2>14 DEF OwnInv
  <1> QED
    BY <1>3, <1>4 DEF JobCreate

LEMMA JobStartSafe ==
  ASSUME StoreInv, SchedInv, RowInv, OwnInv, NEW s \in Steps, JobStart(s)
  PROVE  RowInv' /\ OwnInv'
  <1> DEFINE j == job[s]
  <1>1. j.pc = "start" /\ j.pc \in Holding \cup Started_ /\ UNCHANGED <<sched, snap>>
    BY DEF JobStart, Holding
  <1>2. j.k \in Slots /\ j \in Job
    BY <1>1, HeldSlot, InlineFiber, JobOf
  <1>3. CASE /\ CanStartAttempt(j.k, j.sv, j.av) /\ StartAttempt(j.k)
             /\ SetJob(s, [j EXCEPT !.pc = "claim", !.op = InitialTurn, !.sv = @ + 1, !.av = @ + 1])
    <2> DEFINE row == [j EXCEPT !.pc = "claim", !.op = InitialTurn, !.sv = @ + 1, !.av = @ + 1]
    <2>1. RowInv' /\ Calm /\ SettledIsEmpty'
      BY <1>2, <1>3, StartAttemptSafe
    <2>2. attempt'[j.k].status = "running"
      BY <1>2, <1>3, RowsOf DEF StartAttempt, SetAttempt, StoreInv, StoreTypeOK, AttemptRow
    <2>3. row.pc = "claim" /\ row.k = j.k
      BY <1>2 DEF Job
    <2>4. SetJob(s, row)
      BY <1>3
    <2> HIDE DEF j, row
    <2>5. row.pc \in Started_ /\ attempt'[row.k].status \notin {"queued", "absent"}
      BY <2>2, <2>3 DEF Started_
    <2> QED
      BY <1>1, <2>1, <2>3, <2>4, <2>5, OwnMoved DEF j
  <1>4. CASE SetJob(s, [j EXCEPT !.pc = "settle", !.out = "error"]) /\ UNCHANGED storeVars
    <2> DEFINE row == [j EXCEPT !.pc = "settle", !.out = "error"]
    <2>1. RowInv' /\ Calm /\ SettledIsEmpty'
      BY <1>4, StoreKept DEF OwnInv, storeVars
    <2>2. row.pc = "settle" /\ row.k = j.k /\ row.sv = j.sv /\ row.av = j.av
      BY <1>2 DEF Job
    <2>3. SetJob(s, row)
      BY <1>4
    <2> HIDE DEF j, row
    <2>4. row.pc \in Holding
      BY <2>2 DEF Holding
    <2> QED
      BY <1>1, <2>1, <2>2, <2>3, <2>4, OwnMoved DEF j
  <1> QED
    BY <1>3, <1>4 DEF JobStart

\* A delivery moves on and leaves the rows alone.
LEMMA OwnDelivering ==
  ASSUME SchedInv, RowInv, OwnInv, UNCHANGED <<exec, step, attempt>>, NEW s \in Steps, NEW row,
         SetJob(s, row), UNCHANGED <<sched, snap>>, job[s].pc \in {"claim", "launch", "await"},
         row.k = job[s].k,
         \/ row.pc \in {"launch", "await"}
         \/ row.pc = "settle" /\ row.sv = job[s].sv /\ row.av = job[s].av
  PROVE  RowInv' /\ OwnInv'
  <1>1. RowInv' /\ Calm /\ SettledIsEmpty'
    BY StoreKept DEF OwnInv
  <1>2. job[s].pc \in Started_ /\ attempt'[row.k].status \notin {"queued", "absent"}
    BY DEF OwnInv, StartedJob, Started_
  <1>3. CASE row.pc \in {"launch", "await"}
    BY <1>1, <1>2, <1>3, OwnMoved DEF Started_
  <1>4. CASE row.pc = "settle" /\ row.sv = job[s].sv /\ row.av = job[s].av
    BY <1>1, <1>2, <1>4, OwnMoved DEF Holding
  <1> QED
    BY <1>3, <1>4

LEMMA FiberCases == \A f \in Fibers : f = Inline \/ (f \in Steps /\ f # Inline)
  BY InlineAssumption DEF Fibers

LEMMA JobClaimSafe ==
  ASSUME StoreInv, SchedInv, RowInv, OwnInv, NEW f \in Fibers, JobClaim(f)
  PROVE  RowInv' /\ OwnInv'
  <1>1. UNCHANGED <<exec, step, attempt>> /\ job[f].pc = "claim" /\ job[f] \in Job
    BY JobOf DEF JobClaim, ClaimTurn, storeVars
  <1>2. RowInv' /\ Calm /\ SettledIsEmpty'
    BY <1>1, StoreKept DEF OwnInv
  <1>3. ASSUME NEW pc \in {"launch", "await"}, SetJob(f, [job[f] EXCEPT !.pc = pc]),
               UNCHANGED <<sched, snap, orphan>>
        PROVE  OwnInv'
    <2>1. [job[f] EXCEPT !.pc = pc].pc = pc /\ [job[f] EXCEPT !.pc = pc].k = job[f].k
      BY <1>1 DEF Job
    <2> QED
      BY <1>1, <1>2, <1>3, <2>1, FiberCases, OwnDelivering, OwnInline
  <1>4. CASE /\ SetJob(f, [job[f] EXCEPT !.pc = "settle", !.out = "error"])
             /\ f # Inline /\ UNCHANGED <<sched, snap, orphan>>
    <2> DEFINE row == [job[f] EXCEPT !.pc = "settle", !.out = "error"]
    <2>1. row.pc = "settle" /\ row.k = job[f].k /\ row.sv = job[f].sv /\ row.av = job[f].av
      BY <1>1 DEF Job
    <2>2. SetJob(f, row)
      BY <1>4
    <2> HIDE DEF row
    <2> QED
      BY <1>1, <1>4, <2>1, <2>2, FiberCases, OwnDelivering
  <1>5. CASE f = Inline /\ Finish(f, TRUE)
    BY <1>2, <1>5, OwnLeft DEF Finish
  <1> QED
    BY <1>2, <1>3, <1>4, <1>5 DEF JobClaim

LEMMA JobLaunchSafe ==
  ASSUME StoreInv, SchedInv, RowInv, OwnInv, NEW f \in Fibers, JobLaunch(f)
  PROVE  RowInv' /\ OwnInv'
  <1>1. UNCHANGED <<exec, step, attempt>> /\ job[f].pc = "launch" /\ job[f] \in Job
    BY JobOf DEF JobLaunch, FinishTurn, storeVars
  <1>2. RowInv' /\ Calm /\ SettledIsEmpty'
    BY <1>1, StoreKept DEF OwnInv
  <1>3. CASE SetJob(f, [job[f] EXCEPT !.pc = "await"]) /\ UNCHANGED <<sched, snap, orphan>>
    <2>1. /\ [job[f] EXCEPT !.pc = "await"].pc = "await"
          /\ [job[f] EXCEPT !.pc = "await"].k = job[f].k
      BY <1>1 DEF Job
    <2> QED
      BY <1>1, <1>2, <1>3, <2>1, FiberCases, OwnDelivering, OwnInline
  <1>4. CASE /\ SetJob(f, [job[f] EXCEPT !.pc = "settle", !.out = "error"])
             /\ f # Inline /\ UNCHANGED <<sched, snap, orphan>>
    <2> DEFINE row == [job[f] EXCEPT !.pc = "settle", !.out = "error"]
    <2>1. row.pc = "settle" /\ row.k = job[f].k /\ row.sv = job[f].sv /\ row.av = job[f].av
      BY <1>1 DEF Job
    <2>2. SetJob(f, row)
      BY <1>4
    <2> HIDE DEF row
    <2> QED
      BY <1>1, <1>4, <2>1, <2>2, FiberCases, OwnDelivering
  <1>5. CASE LeaveLoop(TRUE)
    BY <1>2, <1>5, OwnLeft
  <1> QED
    BY <1>2, <1>3, <1>4, <1>5 DEF JobLaunch

LEMMA JobAwaitSafe ==
  ASSUME StoreInv, SchedInv, RowInv, OwnInv, NEW f \in Fibers, JobAwait(f)
  PROVE  RowInv' /\ OwnInv'
  <1>1. /\ UNCHANGED <<exec, step, attempt>> /\ UNCHANGED <<sched, snap>>
        /\ job[f].pc = "await" /\ job[f] \in Job
    BY JobOf DEF JobAwait, storeVars
  <1>2. RowInv' /\ Calm /\ SettledIsEmpty'
    BY <1>1, StoreKept DEF OwnInv
  <1>3. PICK out : SetJob(f, [job[f] EXCEPT !.pc = "settle", !.out = out])
    BY DEF JobAwait
  <1> DEFINE row == [job[f] EXCEPT !.pc = "settle", !.out = out]
  <1>4. row.pc = "settle" /\ row.k = job[f].k /\ row.sv = job[f].sv /\ row.av = job[f].av
    BY <1>1 DEF Job
  <1>5. SetJob(f, row)
    BY <1>3
  <1> HIDE DEF row
  <1> QED
    BY <1>1, <1>2, <1>4, <1>5, FiberCases, OwnDelivering, OwnInline

\* What a job knows of an attempt of its step that is still queued: it is its
\* own, unchanged since it was created.
LEMMA QueuedIsOwn ==
  ASSUME StoreInv, SchedInv, RowInv, OwnInv, NEW s \in Steps, Looping, ~sched.err,
         NEW k \in SlotsOf(s), attempt[k].status = "queued"
  PROVE  /\ job[s].k = k /\ SameVersions(s) /\ LatestSlot(k) /\ ~Terminal
         /\ job[s].pc \in Holding
  <1>1. k \in Slots /\ k[1] = s
    BY DEF SlotsOf
  <1>2. job[s].k = k /\ job[s].pc \in Holding
    BY <1>1 DEF OwnInv, QueuedIsHeld
  <1>3. SameVersions(s)
    BY <1>1, <1>2 DEF SameVersions, OwnInv, HeldVersions
  <1>4. LatestSlot(k)
    BY <1>1 DEF RowInv, ActiveIsLatest, ActiveAttempt
  <1>5. ~Terminal
    BY <1>1 DEF OwnInv, SettledIsEmpty
  <1> QED
    BY <1>2, <1>3, <1>4, <1>5

\* A job that gives up leaves no queued attempt behind, unless it failed.
LEMMA JobDropped ==
  ASSUME StoreInv, SchedInv, RowInv, OwnInv, UNCHANGED storeVars, NEW f \in Fibers, Polled(f),
         NEW failed \in BOOLEAN, Finish(f, failed),
         f # Inline /\ ~failed =>
           \/ Terminal \/ attempt[job[f].k].status # "queued"
           \/ ~SameVersions(f) \/ ~LatestSlot(job[f].k)
  PROVE  RowInv' /\ OwnInv'
  <1>1. RowInv' /\ Calm /\ SettledIsEmpty' /\ attempt' = attempt
    BY StoreKept DEF OwnInv, storeVars
  <1>2. CASE f = Inline
    <2>1. sched.pc = "inline"
      BY <1>2 DEF Polled
    <2> QED
      BY <1>1, <1>2, <2>1, OwnInlineFinished
  <1>3. CASE f \in Steps /\ f # Inline
    <2>1. sched.pc = "wait" /\ Looping
      BY <1>3, PolledStep
    <2>2. ~failed /\ ~sched.err => \A k \in SlotsOf(f) : attempt'[k].status # "queued"
      BY <1>1, <1>3, <2>1, QueuedIsOwn
    <2> QED
      BY <1>1, <1>3, <2>1, <2>2, OwnFinished
  <1> QED
    BY <1>2, <1>3, FiberCases

LEMMA JobSettleSafe ==
  ASSUME StoreInv, SchedInv, RowInv, OwnInv, NEW f \in Fibers, JobSettle(f)
  PROVE  RowInv' /\ OwnInv'
  <1>1. UNCHANGED storeVars /\ Polled(f) /\ job[f].pc = "settle" /\ job[f] \in Job
    BY JobOf DEF JobSettle
  <1>2. CASE Finish(f, TRUE)
    BY <1>1, <1>2, JobDropped
  <1>3. CASE /\ Finish(f, FALSE)
             /\ \/ Terminal \/ attempt[job[f].k].status \notin {"queued", "running"}
                \/ ~SameVersions(f) /\ ~SameGeneration(f)
    BY <1>1, <1>3, JobDropped
  <1>4. ASSUME NEW psv, NEW pav, NEW out, UNCHANGED <<sched, snap, orphan>>,
               SetJob(f, [job[f] EXCEPT !.pc = "commit", !.psv = psv, !.pav = pav, !.out = out])
        PROVE  RowInv' /\ OwnInv'
    <2> DEFINE row == [job[f] EXCEPT !.pc = "commit", !.psv = psv, !.pav = pav, !.out = out]
    <2>1. row.pc = "commit" /\ row.k = job[f].k /\ row.sv = job[f].sv /\ row.av = job[f].av
      BY <1>1 DEF Job
    <2>2. SetJob(f, row)
      BY <1>4
    <2>3. RowInv' /\ Calm /\ SettledIsEmpty'
      BY <1>1, StoreKept DEF OwnInv, storeVars
    <2> HIDE DEF row
    <2>4. job[f].pc \in Holding /\ row.pc \in Holding
      BY <1>1, <2>1 DEF Holding
    <2> QED
      BY <1>4, <2>1, <2>2, <2>3, <2>4, FiberCases, OwnMoved, OwnInline
  <1> QED
    BY <1>2, <1>3, <1>4 DEF JobSettle

LEMMA CommitSafe ==
  ASSUME StoreInv, SchedInv, RowInv, OwnInv, NEW f \in Fibers, Polled(f),
         job[f].pc \in {"commit", "recommit"}, CanCommit(f), Commit(f)
  PROVE  RowInv' /\ OwnInv'
  <1> DEFINE k == job[f].k
             to == AttemptTo(job[f].out)
             stepTo == StepTo(job[f].out)
             after == RetryAt(job[f].out)
  <1>1. k \in Slots /\ job[f].out \in Verdict
    BY JobOf DEF WellFormedJob
  <1>2. to \in {"completed", "failed", "cancelled"} /\ stepTo \in {"completed", "failed", "pending"}
    BY <1>1 DEF Verdict, AttemptTo, StepTo
  <1>3. CanSettleAttempt(k, job[f].psv, job[f].pav, to) /\ SettleAttempt(k, to, stepTo, after)
    BY DEF CanCommit, Commit
  <1>4. attempt[k].status \in ActiveAttempt
    BY <1>3 DEF CanSettleAttempt
  <1> HIDE DEF to, stepTo, after
  <1>5. RowInv' /\ Calm /\ SettledIsEmpty' /\ attempt'[k].status # "queued"
    BY <1>1, <1>2, <1>3, SettleAttemptSafe
  <1>6. \A j \in SlotsOf(k[1]) : attempt'[j].status # "queued"
    <2>1. ASSUME NEW j \in SlotsOf(k[1]), attempt'[j].status = "queued"
          PROVE  FALSE
      <3>1. j # k /\ j \in Slots
        BY <1>5, <2>1 DEF SlotsOf
      <3>2. attempt[j].status = "queued"
        BY <1>5, <2>1, <3>1 DEF Calm
      <3> QED
        BY <1>1, <1>4, <3>1, <3>2, LatestIsOnly DEF RowInv, ActiveAttempt
    <2> QED
      BY <2>1
  <1>7. Finish(f, FALSE)
    BY DEF Commit
  <1>8. CASE f = Inline
    <2>1. sched.pc = "inline"
      BY <1>8 DEF Polled
    <2> QED
      BY <1>5, <1>7, <1>8, <2>1, OwnInlineFinished
  <1>9. CASE f \in Steps /\ f # Inline
    <2>1. sched.pc = "wait"
      BY <1>9, PolledStep
    <2>2. k[1] = f
      BY <1>9 DEF OwnInv, OwnSlot
    <2> QED
      BY <1>5, <1>6, <1>7, <1>9, <2>1, <2>2, OwnFinished
  <1> QED
    BY <1>8, <1>9, FiberCases

LEMMA JobCommitSafe ==
  ASSUME StoreInv, SchedInv, RowInv, OwnInv, NEW f \in Fibers, JobCommit(f)
  PROVE  RowInv' /\ OwnInv'
  <1>1. Polled(f) /\ job[f].pc = "commit" /\ job[f] \in Job
    BY JobOf DEF JobCommit
  <1>2. CASE CanCommit(f)
    BY <1>1, <1>2, CommitSafe DEF JobCommit
  <1>3. CASE ~CanCommit(f)
    <2> DEFINE row == [job[f] EXCEPT !.pc = "recheck"]
    <2>1. row.pc = "recheck" /\ row.k = job[f].k /\ row.sv = job[f].sv /\ row.av = job[f].av
      BY <1>1 DEF Job
    <2>2. SetJob(f, row) /\ UNCHANGED storeVars /\ UNCHANGED <<sched, snap>>
      BY <1>3 DEF JobCommit
    <2>3. RowInv' /\ Calm /\ SettledIsEmpty'
      BY <2>2, StoreKept DEF OwnInv, storeVars
    <2> HIDE DEF row
    <2>4. job[f].pc \in Holding /\ row.pc \in Holding
      BY <1>1, <2>1 DEF Holding
    <2> QED
      BY <2>1, <2>2, <2>3, <2>4, FiberCases, OwnMoved, OwnInline
  <1> QED
    BY <1>2, <1>3

LEMMA JobRecheckSafe ==
  ASSUME StoreInv, SchedInv, RowInv, OwnInv, NEW f \in Fibers, JobRecheck(f)
  PROVE  RowInv' /\ OwnInv'
  <1> DEFINE moved == ~SameVersions(f) \/ ~LatestSlot(job[f].k)
  <1>1. UNCHANGED storeVars /\ Polled(f) /\ job[f].pc = "recheck" /\ job[f] \in Job
    BY JobOf DEF JobRecheck
  <1>2. CASE Finish(f, ~moved)
    <2>1. PICK failed \in BOOLEAN : failed <=> ~moved
      OBVIOUS
    <2>2. failed = ~moved
      BY <2>1
    <2> HIDE DEF moved
    <2>3. Finish(f, failed)
      BY <1>2, <2>2
    <2>4. ~failed => ~SameVersions(f) \/ ~LatestSlot(job[f].k)
      BY <2>1 DEF moved
    <2> QED
      BY <1>1, <2>3, <2>4, JobDropped
  <1>3. ASSUME NEW psv, NEW pav, SameGeneration(f), UNCHANGED <<sched, snap, orphan>>,
               SetJob(f, [job[f] EXCEPT !.pc = "recommit", !.psv = psv, !.pav = pav])
        PROVE  RowInv' /\ OwnInv'
    <2> DEFINE row == [job[f] EXCEPT !.pc = "recommit", !.psv = psv, !.pav = pav]
    <2>1. row.pc = "recommit" /\ row.k = job[f].k
      BY <1>1 DEF Job
    <2>2. SetJob(f, row)
      BY <1>3
    <2>3. RowInv' /\ Calm /\ SettledIsEmpty' /\ attempt' = attempt
      BY <1>1, StoreKept DEF OwnInv, storeVars
    <2> HIDE DEF row
    <2>4. /\ job[f].pc \in Holding /\ row.pc \in Started_
          /\ attempt'[row.k].status \notin {"queued", "absent"}
      BY <1>1, <1>3, <2>1, <2>3 DEF Holding, Started_, SameGeneration
    <2> QED
      BY <1>3, <2>1, <2>2, <2>3, <2>4, FiberCases, OwnMoved, OwnInline
  <1> QED
    BY <1>2, <1>3 DEF JobRecheck

LEMMA JobRecommitSafe ==
  ASSUME StoreInv, SchedInv, RowInv, OwnInv, NEW f \in Fibers, JobRecommit(f)
  PROVE  RowInv' /\ OwnInv'
  <1>1. Polled(f) /\ job[f].pc = "recommit"
    BY DEF JobRecommit
  <1>2. CASE CanCommit(f)
    BY <1>1, <1>2, CommitSafe DEF JobRecommit
  <1>3. CASE ~CanCommit(f)
    BY <1>1, <1>3, JobDropped DEF JobRecommit
  <1> QED
    BY <1>2, <1>3

LEMMA SchedulerNextSafe ==
  ASSUME StoreInv, SchedInv, RowInv, OwnInv, SchedulerNext
  PROVE  RowInv' /\ OwnInv'
  <1>1. CASE LoopStep
    BY <1>1, AcquireSafe, PublishSafe, EffectReadSafe, EffectStopSafe, EffectSteerSafe,
       EffectAckSafe, RecoverSafe, LoopTopSafe, SkipBlockedSafe, DispatchSafe, RestSafe,
       LoopEndsSafe, ExitSafe, EndSafe DEF LoopStep
  <1>2. ASSUME NEW s \in Steps, DispatchStep(s)
        PROVE  RowInv' /\ OwnInv'
    BY <1>2, JobReadSafe, JobCreateSafe, JobStartSafe DEF DispatchStep
  <1>3. ASSUME NEW f \in Fibers, FiberStep(f)
        PROVE  RowInv' /\ OwnInv'
    BY <1>3, JobClaimSafe, JobLaunchSafe, JobAwaitSafe, JobSettleSafe, JobCommitSafe,
       JobRecheckSafe, JobRecommitSafe DEF FiberStep
  <1>4. CASE \/ \E k \in Slots : TurnStep(k)
             \/ \E a \in orphan : Abandon(a)
    <2>1. UNCHANGED <<exec, step, attempt>> /\ UNCHANGED <<sched, snap, job>>
      BY <1>4 DEF TurnStep, CleanupConversation, StopTurn, TurnEnds, Abandon, FinishTurn
    <2>2. RowInv' /\ Calm /\ SettledIsEmpty'
      BY <2>1, StoreKept DEF OwnInv
    <2> QED
      BY <2>1, <2>2, OwnFlags
  <1> QED
    BY <1>1, <1>2, <1>3, <1>4, ClockStepSafe DEF SchedulerNext

LEMMA CrashAndRestartSafe ==
  ASSUME StoreInv, SchedInv, RowInv, OwnInv, CrashAndRestart
  PROVE  RowInv' /\ OwnInv'
  <1>1. /\ exec'.status = exec.status /\ step' = step /\ attempt' = attempt
        /\ exec.lease = "none" => exec'.lease = "none"
    BY DEF CrashAndRestart, StoreInv, StoreTypeOK, ExecutionRow
  <1>2. RowInv' /\ Calm /\ SettledIsEmpty'
    BY <1>1, LeaseSafe DEF OwnInv
  <1>3. (\A s \in Steps : job'[s].pc = "idle") /\ snap'.ready = {}
    BY InlineFiber DEF CrashAndRestart, IdleJobs, Idle, NoSnapshot
  <1>4. sched'.pc \in {"off", "acquire"} /\ sched'.boot /\ ~sched'.err
    BY DEF CrashAndRestart, NewGeneration, NoGeneration
  <1>5. ~Looping' /\ ErrDrains' /\ BootFirst'
    BY <1>4 DEF Looping, ErrDrains, BootFirst
  <1> QED
    BY <1>2, <1>3, <1>5, OwnIdle

-----------------------------------------------------------------------------
(* The commands.                                                           *)

LEMMA CommittedSafe ==
  ASSUME SchedInv, OwnInv, Calm, SettledIsEmpty', NEW continuations, Committed(continuations)
  PROVE  OwnInv'
  <1>1. sched'.pc = sched.pc /\ sched'.boot = sched.boot /\ sched'.err = sched.err
    BY DEF Committed, StaleSnapshot, SchedInv, LoopInv, Generation
  <1> QED
    BY <1>1, OwnFlags DEF Committed

LEMMA IssueSafe ==
  ASSUME SchedInv, OwnInv, Calm, SettledIsEmpty', NEW command, NEW continuations,
         Issue(command, continuations)
  PROVE  OwnInv'
  BY CommittedSafe DEF Issue

LEMMA PlanningSafe ==
  ASSUME StoreInv, SchedInv, RowInv, OwnInv, Planning
  PROVE  RowInv' /\ OwnInv'
  <1>1. CASE PlanInitial
    <2>1. PICK plan \in Plans, status \in PlannedStatus :
            /\ CanReconcilePlan({}, plan) /\ ReconcilePlan({}, plan, status)
            /\ Committed(IF status = "running" THEN {Then("start")} ELSE {})
      BY <1>1 DEF PlanInitial
    <2>2. /\ status \in ExecutionStatus /\ status \notin TerminalExecution \cup {"planning"}
          /\ status # "paused"
      BY DEF PlannedStatus, ExecutionStatus, TerminalExecution
    <2>3. RowInv' /\ Calm /\ SettledIsEmpty'
      BY <2>1, <2>2, ReconcilePlanSafe
    <2> QED
      BY <2>1, <2>3, CommittedSafe
  <1>2. CASE PlanFails
    <2>1. \A k \in Slots : attempt[k].status # "queued"
      BY <1>2, SlotStep
      DEF PlanFails, RowInv, PlanningIsEmpty, Current, RowsAgree, ActiveAttempt
    <2>2. RowInv' /\ Calm /\ SettledIsEmpty'
      BY <1>2, <2>1, UpdateStatusSafe DEF PlanFails
    <2> QED
      BY <1>2, <2>2, CommittedSafe DEF PlanFails
  <1> QED
    BY <1>1, <1>2 DEF Planning

LEMMA ExecutionCommandSafe ==
  ASSUME StoreInv, SchedInv, RowInv, OwnInv, Approve \/ Pause \/ Resume \/ Cancel \/ Delete
  PROVE  RowInv' /\ OwnInv'
  <1>1. RowInv' /\ Calm /\ SettledIsEmpty'
    <2>1. CASE Approve
      BY <2>1, UpdateStatusSafe DEF Approve, TerminalExecution
    <2>2. CASE Pause
      BY <2>2, PauseExecutionSafe DEF Pause
    <2>3. CASE Resume
      BY <2>3, ResumeExecutionSafe DEF Resume
    <2>4. CASE Cancel
      <3>1. exec'.status = "cancelled"
        BY <2>4 DEF Cancel, CancelExecution, WithStatus, StoreInv, StoreTypeOK, ExecutionRow
      <3> QED
        BY <2>4, <3>1, TerminateChildrenSafe DEF Cancel, CancelExecution, TerminalExecution
    <2>5. CASE Delete
      <3>1. exec'.status = IF Terminal THEN exec.status ELSE "cancelled"
        BY <2>5 DEF Delete, DeleteExecution, WithStatus, StoreInv, StoreTypeOK, ExecutionRow
      <3>2. exec'.status \in TerminalExecution
        BY <3>1 DEF Terminal, TerminalExecution
      <3> QED
        BY <2>5, <3>2, TerminateChildrenSafe DEF Delete, DeleteExecution
    <2> QED
      BY <2>1, <2>2, <2>3, <2>4, <2>5
  <1> QED
    BY <1>1, IssueSafe DEF Approve, Pause, Resume, Cancel, Delete

LEMMA PlanCommandSafe ==
  ASSUME StoreInv, SchedInv, RowInv, OwnInv, Replan \/ Adjust
  PROVE  RowInv' /\ OwnInv'
  <1>1. RowInv' /\ Calm /\ SettledIsEmpty'
    <2>1. CASE Replan
      <3>1. PICK plan \in Plans, status \in PlannedStatus :
              CanReconcilePlan({}, plan) /\ ReconcilePlan({}, plan, status)
        BY <2>1 DEF Replan
      <3>2. /\ status \in ExecutionStatus /\ status \notin TerminalExecution \cup {"planning"}
            /\ status # "paused"
        BY DEF PlannedStatus, ExecutionStatus, TerminalExecution
      <3> QED
        BY <3>1, <3>2, ReconcilePlanSafe
    <2>2. CASE Adjust
      <3>1. PICK keep \in SUBSET Current, plan \in Plans :
              CanReconcilePlan(keep, plan) /\ ReconcilePlan(keep, plan, exec.status)
        BY <2>2 DEF Adjust
      <3>2. /\ exec.status \in ExecutionStatus
            /\ exec.status \notin TerminalExecution \cup {"planning"}
        BY <2>2 DEF Adjust, ExecutionStatus, TerminalExecution
      <3> QED
        BY <3>1, <3>2, ReconcilePlanSafe
    <2> QED
      BY <2>1, <2>2
  <1> QED
    BY <1>1, IssueSafe DEF Replan, Adjust

LEMMA StepCommandSafe ==
  ASSUME StoreInv, SchedInv, RowInv, OwnInv,
         \/ \E s \in Steps : Retry(s)
         \/ \E k \in Slots : Adopt(k) \/ Steer(k) \/ Answer(k) \/ RequestUserDecision(k)
  PROVE  RowInv' /\ OwnInv'
  <1>1. ASSUME NEW s \in Steps, Retry(s)
        PROVE  RowInv' /\ OwnInv'
    BY <1>1, ResetForRetrySafe, IssueSafe DEF Retry
  <1>2. ASSUME NEW k \in Slots, Adopt(k)
        PROVE  RowInv' /\ OwnInv'
    BY <1>2, AdoptOutputSafe, IssueSafe DEF Adopt
  <1>3. ASSUME NEW k \in Slots, Steer(k)
        PROVE  RowInv' /\ OwnInv'
    <2>1. RowInv' /\ Calm /\ SettledIsEmpty'
      BY <1>3, EffectSafe DEF Steer, CanEnqueueSteer, EnqueueSteer
    <2> QED
      BY <1>3, <2>1, IssueSafe DEF Steer
  <1>4. ASSUME NEW k \in Slots, Answer(k)
        PROVE  RowInv' /\ OwnInv'
    BY <1>4, ResumeWaitingSafe, IssueSafe DEF Answer
  <1>5. ASSUME NEW k \in Slots, RequestUserDecision(k)
        PROVE  RowInv' /\ OwnInv'
    BY <1>5, AskDecisionSafe, CommittedSafe DEF RequestUserDecision
  <1> QED
    BY <1>1, <1>2, <1>3, <1>4, <1>5

LEMMA ContinueSafe ==
  ASSUME TypeInv, RowInv, OwnInv, NEW p \in post, Continue(p)
  PROVE  RowInv' /\ OwnInv'
  <1>1. StoreInv /\ SchedInv /\ (p.do \in {"steer", "stop_turn", "ack"} => p.k \in Slots)
    BY DEF TypeInv, PostInv
  <1>2. CASE PostStart(p)
    <2>1. RowInv' /\ Calm /\ SettledIsEmpty'
      BY <1>2, StoreKept DEF PostStart, OwnInv, storeVars
    <2>2. UNCHANGED <<snap, job>>
      BY <1>2 DEF PostStart
    <2>3. CASE sched.pc = "off"
      <3>1. sched' = NewGeneration
        BY <1>2, <2>3 DEF PostStart, Started
      <3>2. sched'.pc = "acquire" /\ sched'.boot /\ ~sched'.err
        BY <3>1 DEF NewGeneration
      <3>3. ~Looping /\ ~Looping' /\ ErrDrains' /\ BootFirst' /\ sched'.pc # "rest"
        BY <2>3, <3>2 DEF Looping, ErrDrains, BootFirst, Leased
      <3> QED
        BY <1>1, <2>1, <2>2, <3>3, OwnOutside
    <2>4. CASE sched.pc # "off"
      <3>1. sched' = [sched EXCEPT !.restart = TRUE]
        BY <1>2, <2>4 DEF PostStart, Started
      <3>2. sched'.pc = sched.pc /\ sched'.boot = sched.boot /\ sched'.err = sched.err
        BY <1>1, <3>1 DEF SchedInv, LoopInv, Generation
      <3> QED
        BY <1>1, <2>1, <2>2, <3>2, OwnFlags
    <2> QED
      BY <2>3, <2>4
  <1>3. CASE PostStop(p)
    <2>1. RowInv' /\ Calm /\ SettledIsEmpty'
      BY <1>3, StoreKept DEF PostStop, OwnInv, storeVars
    <2>2. sched'.pc = sched.pc /\ sched'.boot = sched.boot /\ sched'.err = sched.err
      BY <1>1, <1>3 DEF PostStop, Stopped, SchedInv, LoopInv, Generation
    <2> QED
      BY <1>1, <1>3, <2>1, <2>2, OwnFlags DEF PostStop
  <1>4. CASE PostSteer(p) \/ PostStopTurn(p)
    <2>1. UNCHANGED <<exec, step, attempt>> /\ UNCHANGED <<sched, snap, job>>
      BY <1>4 DEF PostSteer, SteerTurn, PostStopTurn, StopTurn, storeVars, schedVars
    <2>2. RowInv' /\ Calm /\ SettledIsEmpty'
      BY <2>1, StoreKept DEF OwnInv
    <2> QED
      BY <1>1, <2>1, <2>2, OwnFlags
  <1>5. CASE PostAck(p)
    <2>1. RowInv' /\ Calm /\ SettledIsEmpty'
      <3>1. CASE CanAcknowledgeEffect(p.k, p.av)
        BY <1>1, <1>5, <3>1, AcknowledgeSafe DEF PostAck
      <3>2. CASE ~CanAcknowledgeEffect(p.k, p.av)
        BY <1>5, <3>2, StoreKept DEF PostAck, OwnInv, storeVars
      <3> QED
        BY <3>1, <3>2
    <2>2. sched'.pc = sched.pc /\ sched'.boot = sched.boot /\ sched'.err = sched.err
      BY <1>1, <1>5 DEF PostAck, StaleSnapshot, SchedInv, LoopInv, Generation
    <2> QED
      BY <1>1, <1>5, <2>1, <2>2, OwnFlags DEF PostAck
  <1> QED
    BY <1>2, <1>3, <1>4, <1>5 DEF Continue

-----------------------------------------------------------------------------
(* The theorems.                                                           *)

LEMMA InitSafe == Init => RowInv /\ OwnInv
  <1> SUFFICES ASSUME Init PROVE RowInv /\ OwnInv
    OBVIOUS
  <1>1. \A k \in Slots : attempt[k].status = "absent" /\ ~attempt[k].link
    BY DEF Init, StoreInit, NoAttempt
  <1>2. \A s \in Steps : step[s].status = "absent" /\ ~step[s].current
    BY DEF Init, StoreInit, NoStep
  <1>3. exec.status = "planning"
    BY DEF Init, StoreInit
  <1>4. RowInv
    BY <1>1, <1>2, <1>3
    DEF RowInv, RowsAgree, ActiveAttempt, Dense, ActiveIsLatest, PlanningIsEmpty, Current,
        PausedIsQuiet
  <1>5. (\A s \in Steps : job[s].pc = "idle") /\ snap.ready = {}
    BY InlineFiber DEF Init, SchedulerInit, IdleJobs, Idle, NoSnapshot
  <1>6. sched.pc = "off" /\ sched.boot /\ ~sched.err
    BY DEF Init, SchedulerInit, NoGeneration, NewGeneration
  <1>7. SettledIsEmpty
    BY <1>1 DEF SettledIsEmpty
  <1>8. OwnInv
    BY <1>1, <1>5, <1>6, <1>7
    DEF OwnInv, JobsWhileLooping, RestIsIdle, ErrDrains, BootFirst, OwnSlot, Reserved,
        QueuedIsHeld, HeldVersions, StartedJob, Holding, Started_
  <1> QED
    BY <1>4, <1>8

LEMMA NextSafe == SafeInv /\ [Next]_allVars => SafeInv'
  <1> SUFFICES ASSUME SafeInv, [Next]_allVars PROVE SafeInv'
    OBVIOUS
  <1>1. TypeInv /\ StoreInv /\ SchedInv /\ RowInv /\ OwnInv
    BY DEF SafeInv, TypeInv
  <1>2. CASE SchedulerNext /\ UNCHANGED post
    BY <1>1, <1>2, SchedulerNextSafe, NextTypeInv DEF SafeInv
  <1>3. CASE Planning
    BY <1>1, <1>3, PlanningSafe, NextTypeInv DEF SafeInv
  <1>4. CASE Command
    BY <1>1, <1>4, ExecutionCommandSafe, PlanCommandSafe, StepCommandSafe, NextTypeInv
    DEF SafeInv, Command
  <1>5. CASE \E p \in post : Continue(p)
    BY <1>1, <1>5, ContinueSafe, NextTypeInv DEF SafeInv
  <1>6. CASE CrashAndRestart /\ post' = {}
    BY <1>1, <1>6, CrashAndRestartSafe, NextTypeInv DEF SafeInv
  <1>7. CASE UNCHANGED allVars
    <2>1. UNCHANGED <<exec, step, attempt>> /\ UNCHANGED <<sched, snap, job>>
      BY <1>7 DEF allVars, vars, storeVars, schedVars
    <2>2. RowInv' /\ Calm /\ SettledIsEmpty'
      BY <1>1, <2>1, StoreKept DEF OwnInv
    <2>3. OwnInv'
      BY <1>1, <2>1, <2>2, OwnFlags
    <2> QED
      BY <1>1, <2>2, <2>3, NextTypeInv DEF SafeInv
  <1> QED
    BY <1>2, <1>3, <1>4, <1>5, <1>6, <1>7 DEF Next

LEMMA InitSafeInv == Init => SafeInv
  BY InitTypeInv, InitSafe DEF SafeInv

\* A step never has two attempts in flight, for any plan, parallelism and
\* retry policy and any interleaving of generations, commands and crashes:
\* create_attempt compares only the step's version, which a queued attempt
\* does not protect, yet the reservations of the loop and the recovery at the
\* start of a generation suffice.
THEOREM OneAttemptInFlight == Spec => []OneActiveAttempt
  <1>1. SafeInv => OneActiveAttempt
    <2> SUFFICES ASSUME SafeInv, NEW j \in Slots, NEW k \in Slots, j[1] = k[1],
                        attempt[j].status \in ActiveAttempt, attempt[k].status \in ActiveAttempt
                 PROVE  j = k
      BY DEF OneActiveAttempt
    <2> QED
      BY LatestIsOnly DEF SafeInv, TypeInv, RowInv, SlotsOf
  <1> QED
    BY <1>1, InitSafeInv, NextSafe, PTL DEF Spec

\* The step and attempt rows agree in every reachable state, whatever
\* transactions of the scheduler, of commands and of recovery interleave.
THEOREM RowsAlwaysAgree == Spec => []RowsAgree
  <1>1. SafeInv => RowsAgree
    BY DEF SafeInv, RowInv
  <1> QED
    BY <1>1, InitSafeInv, NextSafe, PTL DEF Spec

\* No queued attempt is forgotten or shared: while the loop runs without a
\* deferred error, the job of its step holds it.
THEOREM QueuedAlwaysOwned == Spec => []QueuedHasOwner
  <1>1. SafeInv => QueuedHasOwner
    BY InLoop DEF SafeInv, OwnInv, QueuedHasOwner, QueuedIsHeld
  <1> QED
    BY <1>1, InitSafeInv, NextSafe, PTL DEF Spec

\* A paused execution has no lease and nothing queued or running, although a
\* generation may still be unwinding and its turns may still run.
THEOREM PausedStaysQuiet == Spec => []PausedIsQuiet
  <1>1. SafeInv => PausedIsQuiet
    BY DEF SafeInv, RowInv
  <1> QED
    BY <1>1, InitSafeInv, NextSafe, PTL DEF Spec

=============================================================================
