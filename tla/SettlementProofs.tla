-------------------------- MODULE SettlementProofs --------------------------
(***************************************************************************)
(* How an execution settles, for every value of the constants: its status  *)
(* is the one its steps justify, its rows take only the documented moves,  *)
(* and a settled execution is reopened by users only.                      *)
(*                                                                         *)
(* The argument has two layers.  StoreMoves says what a transaction may do *)
(* to the rows, and every transaction is shown to do no more; it needs     *)
(* RowsInv of OwnershipProofs and a few facts about single rows.  GenInv   *)
(* says what the loop may believe: a snapshot it will act on still         *)
(* describes the steps, and a settlement pinned to an attempt version only *)
(* matches an attempt that is queued or running.                           *)
(***************************************************************************)
EXTENDS OwnershipProofs

-----------------------------------------------------------------------------
(* The inductive invariant.                                                *)

\* A retry time is set on pending steps of the plan only, and a step of the
\* plan exists.
StepSane(row) ==
  /\ row.dispatchAfter = "future" => row.status = "pending" /\ row.current
  /\ row.current => row.status # "absent"

\* Only an attempt that was parked is marked for review.
AttemptSane(row) == row.review => row.status \notin {"absent", "queued", "running"}

SaneRows ==
  /\ \A s \in Steps : StepSane(step[s])
  /\ \A k \in Slots : AttemptSane(attempt[k])

\* A step whose attempt is queued has no retry time ahead.
QueuedNoDelay ==
  \A k \in Slots : attempt[k].status = "queued" => step[k[1]].dispatchAfter # "future"

\* An execution that waits has a question or a review open.
WaitingAsks == exec.status = "waiting_input" => \E k \in Slots : attempt[k].status = "waiting_input"

SettleInv == SaneRows /\ QueuedNoDelay /\ WaitingAsks /\ SettledIsJustified

\* A settlement that was pinned to an attempt matches it only while it is
\* queued or running.
Committing == {"commit", "recommit"}
PinHolds(j) ==
  /\ attempt[j.k].status # "absent"
  /\ j.pav <= attempt[j.k].version
  /\ j.pav = attempt[j.k].version => attempt[j.k].status \in {"queued", "running"}
Pinned == \A f \in Fibers : job[f].pc \in Committing => PinHolds(job[f])

\* A snapshot whose aggregate version is current describes the steps.
Judging == sched.fresh /\ sched.pc \in {"effects", "pass", "rest"}
SnapTrue ==
  Judging => /\ \A s \in snap.blocked : step[s].status = "pending"
             /\ snap.settled = SettledStatus
BootStale == sched.boot => ~sched.fresh

GenInv == Pinned /\ SnapTrue /\ BootStale

-----------------------------------------------------------------------------
(* What a transaction may do.                                              *)

CanStep(from, to) == from = to \/ to \in Lifecycle!StepNext(from)
CanAttempt(from, to) == from = to \/ to \in Lifecycle!AttemptNext(from)
CanExecution(from, to) == from = to \/ to \in Lifecycle!ExecutionNext(from)

StepMoves(old, new) ==
  /\ CanStep(old.status, new.status)
  /\ StepSane(new)
  /\ new.dispatchAfter = "future" => new = old \/ new.version # old.version

\* Versions grow, and a status does not change under a version.  A mark for
\* review stays, and a link is made only when the attempt starts.
AttemptMoves(old, new) ==
  /\ CanAttempt(old.status, new.status)
  /\ AttemptSane(new)
  /\ old.status # "absent" => /\ new.version >= old.version
                              /\ new.version = old.version => new.status = old.status
  /\ old.review => new.review
  /\ new.link => old.link \/ old.status = "queued"

RowMoves ==
  /\ \A s \in Steps : StepMoves(step[s], step'[s])
  /\ \A k \in Slots : AttemptMoves(attempt[k], attempt'[k])

ReviewStays ==
  \A k \in Slots : attempt[k].review =>
    \/ attempt'[k].status = attempt[k].status
    \/ exec'.status \in TerminalExecution
    \/ ~step'[k[1]].current

StoreMoves ==
  /\ RowMoves
  /\ CanExecution(exec.status, exec'.status)
  /\ QueuedNoDelay' /\ WaitingAsks' /\ SettledIsJustified'
  /\ ReviewStays

\* What everyone but a user leaves alone.
Quiet == Terminal => exec'.status = exec.status /\ step' = step /\ attempt' = attempt

-----------------------------------------------------------------------------
(* Moves of single rows.                                                   *)

LEMMA StepTable ==
  /\ \A from : CanStep(from, from)
  /\ \A from \in StepStatus \ {"cancelled"} : CanStep(from, "pending")
  /\ CanStep("absent", "pending")
  /\ \A from \in {"pending", "running", "waiting_input", "failed", "skipped"} :
       CanStep(from, "completed")
  /\ \A from \in {"pending", "running", "waiting_input"} :
       CanStep(from, "failed") /\ CanStep(from, "cancelled") /\ CanStep(from, "running")
  /\ \A from \in {"running", "waiting_input"} : CanStep(from, "waiting_input")
  /\ CanStep("pending", "skipped")
  BY DEF CanStep, Lifecycle!StepNext, StepStatus

LEMMA AttemptTable ==
  /\ \A from : CanAttempt(from, from)
  /\ CanAttempt("absent", "queued") /\ CanAttempt("absent", "completed")
  /\ CanAttempt("queued", "running") /\ CanAttempt("running", "waiting_input")
  /\ CanAttempt("waiting_input", "running")
  /\ \A from \in {"running", "waiting_input"}, to \in {"completed", "failed", "interrupted"} :
       CanAttempt(from, to)
  /\ \A from \in ActiveAttempt : CanAttempt(from, "cancelled")
  BY DEF CanAttempt, Lifecycle!AttemptNext, Lifecycle!SettledAttempt, ActiveAttempt

LEMMA ExecutionTable ==
  /\ \A from : CanExecution(from, from)
  /\ \A from \in ActiveExecution : \A to \in {"waiting_input", "paused", "failed", "running"} :
       CanExecution(from, to)
  /\ \A from \in ExecutionStatus \ TerminalExecution :
       /\ CanExecution(from, "cancelled") /\ CanExecution(from, "failed")
       /\ CanExecution(from, "running") /\ CanExecution(from, "awaiting_approval")
  /\ \A from \in TerminalExecution \ {"cancelled"} : CanExecution(from, "running")
  /\ CanExecution("paused", "waiting_input")
  /\ \A to \in TerminalExecution : CanExecution("running", to)
  BY DEF CanExecution, Lifecycle!ExecutionNext, Lifecycle!SettledExecution, ActiveExecution,
         TerminalExecution, ExecutionStatus

\* A step row is written with a new version.
LEMMA StepWritten ==
  ASSUME NEW row \in StepRow, StepSane(row), NEW to \in StepStatus, CanStep(row.status, to),
         NEW after \in DispatchAfter, after = "future" => to = "pending" /\ row.current
  PROVE  StepMoves(row, [SetStep(row, to) EXCEPT !.dispatchAfter = after])
  <1> DEFINE new == [SetStep(row, to) EXCEPT !.dispatchAfter = after]
  <1>1. /\ new.status = to /\ new.current = row.current /\ new.dispatchAfter = after
        /\ new.version = row.version + 1 /\ row.version \in Nat
    BY DEF SetStep, StepRow
  <1>2. to # "absent"
    BY DEF StepStatus
  <1> HIDE DEF new
  <1>3. StepSane(new)
    BY <1>1, <1>2 DEF StepSane
  <1>4. new.version # row.version
    BY <1>1
  <1>5. StepMoves(row, new)
    BY <1>1, <1>3, <1>4 DEF StepMoves
  <1> QED
    BY <1>5 DEF new

\* The same, with the retry time it had.
LEMMA StepWrittenKept ==
  ASSUME NEW row \in StepRow, StepSane(row), NEW to \in StepStatus, CanStep(row.status, to),
         row.dispatchAfter # "future"
  PROVE  StepMoves(row, SetStep(row, to))
  <1>1. /\ SetStep(row, to).status = to /\ SetStep(row, to).current = row.current
        /\ SetStep(row, to).dispatchAfter = row.dispatchAfter
    BY DEF SetStep, StepRow
  <1>2. to # "absent"
    BY DEF StepStatus
  <1> QED
    BY <1>1, <1>2 DEF StepMoves, StepSane

LEMMA StepStays == ASSUME NEW row, StepSane(row) PROVE StepMoves(row, row)
  BY StepTable DEF StepMoves

LEMMA AttemptStays ==
  ASSUME NEW row \in AttemptRow, AttemptSane(row) PROVE AttemptMoves(row, row)
  <1>1. row.version >= row.version
    BY DEF AttemptRow
  <1> QED
    BY <1>1, AttemptTable DEF AttemptMoves

\* An attempt row is written with a new version.
LEMMA AttemptWritten ==
  ASSUME NEW row \in AttemptRow, NEW new, new.version = row.version + 1,
         CanAttempt(row.status, new.status), AttemptSane(new), row.review => new.review,
         new.link => row.link \/ row.status = "queued"
  PROVE  AttemptMoves(row, new)
  <1>1. new.version >= row.version /\ new.version # row.version
    BY DEF AttemptRow
  <1> QED
    BY <1>1 DEF AttemptMoves

\* An attempt ends.
LEMMA AttemptEnded ==
  ASSUME NEW row \in AttemptRow, AttemptSane(row), NEW to \in AttemptStatus,
         to \notin {"queued", "running"}, CanAttempt(row.status, to)
  PROVE  AttemptMoves(row, EndAttempt(row, to))
  <1>1. /\ EndAttempt(row, to).status = to /\ EndAttempt(row, to).version = row.version + 1
        /\ EndAttempt(row, to).review = row.review /\ EndAttempt(row, to).link = FALSE
    BY DEF EndAttempt, SetAttempt, AttemptRow
  <1>2. AttemptSane(EndAttempt(row, to))
    BY <1>1 DEF AttemptSane, AttemptStatus
  <1> QED
    BY <1>1, <1>2, AttemptWritten

\* One attempt and its step are written.
LEMMA PairMoved ==
  ASSUME StoreInv, SaneRows, NEW k \in Slots, NEW srow, NEW arow,
         step' = [step EXCEPT ![k[1]] = srow], attempt' = [attempt EXCEPT ![k] = arow],
         StepMoves(step[k[1]], srow), AttemptMoves(attempt[k], arow)
  PROVE  RowMoves
  <1>1. /\ k[1] \in Steps /\ step'[k[1]] = srow /\ attempt'[k] = arow
        /\ \A s \in Steps : s # k[1] => step'[s] = step[s]
        /\ \A j \in Slots : j # k => attempt'[j] = attempt[j]
    BY SlotStep DEF StoreInv, StoreTypeOK
  <1>2. \A s \in Steps : StepMoves(step[s], step'[s])
    BY <1>1, StepStays DEF SaneRows
  <1>3. \A j \in Slots : AttemptMoves(attempt[j], attempt'[j])
    BY <1>1, RowsOf, AttemptStays DEF SaneRows
  <1> QED
    BY <1>2, <1>3 DEF RowMoves

LEMMA SaneStep == ASSUME SaneRows, NEW k \in Slots
                  PROVE  StepSane(step[k[1]]) /\ AttemptSane(attempt[k])
  BY SlotStep DEF SaneRows

\* A transaction leaves no retry time ahead on the step of a queued attempt.
LEMMA NoDelayKept ==
  ASSUME RowMoves, Calm, QueuedNoDelay
  PROVE  QueuedNoDelay'
  <1> SUFFICES ASSUME NEW k \in Slots, attempt'[k].status = "queued",
                      step'[k[1]].dispatchAfter = "future"
               PROVE  FALSE
    BY DEF QueuedNoDelay
  <1>1. attempt[k].status = "queued" /\ step'[k[1]].version = step[k[1]].version
    BY DEF Calm
  <1>2. step'[k[1]] = step[k[1]]
    BY <1>1, SlotStep DEF RowMoves, StepMoves
  <1> QED
    BY <1>1, <1>2 DEF QueuedNoDelay

\* What a transaction on an active execution has to show.
LEMMA ActiveMoves ==
  ASSUME StoreInv, RowMoves, Calm, QueuedNoDelay, exec.status \in ActiveExecution,
         exec'.status \in ActiveExecution, WaitingAsks', ReviewStays
  PROVE  StoreMoves /\ Quiet
  <1>1. CanExecution(exec.status, exec'.status)
    BY ExecutionTable DEF ActiveExecution
  <1>2. ~Terminal /\ ~Terminal' /\ exec'.status # "completed"
    BY DEF Terminal, ActiveExecution, TerminalExecution
  <1> QED
    BY <1>1, <1>2, NoDelayKept DEF StoreMoves, SettledIsJustified, Quiet

-----------------------------------------------------------------------------
(* Transactions on one attempt and its step.                               *)

LEMMA OneReview ==
  ASSUME StoreInv, NEW k \in Slots, NEW arow, attempt' = [attempt EXCEPT ![k] = arow],
         attempt[k].review => arow.status = attempt[k].status
  PROVE  ReviewStays
  <1>1. attempt'[k] = arow /\ \A j \in Slots : j # k => attempt'[j] = attempt[j]
    BY DEF StoreInv, StoreTypeOK
  <1> QED
    BY <1>1 DEF ReviewStays

LEMMA OneWaiting ==
  ASSUME StoreInv, WaitingAsks, NEW k \in Slots, NEW arow,
         attempt' = [attempt EXCEPT ![k] = arow],
         attempt[k].status = "waiting_input" => arow.status = "waiting_input",
         exec'.status = "waiting_input" =>
           exec.status = "waiting_input" \/ arow.status = "waiting_input"
  PROVE  WaitingAsks'
  <1>1. attempt'[k] = arow /\ \A j \in Slots : j # k => attempt'[j] = attempt[j]
    BY DEF StoreInv, StoreTypeOK
  <1> QED
    BY <1>1 DEF WaitingAsks

LEMMA StartAttemptMoves ==
  ASSUME StoreInv, RowInv, SettleInv, NEW k \in Slots, NEW sv, NEW av,
         CanStartAttempt(k, sv, av), StartAttempt(k)
  PROVE  StoreMoves /\ Quiet
  <1> DEFINE srow == SetStep(step[k[1]], "running")
             arow == [SetAttempt(attempt[k], "running") EXCEPT !.link = TRUE]
  <1>1. /\ step' = [step EXCEPT ![k[1]] = srow] /\ attempt' = [attempt EXCEPT ![k] = arow]
        /\ attempt[k].status = "queued" /\ step[k[1]].status = "pending"
        /\ exec' = exec /\ exec.status \in ActiveExecution
    BY DEF CanStartAttempt, StartAttempt, SchedulerFence, Active
  <1>2. /\ arow.status = "running" /\ arow.version = attempt[k].version + 1
        /\ arow.review = attempt[k].review
    BY RowsOf DEF SetAttempt, AttemptRow
  <1>3. ~attempt[k].review
    BY <1>1, SaneStep DEF SettleInv, AttemptSane
  <1>4. StepMoves(step[k[1]], srow)
    <2>1. "running" \in StepStatus /\ CanStep("pending", "running")
      BY StepTable DEF StepStatus
    <2>2. step[k[1]].dispatchAfter # "future"
      BY <1>1 DEF SettleInv, QueuedNoDelay
    <2> QED
      BY <1>1, <2>1, <2>2, RowsOf, SaneStep, StepWrittenKept DEF SettleInv
  <1> HIDE DEF srow, arow
  <1>5. AttemptMoves(attempt[k], arow)
    BY <1>1, <1>2, <1>3, RowsOf, AttemptTable, AttemptWritten DEF AttemptSane
  <1>6. RowMoves
    BY <1>1, <1>4, <1>5, PairMoved DEF SettleInv
  <1>7. WaitingAsks' /\ ReviewStays
    BY <1>1, <1>3, OneReview, OneWaiting DEF SettleInv
  <1>8. Calm
    BY StartAttemptSafe
  <1> QED
    BY <1>1, <1>6, <1>7, <1>8, ActiveMoves DEF SettleInv

LEMMA SettleAttemptMoves ==
  ASSUME StoreInv, RowInv, SettleInv, NEW k \in Slots, NEW sv, NEW av,
         NEW to \in {"completed", "failed", "cancelled"},
         NEW stepTo \in {"completed", "failed", "pending"}, NEW after \in DispatchAfter,
         attempt[k].status \in {"queued", "running"},
         after = "future" => stepTo = "pending",
         to = "cancelled" => stepTo # "completed",
         CanSettleAttempt(k, sv, av, to), SettleAttempt(k, to, stepTo, after)
  PROVE  StoreMoves /\ Quiet
  <1> DEFINE srow == [SetStep(step[k[1]], stepTo) EXCEPT !.dispatchAfter = after]
             arow == [EndAttempt(attempt[k], to) EXCEPT !.effects = <<>>, !.review = FALSE]
  <1>1. /\ step' = [step EXCEPT ![k[1]] = srow] /\ attempt' = [attempt EXCEPT ![k] = arow]
        /\ exec' = exec /\ exec.status \in ActiveExecution /\ step[k[1]].current
        /\ attempt[k].status = "queued" => to = "cancelled"
    BY DEF CanSettleAttempt, SettleAttempt, SchedulerFence, Active
  <1>2. /\ arow.status = to /\ arow.version = attempt[k].version + 1
        /\ arow.review = FALSE /\ arow.link = FALSE
    BY RowsOf DEF EndAttempt, SetAttempt, AttemptRow
  <1>3. ~attempt[k].review
    BY SaneStep DEF SettleInv, AttemptSane
  <1>4. StepMoves(step[k[1]], srow)
    <2>1. step[k[1]].status = IF attempt[k].status = "queued" THEN "pending" ELSE "running"
      BY DEF RowInv, RowsAgree
    <2>2. stepTo \in StepStatus /\ CanStep(step[k[1]].status, stepTo)
      BY <2>1, StepTable DEF StepStatus
    <2> QED
      BY <1>1, <2>2, RowsOf, SaneStep, StepWritten DEF SettleInv
  <1> HIDE DEF srow, arow
  <1>5. CanAttempt(attempt[k].status, to)
    BY <1>1, AttemptTable DEF ActiveAttempt
  <1>6. AttemptMoves(attempt[k], arow)
    BY <1>2, <1>3, <1>5, RowsOf, AttemptWritten DEF AttemptSane
  <1>7. RowMoves
    BY <1>1, <1>4, <1>6, PairMoved DEF SettleInv
  <1>8. WaitingAsks' /\ ReviewStays
    BY <1>1, <1>3, OneReview, OneWaiting DEF SettleInv
  <1>9. Calm
    BY SettleAttemptSafe
  <1> QED
    BY <1>1, <1>7, <1>8, <1>9, ActiveMoves DEF SettleInv

LEMMA AskDecisionMoves ==
  ASSUME StoreInv, RowInv, SettleInv, NEW k \in Slots, attempt[k].status = "running",
         step[k[1]].current, Active, AskDecision(k)
  PROVE  StoreMoves /\ Quiet
  <1> DEFINE srow == SetStep(step[k[1]], "waiting_input")
             arow == [SetAttempt(attempt[k], "waiting_input") EXCEPT
                        !.effects = <<"stop_turn">>, !.review = FALSE]
  <1>1. step' = [step EXCEPT ![k[1]] = srow] /\ attempt' = [attempt EXCEPT ![k] = arow]
    BY DEF AskDecision
  <1>2. exec.status \in ActiveExecution /\ exec'.status \in ActiveExecution
    BY DEF AskDecision, WithStatus, Active, ActiveExecution, StoreInv, StoreTypeOK, ExecutionRow
  <1>3. /\ arow.status = "waiting_input" /\ arow.version = attempt[k].version + 1
        /\ arow.review = FALSE /\ arow.link = attempt[k].link
    BY RowsOf DEF SetAttempt, AttemptRow
  <1>4. ~attempt[k].review
    BY SaneStep DEF SettleInv, AttemptSane
  <1>5. StepMoves(step[k[1]], srow)
    <2>1. step[k[1]].status = "running" /\ step[k[1]].dispatchAfter # "future"
      BY SaneStep DEF RowInv, RowsAgree, SettleInv, StepSane
    <2>2. "waiting_input" \in StepStatus /\ CanStep("running", "waiting_input")
      BY StepTable DEF StepStatus
    <2> QED
      BY <2>1, <2>2, RowsOf, SaneStep, StepWrittenKept DEF SettleInv
  <1> HIDE DEF srow, arow
  <1>6. AttemptMoves(attempt[k], arow)
    <2>1. AttemptSane(arow) /\ CanAttempt(attempt[k].status, arow.status)
      BY <1>3, AttemptTable DEF AttemptSane
    <2>2. arow.link => attempt[k].link
      BY <1>3
    <2> QED
      BY <1>3, <1>4, <2>1, <2>2, RowsOf, AttemptWritten
  <1>7. RowMoves
    BY <1>1, <1>5, <1>6, PairMoved DEF SettleInv
  <1>8. WaitingAsks' /\ ReviewStays
    BY <1>1, <1>3, <1>4, OneReview, OneWaiting DEF SettleInv
  <1>9. Calm
    BY AskDecisionSafe
  <1> QED
    BY <1>2, <1>7, <1>8, <1>9, ActiveMoves DEF SettleInv

\* Effects are enqueued and acknowledged.
LEMMA EffectMoves ==
  ASSUME StoreInv, RowInv, SettleInv, NEW k \in Slots, Active,
         attempt[k].status \in {"running", "waiting_input"}, NEW rest,
         attempt' = [attempt EXCEPT ![k] = [SetAttempt(@, @.status) EXCEPT !.effects = rest]],
         step' = step, exec' = exec
  PROVE  StoreMoves /\ Quiet
  <1> DEFINE arow == [SetAttempt(attempt[k], attempt[k].status) EXCEPT !.effects = rest]
             srow == step[k[1]]
  <1>1. /\ step' = [step EXCEPT ![k[1]] = srow] /\ attempt' = [attempt EXCEPT ![k] = arow]
        /\ exec.status \in ActiveExecution
    BY SlotStep DEF Active, StoreInv, StoreTypeOK
  <1>2. /\ arow.status = attempt[k].status /\ arow.version = attempt[k].version + 1
        /\ arow.review = attempt[k].review /\ arow.link = attempt[k].link
    BY RowsOf DEF SetAttempt, AttemptRow
  <1>3. StepMoves(step[k[1]], srow)
    BY SaneStep, StepStays DEF SettleInv
  <1> HIDE DEF srow, arow
  <1>4. AttemptMoves(attempt[k], arow)
    <2>1. AttemptSane(arow) /\ CanAttempt(attempt[k].status, arow.status)
      BY <1>2, AttemptTable, SaneStep DEF AttemptSane, SettleInv
    <2> QED
      BY <1>2, <2>1, RowsOf, AttemptWritten
  <1>5. RowMoves
    BY <1>1, <1>3, <1>4, PairMoved DEF SettleInv
  <1>6. WaitingAsks' /\ ReviewStays
    BY <1>1, <1>2, OneReview, OneWaiting DEF SettleInv
  <1>7. Calm
    BY EffectSafe
  <1> QED
    BY <1>1, <1>5, <1>6, <1>7, ActiveMoves DEF SettleInv

LEMMA ResumeWaitingMoves ==
  ASSUME StoreInv, RowInv, SettleInv, NEW k \in Slots, CanAnswer(k), ResumeWaitingAttempt(k)
  PROVE  StoreMoves /\ Quiet
  <1> DEFINE srow == SetStep(step[k[1]], "running")
             arow == AnsweredAttempt(attempt[k])
  <1>1. /\ step' = [step EXCEPT ![k[1]] = srow] /\ attempt' = [attempt EXCEPT ![k] = arow]
        /\ attempt[k].status = "waiting_input" /\ ~attempt[k].review
        /\ step[k[1]].status = "waiting_input" /\ exec.status \in ActiveExecution
    BY DEF CanAnswer, ResumeWaitingAttempt, Active
  <1>2. exec'.status = IF WaitingAttempts \ {k} = {} THEN "running" ELSE "waiting_input"
    BY DEF ResumeWaitingAttempt, StoreInv, StoreTypeOK, ExecutionRow
  <1>3. /\ arow.status = "running" /\ arow.version = attempt[k].version + 1
        /\ arow.review = FALSE /\ arow.link = attempt[k].link
    BY RowsOf DEF AnsweredAttempt, SetAttempt, AttemptRow
  <1>4. StepMoves(step[k[1]], srow)
    <2>1. step[k[1]].dispatchAfter # "future"
      BY <1>1, SaneStep DEF SettleInv, StepSane
    <2>2. "running" \in StepStatus /\ CanStep("waiting_input", "running")
      BY StepTable DEF StepStatus
    <2> QED
      BY <1>1, <2>1, <2>2, RowsOf, SaneStep, StepWrittenKept DEF SettleInv
  <1> HIDE DEF srow, arow
  <1>5. AttemptMoves(attempt[k], arow)
    <2>1. AttemptSane(arow) /\ CanAttempt(attempt[k].status, arow.status)
      BY <1>1, <1>3, AttemptTable DEF AttemptSane
    <2>2. arow.link => attempt[k].link
      BY <1>3
    <2> QED
      BY <1>1, <1>3, <2>1, <2>2, RowsOf, AttemptWritten
  <1>6. RowMoves
    BY <1>1, <1>4, <1>5, PairMoved DEF SettleInv
  <1>7. WaitingAsks'
    <2>1. \A j \in Slots : j # k => attempt'[j] = attempt[j]
      BY <1>1 DEF StoreInv, StoreTypeOK
    <2>2. exec'.status = "waiting_input" => \E j \in Slots : j # k /\ attempt[j].status = "waiting_input"
      BY <1>2 DEF WaitingAttempts
    <2> QED
      BY <2>1, <2>2 DEF WaitingAsks
  <1>8. ReviewStays /\ Calm
    BY <1>1, OneReview, ResumeWaitingSafe
  <1>9. exec'.status \in ActiveExecution
    BY <1>2 DEF ActiveExecution
  <1> QED
    BY <1>1, <1>6, <1>7, <1>8, <1>9, ActiveMoves DEF SettleInv

\* create_attempt.
LEMMA CreateAttemptMoves ==
  ASSUME StoreInv, RowInv, SettleInv, NEW k \in Slots, NEW sv, CanCreateAttempt(k[1], sv),
         FreshSlot(k), ~HasActiveAttempt(k[1]), CreateAttempt(k)
  PROVE  StoreMoves /\ Quiet
  <1> DEFINE srow == [SetStep(step[k[1]], "pending") EXCEPT !.dispatchAfter = "none"]
             arow == [NoAttempt EXCEPT !.status = "queued"]
  <1>1. /\ step' = [step EXCEPT ![k[1]] = srow] /\ attempt' = [attempt EXCEPT ![k] = arow]
        /\ attempt[k].status = "absent" /\ step[k[1]].status = "pending"
        /\ exec' = exec /\ exec.status \in ActiveExecution
    BY DEF CanCreateAttempt, CreateAttempt, SchedulerFence, Active, FreshSlot
  <1>2. arow.status = "queued" /\ arow.review = FALSE /\ arow.link = FALSE
    BY DEF NoAttempt
  <1>3. ~attempt[k].review
    BY <1>1, SaneStep DEF SettleInv, AttemptSane
  <1>4. StepMoves(step[k[1]], srow)
    <2>1. "pending" \in StepStatus /\ "none" \in DispatchAfter /\ CanStep("pending", "pending")
      BY StepTable DEF StepStatus, DispatchAfter
    <2> QED
      BY <1>1, <2>1, RowsOf, SaneStep, StepWritten DEF SettleInv
  <1>5. srow.dispatchAfter = "none"
    BY RowsOf DEF SetStep, StepRow
  <1> HIDE DEF srow, arow
  <1>6. AttemptMoves(attempt[k], arow)
    BY <1>1, <1>2, <1>3, AttemptTable DEF AttemptMoves, AttemptSane
  <1>7. RowMoves
    BY <1>1, <1>4, <1>6, PairMoved DEF SettleInv
  <1>8. WaitingAsks' /\ ReviewStays
    BY <1>1, <1>3, OneReview, OneWaiting DEF SettleInv
  <1>9. QueuedNoDelay'
    <2>1. /\ step'[k[1]] = srow /\ \A s \in Steps : s # k[1] => step'[s] = step[s]
          /\ \A j \in Slots : j # k => attempt'[j] = attempt[j]
      BY <1>1, SlotStep DEF StoreInv, StoreTypeOK
    <2> QED
      BY <1>5, <2>1, SlotStep DEF SettleInv, QueuedNoDelay
  <1>10. CanExecution(exec.status, exec'.status)
    BY <1>1, ExecutionTable
  <1>11. ~Terminal /\ ~Terminal' /\ exec'.status # "completed"
    BY <1>1 DEF Terminal, ActiveExecution, TerminalExecution
  <1> QED
    BY <1>7, <1>8, <1>9, <1>10, <1>11 DEF StoreMoves, SettledIsJustified, Quiet

LEMMA TransitionStepMoves ==
  ASSUME StoreInv, RowInv, SettleInv, NEW s \in Steps, NEW sv, CanTransitionStep(s, sv),
         step[s].status = "pending", TransitionStep(s, "skipped")
  PROVE  StoreMoves /\ Quiet
  <1> DEFINE srow == [SetStep(step[s], "skipped") EXCEPT !.dispatchAfter = "none"]
  <1>1. /\ step' = [step EXCEPT ![s] = srow] /\ attempt' = attempt
        /\ exec' = exec /\ exec.status \in ActiveExecution
    BY DEF CanTransitionStep, TransitionStep, SchedulerFence, Active
  <1>2. StepMoves(step[s], srow)
    <2>1. "skipped" \in StepStatus /\ "none" \in DispatchAfter /\ CanStep("pending", "skipped")
      BY StepTable DEF StepStatus, DispatchAfter
    <2>2. step[s] \in StepRow /\ StepSane(step[s])
      BY DEF StoreInv, StoreTypeOK, SettleInv, SaneRows
    <2> QED
      BY <2>1, <2>2, StepWritten
  <1> HIDE DEF srow
  <1>3. step'[s] = srow /\ \A t \in Steps : t # s => step'[t] = step[t]
    BY <1>1 DEF StoreInv, StoreTypeOK
  <1>4. RowMoves
    <2>1. \A t \in Steps : StepMoves(step[t], step'[t])
      BY <1>2, <1>3, StepStays DEF SettleInv, SaneRows
    <2>2. \A k \in Slots : AttemptMoves(attempt[k], attempt'[k])
      BY <1>1, RowsOf, AttemptStays DEF SettleInv, SaneRows
    <2> QED
      BY <2>1, <2>2 DEF RowMoves
  <1>5. WaitingAsks' /\ ReviewStays
    BY <1>1 DEF SettleInv, WaitingAsks, ReviewStays
  <1>6. Calm
    BY TransitionStepSafe
  <1> QED
    BY <1>1, <1>4, <1>5, <1>6, ActiveMoves DEF SettleInv

LEMMA ReconciledMoves ==
  ASSUME StoreInv, SaneRows, NEW k \in Slots, attempt[k].status = "running",
         step[k[1]].status = "running"
  PROVE  /\ StepMoves(step[k[1]], ReconciledStep(k))
         /\ AttemptMoves(attempt[k], ReconciledAttempt(k))
         /\ ReconciledAttempt(k).status = ReconciledStatus(k)
  <1> DEFINE to == ReconciledStatus(k)
  <1>1. PICK flag \in BOOLEAN : flag = ~Adoptable(k)
    OBVIOUS
  <1>2. to \in {"completed", "failed", "waiting_input"} /\ (flag = TRUE => to = "waiting_input")
    BY <1>1, ReconciledStatusType DEF ReconciledStatus
  <1>3. ReconciledAttempt(k) = [EndAttempt(attempt[k], to) EXCEPT !.effects = <<>>, !.review = flag]
    BY <1>1 DEF ReconciledAttempt
  <1>4. ReconciledStep(k) = [SetStep(step[k[1]], to) EXCEPT !.dispatchAfter = "none"]
    BY DEF ReconciledStep
  <1> HIDE DEF to
  <1> DEFINE arow == [EndAttempt(attempt[k], to) EXCEPT !.effects = <<>>, !.review = flag]
  <1>5. /\ arow.status = to /\ arow.link = FALSE
        /\ arow.review = flag /\ arow.version = attempt[k].version + 1
    BY RowsOf DEF EndAttempt, SetAttempt, AttemptRow
  <1> HIDE DEF arow
  <1>6. AttemptMoves(attempt[k], arow)
    <2>1. AttemptSane(arow) /\ CanAttempt(attempt[k].status, arow.status)
      BY <1>2, <1>5, AttemptTable DEF AttemptSane
    <2>2. ~attempt[k].review
      BY SaneStep DEF AttemptSane
    <2> QED
      BY <1>5, <2>1, <2>2, RowsOf, AttemptWritten
  <1>7. StepMoves(step[k[1]], ReconciledStep(k))
    <2>1. to \in StepStatus /\ "none" \in DispatchAfter /\ CanStep("running", to)
      BY <1>2, StepTable DEF StepStatus, DispatchAfter
    <2> QED
      BY <1>4, <2>1, RowsOf, SaneStep, StepWritten
  <1> QED
    BY <1>3, <1>5, <1>6, <1>7 DEF arow, to

LEMMA ReconcileRecoveredMoves ==
  ASSUME StoreInv, RowInv, SettleInv, NEW k \in Slots, CanReconcileRecovered(k),
         ReconcileRecovered(k)
  PROVE  StoreMoves /\ Quiet
  <1>1. exec.status \in ActiveExecution /\ exec'.status \in ActiveExecution
    BY DEF CanReconcileRecovered, ReconcileRecovered, SchedulerFence, Active, ActiveExecution,
           WithStatus, StoreInv, StoreTypeOK, ExecutionRow
  <1>2. ~attempt[k].review
    BY SaneStep DEF SettleInv, AttemptSane, CanReconcileRecovered
  <1>3. Calm
    BY ReconcileRecoveredSafe
  <1>4. CASE attempt[k].status = "queued"
    <2> DEFINE srow == [SetStep(step[k[1]], "pending") EXCEPT !.dispatchAfter = "none"]
               arow == [EndAttempt(attempt[k], "cancelled") EXCEPT !.effects = <<>>]
    <2>1. /\ step' = [step EXCEPT ![k[1]] = srow] /\ attempt' = [attempt EXCEPT ![k] = arow]
          /\ step[k[1]].status = "pending" /\ exec' = exec
      BY <1>4 DEF ReconcileRecovered, CanReconcileRecovered
    <2>2. /\ arow.status = "cancelled" /\ arow.version = attempt[k].version + 1
          /\ arow.review = attempt[k].review /\ arow.link = FALSE
      BY RowsOf DEF EndAttempt, SetAttempt, AttemptRow
    <2>3. StepMoves(step[k[1]], srow)
      <3>1. "pending" \in StepStatus /\ "none" \in DispatchAfter /\ CanStep("pending", "pending")
        BY StepTable DEF StepStatus, DispatchAfter
      <3> QED
        BY <2>1, <3>1, RowsOf, SaneStep, StepWritten DEF SettleInv
    <2> HIDE DEF srow, arow
    <2>4. AttemptMoves(attempt[k], arow)
      <3>1. AttemptSane(arow) /\ CanAttempt(attempt[k].status, arow.status)
        BY <1>4, <2>2, AttemptTable DEF AttemptSane, ActiveAttempt
      <3> QED
        BY <1>2, <2>2, <3>1, RowsOf, AttemptWritten
    <2>5. RowMoves
      BY <2>1, <2>3, <2>4, PairMoved DEF SettleInv
    <2>6. WaitingAsks' /\ ReviewStays
      BY <1>2, <1>4, <2>1, OneReview, OneWaiting DEF SettleInv
    <2> QED
      BY <1>1, <1>3, <2>5, <2>6, ActiveMoves DEF SettleInv
  <1>5. CASE attempt[k].status # "queued"
    <2>1. /\ step' = [step EXCEPT ![k[1]] = ReconciledStep(k)]
          /\ attempt' = [attempt EXCEPT ![k] = ReconciledAttempt(k)]
          /\ attempt[k].status = "running" /\ step[k[1]].status = "running"
      BY <1>5 DEF ReconcileRecovered, CanReconcileRecovered
    <2>2. exec' = exec \/ ReconciledStatus(k) = "waiting_input"
      BY <1>5 DEF ReconcileRecovered, ReconciledStatus
    <2>3. RowMoves
      BY <2>1, ReconciledMoves, PairMoved DEF SettleInv
    <2>4. ReconciledAttempt(k).status = ReconciledStatus(k)
      BY <2>1, ReconciledMoves DEF SettleInv
    <2>5. WaitingAsks' /\ ReviewStays
      BY <1>2, <2>1, <2>2, <2>4, OneReview, OneWaiting DEF SettleInv
    <2> QED
      BY <1>1, <1>3, <2>3, <2>5, ActiveMoves DEF SettleInv
  <1> QED
    BY <1>4, <1>5

-----------------------------------------------------------------------------
(* Transactions on several rows.                                           *)

\* The rows stay.
LEMMA RowsStay ==
  ASSUME StoreInv, SaneRows, step' = step, attempt' = attempt
  PROVE  RowMoves /\ ReviewStays
  BY RowsOf, StepStays, AttemptStays DEF SaneRows, RowMoves, ReviewStays

LEMMA StoreStays ==
  ASSUME StoreInv, SettleInv, exec'.status = exec.status, step' = step, attempt' = attempt
  PROVE  StoreMoves /\ Quiet
  <1>1. RowMoves /\ ReviewStays
    BY RowsStay DEF SettleInv
  <1>2. CanExecution(exec.status, exec'.status)
    BY ExecutionTable
  <1>3. QueuedNoDelay' /\ WaitingAsks' /\ SettledIsJustified'
    BY DEF SettleInv, QueuedNoDelay, WaitingAsks, SettledIsJustified, Terminal, Current
  <1> QED
    BY <1>1, <1>2, <1>3 DEF StoreMoves, Quiet

\* The status of the execution alone is written.
LEMMA StatusMoves ==
  ASSUME StoreInv, SettleInv, step' = step, attempt' = attempt,
         CanExecution(exec.status, exec'.status), exec'.status # "waiting_input",
         exec'.status \in TerminalExecution =>
           /\ \A k \in Slots : attempt[k].status \notin ActiveAttempt
           /\ \A s \in Current : step[s].status \in TerminalStep
           /\ exec'.status = "completed" => \A s \in Current : step[s].status = "completed"
  PROVE  StoreMoves
  <1>1. RowMoves /\ ReviewStays
    BY RowsStay DEF SettleInv
  <1>2. QueuedNoDelay' /\ WaitingAsks'
    BY DEF SettleInv, QueuedNoDelay, WaitingAsks
  <1>3. SettledIsJustified'
    BY DEF SettledIsJustified, Terminal, Current, TerminalExecution
  <1> QED
    BY <1>1, <1>2, <1>3 DEF StoreMoves

LEMMA UpdateStatusMoves ==
  ASSUME StoreInv, SettleInv, NEW status, UpdateStatus(status),
         CanExecution(exec.status, status), status # "waiting_input",
         status \in TerminalExecution =>
           /\ \A k \in Slots : attempt[k].status \notin ActiveAttempt
           /\ \A s \in Current : step[s].status \in TerminalStep
           /\ status = "completed" => \A s \in Current : step[s].status = "completed"
  PROVE  StoreMoves
  <1>1. exec'.status = status /\ step' = step /\ attempt' = attempt
    BY DEF UpdateStatus, WithStatus, StoreInv, StoreTypeOK, ExecutionRow
  <1> QED
    BY <1>1, StatusMoves

LEMMA ResumeExecutionMoves ==
  ASSUME StoreInv, SettleInv, exec.status = "paused", ResumeExecution
  PROVE  StoreMoves
  <1>1. /\ exec'.status = IF WaitingAttempts = {} THEN "running" ELSE "waiting_input"
        /\ step' = step /\ attempt' = attempt
    BY DEF ResumeExecution, StoreInv, StoreTypeOK, ExecutionRow
  <1>2. RowMoves /\ ReviewStays
    BY <1>1, RowsStay DEF SettleInv
  <1>3. CanExecution("paused", "running") /\ CanExecution("paused", "waiting_input")
    BY ExecutionTable DEF ExecutionStatus, TerminalExecution
  <1>4. QueuedNoDelay' /\ WaitingAsks'
    BY <1>1 DEF SettleInv, QueuedNoDelay, WaitingAsks, WaitingAttempts
  <1>5. SettledIsJustified'
    BY <1>1 DEF SettledIsJustified, Terminal, TerminalExecution
  <1> QED
    BY <1>1, <1>2, <1>3, <1>4, <1>5 DEF StoreMoves

\* A step of the plan that has not ended exists.
LEMMA Unfinished ==
  ASSUME StoreInv, SaneRows, NEW s \in Steps, step[s].current, step[s].status \notin TerminalStep
  PROVE  step[s].status \in {"pending", "running", "waiting_input"}
  BY DEF StoreInv, StoreTypeOK, StepRow, StepStatus, TerminalStep, SaneRows, StepSane

LEMMA TerminateMoves ==
  ASSUME StoreInv, RowInv, SettleInv, TerminateChildren, exec'.status \in TerminalExecution,
         CanExecution(exec.status, exec'.status),
         exec'.status = "completed" => exec.status = "completed"
  PROVE  StoreMoves
  <1>1. ASSUME NEW s \in Steps
        PROVE  /\ StepMoves(step[s], step'[s])
               /\ step'[s].current => step'[s].status \in TerminalStep
               /\ step[s].status \in TerminalStep => step'[s] = step[s]
               /\ step'[s].current => step[s].current
    <2>1. step[s] \in StepRow /\ StepSane(step[s])
      BY DEF StoreInv, StoreTypeOK, SettleInv, SaneRows
    <2>2. CASE step[s].current /\ step[s].status \notin TerminalStep
      <3> DEFINE new == [SetStep(step[s], "cancelled") EXCEPT !.dispatchAfter = "none"]
      <3>1. step'[s] = new
        BY <2>2 DEF TerminateChildren
      <3>2. new.status = "cancelled"
        BY <2>1 DEF SetStep, StepRow
      <3>3. "cancelled" \in StepStatus /\ "none" \in DispatchAfter
        BY DEF StepStatus, DispatchAfter
      <3>4. CanStep(step[s].status, "cancelled")
        BY <2>2, Unfinished, StepTable DEF SettleInv
      <3>5. StepMoves(step[s], new)
        BY <2>1, <3>3, <3>4, StepWritten
      <3> HIDE DEF new
      <3> QED
        BY <2>2, <3>1, <3>2, <3>5 DEF TerminalStep
    <2>3. CASE ~(step[s].current /\ step[s].status \notin TerminalStep)
      <3>1. step'[s] = step[s]
        BY <2>3 DEF TerminateChildren
      <3> QED
        BY <2>1, <2>3, <3>1, StepStays
    <2> QED
      BY <2>2, <2>3
  <1>2. ASSUME NEW k \in Slots
        PROVE  AttemptMoves(attempt[k], attempt'[k]) /\ attempt'[k].status \notin ActiveAttempt
    <2>1. attempt[k] \in AttemptRow /\ AttemptSane(attempt[k])
      BY RowsOf, SaneStep DEF SettleInv
    <2>2. CASE attempt[k].status \in ActiveAttempt
      <3>1. attempt'[k] = EndAttempt(attempt[k], "cancelled")
        BY <2>2 DEF TerminateChildren
      <3>2. "cancelled" \in AttemptStatus /\ CanAttempt(attempt[k].status, "cancelled")
        BY <2>2, AttemptTable DEF AttemptStatus
      <3>3. AttemptMoves(attempt[k], attempt'[k])
        BY <2>1, <3>1, <3>2, AttemptEnded
      <3>4. attempt'[k].status = "cancelled"
        BY <2>1, <3>1 DEF EndAttempt, SetAttempt, AttemptRow
      <3> QED
        BY <3>3, <3>4 DEF ActiveAttempt
    <2>3. CASE attempt[k].status \notin ActiveAttempt
      <3> DEFINE new == [attempt[k] EXCEPT !.link = FALSE]
      <3>1. attempt'[k] = new
        BY <2>3 DEF TerminateChildren
      <3>2. /\ new.status = attempt[k].status /\ new.version = attempt[k].version
            /\ new.review = attempt[k].review /\ new.link = FALSE
            /\ attempt[k].version >= attempt[k].version
        BY <2>1 DEF AttemptRow
      <3> HIDE DEF new
      <3> QED
        BY <2>1, <2>3, <3>1, <3>2, AttemptTable DEF AttemptMoves, AttemptSane
    <2> QED
      BY <2>2, <2>3
  <1>3. RowMoves
    BY <1>1, <1>2 DEF RowMoves
  <1>4. QueuedNoDelay'
    BY <1>2 DEF QueuedNoDelay, ActiveAttempt
  <1>5. WaitingAsks' /\ ReviewStays
    BY DEF WaitingAsks, ReviewStays, TerminalExecution
  <1>6. SettledIsJustified'
    <2>1. \A s \in Current' : s \in Steps /\ step'[s].current
      BY DEF Current
    <2>2. exec'.status = "completed" => \A s \in Current' : step'[s].status = "completed"
      <3>1. exec.status = "completed" => \A s \in Current : step[s].status = "completed"
        BY DEF SettleInv, SettledIsJustified
      <3>2. exec.status = "completed" => \A s \in Current' : step'[s] = step[s] /\ s \in Current
        BY <1>1, <2>1, <3>1 DEF Current, TerminalStep
      <3> QED
        BY <3>1, <3>2
    <2> QED
      BY <1>1, <1>2, <2>1, <2>2 DEF SettledIsJustified
  <1> QED
    BY <1>3, <1>4, <1>5, <1>6 DEF StoreMoves

LEMMA ResetForRetryMoves ==
  ASSUME StoreInv, RowInv, SettleInv, NEW s \in Steps, CanResetForRetry(s), ResetForRetry(s)
  PROVE  StoreMoves
  <1>1. \A t \in Downstream(s) : t \in Steps /\ step[t].status # "cancelled"
    BY DEF CanResetForRetry, Downstream
  <1>2. ASSUME NEW t \in Steps
        PROVE  StepMoves(step[t], step'[t])
    <2>1. step[t] \in StepRow /\ StepSane(step[t])
      BY DEF StoreInv, StoreTypeOK, SettleInv, SaneRows
    <2>2. CASE t \in Downstream(s)
      <3>1. step'[t] = [SetStep(step[t], "pending") EXCEPT !.dispatchAfter = "none"]
        BY <2>2 DEF ResetForRetry
      <3>2. step[t].status \in StepStatus \cup {"absent"}
        BY <2>1 DEF StepRow
      <3>3. CanStep(step[t].status, "pending")
        BY <1>1, <2>2, <3>2, StepTable
      <3>4. "pending" \in StepStatus /\ "none" \in DispatchAfter
        BY DEF StepStatus, DispatchAfter
      <3> QED
        BY <2>1, <3>1, <3>3, <3>4, StepWritten
    <2>3. CASE t \notin Downstream(s)
      BY <2>1, <2>3, StepStays DEF ResetForRetry
    <2> QED
      BY <2>2, <2>3
  <1>3. attempt' = attempt /\ exec'.status = "running"
    BY DEF ResetForRetry, StoreInv, StoreTypeOK, ExecutionRow
  <1>4. RowMoves
    BY <1>2, <1>3, RowsOf, SaneStep, AttemptStays DEF RowMoves, SettleInv
  <1>5. CanExecution(exec.status, "running")
    BY ExecutionTable DEF CanResetForRetry, ActiveExecution, ExecutionStatus, TerminalExecution
  <1>6. Calm
    BY ResetForRetrySafe
  <1>7. QueuedNoDelay'
    BY <1>4, <1>6, NoDelayKept DEF SettleInv
  <1>8. WaitingAsks' /\ ReviewStays /\ SettledIsJustified'
    BY <1>3 DEF WaitingAsks, ReviewStays, SettledIsJustified, Terminal, TerminalExecution
  <1> QED
    BY <1>3, <1>4, <1>5, <1>7, <1>8 DEF StoreMoves

LEMMA AdoptOutputMoves ==
  ASSUME StoreInv, RowInv, SettleInv, NEW k \in Slots, CanAdoptOutput(k), AdoptOutput(k)
  PROVE  StoreMoves
  <1> DEFINE arow == [NoAttempt EXCEPT !.status = "completed"]
             reopened == Reopened(k[1])
  <1>1. arow.status = "completed" /\ arow.link = FALSE /\ arow.review = FALSE
    BY DEF NoAttempt
  <1>2. /\ attempt' = [attempt EXCEPT ![k] = arow] /\ attempt[k].status = "absent"
        /\ step[k[1]].current /\ step[k[1]].status # "cancelled"
    BY DEF AdoptOutput, CanAdoptOutput, FreshSlot
  <1>3. \A t \in reopened : t \in Steps /\ step[t].status = "skipped"
    BY DEF Reopened, Downstream
  <1>4. /\ k[1] \in Steps
        /\ step'[k[1]] = [SetStep(step[k[1]], "completed") EXCEPT !.dispatchAfter = "none"]
        /\ \A t \in Steps : t # k[1] /\ t \in reopened => step'[t] = SetStep(step[t], "pending")
        /\ \A t \in Steps : t # k[1] /\ t \notin reopened => step'[t] = step[t]
    BY SlotStep DEF AdoptOutput
  <1> HIDE DEF arow, reopened
  <1>5. ASSUME NEW t \in Steps
        PROVE  StepMoves(step[t], step'[t])
    <2>1. step[t] \in StepRow /\ StepSane(step[t])
      BY DEF StoreInv, StoreTypeOK, SettleInv, SaneRows
    <2>2. CASE t = k[1]
      <3>1. step[t].status \in StepStatus \ {"cancelled"}
        BY <1>2, <2>1, <2>2 DEF StepRow, StepSane
      <3>2. CanStep(step[t].status, "completed")
        BY <3>1, StepTable DEF StepStatus
      <3>3. "completed" \in StepStatus /\ "none" \in DispatchAfter
        BY DEF StepStatus, DispatchAfter
      <3> QED
        BY <1>4, <2>1, <2>2, <3>2, <3>3, StepWritten
    <2>3. CASE t # k[1] /\ t \in reopened
      <3>1. step[t].status = "skipped" /\ step[t].dispatchAfter # "future"
        BY <1>3, <2>1, <2>3 DEF StepSane
      <3>2. "pending" \in StepStatus /\ CanStep("skipped", "pending")
        BY StepTable DEF StepStatus
      <3> QED
        BY <1>4, <2>1, <2>3, <3>1, <3>2, StepWrittenKept
    <2>4. CASE t # k[1] /\ t \notin reopened
      BY <1>4, <2>1, <2>4, StepStays
    <2> QED
      BY <2>2, <2>3, <2>4
  <1>6. attempt'[k] = arow /\ \A j \in Slots : j # k => attempt'[j] = attempt[j]
    BY <1>2 DEF StoreInv, StoreTypeOK
  <1>7. ~attempt[k].review
    BY <1>2, SaneStep DEF SettleInv, AttemptSane
  <1>8. ASSUME NEW j \in Slots
        PROVE  AttemptMoves(attempt[j], attempt'[j])
    <2>1. CASE j = k
      BY <1>1, <1>2, <1>6, <1>7, <2>1, AttemptTable DEF AttemptMoves, AttemptSane
    <2>2. CASE j # k
      BY <1>6, <2>2, RowsOf, SaneStep, AttemptStays DEF SettleInv
    <2> QED
      BY <2>1, <2>2
  <1>9. RowMoves
    BY <1>5, <1>8 DEF RowMoves
  <1>10. exec'.status = Reopens(exec.status)
    BY DEF AdoptOutput, StoreInv, StoreTypeOK, ExecutionRow
  <1>11. CanExecution(exec.status, exec'.status)
    BY <1>10, ExecutionTable DEF Reopens, CanAdoptOutput, ActiveExecution, TerminalExecution
  <1>12. Calm
    BY AdoptOutputSafe
  <1>13. QueuedNoDelay'
    BY <1>9, <1>12, NoDelayKept DEF SettleInv
  <1>14. ReviewStays
    BY <1>2, <1>7, OneReview
  <1>15. WaitingAsks'
    BY <1>2, <1>10, OneWaiting DEF Reopens, SettleInv
  <1>16. SettledIsJustified'
    BY <1>10 DEF Reopens, SettledIsJustified, Terminal, TerminalExecution
  <1> QED
    BY <1>9, <1>11, <1>13, <1>14, <1>15, <1>16 DEF StoreMoves

LEMMA DroppedMoves ==
  ASSUME NEW row \in StepRow
  PROVE  StepMoves(row, DroppedStep(row)) /\ ~DroppedStep(row).current
  <1> DEFINE to == CASE row.status = "pending" -> "skipped"
                     [] row.status \in {"running", "waiting_input"} -> "cancelled"
                     [] OTHER -> row.status
  <1>1. CanStep(row.status, to)
    BY StepTable
  <1>2. DroppedStep(row) = [SetStep(row, to) EXCEPT !.dispatchAfter = "none", !.current = FALSE]
    BY DEF DroppedStep
  <1> HIDE DEF to
  <1>3. /\ DroppedStep(row).status = to /\ DroppedStep(row).current = FALSE
        /\ DroppedStep(row).dispatchAfter = "none"
    BY <1>2 DEF SetStep, StepRow
  <1> QED
    BY <1>1, <1>3 DEF StepMoves, StepSane

LEMMA ReconcilePlanMoves ==
  ASSUME StoreInv, RowInv, SettleInv, NEW keep, NEW plan \in Plans, NEW status \in ExecutionStatus,
         CanReconcilePlan(keep, plan), ReconcilePlan(keep, plan, status),
         status \notin TerminalExecution \cup {"planning", "waiting_input"},
         status = "paused" => exec.status = "paused", CanExecution(exec.status, status)
  PROVE  StoreMoves
  <1> DEFINE dropped == Current \ keep
  <1>1. ASSUME NEW s \in Steps
        PROVE  /\ s \in plan.steps => step'[s] = NewStep /\ step[s].status = "absent"
               /\ s \notin plan.steps /\ s \in dropped => step'[s] = DroppedStep(step[s])
               /\ s \notin plan.steps /\ s \notin dropped => step'[s] = step[s]
    BY DEF ReconcilePlan, CanReconcilePlan
  <1>2. ASSUME NEW k \in Slots
        PROVE  /\ k[1] \notin dropped => attempt'[k] = attempt[k]
               /\ k[1] \in dropped /\ attempt[k].status \in ActiveAttempt =>
                    attempt'[k] = EndAttempt(attempt[k], IF attempt[k].status = "queued"
                                                         THEN "cancelled" ELSE "interrupted")
               /\ k[1] \in dropped /\ attempt[k].status \notin ActiveAttempt =>
                    attempt'[k] = [attempt[k] EXCEPT !.link = FALSE]
    BY DEF ReconcilePlan
  <1>3. exec'.status = status
    BY DEF ReconcilePlan, WithStatus, StoreInv, StoreTypeOK, ExecutionRow
  <1>4. \A s \in dropped : s \in Steps /\ s \notin plan.steps
    BY <1>1 DEF Current, SettleInv, SaneRows, StepSane
  <1> HIDE DEF dropped
  <1>5. ASSUME NEW s \in Steps
        PROVE  StepMoves(step[s], step'[s]) /\ (s \in dropped => ~step'[s].current)
    <2>1. step[s] \in StepRow /\ StepSane(step[s])
      BY DEF StoreInv, StoreTypeOK, SettleInv, SaneRows
    <2>2. CASE s \in plan.steps
      <3>1. step'[s] = NewStep /\ step[s].status = "absent" /\ s \notin dropped
        BY <1>1, <1>4, <2>2
      <3>2. NewStep.status = "pending" /\ NewStep.dispatchAfter = "none" /\ NewStep.current
        BY DEF NewStep
      <3> QED
        BY <3>1, <3>2, StepTable DEF StepMoves, StepSane
    <2>3. CASE s \notin plan.steps /\ s \in dropped
      BY <1>1, <2>1, <2>3, DroppedMoves
    <2>4. CASE s \notin plan.steps /\ s \notin dropped
      BY <1>1, <2>1, <2>4, StepStays
    <2> QED
      BY <2>2, <2>3, <2>4
  <1>6. ASSUME NEW k \in Slots
        PROVE  AttemptMoves(attempt[k], attempt'[k])
    <2>1. attempt[k] \in AttemptRow /\ AttemptSane(attempt[k])
      BY RowsOf, SaneStep DEF SettleInv
    <2>2. CASE k[1] \notin dropped
      BY <1>2, <2>1, <2>2, AttemptStays
    <2>3. CASE k[1] \in dropped /\ attempt[k].status \in ActiveAttempt
      <3>1. PICK to \in {"cancelled", "interrupted"} :
              /\ attempt'[k] = EndAttempt(attempt[k], to)
              /\ attempt[k].status = "queued" => to = "cancelled"
        BY <1>2, <2>3
      <3>2. to \in AttemptStatus /\ CanAttempt(attempt[k].status, to)
        BY <2>3, <3>1, AttemptTable DEF AttemptStatus, ActiveAttempt
      <3> QED
        BY <2>1, <3>1, <3>2, AttemptEnded
    <2>4. CASE k[1] \in dropped /\ attempt[k].status \notin ActiveAttempt
      <3> DEFINE new == [attempt[k] EXCEPT !.link = FALSE]
      <3>1. attempt'[k] = new
        BY <1>2, <2>4
      <3>2. /\ new.status = attempt[k].status /\ new.version = attempt[k].version
            /\ new.review = attempt[k].review /\ new.link = FALSE
            /\ attempt[k].version >= attempt[k].version
        BY <2>1 DEF AttemptRow
      <3> HIDE DEF new
      <3> QED
        BY <2>1, <3>1, <3>2, AttemptTable DEF AttemptMoves, AttemptSane
    <2> QED
      BY <2>2, <2>3, <2>4
  <1>7. RowMoves
    BY <1>5, <1>6 DEF RowMoves
  <1>8. Calm
    BY ReconcilePlanSafe
  <1>9. QueuedNoDelay'
    BY <1>7, <1>8, NoDelayKept DEF SettleInv
  <1>10. WaitingAsks' /\ SettledIsJustified'
    BY <1>3 DEF WaitingAsks, SettledIsJustified, Terminal, TerminalExecution
  <1>11. ReviewStays
    BY <1>2, <1>5, SlotStep DEF ReviewStays
  <1> QED
    BY <1>3, <1>7, <1>9, <1>10, <1>11 DEF StoreMoves

LEMMA PauseExecutionMoves ==
  ASSUME StoreInv, RowInv, SettleInv, exec.status \in ActiveExecution, PauseExecution
  PROVE  StoreMoves
  <1> DEFINE lost == {k \in Slots : /\ attempt[k].status = "running"
                                    /\ step[k[1]].current /\ step[k[1]].status = "running"}
  <1>1. lost \subseteq Slots /\ \A k \in Slots : k \in lost <=> attempt[k].status = "running"
    BY DEF RowInv, RowsAgree, ActiveAttempt
  <1>2. \A k \in lost : step[k[1]].status = "running" /\ attempt[k].status = "running"
    OBVIOUS
  <1>3. /\ \A k \in Slots : k \in lost => attempt'[k] = ReconciledAttempt(k)
        /\ \A k \in Slots : attempt[k].status = "queued" =>
                              attempt'[k] = EndAttempt(attempt[k], "cancelled")
        /\ \A k \in Slots : attempt[k].status \notin {"queued", "running"} =>
                              attempt'[k] = attempt[k]
    BY <1>1 DEF PauseExecution
  <1>4. ASSUME NEW k \in lost
        PROVE  step'[k[1]] = ReconciledStep(k)
    <2>1. \A j \in lost : j[1] = k[1] => j = k
      BY <1>1, LatestIsOnly DEF RowInv, SlotsOf, ActiveAttempt
    <2>2. (CHOOSE j \in lost : j[1] = k[1]) = k
      BY <2>1
    <2>3. k[1] \in Steps /\ \E j \in lost : j[1] = k[1]
      BY <1>1, SlotStep
    <2>4. step'[k[1]] = ReconciledStep(CHOOSE j \in lost : j[1] = k[1])
      BY <2>3 DEF PauseExecution
    <2> QED
      BY <2>2, <2>4
  <1>5. \A s \in Steps : (~\E k \in lost : k[1] = s) => step'[s] = step[s]
    BY DEF PauseExecution
  <1>6. exec'.status = "paused"
    BY DEF PauseExecution, WithStatus, StoreInv, StoreTypeOK, ExecutionRow
  <1> HIDE DEF lost
  <1>7. ASSUME NEW k \in lost
        PROVE  /\ StepMoves(step[k[1]], ReconciledStep(k))
               /\ AttemptMoves(attempt[k], ReconciledAttempt(k))
    BY <1>1, <1>2, ReconciledMoves DEF SettleInv
  <1>8. ASSUME NEW s \in Steps
        PROVE  StepMoves(step[s], step'[s])
    <2>1. CASE \E k \in lost : k[1] = s
      BY <1>4, <1>7, <2>1
    <2>2. CASE ~\E k \in lost : k[1] = s
      BY <1>5, <2>2, StepStays DEF SettleInv, SaneRows
    <2> QED
      BY <2>1, <2>2
  <1>9. ASSUME NEW k \in Slots
        PROVE  AttemptMoves(attempt[k], attempt'[k])
    <2>1. attempt[k] \in AttemptRow /\ AttemptSane(attempt[k])
      BY RowsOf, SaneStep DEF SettleInv
    <2>2. CASE attempt[k].status = "running"
      BY <1>1, <1>3, <1>7, <2>2
    <2>3. CASE attempt[k].status = "queued"
      <3>1. "cancelled" \in AttemptStatus /\ CanAttempt(attempt[k].status, "cancelled")
        BY <2>3, AttemptTable DEF AttemptStatus, ActiveAttempt
      <3> QED
        BY <1>3, <2>1, <2>3, <3>1, AttemptEnded
    <2>4. CASE attempt[k].status \notin {"queued", "running"}
      BY <1>3, <2>1, <2>4, AttemptStays
    <2> QED
      BY <2>2, <2>3, <2>4
  <1>10. RowMoves
    BY <1>8, <1>9 DEF RowMoves
  <1>11. Calm
    BY PauseExecutionSafe
  <1>12. QueuedNoDelay'
    BY <1>10, <1>11, NoDelayKept DEF SettleInv
  <1>13. WaitingAsks' /\ SettledIsJustified'
    BY <1>6 DEF WaitingAsks, SettledIsJustified, Terminal, TerminalExecution
  <1>14. ReviewStays
    BY <1>3, SaneStep DEF ReviewStays, SettleInv, AttemptSane
  <1>15. CanExecution(exec.status, exec'.status)
    BY <1>6, ExecutionTable
  <1> QED
    BY <1>10, <1>12, <1>13, <1>14, <1>15 DEF StoreMoves

\* A retry time passes: the execution has not settled.
LEMMA BackoffOverMoves ==
  ASSUME StoreInv, RowInv, SettleInv, BackoffOver
  PROVE  /\ StoreMoves /\ Quiet
         /\ \A s \in Steps : step'[s].status = step[s].status /\ step'[s].current = step[s].current
  <1>1. PICK s \in Steps : /\ step[s].dispatchAfter = "future"
                           /\ step' = [step EXCEPT ![s].dispatchAfter = "past"]
    BY DEF BackoffOver
  <1>2. UNCHANGED <<exec, attempt>>
    BY DEF BackoffOver
  <1> DEFINE new == [step[s] EXCEPT !.dispatchAfter = "past"]
  <1>3. /\ new.status = step[s].status /\ new.current = step[s].current
        /\ new.dispatchAfter = "past"
    BY DEF StoreInv, StoreTypeOK, StepRow
  <1>4. step'[s] = new /\ \A t \in Steps : t # s => step'[t] = step[t]
    BY <1>1 DEF StoreInv, StoreTypeOK
  <1>5. StepSane(step[s])
    BY DEF SettleInv, SaneRows
  <1> HIDE DEF new
  <1>6. StepMoves(step[s], new)
    BY <1>3, <1>5, StepTable DEF StepMoves, StepSane
  <1>7. RowMoves
    BY <1>2, <1>4, <1>6, RowsOf, SaneStep, StepStays, AttemptStays DEF RowMoves, SettleInv, SaneRows
  <1>8. \A t \in Steps : step'[t].status = step[t].status /\ step'[t].current = step[t].current
    BY <1>3, <1>4
  <1>9. QueuedNoDelay'
    BY <1>2, <1>3, <1>4, SlotStep DEF SettleInv, QueuedNoDelay
  <1>10. WaitingAsks' /\ ReviewStays
    BY <1>2 DEF SettleInv, WaitingAsks, ReviewStays
  <1>11. ~Terminal
    BY <1>1, <1>5 DEF SettleInv, SettledIsJustified, Current, StepSane, TerminalStep
  <1>12. SettledIsJustified'
    BY <1>2, <1>11 DEF SettledIsJustified, Terminal, TerminalExecution
  <1>13. CanExecution(exec.status, exec'.status)
    BY <1>2, ExecutionTable
  <1> QED
    BY <1>7, <1>8, <1>9, <1>10, <1>11, <1>12, <1>13 DEF StoreMoves, Quiet


-----------------------------------------------------------------------------
(* What the loop believes.                                                 *)

LEMMA NeverAbsent == \A from \in AttemptStatus : ~CanAttempt(from, "absent")
  BY DEF CanAttempt, Lifecycle!AttemptNext, Lifecycle!SettledAttempt, AttemptStatus

\* A pin survives every transaction.
LEMMA PinKept ==
  ASSUME StoreInv, StoreInv', SchedInv, RowMoves, Pinned, NEW f \in Fibers, job'[f] = job[f],
         job[f].pc \in Committing
  PROVE  PinHolds(job[f])'
  <1> DEFINE k == job[f].k
             old == attempt[k]
             new == attempt'[k]
  <1>1. k \in Slots /\ job[f].pav \in Nat
    BY JobOf DEF WellFormedJob, Committing, Job
  <1>2. AttemptMoves(old, new) /\ PinHolds(job[f])
    BY <1>1 DEF RowMoves, Pinned
  <1>3. old \in AttemptRow /\ new \in AttemptRow
    BY <1>1 DEF StoreInv, StoreTypeOK
  <1>4. /\ old.status # "absent" /\ job[f].pav <= old.version
        /\ job[f].pav = old.version => old.status \in {"queued", "running"}
    BY <1>2 DEF PinHolds
  <1>5. /\ new.version >= old.version
        /\ new.version = old.version => new.status = old.status
        /\ old.version \in Nat /\ new.version \in Nat
    BY <1>2, <1>3, <1>4 DEF AttemptMoves, AttemptRow
  <1>6. new.status # "absent"
    BY <1>2, <1>3, <1>4, NeverAbsent DEF AttemptMoves, AttemptRow
  <1> HIDE DEF k, old, new
  <1>7. /\ job[f].pav <= new.version
        /\ job[f].pav = new.version => new.status \in {"queued", "running"}
    BY <1>1, <1>4, <1>5
  <1> QED
    BY <1>6, <1>7 DEF PinHolds, k, new

\* Futures that settle keep their pin or are pinned anew.
LEMMA PinnedKept ==
  ASSUME StoreInv, StoreInv', SchedInv, RowMoves, Pinned,
         \A f \in Fibers : job'[f].pc \in Committing => job'[f] = job[f] \/ PinHolds(job[f])'
  PROVE  Pinned'
  BY PinKept DEF Pinned

LEMMA SnapKept ==
  ASSUME SnapTrue, SchedInv, Judging' => Judging,
         \A s \in Steps : step'[s].status = step[s].status /\ step'[s].current = step[s].current,
         snap'.blocked = snap.blocked, snap'.settled = snap.settled
  PROVE  SnapTrue'
  <1>1. Current' = Current /\ Current \subseteq Steps
    BY DEF Current
  <1>2. SettledStatus' = SettledStatus
    BY <1>1 DEF SettledStatus
  <1>3. snap.blocked \subseteq Steps
    BY DEF SchedInv, LoopInv, Snapshot
  <1> QED
    BY <1>2, <1>3 DEF SnapTrue

\* The loop is left.
LEMMA GenLeft ==
  ASSUME SchedInv, GenInv, NEW restart, LeaveLoop(restart)
  PROVE  GenInv'
  <1>1. sched'.pc = "exit" /\ sched'.boot = sched.boot /\ sched'.fresh = sched.fresh
    BY DEF LeaveLoop, SchedInv, LoopInv, Generation
  <1>2. \A f \in Fibers : job'[f].pc = "idle"
    BY DEF LeaveLoop, IdleJobs, Idle
  <1> QED
    BY <1>1, <1>2 DEF GenInv, Pinned, Committing, SnapTrue, Judging, BootStale

\* The loop moves on, its futures untouched.
LEMMA GenGoto ==
  ASSUME StoreInv, StoreInv', SchedInv, RowMoves, GenInv, NEW pc, Goto(pc),
         \A f \in Fibers : job'[f].pc \in Committing => job'[f] = job[f],
         pc \in {"effects", "pass", "rest"} =>
           /\ sched.pc \in {"effects", "pass", "rest"} \/ sched.boot
           /\ step' = step /\ snap' = snap
  PROVE  GenInv'
  <1>1. sched'.pc = pc /\ sched'.boot = sched.boot /\ sched'.fresh = sched.fresh
    BY DEF Goto, SchedInv, LoopInv, Generation
  <1>2. Pinned' /\ BootStale'
    BY <1>1, PinnedKept DEF GenInv, BootStale
  <1>3. SnapTrue'
    <2>1. CASE Judging'
      <3>1. Judging /\ step' = step /\ snap' = snap
        BY <1>1, <2>1 DEF Judging, GenInv, BootStale
      <3> QED
        BY <3>1, SnapKept DEF GenInv
    <2>2. CASE ~Judging'
      BY <2>2 DEF SnapTrue
    <2> QED
      BY <2>1, <2>2
  <1> QED
    BY <1>2, <1>3 DEF GenInv

\* A future ends.
LEMMA GenFinished ==
  ASSUME StoreInv, StoreInv', SchedInv, RowMoves, GenInv, NEW f \in Fibers, NEW failed,
         Finish(f, failed)
  PROVE  GenInv'
  <1>1. CASE \E restart : LeaveLoop(restart)
    BY <1>1, GenLeft
  <1>2. CASE /\ job' = [job EXCEPT ![f] = Idle]
             /\ \/ sched' = [sched EXCEPT !.pc = IF sched.boot THEN "effects" ELSE "loop"]
                \/ sched' = [sched EXCEPT !.pc = "loop", !.err = @ \/ failed]
    <2>1. /\ sched'.pc = "loop" \/ (sched'.pc = "effects" /\ sched.boot)
          /\ sched'.boot = sched.boot /\ sched'.fresh = sched.fresh
      BY <1>2 DEF SchedInv, LoopInv, Generation
    <2>2. \A g \in Fibers : job'[g].pc \in Committing => job'[g] = job[g]
      BY <1>2 DEF SchedInv, LoopInv, Idle, Committing
    <2>3. Pinned'
      BY <2>2, PinnedKept DEF GenInv
    <2> QED
      BY <2>1, <2>3 DEF GenInv, SnapTrue, Judging, BootStale
  <1> QED
    BY <1>1, <1>2 DEF Finish

\* A future moves on.
LEMMA GenSet ==
  ASSUME StoreInv, StoreInv', SchedInv, RowMoves, GenInv, NEW f \in Fibers, NEW row,
         SetJob(f, row), sched' = sched, sched.pc \in {"inline", "wait"},
         row.pc \in Committing =>
           /\ attempt'[row.k].status # "absent" /\ row.pav <= attempt'[row.k].version
           /\ row.pav = attempt'[row.k].version => attempt'[row.k].status \in {"queued", "running"}
  PROVE  GenInv'
  <1>1. job'[f] = row /\ \A g \in Fibers : g # f => job'[g] = job[g]
    BY DEF SetJob, SchedInv, LoopInv
  <1>2. \A g \in Fibers : job'[g].pc \in Committing => job'[g] = job[g] \/ PinHolds(job[g])'
    BY <1>1 DEF PinHolds
  <1>3. Pinned'
    BY <1>2, PinnedKept DEF GenInv
  <1> QED
    BY <1>3 DEF GenInv, SnapTrue, Judging, BootStale

\* A step that leaves the loop where it is and its snapshot as it was.
LEMMA GenStays ==
  ASSUME StoreInv, StoreInv', SchedInv, RowMoves, GenInv, job' = job, sched'.pc = sched.pc,
         sched'.boot = sched.boot, sched'.fresh = sched.fresh,
         \A s \in Steps : step'[s].status = step[s].status /\ step'[s].current = step[s].current,
         snap'.blocked = snap.blocked, snap'.settled = snap.settled
  PROVE  GenInv'
  <1>1. Pinned' /\ BootStale'
    BY PinnedKept DEF GenInv, BootStale
  <1>2. SnapTrue'
    BY SnapKept DEF GenInv, Judging
  <1> QED
    BY <1>1, <1>2 DEF GenInv

\* A transaction outdates the snapshot.
LEMMA GenStale ==
  ASSUME StoreInv, StoreInv', SchedInv, RowMoves, GenInv, job' = job, ~sched'.fresh
  PROVE  GenInv'
  BY PinnedKept DEF GenInv, BootStale, SnapTrue, Judging

-----------------------------------------------------------------------------
(* The actions of the loop.                                                *)

\* What is left to show once the rows are known to stay.
LEMMA RowsKeptMoves ==
  ASSUME StoreInv, SettleInv, UNCHANGED storeVars
  PROVE  StoreMoves /\ Quiet /\ RowMoves
  <1>1. exec'.status = exec.status /\ step' = step /\ attempt' = attempt
    BY DEF storeVars
  <1> QED
    BY <1>1, StoreStays DEF StoreMoves

LEMMA AcquireMoves ==
  ASSUME StoreInv, StoreInv', SchedInv, OwnInv, SettleInv, GenInv, Acquire
  PROVE  StoreMoves /\ Quiet /\ GenInv'
  <1>1. exec'.status = exec.status /\ step' = step /\ attempt' = attempt /\ job' = job
    BY DEF Acquire, AcquireLease, storeVars, StoreInv, StoreTypeOK, ExecutionRow
  <1>2. StoreMoves /\ Quiet /\ RowMoves
    BY <1>1, StoreStays DEF StoreMoves
  <1>3. Goto("end") \/ Goto("publish")
    BY DEF Acquire
  <1>4. GenInv'
    BY <1>1, <1>2, <1>3, GenGoto
  <1> QED
    BY <1>2, <1>4

LEMMA PublishMoves ==
  ASSUME StoreInv, StoreInv', SchedInv, OwnInv, SettleInv, GenInv, Publish \/ Exit
  PROVE  StoreMoves /\ Quiet /\ GenInv'
  <1>1. /\ exec'.status = exec.status /\ step' = step /\ attempt' = attempt
        /\ job' = job /\ snap' = snap
    BY DEF Publish, Exit, ReleaseLease, storeVars, StoreInv, StoreTypeOK, ExecutionRow
  <1>2. StoreMoves /\ Quiet /\ RowMoves
    BY <1>1, StoreStays DEF StoreMoves
  <1>3. Goto("end") \/ (Goto("effects") /\ sched.boot)
    BY DEF Publish, Exit, OwnInv, BootFirst
  <1>4. GenInv'
    BY <1>1, <1>2, <1>3, GenGoto
  <1> QED
    BY <1>2, <1>4

LEMMA EndMoves ==
  ASSUME StoreInv, StoreInv', SchedInv, SettleInv, GenInv, End
  PROVE  StoreMoves /\ Quiet /\ GenInv'
  <1>1. StoreMoves /\ Quiet /\ RowMoves
    BY RowsKeptMoves DEF End
  <1>2. job' = job /\ ~sched'.fresh
    BY DEF End, NewGeneration, NoGeneration
  <1> QED
    BY <1>1, <1>2, GenStale

LEMMA EffectReadMoves ==
  ASSUME StoreInv, StoreInv', SchedInv, SettleInv, GenInv, EffectRead
  PROVE  StoreMoves /\ Quiet /\ GenInv'
  <1>1. StoreMoves /\ Quiet /\ RowMoves /\ step' = step
    BY RowsKeptMoves DEF EffectRead, storeVars
  <1>2. CASE LeaveLoop(TRUE)
    BY <1>1, <1>2, GenLeft
  <1>3. CASE Goto(IF sched.boot THEN "recover" ELSE "pass") /\ UNCHANGED <<snap, job, orphan>>
    <2>1. sched.pc = "effects"
      BY DEF EffectRead
    <2>2. GenInv'
      BY <1>1, <1>3, <2>1, GenGoto
    <2> QED
      BY <1>1, <2>2
  <1>4. ASSUME NEW k \in Slots, NEW row, row.pc \notin Committing, SetJob(Inline, row),
               Goto("inline")
        PROVE  GenInv'
    <2>1. \A f \in Fibers : job'[f].pc \in Committing => job'[f] = job[f]
      BY <1>4, InlineFiber DEF SetJob, SchedInv, LoopInv
    <2> QED
      BY <1>1, <1>4, <2>1, GenGoto
  <1>5. ASSUME NEW k \in Slots, Undelivered(k),
               SetJob(Inline, [Idle EXCEPT
                !.pc = CASE Head(attempt[k].effects) = "stop_turn" -> "stop"
                         [] Head(attempt[k].effects) = "steer" -> "steer"
                         [] Head(attempt[k].effects) = "decision_input" -> "claim",
                !.k = k, !.sv = step[k[1]].version, !.av = attempt[k].version,
                !.op = IF Head(attempt[k].effects) = "decision_input"
                       THEN attempt[k].decisions ELSE NoOp]),
               Goto("inline")
        PROVE  GenInv'
    <2> DEFINE pc == CASE Head(attempt[k].effects) = "stop_turn" -> "stop"
                       [] Head(attempt[k].effects) = "steer" -> "steer"
                       [] Head(attempt[k].effects) = "decision_input" -> "claim"
    <2>1. pc \notin Committing
      <3>1. Head(attempt[k].effects) \in {"stop_turn", "steer", "decision_input"}
        BY <1>5, RowsOf DEF Undelivered, AttemptRow, EffectKind
      <3> QED
        BY <3>1 DEF Committing
    <2> HIDE DEF pc
    <2>2. [Idle EXCEPT
                !.pc = pc,
                !.k = k, !.sv = step[k[1]].version, !.av = attempt[k].version,
                !.op = IF Head(attempt[k].effects) = "decision_input"
                       THEN attempt[k].decisions ELSE NoOp].pc = pc
      BY DEF Idle
    <2> QED
      BY <1>4, <1>5, <2>1, <2>2 DEF pc
  <1> QED
    BY <1>1, <1>2, <1>3, <1>5 DEF EffectRead

\* The inline delivery of an effect.
LEMMA InlineSet ==
  ASSUME StoreInv, StoreInv', SchedInv, RowMoves, GenInv, NEW pc, pc \notin Committing,
         sched.pc = "inline", sched' = sched, SetJob(Inline, [job[Inline] EXCEPT !.pc = pc])
  PROVE  GenInv'
  <1>1. [job[Inline] EXCEPT !.pc = pc].pc = pc
    BY InlineFiber, JobOf DEF Job
  <1> QED
    BY <1>1, InlineFiber, GenSet

LEMMA EffectDeliveryMoves ==
  ASSUME StoreInv, StoreInv', SchedInv, SettleInv, GenInv, EffectStop \/ EffectSteer
  PROVE  StoreMoves /\ Quiet /\ GenInv'
  <1>1. exec' = exec /\ step' = step /\ attempt' = attempt
    BY DEF EffectStop, StopTurn, EffectSteer, SteerTurn, storeVars
  <1>2. StoreMoves /\ Quiet /\ RowMoves
    BY <1>1, StoreStays DEF StoreMoves
  <1>3. CASE LeaveLoop(TRUE)
    BY <1>2, <1>3, GenLeft
  <1>4. CASE SetJob(Inline, [job[Inline] EXCEPT !.pc = "ack"]) /\ sched' = sched
             /\ sched.pc = "inline"
    BY <1>2, <1>4, InlineSet DEF Committing
  <1> QED
    BY <1>3, <1>4 DEF EffectStop, EffectSteer

LEMMA EffectAckMoves ==
  ASSUME StoreInv, StoreInv', SchedInv, RowInv, SettleInv, GenInv, EffectAck
  PROVE  StoreMoves /\ Quiet /\ GenInv'
  <1>1. job[Inline].k \in Slots
    BY InlineFiber, JobOf DEF EffectAck, WellFormedJob
  <1>2. CASE CanAcknowledgeEffect(job[Inline].k, job[Inline].av)
    <2>1. /\ Finish(Inline, FALSE)
          /\ \E rest : AcknowledgeEffect(job[Inline].k, rest)
      BY <1>2 DEF EffectAck
    <2>2. StoreMoves /\ Quiet
      BY <1>1, <1>2, <2>1, EffectMoves DEF CanAcknowledgeEffect, AcknowledgeEffect
    <2> QED
      BY <2>1, <2>2, InlineFiber, GenFinished DEF StoreMoves
  <1>3. CASE ~CanAcknowledgeEffect(job[Inline].k, job[Inline].av)
    <2>1. LeaveLoop(TRUE) /\ UNCHANGED storeVars
      BY <1>3 DEF EffectAck
    <2> QED
      BY <2>1, RowsKeptMoves, GenLeft
  <1> QED
    BY <1>2, <1>3

LEMMA RecoverMoves ==
  ASSUME StoreInv, StoreInv', SchedInv, RowInv, SettleInv, GenInv, Recover
  PROVE  StoreMoves /\ Quiet /\ GenInv'
  <1>1. CASE LeaveLoop(TRUE) /\ UNCHANGED storeVars
    BY <1>1, RowsKeptMoves, GenLeft
  <1>2. CASE /\ sched' = [sched EXCEPT !.pc = "loop", !.boot = FALSE]
             /\ UNCHANGED <<storeVars, snap, job, orphan>>
    <2>1. sched'.pc = "loop" /\ ~sched'.boot
      BY <1>2 DEF SchedInv, LoopInv, Generation
    <2>2. StoreMoves /\ Quiet /\ RowMoves
      BY <1>2, RowsKeptMoves
    <2>3. Pinned'
      BY <1>2, <2>2, PinnedKept DEF GenInv
    <2> QED
      BY <2>1, <2>2, <2>3 DEF GenInv, SnapTrue, Judging, BootStale
  <1>3. ASSUME NEW k \in Slots, CanReconcileRecovered(k), ReconcileRecovered(k),
               UNCHANGED <<sched, snap, job, orphan>>
        PROVE  StoreMoves /\ Quiet /\ GenInv'
    <2>1. StoreMoves /\ Quiet /\ RowMoves
      BY <1>3, ReconcileRecoveredMoves DEF StoreMoves
    <2>2. Pinned'
      BY <1>3, <2>1, PinnedKept DEF GenInv
    <2>3. sched.pc = "recover"
      BY DEF Recover
    <2> QED
      BY <1>3, <2>1, <2>2, <2>3 DEF GenInv, SnapTrue, Judging, BootStale
  <1> QED
    BY <1>1, <1>2, <1>3 DEF Recover

LEMMA LoopTopMoves ==
  ASSUME StoreInv, StoreInv', SchedInv, OwnInv, SettleInv, GenInv, LoopTop
  PROVE  StoreMoves /\ Quiet /\ GenInv'
  <1>1. StoreMoves /\ Quiet /\ RowMoves /\ step' = step /\ blockers' = blockers
    BY RowsKeptMoves DEF LoopTop, storeVars
  <1>2. CASE \E restart : LeaveLoop(restart)
    BY <1>1, <1>2, GenLeft
  <1>3. CASE Goto("wait") /\ UNCHANGED <<snap, job, orphan>>
    BY <1>1, <1>3, GenGoto
  <1>4. CASE /\ snap'.blocked = {s \in Steps : Blocked(s)}
             /\ snap'.settled = SettledStatus
             /\ sched' = [sched EXCEPT !.pc = "effects", !.fresh = TRUE]
             /\ UNCHANGED <<job, orphan>>
    <2>1. ~sched'.boot
      <3>1. ~sched.boot
        BY InLoop DEF LoopTop
      <3> QED
        BY <1>4, <3>1 DEF SchedInv, LoopInv, Generation
    <2>2. Pinned'
      BY <1>1, <1>4, PinnedKept DEF GenInv
    <2>3. \A s \in snap'.blocked : step'[s].status = "pending"
      BY <1>1, <1>4 DEF Blocked
    <2>4. SettledStatus' = SettledStatus
      BY <1>1 DEF SettledStatus, Current
    <2> QED
      BY <1>1, <1>4, <2>1, <2>2, <2>3, <2>4 DEF GenInv, SnapTrue, BootStale
  <1>5. CASE snap' = [blocked |-> {s \in Steps : Blocked(s)},
                      ready |-> Ready,
                      timed |-> {s \in Steps : Timed(s)},
                      room |-> Room,
                      settled |-> SettledStatus,
                      waiting |-> WaitingAttempts # {}]
    <2>1. snap'.blocked = {s \in Steps : Blocked(s)} /\ snap'.settled = SettledStatus
      BY <1>5
    <2> QED
      BY <1>2, <1>3, <1>4, <2>1 DEF LoopTop
  <1> QED
    BY <1>2, <1>3, <1>5 DEF LoopTop

\* A step that was blocked in a snapshot that is still current is pending.
LEMMA SkipBlockedMoves ==
  ASSUME StoreInv, StoreInv', SchedInv, RowInv, SettleInv, GenInv, SkipBlocked
  PROVE  StoreMoves /\ Quiet /\ GenInv'
  <1>1. CASE LeaveLoop(TRUE) /\ UNCHANGED storeVars
    BY <1>1, RowsKeptMoves, GenLeft
  <1>2. ASSUME NEW s \in snap.blocked, sched.fresh, CanTransitionStep(s, step[s].version),
               TransitionStep(s, "skipped"), Goto("loop"), job' = job
        PROVE  StoreMoves /\ Quiet /\ GenInv'
    <2>1. s \in Steps
      BY DEF SchedInv, LoopInv, Snapshot
    <2>2. step[s].status = "pending"
      BY <1>2 DEF GenInv, SnapTrue, Judging, SkipBlocked
    <2>3. StoreMoves /\ Quiet
      BY <1>2, <2>1, <2>2, TransitionStepMoves
    <2> QED
      BY <1>2, <2>3, GenGoto DEF StoreMoves
  <1> QED
    BY <1>1, <1>2 DEF SkipBlocked

LEMMA DispatchMoves ==
  ASSUME StoreInv, StoreInv', SchedInv, SettleInv, GenInv, Dispatch
  PROVE  StoreMoves /\ Quiet /\ GenInv'
  <1>1. StoreMoves /\ Quiet /\ RowMoves /\ step' = step /\ sched.pc = "pass"
    BY RowsKeptMoves DEF Dispatch, storeVars
  <1>2. PICK pick \in SUBSET Due :
          /\ job' = [f \in Fibers |-> IF f \in pick THEN [Idle EXCEPT !.pc = "new"] ELSE job[f]]
          /\ IF InFlight \cup pick # {}
             THEN Goto("wait") /\ snap' = NoSnapshot
             ELSE Goto("rest") /\ UNCHANGED snap
    BY DEF Dispatch
  <1>3. \A f \in Fibers : job'[f].pc \in Committing => job'[f] = job[f]
    BY <1>2 DEF Idle, Committing
  <1>4. CASE InFlight \cup pick # {}
    BY <1>1, <1>2, <1>3, <1>4, GenGoto
  <1>5. CASE InFlight \cup pick = {}
    BY <1>1, <1>2, <1>3, <1>5, GenGoto
  <1> QED
    BY <1>1, <1>4, <1>5

\* When every step of the plan is settled nothing is in flight, and the
\* execution runs.
LEMMA SettledPlan ==
  ASSUME StoreInv, RowInv, SettleInv, SettledStatus # "none"
  PROVE  /\ \A s \in Current : step[s].status \in TerminalStep
         /\ \A k \in Slots : attempt[k].status \notin ActiveAttempt
         /\ exec.status # "waiting_input"
         /\ SettledStatus = "completed" => \A s \in Current : step[s].status = "completed"
  <1>1. \A s \in Current : step[s].status \in TerminalStep
    BY DEF SettledStatus
  <1>2. ASSUME NEW k \in Slots, attempt[k].status \in ActiveAttempt
        PROVE  FALSE
    <2>1. k[1] \in Current
      BY <1>2, SlotStep DEF RowInv, RowsAgree, Current
    <2>2. step[k[1]].status \in {"pending", "running", "waiting_input"}
      BY <1>2 DEF RowInv, RowsAgree, ActiveAttempt
    <2> QED
      BY <1>1, <2>1, <2>2 DEF TerminalStep
  <1>3. exec.status # "waiting_input"
    BY <1>2 DEF SettleInv, WaitingAsks, ActiveAttempt
  <1>4. SettledStatus = "completed" => \A s \in Current : step[s].status = "completed"
    BY DEF SettledStatus
  <1> QED
    BY <1>1, <1>2, <1>3, <1>4

\* finalize_if_settled: the snapshot is current, so its verdict is the one
\* the steps justify now.
LEMMA FinalizeMoves ==
  ASSUME StoreInv, SchedInv, RowInv, SettleInv, GenInv, sched.pc = "rest",
         snap.settled # "none", CanFinalize, UpdateStatus(snap.settled)
  PROVE  StoreMoves /\ Quiet
  <1>1. snap.settled = SettledStatus
    BY DEF GenInv, SnapTrue, Judging, CanFinalize
  <1>2. exec.status = "running"
    BY <1>1, SettledPlan DEF CanFinalize, SchedulerFence, Active, ActiveExecution
  <1>3. snap.settled \in TerminalExecution
    BY DEF SchedInv, LoopInv, Snapshot
  <1>4. CanExecution(exec.status, snap.settled) /\ snap.settled # "waiting_input"
    BY <1>2, <1>3, ExecutionTable DEF TerminalExecution
  <1>5. StoreMoves
    BY <1>1, <1>4, SettledPlan, UpdateStatusMoves
  <1>6. ~Terminal
    BY <1>2 DEF Terminal, TerminalExecution
  <1> QED
    BY <1>5, <1>6 DEF Quiet

LEMMA RestMoves ==
  ASSUME StoreInv, StoreInv', SchedInv, RowInv, SettleInv, GenInv, Rest
  PROVE  StoreMoves /\ Quiet /\ GenInv'
  <1>1. CASE UNCHANGED storeVars /\ \E restart : LeaveLoop(restart)
    BY <1>1, RowsKeptMoves, GenLeft
  <1>2. CASE snap.settled # "none" /\ CanFinalize /\ UpdateStatus(snap.settled)
             /\ LeaveLoop(FALSE)
    BY <1>2, FinalizeMoves, GenLeft DEF Rest
  <1>3. CASE /\ Goto("sleep") \/ Goto("fail")
             /\ UNCHANGED <<storeVars, job, orphan>>
    BY <1>3, RowsKeptMoves, GenGoto
  <1> QED
    BY <1>1, <1>2, <1>3 DEF Rest

LEMMA LoopEndsMoves ==
  ASSUME StoreInv, StoreInv', SchedInv, RowInv, SettleInv, GenInv,
         Wake \/ FailIfActive \/ WaitAborted
  PROVE  StoreMoves /\ Quiet /\ GenInv'
  <1>1. CASE Wake
    BY <1>1, RowsKeptMoves, GenGoto DEF Wake
  <1>2. CASE UNCHANGED storeVars /\ LeaveLoop(FALSE)
    BY <1>2, RowsKeptMoves, GenLeft
  <1>3. CASE SchedulerFence /\ FailActiveExecution /\ LeaveLoop(FALSE)
    <2>1. exec.status \in ActiveExecution /\ exec'.status = "failed"
      BY <1>3 DEF SchedulerFence, Active, FailActiveExecution, WithStatus, StoreInv, StoreTypeOK,
                  ExecutionRow
    <2>2. /\ ~Terminal /\ exec'.status \in TerminalExecution
          /\ CanExecution(exec.status, exec'.status)
      BY <2>1, ExecutionTable DEF Terminal, ActiveExecution, TerminalExecution
    <2>3. StoreMoves
      BY <1>3, <2>1, <2>2, TerminateMoves DEF FailActiveExecution
    <2> QED
      BY <1>3, <2>2, <2>3, GenLeft DEF Quiet
  <1> QED
    BY <1>1, <1>2, <1>3 DEF FailIfActive, WaitAborted

LEMMA ClockStepMoves ==
  ASSUME StoreInv, StoreInv', SchedInv, RowInv, SettleInv, GenInv, ClockStep
  PROVE  StoreMoves /\ Quiet /\ GenInv'
  <1>1. CASE HeartbeatRenew \/ LeaseExpires \/ HeartbeatLost
    <2>1. /\ exec'.status = exec.status /\ step' = step /\ attempt' = attempt
          /\ job' = job /\ snap' = snap
      BY <1>1 DEF HeartbeatRenew, RenewLease, LeaseExpires, HeartbeatLost, storeVars, schedVars,
                  StoreInv, StoreTypeOK, ExecutionRow
    <2>2. sched'.pc = sched.pc /\ sched'.boot = sched.boot /\ sched'.fresh = sched.fresh
      BY <1>1 DEF HeartbeatRenew, LeaseExpires, HeartbeatLost, schedVars, SchedInv, LoopInv,
                  Generation
    <2>3. StoreMoves /\ Quiet /\ RowMoves
      BY <2>1, StoreStays DEF StoreMoves
    <2> QED
      BY <2>1, <2>2, <2>3, GenStays
  <1>2. CASE BackoffOver
    <2>1. /\ StoreMoves /\ Quiet /\ RowMoves
          /\ \A s \in Steps :
               step'[s].status = step[s].status /\ step'[s].current = step[s].current
      BY <1>2, BackoffOverMoves DEF StoreMoves
    <2>2. /\ job' = job /\ sched' = sched
          /\ snap'.blocked = snap.blocked /\ snap'.settled = snap.settled
      BY <1>2 DEF BackoffOver, SchedInv, LoopInv, Snapshot
    <2> QED
      BY <2>1, <2>2, GenStays
  <1> QED
    BY <1>1, <1>2 DEF ClockStep

-----------------------------------------------------------------------------
(* The actions of the futures.                                             *)

\* A future that leaves the rows alone ends or moves on without a pin.
LEMMA FutureMoves ==
  ASSUME StoreInv, StoreInv', SchedInv, SettleInv, GenInv, NEW f \in Fibers, Polled(f),
         UNCHANGED <<exec, step, attempt>>,
         \/ \E failed : Finish(f, failed)
         \/ \E restart : LeaveLoop(restart)
         \/ sched' = sched /\ \E row : row.pc \notin Committing /\ SetJob(f, row)
  PROVE  StoreMoves /\ Quiet /\ GenInv'
  <1>1. StoreMoves /\ Quiet /\ RowMoves
    BY StoreStays DEF StoreMoves
  <1>2. sched.pc \in {"inline", "wait"}
    BY DEF Polled
  <1> QED
    BY <1>1, <1>2, GenFinished, GenLeft, GenSet

LEMMA JobReadMoves ==
  ASSUME StoreInv, StoreInv', SchedInv, SettleInv, GenInv, NEW s \in Steps, JobRead(s)
  PROVE  StoreMoves /\ Quiet /\ GenInv'
  <1>1. s \in Fibers /\ job[s] \in Job /\ Polled(s) /\ UNCHANGED <<exec, step, attempt>>
    BY InlineFiber, JobOf DEF JobRead, storeVars
  <1>2. [job[s] EXCEPT !.pc = "create", !.sv = step[s].version].pc \notin Committing
    BY <1>1 DEF Job, Committing
  <1>3. \/ \E failed : Finish(s, failed)
        \/ sched' = sched /\ SetJob(s, [job[s] EXCEPT !.pc = "create", !.sv = step[s].version])
    BY DEF JobRead
  <1> QED
    BY <1>1, <1>2, <1>3, FutureMoves

LEMMA JobCreateMoves ==
  ASSUME StoreInv, StoreInv', SchedInv, RowInv, OwnInv, SettleInv, GenInv, NEW s \in Steps,
         JobCreate(s)
  PROVE  StoreMoves /\ Quiet /\ GenInv'
  <1>1. /\ s \in Fibers /\ job[s] \in Job /\ Polled(s) /\ sched.pc = "wait"
        /\ job[s].pc = "create"
    BY InlineFiber, JobOf, PolledStep DEF JobCreate
  <1>2. CASE Finish(s, TRUE) /\ UNCHANGED storeVars
    BY <1>1, <1>2, FutureMoves DEF storeVars
  <1>3. ASSUME NEW k \in SlotsOf(s), CanCreateAttempt(s, job[s].sv), FreshSlot(k),
               CreateAttempt(k), sched' = sched,
               SetJob(s, [job[s] EXCEPT !.pc = "start", !.k = k, !.sv = @ + 1, !.av = 0])
        PROVE  StoreMoves /\ Quiet /\ GenInv'
    <2> DEFINE row == [job[s] EXCEPT !.pc = "start", !.k = k, !.sv = @ + 1, !.av = 0]
    <2>1. k \in Slots /\ k[1] = s
      BY DEF SlotsOf
    <2>2. NoneQueued(s)
      BY <1>1 DEF OwnInv, Reserved
    <2>3. ~HasActiveAttempt(s)
      BY <1>3, <2>2
      DEF HasActiveAttempt, NoneQueued, SlotsOf, ActiveAttempt, CanCreateAttempt, RowInv, RowsAgree
    <2>4. StoreMoves /\ Quiet
      BY <1>3, <2>1, <2>3, CreateAttemptMoves
    <2>5. row.pc = "start"
      BY <1>1 DEF Job
    <2>6. SetJob(s, row)
      BY <1>3
    <2> HIDE DEF row
    <2>7. GenInv'
      BY <1>1, <1>3, <2>4, <2>5, <2>6, GenSet DEF StoreMoves, Committing
    <2> QED
      BY <2>4, <2>7
  <1> QED
    BY <1>2, <1>3 DEF JobCreate

LEMMA JobStartMoves ==
  ASSUME StoreInv, StoreInv', SchedInv, RowInv, OwnInv, SettleInv, GenInv, NEW s \in Steps,
         JobStart(s)
  PROVE  StoreMoves /\ Quiet /\ GenInv'
  <1> DEFINE j == job[s]
  <1>1. /\ s \in Fibers /\ j \in Job /\ Polled(s) /\ sched' = sched /\ sched.pc = "wait"
        /\ j.k \in Slots
    BY InlineFiber, JobOf, PolledStep DEF JobStart, WellFormedJob
  <1>2. CASE SetJob(s, [j EXCEPT !.pc = "settle", !.out = "error"]) /\ UNCHANGED storeVars
    <2>1. [j EXCEPT !.pc = "settle", !.out = "error"].pc \notin Committing
      BY <1>1 DEF Job, Committing
    <2> QED
      BY <1>1, <1>2, <2>1, FutureMoves DEF storeVars
  <1>3. CASE /\ CanStartAttempt(j.k, j.sv, j.av) /\ StartAttempt(j.k)
             /\ SetJob(s, [j EXCEPT !.pc = "claim", !.op = InitialTurn, !.sv = @ + 1, !.av = @ + 1])
    <2> DEFINE row == [j EXCEPT !.pc = "claim", !.op = InitialTurn, !.sv = @ + 1, !.av = @ + 1]
    <2>1. StoreMoves /\ Quiet
      BY <1>1, <1>3, StartAttemptMoves
    <2>2. row.pc = "claim"
      BY <1>1 DEF Job
    <2>3. SetJob(s, row)
      BY <1>3
    <2> HIDE DEF row
    <2>4. GenInv'
      BY <1>1, <2>1, <2>2, <2>3, GenSet DEF StoreMoves, Committing
    <2> QED
      BY <2>1, <2>4
  <1> QED
    BY <1>2, <1>3 DEF JobStart

LEMMA JobDeliveryMoves ==
  ASSUME StoreInv, StoreInv', SchedInv, SettleInv, GenInv, NEW f \in Fibers,
         JobClaim(f) \/ JobLaunch(f) \/ JobAwait(f)
  PROVE  StoreMoves /\ Quiet /\ GenInv'
  <1>1. job[f] \in Job /\ Polled(f) /\ UNCHANGED <<exec, step, attempt>>
    BY JobOf DEF JobClaim, ClaimTurn, JobLaunch, FinishTurn, JobAwait, storeVars
  <1>2. /\ \A pc \in {"launch", "await"} : [job[f] EXCEPT !.pc = pc].pc \notin Committing
        /\ \A out : [job[f] EXCEPT !.pc = "settle", !.out = out].pc \notin Committing
    BY <1>1 DEF Job, Committing
  <1>3. \/ \E failed : Finish(f, failed)
        \/ \E restart : LeaveLoop(restart)
        \/ sched' = sched /\ \E pc \in {"launch", "await"} : SetJob(f, [job[f] EXCEPT !.pc = pc])
        \/ sched' = sched
             /\ \E out : SetJob(f, [job[f] EXCEPT !.pc = "settle", !.out = out])
    BY DEF JobClaim, JobLaunch, JobAwait
  <1> QED
    BY <1>1, <1>2, <1>3, FutureMoves

\* settle_agent_outcome pins the attempt it found queued or running.
LEMMA PinSet ==
  ASSUME StoreInv, StoreInv', SchedInv, SettleInv, GenInv, NEW f \in Fibers, Polled(f),
         UNCHANGED storeVars, sched' = sched, job[f].k \in Slots,
         attempt[job[f].k].status \in {"queued", "running"}, NEW row, SetJob(f, row),
         row.k = job[f].k, row.pav = attempt[job[f].k].version
  PROVE  StoreMoves /\ Quiet /\ GenInv'
  <1>1. StoreMoves /\ Quiet /\ RowMoves /\ attempt' = attempt
    BY RowsKeptMoves DEF storeVars
  <1>2. sched.pc \in {"inline", "wait"}
    BY DEF Polled
  <1>3. attempt[row.k].version \in Nat
    BY RowsOf DEF AttemptRow
  <1>4. row.pav <= attempt'[row.k].version /\ attempt'[row.k].status \in {"queued", "running"}
    BY <1>1, <1>3
  <1>5. GenInv'
    BY <1>1, <1>2, <1>4, GenSet
  <1> QED
    BY <1>1, <1>5

LEMMA JobSettleMoves ==
  ASSUME StoreInv, StoreInv', SchedInv, SettleInv, GenInv, NEW f \in Fibers, JobSettle(f)
  PROVE  StoreMoves /\ Quiet /\ GenInv'
  <1> DEFINE k == job[f].k
             row == [job[f] EXCEPT !.pc = "commit", !.psv = step[k[1]].version,
                                   !.pav = attempt[k].version, !.out = VerdictOf(f)]
  <1>1. job[f] \in Job /\ k \in Slots /\ Polled(f) /\ UNCHANGED storeVars
    BY JobOf DEF JobSettle, WellFormedJob
  <1>2. row.k = k /\ row.pav = attempt[k].version
    BY <1>1 DEF Job
  <1>3. \/ Finish(f, TRUE) \/ Finish(f, FALSE)
        \/ attempt[k].status \in {"queued", "running"} /\ sched' = sched /\ SetJob(f, row)
    BY DEF JobSettle
  <1> HIDE DEF row
  <1>4. CASE Finish(f, TRUE) \/ Finish(f, FALSE)
    BY <1>1, <1>4, FutureMoves DEF storeVars
  <1>5. CASE attempt[k].status \in {"queued", "running"} /\ sched' = sched /\ SetJob(f, row)
    BY <1>1, <1>2, <1>5, PinSet
  <1> QED
    BY <1>3, <1>4, <1>5

LEMMA JobRecheckMoves ==
  ASSUME StoreInv, StoreInv', SchedInv, SettleInv, GenInv, NEW f \in Fibers, JobRecheck(f)
  PROVE  StoreMoves /\ Quiet /\ GenInv'
  <1>1. job[f] \in Job /\ job[f].k \in Slots /\ Polled(f) /\ UNCHANGED storeVars
    BY JobOf DEF JobRecheck, WellFormedJob
  <1>2. CASE \E failed : Finish(f, failed)
    BY <1>1, <1>2, FutureMoves DEF storeVars
  <1>3. ASSUME NEW psv, SameGeneration(f), sched' = sched,
               SetJob(f, [job[f] EXCEPT !.pc = "recommit", !.psv = psv,
                                        !.pav = attempt[job[f].k].version])
        PROVE  StoreMoves /\ Quiet /\ GenInv'
    <2> DEFINE row == [job[f] EXCEPT !.pc = "recommit", !.psv = psv,
                                     !.pav = attempt[job[f].k].version]
    <2>1. row.k = job[f].k /\ row.pav = attempt[job[f].k].version
      BY <1>1 DEF Job
    <2>2. SetJob(f, row)
      BY <1>3
    <2>3. attempt[job[f].k].status \in {"queued", "running"}
      BY <1>3 DEF SameGeneration
    <2> HIDE DEF row
    <2> QED
      BY <1>1, <1>3, <2>1, <2>2, <2>3, PinSet
  <1> QED
    BY <1>2, <1>3 DEF JobRecheck

\* A settlement commits only on the attempt it was pinned to, which is then
\* queued or running: never on one that is parked.
LEMMA CommitMoves ==
  ASSUME StoreInv, StoreInv', SchedInv, RowInv, SettleInv, GenInv, NEW f \in Fibers, Polled(f),
         job[f].pc \in Committing, CanCommit(f), Commit(f)
  PROVE  StoreMoves /\ Quiet /\ GenInv'
  <1> DEFINE k == job[f].k
             to == AttemptTo(job[f].out)
             stepTo == StepTo(job[f].out)
             after == RetryAt(job[f].out)
  <1>1. k \in Slots /\ job[f].out \in Verdict
    BY JobOf DEF WellFormedJob, Committing
  <1>2. /\ to \in {"completed", "failed", "cancelled"} /\ stepTo \in {"completed", "failed", "pending"}
        /\ after \in DispatchAfter /\ (after = "future" => stepTo = "pending")
        /\ to = "cancelled" => stepTo # "completed"
    BY <1>1 DEF Verdict, AttemptTo, StepTo, RetryAt, DispatchAfter
  <1>3. CanSettleAttempt(k, job[f].psv, job[f].pav, to) /\ SettleAttempt(k, to, stepTo, after)
    BY DEF CanCommit, Commit
  <1>4. attempt[k].status \in {"queued", "running"}
    BY <1>3 DEF CanSettleAttempt, GenInv, Pinned, PinHolds
  <1> HIDE DEF to, stepTo, after
  <1>5. StoreMoves /\ Quiet
    BY <1>1, <1>2, <1>3, <1>4, SettleAttemptMoves
  <1>6. GenInv'
    BY <1>5, GenFinished DEF Commit, StoreMoves
  <1> QED
    BY <1>5, <1>6

LEMMA JobCommitMoves ==
  ASSUME StoreInv, StoreInv', SchedInv, RowInv, SettleInv, GenInv, NEW f \in Fibers,
         JobCommit(f) \/ JobRecommit(f)
  PROVE  StoreMoves /\ Quiet /\ GenInv'
  <1>1. job[f] \in Job /\ Polled(f) /\ job[f].pc \in Committing
    BY JobOf DEF JobCommit, JobRecommit, Committing
  <1>2. CASE CanCommit(f)
    BY <1>1, <1>2, CommitMoves DEF JobCommit, JobRecommit
  <1>3. CASE ~CanCommit(f)
    <2>1. [job[f] EXCEPT !.pc = "recheck"].pc \notin Committing
      BY <1>1 DEF Job, Committing
    <2>2. /\ UNCHANGED <<exec, step, attempt>>
          /\ \/ Finish(f, TRUE)
             \/ sched' = sched /\ SetJob(f, [job[f] EXCEPT !.pc = "recheck"])
      BY <1>3 DEF JobCommit, JobRecommit, storeVars
    <2> QED
      BY <1>1, <2>1, <2>2, FutureMoves
  <1> QED
    BY <1>2, <1>3

LEMMA SchedulerNextMoves ==
  ASSUME StoreInv, StoreInv', SchedInv, RowInv, OwnInv, SettleInv, GenInv, SchedulerNext
  PROVE  StoreMoves /\ Quiet /\ GenInv'
  <1>1. CASE LoopStep
    BY <1>1, AcquireMoves, PublishMoves, EffectReadMoves, EffectDeliveryMoves, EffectAckMoves,
       RecoverMoves, LoopTopMoves, SkipBlockedMoves, DispatchMoves, RestMoves, LoopEndsMoves,
       EndMoves DEF LoopStep
  <1>2. ASSUME NEW s \in Steps, DispatchStep(s)
        PROVE  StoreMoves /\ Quiet /\ GenInv'
    BY <1>2, JobReadMoves, JobCreateMoves, JobStartMoves DEF DispatchStep
  <1>3. ASSUME NEW f \in Fibers, FiberStep(f)
        PROVE  StoreMoves /\ Quiet /\ GenInv'
    BY <1>3, JobDeliveryMoves, JobSettleMoves, JobRecheckMoves, JobCommitMoves DEF FiberStep
  <1>4. CASE \/ \E k \in Slots : TurnStep(k)
             \/ \E a \in orphan : Abandon(a)
    <2>1. UNCHANGED <<exec, step, attempt>> /\ UNCHANGED <<sched, snap, job>>
      BY <1>4 DEF TurnStep, CleanupConversation, StopTurn, TurnEnds, Abandon, FinishTurn
    <2>2. StoreMoves /\ Quiet /\ RowMoves
      BY <2>1, StoreStays DEF StoreMoves
    <2> QED
      BY <2>1, <2>2, GenStays
  <1> QED
    BY <1>1, <1>2, <1>3, <1>4, ClockStepMoves DEF SchedulerNext

LEMMA CrashAndRestartMoves ==
  ASSUME StoreInv, StoreInv', SchedInv, SettleInv, CrashAndRestart
  PROVE  StoreMoves /\ Quiet /\ GenInv'
  <1>1. exec'.status = exec.status /\ step' = step /\ attempt' = attempt
    BY DEF CrashAndRestart, StoreInv, StoreTypeOK, ExecutionRow
  <1>2. StoreMoves /\ Quiet
    BY <1>1, StoreStays
  <1>3. ~sched'.fresh /\ \A f \in Fibers : job'[f].pc = "idle"
    BY DEF CrashAndRestart, NewGeneration, NoGeneration, IdleJobs, Idle
  <1> QED
    BY <1>2, <1>3 DEF GenInv, Pinned, Committing, SnapTrue, Judging, BootStale

-----------------------------------------------------------------------------
(* The commands.                                                           *)

\* Between two settled states the rows keep their statuses.
SettledKept ==
  Terminal /\ Terminal' =>
    /\ \A s \in Steps : step'[s].status = step[s].status
    /\ \A k \in Slots : attempt'[k].status = attempt[k].status

\* A settled execution is left alone or a user acts on it, and a cancelled
\* one can only be deleted.
UsersOnly ==
  \/ Quiet
  \/ left'.commands < left.commands /\ (exec.status = "cancelled" => exec'.deleted)

LEMMA QuietKeeps == Quiet => SettledKept /\ UsersOnly
  BY DEF Quiet, SettledKept, UsersOnly

LEMMA CommittedMoves ==
  ASSUME StoreInv, StoreInv', SchedInv, GenInv, StoreMoves, NEW continuations,
         Committed(continuations)
  PROVE  GenInv'
  <1>1. ~sched'.fresh /\ job' = job
    BY DEF Committed, StaleSnapshot, SchedInv, LoopInv, Generation
  <1> QED
    BY <1>1, GenStale DEF StoreMoves

LEMMA IssueMoves ==
  ASSUME StoreInv, StoreInv', SchedInv, GenInv, StoreMoves, NEW command, NEW continuations,
         Issue(command, continuations), exec.status = "cancelled" => exec'.deleted
  PROVE  GenInv' /\ UsersOnly
  <1>1. left'.commands < left.commands
    <2>1. left.commands \in Int /\ left'.commands = left.commands - 1
      BY BudgetAssumption DEF Issue, SchedInv
    <2> QED
      BY <2>1
  <1> QED
    BY <1>1, CommittedMoves DEF Issue, UsersOnly

LEMMA PlanningMoves ==
  ASSUME StoreInv, StoreInv', SchedInv, RowInv, OwnInv, SettleInv, GenInv, Planning
  PROVE  StoreMoves /\ Quiet /\ GenInv'
  <1>1. exec.status = "planning" /\ ~Terminal
    BY DEF Planning, PlanInitial, PlanFails, Terminal, TerminalExecution
  <1>2. CASE PlanInitial
    <2>1. PICK plan \in Plans, status \in PlannedStatus :
            /\ CanReconcilePlan({}, plan) /\ ReconcilePlan({}, plan, status)
            /\ Committed(IF status = "running" THEN {Then("start")} ELSE {})
      BY <1>2 DEF PlanInitial
    <2>2. /\ status \in ExecutionStatus
          /\ status \notin TerminalExecution \cup {"planning", "waiting_input"}
          /\ status # "paused"
      BY DEF PlannedStatus, ExecutionStatus, TerminalExecution
    <2>3. CanExecution(exec.status, status)
      BY <1>1, ExecutionTable DEF PlannedStatus, ExecutionStatus, TerminalExecution
    <2>4. StoreMoves
      BY <2>1, <2>2, <2>3, ReconcilePlanMoves
    <2> QED
      BY <1>1, <2>1, <2>4, CommittedMoves DEF Quiet
  <1>3. CASE PlanFails
    <2>1. /\ \A k \in Slots : attempt[k].status \notin ActiveAttempt
          /\ Current = {}
      BY <1>1, SlotStep DEF RowInv, PlanningIsEmpty, Current, RowsAgree
    <2>2. CanExecution(exec.status, "failed")
      BY <1>1, ExecutionTable DEF ExecutionStatus, TerminalExecution
    <2>3. StoreMoves
      BY <1>3, <2>1, <2>2, UpdateStatusMoves DEF PlanFails
    <2> QED
      BY <1>1, <1>3, <2>3, CommittedMoves DEF PlanFails, Quiet
  <1> QED
    BY <1>2, <1>3 DEF Planning

\* Terminating a settled execution again changes no status.
LEMMA TerminateAgain ==
  ASSUME StoreInv, SettleInv, Terminal, TerminateChildren
  PROVE  /\ \A s \in Steps : step'[s].status = step[s].status
         /\ \A k \in Slots : attempt'[k].status = attempt[k].status
  <1>1. \A s \in Steps : step'[s] = step[s]
    BY DEF TerminateChildren, SettleInv, SettledIsJustified, Current
  <1>2. \A k \in Slots : attempt'[k] = [attempt[k] EXCEPT !.link = FALSE]
    BY DEF TerminateChildren, SettleInv, SettledIsJustified
  <1>3. \A k \in Slots : attempt'[k].status = attempt[k].status
    BY <1>2 DEF StoreInv, StoreTypeOK, AttemptRow
  <1> QED
    BY <1>1, <1>3

LEMMA ExecutionCommandMoves ==
  ASSUME StoreInv, StoreInv', SchedInv, RowInv, SettleInv, GenInv,
         Approve \/ Pause \/ Resume \/ Cancel \/ Delete
  PROVE  StoreMoves /\ SettledKept /\ UsersOnly /\ GenInv'
  <1>1. CASE Approve
    <2>1. /\ exec.status = "awaiting_approval" /\ ~Terminal
          /\ CanExecution(exec.status, "running") /\ "running" \notin TerminalExecution
      BY <1>1, ExecutionTable DEF Approve, Terminal, TerminalExecution, ExecutionStatus
    <2>2. StoreMoves
      BY <1>1, <2>1, UpdateStatusMoves DEF Approve
    <2> QED
      BY <1>1, <2>1, <2>2, IssueMoves DEF Approve, SettledKept
  <1>2. CASE Pause
    <2>1. exec.status \in ActiveExecution /\ ~Terminal
      BY <1>2 DEF Pause, Active, Terminal, ActiveExecution, TerminalExecution
    <2>2. StoreMoves
      BY <1>2, <2>1, PauseExecutionMoves DEF Pause
    <2>3. exec.status # "cancelled"
      BY <2>1 DEF ActiveExecution
    <2> QED
      BY <1>2, <2>1, <2>2, <2>3, IssueMoves DEF Pause, SettledKept
  <1>3. CASE Resume
    <2>1. exec.status = "paused" /\ ~Terminal
      BY <1>3 DEF Resume, CanResumeExecution, Terminal, TerminalExecution
    <2>2. StoreMoves
      BY <1>3, <2>1, ResumeExecutionMoves DEF Resume
    <2> QED
      BY <1>3, <2>1, <2>2, IssueMoves DEF Resume, SettledKept
  <1>4. CASE Cancel
    <2>1. exec'.status = "cancelled" /\ ~Terminal
      BY <1>4 DEF Cancel, CancelExecution, WithStatus, StoreInv, StoreTypeOK, ExecutionRow
    <2>2. exec.status \in ExecutionStatus \ TerminalExecution /\ exec.status # "cancelled"
      BY <2>1 DEF Terminal, TerminalExecution, StoreInv, StoreTypeOK, ExecutionRow
    <2>3. StoreMoves
      BY <1>4, <2>1, <2>2, ExecutionTable, TerminateMoves
      DEF Cancel, CancelExecution, TerminalExecution
    <2> QED
      BY <1>4, <2>1, <2>2, <2>3, IssueMoves DEF Cancel, SettledKept
  <1>5. CASE Delete
    <2>1. /\ exec'.status = IF Terminal THEN exec.status ELSE "cancelled"
          /\ exec'.deleted /\ TerminateChildren
      BY <1>5 DEF Delete, DeleteExecution, WithStatus, StoreInv, StoreTypeOK, ExecutionRow
    <2>2. exec.status \in ExecutionStatus
      BY DEF StoreInv, StoreTypeOK, ExecutionRow
    <2>3. exec'.status \in TerminalExecution
      BY <2>1 DEF Terminal, TerminalExecution
    <2>4. CanExecution(exec.status, exec'.status)
      BY <2>1, <2>2, ExecutionTable DEF Terminal
    <2>5. StoreMoves
      BY <2>1, <2>3, <2>4, TerminateMoves
    <2>6. SettledKept
      BY <2>1, TerminateAgain DEF SettledKept
    <2> QED
      BY <1>5, <2>1, <2>5, <2>6, IssueMoves DEF Delete
  <1> QED
    BY <1>1, <1>2, <1>3, <1>4, <1>5

LEMMA PlanCommandMoves ==
  ASSUME StoreInv, StoreInv', SchedInv, RowInv, SettleInv, GenInv, Replan \/ Adjust
  PROVE  StoreMoves /\ SettledKept /\ UsersOnly /\ GenInv'
  <1>1. ~Terminal /\ exec.status \in ExecutionStatus \ TerminalExecution
    BY DEF Replan, Adjust, CanReconcilePlan, Terminal, StoreInv, StoreTypeOK, ExecutionRow
  <1>2. exec.status # "cancelled"
    BY <1>1 DEF TerminalExecution
  <1>3. StoreMoves
    <2>1. CASE Replan
      <3>1. PICK plan \in Plans, status \in PlannedStatus :
              CanReconcilePlan({}, plan) /\ ReconcilePlan({}, plan, status)
        BY <2>1 DEF Replan
      <3>2. /\ status \in ExecutionStatus
            /\ status \notin TerminalExecution \cup {"planning", "waiting_input"}
            /\ status # "paused"
        BY DEF PlannedStatus, ExecutionStatus, TerminalExecution
      <3>3. CanExecution(exec.status, status)
        BY <1>1, ExecutionTable DEF PlannedStatus
      <3> QED
        BY <3>1, <3>2, <3>3, ReconcilePlanMoves
    <2>2. CASE Adjust
      <3>1. PICK keep \in SUBSET Current, plan \in Plans :
              CanReconcilePlan(keep, plan) /\ ReconcilePlan(keep, plan, exec.status)
        BY <2>2 DEF Adjust
      <3>2. /\ exec.status \in ExecutionStatus
            /\ exec.status \notin TerminalExecution \cup {"planning", "waiting_input"}
            /\ CanExecution(exec.status, exec.status)
        BY <2>2, ExecutionTable DEF Adjust, ExecutionStatus, TerminalExecution
      <3> QED
        BY <3>1, <3>2, ReconcilePlanMoves
    <2> QED
      BY <2>1, <2>2
  <1> QED
    BY <1>1, <1>2, <1>3, IssueMoves DEF Replan, Adjust, SettledKept

LEMMA StepCommandMoves ==
  ASSUME StoreInv, StoreInv', SchedInv, RowInv, SettleInv, GenInv,
         \/ \E s \in Steps : Retry(s)
         \/ \E k \in Slots : Adopt(k) \/ Steer(k) \/ Answer(k) \/ RequestUserDecision(k)
  PROVE  StoreMoves /\ SettledKept /\ UsersOnly /\ GenInv'
  <1>1. ASSUME NEW s \in Steps, Retry(s)
        PROVE  StoreMoves /\ SettledKept /\ UsersOnly /\ GenInv'
    <2>1. StoreMoves
      BY <1>1, ResetForRetryMoves DEF Retry
    <2>2. exec'.status = "running"
      BY <1>1 DEF Retry, ResetForRetry, StoreInv, StoreTypeOK, ExecutionRow
    <2>3. exec.status # "cancelled" /\ ~Terminal'
      BY <1>1, <2>2
      DEF Retry, CanResetForRetry, Terminal, ActiveExecution, TerminalExecution
    <2> QED
      BY <1>1, <2>1, <2>3, IssueMoves DEF Retry, SettledKept
  <1>2. ASSUME NEW k \in Slots, Adopt(k)
        PROVE  StoreMoves /\ SettledKept /\ UsersOnly /\ GenInv'
    <2>1. StoreMoves
      BY <1>2, AdoptOutputMoves DEF Adopt
    <2>2. exec'.status = Reopens(exec.status)
      BY <1>2 DEF Adopt, AdoptOutput, StoreInv, StoreTypeOK, ExecutionRow
    <2>3. exec.status # "cancelled" /\ ~Terminal'
      BY <1>2, <2>2
      DEF Adopt, CanAdoptOutput, Reopens, Terminal, ActiveExecution, TerminalExecution
    <2> QED
      BY <1>2, <2>1, <2>3, IssueMoves DEF Adopt, SettledKept
  <1>3. ASSUME NEW k \in Slots, Steer(k)
        PROVE  StoreMoves /\ SettledKept /\ UsersOnly /\ GenInv'
    <2>1. StoreMoves /\ Quiet
      BY <1>3, EffectMoves DEF Steer, CanEnqueueSteer, EnqueueSteer
    <2> QED
      BY <1>3, <2>1, QuietKeeps, CommittedMoves DEF Steer, Issue
  <1>4. ASSUME NEW k \in Slots, Answer(k)
        PROVE  StoreMoves /\ SettledKept /\ UsersOnly /\ GenInv'
    <2>1. StoreMoves /\ Quiet
      BY <1>4, ResumeWaitingMoves DEF Answer
    <2> QED
      BY <1>4, <2>1, QuietKeeps, CommittedMoves DEF Answer, Issue
  <1>5. ASSUME NEW k \in Slots, RequestUserDecision(k)
        PROVE  StoreMoves /\ SettledKept /\ UsersOnly /\ GenInv'
    <2>1. StoreMoves /\ Quiet
      BY <1>5, AskDecisionMoves DEF RequestUserDecision, SchedulerFence
    <2> QED
      BY <1>5, <2>1, QuietKeeps, CommittedMoves DEF RequestUserDecision
  <1> QED
    BY <1>1, <1>2, <1>3, <1>4, <1>5

LEMMA ContinueMoves ==
  ASSUME TypeInv, StoreInv', RowInv, SettleInv, GenInv, NEW p \in post, Continue(p)
  PROVE  StoreMoves /\ Quiet /\ GenInv'
  <1>1. StoreInv /\ SchedInv /\ (p.do \in {"steer", "stop_turn", "ack"} => p.k \in Slots)
    BY DEF TypeInv, PostInv
  <1>2. CASE PostStart(p) \/ PostStop(p)
    <2>1. UNCHANGED storeVars /\ snap' = snap /\ job' = job
          /\ sched' \in {sched, NewGeneration, [sched EXCEPT !.restart = TRUE],
                         [sched EXCEPT !.cancel = TRUE]}
      BY <1>2 DEF PostStart, Started, PostStop, Stopped
    <2>2. \/ ~sched'.fresh
          \/ sched'.pc = sched.pc /\ sched'.boot = sched.boot /\ sched'.fresh = sched.fresh
      BY <1>1, <2>1 DEF NewGeneration, SchedInv, LoopInv, Generation
    <2>3. StoreMoves /\ Quiet /\ RowMoves /\ step' = step
      BY <1>1, <2>1, RowsKeptMoves DEF storeVars
    <2> QED
      BY <1>1, <2>1, <2>2, <2>3, GenStays, GenStale
  <1>3. CASE PostSteer(p) \/ PostStopTurn(p)
    <2>1. UNCHANGED <<exec, step, attempt>> /\ UNCHANGED <<sched, snap, job>>
      BY <1>3 DEF PostSteer, SteerTurn, PostStopTurn, StopTurn, storeVars, schedVars
    <2>2. StoreMoves /\ Quiet /\ RowMoves
      BY <1>1, <2>1, StoreStays DEF StoreMoves
    <2> QED
      BY <1>1, <2>1, <2>2, GenStays
  <1>4. CASE PostAck(p)
    <2>1. CASE CanAcknowledgeEffect(p.k, p.av)
      <3>1. StoreMoves /\ Quiet
        BY <1>1, <1>4, <2>1, EffectMoves DEF PostAck, CanAcknowledgeEffect, AcknowledgeEffect
      <3>2. ~sched'.fresh /\ job' = job
        BY <1>1, <1>4, <2>1 DEF PostAck, StaleSnapshot, SchedInv, LoopInv, Generation
      <3> QED
        BY <1>1, <3>1, <3>2, GenStale DEF StoreMoves
    <2>2. CASE ~CanAcknowledgeEffect(p.k, p.av)
      <3>1. UNCHANGED <<storeVars, sched, snap, job>>
        BY <1>4, <2>2 DEF PostAck
      <3>2. StoreMoves /\ Quiet /\ RowMoves /\ step' = step
        BY <1>1, <3>1, RowsKeptMoves DEF storeVars
      <3> QED
        BY <1>1, <3>1, <3>2, GenStays
    <2> QED
      BY <2>1, <2>2
  <1> QED
    BY <1>2, <1>3, <1>4 DEF Continue

-----------------------------------------------------------------------------
(* The theorems.                                                           *)

FullInv == SafeInv /\ SettleInv /\ GenInv

LEMMA InitSettle == Init => SettleInv /\ GenInv
  <1> SUFFICES ASSUME Init PROVE SettleInv /\ GenInv
    OBVIOUS
  <1>1. \A k \in Slots : attempt[k].status = "absent" /\ ~attempt[k].review
    BY DEF Init, StoreInit, NoAttempt
  <1>2. \A s \in Steps : /\ step[s].status = "absent" /\ ~step[s].current
                         /\ step[s].dispatchAfter = "none"
    BY DEF Init, StoreInit, NoStep
  <1>3. exec.status = "planning"
    BY DEF Init, StoreInit
  <1>4. SettleInv
    BY <1>1, <1>2, <1>3
    DEF SettleInv, SaneRows, StepSane, AttemptSane, QueuedNoDelay, WaitingAsks,
        SettledIsJustified, Terminal, TerminalExecution
  <1>5. \A f \in Fibers : job[f].pc = "idle"
    BY DEF Init, SchedulerInit, IdleJobs, Idle
  <1>6. ~sched.fresh
    BY DEF Init, SchedulerInit, NoGeneration, NewGeneration
  <1> QED
    BY <1>4, <1>5, <1>6 DEF GenInv, Pinned, Committing, SnapTrue, Judging, BootStale

\* What every step does to the rows, and what it leaves the loop to believe.
LEMMA NextMoves ==
  ASSUME FullInv, [Next]_allVars
  PROVE  StoreMoves /\ SettledKept /\ UsersOnly /\ GenInv'
  <1>1. TypeInv /\ StoreInv /\ SchedInv /\ RowInv /\ OwnInv /\ SettleInv /\ GenInv
    BY DEF FullInv, SafeInv, TypeInv
  <1>2. StoreInv'
    BY <1>1, NextTypeInv DEF TypeInv
  <1>3. CASE SchedulerNext /\ UNCHANGED post
    BY <1>1, <1>2, <1>3, SchedulerNextMoves, QuietKeeps
  <1>4. CASE Planning
    BY <1>1, <1>2, <1>4, PlanningMoves, QuietKeeps
  <1>5. CASE Command
    BY <1>1, <1>2, <1>5, ExecutionCommandMoves, PlanCommandMoves, StepCommandMoves DEF Command
  <1>6. CASE \E p \in post : Continue(p)
    BY <1>1, <1>2, <1>6, ContinueMoves, QuietKeeps
  <1>7. CASE CrashAndRestart /\ post' = {}
    BY <1>1, <1>2, <1>7, CrashAndRestartMoves, QuietKeeps
  <1>8. CASE UNCHANGED allVars
    <2>1. UNCHANGED storeVars /\ UNCHANGED <<sched, snap, job>> /\ step' = step
      BY <1>8 DEF allVars, vars, schedVars, storeVars
    <2>2. StoreMoves /\ Quiet /\ RowMoves
      BY <1>1, <2>1, RowsKeptMoves
    <2> QED
      BY <1>1, <1>2, <2>1, <2>2, GenStays, QuietKeeps
  <1> QED
    BY <1>3, <1>4, <1>5, <1>6, <1>7, <1>8 DEF Next

LEMMA NextFull == FullInv /\ [Next]_allVars => FullInv'
  <1> SUFFICES ASSUME FullInv, [Next]_allVars PROVE FullInv'
    OBVIOUS
  <1>1. StoreMoves /\ GenInv'
    BY NextMoves
  <1>2. SafeInv'
    BY NextSafe DEF FullInv
  <1>3. SaneRows'
    BY <1>1 DEF StoreMoves, RowMoves, StepMoves, AttemptMoves, SaneRows
  <1> QED
    BY <1>1, <1>2, <1>3 DEF FullInv, SettleInv, StoreMoves

LEMMA InitFull == Init => FullInv
  BY InitSafeInv, InitSettle DEF FullInv

\* A conversation effect the scheduler owes always has a live link to deliver
\* it over, so no delivery fails for want of a Conversation.
THEOREM EffectsHaveLinks == Spec => []EffectsDeliverable
  <1>1. SafeInv => EffectsDeliverable
    BY DEF SafeInv, RowInv, RowsAgree, EffectsDeliverable, Undelivered
  <1> QED
    BY <1>1, InitSafeInv, NextSafe, PTL DEF Spec

\* A settled execution has nothing in flight and its status is the one its
\* steps justify: the snapshot on which finalize_if_settled decides is either
\* still true or its compare-and-set fails, and a late settlement only
\* matches an attempt that is queued or running.
THEOREM SettlementJustified == Spec => []SettledIsJustified
  <1>1. FullInv => SettledIsJustified
    BY DEF FullInv, SettleInv
  <1> QED
    BY <1>1, InitFull, NextFull, PTL DEF Spec

\* An attempt that was parked for review is never taken up again: recovery,
\* late settlements, answers and steers all pass it by, until its execution
\* settles or its step leaves the plan.
THEOREM ReviewStaysFinal == Spec => ReviewIsFinal
  <1>1. ASSUME FullInv, [Next]_allVars
        PROVE  [\A k \in Slots : attempt[k].review =>
                  \/ attempt'[k].review /\ attempt'[k].status = attempt[k].status
                  \/ exec'.status \in TerminalExecution
                  \/ ~step'[k[1]].current]_allVars
    BY <1>1, NextMoves DEF StoreMoves, ReviewStays, RowMoves, AttemptMoves
  <1> QED
    BY <1>1, InitFull, NextFull, PTL DEF Spec, ReviewIsFinal

\* Only a user command reopens a settled execution or moves its rows, and
\* nothing but its deletion happens to a cancelled one: the writes of a
\* generation that has not noticed are fenced off.
THEOREM SettledUntilReopened == Spec => OnlyUsersReopen
  <1>1. ASSUME FullInv, [Next]_allVars
        PROVE  [Terminal /\ (exec'.status # exec.status \/ step' # step \/ attempt' # attempt)
                  => left'.commands < left.commands
                     /\ (exec.status = "cancelled" => exec'.deleted)]_allVars
    BY <1>1, NextMoves DEF UsersOnly, Quiet
  <1> QED
    BY <1>1, InitFull, NextFull, PTL DEF Spec, OnlyUsersReopen

-----------------------------------------------------------------------------
(* The refinement of the documented lifecycle.                             *)

\* A started attempt and its step move together: a step that keeps running
\* or waiting has an attempt to show for it, and no other attempt of the step
\* could have taken this one's place in one step.
LEMMA MoveTogether ==
  ASSUME StoreInv, StoreInv', RowInv, RowInv', RowMoves, NEW k \in Slots,
         attempt[k].status \in {"running", "waiting_input"},
         attempt'[k].status # attempt[k].status
  PROVE  step'[k[1]].status # step[k[1]].status
  <1> SUFFICES ASSUME step'[k[1]].status = step[k[1]].status PROVE FALSE
    OBVIOUS
  <1>1. k[1] \in Steps /\ step[k[1]].status = attempt[k].status
    BY SlotStep DEF RowInv, RowsAgree
  <1>2. PICK j \in SlotsOf(k[1]) : attempt'[j].status \in ActiveAttempt
    BY <1>1 DEF RowInv, RowsAgree, HasActiveAttempt
  <1>3. j \in Slots /\ j[1] = k[1]
    BY <1>2 DEF SlotsOf
  <1>4. attempt'[j].status = attempt[k].status
    BY <1>1, <1>2, <1>3 DEF RowInv, RowsAgree, ActiveAttempt
  <1>5. j # k
    BY <1>4
  <1>6. attempt[j].status \notin ActiveAttempt
    BY <1>3, <1>5, LatestIsOnly DEF RowInv, SlotsOf, ActiveAttempt
  <1>7. CanAttempt(attempt[j].status, attempt'[j].status)
    BY <1>3 DEF RowMoves, AttemptMoves
  <1>8. attempt[j].status \in AttemptStatus \cup {"absent"}
    BY <1>3, RowsOf DEF AttemptRow
  <1> QED
    BY <1>4, <1>6, <1>7, <1>8
    DEF CanAttempt, Lifecycle!AttemptNext, Lifecycle!SettledAttempt, ActiveAttempt, AttemptStatus

LEMMA InitLifecycle == Init => Lifecycle!Init
  <1> SUFFICES ASSUME Init PROVE Lifecycle!Init
    OBVIOUS
  <1>1. exec.status = "planning"
    BY DEF Init, StoreInit
  <1>2. \A s \in Steps : step[s].status = "absent"
    BY DEF Init, StoreInit, NoStep
  <1>3. \A k \in Slots : attempt[k].status = "absent"
    BY DEF Init, StoreInit, NoAttempt
  <1> QED
    BY <1>1, <1>2, <1>3 DEF Lifecycle!Init

LEMMA NextLifecycle ==
  ASSUME FullInv, FullInv', [Next]_allVars
  PROVE  Lifecycle!Next
  <1> DEFINE steps == [s \in Steps |-> step[s].status]
             attempts == [k \in Slots |-> attempt[k].status]
  <1>1. StoreMoves /\ SettledKept
    BY NextMoves
  <1>2. StoreInv /\ StoreInv' /\ RowInv /\ RowInv' /\ SettleInv'
    BY DEF FullInv, SafeInv, TypeInv
  <1>3. /\ \A s \in Steps : steps[s] = step[s].status /\ steps'[s] = step'[s].status
        /\ \A k \in Slots : attempts[k] = attempt[k].status /\ attempts'[k] = attempt'[k].status
    OBVIOUS
  <1>4. Lifecycle!Moves(exec.status, exec'.status, Lifecycle!ExecutionNext)
    BY <1>1 DEF StoreMoves, CanExecution, Lifecycle!Moves
  <1>5. \A s \in Steps : Lifecycle!Moves(step[s].status, step'[s].status, Lifecycle!StepNext)
    BY <1>1 DEF StoreMoves, RowMoves, StepMoves, CanStep, Lifecycle!Moves
  <1>6. \A k \in Slots :
          Lifecycle!Moves(attempt[k].status, attempt'[k].status, Lifecycle!AttemptNext)
    BY <1>1 DEF StoreMoves, RowMoves, AttemptMoves, CanAttempt, Lifecycle!Moves
  <1>7. Lifecycle!SettledStays
    <2>1. CASE Terminal /\ Terminal'
      <3>1. steps' = steps /\ attempts' = attempts
        BY <1>1, <2>1 DEF SettledKept
      <3> QED
        BY <3>1 DEF Lifecycle!SettledStays
    <2>2. CASE ~(Terminal /\ Terminal')
      BY <2>2 DEF Lifecycle!SettledStays, Lifecycle!SettledExecution, Terminal, TerminalExecution
    <2> QED
      BY <2>1, <2>2
  <1>8. Lifecycle!SettlesWhole
    <2>1. ASSUME Terminal', NEW k \in Slots
          PROVE  attempts'[k] \in Lifecycle!SettledAttempt \cup {"absent"}
      <3>1. attempt'[k].status \notin ActiveAttempt
        BY <1>2, <2>1 DEF SettleInv, SettledIsJustified
      <3>2. attempt'[k].status \in AttemptStatus \cup {"absent"}
        BY <1>2 DEF StoreInv, StoreTypeOK, AttemptRow
      <3> QED
        BY <1>3, <3>1, <3>2 DEF ActiveAttempt, AttemptStatus, Lifecycle!SettledAttempt
    <2> QED
      BY <2>1
      DEF Lifecycle!SettlesWhole, Lifecycle!SettledExecution, Terminal, TerminalExecution
  <1>9. Lifecycle!MovesTogether
    BY <1>1, <1>2, <1>3, MoveTogether, SlotStep DEF StoreMoves, Lifecycle!MovesTogether
  <1> QED
    BY <1>3, <1>4, <1>5, <1>6, <1>7, <1>8, <1>9 DEF Lifecycle!Next

\* The executions of the code take only the documented transitions.  No write
\* consults the transition tables; every one of them respects the tables all
\* the same, settles an execution together with its attempts, and moves a
\* started attempt together with its step.
THEOREM RefinesLifecycle == Spec => ImplementsLifecycle
  <1>1. FullInv /\ FullInv' /\ [Next]_allVars => [Lifecycle!Next]_(Lifecycle!lifeVars)
    BY NextLifecycle
  <1> QED
    BY <1>1, InitFull, NextFull, InitLifecycle, PTL DEF Spec, ImplementsLifecycle, Lifecycle!Spec

=============================================================================
