--------------------------- MODULE ExecutionProofs ---------------------------
(***************************************************************************)
(* Proofs about AgentExecution, for every value of its constants.          *)
(***************************************************************************)
EXTENDS ExecutionCorrectness, FiniteSetTheorems, TLAPS

-----------------------------------------------------------------------------
(* The inductive invariant of type correctness.                            *)

\* An open question can still be answered: the operation of its continuation
\* is one of Ops.
AnswersLeft ==
  \A k \in Slots :
    attempt[k].status = "waiting_input" /\ ~attempt[k].review
      => attempt[k].decisions < MaxDecisions

StoreInv == StoreTypeOK /\ AnswersLeft

\* The fields a future reads in each of its states are set.
WellFormedJob(j) ==
  /\ j.pc \notin {"idle", "new", "create"} => j.k \in Slots
  /\ j.pc \in {"claim", "launch", "await"} => j.op \in Ops
  /\ j.pc \in {"commit", "recheck", "recommit"} => j.out \in Verdict

Orphan == [k: Slots, op: Ops, sv: Nat, av: Nat]

\* What leaving the loop and ending a future touch, and the rest.
LoopInv ==
  /\ sched \in Generation
  /\ snap \in Snapshot
  /\ job \in [Fibers -> Job]
  /\ \A f \in Fibers : WellFormedJob(job[f])
  /\ orphan \subseteq Orphan

SchedInv ==
  /\ LoopInv
  /\ turn \subseteq Slots \X Ops
  /\ left \in [commands: 0 .. MaxCommands, crashes: 0 .. MaxCrashes, faults: 0 .. MaxFaults]

PostInv ==
  /\ post \subseteq Continuation
  /\ \A p \in post : p.do \in {"steer", "stop_turn", "ack"} => p.k \in Slots

TypeInv == StoreInv /\ SchedInv /\ PostInv

-----------------------------------------------------------------------------
(* Transactions of the store.                                              *)

LEMMA SlotStep == \A k \in Slots : k[1] \in Steps /\ k[2] \in 1 .. MaxAttempts
  BY DEF Slots

LEMMA OpsFacts == /\ Ops \subseteq Int /\ 0 \in Ops
                  /\ \A o \in Ops : o < MaxDecisions => o + 1 \in Ops
  BY BoundsAssumption DEF Ops

LEMMA WithStatusType ==
  ASSUME NEW row \in ExecutionRow, NEW status \in ExecutionStatus
  PROVE  WithStatus(row, status) \in ExecutionRow
  BY DEF WithStatus, ExecutionRow

LEMMA StepVersion == \A row \in StepRow : row.version + 1 \in Nat
  BY DEF StepRow

LEMMA SetStepType ==
  ASSUME NEW row \in StepRow, NEW status \in StepStatus \cup {"absent"}
  PROVE  SetStep(row, status) \in StepRow
  BY StepVersion DEF SetStep, StepRow

LEMMA SetStepAfterType ==
  ASSUME NEW row \in StepRow, NEW status \in StepStatus, NEW after \in DispatchAfter
  PROVE  [SetStep(row, status) EXCEPT !.dispatchAfter = after] \in StepRow
  BY SetStepType DEF StepRow

LEMMA AttemptVersion == \A row \in AttemptRow : row.version + 1 \in Nat
  BY DEF AttemptRow

LEMMA SetAttemptType ==
  ASSUME NEW row \in AttemptRow, NEW status \in AttemptStatus
  PROVE  /\ SetAttempt(row, status) \in AttemptRow
         /\ SetAttempt(row, status).status = status
         /\ SetAttempt(row, status).decisions = row.decisions
         /\ SetAttempt(row, status).review = row.review
  BY AttemptVersion DEF SetAttempt, AttemptRow

LEMMA EndAttemptType ==
  ASSUME NEW row \in AttemptRow, NEW status \in AttemptStatus
  PROVE  /\ EndAttempt(row, status) \in AttemptRow
         /\ EndAttempt(row, status).status = status
         /\ EndAttempt(row, status).decisions = row.decisions
         /\ EndAttempt(row, status).review = row.review
  BY SetAttemptType DEF EndAttempt, AttemptRow

\* The fields the transactions set after a transition.
LEMMA AttemptFieldsType ==
  ASSUME NEW row \in AttemptRow, NEW effects \in Seq(EffectKind), NEW flag \in BOOLEAN
  PROVE  /\ [row EXCEPT !.link = flag] \in AttemptRow
         /\ [row EXCEPT !.effects = effects] \in AttemptRow
         /\ [row EXCEPT !.effects = effects, !.review = flag] \in AttemptRow
  BY DEF AttemptRow

LEMMA EffectSequences ==
  /\ <<>> \in Seq(EffectKind)
  /\ <<"stop_turn">> \in Seq(EffectKind)
  /\ <<"steer">> \in Seq(EffectKind)
  BY DEF EffectKind

\* A store transaction that writes one attempt row and one step row.
LEMMA RowsWritten ==
  ASSUME StoreInv, NEW k \in Slots, NEW srow \in StepRow, NEW arow \in AttemptRow,
         arow.status = "waiting_input" /\ ~arow.review => arow.decisions < MaxDecisions,
         step' = [step EXCEPT ![k[1]] = srow],
         attempt' = [attempt EXCEPT ![k] = arow],
         exec' \in ExecutionRow, blockers' = blockers, conv' \in [Slots -> ConversationRow]
  PROVE  StoreInv'
  <1>1. step' \in [Steps -> StepRow]
    BY SlotStep DEF StoreInv, StoreTypeOK
  <1>2. attempt' \in [Slots -> AttemptRow]
    BY DEF StoreInv, StoreTypeOK
  <1>3. AnswersLeft'
    BY DEF StoreInv, StoreTypeOK, AnswersLeft
  <1> QED
    BY <1>1, <1>2, <1>3 DEF StoreInv, StoreTypeOK

LEMMA RowsOf ==
  ASSUME StoreInv, NEW k \in Slots
  PROVE  step[k[1]] \in StepRow /\ attempt[k] \in AttemptRow /\ conv[k] \in ConversationRow
  BY SlotStep DEF StoreInv, StoreTypeOK

LEMMA CreateAttemptInv ==
  ASSUME StoreInv, NEW k \in Slots, CreateAttempt(k)
  PROVE  StoreInv'
  <1>1. [SetStep(step[k[1]], "pending") EXCEPT !.dispatchAfter = "none"] \in StepRow
    BY RowsOf, SetStepAfterType DEF StepStatus, DispatchAfter
  <1>2. /\ [NoAttempt EXCEPT !.status = "queued"] \in AttemptRow
        /\ [NoAttempt EXCEPT !.status = "queued"].status = "queued"
    BY OpsFacts, EffectSequences DEF NoAttempt, AttemptRow, AttemptStatus
  <1> QED
    BY <1>1, <1>2, RowsWritten DEF CreateAttempt, StoreInv, StoreTypeOK

LEMMA StartAttemptInv ==
  ASSUME StoreInv, NEW k \in Slots, StartAttempt(k)
  PROVE  StoreInv'
  <1> DEFINE moved == SetAttempt(attempt[k], "running")
  <1>1. SetStep(step[k[1]], "running") \in StepRow
    BY RowsOf, SetStepType DEF StepStatus
  <1>2. moved \in AttemptRow /\ moved.status = "running"
    BY RowsOf, SetAttemptType DEF AttemptStatus
  <1>3. [moved EXCEPT !.link = TRUE] \in AttemptRow /\ [moved EXCEPT !.link = TRUE].status = "running"
    BY <1>2, AttemptFieldsType DEF AttemptRow
  <1> QED
    BY <1>1, <1>3, RowsWritten DEF StartAttempt, StoreInv, StoreTypeOK

LEMMA SettleAttemptInv ==
  ASSUME StoreInv, NEW k \in Slots, NEW to \in {"completed", "failed", "cancelled"},
         NEW stepTo \in StepStatus, NEW after \in DispatchAfter,
         SettleAttempt(k, to, stepTo, after)
  PROVE  StoreInv'
  <1> DEFINE moved == EndAttempt(attempt[k], to)
             arow == [moved EXCEPT !.effects = <<>>, !.review = FALSE]
  <1>1. [SetStep(step[k[1]], stepTo) EXCEPT !.dispatchAfter = after] \in StepRow
    BY RowsOf, SetStepAfterType
  <1>2. moved \in AttemptRow /\ moved.status = to
    BY RowsOf, EndAttemptType DEF AttemptStatus
  <1>3. arow \in AttemptRow /\ arow.status = to
    BY <1>2, AttemptFieldsType, EffectSequences DEF AttemptRow
  <1> QED
    BY <1>1, <1>3, RowsWritten DEF SettleAttempt, StoreInv, StoreTypeOK

LEMMA AskDecisionInv ==
  ASSUME StoreInv, NEW k \in Slots, attempt[k].decisions < MaxDecisions, AskDecision(k)
  PROVE  StoreInv'
  <1> DEFINE moved == SetAttempt(attempt[k], "waiting_input")
             arow == [moved EXCEPT !.effects = <<"stop_turn">>, !.review = FALSE]
  <1>1. SetStep(step[k[1]], "waiting_input") \in StepRow
    BY RowsOf, SetStepType DEF StepStatus
  <1>2. moved \in AttemptRow /\ moved.decisions = attempt[k].decisions
    BY RowsOf, SetAttemptType DEF AttemptStatus
  <1>3. arow \in AttemptRow /\ arow.decisions = attempt[k].decisions
    BY <1>2, AttemptFieldsType, EffectSequences DEF AttemptRow
  <1>4. exec' \in ExecutionRow
    BY WithStatusType DEF AskDecision, StoreInv, StoreTypeOK, ExecutionStatus
  <1> QED
    BY <1>1, <1>3, <1>4, RowsWritten DEF AskDecision, StoreInv, StoreTypeOK

LEMMA AcknowledgeEffectInv ==
  ASSUME StoreInv, NEW k \in Slots, NEW av, CanAcknowledgeEffect(k, av),
         NEW rest \in Seq(EffectKind), AcknowledgeEffect(k, rest)
  PROVE  StoreInv'
  <1> DEFINE moved == SetAttempt(attempt[k], attempt[k].status)
             arow == [moved EXCEPT !.effects = rest]
  <1>1. attempt[k].status \in AttemptStatus
    BY DEF CanAcknowledgeEffect, AttemptStatus
  <1>2. /\ moved \in AttemptRow /\ moved.status = attempt[k].status
        /\ moved.decisions = attempt[k].decisions /\ moved.review = attempt[k].review
    BY <1>1, RowsOf, SetAttemptType
  <1>3. /\ arow \in AttemptRow /\ arow.status = attempt[k].status
        /\ arow.decisions = attempt[k].decisions /\ arow.review = attempt[k].review
    BY <1>2, AttemptFieldsType DEF AttemptRow
  <1>4. attempt' = [attempt EXCEPT ![k] = arow]
    BY DEF AcknowledgeEffect
  <1>5. attempt' \in [Slots -> AttemptRow]
    BY <1>3, <1>4 DEF StoreInv, StoreTypeOK
  <1>6. AnswersLeft'
    BY <1>3, <1>4 DEF StoreInv, StoreTypeOK, AnswersLeft
  <1> QED
    BY <1>5, <1>6 DEF AcknowledgeEffect, StoreInv, StoreTypeOK

LEMMA TransitionStepInv ==
  ASSUME StoreInv, NEW s \in Steps, TransitionStep(s, "skipped")
  PROVE  StoreInv'
  <1>1. [SetStep(step[s], "skipped") EXCEPT !.dispatchAfter = "none"] \in StepRow
    BY SetStepAfterType DEF StoreInv, StoreTypeOK, StepStatus, DispatchAfter
  <1>2. step' = [step EXCEPT ![s] = [SetStep(step[s], "skipped") EXCEPT !.dispatchAfter = "none"]]
    BY DEF TransitionStep
  <1>3. step' \in [Steps -> StepRow]
    BY <1>1, <1>2 DEF StoreInv, StoreTypeOK
  <1> QED
    BY <1>3 DEF TransitionStep, StoreInv, StoreTypeOK, AnswersLeft

LEMMA FinishedTurnType ==
  ASSUME NEW row \in ConversationRow, NEW o \in Ops, NEW r \in {"ok", "failed"}
  PROVE  FinishedTurn(row, o, r) \in ConversationRow
  BY DEF FinishedTurn, ConversationRow, ReceiptStatus

LEMMA ConversationWritten ==
  ASSUME StoreInv, NEW k \in Slots, NEW row \in ConversationRow,
         conv' = [conv EXCEPT ![k] = row], UNCHANGED <<exec, step, blockers, attempt>>
  PROVE  StoreInv'
  BY DEF StoreInv, StoreTypeOK, AnswersLeft

LEMMA ClaimTurnInv ==
  ASSUME StoreInv, NEW k \in Slots, NEW o \in Ops, ClaimTurn(k, o)
  PROVE  StoreInv'
  <1> DEFINE row == [conv[k] EXCEPT !.active = o, !.receipt[o] = "accepted"]
  <1>1. row \in ConversationRow
    BY RowsOf DEF ConversationRow, ReceiptStatus
  <1>2. conv' = [conv EXCEPT ![k] = row]
    BY DEF ClaimTurn, StoreInv, StoreTypeOK
  <1> QED
    BY <1>1, <1>2, ConversationWritten DEF ClaimTurn

LEMMA FinishTurnInv ==
  ASSUME StoreInv, NEW k \in Slots, NEW o \in Ops, NEW r \in {"ok", "failed"}, FinishTurn(k, o, r)
  PROVE  StoreInv'
  BY RowsOf, FinishedTurnType, ConversationWritten DEF FinishTurn

-----------------------------------------------------------------------------
(* Transactions that write several rows.                                   *)

\* What such a transaction has to show of every row.
LEMMA RowsMapped ==
  ASSUME StoreInv, exec' \in ExecutionRow, blockers' \in [Steps -> SUBSET Steps],
         conv' \in [Slots -> ConversationRow], step' \in [Steps -> StepRow],
         attempt' \in [Slots -> AttemptRow],
         \A k \in Slots : \/ attempt'[k].status # "waiting_input"
                          \/ attempt'[k].review
                          \/ attempt'[k] = attempt[k]
                          \/ attempt'[k] = [attempt[k] EXCEPT !.link = FALSE]
  PROVE  StoreInv'
  <1>1. AnswersLeft'
    BY DEF AnswersLeft, StoreInv, StoreTypeOK, AttemptRow
  <1> QED
    BY <1>1 DEF StoreInv, StoreTypeOK

LEMMA EndedRow ==
  ASSUME StoreInv, NEW k \in Slots, NEW status \in {"cancelled", "interrupted"}
  PROVE  /\ EndAttempt(attempt[k], status) \in AttemptRow
         /\ EndAttempt(attempt[k], status).status # "waiting_input"
         /\ [attempt[k] EXCEPT !.link = FALSE] \in AttemptRow
  BY RowsOf, EndAttemptType, AttemptFieldsType, EffectSequences DEF AttemptStatus

LEMMA CancelledStep ==
  ASSUME StoreInv, NEW s \in Steps
  PROVE  [SetStep(step[s], "cancelled") EXCEPT !.dispatchAfter = "none"] \in StepRow
  BY SetStepAfterType DEF StoreInv, StoreTypeOK, StepStatus, DispatchAfter

LEMMA TerminateChildrenInv ==
  ASSUME StoreInv, exec' \in ExecutionRow, TerminateChildren
  PROVE  StoreInv'
  <1>1. step' \in [Steps -> StepRow]
    BY CancelledStep DEF TerminateChildren, StoreInv, StoreTypeOK
  <1>2. attempt' \in [Slots -> AttemptRow]
    BY EndedRow DEF TerminateChildren, StoreInv, StoreTypeOK
  <1>3. \A k \in Slots : \/ attempt'[k].status # "waiting_input"
                         \/ attempt'[k] = [attempt[k] EXCEPT !.link = FALSE]
    BY EndedRow DEF TerminateChildren
  <1> QED
    BY <1>1, <1>2, <1>3, RowsMapped DEF TerminateChildren, StoreInv, StoreTypeOK

LEMMA DroppedStepType ==
  ASSUME NEW row \in StepRow
  PROVE  DroppedStep(row) \in StepRow
  <1> DEFINE to == CASE row.status = "pending" -> "skipped"
                     [] row.status \in {"running", "waiting_input"} -> "cancelled"
                     [] OTHER -> row.status
  <1>1. to \in StepStatus \cup {"absent"}
    BY DEF StepRow, StepStatus
  <1>2. SetStep(row, to) \in StepRow
    BY <1>1, SetStepType
  <1> HIDE DEF to
  <1>3. [SetStep(row, to) EXCEPT !.dispatchAfter = "none", !.current = FALSE] \in StepRow
    BY <1>2 DEF StepRow, DispatchAfter
  <1> QED
    BY <1>3 DEF DroppedStep, to

LEMMA ReconcilePlanInv ==
  ASSUME StoreInv, NEW keep \in SUBSET Steps, NEW plan \in Plans, NEW status \in ExecutionStatus,
         CanReconcilePlan(keep, plan), ReconcilePlan(keep, plan, status)
  PROVE  StoreInv'
  <1>1. plan.steps \subseteq Steps /\ plan.blockers \in [Steps -> SUBSET Steps]
    BY PlansAssumption
  <1>2. exec' \in ExecutionRow
    BY WithStatusType DEF ReconcilePlan, StoreInv, StoreTypeOK
  <1>3. blockers' \in [Steps -> SUBSET Steps]
    BY <1>1 DEF ReconcilePlan, StoreInv, StoreTypeOK
  <1>4. step' \in [Steps -> StepRow]
    <2>1. \A s \in Steps : DroppedStep(step[s]) \in StepRow
      BY DroppedStepType DEF StoreInv, StoreTypeOK
    <2>2. NewStep \in StepRow
      BY DEF NewStep, StepRow, StepStatus, DispatchAfter
    <2> QED
      BY <2>1, <2>2 DEF ReconcilePlan, StoreInv, StoreTypeOK
  <1>5. attempt' \in [Slots -> AttemptRow]
    BY EndedRow DEF ReconcilePlan, StoreInv, StoreTypeOK
  <1>6. \A k \in Slots : \/ attempt'[k].status # "waiting_input"
                         \/ attempt'[k] = attempt[k]
                         \/ attempt'[k] = [attempt[k] EXCEPT !.link = FALSE]
    BY EndedRow DEF ReconcilePlan
  <1> QED
    BY <1>2, <1>3, <1>4, <1>5, <1>6, RowsMapped DEF ReconcilePlan, StoreInv, StoreTypeOK

LEMMA ReconciledRows ==
  ASSUME StoreInv, NEW k \in Slots
  PROVE  /\ ReconciledAttempt(k) \in AttemptRow
         /\ ReconciledAttempt(k).status # "waiting_input" \/ ReconciledAttempt(k).review
         /\ ReconciledStep(k) \in StepRow
         /\ ReconciledConversation(k) \in ConversationRow
  <1> DEFINE moved == EndAttempt(attempt[k], ReconciledStatus(k))
  <1>1. /\ ReconciledStatus(k) \in {"waiting_input", "completed", "failed"}
        /\ ReconciledStatus(k) = "waiting_input" => ~Adoptable(k)
    BY DEF ReconciledStatus
  <1>2. moved \in AttemptRow /\ moved.status = ReconciledStatus(k)
    BY <1>1, RowsOf, EndAttemptType DEF AttemptStatus
  <1>3. PICK flag \in BOOLEAN : flag = ~Adoptable(k)
    BY Zenon
  <1>4. ReconciledAttempt(k) = [moved EXCEPT !.effects = <<>>, !.review = flag]
    BY <1>3, Zenon DEF ReconciledAttempt
  <1> HIDE DEF moved
  <1>5. /\ ReconciledAttempt(k) \in AttemptRow
        /\ ReconciledAttempt(k).status = ReconciledStatus(k)
        /\ ReconciledAttempt(k).review = flag
    <2>1. ReconciledAttempt(k) \in AttemptRow
      BY <1>2, <1>3, <1>4, AttemptFieldsType, EffectSequences, Zenon
    <2>2. ReconciledAttempt(k).status = moved.status
      BY <1>2, <1>4 DEF AttemptRow
    <2>3. ReconciledAttempt(k).review = flag
      BY <1>2, <1>4 DEF AttemptRow
    <2> QED
      BY <1>2, <2>1, <2>2, <2>3
  <1>6. ReconciledStep(k) \in StepRow
    BY <1>1, RowsOf, SetStepAfterType DEF ReconciledStep, StepStatus, DispatchAfter
  <1>7. ReconciledConversation(k) \in ConversationRow
    BY RowsOf, OpsFacts, FinishedTurnType DEF ReconciledConversation, InitialTurn
  <1> QED
    BY <1>1, <1>3, <1>5, <1>6, <1>7

LEMMA ReconcileRecoveredInv ==
  ASSUME StoreInv, NEW k \in Slots, ReconcileRecovered(k)
  PROVE  StoreInv'
  <1>1. CASE attempt[k].status = "queued"
    <2> DEFINE moved == EndAttempt(attempt[k], "cancelled")
               arow == [moved EXCEPT !.effects = <<>>]
    <2>1. moved \in AttemptRow /\ moved.status = "cancelled"
      BY RowsOf, EndAttemptType DEF AttemptStatus
    <2>2. arow \in AttemptRow /\ arow.status = "cancelled"
      BY <2>1, AttemptFieldsType, EffectSequences DEF AttemptRow
    <2>3. [SetStep(step[k[1]], "pending") EXCEPT !.dispatchAfter = "none"] \in StepRow
      BY RowsOf, SetStepAfterType DEF StepStatus, DispatchAfter
    <2>4. /\ attempt' = [attempt EXCEPT ![k] = arow]
          /\ step' = [step EXCEPT ![k[1]] =
                        [SetStep(step[k[1]], "pending") EXCEPT !.dispatchAfter = "none"]]
          /\ UNCHANGED <<exec, blockers, conv>>
      BY <1>1 DEF ReconcileRecovered
    <2> HIDE DEF arow
    <2> QED
      BY <2>2, <2>3, <2>4, RowsWritten DEF StoreInv, StoreTypeOK
  <1>2. CASE attempt[k].status # "queued"
    <2>1. exec' \in ExecutionRow
      BY <1>2, WithStatusType DEF ReconcileRecovered, StoreInv, StoreTypeOK, ExecutionStatus
    <2>2. conv' \in [Slots -> ConversationRow]
      BY <1>2, ReconciledRows DEF ReconcileRecovered, StoreInv, StoreTypeOK
    <2> QED
      BY <1>2, <2>1, <2>2, ReconciledRows, RowsWritten DEF ReconcileRecovered
  <1> QED
    BY <1>1, <1>2

LEMMA PauseExecutionInv ==
  ASSUME StoreInv, PauseExecution
  PROVE  StoreInv'
  <1> DEFINE lost == {k \in Slots : /\ attempt[k].status = "running"
                                    /\ step[k[1]].current /\ step[k[1]].status = "running"}
  <1>1. exec' \in ExecutionRow
    BY WithStatusType DEF PauseExecution, StoreInv, StoreTypeOK, ExecutionStatus
  <1>2. step' \in [Steps -> StepRow]
    <2>1. \A s \in Steps : (\E k \in lost : k[1] = s)
            => (CHOOSE k \in lost : k[1] = s) \in Slots
      OBVIOUS
    <2>2. \A k \in Slots : ReconciledStep(k) \in StepRow
      BY ReconciledRows
    <2> QED
      BY <2>1, <2>2 DEF PauseExecution, StoreInv, StoreTypeOK
  <1>3. attempt' \in [Slots -> AttemptRow]
    BY EndedRow, ReconciledRows DEF PauseExecution, StoreInv, StoreTypeOK
  <1>4. conv' \in [Slots -> ConversationRow]
    BY ReconciledRows DEF PauseExecution, StoreInv, StoreTypeOK
  <1>5. \A k \in Slots : \/ attempt'[k].status # "waiting_input"
                         \/ attempt'[k].review
                         \/ attempt'[k] = attempt[k]
    BY EndedRow, ReconciledRows DEF PauseExecution
  <1> QED
    BY <1>1, <1>2, <1>3, <1>4, <1>5, RowsMapped DEF PauseExecution, StoreInv, StoreTypeOK

\* Transactions that write the aggregate row alone.
LEMMA ExecutionWritten ==
  ASSUME StoreInv, exec' \in ExecutionRow, UNCHANGED <<step, blockers, attempt, conv>>
  PROVE  StoreInv'
  BY DEF StoreInv, StoreTypeOK, AnswersLeft

LEMMA UpdateStatusInv ==
  ASSUME StoreInv, NEW status \in ExecutionStatus, UpdateStatus(status)
  PROVE  StoreInv'
  BY WithStatusType, ExecutionWritten DEF UpdateStatus, StoreInv, StoreTypeOK

LEMMA LeaseInv ==
  ASSUME StoreInv,
         \/ AcquireLease \/ RenewLease \/ ReleaseLease(TRUE) \/ ReleaseLease(FALSE)
         \/ ResumeExecution
  PROVE  StoreInv'
  <1>1. exec' \in ExecutionRow
    BY DEF AcquireLease, RenewLease, ReleaseLease, ResumeExecution, StoreInv, StoreTypeOK,
           ExecutionRow, ExecutionStatus
  <1> QED
    BY <1>1, ExecutionWritten
       DEF AcquireLease, RenewLease, ReleaseLease, ResumeExecution

LEMMA ResetForRetryInv ==
  ASSUME StoreInv, NEW s \in Steps, ResetForRetry(s)
  PROVE  StoreInv'
  <1>1. exec' \in ExecutionRow
    BY DEF ResetForRetry, StoreInv, StoreTypeOK, ExecutionRow, ExecutionStatus
  <1>2. step' \in [Steps -> StepRow]
    BY SetStepAfterType DEF ResetForRetry, StoreInv, StoreTypeOK, StepStatus, DispatchAfter
  <1> QED
    BY <1>1, <1>2 DEF ResetForRetry, StoreInv, StoreTypeOK, AnswersLeft

LEMMA AdoptOutputInv ==
  ASSUME StoreInv, NEW k \in Slots, AdoptOutput(k)
  PROVE  StoreInv'
  <1>1. exec' \in ExecutionRow
    BY DEF AdoptOutput, Reopens, StoreInv, StoreTypeOK, ExecutionRow, ExecutionStatus
  <1>2. step' \in [Steps -> StepRow]
    BY SetStepType, SetStepAfterType
       DEF AdoptOutput, StoreInv, StoreTypeOK, StepStatus, DispatchAfter
  <1>3. /\ [NoAttempt EXCEPT !.status = "completed"] \in AttemptRow
        /\ [NoAttempt EXCEPT !.status = "completed"].status = "completed"
    BY OpsFacts, EffectSequences DEF NoAttempt, AttemptRow, AttemptStatus
  <1>4. attempt' \in [Slots -> AttemptRow]
    BY <1>3 DEF AdoptOutput, StoreInv, StoreTypeOK
  <1>5. \A j \in Slots : attempt'[j].status # "waiting_input" \/ attempt'[j] = attempt[j]
    BY <1>3 DEF AdoptOutput, StoreInv, StoreTypeOK
  <1> QED
    BY <1>1, <1>2, <1>4, <1>5, RowsMapped DEF AdoptOutput, StoreInv, StoreTypeOK

LEMMA AnsweredAttemptType ==
  ASSUME NEW row \in AttemptRow, row.decisions < MaxDecisions
  PROVE  AnsweredAttempt(row) \in AttemptRow /\ AnsweredAttempt(row).status = "running"
  <1> DEFINE moved == SetAttempt(row, "running")
  <1>1. moved \in AttemptRow /\ moved.status = "running" /\ moved.decisions = row.decisions
    BY SetAttemptType DEF AttemptStatus
  <1>2. moved.decisions + 1 \in Ops
    BY <1>1, OpsFacts DEF AttemptRow
  <1>3. Append(moved.effects, "decision_input") \in Seq(EffectKind)
    BY <1>1 DEF AttemptRow, EffectKind
  <1>4. AnsweredAttempt(row) = [moved EXCEPT !.effects = Append(@, "decision_input"),
                                             !.review = FALSE, !.decisions = @ + 1]
    BY DEF AnsweredAttempt
  <1> HIDE DEF moved
  <1> QED
    BY <1>1, <1>2, <1>3, <1>4 DEF AttemptRow

LEMMA ResumeWaitingAttemptInv ==
  ASSUME StoreInv, NEW k \in Slots, CanAnswer(k), ResumeWaitingAttempt(k)
  PROVE  StoreInv'
  <1>1. SetStep(step[k[1]], "running") \in StepRow
    BY RowsOf, SetStepType DEF StepStatus
  <1>2. attempt[k].decisions < MaxDecisions
    BY DEF CanAnswer, StoreInv, AnswersLeft
  <1>3. /\ AnsweredAttempt(attempt[k]) \in AttemptRow
        /\ AnsweredAttempt(attempt[k]).status = "running"
    BY <1>2, RowsOf, AnsweredAttemptType
  <1>4. exec' \in ExecutionRow
    BY DEF ResumeWaitingAttempt, StoreInv, StoreTypeOK, ExecutionRow, ExecutionStatus
  <1> QED
    BY <1>1, <1>3, <1>4, RowsWritten DEF ResumeWaitingAttempt, StoreInv, StoreTypeOK

LEMMA EnqueueSteerInv ==
  ASSUME StoreInv, NEW k \in Slots, CanEnqueueSteer(k), EnqueueSteer(k)
  PROVE  StoreInv'
  <1> DEFINE moved == SetAttempt(attempt[k], attempt[k].status)
             arow == [moved EXCEPT !.effects = <<"steer">>]
  <1>1. attempt[k].status = "running"
    BY DEF CanEnqueueSteer
  <1>2. moved \in AttemptRow /\ moved.status = "running"
    BY <1>1, RowsOf, SetAttemptType DEF AttemptStatus
  <1>3. arow \in AttemptRow /\ arow.status = "running"
    BY <1>2, AttemptFieldsType, EffectSequences DEF AttemptRow
  <1>4. attempt' = [attempt EXCEPT ![k] = arow]
    BY DEF EnqueueSteer
  <1>5. attempt' \in [Slots -> AttemptRow]
    BY <1>3, <1>4 DEF StoreInv, StoreTypeOK
  <1>6. \A j \in Slots : attempt'[j].status # "waiting_input" \/ attempt'[j] = attempt[j]
    BY <1>3, <1>4 DEF StoreInv, StoreTypeOK
  <1>7. conv' \in [Slots -> ConversationRow]
    BY DEF EnqueueSteer, StoreInv, StoreTypeOK, ConversationRow
  <1> QED
    BY <1>5, <1>6, <1>7, RowsMapped DEF EnqueueSteer, StoreInv, StoreTypeOK

-----------------------------------------------------------------------------
(* Building blocks of the scheduler.                                       *)

LEMMA StoreUnchanged ==
  ASSUME StoreInv, UNCHANGED storeVars
  PROVE  StoreInv'
  BY DEF StoreInv, StoreTypeOK, AnswersLeft, storeVars

LEMMA NoSnapshotType == NoSnapshot \in Snapshot
  BY DEF NoSnapshot, Snapshot

LEMMA IdleType == Idle \in Job /\ WellFormedJob(Idle)
  BY DEF Idle, Job, JobPc, NoOp, NoSlot, Outcome, WellFormedJob

LEMMA InlineFiber == Inline \in Fibers /\ Steps \subseteq Fibers
  BY DEF Fibers

LEMMA LeaveLoopInv ==
  ASSUME LoopInv, NEW restart \in BOOLEAN, LeaveLoop(restart)
  PROVE  LoopInv'
  <1>1. sched' \in Generation
    BY DEF LeaveLoop, LoopInv, Generation, SchedulerPc, Published
  <1>2. snap' \in Snapshot
    BY NoSnapshotType DEF LeaveLoop
  <1>3. job' \in [Fibers -> Job] /\ \A f \in Fibers : WellFormedJob(job'[f])
    BY IdleType DEF LeaveLoop, IdleJobs
  <1>4. \A f \in Fibers : job[f].pc = "launch" =>
          [k |-> job[f].k, op |-> job[f].op, sv |-> job[f].sv, av |-> job[f].av] \in Orphan
    BY DEF LoopInv, WellFormedJob, Job, Orphan
  <1>5. orphan' \subseteq Orphan
    BY <1>4 DEF LeaveLoop, LoopInv
  <1>6. (\A f \in Fibers : WellFormedJob(job[f]))'
    BY <1>3
  <1> QED
    BY <1>1, <1>2, <1>3, <1>5, <1>6 DEF LoopInv

LEMMA SetJobInv ==
  ASSUME LoopInv, NEW f \in Fibers, NEW row \in Job, WellFormedJob(row), SetJob(f, row),
         sched' \in Generation, snap' \in Snapshot, orphan' = orphan
  PROVE  LoopInv'
  <1>1. job' \in [Fibers -> Job] /\ \A g \in Fibers : WellFormedJob(job'[g])
    BY DEF SetJob, LoopInv
  <1>2. (\A g \in Fibers : WellFormedJob(job[g]))'
    BY <1>1
  <1> QED
    BY <1>1, <1>2 DEF LoopInv

LEMMA GotoInv ==
  ASSUME LoopInv, NEW pc \in SchedulerPc, Goto(pc), snap' \in Snapshot,
         job' = job, orphan' \subseteq Orphan
  PROVE  LoopInv'
  <1>1. sched' \in Generation
    BY DEF Goto, LoopInv, Generation
  <1>2. (\A g \in Fibers : WellFormedJob(job[g]))'
    BY DEF LoopInv
  <1> QED
    BY <1>1, <1>2 DEF LoopInv

LEMMA LoopUnchanged ==
  ASSUME LoopInv, sched' \in Generation, snap' \in Snapshot, job' = job, orphan' \subseteq Orphan
  PROVE  LoopInv'
  <1>1. (\A g \in Fibers : WellFormedJob(job[g]))'
    BY DEF LoopInv
  <1> QED
    BY <1>1 DEF LoopInv

LEMMA FinishInv ==
  ASSUME LoopInv, NEW f \in Fibers, NEW failed \in BOOLEAN, Finish(f, failed)
  PROVE  LoopInv'
  <1>1. CASE f = Inline /\ failed
    BY <1>1, LeaveLoopInv DEF Finish
  <1>2. CASE ~(f = Inline /\ failed)
    <2>1. sched' \in Generation
      BY <1>2 DEF Finish, LoopInv, Generation, SchedulerPc, Published, Leased
    <2>2. SetJob(f, Idle) /\ snap' = snap /\ orphan' = orphan
      BY <1>2 DEF Finish, SetJob
    <2> QED
      BY <2>1, <2>2, IdleType, SetJobInv DEF LoopInv
  <1> QED
    BY <1>1, <1>2

-----------------------------------------------------------------------------
(* Lease and effects.                                                      *)

LEMMA PcType ==
  /\ {"off", "acquire", "publish", "effects", "recover", "loop", "pass", "rest", "wait",
      "inline", "sleep", "fail", "exit", "end"} \subseteq SchedulerPc
  BY DEF SchedulerPc, Published, Leased

LEMMA GenerationType ==
  NewGeneration \in Generation /\ NoGeneration \in Generation
  BY PcType DEF NewGeneration, NoGeneration, Generation

LEMMA AcquireInv ==
  ASSUME StoreInv, SchedInv, Acquire
  PROVE  StoreInv' /\ SchedInv'
  <1>1. StoreInv'
    BY StoreUnchanged, LeaseInv DEF Acquire
  <1>2. LoopInv'
    BY PcType, GotoInv DEF Acquire, SchedInv, LoopInv
  <1> QED
    BY <1>1, <1>2 DEF Acquire, SchedInv

LEMMA PublishInv ==
  ASSUME StoreInv, SchedInv, Publish
  PROVE  StoreInv' /\ SchedInv'
  <1>1. StoreInv'
    BY StoreUnchanged, LeaseInv DEF Publish
  <1>2. LoopInv'
    BY PcType, GotoInv DEF Publish, SchedInv, LoopInv
  <1> QED
    BY <1>1, <1>2 DEF Publish, SchedInv

LEMMA ExitInv ==
  ASSUME StoreInv, SchedInv, Exit
  PROVE  StoreInv' /\ SchedInv'
  <1>1. StoreInv'
    BY LeaseInv DEF Exit
  <1>2. LoopInv'
    BY PcType, GotoInv DEF Exit, SchedInv, LoopInv
  <1> QED
    BY <1>1, <1>2 DEF Exit, SchedInv

LEMMA EndInv ==
  ASSUME StoreInv, SchedInv, End
  PROVE  StoreInv' /\ SchedInv'
  <1>1. StoreInv'
    BY StoreUnchanged DEF End
  <1>2. LoopInv'
    BY GenerationType, LoopUnchanged DEF End, SchedInv, LoopInv
  <1> QED
    BY <1>1, <1>2 DEF End, SchedInv

LEMMA ClockStepInv ==
  ASSUME StoreInv, SchedInv, ClockStep
  PROVE  StoreInv' /\ SchedInv'
  <1>1. CASE HeartbeatRenew
    <2>1. StoreInv'
      BY <1>1, LeaseInv DEF HeartbeatRenew
    <2>2. LoopInv'
      BY <1>1, LoopUnchanged DEF HeartbeatRenew, schedVars, SchedInv, LoopInv
    <2> QED
      BY <1>1, <2>1, <2>2 DEF HeartbeatRenew, schedVars, SchedInv
  <1>2. CASE HeartbeatLost
    <2>1. sched' \in Generation
      BY <1>2 DEF HeartbeatLost, SchedInv, LoopInv, Generation
    <2>2. LoopInv'
      BY <1>2, <2>1, LoopUnchanged DEF HeartbeatLost, SchedInv, LoopInv
    <2> QED
      BY <1>2, <2>2, StoreUnchanged DEF HeartbeatLost, SchedInv
  <1>3. CASE LeaseExpires
    <2>1. exec' \in ExecutionRow
      BY <1>3 DEF LeaseExpires, StoreInv, StoreTypeOK, ExecutionRow
    <2>2. left' \in [commands: 0 .. MaxCommands, crashes: 0 .. MaxCrashes, faults: 0 .. MaxFaults]
      <3>1. left.faults > 0 => left.faults - 1 \in 0 .. MaxFaults
        BY BudgetAssumption DEF SchedInv
      <3> QED
        BY <1>3, <3>1 DEF LeaseExpires, SchedInv
    <2>3. LoopInv'
      BY <1>3, LoopUnchanged DEF LeaseExpires, SchedInv, LoopInv
    <2> QED
      BY <1>3, <2>1, <2>2, <2>3, ExecutionWritten DEF LeaseExpires, SchedInv
  <1>4. CASE BackoffOver
    <2>1. PICK s \in Steps : /\ step' = [step EXCEPT ![s].dispatchAfter = "past"]
                             /\ snap' = [snap EXCEPT !.timed = @ \ {s}]
      BY <1>4 DEF BackoffOver
    <2>2. step' \in [Steps -> StepRow]
      BY <2>1 DEF StoreInv, StoreTypeOK, StepRow, DispatchAfter
    <2>3. snap' \in Snapshot
      BY <2>1 DEF SchedInv, LoopInv, Snapshot
    <2>4. LoopInv'
      BY <1>4, <2>3, LoopUnchanged DEF BackoffOver, SchedInv, LoopInv
    <2> QED
      BY <1>4, <2>2, <2>4 DEF BackoffOver, StoreInv, StoreTypeOK, AnswersLeft, SchedInv
  <1> QED
    BY <1>1, <1>2, <1>3, <1>4 DEF ClockStep

LEMMA EffectReadInv ==
  ASSUME StoreInv, SchedInv, EffectRead
  PROVE  StoreInv' /\ SchedInv'
  <1>1. StoreInv'
    BY StoreUnchanged DEF EffectRead
  <1>2. CASE LeaveLoop(TRUE)
    BY <1>1, <1>2, LeaveLoopInv DEF EffectRead, SchedInv
  <1>3. CASE /\ Goto(IF sched.boot THEN "recover" ELSE "pass")
             /\ UNCHANGED <<snap, job, orphan>>
    BY <1>1, <1>3, PcType, GotoInv DEF EffectRead, SchedInv, LoopInv
  <1>4. ASSUME NEW k \in Slots, Undelivered(k), Goto("inline"), snap' = NoSnapshot, orphan' = orphan,
               SetJob(Inline, [Idle EXCEPT
                !.pc = CASE Head(attempt[k].effects) = "stop_turn" -> "stop"
                         [] Head(attempt[k].effects) = "steer" -> "steer"
                         [] Head(attempt[k].effects) = "decision_input" -> "claim",
                !.k = k, !.sv = step[k[1]].version, !.av = attempt[k].version,
                !.op = IF Head(attempt[k].effects) = "decision_input"
                       THEN attempt[k].decisions ELSE NoOp])
        PROVE  LoopInv'
    <2> DEFINE first == Head(attempt[k].effects)
    <2>1. first \in EffectKind
      BY <1>4, RowsOf DEF Undelivered, AttemptRow
    <2>2. /\ step[k[1]].version \in Nat /\ attempt[k].version \in Nat
          /\ attempt[k].decisions \in Ops
      BY RowsOf DEF StepRow, AttemptRow
    <2> DEFINE row(pc, op) == [Idle EXCEPT !.pc = pc, !.k = k, !.sv = step[k[1]].version,
                                           !.av = attempt[k].version, !.op = op]
    <2> HIDE DEF first
    <2>3. \/ first = "stop_turn" /\ SetJob(Inline, row("stop", NoOp))
          \/ first = "steer" /\ SetJob(Inline, row("steer", NoOp))
          \/ first = "decision_input" /\ SetJob(Inline, row("claim", attempt[k].decisions))
      BY <1>4, <2>1 DEF EffectKind, first
    <2>4. /\ row("stop", NoOp) \in Job /\ WellFormedJob(row("stop", NoOp))
          /\ row("steer", NoOp) \in Job /\ WellFormedJob(row("steer", NoOp))
      BY <2>2, IdleType DEF Job, JobPc, Idle, WellFormedJob, Outcome
    <2>5. /\ row("claim", attempt[k].decisions) \in Job
          /\ WellFormedJob(row("claim", attempt[k].decisions))
      BY <2>2, IdleType DEF Job, JobPc, Idle, WellFormedJob, Outcome
    <2>6. sched' \in Generation
      BY <1>4, PcType DEF Goto, SchedInv, LoopInv, Generation
    <2> HIDE DEF row
    <2> QED
      BY <1>4, <2>3, <2>4, <2>5, <2>6, InlineFiber, NoSnapshotType, SetJobInv DEF SchedInv
  <1> QED
    BY <1>1, <1>2, <1>3, <1>4 DEF EffectRead, SchedInv

LEMMA StopTurnInv ==
  ASSUME StoreInv, turn \subseteq Slots \X Ops, NEW k \in Slots, StopTurn(k)
  PROVE  StoreInv' /\ turn' \subseteq Slots \X Ops
  <1> DEFINE row == IF conv[k].active \in LiveTurns(k)
                    THEN FinishedTurn(conv[k], conv[k].active, "failed") ELSE conv[k]
  <1>1. row \in ConversationRow
    BY RowsOf, FinishedTurnType DEF LiveTurns
  <1>2. conv' = [conv EXCEPT ![k] = row]
    BY DEF StopTurn
  <1> HIDE DEF row
  <1> QED
    BY <1>1, <1>2, ConversationWritten DEF StopTurn

LEMMA SteerTurnInv ==
  ASSUME StoreInv, NEW k \in Slots, SteerTurn(k)
  PROVE  StoreInv'
  <1>1. conv' \in [Slots -> ConversationRow]
    BY DEF SteerTurn, StoreInv, StoreTypeOK, ConversationRow
  <1> QED
    BY <1>1 DEF SteerTurn, StoreInv, StoreTypeOK, AnswersLeft

\* A future moves on and keeps its fields.
LEMMA JobPcType ==
  ASSUME NEW row \in Job, NEW pc \in JobPc
  PROVE  [row EXCEPT !.pc = pc] \in Job
  BY DEF Job

LEMMA EffectAcked ==
  ASSUME SchedInv, job[Inline].pc \in {"stop", "steer"}
  PROVE  /\ job[Inline].k \in Slots
         /\ [job[Inline] EXCEPT !.pc = "ack"] \in Job
         /\ WellFormedJob([job[Inline] EXCEPT !.pc = "ack"])
  <1>1. job[Inline] \in Job /\ job[Inline].k \in Slots
    BY InlineFiber DEF SchedInv, LoopInv, WellFormedJob
  <1>2. [job[Inline] EXCEPT !.pc = "ack"] \in Job
    BY <1>1, JobPcType DEF JobPc
  <1> QED
    BY <1>1, <1>2 DEF WellFormedJob, Job

LEMMA EffectStopInv ==
  ASSUME StoreInv, SchedInv, EffectStop
  PROVE  StoreInv' /\ SchedInv'
  <1>1. job[Inline].k \in Slots
    BY EffectAcked DEF EffectStop
  <1>2. CASE LeaveLoop(TRUE) /\ UNCHANGED <<storeVars, turn>>
    BY <1>2, LeaveLoopInv, StoreUnchanged DEF EffectStop, SchedInv
  <1>3. CASE /\ StopTurn(job[Inline].k)
             /\ SetJob(Inline, [job[Inline] EXCEPT !.pc = "ack"])
             /\ UNCHANGED <<sched, snap, orphan>>
    <2>1. StoreInv' /\ turn' \subseteq Slots \X Ops
      BY <1>1, <1>3, StopTurnInv DEF SchedInv
    <2>2. LoopInv'
      BY <1>3, EffectAcked, InlineFiber, SetJobInv DEF EffectStop, SchedInv, LoopInv
    <2> QED
      BY <2>1, <2>2 DEF EffectStop, SchedInv
  <1> QED
    BY <1>2, <1>3 DEF EffectStop

LEMMA EffectSteerInv ==
  ASSUME StoreInv, SchedInv, EffectSteer
  PROVE  StoreInv' /\ SchedInv'
  <1>1. job[Inline].k \in Slots
    BY EffectAcked DEF EffectSteer
  <1>2. CASE LeaveLoop(TRUE) /\ UNCHANGED storeVars
    BY <1>2, LeaveLoopInv, StoreUnchanged DEF EffectSteer, SchedInv
  <1>3. CASE /\ SteerTurn(job[Inline].k)
             /\ SetJob(Inline, [job[Inline] EXCEPT !.pc = "ack"])
             /\ UNCHANGED <<sched, snap, orphan>>
    <2>1. StoreInv'
      BY <1>1, <1>3, SteerTurnInv
    <2>2. LoopInv'
      BY <1>3, EffectAcked, InlineFiber, SetJobInv DEF EffectSteer, SchedInv, LoopInv
    <2> QED
      BY <2>1, <2>2 DEF EffectSteer, SchedInv
  <1>4. CASE SteerTurn(job[Inline].k) /\ LeaveLoop(TRUE)
    BY <1>1, <1>4, SteerTurnInv, LeaveLoopInv DEF EffectSteer, SchedInv
  <1> QED
    BY <1>2, <1>3, <1>4 DEF EffectSteer

LEMMA EffectAckInv ==
  ASSUME StoreInv, SchedInv, EffectAck
  PROVE  StoreInv' /\ SchedInv'
  <1> DEFINE k == job[Inline].k
             rest == SubSeq(attempt[k].effects, 2, Len(attempt[k].effects))
  <1>1. k \in Slots
    BY InlineFiber DEF EffectAck, SchedInv, LoopInv, WellFormedJob
  <1>2. rest \in Seq(EffectKind)
    <2>1. attempt[k].effects \in Seq(EffectKind)
      BY <1>1, RowsOf DEF AttemptRow
    <2> QED
      BY <2>1
  <1>3. CASE CanAcknowledgeEffect(k, job[Inline].av)
    <2>1. AcknowledgeEffect(k, rest) /\ Finish(Inline, FALSE) /\ UNCHANGED <<turn, left>>
      BY <1>3 DEF EffectAck
    <2> HIDE DEF rest
    <2> QED
      BY <1>1, <1>2, <1>3, <2>1, AcknowledgeEffectInv, FinishInv, InlineFiber DEF SchedInv
  <1>4. CASE ~CanAcknowledgeEffect(k, job[Inline].av)
    BY <1>4, LeaveLoopInv, StoreUnchanged DEF EffectAck, SchedInv
  <1> QED
    BY <1>3, <1>4

-----------------------------------------------------------------------------
(* The loop.                                                               *)

LEMMA RecoverInv ==
  ASSUME StoreInv, SchedInv, Recover
  PROVE  StoreInv' /\ SchedInv'
  <1>1. CASE LeaveLoop(TRUE) /\ UNCHANGED storeVars
    BY <1>1, LeaveLoopInv, StoreUnchanged DEF Recover, SchedInv
  <1>2. CASE /\ sched' = [sched EXCEPT !.pc = "loop", !.boot = FALSE]
             /\ UNCHANGED <<storeVars, snap, job, orphan>>
    <2>1. sched' \in Generation
      BY <1>2, PcType DEF SchedInv, LoopInv, Generation
    <2>2. LoopInv'
      BY <1>2, <2>1, LoopUnchanged DEF SchedInv, LoopInv
    <2> QED
      BY <1>2, <2>2, StoreUnchanged DEF Recover, SchedInv
  <1>3. CASE \E k \in Slots : ReconcileRecovered(k) /\ UNCHANGED <<sched, snap, job, orphan>>
    <2>1. LoopInv'
      BY <1>3, LoopUnchanged DEF SchedInv, LoopInv
    <2> QED
      BY <1>3, <2>1, ReconcileRecoveredInv DEF Recover, SchedInv
  <1> QED
    BY <1>1, <1>2, <1>3 DEF Recover

LEMMA RoomType == Room \in Nat
  <1>1. IsFiniteSet(Busy)
    BY StepsAssumption, FS_Subset DEF Busy, Current
  <1>2. Cardinality(Busy) \in Nat
    BY <1>1, FS_CardinalityType
  <1> QED
    BY <1>2, PolicyAssumption DEF Room

LEMMA SettledStatusType == SettledStatus \in TerminalExecution \cup {"none"}
  BY DEF SettledStatus, TerminalExecution

LEMMA LoopTopInv ==
  ASSUME StoreInv, SchedInv, LoopTop
  PROVE  StoreInv' /\ SchedInv'
  <1>1. StoreInv'
    BY StoreUnchanged DEF LoopTop
  <1>2. CASE LeaveLoop(FALSE) \/ LeaveLoop(TRUE) \/ LeaveLoop(exec.deleted)
    <2>1. exec.deleted \in BOOLEAN
      BY DEF StoreInv, StoreTypeOK, ExecutionRow
    <2> QED
      BY <1>1, <1>2, <2>1, LeaveLoopInv DEF LoopTop, SchedInv
  <1>3. CASE Goto("wait") /\ UNCHANGED <<snap, job, orphan>>
    BY <1>1, <1>3, PcType, GotoInv DEF LoopTop, SchedInv, LoopInv
  <1>4. CASE /\ snap' = [blocked |-> {s \in Steps : Blocked(s)},
                         ready |-> Ready,
                         timed |-> {s \in Steps : Timed(s)},
                         room |-> Room,
                         settled |-> SettledStatus,
                         waiting |-> WaitingAttempts # {}]
             /\ sched' = [sched EXCEPT !.pc = "effects", !.fresh = TRUE]
             /\ UNCHANGED <<job, orphan>>
    <2>1. snap' \in Snapshot
      BY <1>4, RoomType, SettledStatusType DEF Snapshot, Ready
    <2>2. sched' \in Generation
      BY <1>4, PcType DEF SchedInv, LoopInv, Generation
    <2>3. LoopInv'
      BY <1>4, <2>1, <2>2, LoopUnchanged DEF SchedInv, LoopInv
    <2> QED
      BY <1>1, <2>3 DEF LoopTop, SchedInv
  <1> QED
    BY <1>2, <1>3, <1>4 DEF LoopTop

LEMMA SkipBlockedInv ==
  ASSUME StoreInv, SchedInv, SkipBlocked
  PROVE  StoreInv' /\ SchedInv'
  <1>1. snap.blocked \subseteq Steps
    BY DEF SchedInv, LoopInv, Snapshot
  <1>2. CASE LeaveLoop(TRUE) /\ UNCHANGED storeVars
    BY <1>2, LeaveLoopInv, StoreUnchanged DEF SkipBlocked, SchedInv
  <1>3. CASE \E s \in snap.blocked :
               /\ TransitionStep(s, "skipped")
               /\ Goto("loop") /\ snap' = NoSnapshot /\ UNCHANGED <<job, orphan>>
    <2>1. LoopInv'
      BY <1>3, PcType, NoSnapshotType, GotoInv DEF SchedInv, LoopInv
    <2> QED
      BY <1>1, <1>3, <2>1, TransitionStepInv DEF SkipBlocked, SchedInv
  <1> QED
    BY <1>2, <1>3 DEF SkipBlocked

LEMMA DispatchInv ==
  ASSUME StoreInv, SchedInv, Dispatch
  PROVE  StoreInv' /\ SchedInv'
  <1>1. StoreInv'
    BY StoreUnchanged DEF Dispatch
  <1>2. PICK pick \in SUBSET Due :
          job' = [f \in Fibers |-> IF f \in pick THEN [Idle EXCEPT !.pc = "new"] ELSE job[f]]
    BY DEF Dispatch
  <1>3. [Idle EXCEPT !.pc = "new"] \in Job /\ WellFormedJob([Idle EXCEPT !.pc = "new"])
    BY IdleType, JobPcType DEF JobPc, WellFormedJob, Idle
  <1>4. job' \in [Fibers -> Job] /\ \A f \in Fibers : WellFormedJob(job'[f])
    BY <1>2, <1>3 DEF SchedInv, LoopInv
  <1>5. (\A f \in Fibers : WellFormedJob(job[f]))'
    BY <1>4
  <1>6. sched' \in Generation /\ snap' \in Snapshot
    BY PcType, NoSnapshotType DEF Dispatch, Goto, SchedInv, LoopInv, Generation
  <1>7. LoopInv'
    BY <1>4, <1>5, <1>6 DEF Dispatch, SchedInv, LoopInv
  <1> QED
    BY <1>1, <1>7 DEF Dispatch, SchedInv

LEMMA RestInv ==
  ASSUME StoreInv, SchedInv, Rest
  PROVE  StoreInv' /\ SchedInv'
  <1>1. snap.settled # "none" => snap.settled \in ExecutionStatus
    BY DEF SchedInv, LoopInv, Snapshot, TerminalExecution, ExecutionStatus
  <1>2. CASE snap.settled # "none" /\ UpdateStatus(snap.settled) /\ LeaveLoop(FALSE)
    BY <1>1, <1>2, UpdateStatusInv, LeaveLoopInv DEF Rest, SchedInv
  <1>3. CASE (LeaveLoop(TRUE) \/ LeaveLoop(FALSE)) /\ UNCHANGED storeVars
    BY <1>3, LeaveLoopInv, StoreUnchanged DEF Rest, SchedInv
  <1>4. CASE /\ Goto("sleep") \/ Goto("fail")
             /\ snap' = NoSnapshot
             /\ UNCHANGED <<storeVars, job, orphan>>
    <2>1. LoopInv'
      BY <1>4, PcType, NoSnapshotType, GotoInv DEF SchedInv, LoopInv
    <2> QED
      BY <1>4, <2>1, StoreUnchanged DEF Rest, SchedInv
  <1> QED
    BY <1>2, <1>3, <1>4 DEF Rest

LEMMA LoopEndsInv ==
  ASSUME StoreInv, SchedInv, Wake \/ FailIfActive \/ WaitAborted
  PROVE  StoreInv' /\ SchedInv'
  <1>1. CASE Wake
    <2>1. LoopInv'
      BY <1>1, PcType, GotoInv DEF Wake, SchedInv, LoopInv
    <2> QED
      BY <1>1, <2>1, StoreUnchanged DEF Wake, SchedInv
  <1>2. CASE FailIfActive
    <2>1. StoreInv'
      <3>1. CASE FailActiveExecution
        <4>1. exec' \in ExecutionRow
          BY <3>1, WithStatusType DEF FailActiveExecution, StoreInv, StoreTypeOK, ExecutionStatus
        <4> QED
          BY <3>1, <4>1, TerminateChildrenInv DEF FailActiveExecution
      <3> QED
        BY <1>2, <3>1, StoreUnchanged DEF FailIfActive
    <2> QED
      BY <1>2, <2>1, LeaveLoopInv DEF FailIfActive, SchedInv
  <1>3. CASE WaitAborted
    BY <1>3, LeaveLoopInv, StoreUnchanged DEF WaitAborted, SchedInv
  <1> QED
    BY <1>1, <1>2, <1>3

-----------------------------------------------------------------------------
(* Futures.                                                                *)

LEMMA JobOf ==
  ASSUME SchedInv, NEW f \in Fibers
  PROVE  job[f] \in Job /\ WellFormedJob(job[f])
  BY DEF SchedInv, LoopInv

LEMMA JobReadInv ==
  ASSUME StoreInv, SchedInv, NEW s \in Steps, JobRead(s)
  PROVE  StoreInv' /\ SchedInv'
  <1> DEFINE row == [job[s] EXCEPT !.pc = "create", !.sv = step[s].version]
  <1>1. StoreInv'
    BY StoreUnchanged DEF JobRead
  <1>2. s \in Fibers /\ job[s] \in Job /\ job[s].pc = "new"
    BY InlineFiber, JobOf DEF JobRead
  <1>3. CASE Finish(s, TRUE) \/ Finish(s, FALSE)
    BY <1>1, <1>2, <1>3, FinishInv DEF JobRead, SchedInv
  <1>4. CASE SetJob(s, row) /\ UNCHANGED <<sched, snap, orphan>>
    <2>1. step[s].version \in Nat
      BY DEF StoreInv, StoreTypeOK, StepRow
    <2>2. row \in Job /\ WellFormedJob(row)
      BY <1>2, <2>1 DEF Job, JobPc, WellFormedJob
    <2> HIDE DEF row
    <2>3. LoopInv'
      BY <1>2, <1>4, <2>2, SetJobInv DEF SchedInv, LoopInv
    <2> QED
      BY <1>1, <2>3 DEF JobRead, SchedInv
  <1> QED
    BY <1>3, <1>4 DEF JobRead

LEMMA JobCreateInv ==
  ASSUME StoreInv, SchedInv, NEW s \in Steps, JobCreate(s)
  PROVE  StoreInv' /\ SchedInv'
  <1>1. s \in Fibers /\ job[s] \in Job
    BY InlineFiber, JobOf
  <1>2. CASE Finish(s, TRUE) /\ UNCHANGED storeVars
    BY <1>1, <1>2, FinishInv, StoreUnchanged DEF JobCreate, SchedInv
  <1>3. ASSUME NEW k \in SlotsOf(s), CreateAttempt(k),
               SetJob(s, [job[s] EXCEPT !.pc = "start", !.k = k, !.sv = @ + 1, !.av = 0]),
               UNCHANGED <<sched, snap, orphan>>
        PROVE  StoreInv' /\ LoopInv'
    <2> DEFINE row == [job[s] EXCEPT !.pc = "start", !.k = k, !.sv = @ + 1, !.av = 0]
    <2>1. k \in Slots
      BY DEF SlotsOf
    <2>2. job[s].sv + 1 \in Nat
      BY <1>1 DEF Job
    <2>3. row \in Job /\ row.pc = "start" /\ row.k = k
      BY <1>1, <2>1, <2>2 DEF Job, JobPc
    <2>4. WellFormedJob(row)
      BY <2>1, <2>3 DEF WellFormedJob
    <2>5. LoopInv'
      BY <1>1, <1>3, <2>3, <2>4, SetJobInv DEF SchedInv, LoopInv
    <2> QED
      BY <1>3, <2>1, <2>5, CreateAttemptInv
  <1> QED
    BY <1>2, <1>3 DEF JobCreate, SchedInv

LEMMA JobStartInv ==
  ASSUME StoreInv, SchedInv, NEW s \in Steps, JobStart(s)
  PROVE  StoreInv' /\ SchedInv'
  <1> DEFINE j == job[s]
             started == [j EXCEPT !.pc = "claim", !.op = InitialTurn, !.sv = @ + 1, !.av = @ + 1]
             failed == [j EXCEPT !.pc = "settle", !.out = "error"]
  <1>1. s \in Fibers /\ j \in Job /\ j.k \in Slots
    BY InlineFiber, JobOf DEF JobStart, WellFormedJob
  <1>2. j.sv + 1 \in Nat /\ j.av + 1 \in Nat
    BY <1>1 DEF Job
  <1>3. CASE StartAttempt(j.k) /\ SetJob(s, started)
    <2>1. started \in Job /\ started.pc = "claim" /\ started.k = j.k /\ started.op = InitialTurn
      BY <1>1, <1>2, OpsFacts DEF Job, JobPc, InitialTurn
    <2>2. WellFormedJob(started)
      BY <1>1, <2>1, OpsFacts DEF WellFormedJob, InitialTurn
    <2>3. LoopInv'
      BY <1>1, <1>3, <2>1, <2>2, SetJobInv DEF JobStart, SchedInv, LoopInv
    <2> QED
      BY <1>1, <1>3, <2>3, StartAttemptInv DEF JobStart, SchedInv
  <1>4. CASE SetJob(s, failed) /\ UNCHANGED storeVars
    <2>1. failed \in Job /\ failed.pc = "settle" /\ failed.k = j.k
      BY <1>1 DEF Job, JobPc, Outcome
    <2>2. WellFormedJob(failed)
      BY <1>1, <2>1 DEF WellFormedJob
    <2>3. LoopInv'
      BY <1>1, <1>4, <2>1, <2>2, SetJobInv DEF JobStart, SchedInv, LoopInv
    <2> QED
      BY <1>4, <2>3, StoreUnchanged DEF JobStart, SchedInv
  <1> QED
    BY <1>3, <1>4 DEF JobStart

\* A future moves on to a state that needs no more fields than it has, and
\* records a result.
LEMMA JobMoved ==
  ASSUME NEW j \in Job, j.k \in Slots, NEW pc \in JobPc, NEW out \in Outcome \cup Verdict,
         pc \in {"claim", "launch", "await"} => j.op \in Ops,
         pc \in {"commit", "recheck", "recommit"} => out \in Verdict
  PROVE  /\ [j EXCEPT !.pc = pc, !.out = out] \in Job
         /\ WellFormedJob([j EXCEPT !.pc = pc, !.out = out])
  <1> DEFINE row == [j EXCEPT !.pc = pc, !.out = out]
  <1>1. row \in Job /\ row.pc = pc /\ row.k = j.k /\ row.op = j.op /\ row.out = out
    BY DEF Job
  <1> QED
    BY <1>1 DEF WellFormedJob

LEMMA JobAdvanced ==
  ASSUME NEW j \in Job, WellFormedJob(j), j.pc \in {"claim", "launch", "await"}
  PROVE  /\ j.k \in Slots /\ j.op \in Ops
         /\ \A pc \in {"launch", "await"} :
              [j EXCEPT !.pc = pc] \in Job /\ WellFormedJob([j EXCEPT !.pc = pc])
         /\ \A out \in Outcome :
              /\ [j EXCEPT !.pc = "settle", !.out = out] \in Job
              /\ WellFormedJob([j EXCEPT !.pc = "settle", !.out = out])
  <1>1. j.k \in Slots /\ j.op \in Ops
    BY DEF WellFormedJob
  <1>2. ASSUME NEW pc \in {"launch", "await"}
        PROVE  [j EXCEPT !.pc = pc] \in Job /\ WellFormedJob([j EXCEPT !.pc = pc])
    <2> DEFINE row == [j EXCEPT !.pc = pc]
    <2>1. row \in Job /\ row.pc = pc /\ row.k = j.k /\ row.op = j.op
      BY <1>2 DEF Job, JobPc
    <2> QED
      BY <1>1, <1>2, <2>1 DEF WellFormedJob
  <1>3. ASSUME NEW out \in Outcome
        PROVE  /\ [j EXCEPT !.pc = "settle", !.out = out] \in Job
               /\ WellFormedJob([j EXCEPT !.pc = "settle", !.out = out])
    BY <1>1, JobMoved DEF JobPc
  <1> QED
    BY <1>1, <1>2, <1>3

LEMMA JobClaimInv ==
  ASSUME StoreInv, SchedInv, NEW f \in Fibers, JobClaim(f)
  PROVE  StoreInv' /\ SchedInv'
  <1> DEFINE j == job[f]
  <1>1. j \in Job /\ WellFormedJob(j) /\ j.pc = "claim"
    BY JobOf DEF JobClaim
  <1>2. CASE ClaimTurn(j.k, j.op) /\ SetJob(f, [j EXCEPT !.pc = "launch"])
             /\ UNCHANGED <<sched, snap, orphan>>
    <2>1. LoopInv'
      BY <1>1, <1>2, JobAdvanced, SetJobInv DEF SchedInv, LoopInv
    <2>2. StoreInv'
      BY <1>1, <1>2, JobAdvanced, ClaimTurnInv
    <2> QED
      BY <2>1, <2>2 DEF JobClaim, SchedInv
  <1>3. CASE Finish(f, TRUE) /\ UNCHANGED storeVars
    BY <1>3, FinishInv, StoreUnchanged DEF JobClaim, SchedInv
  <1>4. CASE /\ \/ SetJob(f, [j EXCEPT !.pc = "settle", !.out = "error"])
                \/ SetJob(f, [j EXCEPT !.pc = "await"])
             /\ UNCHANGED <<storeVars, sched, snap, orphan>>
    <2>1. LoopInv'
      BY <1>1, <1>4, JobAdvanced, SetJobInv DEF SchedInv, LoopInv, Outcome
    <2> QED
      BY <1>4, <2>1, StoreUnchanged DEF JobClaim, SchedInv
  <1> QED
    BY <1>2, <1>3, <1>4 DEF JobClaim

LEMMA JobLaunchInv ==
  ASSUME StoreInv, SchedInv, NEW f \in Fibers, JobLaunch(f)
  PROVE  StoreInv' /\ SchedInv'
  <1> DEFINE j == job[f]
  <1>1. j \in Job /\ WellFormedJob(j) /\ j.pc = "launch"
    BY JobOf DEF JobLaunch
  <1>2. j.k \in Slots /\ j.op \in Ops
    BY <1>1, JobAdvanced
  <1>3. CASE /\ turn' = turn \cup {<<j.k, j.op>>}
             /\ SetJob(f, [j EXCEPT !.pc = "await"])
             /\ UNCHANGED <<storeVars, sched, snap, orphan>>
    <2>1. LoopInv'
      BY <1>1, <1>3, JobAdvanced, SetJobInv DEF SchedInv, LoopInv
    <2>2. turn' \subseteq Slots \X Ops
      BY <1>2, <1>3 DEF SchedInv
    <2> QED
      BY <1>3, <2>1, <2>2, StoreUnchanged DEF JobLaunch, SchedInv
  <1>4. CASE FinishTurn(j.k, j.op, "failed") /\ LeaveLoop(TRUE) /\ UNCHANGED turn
    BY <1>2, <1>4, FinishTurnInv, LeaveLoopInv DEF JobLaunch, SchedInv
  <1>5. CASE /\ FinishTurn(j.k, j.op, "failed")
             /\ SetJob(f, [j EXCEPT !.pc = "settle", !.out = "error"])
             /\ UNCHANGED <<sched, snap, orphan, turn>>
    <2>1. LoopInv'
      BY <1>1, <1>5, JobAdvanced, SetJobInv DEF SchedInv, LoopInv, Outcome
    <2> QED
      BY <1>2, <1>5, <2>1, FinishTurnInv DEF JobLaunch, SchedInv
  <1> QED
    BY <1>3, <1>4, <1>5 DEF JobLaunch

LEMMA JobAwaitInv ==
  ASSUME StoreInv, SchedInv, NEW f \in Fibers, JobAwait(f)
  PROVE  StoreInv' /\ SchedInv'
  <1> DEFINE j == job[f]
  <1>1. j \in Job /\ WellFormedJob(j) /\ j.pc = "await"
    BY JobOf DEF JobAwait
  <1>2. PICK out \in Outcome : SetJob(f, [j EXCEPT !.pc = "settle", !.out = out])
    BY DEF JobAwait, OutcomeOf, Outcome
  <1>3. LoopInv'
    BY <1>1, <1>2, JobAdvanced, SetJobInv DEF JobAwait, SchedInv, LoopInv
  <1> QED
    BY <1>3, StoreUnchanged DEF JobAwait, SchedInv

-----------------------------------------------------------------------------
(* Settlement.                                                             *)

LEMMA VerdictType == \A f \in Fibers : VerdictOf(f) \in Verdict
  BY DEF VerdictOf, Verdict

LEMMA SettlementTypes ==
  ASSUME NEW verdict \in Verdict
  PROVE  /\ AttemptTo(verdict) \in {"completed", "failed", "cancelled"}
         /\ StepTo(verdict) \in StepStatus
         /\ RetryAt(verdict) \in DispatchAfter
  BY DEF Verdict, AttemptTo, StepTo, RetryAt, StepStatus, DispatchAfter

\* The versions a settlement is pinned to are those of the rows.
LEMMA PinnedJob ==
  ASSUME StoreInv, NEW j \in Job, j.k \in Slots, NEW pc \in {"commit", "recommit"},
         NEW out \in Verdict
  PROVE  LET row == [j EXCEPT !.pc = pc, !.psv = step[j.k[1]].version,
                              !.pav = attempt[j.k].version, !.out = out]
         IN  row \in Job /\ WellFormedJob(row)
  <1> DEFINE row == [j EXCEPT !.pc = pc, !.psv = step[j.k[1]].version,
                              !.pav = attempt[j.k].version, !.out = out]
  <1>1. step[j.k[1]].version \in Nat /\ attempt[j.k].version \in Nat
    BY RowsOf DEF StepRow, AttemptRow
  <1>2. row \in Job /\ row.pc = pc /\ row.k = j.k /\ row.out = out
    BY <1>1 DEF Job, JobPc
  <1> QED
    BY <1>2 DEF WellFormedJob

LEMMA JobSettleInv ==
  ASSUME StoreInv, SchedInv, NEW f \in Fibers, JobSettle(f)
  PROVE  StoreInv' /\ SchedInv'
  <1> DEFINE j == job[f]
             row == [j EXCEPT !.pc = "commit", !.psv = step[j.k[1]].version,
                              !.pav = attempt[j.k].version, !.out = VerdictOf(f)]
  <1>1. j \in Job /\ j.k \in Slots
    BY JobOf DEF JobSettle, WellFormedJob
  <1>2. StoreInv'
    BY StoreUnchanged DEF JobSettle
  <1>3. CASE Finish(f, TRUE) \/ Finish(f, FALSE)
    BY <1>2, <1>3, FinishInv DEF JobSettle, SchedInv
  <1>4. CASE SetJob(f, row) /\ UNCHANGED <<sched, snap, orphan>>
    <2>1. row \in Job /\ WellFormedJob(row)
      BY <1>1, VerdictType, PinnedJob
    <2> HIDE DEF row
    <2>2. LoopInv'
      BY <1>4, <2>1, SetJobInv DEF SchedInv, LoopInv
    <2> QED
      BY <1>2, <2>2 DEF JobSettle, SchedInv
  <1> QED
    BY <1>3, <1>4 DEF JobSettle

LEMMA CommitInv ==
  ASSUME StoreInv, SchedInv, NEW f \in Fibers, job[f].pc \in {"commit", "recommit"},
         Commit(f), UNCHANGED <<turn, left>>
  PROVE  StoreInv' /\ SchedInv'
  <1>1. job[f].k \in Slots /\ job[f].out \in Verdict
    BY JobOf DEF WellFormedJob
  <1>2. StoreInv'
    BY <1>1, SettlementTypes, SettleAttemptInv DEF Commit
  <1> QED
    BY <1>2, FinishInv DEF Commit, SchedInv

LEMMA JobCommitInv ==
  ASSUME StoreInv, SchedInv, NEW f \in Fibers, JobCommit(f)
  PROVE  StoreInv' /\ SchedInv'
  <1> DEFINE j == job[f]
             row == [j EXCEPT !.pc = "recheck"]
  <1>1. CASE Commit(f)
    BY <1>1, CommitInv DEF JobCommit
  <1>2. CASE SetJob(f, row) /\ UNCHANGED <<storeVars, sched, snap, orphan>>
    <2>1. j \in Job /\ j.k \in Slots /\ j.out \in Verdict
      BY JobOf DEF JobCommit, WellFormedJob
    <2>2. row \in Job /\ row.pc = "recheck" /\ row.k = j.k /\ row.out = j.out
      BY <2>1 DEF Job, JobPc
    <2>3. WellFormedJob(row)
      BY <2>1, <2>2 DEF WellFormedJob
    <2>4. LoopInv'
      BY <1>2, <2>2, <2>3, SetJobInv DEF SchedInv, LoopInv
    <2> QED
      BY <1>2, <2>4, StoreUnchanged DEF JobCommit, SchedInv
  <1> QED
    BY <1>1, <1>2 DEF JobCommit

LEMMA JobRecheckInv ==
  ASSUME StoreInv, SchedInv, NEW f \in Fibers, JobRecheck(f)
  PROVE  StoreInv' /\ SchedInv'
  <1> DEFINE j == job[f]
             row == [j EXCEPT !.pc = "recommit", !.psv = step[j.k[1]].version,
                              !.pav = attempt[j.k].version]
             moved == ~SameVersions(f) \/ ~LatestSlot(j.k)
  <1>1. j \in Job /\ j.k \in Slots /\ j.out \in Verdict
    BY JobOf DEF JobRecheck, WellFormedJob
  <1>2. StoreInv'
    BY StoreUnchanged DEF JobRecheck
  <1>3. CASE Finish(f, ~moved)
    <2>1. Finish(f, TRUE) \/ Finish(f, FALSE)
      <3>1. PICK failed \in BOOLEAN : failed = ~moved
        OBVIOUS
      <3> HIDE DEF moved
      <3> QED
        BY <1>3, <3>1
    <2> QED
      BY <1>2, <2>1, FinishInv DEF JobRecheck, SchedInv
  <1>4. CASE SetJob(f, row) /\ UNCHANGED <<sched, snap, orphan>>
    <2>1. /\ step[j.k[1]].version \in Nat /\ attempt[j.k].version \in Nat
      BY <1>1, RowsOf DEF StepRow, AttemptRow
    <2>2. row \in Job /\ row.pc = "recommit" /\ row.k = j.k /\ row.out = j.out
      BY <1>1, <2>1 DEF Job, JobPc
    <2>3. WellFormedJob(row)
      BY <1>1, <2>2 DEF WellFormedJob
    <2> HIDE DEF row
    <2>4. LoopInv'
      BY <1>4, <2>2, <2>3, SetJobInv DEF SchedInv, LoopInv
    <2> QED
      BY <1>2, <2>4 DEF JobRecheck, SchedInv
  <1> QED
    BY <1>3, <1>4 DEF JobRecheck

LEMMA JobRecommitInv ==
  ASSUME StoreInv, SchedInv, NEW f \in Fibers, JobRecommit(f)
  PROVE  StoreInv' /\ SchedInv'
  <1>1. CASE Commit(f)
    BY <1>1, CommitInv DEF JobRecommit
  <1>2. CASE Finish(f, TRUE) /\ UNCHANGED storeVars
    BY <1>2, FinishInv, StoreUnchanged DEF JobRecommit, SchedInv
  <1> QED
    BY <1>1, <1>2 DEF JobRecommit

-----------------------------------------------------------------------------
(* Turns, custodians and crashes.                                          *)

LEMMA TurnStepInv ==
  ASSUME StoreInv, SchedInv, NEW k \in Slots, TurnStep(k)
  PROVE  StoreInv' /\ SchedInv'
  <1>1. LoopInv'
    BY LoopUnchanged DEF TurnStep, CleanupConversation, TurnEnds, SchedInv, LoopInv
  <1>2. CASE CleanupConversation(k)
    <2>1. StoreInv' /\ turn' \subseteq Slots \X Ops
      BY <1>2, StopTurnInv DEF CleanupConversation, SchedInv
    <2> QED
      BY <1>1, <1>2, <2>1 DEF CleanupConversation, SchedInv
  <1>3. CASE \E o \in Ops : TurnEnds(k, o)
    <2>1. StoreInv'
      BY <1>3, FinishTurnInv DEF TurnEnds
    <2> QED
      BY <1>1, <1>3, <2>1 DEF TurnEnds, SchedInv
  <1> QED
    BY <1>2, <1>3 DEF TurnStep

LEMMA AbandonInv ==
  ASSUME StoreInv, SchedInv, NEW a \in orphan, Abandon(a)
  PROVE  StoreInv' /\ SchedInv'
  <1>1. a.k \in Slots /\ a.op \in Ops
    BY DEF SchedInv, LoopInv, Orphan
  <1>2. StoreInv'
    BY <1>1, FinishTurnInv DEF Abandon
  <1>3. LoopInv'
    BY LoopUnchanged DEF Abandon, SchedInv, LoopInv
  <1> QED
    BY <1>2, <1>3 DEF Abandon, SchedInv

LEMMA IdleJobsType ==
  IdleJobs \in [Fibers -> Job] /\ \A f \in Fibers : WellFormedJob(IdleJobs[f])
  BY IdleType DEF IdleJobs

LEMMA CrashAndRestartInv ==
  ASSUME StoreInv, SchedInv, CrashAndRestart
  PROVE  StoreInv' /\ SchedInv'
  <1>1. exec' \in ExecutionRow
    BY DEF CrashAndRestart, StoreInv, StoreTypeOK, ExecutionRow
  <1>2. StoreInv'
    BY <1>1, ExecutionWritten DEF CrashAndRestart
  <1>3. left' \in [commands: 0 .. MaxCommands, crashes: 0 .. MaxCrashes, faults: 0 .. MaxFaults]
    <2>1. left.crashes - 1 \in 0 .. MaxCrashes
      BY BudgetAssumption DEF CrashAndRestart, SchedInv
    <2> QED
      BY <2>1 DEF CrashAndRestart, SchedInv
  <1>4. (\A f \in Fibers : WellFormedJob(job[f]))'
    BY IdleJobsType DEF CrashAndRestart
  <1>5. LoopInv'
    BY <1>4, GenerationType, NoSnapshotType, IdleJobsType DEF CrashAndRestart, LoopInv
  <1> QED
    BY <1>2, <1>3, <1>5 DEF CrashAndRestart, SchedInv

LEMMA SchedulerNextInv ==
  ASSUME StoreInv, SchedInv, SchedulerNext
  PROVE  StoreInv' /\ SchedInv'
  <1>1. CASE LoopStep
    BY <1>1, AcquireInv, PublishInv, EffectReadInv, EffectStopInv, EffectSteerInv, EffectAckInv,
       RecoverInv, LoopTopInv, SkipBlockedInv, DispatchInv, RestInv, LoopEndsInv, ExitInv, EndInv
       DEF LoopStep
  <1>2. ASSUME NEW s \in Steps, DispatchStep(s)
        PROVE  StoreInv' /\ SchedInv'
    BY <1>2, JobReadInv, JobCreateInv, JobStartInv DEF DispatchStep
  <1>3. ASSUME NEW f \in Fibers, FiberStep(f)
        PROVE  StoreInv' /\ SchedInv'
    BY <1>3, JobClaimInv, JobLaunchInv, JobAwaitInv, JobSettleInv, JobCommitInv, JobRecheckInv,
       JobRecommitInv DEF FiberStep
  <1> QED
    BY <1>1, <1>2, <1>3, ClockStepInv, TurnStepInv, AbandonInv DEF SchedulerNext

-----------------------------------------------------------------------------
(* Commands and their continuations.                                       *)

LEMMA ThenType ==
  ASSUME NEW do \in {"start", "stop", "stop_start"}
  PROVE  Then(do) \in Continuation /\ Then(do).do = do
  BY DEF Then, Continuation, NoSlot

LEMMA ThenDeliverType ==
  ASSUME NEW do \in {"steer", "stop_turn", "ack"}, NEW k \in Slots, NEW av \in Nat
  PROVE  ThenDeliver(do, k, av) \in Continuation /\ ThenDeliver(do, k, av).k = k
  BY DEF ThenDeliver, Continuation

\* The continuations a command may leave behind.
WellFormedPost(continuations) ==
  /\ continuations \subseteq Continuation
  /\ \A p \in continuations : p.do \in {"steer", "stop_turn", "ack"} => p.k \in Slots

LEMMA ThenWellFormed ==
  /\ \A do \in {"start", "stop", "stop_start"} : WellFormedPost({Then(do)})
  /\ WellFormedPost({})
  BY ThenType DEF WellFormedPost

LEMMA ThenDeliverWellFormed ==
  ASSUME NEW do \in {"steer", "stop_turn", "ack"}, NEW k \in Slots, NEW av \in Nat
  PROVE  WellFormedPost({ThenDeliver(do, k, av)})
  BY ThenDeliverType DEF WellFormedPost

LEMMA PostWritten ==
  ASSUME PostInv, NEW gone, NEW continuations, WellFormedPost(continuations),
         post' = (post \ gone) \cup continuations
  PROVE  PostInv'
  BY DEF PostInv, WellFormedPost

LEMMA StaleSnapshotType ==
  ASSUME SchedInv
  PROVE  StaleSnapshot \in Generation
  BY DEF StaleSnapshot, SchedInv, LoopInv, Generation

LEMMA CommittedInv ==
  ASSUME SchedInv, PostInv, NEW continuations, WellFormedPost(continuations),
         Committed(continuations),
         left' \in [commands: 0 .. MaxCommands, crashes: 0 .. MaxCrashes, faults: 0 .. MaxFaults]
  PROVE  SchedInv' /\ PostInv'
  <1>1. LoopInv'
    BY StaleSnapshotType, LoopUnchanged DEF Committed, SchedInv, LoopInv
  <1>2. PostInv'
    <2>1. post' = (post \ {}) \cup continuations
      BY DEF Committed
    <2> QED
      BY <2>1, PostWritten
  <1> QED
    BY <1>1, <1>2 DEF Committed, SchedInv

LEMMA IssueInv ==
  ASSUME SchedInv, PostInv, NEW command, NEW continuations, WellFormedPost(continuations),
         Issue(command, continuations)
  PROVE  SchedInv' /\ PostInv'
  <1>1. left.commands - 1 \in 0 .. MaxCommands
    BY BudgetAssumption DEF Issue, SchedInv
  <1>2. left' \in [commands: 0 .. MaxCommands, crashes: 0 .. MaxCrashes, faults: 0 .. MaxFaults]
    BY <1>1 DEF Issue, SchedInv
  <1> QED
    BY <1>2, CommittedInv DEF Issue

LEMMA CurrentSteps == Current \subseteq Steps
  BY DEF Current

LEMMA PlanningInv ==
  ASSUME TypeInv, Planning
  PROVE  TypeInv'
  <1>1. CASE PlanInitial
    <2>1. PICK plan \in Plans, status \in PlannedStatus :
            /\ CanReconcilePlan({}, plan)
            /\ ReconcilePlan({}, plan, status)
            /\ Committed(IF status = "running" THEN {Then("start")} ELSE {})
      BY <1>1 DEF PlanInitial
    <2>2. StoreInv'
      BY <2>1, ReconcilePlanInv DEF TypeInv, PlannedStatus, ExecutionStatus
    <2>3. SchedInv' /\ PostInv'
      BY <1>1, <2>1, ThenWellFormed, CommittedInv DEF PlanInitial, TypeInv, SchedInv
    <2> QED
      BY <2>2, <2>3 DEF TypeInv
  <1>2. CASE PlanFails
    <2>1. StoreInv'
      BY <1>2, UpdateStatusInv DEF PlanFails, TypeInv, ExecutionStatus
    <2>2. SchedInv' /\ PostInv'
      BY <1>2, ThenWellFormed, CommittedInv DEF PlanFails, TypeInv, SchedInv
    <2> QED
      BY <2>1, <2>2 DEF TypeInv
  <1> QED
    BY <1>1, <1>2 DEF Planning

\* The commands on the aggregate as a whole.
LEMMA ExecutionCommandInv ==
  ASSUME TypeInv, Approve \/ Pause \/ Resume \/ Cancel \/ Delete
  PROVE  TypeInv'
  <1>1. SchedInv' /\ PostInv'
    BY ThenWellFormed, IssueInv DEF Approve, Pause, Resume, Cancel, Delete, TypeInv
  <1>2. CASE Approve
    BY <1>1, <1>2, UpdateStatusInv DEF Approve, TypeInv, ExecutionStatus
  <1>3. CASE Pause
    BY <1>1, <1>3, PauseExecutionInv DEF Pause, TypeInv
  <1>4. CASE Resume
    BY <1>1, <1>4, LeaseInv DEF Resume, TypeInv
  <1>5. CASE Cancel
    <2>1. exec' \in ExecutionRow
      BY <1>5, WithStatusType
      DEF Cancel, CancelExecution, TypeInv, StoreInv, StoreTypeOK, ExecutionStatus
    <2> QED
      BY <1>1, <1>5, <2>1, TerminateChildrenInv DEF Cancel, CancelExecution, TypeInv
  <1>6. CASE Delete
    <2> DEFINE to == IF Terminal THEN exec.status ELSE "cancelled"
    <2>1. to \in ExecutionStatus
      BY DEF TypeInv, StoreInv, StoreTypeOK, ExecutionRow, ExecutionStatus
    <2>2. WithStatus(exec, to) \in ExecutionRow
      BY <2>1, WithStatusType DEF TypeInv, StoreInv, StoreTypeOK
    <2>3. exec' = [WithStatus(exec, to) EXCEPT !.deleted = TRUE]
      BY <1>6 DEF Delete, DeleteExecution
    <2> HIDE DEF to
    <2>4. exec' \in ExecutionRow
      BY <2>2, <2>3 DEF ExecutionRow
    <2> QED
      BY <1>1, <1>6, <2>4, TerminateChildrenInv DEF Delete, DeleteExecution, TypeInv
  <1> QED
    BY <1>1, <1>2, <1>3, <1>4, <1>5, <1>6 DEF TypeInv

LEMMA PlanCommandInv ==
  ASSUME TypeInv, Replan \/ Adjust
  PROVE  TypeInv'
  <1>1. SchedInv' /\ PostInv'
    BY ThenWellFormed, IssueInv DEF Replan, Adjust, TypeInv
  <1>2. CASE Replan
    BY <1>1, <1>2, ReconcilePlanInv DEF Replan, TypeInv, PlannedStatus, ExecutionStatus
  <1>3. CASE Adjust
    <2>1. exec.status \in ExecutionStatus
      BY DEF TypeInv, StoreInv, StoreTypeOK, ExecutionRow
    <2> QED
      BY <1>1, <1>3, <2>1, CurrentSteps, ReconcilePlanInv DEF Adjust, TypeInv
  <1> QED
    BY <1>1, <1>2, <1>3 DEF TypeInv

\* The commands on one step or attempt.
LEMMA StepCommandInv ==
  ASSUME TypeInv,
         \/ \E s \in Steps : Retry(s)
         \/ \E k \in Slots : Adopt(k) \/ Steer(k) \/ Answer(k) \/ RequestUserDecision(k)
  PROVE  TypeInv'
  <1>1. ASSUME NEW s \in Steps, Retry(s)
        PROVE  TypeInv'
    BY <1>1, ThenWellFormed, IssueInv, ResetForRetryInv DEF Retry, TypeInv
  <1>2. ASSUME NEW k \in Slots, Adopt(k)
        PROVE  TypeInv'
    BY <1>2, ThenWellFormed, IssueInv, AdoptOutputInv DEF Adopt, TypeInv
  <1>3. ASSUME NEW k \in Slots, Answer(k)
        PROVE  TypeInv'
    BY <1>3, ThenWellFormed, IssueInv, ResumeWaitingAttemptInv DEF Answer, TypeInv
  <1>4. ASSUME NEW k \in Slots
        PROVE  attempt[k].version + 1 \in Nat
    BY RowsOf, AttemptVersion DEF TypeInv
  <1>5. ASSUME NEW k \in Slots, Steer(k)
        PROVE  TypeInv'
    <2>1. WellFormedPost({ThenDeliver("steer", k, attempt[k].version + 1)})
      BY <1>4, ThenDeliverWellFormed
    <2> QED
      BY <1>5, <2>1, IssueInv, EnqueueSteerInv DEF Steer, TypeInv
  <1>6. ASSUME NEW k \in Slots, RequestUserDecision(k)
        PROVE  TypeInv'
    <2>1. WellFormedPost({ThenDeliver("stop_turn", k, attempt[k].version + 1)})
      BY <1>4, ThenDeliverWellFormed
    <2>2. SchedInv' /\ PostInv'
      BY <1>6, <2>1, CommittedInv DEF RequestUserDecision, TypeInv, SchedInv
    <2> QED
      BY <1>6, <2>2, AskDecisionInv DEF RequestUserDecision, TypeInv
  <1> QED
    BY <1>1, <1>2, <1>3, <1>5, <1>6

LEMMA ContinueInv ==
  ASSUME TypeInv, NEW p \in post, Continue(p)
  PROVE  TypeInv'
  <1>1. p.do \in {"steer", "stop_turn", "ack"} => p.k \in Slots /\ p.av \in Nat
    BY DEF TypeInv, PostInv, Continuation
  <1>2. CASE PostStart(p)
    <2>1. sched' \in Generation
      BY <1>2, GenerationType DEF PostStart, Started, TypeInv, SchedInv, LoopInv, Generation
    <2>2. LoopInv'
      BY <1>2, <2>1, LoopUnchanged DEF PostStart, TypeInv, SchedInv, LoopInv
    <2>3. PostInv'
      BY <1>2 DEF PostStart, TypeInv, PostInv
    <2> QED
      BY <1>2, <2>2, <2>3, StoreUnchanged DEF PostStart, TypeInv, SchedInv
  <1>3. CASE PostStop(p)
    <2>1. sched' \in Generation
      BY <1>3 DEF PostStop, Stopped, TypeInv, SchedInv, LoopInv, Generation
    <2>2. LoopInv'
      BY <1>3, <2>1, LoopUnchanged DEF PostStop, TypeInv, SchedInv, LoopInv
    <2>3. PostInv'
      BY <1>3, ThenWellFormed, PostWritten DEF PostStop, TypeInv
    <2> QED
      BY <1>3, <2>2, <2>3, StoreUnchanged DEF PostStop, TypeInv, SchedInv
  <1>4. CASE PostSteer(p)
    <2>1. StoreInv'
      BY <1>1, <1>4, SteerTurnInv, StoreUnchanged DEF PostSteer, TypeInv
    <2>2. LoopInv'
      BY <1>4, LoopUnchanged DEF PostSteer, schedVars, TypeInv, SchedInv, LoopInv
    <2>3. PostInv'
      BY <1>1, <1>4, ThenWellFormed, ThenDeliverWellFormed, PostWritten DEF PostSteer, TypeInv
    <2> QED
      BY <1>4, <2>1, <2>2, <2>3 DEF PostSteer, schedVars, TypeInv, SchedInv
  <1>5. CASE PostStopTurn(p)
    <2>1. StoreInv' /\ turn' \subseteq Slots \X Ops
      BY <1>1, <1>5, StopTurnInv, StoreUnchanged DEF PostStopTurn, TypeInv, SchedInv
    <2>2. LoopInv'
      BY <1>5, LoopUnchanged DEF PostStopTurn, TypeInv, SchedInv, LoopInv
    <2>3. PostInv'
      BY <1>1, <1>5, ThenWellFormed, ThenDeliverWellFormed, PostWritten DEF PostStopTurn, TypeInv
    <2> QED
      BY <1>5, <2>1, <2>2, <2>3 DEF PostStopTurn, TypeInv, SchedInv
  <1>6. CASE PostAck(p)
    <2>1. StoreInv'
      BY <1>1, <1>6, EffectSequences, AcknowledgeEffectInv, StoreUnchanged DEF PostAck, TypeInv
    <2>2. sched' \in Generation
      BY <1>6, StaleSnapshotType DEF PostAck, TypeInv, SchedInv, LoopInv
    <2>3. LoopInv'
      BY <1>6, <2>2, LoopUnchanged DEF PostAck, TypeInv, SchedInv, LoopInv
    <2>4. PostInv'
      BY <1>6, ThenWellFormed, PostWritten DEF PostAck, TypeInv
    <2> QED
      BY <1>6, <2>1, <2>3, <2>4 DEF PostAck, TypeInv, SchedInv
  <1> QED
    BY <1>2, <1>3, <1>4, <1>5, <1>6 DEF Continue

-----------------------------------------------------------------------------
(* Type correctness.                                                       *)

LEMMA InitTypeInv == Init => TypeInv
  <1> SUFFICES ASSUME Init PROVE TypeInv
    OBVIOUS
  <1>1. StoreTypeOK
    <2>1. exec \in ExecutionRow
      BY DEF Init, StoreInit, ExecutionRow, ExecutionStatus
    <2>2. NoStep \in StepRow /\ NoAttempt \in AttemptRow
      BY OpsFacts, EffectSequences DEF NoStep, StepRow, NoAttempt, AttemptRow, DispatchAfter
    <2>3. NewConversation \in ConversationRow
      BY DEF NewConversation, ConversationRow, ReceiptStatus, NoOp
    <2> QED
      BY <2>1, <2>2, <2>3 DEF Init, StoreInit, StoreTypeOK
  <1>2. AnswersLeft
    BY DEF Init, StoreInit, AnswersLeft, NoAttempt
  <1>3. LoopInv
    BY GenerationType, NoSnapshotType, IdleJobsType DEF Init, SchedulerInit, LoopInv
  <1>4. left \in [commands: 0 .. MaxCommands, crashes: 0 .. MaxCrashes, faults: 0 .. MaxFaults]
    BY BudgetAssumption DEF Init, SchedulerInit
  <1> QED
    BY <1>1, <1>2, <1>3, <1>4 DEF Init, SchedulerInit, TypeInv, StoreInv, SchedInv, PostInv

LEMMA NextTypeInv == TypeInv /\ [Next]_allVars => TypeInv'
  <1> SUFFICES ASSUME TypeInv, [Next]_allVars PROVE TypeInv'
    OBVIOUS
  <1>1. CASE SchedulerNext /\ UNCHANGED post
    BY <1>1, SchedulerNextInv DEF TypeInv, PostInv
  <1>2. CASE Planning
    BY <1>2, PlanningInv
  <1>3. CASE Command
    BY <1>3, ExecutionCommandInv, PlanCommandInv, StepCommandInv DEF Command
  <1>4. CASE \E p \in post : Continue(p)
    BY <1>4, ContinueInv
  <1>5. CASE CrashAndRestart /\ post' = {}
    BY <1>5, CrashAndRestartInv DEF TypeInv, PostInv
  <1>6. CASE UNCHANGED allVars
    <2>1. StoreInv'
      BY <1>6, StoreUnchanged DEF allVars, vars, TypeInv
    <2>2. LoopInv'
      BY <1>6, LoopUnchanged DEF allVars, vars, schedVars, TypeInv, SchedInv, LoopInv
    <2> QED
      BY <1>6, <2>1, <2>2 DEF allVars, vars, schedVars, TypeInv, SchedInv, PostInv
  <1> QED
    BY <1>1, <1>2, <1>3, <1>4, <1>5, <1>6 DEF Next

LEMMA TypeInvTypeOK == TypeInv => TypeOK
  BY DEF TypeInv, StoreInv, SchedInv, LoopInv, Orphan, PostInv, TypeOK, SchedulerTypeOK

\* Every reachable state of an execution and its scheduler is well typed, for
\* any set of steps and plans, any retry policy and any bounds: no
\* interleaving of the loop, its futures, commands and crashes makes a future
\* read a slot or an operation that was never assigned, and an answer never
\* numbers a continuation beyond the last question that can be asked.
THEOREM TypeCorrect == Spec => []TypeOK
  <1>1. TypeInv /\ [Next]_allVars => TypeInv'
    BY NextTypeInv
  <1> QED
    BY <1>1, InitTypeInv, TypeInvTypeOK, PTL DEF Spec

\* The fields a future reads in each of its states are set, in every
\* reachable state: the scheduler never awaits, settles or re-checks a call
\* whose attempt it does not hold.
THEOREM FuturesWellFormed == Spec => [](\A f \in Fibers : WellFormedJob(job[f]))
  <1>1. TypeInv => \A f \in Fibers : WellFormedJob(job[f])
    BY DEF TypeInv, SchedInv, LoopInv
  <1>2. TypeInv /\ [Next]_allVars => TypeInv'
    BY NextTypeInv
  <1> QED
    BY <1>1, <1>2, InitTypeInv, PTL DEF Spec

=============================================================================
