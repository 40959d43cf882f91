------------------------- MODULE ConversationProofs -------------------------
(***************************************************************************)
(* A Conversation never runs two model turns at once: proof for every      *)
(* value of the constants.                                                 *)
(*                                                                         *)
(* A turn is launched in two transactions, an admission (ClaimTurn) that   *)
(* names the active operation and a validation just before the runtime is  *)
(* called, and outlives the future that launched it.  ConvInv follows an   *)
(* operation from its admission on: it is held by one launching future, or *)
(* was left to a custodian, or is a live turn, and while the link is       *)
(* active a live turn is the active operation.                             *)
(***************************************************************************)
EXTENDS SettlementProofs

-----------------------------------------------------------------------------
(* The inductive invariant.                                                *)

Claimed(k, o) == conv[k].receipt[o] # "none"
Live(k, o) == <<k, o>> \in turn

\* An attempt that has not started has claimed nothing.
FreshConversation ==
  \A k \in Slots : attempt[k].status \in {"absent", "queued"} =>
    \A o \in Ops : ~Claimed(k, o)

\* A live turn was claimed, and it is the active operation of its
\* Conversation as long as the attempt holds the link.
LiveIsActive ==
  \A k \in Slots, o \in Ops : Live(k, o) =>
    /\ Claimed(k, o)
    /\ attempt[k].link => conv[k].active = o

OneLive == \A k \in Slots, o, p \in Ops : Live(k, o) /\ Live(k, p) => o = p

\* An admission that has not launched its turn is in one hand.
Ticket(j) == Claimed(j.k, j.op) /\ ~Live(j.k, j.op)
SameTicket(i, j) == i.k = j.k /\ i.op = j.op
Launching(f) == job[f].pc = "launch"
Tickets ==
  /\ \A f \in Fibers : Launching(f) => Ticket(job[f])
  /\ \A a \in orphan : Ticket(a)
  /\ \A f, g \in Fibers : Launching(f) /\ Launching(g) /\ SameTicket(job[f], job[g]) => f = g
  /\ \A f \in Fibers : \A a \in orphan : Launching(f) => ~SameTicket(job[f], a)

ConvInv == FreshConversation /\ LiveIsActive /\ OneLive /\ Tickets

-----------------------------------------------------------------------------
(* Steps that admit and launch nothing.                                    *)

ConvStep ==
  /\ turn' \subseteq turn
  /\ \A k \in Slots, o \in Ops : Claimed(k, o)' <=> Claimed(k, o)
  /\ \A k \in Slots, o \in Ops :
       <<k, o>> \in turn' /\ attempt'[k].link /\ conv[k].active = o => conv'[k].active = o

TicketStep ==
  /\ \A a \in orphan' : a \in orphan \/ \E f \in Fibers : Launching(f) /\ SameTicket(a, job[f])
  /\ orphan' \subseteq orphan \/ \A f \in Fibers : job'[f].pc # "launch"
  /\ \A f \in Fibers : job'[f].pc = "launch" => job'[f] = job[f]

\* What is live has been claimed, so its attempt started.
LEMMA LiveStarted ==
  ASSUME ConvInv, NEW k \in Slots, NEW o \in Ops, Live(k, o)
  PROVE  attempt[k].status \notin {"absent", "queued"}
  BY DEF ConvInv, LiveIsActive, FreshConversation

LEMMA TicketTypes ==
  ASSUME SchedInv
  PROVE  /\ \A f \in Fibers : Launching(f) => job[f].k \in Slots /\ job[f].op \in Ops
         /\ \A a \in orphan : a.k \in Slots /\ a.op \in Ops
  <1>1. \A f \in Fibers : Launching(f) => job[f].k \in Slots /\ job[f].op \in Ops
    BY JobOf DEF Launching, WellFormedJob
  <1>2. \A a \in orphan : a.k \in Slots /\ a.op \in Ops
    BY DEF SchedInv, LoopInv, Orphan
  <1> QED
    BY <1>1, <1>2

LEMMA ConvKept ==
  ASSUME StoreInv, SchedInv, ConvInv, RowMoves, ConvStep, TicketStep
  PROVE  ConvInv'
  <1>1. FreshConversation'
    <2> SUFFICES ASSUME NEW k \in Slots, attempt'[k].status \in {"absent", "queued"},
                        NEW o \in Ops
                 PROVE  ~Claimed(k, o)'
      BY DEF FreshConversation
    <2>1. CanAttempt(attempt[k].status, attempt'[k].status)
      BY DEF RowMoves, AttemptMoves
    <2>2. attempt[k].status \in AttemptStatus \cup {"absent"}
      BY RowsOf DEF AttemptRow
    <2>3. attempt[k].status \in {"absent", "queued"}
      BY <2>1, <2>2
      DEF CanAttempt, Lifecycle!AttemptNext, Lifecycle!SettledAttempt, AttemptStatus
    <2> QED
      BY <2>3 DEF ConvInv, FreshConversation, ConvStep
  <1>2. LiveIsActive'
    <2> SUFFICES ASSUME NEW k \in Slots, NEW o \in Ops, <<k, o>> \in turn'
                 PROVE  Claimed(k, o)' /\ (attempt'[k].link => conv'[k].active = o)
      BY DEF LiveIsActive, Live
    <2>1. Live(k, o)
      BY DEF ConvStep, Live
    <2>2. Claimed(k, o)'
      BY <2>1 DEF ConvInv, LiveIsActive, ConvStep
    <2>3. attempt'[k].link => attempt[k].link
      BY <2>1, LiveStarted DEF RowMoves, AttemptMoves
    <2>4. attempt'[k].link => conv'[k].active = o
      BY <2>1, <2>3 DEF ConvInv, LiveIsActive, ConvStep
    <2> QED
      BY <2>2, <2>4
  <1>3. OneLive'
    BY DEF ConvInv, OneLive, Live, ConvStep
  <1>4. ASSUME NEW j, Ticket(j), j.k \in Slots, j.op \in Ops
        PROVE  conv'[j.k].receipt[j.op] # "none" /\ <<j.k, j.op>> \notin turn'
    BY <1>4 DEF Ticket, Claimed, Live, ConvStep
  <1>5. Tickets'
    <2>1. ASSUME NEW f \in Fibers, job'[f].pc = "launch"
          PROVE  /\ Launching(f) /\ job'[f] = job[f]
                 /\ conv'[job[f].k].receipt[job[f].op] # "none"
                 /\ <<job[f].k, job[f].op>> \notin turn'
      <3>1. Launching(f) /\ job'[f] = job[f]
        BY <2>1 DEF TicketStep, Launching
      <3> QED
        BY <1>4, <3>1, TicketTypes DEF ConvInv, Tickets
    <2>2. ASSUME NEW a \in orphan'
          PROVE  conv'[a.k].receipt[a.op] # "none" /\ <<a.k, a.op>> \notin turn'
      <3>1. CASE a \in orphan
        BY <1>4, <3>1, TicketTypes DEF ConvInv, Tickets
      <3>2. ASSUME NEW f \in Fibers, Launching(f), SameTicket(a, job[f])
            PROVE  conv'[a.k].receipt[a.op] # "none" /\ <<a.k, a.op>> \notin turn'
        BY <1>4, <3>2, TicketTypes DEF ConvInv, Tickets, SameTicket
      <3> QED
        BY <3>1, <3>2 DEF TicketStep
    <2>3. \A f, g \in Fibers :
            job'[f].pc = "launch" /\ job'[g].pc = "launch" /\ SameTicket(job'[f], job'[g]) => f = g
      BY <2>1 DEF ConvInv, Tickets
    <2>4. \A f \in Fibers : \A a \in orphan' : job'[f].pc = "launch" => ~SameTicket(job'[f], a)
      <3>1. CASE orphan' \subseteq orphan
        BY <2>1, <3>1 DEF ConvInv, Tickets
      <3>2. CASE \A f \in Fibers : job'[f].pc # "launch"
        BY <3>2
      <3> QED
        BY <3>1, <3>2 DEF TicketStep
    <2> QED
      BY <2>1, <2>2, <2>3, <2>4 DEF Tickets, Launching, Ticket, Claimed, Live, SameTicket
  <1> QED
    BY <1>1, <1>2, <1>3, <1>5 DEF ConvInv

-----------------------------------------------------------------------------
(* What the futures do to the admissions they hold.                        *)

LEMMA TicketSame ==
  ASSUME job' = job, orphan' \subseteq orphan
  PROVE  TicketStep
  BY DEF TicketStep

LEMMA TicketLeft ==
  ASSUME NEW restart, LeaveLoop(restart)
  PROVE  TicketStep
  <1>1. \A f \in Fibers : job'[f].pc # "launch"
    BY DEF LeaveLoop, IdleJobs, Idle
  <1>2. \A a \in orphan' : a \in orphan \/ \E f \in Fibers : Launching(f) /\ SameTicket(a, job[f])
    BY DEF LeaveLoop, Launching, SameTicket
  <1> QED
    BY <1>1, <1>2 DEF TicketStep

LEMMA TicketSet ==
  ASSUME SchedInv, NEW f \in Fibers, NEW row, row.pc # "launch", SetJob(f, row),
         orphan' = orphan
  PROVE  TicketStep
  <1>1. \A g \in Fibers : job'[g] = IF g = f THEN row ELSE job[g]
    BY DEF SetJob, SchedInv, LoopInv
  <1> QED
    BY <1>1 DEF TicketStep

LEMMA TicketFinished ==
  ASSUME SchedInv, NEW f \in Fibers, NEW failed, Finish(f, failed)
  PROVE  TicketStep
  <1>1. CASE LeaveLoop(TRUE)
    BY <1>1, TicketLeft
  <1>2. CASE SetJob(f, Idle) /\ orphan' = orphan
    BY <1>2, TicketSet DEF Idle
  <1> QED
    BY <1>1, <1>2 DEF Finish, SetJob

-----------------------------------------------------------------------------
(* What the transactions do to a Conversation.                             *)

LEMMA ConvOf ==
  ASSUME StoreInv
  PROVE  /\ conv \in [Slots -> ConversationRow]
         /\ \A k \in Slots : conv[k] \in ConversationRow
  BY DEF StoreInv, StoreTypeOK

LEMMA ConvSame ==
  ASSUME conv' = conv, turn' = turn
  PROVE  ConvStep
  BY DEF ConvStep, Claimed

LEMMA ConvMoved ==
  ASSUME StoreInv, turn' \subseteq turn, NEW k \in Slots, NEW row,
         conv' = [conv EXCEPT ![k] = row],
         \A o \in Ops : row.receipt[o] # "none" <=> Claimed(k, o),
         \A o \in Ops : <<k, o>> \in turn' /\ attempt'[k].link /\ conv[k].active = o
                          => row.active = o
  PROVE  ConvStep
  <1>1. \A j \in Slots : conv'[j] = IF j = k THEN row ELSE conv[j]
    BY ConvOf
  <1> QED
    BY <1>1 DEF ConvStep, Claimed

\* Ending an operation neither makes nor forgets an admission.
LEMMA TurnFinished ==
  ASSUME NEW row \in ConversationRow, NEW o \in Ops, NEW r, r # "none"
  PROVE  /\ \A p \in Ops : FinishedTurn(row, o, r).receipt[p] # "none"
                             <=> row.receipt[p] # "none"
         /\ \A p \in Ops : p # o /\ row.active = p => FinishedTurn(row, o, r).active = p
  <1> DEFINE new == [row EXCEPT !.active = NoOp,
                                !.receipt[o] = IF @ = "accepted" THEN r ELSE @]
  <1>1. CASE row.active = o
    <2>1. FinishedTurn(row, o, r) = new
      BY <1>1 DEF FinishedTurn
    <2>2. \A p \in Ops : new.receipt[p] =
            IF p = o THEN (IF row.receipt[o] = "accepted" THEN r ELSE row.receipt[o])
            ELSE row.receipt[p]
      BY DEF ConversationRow
    <2> QED
      BY <1>1, <2>1, <2>2
  <1>2. CASE row.active # o
    BY <1>2 DEF FinishedTurn
  <1> QED
    BY <1>1, <1>2

LEMMA FinishTurnStep ==
  ASSUME StoreInv, NEW k \in Slots, NEW o \in Ops, NEW r, r # "none",
         FinishTurn(k, o, r), turn' \subseteq turn, <<k, o>> \notin turn'
  PROVE  ConvStep
  <1> DEFINE row == FinishedTurn(conv[k], o, r)
  <1>1. conv' = [conv EXCEPT ![k] = row]
    BY ConvOf DEF FinishTurn
  <1>2. /\ \A p \in Ops : row.receipt[p] # "none" <=> Claimed(k, p)
        /\ \A p \in Ops : p # o /\ conv[k].active = p => row.active = p
    BY ConvOf, TurnFinished DEF Claimed
  <1> HIDE DEF row
  <1> QED
    BY <1>1, <1>2, ConvMoved

LEMMA StopTurnStep ==
  ASSUME StoreInv, NEW k \in Slots, StopTurn(k)
  PROVE  ConvStep
  <1> DEFINE row == IF conv[k].active \in LiveTurns(k)
                    THEN FinishedTurn(conv[k], conv[k].active, "failed") ELSE conv[k]
  <1>1. conv' = [conv EXCEPT ![k] = row]
    BY ConvOf DEF StopTurn
  <1>2. \A p \in Ops : row.receipt[p] # "none" <=> Claimed(k, p)
    BY ConvOf, TurnFinished DEF Claimed, LiveTurns
  <1>3. turn' \subseteq turn /\ \A p \in Ops : <<k, p>> \notin turn'
    BY DEF StopTurn
  <1> HIDE DEF row
  <1> QED
    BY <1>1, <1>2, <1>3, ConvMoved

LEMMA SteerStep ==
  ASSUME StoreInv, NEW k \in Slots, NEW b, conv' = [conv EXCEPT ![k].steered = b],
         turn' = turn
  PROVE  ConvStep
  <1> DEFINE row == [conv[k] EXCEPT !.steered = b]
  <1>1. conv' = [conv EXCEPT ![k] = row]
    BY ConvOf
  <1>2. row.receipt = conv[k].receipt /\ row.active = conv[k].active
    BY ConvOf DEF ConversationRow
  <1> HIDE DEF row
  <1> QED
    BY <1>1, <1>2, ConvMoved DEF Claimed

\* A reconciled attempt gives up its link with the turn it closes.
LEMMA ReconciledTurn ==
  ASSUME StoreInv, NEW k \in Slots
  PROVE  /\ \A o \in Ops : ReconciledConversation(k).receipt[o] # "none" <=> Claimed(k, o)
         /\ ~ReconciledAttempt(k).link
  <1>1. \A o \in Ops : ReconciledConversation(k).receipt[o] # "none" <=> Claimed(k, o)
    BY ConvOf, TurnFinished, OpsFacts DEF ReconciledConversation, Claimed, InitialTurn
  <1>2. ~ReconciledAttempt(k).link
    BY RowsOf DEF ReconciledAttempt, EndAttempt, SetAttempt, AttemptRow
  <1> QED
    BY <1>1, <1>2

-----------------------------------------------------------------------------
(* The actions that admit and launch nothing.                              *)

Passive == ConvStep /\ TicketStep

\* A future that is polled may end, drop the loop or take a step of its own.
LEMMA FuturePassive ==
  ASSUME SchedInv, NEW f \in Fibers, conv' = conv, turn' = turn,
         \/ \E failed : Finish(f, failed)
         \/ \E restart : LeaveLoop(restart)
         \/ orphan' = orphan /\ \E row : row.pc # "launch" /\ SetJob(f, row)
         \/ job' = job /\ orphan' \subseteq orphan
  PROVE  Passive
  BY ConvSame, TicketLeft, TicketSet, TicketFinished, TicketSame DEF Passive

LEMMA LeasePassive ==
  ASSUME SchedInv, Acquire \/ Publish \/ Exit \/ End
  PROVE  Passive
  <1>1. conv' = conv /\ turn' = turn /\ job' = job /\ orphan' \subseteq orphan
    BY DEF Acquire, AcquireLease, Publish, Exit, ReleaseLease, End, storeVars
  <1> QED
    BY <1>1, InlineFiber, FuturePassive

LEMMA EffectReadPassive ==
  ASSUME StoreInv, SchedInv, EffectRead
  PROVE  Passive
  <1>1. conv' = conv /\ turn' = turn
    BY DEF EffectRead, storeVars
  <1>2. CASE LeaveLoop(TRUE)
    BY <1>1, <1>2, InlineFiber, FuturePassive
  <1>3. CASE job' = job /\ orphan' = orphan
    BY <1>1, <1>3, InlineFiber, FuturePassive
  <1>4. ASSUME NEW k \in Slots, Undelivered(k), orphan' = orphan,
               SetJob(Inline, [Idle EXCEPT
                !.pc = CASE Head(attempt[k].effects) = "stop_turn" -> "stop"
                         [] Head(attempt[k].effects) = "steer" -> "steer"
                         [] Head(attempt[k].effects) = "decision_input" -> "claim",
                !.k = k, !.sv = step[k[1]].version, !.av = attempt[k].version,
                !.op = IF Head(attempt[k].effects) = "decision_input"
                       THEN attempt[k].decisions ELSE NoOp])
        PROVE  Passive
    <2> DEFINE pc == CASE Head(attempt[k].effects) = "stop_turn" -> "stop"
                       [] Head(attempt[k].effects) = "steer" -> "steer"
                       [] Head(attempt[k].effects) = "decision_input" -> "claim"
               row == [Idle EXCEPT
                !.pc = pc,
                !.k = k, !.sv = step[k[1]].version, !.av = attempt[k].version,
                !.op = IF Head(attempt[k].effects) = "decision_input"
                       THEN attempt[k].decisions ELSE NoOp]
    <2>1. pc # "launch"
      <3>1. Head(attempt[k].effects) \in {"stop_turn", "steer", "decision_input"}
        BY <1>4, RowsOf DEF Undelivered, AttemptRow, EffectKind
      <3> QED
        BY <3>1
    <2>2. SetJob(Inline, row)
      BY <1>4
    <2> HIDE DEF pc
    <2>3. row.pc = pc
      BY DEF Idle
    <2> HIDE DEF row
    <2> QED
      BY <1>1, <1>4, <2>1, <2>2, <2>3, InlineFiber, FuturePassive
  <1> QED
    BY <1>2, <1>3, <1>4 DEF EffectRead

\* The inline delivery moves on to its acknowledgement.
LEMMA InlineTicket ==
  ASSUME SchedInv, SetJob(Inline, [job[Inline] EXCEPT !.pc = "ack"]), orphan' = orphan
  PROVE  TicketStep
  <1> DEFINE row == [job[Inline] EXCEPT !.pc = "ack"]
  <1>1. row.pc = "ack" /\ SetJob(Inline, row)
    BY InlineFiber, JobOf DEF Job
  <1> HIDE DEF row
  <1> QED
    BY <1>1, InlineFiber, TicketSet

LEMMA EffectDeliveryPassive ==
  ASSUME StoreInv, SchedInv, EffectStop \/ EffectSteer \/ EffectAck
  PROVE  Passive
  <1> DEFINE k == job[Inline].k
  <1>1. k \in Slots
    BY InlineFiber, JobOf DEF EffectStop, EffectSteer, EffectAck, WellFormedJob
  <1>2. CASE LeaveLoop(TRUE) /\ UNCHANGED storeVars /\ turn' = turn
    BY <1>2, InlineFiber, FuturePassive DEF storeVars
  <1>3. CASE StopTurn(k) /\ SetJob(Inline, [job[Inline] EXCEPT !.pc = "ack"]) /\ orphan' = orphan
    BY <1>1, <1>3, StopTurnStep, InlineTicket DEF Passive
  <1>4. CASE /\ SteerTurn(k) /\ SetJob(Inline, [job[Inline] EXCEPT !.pc = "ack"])
             /\ orphan' = orphan /\ turn' = turn
    BY <1>1, <1>4, SteerStep, InlineTicket DEF Passive, SteerTurn
  <1>5. CASE Finish(Inline, FALSE) /\ conv' = conv /\ turn' = turn
    BY <1>5, InlineFiber, FuturePassive
  <1>6. CASE SteerTurn(k) /\ LeaveLoop(TRUE) /\ turn' = turn
    BY <1>1, <1>6, SteerStep, TicketLeft DEF Passive, SteerTurn
  <1> QED
    BY <1>2, <1>3, <1>4, <1>5, <1>6 DEF EffectStop, EffectSteer, EffectAck, AcknowledgeEffect

LEMMA RecoverPassive ==
  ASSUME StoreInv, SchedInv, Recover
  PROVE  Passive
  <1>1. CASE LeaveLoop(TRUE) /\ UNCHANGED <<storeVars, turn>>
    BY <1>1, InlineFiber, FuturePassive DEF storeVars
  <1>2. CASE UNCHANGED <<storeVars, job, orphan, turn>>
    BY <1>2, InlineFiber, FuturePassive DEF storeVars
  <1>3. ASSUME NEW k \in Slots, ReconcileRecovered(k), UNCHANGED <<job, orphan, turn>>
        PROVE  Passive
    <2>1. CASE conv' = conv
      BY <1>3, <2>1, InlineFiber, FuturePassive
    <2>2. CASE conv' # conv
      <3>1. /\ conv' = [conv EXCEPT ![k] = ReconciledConversation(k)]
            /\ attempt' = [attempt EXCEPT ![k] = ReconciledAttempt(k)]
        BY <1>3, <2>2 DEF ReconcileRecovered
      <3>2. ~attempt'[k].link
        BY <3>1, ReconciledTurn DEF StoreInv, StoreTypeOK
      <3>3. ConvStep
        BY <1>3, <3>1, <3>2, ReconciledTurn, ConvMoved
      <3> QED
        BY <1>3, <3>3, TicketSame DEF Passive
    <2> QED
      BY <2>1, <2>2
  <1> QED
    BY <1>1, <1>2, <1>3 DEF Recover

LEMMA DispatchPassive ==
  ASSUME SchedInv, Dispatch
  PROVE  Passive
  <1>1. conv' = conv /\ turn' = turn /\ orphan' = orphan
    BY DEF Dispatch, storeVars
  <1>2. PICK pick \in SUBSET Due :
          job' = [f \in Fibers |-> IF f \in pick THEN [Idle EXCEPT !.pc = "new"] ELSE job[f]]
    BY DEF Dispatch
  <1>3. \A f \in Fibers : job'[f].pc = "launch" => job'[f] = job[f]
    BY <1>2 DEF Idle
  <1> QED
    BY <1>1, <1>3, ConvSame DEF Passive, TicketStep

LEMMA LoopPassive ==
  ASSUME SchedInv,
         LoopTop \/ SkipBlocked \/ Rest \/ Wake \/ FailIfActive \/ WaitAborted
  PROVE  Passive
  <1>1. conv' = conv /\ turn' = turn
    BY DEF LoopTop, SkipBlocked, TransitionStep, Rest, UpdateStatus, Wake, FailIfActive,
           FailActiveExecution, TerminateChildren, WaitAborted, storeVars
  <1>2. (\E restart : LeaveLoop(restart)) \/ (job' = job /\ orphan' = orphan)
    BY DEF LoopTop, SkipBlocked, Rest, Wake, FailIfActive, WaitAborted
  <1> QED
    BY <1>1, <1>2, InlineFiber, FuturePassive

LEMMA LoopStepPassive ==
  ASSUME StoreInv, SchedInv, LoopStep
  PROVE  Passive
  BY LeasePassive, EffectReadPassive, EffectDeliveryPassive, RecoverPassive, DispatchPassive,
     LoopPassive DEF LoopStep

LEMMA ClockPassive ==
  ASSUME SchedInv, ClockStep
  PROVE  Passive
  <1>1. conv' = conv /\ turn' = turn /\ job' = job /\ orphan' = orphan
    BY DEF ClockStep, HeartbeatRenew, RenewLease, HeartbeatLost, LeaseExpires, BackoffOver,
           storeVars, schedVars
  <1> QED
    BY <1>1, InlineFiber, FuturePassive

LEMMA DispatchStepPassive ==
  ASSUME SchedInv, NEW s \in Steps, DispatchStep(s)
  PROVE  Passive
  <1> DEFINE read == [job[s] EXCEPT !.pc = "create", !.sv = step[s].version]
             started == [job[s] EXCEPT !.pc = "claim", !.op = InitialTurn, !.sv = @ + 1, !.av = @ + 1]
             failed == [job[s] EXCEPT !.pc = "settle", !.out = "error"]
  <1>1. s \in Fibers /\ job[s] \in Job
    BY InlineFiber, JobOf
  <1>2. conv' = conv /\ turn' = turn
    BY DEF DispatchStep, JobRead, JobCreate, CreateAttempt, JobStart, StartAttempt, storeVars
  <1>3. CASE \E b : Finish(s, b)
    BY <1>1, <1>2, <1>3, FuturePassive
  <1>4. CASE SetJob(s, read) /\ orphan' = orphan
    <2>1. read.pc = "create"
      BY <1>1 DEF Job
    <2> HIDE DEF read
    <2> QED
      BY <1>1, <1>2, <1>4, <2>1, FuturePassive
  <1>5. ASSUME NEW k \in SlotsOf(s), orphan' = orphan,
               SetJob(s, [job[s] EXCEPT !.pc = "start", !.k = k, !.sv = @ + 1, !.av = 0])
        PROVE  Passive
    <2> DEFINE row == [job[s] EXCEPT !.pc = "start", !.k = k, !.sv = @ + 1, !.av = 0]
    <2>1. row.pc = "start" /\ SetJob(s, row)
      BY <1>1, <1>5 DEF Job
    <2> HIDE DEF row
    <2> QED
      BY <1>1, <1>2, <1>5, <2>1, FuturePassive
  <1>6. CASE SetJob(s, started) /\ orphan' = orphan
    <2>1. started.pc = "claim"
      BY <1>1 DEF Job
    <2> HIDE DEF started
    <2> QED
      BY <1>1, <1>2, <1>6, <2>1, FuturePassive
  <1>7. CASE SetJob(s, failed) /\ orphan' = orphan
    <2>1. failed.pc = "settle"
      BY <1>1 DEF Job
    <2> HIDE DEF failed
    <2> QED
      BY <1>1, <1>2, <1>7, <2>1, FuturePassive
  <1>8. CASE JobRead(s)
    BY <1>3, <1>4, <1>8 DEF JobRead
  <1>9. CASE JobCreate(s)
    BY <1>3, <1>5, <1>9 DEF JobCreate
  <1>10. CASE JobStart(s)
    BY <1>6, <1>7, <1>10 DEF JobStart
  <1> QED
    BY <1>8, <1>9, <1>10 DEF DispatchStep

\* A future that goes to await or to its settlement holds no admission.
LEMMA AwaitSet ==
  ASSUME SchedInv, NEW f \in Fibers, conv' = conv, turn' = turn, orphan' = orphan,
         \/ SetJob(f, [job[f] EXCEPT !.pc = "await"])
         \/ SetJob(f, [job[f] EXCEPT !.pc = "recheck"])
  PROVE  Passive
  <1> DEFINE waits == [job[f] EXCEPT !.pc = "await"]
             rechecks == [job[f] EXCEPT !.pc = "recheck"]
  <1>1. waits.pc = "await" /\ rechecks.pc = "recheck"
    BY JobOf DEF Job
  <1>2. SetJob(f, waits) \/ SetJob(f, rechecks)
    OBVIOUS
  <1> HIDE DEF waits, rechecks
  <1> QED
    BY <1>1, <1>2, FuturePassive

LEMMA OutcomeTicket ==
  ASSUME SchedInv, NEW f \in Fibers, orphan' = orphan,
         NEW out, SetJob(f, [job[f] EXCEPT !.pc = "settle", !.out = out])
  PROVE  TicketStep
  <1> DEFINE row == [job[f] EXCEPT !.pc = "settle", !.out = out]
  <1>1. row.pc = "settle" /\ SetJob(f, row)
    BY JobOf DEF Job
  <1> HIDE DEF row
  <1> QED
    BY <1>1, TicketSet

LEMMA JobAwaitPassive ==
  ASSUME SchedInv, NEW f \in Fibers, JobAwait(f)
  PROVE  Passive
  <1>1. conv' = conv /\ turn' = turn /\ orphan' = orphan
    BY DEF JobAwait, storeVars
  <1>2. \E out : SetJob(f, [job[f] EXCEPT !.pc = "settle", !.out = out])
    BY DEF JobAwait
  <1> QED
    BY <1>1, <1>2, OutcomeTicket, ConvSame DEF Passive

LEMMA JobSettlePassive ==
  ASSUME SchedInv, NEW f \in Fibers,
         JobSettle(f) \/ JobCommit(f) \/ JobRecheck(f) \/ JobRecommit(f)
  PROVE  Passive
  <1> DEFINE k == job[f].k
             pinned == [job[f] EXCEPT !.pc = "commit", !.psv = step[k[1]].version,
                                      !.pav = attempt[k].version, !.out = VerdictOf(f)]
             repinned == [job[f] EXCEPT !.pc = "recommit", !.psv = step[k[1]].version,
                                        !.pav = attempt[k].version]
  <1>1. conv' = conv /\ turn' = turn
    BY DEF JobSettle, JobCommit, JobRecheck, JobRecommit, Commit, SettleAttempt, storeVars
  <1>2. CASE \E b : Finish(f, b)
    BY <1>1, <1>2, FuturePassive
  <1>3. CASE SetJob(f, pinned) /\ orphan' = orphan
    <2>1. pinned.pc = "commit"
      BY JobOf DEF Job
    <2> HIDE DEF pinned
    <2> QED
      BY <1>1, <1>3, <2>1, FuturePassive
  <1>4. CASE SetJob(f, repinned) /\ orphan' = orphan
    <2>1. repinned.pc = "recommit"
      BY JobOf DEF Job
    <2> HIDE DEF repinned
    <2> QED
      BY <1>1, <1>4, <2>1, FuturePassive
  <1>5. CASE SetJob(f, [job[f] EXCEPT !.pc = "recheck"]) /\ orphan' = orphan
    BY <1>1, <1>5, AwaitSet
  <1>6. CASE JobSettle(f)
    BY <1>2, <1>3, <1>6 DEF JobSettle
  <1>7. CASE JobCommit(f)
    BY <1>2, <1>5, <1>7 DEF JobCommit, Commit
  <1>8. CASE JobRecheck(f)
    BY <1>2, <1>4, <1>8 DEF JobRecheck
  <1>9. CASE JobRecommit(f)
    BY <1>2, <1>9 DEF JobRecommit, Commit
  <1> QED
    BY <1>6, <1>7, <1>8, <1>9

\* An operation that is only observed, or whose admission was refused.
LEMMA ClaimRefused ==
  ASSUME SchedInv, NEW f \in Fibers, UNCHANGED <<storeVars, turn>>,
         \/ \E b : Finish(f, b)
         \/ SetJob(f, [job[f] EXCEPT !.pc = "settle", !.out = "error"]) /\ orphan' = orphan
         \/ SetJob(f, [job[f] EXCEPT !.pc = "await"]) /\ orphan' = orphan
  PROVE  Passive
  <1>1. conv' = conv /\ turn' = turn
    BY DEF storeVars
  <1>2. CASE \E b : Finish(f, b)
    BY <1>1, <1>2, FuturePassive
  <1>3. CASE SetJob(f, [job[f] EXCEPT !.pc = "settle", !.out = "error"]) /\ orphan' = orphan
    BY <1>1, <1>3, OutcomeTicket, ConvSame DEF Passive
  <1>4. CASE SetJob(f, [job[f] EXCEPT !.pc = "await"]) /\ orphan' = orphan
    BY <1>1, <1>4, AwaitSet
  <1> QED
    BY <1>2, <1>3, <1>4

\* A refused launch closes its own admission, which no live turn holds.
LEMMA LaunchRefused ==
  ASSUME StoreInv, SchedInv, ConvInv, NEW f \in Fibers, Polled(f), Launching(f),
         FinishTurn(job[f].k, job[f].op, "failed"), turn' = turn,
         \/ LeaveLoop(TRUE)
         \/ SetJob(f, [job[f] EXCEPT !.pc = "settle", !.out = "error"]) /\ orphan' = orphan
  PROVE  Passive
  <1>1. job[f].k \in Slots /\ job[f].op \in Ops /\ <<job[f].k, job[f].op>> \notin turn
    BY TicketTypes DEF ConvInv, Tickets, Ticket, Live
  <1>2. ConvStep
    BY <1>1, FinishTurnStep
  <1>3. TicketStep
    BY TicketLeft, OutcomeTicket
  <1> QED
    BY <1>2, <1>3 DEF Passive

LEMMA TurnStepPassive ==
  ASSUME StoreInv, SchedInv, NEW k \in Slots, TurnStep(k)
  PROVE  Passive
  <1>1. job' = job /\ orphan' = orphan
    BY DEF TurnStep, CleanupConversation, TurnEnds
  <1>2. CASE CleanupConversation(k)
    BY <1>1, <1>2, StopTurnStep, TicketSame DEF CleanupConversation, Passive
  <1>3. ASSUME NEW o \in Ops, TurnEnds(k, o)
        PROVE  Passive
    <2>1. turn' \subseteq turn /\ <<k, o>> \notin turn'
      BY <1>3 DEF TurnEnds
    <2>2. ConvStep
      BY <1>3, <2>1, FinishTurnStep DEF TurnEnds
    <2> QED
      BY <1>1, <2>2, TicketSame DEF Passive
  <1> QED
    BY <1>2, <1>3 DEF TurnStep

LEMMA AbandonPassive ==
  ASSUME StoreInv, SchedInv, ConvInv, NEW a \in orphan, Abandon(a)
  PROVE  Passive
  <1>1. a.k \in Slots /\ a.op \in Ops /\ <<a.k, a.op>> \notin turn
    BY TicketTypes DEF ConvInv, Tickets, Ticket, Live
  <1>2. ConvStep
    BY <1>1, FinishTurnStep DEF Abandon
  <1> QED
    BY <1>2, TicketSame DEF Abandon, Passive

LEMMA CrashPassive ==
  ASSUME CrashAndRestart
  PROVE  Passive
  <1>1. ConvStep
    BY DEF CrashAndRestart, ConvStep, Claimed
  <1>2. TicketStep
    BY DEF CrashAndRestart, TicketStep, IdleJobs, Idle
  <1> QED
    BY <1>1, <1>2 DEF Passive

LEMMA PassiveKeeps ==
  ASSUME StoreInv, SchedInv, ConvInv, RowMoves, Passive
  PROVE  ConvInv'
  BY ConvKept DEF Passive

-----------------------------------------------------------------------------
(* The admission and the launch of a turn.                                 *)

\* An admission finds no turn and no admission of the operation anywhere.
LEMMA ClaimWins ==
  ASSUME StoreInv, SchedInv, ConvInv, NEW f \in Fibers,
         job[f].k \in Slots, job[f].op \in Ops,
         CanClaimTurn(job[f].k, job[f].op, job[f].sv, job[f].av),
         ClaimTurn(job[f].k, job[f].op),
         SetJob(f, [job[f] EXCEPT !.pc = "launch"]), orphan' = orphan, turn' = turn
  PROVE  ConvInv'
  <1> DEFINE k == job[f].k
             o == job[f].op
             row == [job[f] EXCEPT !.pc = "launch"]
  <1>1. /\ k \in Slots /\ o \in Ops /\ attempt' = attempt
        /\ ~Claimed(k, o) /\ conv[k].active = NoOp
        /\ attempt[k].status = "running" /\ attempt[k].link
    BY DEF CanClaimTurn, ClaimTurn, TurnAuthority, InvocationCurrent, Claimed
  <1>2. /\ \A g \in Fibers : g # f => job'[g] = job[g]
        /\ job'[f].pc = "launch" /\ job'[f].k = k /\ job'[f].op = o
    <2>1. row.pc = "launch" /\ row.k = k /\ row.op = o
      BY JobOf DEF Job
    <2>2. \A g \in Fibers : job'[g] = IF g = f THEN row ELSE job[g]
      BY DEF SetJob, SchedInv, LoopInv
    <2> HIDE DEF row
    <2> QED
      BY <2>1, <2>2
  <1> HIDE DEF k, o, row
  <1>3. /\ \A j \in Slots : j # k => conv'[j] = conv[j]
        /\ conv'[k].receipt[o] = "accepted"
        /\ \A p \in Ops : p # o => conv'[k].receipt[p] = conv[k].receipt[p]
    <2>1. conv' = [conv EXCEPT ![k].active = o, ![k].receipt[o] = "accepted"]
      BY DEF ClaimTurn, k, o
    <2> QED
      BY <1>1, <2>1, ConvOf DEF ConversationRow
  <1>4. \A j \in Slots, p \in Ops : Claimed(j, p) => conv'[j].receipt[p] # "none"
    BY <1>1, <1>3 DEF Claimed
  <1>5. \A p \in Ops : ~Live(k, p)
    BY <1>1, OpsFacts DEF ConvInv, LiveIsActive, NoOp, Ops
  <1>6. FreshConversation'
    BY <1>1, <1>3 DEF ConvInv, FreshConversation, Claimed
  <1>7. LiveIsActive'
    BY <1>1, <1>3, <1>4, <1>5 DEF ConvInv, LiveIsActive, Live, Claimed
  <1>8. OneLive'
    BY DEF ConvInv, OneLive, Live
  <1>9. \A j : Ticket(j) /\ j.k \in Slots /\ j.op \in Ops =>
          /\ conv'[j.k].receipt[j.op] # "none" /\ <<j.k, j.op>> \notin turn'
          /\ ~(j.k = k /\ j.op = o)
    BY <1>1, <1>4 DEF Ticket, Live
  <1>10. \A g \in Fibers : g # f /\ job'[g].pc = "launch" =>
           /\ Launching(g) /\ job'[g] = job[g] /\ Ticket(job[g])
           /\ job[g].k \in Slots /\ job[g].op \in Ops
    BY <1>2, TicketTypes DEF Launching, ConvInv, Tickets
  <1>11. \A a \in orphan' : a \in orphan /\ Ticket(a) /\ a.k \in Slots /\ a.op \in Ops
    BY TicketTypes DEF ConvInv, Tickets
  <1>12. Tickets'
    <2>1. \A g \in Fibers : job'[g].pc = "launch" =>
            conv'[job'[g].k].receipt[job'[g].op] # "none" /\ <<job'[g].k, job'[g].op>> \notin turn'
      <3>1. <<k, o>> \notin turn'
        BY <1>1, <1>5 DEF Live
      <3> QED
        BY <1>2, <1>3, <1>9, <1>10, <3>1
    <2>2. \A a \in orphan' : conv'[a.k].receipt[a.op] # "none" /\ <<a.k, a.op>> \notin turn'
      BY <1>9, <1>11
    <2>3. \A g, h \in Fibers :
            job'[g].pc = "launch" /\ job'[h].pc = "launch"
            /\ job'[g].k = job'[h].k /\ job'[g].op = job'[h].op => g = h
      <3>1. \A g, h \in Fibers :
              g # f /\ h # f /\ job'[g].pc = "launch" /\ job'[h].pc = "launch"
              /\ job'[g].k = job'[h].k /\ job'[g].op = job'[h].op => g = h
        <4> TAKE g \in Fibers, h \in Fibers
        <4> HAVE /\ g # f /\ h # f /\ job'[g].pc = "launch" /\ job'[h].pc = "launch"
                 /\ job'[g].k = job'[h].k /\ job'[g].op = job'[h].op
        <4>1. Launching(g) /\ Launching(h) /\ job'[g] = job[g] /\ job'[h] = job[h]
          BY <1>10
        <4>2. SameTicket(job[g], job[h])
          BY <4>1 DEF SameTicket
        <4> QED
          BY <4>1, <4>2 DEF ConvInv, Tickets
      <3>2. \A g \in Fibers :
              g # f /\ job'[g].pc = "launch" => ~(job'[g].k = job'[f].k /\ job'[g].op = job'[f].op)
        <4> TAKE g \in Fibers
        <4> HAVE g # f /\ job'[g].pc = "launch"
        <4>1. Ticket(job[g]) /\ job[g].k \in Slots /\ job[g].op \in Ops /\ job'[g] = job[g]
          BY <1>10
        <4>2. ~(job[g].k = k /\ job[g].op = o)
          BY <4>1, <1>9
        <4> QED
          BY <4>1, <4>2, <1>2
      <3> QED
        BY <3>1, <3>2
    <2>4. \A g \in Fibers : \A a \in orphan' :
            job'[g].pc = "launch" => ~(job'[g].k = a.k /\ job'[g].op = a.op)
      <3>1. \A a \in orphan' : ~(job'[f].k = a.k /\ job'[f].op = a.op)
        <4> TAKE a \in orphan'
        <4>1. Ticket(a) /\ a.k \in Slots /\ a.op \in Ops
          BY <1>11
        <4>2. ~(a.k = k /\ a.op = o)
          BY <4>1, <1>9
        <4> QED
          BY <4>2, <1>2
      <3>2. \A g \in Fibers : \A a \in orphan' :
              g # f /\ job'[g].pc = "launch" => ~(job'[g].k = a.k /\ job'[g].op = a.op)
        BY <1>10, <1>11 DEF ConvInv, Tickets, SameTicket
      <3> QED
        BY <3>1, <3>2
    <2> QED
      BY <2>1, <2>2, <2>3, <2>4 DEF Tickets, Launching, Ticket, Claimed, Live, SameTicket
  <1> QED
    BY <1>6, <1>7, <1>8, <1>12 DEF ConvInv

\* A launch finds its own operation active, so no other turn is live.
LEMMA LaunchRuns ==
  ASSUME StoreInv, SchedInv, ConvInv, NEW f \in Fibers, Launching(f),
         ValidTurnEffect(job[f].k, job[f].op, job[f].sv, job[f].av),
         turn' = turn \cup {<<job[f].k, job[f].op>>},
         SetJob(f, [job[f] EXCEPT !.pc = "await"]), UNCHANGED storeVars, orphan' = orphan
  PROVE  ConvInv'
  <1> DEFINE k == job[f].k
             o == job[f].op
             row == [job[f] EXCEPT !.pc = "await"]
  <1>1. /\ k \in Slots /\ o \in Ops /\ conv' = conv /\ attempt' = attempt
        /\ conv[k].active = o /\ attempt[k].link /\ Claimed(k, o)
    BY TicketTypes DEF ValidTurnEffect, TurnAuthority, InvocationCurrent, Claimed, storeVars
  <1>2. \A g \in Fibers : job'[g].pc = "launch" => g # f /\ Launching(g) /\ job'[g] = job[g]
    <2>1. row.pc = "await"
      BY JobOf DEF Job
    <2>2. \A g \in Fibers : job'[g] = IF g = f THEN row ELSE job[g]
      BY DEF SetJob, SchedInv, LoopInv
    <2> HIDE DEF row
    <2> QED
      BY <2>1, <2>2 DEF Launching
  <1>3. \A j, p : <<j, p>> \in turn' <=> Live(j, p) \/ (j = k /\ p = o)
    BY DEF Live
  <1> HIDE DEF k, o, row
  <1>4. FreshConversation'
    BY <1>1 DEF ConvInv, FreshConversation, Claimed
  <1>5. LiveIsActive'
    <2>1. \A j \in Slots, p \in Ops : <<j, p>> \in turn' =>
            Claimed(j, p) /\ (attempt[j].link => conv[j].active = p)
      BY <1>1, <1>3 DEF ConvInv, LiveIsActive
    <2> QED
      BY <1>1, <2>1 DEF LiveIsActive, Live, Claimed
  <1>6. \A p \in Ops : Live(k, p) => p = o
    BY <1>1 DEF ConvInv, LiveIsActive
  <1>7. OneLive'
    <2>1. \A j \in Slots, p, q \in Ops : <<j, p>> \in turn' /\ <<j, q>> \in turn' => p = q
      BY <1>1, <1>3, <1>6 DEF ConvInv, OneLive
    <2> QED
      BY <2>1 DEF OneLive, Live
  <1>8. \A j : Ticket(j) /\ ~(j.k = k /\ j.op = o) =>
          conv'[j.k].receipt[j.op] # "none" /\ <<j.k, j.op>> \notin turn'
    BY <1>1, <1>3 DEF Ticket, Claimed
  <1>9. Tickets'
    <2>1. \A g \in Fibers : job'[g].pc = "launch" =>
            conv'[job'[g].k].receipt[job'[g].op] # "none" /\ <<job'[g].k, job'[g].op>> \notin turn'
      BY <1>2, <1>8 DEF ConvInv, Tickets, SameTicket, k, o
    <2>2. \A a \in orphan' : conv'[a.k].receipt[a.op] # "none" /\ <<a.k, a.op>> \notin turn'
      BY <1>8 DEF ConvInv, Tickets, SameTicket, k, o
    <2>3. \A g, h \in Fibers :
            job'[g].pc = "launch" /\ job'[h].pc = "launch" /\ SameTicket(job'[g], job'[h]) => g = h
      BY <1>2 DEF ConvInv, Tickets
    <2>4. \A g \in Fibers : \A a \in orphan' : job'[g].pc = "launch" => ~SameTicket(job'[g], a)
      BY <1>2 DEF ConvInv, Tickets
    <2> QED
      BY <2>1, <2>2, <2>3, <2>4 DEF Tickets, Launching, Ticket, Claimed, Live, SameTicket
  <1> QED
    BY <1>4, <1>5, <1>7, <1>9 DEF ConvInv

LEMMA JobClaimConv ==
  ASSUME StoreInv, SchedInv, ConvInv, RowMoves, NEW f \in Fibers, JobClaim(f)
  PROVE  ConvInv'
  <1>1. job[f].k \in Slots /\ job[f].op \in Ops /\ turn' = turn
    BY JobOf DEF JobClaim, WellFormedJob
  <1>2. CASE /\ CanClaimTurn(job[f].k, job[f].op, job[f].sv, job[f].av)
             /\ ClaimTurn(job[f].k, job[f].op)
             /\ SetJob(f, [job[f] EXCEPT !.pc = "launch"]) /\ orphan' = orphan
    BY <1>1, <1>2, ClaimWins
  <1>3. CASE /\ UNCHANGED storeVars
             /\ \/ \E b : Finish(f, b)
                \/ SetJob(f, [job[f] EXCEPT !.pc = "settle", !.out = "error"]) /\ orphan' = orphan
                \/ SetJob(f, [job[f] EXCEPT !.pc = "await"]) /\ orphan' = orphan
    BY <1>1, <1>3, ClaimRefused, PassiveKeeps
  <1> QED
    BY <1>2, <1>3 DEF JobClaim

LEMMA JobLaunchConv ==
  ASSUME StoreInv, SchedInv, ConvInv, RowMoves, NEW f \in Fibers, JobLaunch(f)
  PROVE  ConvInv'
  <1>1. Polled(f) /\ Launching(f)
    BY DEF JobLaunch, Launching
  <1>2. CASE /\ ValidTurnEffect(job[f].k, job[f].op, job[f].sv, job[f].av)
             /\ turn' = turn \cup {<<job[f].k, job[f].op>>}
             /\ SetJob(f, [job[f] EXCEPT !.pc = "await"])
             /\ UNCHANGED storeVars /\ orphan' = orphan
    BY <1>1, <1>2, LaunchRuns
  <1>3. CASE /\ FinishTurn(job[f].k, job[f].op, "failed") /\ turn' = turn
             /\ \/ LeaveLoop(TRUE)
                \/ /\ SetJob(f, [job[f] EXCEPT !.pc = "settle", !.out = "error"])
                   /\ orphan' = orphan
    BY <1>1, <1>3, LaunchRefused, PassiveKeeps
  <1> QED
    BY <1>2, <1>3 DEF JobLaunch

-----------------------------------------------------------------------------
(* The commands.                                                           *)

LEMMA PausePassive ==
  ASSUME StoreInv, SchedInv, PauseExecution, UNCHANGED <<job, turn, orphan>>
  PROVE  Passive
  <1> DEFINE lost == {k \in Slots : /\ attempt[k].status = "running"
                                    /\ step[k[1]].current /\ step[k[1]].status = "running"}
  <1>1. /\ \A k \in Slots : conv'[k] = IF k \in lost THEN ReconciledConversation(k) ELSE conv[k]
        /\ \A k \in Slots : k \in lost => attempt'[k] = ReconciledAttempt(k)
    BY DEF PauseExecution
  <1> HIDE DEF lost
  <1>2. \A k \in Slots, o \in Ops : conv'[k].receipt[o] # "none" <=> Claimed(k, o)
    BY <1>1, ReconciledTurn DEF Claimed
  <1>3. \A k \in Slots : attempt'[k].link => conv'[k] = conv[k]
    BY <1>1, ReconciledTurn
  <1>4. ConvStep
    BY <1>2, <1>3 DEF ConvStep, Claimed
  <1> QED
    BY <1>4, TicketSame DEF Passive

LEMMA CommandPassive ==
  ASSUME StoreInv, SchedInv, Planning \/ Command
  PROVE  Passive
  <1>1. UNCHANGED <<job, turn, orphan>>
    BY DEF Planning, PlanInitial, PlanFails, Command, Approve, Pause, Resume, Cancel, Delete,
           Replan, Adjust, Retry, Adopt, Steer, Answer, RequestUserDecision, Issue, Committed
  <1>2. CASE conv' = conv
    BY <1>1, <1>2, InlineFiber, FuturePassive
  <1>3. CASE Pause
    BY <1>1, <1>3, PausePassive DEF Pause
  <1>4. ASSUME NEW k \in Slots, Steer(k)
        PROVE  Passive
    BY <1>1, <1>4, SteerStep, TicketSame DEF Steer, EnqueueSteer, Passive
  <1>5. CASE Planning
    BY <1>2, <1>5 DEF Planning, PlanInitial, PlanFails, ReconcilePlan, UpdateStatus
  <1>6. CASE Approve \/ Resume \/ Cancel \/ Delete \/ Replan \/ Adjust
    BY <1>2, <1>6
    DEF Approve, Resume, Cancel, Delete, Replan, Adjust, UpdateStatus, ResumeExecution,
        CancelExecution, DeleteExecution, TerminateChildren, ReconcilePlan
  <1>7. CASE \/ \E s \in Steps : Retry(s)
             \/ \E k \in Slots : Adopt(k) \/ Answer(k) \/ RequestUserDecision(k)
    BY <1>2, <1>7
    DEF Retry, ResetForRetry, Adopt, AdoptOutput, Answer, ResumeWaitingAttempt,
        RequestUserDecision, AskDecision
  <1> QED
    BY <1>3, <1>4, <1>5, <1>6, <1>7 DEF Command

LEMMA ContinuePassive ==
  ASSUME TypeInv, NEW p \in post, Continue(p)
  PROVE  Passive
  <1>1. StoreInv /\ SchedInv /\ (p.do \in {"steer", "stop_turn", "ack"} => p.k \in Slots)
    BY DEF TypeInv, PostInv
  <1>2. job' = job /\ orphan' = orphan
    BY DEF Continue, PostStart, PostStop, PostSteer, PostStopTurn, PostAck, schedVars
  <1>3. CASE conv' = conv /\ turn' = turn
    BY <1>1, <1>2, <1>3, InlineFiber, FuturePassive
  <1>4. CASE PostStart(p) \/ PostStop(p) \/ PostAck(p)
    BY <1>3, <1>4 DEF PostStart, PostStop, PostAck, AcknowledgeEffect, storeVars
  <1>5. CASE PostSteer(p)
    <2>1. CASE SteerTurn(p.k) /\ turn' = turn
      BY <1>1, <1>2, <1>5, <2>1, SteerStep, TicketSame DEF PostSteer, SteerTurn, Passive
    <2> QED
      BY <1>3, <1>5, <2>1 DEF PostSteer, storeVars, schedVars
  <1>6. CASE PostStopTurn(p)
    <2>1. CASE StopTurn(p.k)
      BY <1>1, <1>2, <1>6, <2>1, StopTurnStep, TicketSame DEF PostStopTurn, Passive
    <2> QED
      BY <1>3, <1>6, <2>1 DEF PostStopTurn, storeVars
  <1> QED
    BY <1>4, <1>5, <1>6 DEF Continue

-----------------------------------------------------------------------------
(* The theorem.                                                            *)

LEMMA InitConv == Init => ConvInv
  <1> SUFFICES ASSUME Init PROVE ConvInv
    OBVIOUS
  <1>1. \A k \in Slots, o \in Ops : ~Claimed(k, o)
    BY DEF Init, StoreInit, NewConversation, Claimed
  <1>2. turn = {} /\ orphan = {} /\ \A f \in Fibers : job[f].pc = "idle"
    BY DEF Init, SchedulerInit, IdleJobs, Idle
  <1> QED
    BY <1>1, <1>2
    DEF ConvInv, FreshConversation, LiveIsActive, OneLive, Tickets, Live, Launching

LEMMA FiberConv ==
  ASSUME StoreInv, SchedInv, ConvInv, RowMoves, NEW f \in Fibers, FiberStep(f)
  PROVE  ConvInv'
  <1>1. CASE JobClaim(f)
    BY <1>1, JobClaimConv
  <1>2. CASE JobLaunch(f)
    BY <1>2, JobLaunchConv
  <1>3. CASE JobAwait(f)
    BY <1>3, JobAwaitPassive, PassiveKeeps
  <1>4. CASE JobSettle(f) \/ JobCommit(f) \/ JobRecheck(f) \/ JobRecommit(f)
    BY <1>4, JobSettlePassive, PassiveKeeps
  <1> QED
    BY <1>1, <1>2, <1>3, <1>4 DEF FiberStep

LEMMA NextConv ==
  ASSUME FullInv, ConvInv, [Next]_allVars
  PROVE  ConvInv'
  <1>1. TypeInv /\ StoreInv /\ SchedInv /\ RowMoves
    BY NextMoves DEF FullInv, SafeInv, TypeInv, StoreMoves
  <1>2. CASE SchedulerNext
    <2>1. CASE LoopStep
      BY <1>1, <2>1, LoopStepPassive, PassiveKeeps
    <2>2. CASE \E s \in Steps : DispatchStep(s)
      BY <1>1, <2>2, DispatchStepPassive, PassiveKeeps
    <2>3. CASE \E f \in Fibers : FiberStep(f)
      BY <1>1, <2>3, FiberConv
    <2>4. CASE ClockStep
      BY <1>1, <2>4, ClockPassive, PassiveKeeps
    <2>5. CASE \E k \in Slots : TurnStep(k)
      BY <1>1, <2>5, TurnStepPassive, PassiveKeeps
    <2>6. CASE \E a \in orphan : Abandon(a)
      BY <1>1, <2>6, AbandonPassive, PassiveKeeps
    <2> QED
      BY <1>2, <2>1, <2>2, <2>3, <2>4, <2>5, <2>6 DEF SchedulerNext
  <1>3. CASE Planning \/ Command
    BY <1>1, <1>3, CommandPassive, PassiveKeeps
  <1>4. CASE \E p \in post : Continue(p)
    BY <1>1, <1>4, ContinuePassive, PassiveKeeps
  <1>5. CASE CrashAndRestart
    BY <1>1, <1>5, CrashPassive, PassiveKeeps
  <1>6. CASE UNCHANGED allVars
    <2>1. conv' = conv /\ turn' = turn /\ job' = job /\ orphan' = orphan
      BY <1>6 DEF allVars, vars, schedVars, storeVars
    <2> QED
      BY <1>1, <2>1, InlineFiber, FuturePassive, PassiveKeeps
  <1> QED
    BY <1>2, <1>3, <1>4, <1>5, <1>6 DEF Next

\* A Conversation never runs two model turns at once, although a turn
\* outlives the job that launched it: timeouts, retries, recovery after a
\* crash and answered questions all have to be admitted by
\* claim_attempt_turn_delivery_receipt, which the turn still running refuses.
THEOREM OneTurnAtATime == Spec => []SerialConversation
  <1>1. ConvInv => SerialConversation
    <2> SUFFICES ASSUME ConvInv, NEW k \in Slots
                 PROVE  Cardinality(LiveTurns(k)) <= 1
      BY DEF SerialConversation
    <2>1. CASE LiveTurns(k) = {}
      BY <2>1, FS_EmptySet
    <2>2. CASE LiveTurns(k) # {}
      <3>1. PICK o \in Ops : <<k, o>> \in turn
        BY <2>2 DEF LiveTurns
      <3>2. LiveTurns(k) = {o}
        BY <3>1 DEF LiveTurns, ConvInv, OneLive, Live
      <3>3. Cardinality({o}) = 1
        BY FS_Singleton
      <3> QED
        BY <3>2, <3>3
    <2> QED
      BY <2>1, <2>2
  <1>2. FullInv /\ ConvInv /\ [Next]_allVars => ConvInv'
    BY NextConv
  <1> QED
    BY <1>1, <1>2, InitFull, NextFull, InitConv, PTL DEF Spec

=============================================================================
