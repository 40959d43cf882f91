------------------------------ MODULE AutoWork ------------------------------
(***************************************************************************)
(* AutoWork (nomifun-requirement, auto_work_runner.rs, service.rs and      *)
(* routes.rs): one loop per bound target claims requirements of its tag,   *)
(* hands them to the target and settles them from durable evidence, while  *)
(* users edit the board, toggle AutoWork, stop turns and restart           *)
(* terminals, loops die and the process crashes.                           *)
(*                                                                         *)
(* A step of a loop or of a request is what happens between two awaits     *)
(* that another actor can observe.  Database errors, the lost reply of an  *)
(* admission, deleted Conversations and quarantined PTYs are left out.     *)
(***************************************************************************)
EXTENDS TurnReceivers

CONSTANTS
    Handlers,      \* concurrent set_autowork requests
    Boot,          \* the task that resumes the bindings after a boot
    Commands,      \* the commands this instance issues
    MaxCommands,   \* bound: commands of users
    MaxFaults      \* bound: failures of loops, sends, writes and processes

ASSUME AutoWorkAssumption ==
    /\ Boot \notin Handlers
    /\ MaxCommands \in Nat /\ MaxFaults \in Nat

Threads == Handlers \cup {Boot}

VARIABLES
    config,      \* config[t]: the tag persisted as enabled for t, or None
    loop,        \* loop[t]: the loop of t and the claim it works on
    handler,     \* handler[h]: a request, or Boot, on its way through start or stop
    boot,        \* boot[t]: the binding Boot read and has not come to
    requeuedAt,  \* requeuedAt[r]: generation of the last explicit requeue (history)
    stopped,     \* requirements whose turn a user stopped (history)
    left         \* what is left of the bounds

loopVars == <<loop, handler, boot, config>>
historyVars == <<requeuedAt, stopped>>
vars == <<storeVars, receiverVars, loopVars, historyVars, left>>

LoopSteps ==
    {"off", "idle", "preparing", "committed", "claimed", "scoped", "admitted",
     "typed", "waiting", "parking", "settling", "pausing", "releasing",
     "settled", "custody", "closing"}

Outcomes == Verdicts \cup {"conflict", "errored", "interrupted"}

Loops ==
    [pc : LoopSteps, tag : Tags \cup {None}, claim : Claims \cup {None},
     recovered : BOOLEAN, cancelled : BOOLEAN, epoch : 0..MaxEpochs,
     outcome : Outcomes \cup {None}]

Requests ==
    [step : {"none", "resume", "stop", "park", "resolve", "start"},
     target : Targets \cup {None}, tag : Tags \cup {None}, claim : Claims \cup {None}]

LoopAt(pc, tag) ==
    [pc |-> pc, tag |-> tag, claim |-> None, recovered |-> FALSE,
     cancelled |-> FALSE, epoch |-> 0, outcome |-> None]

NoRequest == [step |-> "none", target |-> None, tag |-> None, claim |-> None]

LoopsTypeOK ==
    /\ config \in [Targets -> Tags \cup {None}]
    /\ loop \in [Targets -> Loops]
    /\ handler \in [Threads -> Requests]
    /\ boot \in [Targets -> Tags \cup {None}]
    /\ requeuedAt \in [Requirements -> 0..MaxClaims]
    /\ stopped \subseteq Requirements
    /\ left \in [commands : 0..MaxCommands, faults : 0..MaxFaults]

AutoWorkTypeOK == StoreTypeOK /\ ReceiversTypeOK /\ LoopsTypeOK

AutoWorkInit ==
    /\ StoreInit /\ ReceiversInit
    /\ config \in [Targets -> Tags \cup {None}]
    /\ boot = config
    /\ loop = [t \in Targets |-> LoopAt("off", None)]
    /\ handler = [h \in Threads |-> NoRequest]
    /\ requeuedAt = [r \in Requirements |-> 0]
    /\ stopped = {}
    /\ left = [commands |-> MaxCommands, faults |-> MaxFaults]

Command(name) ==
    /\ name \in Commands /\ left.commands > 0
    /\ left' = [left EXCEPT !.commands = @ - 1]

Fault ==
    /\ left.faults > 0
    /\ left' = [left EXCEPT !.faults = @ - 1]

Goto(t, pc) == loop' = [loop EXCEPT ![t].pc = pc]

\* The result of inject_and_wait is classified.
Ends(t, outcome) == loop' = [loop EXCEPT ![t].pc = "settling", ![t].outcome = outcome]

-----------------------------------------------------------------------------
(* run_loop: claiming. *)

LoopPrepares(t) ==
    /\ loop[t].pc = "idle"
    /\ loop' = [loop EXCEPT ![t] = LoopAt("preparing", @.tag)]
    /\ UNCHANGED <<storeVars, receiverVars, handler, boot, config, historyVars, left>>

\* recover_active_claim: a claim this target already holds comes first.
LoopRecovers(t) ==
    /\ loop[t].pc = "preparing"
    /\ \E r \in Active(loop[t].tag, t) :
         loop' = [loop EXCEPT ![t].pc = "committed", ![t].recovered = TRUE,
                              ![t].claim = [req |-> r, gen |-> requirement[r].gen]]
    /\ UNCHANGED <<storeVars, receiverVars, handler, boot, config, historyVars, left>>

\* A new claim on a terminal needs a live PTY.
Usable(t) == t \in Terminals => term[t].pty # 0

LoopClaims(t) ==
    /\ loop[t].pc = "preparing"
    /\ Active(loop[t].tag, t) = {} /\ Usable(t)
    /\ \E r \in Claimable(loop[t].tag, t) :
         /\ requirement' = [requirement EXCEPT ![r] = Claimed(@, t)]
         /\ loop' = [loop EXCEPT ![t].pc = "committed",
                                 ![t].claim = [req |-> r, gen |-> requirement[r].gen + 1]]
    /\ UNCHANGED <<paused, receiverVars, handler, boot, config, historyVars, left>>

LoopFindsNothing(t) ==
    /\ loop[t].pc = "preparing"
    /\ Active(loop[t].tag, t) = {}
    /\ Usable(t) => Claimable(loop[t].tag, t) = {}
    /\ loop' = [loop EXCEPT ![t] =
                  LoopAt(IF t \in Terminals /\ term[t].status = "gone"
                         THEN "custody" ELSE "idle", @.tag)]
    /\ UNCHANGED <<storeVars, receiverVars, handler, boot, config, historyVars, left>>

\* The preparation lease was cancelled before the claim.
LoopExits(t) ==
    /\ loop[t].pc = "preparing" /\ loop[t].cancelled
    /\ Goto(t, "custody")
    /\ UNCHANGED <<storeVars, receiverVars, handler, boot, config, historyVars, left>>

\* progress.set_current.
LoopPublishes(t) ==
    /\ loop[t].pc = "committed"
    /\ Goto(t, "claimed")
    /\ UNCHANGED <<storeVars, receiverVars, handler, boot, config, historyVars, left>>

-----------------------------------------------------------------------------
(* inject_and_wait: a Conversation. *)

SendAdmits(v) ==
    /\ loop[v].pc = "claimed" /\ ~loop[v].cancelled
    /\ CanAdmitTurn(loop[v].claim, v)
    /\ AdmitTurn(loop[v].claim, v)
    /\ Goto(v, "waiting")
    /\ UNCHANGED <<storeVars, terminalVars, runs, handler, boot, config, historyVars, left>>

\* Mutant of DeliveryOutcome: a completed receipt is a success.
DeliveryOutcomeCompleted(v, result) ==
    CASE loop[v].cancelled  -> "interrupted"
      [] v \notin Declaring -> "done"
      [] OTHER              -> "needs_review"

\* autowork_replayed_delivery_outcome and the user_cancelled_since check.
DeliveryOutcome(v, result) ==
    CASE loop[v].cancelled                      -> "interrupted"
      [] result = "ok" /\ v \notin Declaring    -> "done"
      [] OTHER                                  -> "needs_review"

\* A receipt of this claim exists: a completed one decides, an accepted one is
\* waited for only if its exact turn is alive here.
SendReplays(v) ==
    /\ loop[v].pc = "claimed" /\ ~loop[v].cancelled
    /\ receipt[loop[v].claim] # "none"
    /\ IF receipt[loop[v].claim] = "accepted" /\ conv[v] = loop[v].claim /\ turn[v] # "none"
       THEN Goto(v, "waiting")
       ELSE Ends(v, DeliveryOutcome(v, receipt[loop[v].claim]))
    /\ \/ UNCHANGED <<receipt, conv>>
       \* reconcile_quiescent_running_turn_for_background proves the orphan.
       \/ /\ receipt[loop[v].claim] = "accepted" /\ conv[v] = loop[v].claim /\ turn[v] = "none"
          /\ receipt' = Completed({v}, "error")
          /\ conv' = [conv EXCEPT ![v] = None]
    /\ UNCHANGED <<storeVars, turn, terminalVars, runs, handler, boot, config, historyVars, left>>

\* Conflict before admission: cancelled, the claim lost, or the target busy.
SendRefused(v) ==
    /\ loop[v].pc = "claimed"
    /\ \/ loop[v].cancelled
       \/ receipt[loop[v].claim] = "none" /\ ~CanAdmitTurn(loop[v].claim, v)
    /\ Ends(v, IF loop[v].cancelled THEN "interrupted" ELSE "conflict")
    /\ UNCHANGED <<storeVars, receiverVars, handler, boot, config, historyVars, left>>

\* Any other error before admission.
SendFails(v) ==
    /\ loop[v].pc = "claimed" /\ receipt[loop[v].claim] = "none"
    /\ Fault
    /\ Ends(v, "errored")
    /\ UNCHANGED <<storeVars, receiverVars, handler, boot, config, historyVars>>

\* wait_for_conversation_receipt_with_renewal.
WaitObserves(v) ==
    /\ loop[v].pc = "waiting"
    /\ receipt[loop[v].claim] \in {"ok", "error"}
    /\ Ends(v, DeliveryOutcome(v, receipt[loop[v].claim]))
    /\ UNCHANGED <<storeVars, receiverVars, handler, boot, config, historyVars, left>>

\* The lease is lost or the hard timeout passes.
WaitGivesUp(v) ==
    /\ loop[v].pc = "waiting"
    /\ Ends(v, DeliveryOutcome(v, "error"))
    /\ UNCHANGED <<storeVars, receiverVars, handler, boot, config, historyVars, left>>

-----------------------------------------------------------------------------
(* inject_and_wait_terminal. *)

TerminalScopes(x) ==
    /\ loop[x].pc = "claimed"
    /\ IF term[x].pty # 0
       THEN loop' = [loop EXCEPT ![x].pc = "scoped", ![x].epoch = term[x].pty]
       ELSE Ends(x, IF loop[x].recovered THEN "needs_review" ELSE "errored")
    /\ UNCHANGED <<storeVars, receiverVars, handler, boot, config, historyVars, left>>

CanAdmitTerminal(c, x) ==
    /\ term[x].pty = loop[x].epoch
    /\ term[x].status = "running"
    /\ Holds(c, x)

\* A fresh admission; a recovered claim is parked without a byte, and so is
\* one whose lifecycle stream is unavailable.
TerminalAdmits(x) ==
    LET c == loop[x].claim IN
    /\ loop[x].pc = "scoped"
    /\ admission[c].phase = "none" /\ CanAdmitTerminal(c, x)
    /\ admission' = [admission EXCEPT ![c] =
                       [phase |-> "admitted", terminal |-> x, epoch |-> loop[x].epoch,
                        outcome |-> None]]
    /\ \E pc \in {"admitted", "parking"} :
         /\ loop[x].recovered => pc = "parking"
         /\ Goto(x, pc)
    /\ UNCHANGED <<storeVars, conversationVars, term, epochs, runs, handler, boot, config,
                   historyVars, left>>

\* The admission is refused, or was made before.
TerminalReplays(x) ==
    LET c == loop[x].claim IN
    /\ loop[x].pc = "scoped"
    /\ \/ /\ term[x].pty # loop[x].epoch \/ (admission[c].phase = "none" /\ ~CanAdmitTerminal(c, x))
          /\ Ends(x, "needs_review")
       \/ /\ term[x].pty = loop[x].epoch /\ admission[c].phase = "settled"
          /\ Ends(x, admission[c].outcome)
       \/ /\ term[x].pty = loop[x].epoch /\ Open(c)
          /\ loop' = [loop EXCEPT ![x].pc = "parking", ![x].epoch = admission[c].epoch]
    /\ UNCHANGED <<storeVars, receiverVars, handler, boot, config, historyVars, left>>

\* write_admitted_body: the phase is durable before the bytes are written.
TerminalTypes(x) ==
    LET c == loop[x].claim IN
    /\ loop[x].pc = "admitted"
    /\ CanAdvance(c, x, "admitted")
    /\ admission' = [admission EXCEPT ![c].phase = "body_written"]
    /\ \/ /\ ~term[x].deaf
          /\ term' = [term EXCEPT ![x].line = @ \cup {c}]
          /\ Goto(x, "typed")
          /\ UNCHANGED left
       \/ /\ term[x].deaf \/ left.faults > 0
          /\ left' = [left EXCEPT !.faults = IF term[x].deaf THEN @ ELSE @ - 1]
          /\ Goto(x, "parking")
          /\ UNCHANGED term
    /\ UNCHANGED <<storeVars, conversationVars, epochs, runs, handler, boot, config, historyVars>>

\* write_admitted_submit: the carriage return hands over the whole input line.
TerminalSubmits(x) ==
    LET c == loop[x].claim IN
    /\ loop[x].pc = "typed"
    /\ CanAdvance(c, x, "body_written")
    /\ admission' = [admission EXCEPT ![c].phase = "effects_started"]
    /\ \/ /\ ~term[x].deaf
          /\ term' = [term EXCEPT ![x].line = {}, ![x].given = @ \cup term[x].line]
          /\ runs' = runs \cup term[x].line
          /\ Goto(x, "waiting")
          /\ UNCHANGED left
       \/ /\ term[x].deaf \/ left.faults > 0
          /\ left' = [left EXCEPT !.faults = IF term[x].deaf THEN @ ELSE @ - 1]
          /\ Goto(x, "parking")
          /\ UNCHANGED <<term, runs>>
    /\ UNCHANGED <<storeVars, conversationVars, epochs, handler, boot, config, historyVars>>

\* Authority was lost before the write: nothing is written, and a receipt that
\* is still at the expected phase of the live generation is absorbed.
TerminalWriteRefused(x) ==
    LET c == loop[x].claim
        from == IF loop[x].pc = "admitted" THEN "admitted" ELSE "body_written" IN
    /\ loop[x].pc \in {"admitted", "typed"}
    /\ ~CanAdvance(c, x, from)
    /\ admission' = IF term[x].pty = admission[c].epoch /\ admission[c].phase = from
                    THEN ParkedAdmissions({c}) ELSE admission
    /\ Goto(x, "parking")
    /\ UNCHANGED <<storeVars, conversationVars, term, epochs, runs, handler, boot, config,
                   historyVars, left>>

\* A TurnEnd of the PTY generation makes the loop read the requirement; only a
\* verdict found there ends the turn.
TerminalTurnEnds(x) ==
    LET c == loop[x].claim
        status == requirement[c.req].status IN
    /\ loop[x].pc = "waiting"
    /\ IF status \in Verdicts
       THEN /\ Park(IF Open(c) /\ requirement[c.req].gen = c.gen /\ requirement[c.req].owner = x
                    THEN {c} ELSE OpenAt(x, {loop[x].epoch}))
            /\ Ends(x, status)
       ELSE Goto(x, "parking") /\ UNCHANGED <<requirement, admission>>
    /\ UNCHANGED <<paused, conversationVars, term, epochs, runs, handler, boot, config,
                   historyVars, left>>

\* Timeout, lost lease, lagged or closed stream, another PTY generation.
TerminalLoses(x) ==
    /\ loop[x].pc = "waiting"
    /\ Goto(x, "parking")
    /\ UNCHANGED <<storeVars, receiverVars, handler, boot, config, historyVars, left>>

\* park_terminal_turn.
TerminalParks(x) ==
    LET c == loop[x].claim IN
    /\ loop[x].pc = "parking"
    /\ Park(OpenAt(x, {loop[x].epoch}))
    /\ Ends(x, IF admission'[c].phase = "settled" THEN admission'[c].outcome ELSE "needs_review")
    /\ UNCHANGED <<paused, conversationVars, term, epochs, runs, handler, boot, config,
                   historyVars, left>>

-----------------------------------------------------------------------------
(* run_loop: settling. *)

\* finalize_claim_if_needed, resolve_claim_verdict_exact and the conflict arm.
SettleRows(t) ==
    LET c == loop[t].claim
        out == loop[t].outcome IN
    CASE out \in Verdicts                                  -> WithVerdict(c, t, out)
      [] out = "errored"
           /\ requirement[c.req].attempts >= MaxAttempts   -> WithVerdict(c, t, "failed")
      [] OTHER                                             -> AbandonedOrQuarantined(c, t)

Exhausted(t) ==
    /\ loop[t].outcome = "errored"
    /\ Holds(loop[t].claim, t)
    /\ requirement[loop[t].claim.req].attempts >= MaxAttempts

Settles(t) ==
    /\ loop[t].pc = "settling" /\ loop[t].outcome # "interrupted"
    /\ requirement' = SettleRows(t)
    /\ Goto(t, IF Exhausted(t) THEN "pausing" ELSE "settled")
    /\ UNCHANGED <<paused, receiverVars, handler, boot, config, historyVars, left>>

\* The tag of a requirement that exhausted its attempts is paused.
Pauses(t) ==
    /\ loop[t].pc = "pausing"
    /\ paused' = [paused EXCEPT ![requirement[loop[t].claim.req].tag] = TRUE]
    /\ Goto(t, "settled")
    /\ UNCHANGED <<requirement, receiverVars, handler, boot, config, historyVars, left>>

\* Mutant of Interrupts: the claim is released without pausing its tag.
InterruptsUnpaused(t) ==
    /\ loop[t].pc = "settling" /\ loop[t].outcome = "interrupted"
    /\ stopped' = stopped \cup {r \in {loop[t].claim.req} : requirement[r].tag = loop[t].tag}
    /\ Goto(t, "releasing")
    /\ UNCHANGED <<storeVars, receiverVars, handler, boot, config, requeuedAt, left>>

\* pause_and_resolve_user_interruption: pause first, release after.
Interrupts(t) ==
    /\ loop[t].pc = "settling" /\ loop[t].outcome = "interrupted"
    /\ paused' = [paused EXCEPT ![loop[t].tag] = TRUE]
    /\ stopped' = stopped \cup {r \in {loop[t].claim.req} : requirement[r].tag = loop[t].tag}
    /\ Goto(t, "releasing")
    /\ UNCHANGED <<requirement, receiverVars, handler, boot, config, requeuedAt, left>>

Releases(t) ==
    /\ loop[t].pc = "releasing"
    /\ requirement' = AbandonedOrQuarantined(loop[t].claim, t)
    /\ Goto(t, "settled")
    /\ UNCHANGED <<paused, receiverVars, handler, boot, config, historyVars, left>>

\* The backoff, if any, and the next round.
LoopReturns(t) ==
    /\ loop[t].pc = "settled"
    /\ loop' = [loop EXCEPT ![t] = LoopAt("idle", @.tag)]
    /\ UNCHANGED <<storeVars, receiverVars, handler, boot, config, historyVars, left>>

\* max_requirements is reached; the count itself is left out.
LoopReachesCap(t) ==
    /\ loop[t].pc = "settled"
    /\ requirement[loop[t].claim.req].status = "done"
    /\ config' = [config EXCEPT ![t] = None]
    /\ loop' = [loop EXCEPT ![t] = LoopAt("custody", @.tag)]
    /\ UNCHANGED <<storeVars, receiverVars, handler, boot, historyVars, left>>

-----------------------------------------------------------------------------
(* Loops that end without a stop: HandleGuard and its custodian. *)

\* stop_locked and cleanup_abandoned_loop_claim: the rows after the claim is closed.
ClosedRows(c, t) ==
    IF t \in Conversations \/ admission[c].phase = "none"
    THEN AbandonedOrQuarantined(c, t)
    ELSE WithVerdict(c, t, IF admission[c].phase = "settled"
                           THEN admission[c].outcome ELSE "needs_review")

LoopDies(t) ==
    /\ loop[t].pc \notin {"off", "custody", "closing"}
    /\ Fault
    /\ loop' = [loop EXCEPT ![t] = LoopAt("custody", @.tag)]
    /\ UNCHANGED <<storeVars, receiverVars, handler, boot, config, historyVars>>

\* The custodian looks for a claim by tag and owner and parks its admission.
CustodyRecovers(t) ==
    /\ loop[t].pc = "custody"
    /\ \/ /\ Active(loop[t].tag, t) = {}
          /\ loop' = [loop EXCEPT ![t] = LoopAt("off", None)]
          /\ UNCHANGED <<requirement, admission>>
       \/ \E r \in Active(loop[t].tag, t) :
            /\ loop' = [loop EXCEPT ![t].pc = "closing",
                                    ![t].claim = [req |-> r, gen |-> requirement[r].gen]]
            /\ IF t \in Terminals THEN Park(OpenAt(t, 0..MaxEpochs))
               ELSE UNCHANGED <<requirement, admission>>
    /\ UNCHANGED <<paused, conversationVars, term, epochs, runs, handler, boot, config,
                   historyVars, left>>

CustodyCloses(t) ==
    /\ loop[t].pc = "closing"
    /\ requirement' = ClosedRows(loop[t].claim, t)
    /\ loop' = [loop EXCEPT ![t] = LoopAt("off", None)]
    /\ UNCHANGED <<paused, receiverVars, handler, boot, config, historyVars, left>>

\* Mutant of Sweep: only the rows of enabled targets are looked at.
SweepEnabled(r) ==
    /\ requirement[r].status = "in_progress"
    /\ loop[requirement[r].owner].pc = "off" /\ config[requirement[r].owner] # None
    /\ requirement' = [requirement EXCEPT ![r] = Resolved(@, "needs_review")]
    /\ UNCHANGED <<paused, receiverVars, loopVars, historyVars, left>>

\* sweep_expired_leases: the owner has no installed loop.
Sweep(r) ==
    /\ requirement[r].status = "in_progress"
    /\ loop[requirement[r].owner].pc = "off"
    /\ requirement' = [requirement EXCEPT ![r] = Resolved(@, "needs_review")]
    /\ UNCHANGED <<paused, receiverVars, loopVars, historyVars, left>>

-----------------------------------------------------------------------------
(* set_autowork, start and stop. *)

Locked(t) == \E h \in Threads : handler[h].target = t /\ handler[h].step \in {"park", "resolve", "start"}

\* set_autowork persists the toggle first.
SetAutowork(h, t, tag) ==
    /\ handler[h] = NoRequest
    /\ t \in Terminals => term[t].status # "gone" /\ (tag # None => term[t].status = "running")
    /\ Command("toggle")
    /\ config' = [config EXCEPT ![t] = tag]
    /\ handler' = [handler EXCEPT ![h] =
                     [step |-> IF tag = None THEN "stop" ELSE "resume", target |-> t,
                      tag |-> tag, claim |-> None]]
    /\ UNCHANGED <<storeVars, receiverVars, loop, boot, historyVars>>

\* The generations an explicit requeue of the requirements rs retires.
RequeuedAt(rs) == [r \in Requirements |-> IF r \in rs THEN requirement[r].gen ELSE requeuedAt[r]]

\* resume_tag_for_enable.
HandlerResumes(h) ==
    LET tag == handler[h].tag
        rows == {r \in Requirements : requirement[r].tag = tag} IN
    /\ handler[h].step = "resume"
    /\ handler' = [handler EXCEPT ![h].step = "stop"]
    /\ IF paused[tag]
       THEN /\ requirement' = [r \in Requirements |->
                                 IF r \in rows THEN ResumedForEnable(requirement[r])
                                 ELSE requirement[r]]
            /\ paused' = [paused EXCEPT ![tag] = FALSE]
            /\ requeuedAt' = RequeuedAt({r \in rows : requirement[r].status = "failed"})
            /\ stopped' = stopped \ rows
       ELSE UNCHANGED <<storeVars, historyVars>>
    /\ UNCHANGED <<receiverVars, loop, boot, config, left>>

\* The claim stop_locked finds: by tag and owner, else the published one.
StoppedClaim(t) ==
    IF Active(loop[t].tag, t) # {}
    THEN LET r == CHOOSE r \in Active(loop[t].tag, t) : TRUE
         IN  [req |-> r, gen |-> requirement[r].gen]
    ELSE IF loop[t].pc \in {"preparing", "committed"} THEN None ELSE loop[t].claim

\* Mutants of HandlerStops: the lifecycle lock of the target is not taken; a
\* loop that died is taken for a stopped one.
HandlerStopsUnlocked(h) ==
    LET t == handler[h].target IN
    /\ handler[h].step = "stop" /\ loop[t].pc # "closing"
    /\ handler' = [handler EXCEPT
                     ![h].step = CASE loop[t].pc = "off" -> "start"
                                   [] t \in Terminals    -> "park"
                                   [] OTHER              -> "resolve",
                     ![h].claim = IF loop[t].pc = "off" THEN None ELSE StoppedClaim(t)]
    /\ loop' = [loop EXCEPT ![t] = LoopAt("off", None)]
    /\ UNCHANGED <<storeVars, receiverVars, boot, config, historyVars, left>>

HandlerStopsLive(h) ==
    LET t == handler[h].target IN
    /\ handler[h].step = "stop" /\ ~Locked(t)
    /\ loop[t].pc # "closing"
    /\ handler' = [handler EXCEPT
                     ![h].step = CASE loop[t].pc \in {"off", "custody"} -> "start"
                                   [] t \in Terminals                  -> "park"
                                   [] OTHER                            -> "resolve",
                     ![h].claim = StoppedClaim(t)]
    /\ loop' = [loop EXCEPT ![t] = LoopAt("off", None)]
    /\ UNCHANGED <<storeVars, receiverVars, boot, config, historyVars, left>>

\* stop_locked takes the handle out and aborts the loop; it waits for a
\* custodian that is already closing the claim.
HandlerStops(h) ==
    LET t == handler[h].target IN
    /\ handler[h].step = "stop" /\ ~Locked(t)
    /\ loop[t].pc # "closing"
    /\ handler' = [handler EXCEPT
                     ![h].step = CASE loop[t].pc = "off" -> "start"
                                   [] t \in Terminals    -> "park"
                                   [] OTHER              -> "resolve",
                     ![h].claim = IF loop[t].pc = "off" THEN None ELSE StoppedClaim(t)]
    /\ loop' = [loop EXCEPT ![t] = LoopAt("off", None)]
    /\ UNCHANGED <<storeVars, receiverVars, boot, config, historyVars, left>>

HandlerParks(h) ==
    /\ handler[h].step = "park"
    /\ Park(OpenAt(handler[h].target, 0..MaxEpochs))
    /\ handler' = [handler EXCEPT ![h].step = "resolve"]
    /\ UNCHANGED <<paused, conversationVars, term, epochs, runs, loop, boot, config,
                   historyVars, left>>

HandlerResolves(h) ==
    /\ handler[h].step = "resolve"
    /\ requirement' = IF handler[h].claim = None THEN requirement
                      ELSE ClosedRows(handler[h].claim, handler[h].target)
    /\ handler' = [handler EXCEPT ![h].step = "start"]
    /\ UNCHANGED <<paused, receiverVars, loop, boot, config, historyVars, left>>

\* start installs the new loop; after a disable there is none.
HandlerStarts(h) ==
    /\ handler[h].step = "start"
    /\ loop' = IF handler[h].tag = None THEN loop
               ELSE [loop EXCEPT ![handler[h].target] = LoopAt("idle", handler[h].tag)]
    /\ handler' = [handler EXCEPT ![h] = NoRequest]
    /\ UNCHANGED <<storeVars, receiverVars, boot, config, historyVars, left>>

\* resume_persisted_bindings comes to t: running targets are skipped.
ResumeBinding(t) ==
    /\ boot[t] # None /\ handler[Boot] = NoRequest
    /\ boot' = [boot EXCEPT ![t] = None]
    /\ handler' = IF loop[t].pc # "off" THEN handler
                  ELSE [handler EXCEPT ![Boot] =
                          [step |-> "stop", target |-> t, tag |-> boot[t], claim |-> None]]
    /\ UNCHANGED <<storeVars, receiverVars, loop, config, historyVars, left>>

-----------------------------------------------------------------------------
(* Users. *)

\* set_status to pending: an explicit requeue.
Requeue(r) ==
    /\ requirement[r].status \in {"failed", "needs_review"}
    /\ Command("requeue")
    /\ requirement' = [requirement EXCEPT ![r] = Requeued(@, FALSE)]
    /\ requeuedAt' = RequeuedAt({r})
    /\ stopped' = stopped \ {r}
    /\ UNCHANGED <<paused, receiverVars, loopVars>>

SetStatus(r, status) ==
    /\ requirement[r].status \in {"pending", "needs_review"} \ {status}
    /\ Command("set_status")
    /\ requirement' = [requirement EXCEPT ![r] = Resolved(@, status)]
    /\ UNCHANGED <<paused, receiverVars, loopVars, historyVars>>

\* An active row is parked and the deletion refused.
Delete(r) ==
    /\ requirement[r].status # "deleted"
    /\ Command("delete")
    /\ requirement' = [requirement EXCEPT ![r] =
                         Resolved(@, IF @.status = "in_progress" THEN "needs_review" ELSE "deleted")]
    /\ UNCHANGED <<paused, receiverVars, loopVars, historyVars>>

\* update: the tag of a row may change in any status.
Retag(r, tag) ==
    /\ requirement[r].tag # tag /\ requirement[r].status # "deleted"
    /\ Command("retag")
    /\ requirement' = [requirement EXCEPT ![r].tag = tag]
    /\ stopped' = stopped \ {r}
    /\ UNCHANGED <<paused, receiverVars, loopVars, requeuedAt>>

ResumeTag(tag, rs) ==
    /\ \A r \in rs : /\ requirement[r].tag = tag
                     /\ requirement[r].status \in {"failed", "needs_review"}
    /\ Command("resume")
    /\ requirement' = [r \in Requirements |->
                         IF r \in rs THEN Requeued(requirement[r], TRUE) ELSE requirement[r]]
    /\ paused' = [paused EXCEPT ![tag] = FALSE]
    /\ requeuedAt' = RequeuedAt(rs)
    /\ stopped' = stopped \ {r \in Requirements : requirement[r].tag = tag}
    /\ UNCHANGED <<receiverVars, loopVars>>

\* cancel: the stop is noted for the loop, and the turn ends later.
UserCancels(v) ==
    /\ turn[v] # "none" \/ loop[v].pc \in {"preparing", "committed", "claimed"}
    /\ Command("cancel")
    /\ loop' = [loop EXCEPT ![v].cancelled = @ \/ loop[v].pc \in
                              {"preparing", "committed", "claimed", "waiting"}]
    /\ UNCHANGED <<storeVars, receiverVars, handler, boot, config, historyVars>>

\* delete of a terminal session: the PTY is killed, receipts are settled and
\* rows detached in one transaction; the persisted toggle goes with the row.
DeleteTerminal(x) ==
    /\ term[x].status # "gone"
    /\ Command("delete_terminal")
    /\ admission' = ParkedAdmissions(OpenAt(x, 0..MaxEpochs))
    /\ requirement' = [r \in Requirements |->
                         IF requirement[r].owner = x THEN Detached(requirement[r])
                         ELSE requirement[r]]
    /\ term' = [term EXCEPT ![x] = Dead(@, "gone")]
    /\ config' = [config EXCEPT ![x] = None]
    /\ UNCHANGED <<paused, conversationVars, epochs, runs, loop, handler, boot, historyVars>>

-----------------------------------------------------------------------------
(* The process. *)

\* A crash and the next boot: mark_all_running_exited, the reconciliation of
\* the Conversations whose orphan is proven, and the bindings to resume.
Crash ==
    LET ghosts == {x \in Terminals : term[x].status = "running"} IN
    /\ Fault
    /\ \E healed \in SUBSET {v \in Conversations : conv[v] # None} :
         /\ receipt' = Completed(healed, "error")
         /\ conv' = [v \in Conversations |-> IF v \in healed THEN None ELSE conv[v]]
    /\ turn' = [v \in Conversations |-> "none"]
    /\ admission' = ParkedAdmissions(UNION {OpenAt(x, 0..MaxEpochs) : x \in ghosts})
    /\ requirement' = [r \in Requirements |->
                         IF requirement[r].status = "in_progress" /\ requirement[r].owner \in ghosts
                         THEN Resolved(requirement[r], "needs_review") ELSE requirement[r]]
    /\ term' = [x \in Terminals |-> IF x \in ghosts THEN Dead(term[x], "exited") ELSE term[x]]
    /\ epochs' = 0
    /\ loop' = [t \in Targets |-> LoopAt("off", None)]
    /\ handler' = [h \in Threads |-> NoRequest]
    /\ boot' = config
    /\ UNCHANGED <<paused, runs, config, historyVars>>

-----------------------------------------------------------------------------

LoopStep(t) ==
    \/ LoopPrepares(t) \/ LoopRecovers(t) \/ LoopClaims(t) \/ LoopFindsNothing(t)
    \/ LoopExits(t) \/ LoopPublishes(t)
    \/ Settles(t) \/ Pauses(t) \/ Interrupts(t) \/ Releases(t)
    \/ LoopReturns(t) \/ LoopReachesCap(t)
    \/ CustodyRecovers(t) \/ CustodyCloses(t)
    \/ /\ t \in Conversations
       /\ \/ SendAdmits(t) \/ SendReplays(t) \/ SendRefused(t)
          \/ WaitObserves(t) \/ WaitGivesUp(t)
    \/ /\ t \in Terminals
       /\ \/ TerminalScopes(t) \/ TerminalAdmits(t) \/ TerminalReplays(t)
          \/ TerminalTypes(t) \/ TerminalSubmits(t) \/ TerminalWriteRefused(t)
          \/ TerminalTurnEnds(t) \/ TerminalLoses(t) \/ TerminalParks(t)

HandlerStep(h) ==
    \/ HandlerResumes(h) \/ HandlerStops(h) \/ HandlerParks(h)
    \/ HandlerResolves(h) \/ HandlerStarts(h)

\* The receivers' own steps.
ReceiverStep ==
    /\ \/ \E v \in Conversations :
            \/ TurnStarts(v) \/ AgentDeclares(v)
            \/ \E result \in {"ok", "error"} : TurnEnds(v, result)
       \/ \E x \in Terminals : PtyExits(x) \/ CliDeclares(x)
    /\ UNCHANGED <<loopVars, historyVars, left>>

UserStep ==
    \/ \E h \in Handlers, t \in Targets, tag \in Tags \cup {None} : SetAutowork(h, t, tag)
    \/ \E r \in Requirements :
         \/ Requeue(r) \/ Delete(r)
         \/ \E status \in Verdicts : SetStatus(r, status)
         \/ \E tag \in Tags : Retag(r, tag)
    \/ \E tag \in Tags, rs \in SUBSET Requirements : ResumeTag(tag, rs)
    \/ \E v \in Conversations : UserCancels(v)
    \/ \E v \in Conversations : /\ UserSends(v) /\ Command("send")
                                /\ UNCHANGED <<loopVars, historyVars>>
    \/ \E x \in Terminals :
         \/ DeleteTerminal(x)
         \/ /\ \/ Kill(x) /\ Command("kill")
               \/ Relaunch(x, TRUE) /\ Command("relaunch")
               \/ Relaunch(x, FALSE) /\ "relaunch" \in Commands /\ Fault
            /\ UNCHANGED <<loopVars, historyVars>>

AutoWorkNext ==
    \/ \E t \in Targets : LoopStep(t) \/ LoopDies(t) \/ ResumeBinding(t)
    \/ \E v \in Conversations : SendFails(v)
    \/ \E h \in Threads : HandlerStep(h)
    \/ \E r \in Requirements : Sweep(r)
    \/ ReceiverStep
    \/ UserStep
    \/ Crash

AutoWorkSpec == AutoWorkInit /\ [][AutoWorkNext]_vars

\* The runtime drives every loop and every request until it ends; a turn ends
\* and a wait times out, the sweeper ticks, and Boot comes to every binding.
AutoWorkFairness ==
    /\ \A t \in Targets : WF_vars(LoopStep(t)) /\ WF_vars(ResumeBinding(t))
    /\ \A h \in Threads : WF_vars(HandlerStep(h))
    /\ \A r \in Requirements : WF_vars(Sweep(r))

AutoWorkFairSpec == AutoWorkSpec /\ AutoWorkFairness

=============================================================================
