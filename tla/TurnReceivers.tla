---------------------------- MODULE TurnReceivers ----------------------------
(***************************************************************************)
(* The two receivers of a claimed requirement.  A Conversation admits a    *)
(* claim with a delivery receipt (nomifun-conversation, service.rs, and    *)
(* sqlite_conversation.rs); a terminal admits it with a turn admission     *)
(* whose phases fence the bytes written to one PTY generation              *)
(* (nomifun-terminal, service.rs, and sqlite_terminal.rs).  The model, the *)
(* agents and the command-line program behind the PTY are external: they   *)
(* may end, fail, or declare a verdict at any moment.                      *)
(***************************************************************************)
EXTENDS RequirementStore

CONSTANTS
    User,         \* the operation of a foreground message
    Declaring,    \* the Conversations whose engine has the requirement tools
    MaxEpochs     \* bound: PTY generations of one process

ASSUME ReceiversAssumption ==
    /\ Declaring \subseteq Conversations
    /\ MaxEpochs \in Nat \ {0}
    /\ {None, User} \cap Claims = {}
    /\ None \notin Verdicts

VARIABLES
    receipt,     \* receipt[c]: the delivery receipt of claim c
    conv,        \* conv[v]: the operation that holds Conversation v (durable)
    turn,        \* turn[v]: the local turn of v (in process)
    term,        \* term[x]: the session row and the PTY of terminal x
    admission,   \* admission[c]: the terminal turn admission of claim c
    epochs,      \* PTY generations this process has started
    runs         \* the claims whose prompt an agent was given (history)

conversationVars == <<receipt, conv, turn>>
terminalVars == <<term, admission, epochs>>
receiverVars == <<receipt, conv, turn, term, admission, epochs, runs>>

Receipts == {"none", "accepted", "ok", "error"}
Phases == {"none", "admitted", "body_written", "effects_started", "settled"}

\* line holds the prompts pasted but not yet submitted, given the ones the
\* program was handed; a deaf PTY was killed and its exit is not recorded yet.
Sessions ==
    [status : {"running", "exited", "gone"}, pty : 0..MaxEpochs, deaf : BOOLEAN,
     line : SUBSET Claims, given : SUBSET Claims]

Admissions ==
    [phase : Phases, terminal : Terminals \cup {None}, epoch : 0..MaxEpochs,
     outcome : Verdicts \cup {None}]

NoAdmission == [phase |-> "none", terminal |-> None, epoch |-> 0, outcome |-> None]

ReceiversTypeOK ==
    /\ receipt \in [Claims -> Receipts]
    /\ conv \in [Conversations -> Claims \cup {None, User}]
    /\ turn \in [Conversations -> {"none", "starting", "running"}]
    /\ term \in [Terminals -> Sessions]
    /\ admission \in [Claims -> Admissions]
    /\ epochs \in 0..MaxEpochs
    /\ runs \subseteq Claims

\* Right after a boot: no turn, no PTY.
ReceiversInit ==
    /\ receipt = [c \in Claims |-> "none"]
    /\ conv = [v \in Conversations |-> None]
    /\ turn = [v \in Conversations |-> "none"]
    /\ term = [x \in Terminals |->
                 [status |-> "exited", pty |-> 0, deaf |-> FALSE, line |-> {}, given |-> {}]]
    /\ admission = [c \in Claims |-> NoAdmission]
    /\ epochs = 0
    /\ runs = {}

-----------------------------------------------------------------------------
(* Conversations. *)

\* The one transaction that validates the claim, inserts the receipt and marks
\* the Conversation running.
CanAdmitTurn(c, v) == Holds(c, v) /\ receipt[c] = "none" /\ conv[v] = None

AdmitTurn(c, v) ==
    /\ receipt' = [receipt EXCEPT ![c] = "accepted"]
    /\ conv' = [conv EXCEPT ![v] = c]
    /\ turn' = [turn EXCEPT ![v] = "starting"]

\* The receipts after the operation of the Conversations in vs is completed.
Completed(vs, result) ==
    [c \in Claims |-> IF receipt[c] = "accepted" /\ \E v \in vs : conv[v] = c
                      THEN result ELSE receipt[c]]

\* Mutant of UserSends: the message goes the way of an AutoWork turn.
UserSendsAsWork(v) ==
    /\ conv[v] = None
    /\ conv' = [conv EXCEPT ![v] = User]
    /\ turn' = [turn EXCEPT ![v] = "starting"]
    /\ UNCHANGED <<storeVars, receipt, terminalVars, runs>>

\* A foreground message.
UserSends(v) ==
    /\ conv[v] = None
    /\ conv' = [conv EXCEPT ![v] = User]
    /\ turn' = [turn EXCEPT ![v] = "running"]
    /\ UNCHANGED <<storeVars, receipt, terminalVars, runs>>

\* The runtime is built, the attachments staged, and the prompt sent.
TurnStarts(v) ==
    /\ turn[v] = "starting"
    /\ turn' = [turn EXCEPT ![v] = "running"]
    /\ runs' = runs \cup {conv[v]}
    /\ UNCHANGED <<storeVars, receipt, conv, terminalVars>>

\* release_and_complete_turn.
TurnEnds(v, result) ==
    /\ turn[v] = "running" \/ (turn[v] = "starting" /\ result = "error")
    /\ receipt' = Completed({v}, result)
    /\ conv' = [conv EXCEPT ![v] = None]
    /\ turn' = [turn EXCEPT ![v] = "none"]
    /\ UNCHANGED <<storeVars, terminalVars, runs>>

\* The agent of the turn declares its verdict with the exact capability.
AgentDeclares(v) ==
    /\ v \in Declaring /\ turn[v] = "running" /\ conv[v] \in Claims
    /\ Holds(conv[v], v)
    /\ \E status \in {"done", "failed"} : requirement' = WithVerdict(conv[v], v, status)
    /\ UNCHANGED <<paused, receiverVars>>

-----------------------------------------------------------------------------
(* Terminals. *)

Open(c) == admission[c].phase \notin {"none", "settled"}

\* The outcome a receipt takes from its requirement.
Projected(c, x) ==
    LET row == requirement[c.req]
    IN  IF row.gen = c.gen /\ row.owner = x /\ row.status \in Verdicts
        THEN row.status ELSE "needs_review"

\* The open admissions of the PTY generations es of terminal x.
OpenAt(x, es) ==
    {c \in Claims : Open(c) /\ admission[c].terminal = x /\ admission[c].epoch \in es}

\* Mutant of ParkedRows: a parked row returns to the queue.
ParkedRowsRequeued(cs) ==
    [r \in Requirements |->
        IF \E c \in cs : c.req = r /\ Holds(c, admission[c].terminal)
        THEN Abandoned(requirement[r]) ELSE requirement[r]]

\* park_open_turn_admissions, in the requirement rows and in the receipts.
ParkedRows(cs) ==
    [r \in Requirements |->
        IF \E c \in cs : c.req = r /\ Holds(c, admission[c].terminal)
        THEN Resolved(requirement[r], "needs_review") ELSE requirement[r]]

ParkedAdmissions(cs) ==
    [c \in Claims |->
        IF c \in cs
        THEN [admission[c] EXCEPT !.phase = "settled",
                                  !.outcome = Projected(c, admission[c].terminal)]
        ELSE admission[c]]

Park(cs) ==
    /\ requirement' = ParkedRows(cs)
    /\ admission' = ParkedAdmissions(cs)

Dead(session, status) ==
    [session EXCEPT !.status = status, !.pty = 0, !.deaf = FALSE, !.line = {}, !.given = {}]

\* advance_terminal_turn_phase under the lifecycle lock of the writers.
CanAdvance(c, x, from) ==
    /\ term[x].pty # 0 /\ term[x].pty = admission[c].epoch
    /\ admission[c].phase = from
    /\ Holds(c, x) /\ term[x].status = "running"

\* The exit callback of the current PTY.
PtyExits(x) ==
    /\ term[x].pty # 0
    /\ Park(OpenAt(x, {term[x].pty}))
    /\ term' = [term EXCEPT ![x] = Dead(@, "exited")]
    /\ UNCHANGED <<paused, conversationVars, epochs, runs>>

Kill(x) ==
    /\ term[x].pty # 0 /\ ~term[x].deaf
    /\ Park(OpenAt(x, {term[x].pty}))
    /\ term' = [term EXCEPT ![x].deaf = TRUE, ![x].line = {}, ![x].given = {}]
    /\ UNCHANGED <<paused, conversationVars, epochs, runs>>

\* relaunch_in_place: the old generation is parked and killed, a new one
\* spawned; a failed spawn leaves the session exited.
Relaunch(x, spawned) ==
    /\ term[x].status # "gone" /\ epochs < MaxEpochs
    /\ Park(OpenAt(x, {term[x].pty} \ {0}))
    /\ term' = [term EXCEPT ![x] =
                  IF spawned THEN [Dead(@, "running") EXCEPT !.pty = epochs + 1]
                  ELSE Dead(@, "exited")]
    /\ epochs' = epochs + 1
    /\ UNCHANGED <<paused, conversationVars, runs>>

\* The program was given the prompt and declares through the requirement MCP.
CliDeclares(x) ==
    /\ \E c \in term[x].given, status \in {"done", "failed"} :
         /\ Holds(c, x)
         /\ requirement' = WithVerdict(c, x, status)
    /\ UNCHANGED <<paused, receiverVars>>

-----------------------------------------------------------------------------
(* Claims that neither receiver has admitted. *)

Unadmitted(c) == receipt[c] = "none" /\ admission[c].phase = "none"

\* Mutant of CanAbandon: the receipts are not read.
CanAbandonAdmitted(c, t) == Holds(c, t) /\ (t \in Conversations => conv[t] = None)

\* abandon_claim_before_admission_exact.
CanAbandon(c, t) ==
    /\ Holds(c, t)
    /\ Unadmitted(c)
    /\ t \in Conversations => conv[t] = None

\* abandon_pre_effect_or_quarantine and resolve_interrupted_conversation_claim.
AbandonedOrQuarantined(c, t) ==
    IF CanAbandon(c, t)
    THEN [requirement EXCEPT ![c.req] = Abandoned(@)]
    ELSE WithVerdict(c, t, "needs_review")

=============================================================================
