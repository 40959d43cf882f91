--------------------------- MODULE AutoWorkProofs ---------------------------
(***************************************************************************)
(* Proofs about AutoWork, for every value of its constants.                *)
(***************************************************************************)
EXTENDS AutoWorkCorrectness, TLAPS

-----------------------------------------------------------------------------
(* Type correctness.  A row that is claimed has an owner and a generation, *)
(* a loop past its claim has one, a turn that starts belongs to a claim,   *)
(* and a settled admission has an outcome.                                 *)

GoodRow(row) ==
  /\ row \in Rows
  /\ row.attempts <= row.gen
  /\ row.status = "in_progress" => row.gen >= 1

RowsTyped ==
  /\ requirement \in [Requirements -> Rows]
  /\ \A r \in Requirements : GoodRow(requirement[r])
PausedTyped == paused \in [Tags -> BOOLEAN]

ReceiptsTyped ==
  /\ receipt \in [Claims -> Receipts]
  /\ conv \in [Conversations -> Claims \cup {None, User}]
  /\ turn \in [Conversations -> {"none", "starting", "running"}]
  /\ \A v \in Conversations : turn[v] = "starting" => conv[v] \in Claims

TermsTyped == term \in [Terminals -> Sessions] /\ epochs \in 0 .. MaxEpochs
AdmissionsTyped ==
  /\ admission \in [Claims -> Admissions]
  /\ \A c \in Claims : admission[c].phase = "settled" => admission[c].outcome \in Verdicts
RunsTyped == runs \subseteq Claims

Working == LoopSteps \ {"off", "idle", "preparing", "custody"}
LoopTyped ==
  /\ loop \in [Targets -> Loops]
  /\ \A t \in Targets : loop[t].pc \in Working => loop[t].claim \in Claims

HandlersTyped ==
  /\ handler \in [Threads -> Requests]
  /\ \A h \in Threads : handler[h].step # "none" => handler[h].target \in Targets
BindingsTyped ==
  /\ config \in [Targets -> Tags \cup {None}]
  /\ boot \in [Targets -> Tags \cup {None}]
HistoryTyped ==
  /\ requeuedAt \in [Requirements -> 0 .. MaxClaims]
  /\ stopped \subseteq Requirements
LeftTyped == left \in [commands : 0 .. MaxCommands, faults : 0 .. MaxFaults]

BoardTyped ==
  /\ RowsTyped /\ PausedTyped /\ ReceiptsTyped /\ TermsTyped /\ AdmissionsTyped
  /\ RunsTyped /\ LoopTyped /\ HandlersTyped /\ BindingsTyped /\ HistoryTyped
  /\ LeftTyped

\* what a step leaves alone keeps its type
LEMMA Frame ==
  /\ RowsTyped /\ requirement' = requirement => RowsTyped'
  /\ PausedTyped /\ paused' = paused => PausedTyped'
  /\ ReceiptsTyped /\ receipt' = receipt /\ conv' = conv /\ turn' = turn
       => ReceiptsTyped'
  /\ TermsTyped /\ term' = term /\ epochs' = epochs => TermsTyped'
  /\ AdmissionsTyped /\ admission' = admission => AdmissionsTyped'
  /\ RunsTyped /\ runs' = runs => RunsTyped'
  /\ LoopTyped /\ loop' = loop => LoopTyped'
  /\ HandlersTyped /\ handler' = handler => HandlersTyped'
  /\ BindingsTyped /\ config' = config /\ boot' = boot => BindingsTyped'
  /\ HistoryTyped /\ requeuedAt' = requeuedAt /\ stopped' = stopped => HistoryTyped'
  /\ LeftTyped /\ left' = left => LeftTyped'
  BY DEF RowsTyped, GoodRow, PausedTyped, ReceiptsTyped, TermsTyped, AdmissionsTyped,
         RunsTyped, LoopTyped, HandlersTyped, BindingsTyped, HistoryTyped, LeftTyped

-----------------------------------------------------------------------------
(* The rows that the statements write.                                     *)

LEMMA ResolvedFacts ==
  ASSUME NEW row, GoodRow(row), NEW s \in Statuses \ {"in_progress"}
  PROVE  /\ GoodRow(Resolved(row, s))
         /\ Resolved(row, s).status = s /\ Resolved(row, s).gen = row.gen
         /\ Resolved(row, s).tag = row.tag
  BY DEF GoodRow, Rows, Resolved

LEMMA ClaimedFacts ==
  ASSUME NEW row, GoodRow(row), row.gen < MaxClaims, NEW t \in Targets
  PROVE  /\ GoodRow(Claimed(row, t))
         /\ Claimed(row, t).status = "in_progress"
         /\ Claimed(row, t).gen = row.gen + 1
         /\ Claimed(row, t).tag = row.tag
  <1>1. /\ row \in Rows /\ row.gen \in Nat /\ row.attempts \in Nat /\ MaxClaims \in Nat
        /\ row.attempts <= row.gen
    BY StoreAssumption DEF GoodRow, Rows
  <1>2. row.gen + 1 \in 0 .. MaxClaims /\ row.attempts + 1 \in 0 .. MaxClaims
        /\ row.attempts + 1 <= row.gen + 1 /\ row.gen + 1 >= 1
    BY <1>1
  <1> DEFINE g == row.gen + 1
             a == row.attempts + 1
             new == [row EXCEPT !.status = "in_progress", !.owner = t, !.gen = g,
                                !.attempts = a]
  <1>3. Claimed(row, t) = new
    BY DEF Claimed
  <1>4. g \in 0 .. MaxClaims /\ a \in 0 .. MaxClaims /\ a <= g /\ g >= 1
    BY <1>2
  <1> HIDE DEF g, a
  <1>5. /\ new \in Rows /\ new.gen = g /\ new.attempts = a
        /\ new.status = "in_progress" /\ new.tag = row.tag
    BY <1>1, <1>4 DEF Rows, Statuses, Targets
  <1> QED BY <1>3, <1>4, <1>5 DEF GoodRow, g

LEMMA RequeuedFacts ==
  ASSUME NEW row, GoodRow(row), NEW reset \in BOOLEAN
  PROVE  /\ GoodRow(Requeued(row, reset))
         /\ Requeued(row, reset).status = "pending"
         /\ Requeued(row, reset).gen = row.gen
         /\ Requeued(row, reset).tag = row.tag
  <1> DEFINE a == IF reset THEN 0 ELSE row.attempts
             new == [row EXCEPT !.status = "pending", !.owner = None, !.attempts = a]
  <1>1. row \in Rows /\ row.attempts \in 0 .. MaxClaims /\ row.gen \in 0 .. MaxClaims
        /\ row.attempts <= row.gen
    BY DEF GoodRow, Rows
  <1>2. a \in 0 .. MaxClaims /\ a <= row.gen
    BY <1>1, StoreAssumption
  <1>3. Requeued(row, reset) = new
    BY DEF Requeued
  <1> HIDE DEF a
  <1>4. /\ new \in Rows /\ new.attempts = a /\ new.status = "pending"
        /\ new.gen = row.gen /\ new.tag = row.tag
    BY <1>1, <1>2 DEF Rows, Statuses
  <1> QED BY <1>2, <1>3, <1>4 DEF GoodRow

LEMMA AbandonedFacts ==
  ASSUME NEW row, GoodRow(row)
  PROVE  /\ GoodRow(Abandoned(row))
         /\ Abandoned(row).status = "pending" /\ Abandoned(row).gen = row.gen
         /\ Abandoned(row).tag = row.tag
  <1> DEFINE a == IF row.attempts = 0 THEN 0 ELSE row.attempts - 1
             new == [row EXCEPT !.status = "pending", !.owner = None, !.attempts = a]
  <1>1. row \in Rows /\ row.attempts \in 0 .. MaxClaims /\ row.gen \in 0 .. MaxClaims
        /\ row.attempts <= row.gen
    BY DEF GoodRow, Rows
  <1>2. a \in 0 .. MaxClaims /\ a <= row.gen
    BY <1>1, StoreAssumption
  <1>3. Abandoned(row) = new
    BY DEF Abandoned
  <1> HIDE DEF a
  <1>4. /\ new \in Rows /\ new.attempts = a /\ new.status = "pending"
        /\ new.gen = row.gen /\ new.tag = row.tag
    BY <1>1, <1>2 DEF Rows, Statuses
  <1> QED BY <1>2, <1>3, <1>4 DEF GoodRow

LEMMA DetachedFacts ==
  ASSUME NEW row, GoodRow(row)
  PROVE  /\ GoodRow(Detached(row)) /\ Detached(row).gen = row.gen
         /\ Detached(row).tag = row.tag
         /\ Detached(row).status =
              IF row.status = "in_progress" THEN "needs_review" ELSE row.status
  <1>1. CASE row.status = "in_progress"
    BY <1>1, ResolvedFacts DEF Detached, Statuses
  <1>2. CASE row.status = "needs_review"
    BY <1>2 DEF Detached
  <1>3. CASE row.status \notin {"in_progress", "needs_review"}
    BY <1>3 DEF Detached, GoodRow, Rows
  <1> QED BY <1>1, <1>2, <1>3

LEMMA ResumedFacts ==
  ASSUME NEW row, GoodRow(row)
  PROVE  /\ GoodRow(ResumedForEnable(row)) /\ ResumedForEnable(row).gen = row.gen
         /\ ResumedForEnable(row).tag = row.tag
         /\ ResumedForEnable(row).status =
              CASE row.status = "in_progress" -> "needs_review"
                [] row.status \in {"failed", "pending"} -> "pending"
                [] OTHER -> row.status
  <1>1. CASE row.status = "in_progress"
    BY <1>1, ResolvedFacts DEF ResumedForEnable, Statuses
  <1>2. CASE row.status \in {"failed", "pending"}
    BY <1>2, RequeuedFacts DEF ResumedForEnable
  <1>3. CASE row.status \notin {"in_progress", "failed", "pending"}
    BY <1>3 DEF ResumedForEnable
  <1> QED BY <1>1, <1>2, <1>3

-----------------------------------------------------------------------------
(* The moves that a row makes without a user: it is kept, closed, or       *)
(* returned to the queue because no receiver admitted its claim.           *)

ClaimOf(r) == [req |-> r, gen |-> requirement[r].gen]
Kept(r, row) ==
  row.gen = requirement[r].gen /\ row.status = requirement[r].status
Closed(r, row) ==
  row.gen = requirement[r].gen /\ row.status \in Verdicts \cup {"deleted"}
Returned(r, row) ==
  /\ row.gen = requirement[r].gen /\ row.status = "pending"
  /\ requirement[r].status = "in_progress" /\ Unadmitted(ClaimOf(r))
Moves(r, row) ==
  /\ GoodRow(row) /\ row.tag = requirement[r].tag
  /\ Kept(r, row) \/ Closed(r, row) \/ Returned(r, row)

\* f is a value of requirement' that only makes such moves
Quiet(f) ==
  f \in [Requirements -> Rows] /\ \A r \in Requirements : Moves(r, f[r])

LEMMA KeptMoves ==
  ASSUME RowsTyped, NEW r \in Requirements
  PROVE  Moves(r, requirement[r])
  BY DEF RowsTyped, Moves, Kept

LEMMA QuietSame == RowsTyped => Quiet(requirement)
  BY KeptMoves DEF Quiet, RowsTyped

LEMMA QuietTyped ==
  ASSUME Quiet(requirement') PROVE RowsTyped'
  BY DEF Quiet, Moves, RowsTyped

LEMMA ResolvedMoves ==
  ASSUME RowsTyped, NEW r \in Requirements, NEW s \in Verdicts \cup {"deleted"}
  PROVE  Moves(r, Resolved(requirement[r], s))
  <1>1. s \in Statuses \ {"in_progress"}
    BY DEF Verdicts, Statuses
  <1> QED BY <1>1, ResolvedFacts DEF RowsTyped, Moves, Closed

\* one row moves
LEMMA QuietOne ==
  ASSUME RowsTyped, NEW r \in Requirements, NEW row, Moves(r, row)
  PROVE  Quiet([requirement EXCEPT ![r] = row])
  <1>1. row \in Rows
    BY DEF Moves, GoodRow
  <1> QED BY <1>1, KeptMoves DEF Quiet, RowsTyped

LEMMA ClaimReq == \A c \in Claims : c.req \in Requirements /\ c.gen \in 1 .. MaxClaims
  BY DEF Claims

LEMMA WithVerdictQuiet ==
  ASSUME RowsTyped, NEW c \in Claims, NEW t, NEW s \in Verdicts
  PROVE  Quiet(WithVerdict(c, t, s))
  <1>1. CASE Holds(c, t)
    BY <1>1, ResolvedMoves, QuietOne, ClaimReq DEF WithVerdict
  <1>2. CASE ~Holds(c, t)
    BY <1>2, QuietSame DEF WithVerdict
  <1> QED BY <1>1, <1>2

LEMMA ClaimOfHeld ==
  ASSUME NEW c \in Claims, NEW t, Holds(c, t)
  PROVE  ClaimOf(c.req) = c
  BY DEF Claims, Holds, ClaimOf

LEMMA AbandonedQuiet ==
  ASSUME RowsTyped, NEW c \in Claims, NEW t
  PROVE  Quiet(AbandonedOrQuarantined(c, t))
  <1>1. CASE CanAbandon(c, t)
    <2>1. c.req \in Requirements /\ GoodRow(requirement[c.req])
      BY ClaimReq DEF RowsTyped
    <2>2. Moves(c.req, Abandoned(requirement[c.req]))
      BY <1>1, <2>1, AbandonedFacts, ClaimOfHeld DEF Moves, Returned, CanAbandon, Holds
    <2> QED BY <1>1, <2>1, <2>2, QuietOne DEF AbandonedOrQuarantined
  <1>2. CASE ~CanAbandon(c, t)
    BY <1>2, WithVerdictQuiet DEF AbandonedOrQuarantined, Verdicts
  <1> QED BY <1>1, <1>2

LEMMA ClosedRowsQuiet ==
  ASSUME RowsTyped, AdmissionsTyped, NEW c \in Claims, NEW t
  PROVE  Quiet(ClosedRows(c, t))
  <1>1. CASE t \in Conversations \/ admission[c].phase = "none"
    BY <1>1, AbandonedQuiet DEF ClosedRows
  <1>2. CASE ~(t \in Conversations \/ admission[c].phase = "none")
    <2> DEFINE s == IF admission[c].phase = "settled" THEN admission[c].outcome
                    ELSE "needs_review"
    <2>1. s \in Verdicts
      BY DEF AdmissionsTyped, Verdicts
    <2>2. ClosedRows(c, t) = WithVerdict(c, t, s)
      BY <1>2 DEF ClosedRows
    <2> HIDE DEF s
    <2> QED BY <2>1, <2>2, WithVerdictQuiet
  <1> QED BY <1>1, <1>2

LEMMA SettleRowsQuiet ==
  ASSUME RowsTyped, NEW t \in Targets, loop[t].claim \in Claims
  PROVE  Quiet(SettleRows(t))
  <1>1. CASE loop[t].outcome \in Verdicts
    <2>1. loop[t].outcome # "errored"
      BY <1>1 DEF Verdicts
    <2>2. SettleRows(t) = WithVerdict(loop[t].claim, t, loop[t].outcome)
      BY <1>1, <2>1 DEF SettleRows
    <2> QED BY <1>1, <2>2, WithVerdictQuiet
  <1>2. CASE loop[t].outcome \notin Verdicts
    <2>1. "failed" \in Verdicts
      BY DEF Verdicts
    <2>2. \/ SettleRows(t) = WithVerdict(loop[t].claim, t, "failed")
          \/ SettleRows(t) = AbandonedOrQuarantined(loop[t].claim, t)
      BY <1>2 DEF SettleRows
    <2> QED BY <2>1, <2>2, WithVerdictQuiet, AbandonedQuiet
  <1> QED BY <1>1, <1>2

LEMMA ParkedRowsQuiet ==
  ASSUME RowsTyped, NEW cs
  PROVE  Quiet(ParkedRows(cs))
  <1> DEFINE Row(r) == IF \E c \in cs : c.req = r /\ Holds(c, admission[c].terminal)
                       THEN Resolved(requirement[r], "needs_review")
                       ELSE requirement[r]
  <1>1. ASSUME NEW r \in Requirements PROVE Moves(r, Row(r))
    BY ResolvedMoves, KeptMoves DEF Verdicts
  <1>2. ParkedRows(cs) = [r \in Requirements |-> Row(r)]
    BY DEF ParkedRows
  <1> HIDE DEF Row
  <1>3. Quiet([r \in Requirements |-> Row(r)])
    BY <1>1 DEF Quiet, Moves, GoodRow
  <1> QED BY <1>2, <1>3

-----------------------------------------------------------------------------
(* Admissions.                                                             *)

LEMMA ProjectedType ==
  ASSUME NEW c, NEW x PROVE Projected(c, x) \in Verdicts
  BY DEF Projected, Verdicts

LEMMA ParkedAdmissionsFacts ==
  ASSUME AdmissionsTyped, NEW cs
  PROVE  LET f == ParkedAdmissions(cs)
         IN /\ f \in [Claims -> Admissions]
            /\ \A c \in Claims :
                 /\ f[c].phase = "settled" => f[c].outcome \in Verdicts
                 /\ f[c] = admission[c]
                    \/ /\ c \in cs /\ f[c].phase = "settled"
                       /\ f[c].outcome = Projected(c, admission[c].terminal)
  <1> DEFINE new(c) == [admission[c] EXCEPT !.phase = "settled",
                          !.outcome = Projected(c, admission[c].terminal)]
             g(c) == IF c \in cs THEN new(c) ELSE admission[c]
  <1>1. \A c \in Claims :
          /\ new(c) \in Admissions /\ new(c).phase = "settled"
          /\ new(c).outcome = Projected(c, admission[c].terminal)
    <2> TAKE c \in Claims
    <2> DEFINE p == Projected(c, admission[c].terminal)
    <2>1. p \in Verdicts /\ admission[c] \in Admissions
      BY ProjectedType DEF AdmissionsTyped
    <2>2. new(c) = [admission[c] EXCEPT !.phase = "settled", !.outcome = p]
      OBVIOUS
    <2> HIDE DEF p
    <2>3. /\ new(c) \in Admissions /\ new(c).phase = "settled" /\ new(c).outcome = p
      BY <2>1, <2>2 DEF Admissions, Phases
    <2> QED BY <2>3 DEF p
  <1>2. ParkedAdmissions(cs) = [c \in Claims |-> g(c)]
    BY DEF ParkedAdmissions
  <1>3. \A c \in Claims :
          /\ g(c) \in Admissions
          /\ g(c).phase = "settled" => g(c).outcome \in Verdicts
          /\ g(c) = admission[c]
             \/ /\ c \in cs /\ g(c).phase = "settled"
                /\ g(c).outcome = Projected(c, admission[c].terminal)
    <2> TAKE c \in Claims
    <2>1. CASE c \in cs
      BY <1>1, <2>1, ProjectedType
    <2>2. CASE c \notin cs
      BY <2>2 DEF AdmissionsTyped
    <2> QED BY <2>1, <2>2
  <1> HIDE DEF g
  <1> QED BY <1>2, <1>3

LEMMA ParkedAdmissionsTyped ==
  ASSUME AdmissionsTyped, NEW cs, admission' = ParkedAdmissions(cs)
  PROVE  AdmissionsTyped'
  BY ParkedAdmissionsFacts DEF AdmissionsTyped

LEMMA ParkTyped ==
  ASSUME RowsTyped, AdmissionsTyped, NEW cs, Park(cs)
  PROVE  RowsTyped' /\ AdmissionsTyped' /\ Quiet(requirement')
  BY ParkedRowsQuiet, QuietTyped, ParkedAdmissionsTyped DEF Park

-----------------------------------------------------------------------------
(* Loops.                                                                  *)

LoopOthers(t) == \A u \in Targets \ {t} : loop'[u] = loop[u]

LEMMA LoopAtType ==
  ASSUME NEW pc \in LoopSteps, NEW tag \in Tags \cup {None}
  PROVE  LoopAt(pc, tag) \in Loops
  BY ReceiversAssumption DEF LoopAt, Loops

\* the loop of one target changes
LEMMA LoopOne ==
  ASSUME LoopTyped, NEW t \in Targets, NEW new \in Loops,
         new.pc \in Working => new.claim \in Claims,
         loop' = [loop EXCEPT ![t] = new]
  PROVE  LoopTyped'
  BY DEF LoopTyped

LEMMA ResetTyped ==
  ASSUME LoopTyped, NEW t \in Targets, NEW pc \in LoopSteps \ Working,
         NEW tag \in Tags \cup {None},
         loop' = [loop EXCEPT ![t] = LoopAt(pc, tag)]
  PROVE  LoopTyped'
  <1>1. LoopAt(pc, tag) \in Loops /\ LoopAt(pc, tag).pc = pc
    BY LoopAtType DEF LoopAt
  <1> QED BY <1>1 DEF LoopTyped

LEMMA GotoFacts ==
  ASSUME LoopTyped, NEW t \in Targets, NEW pc, Goto(t, pc)
  PROVE  /\ loop'[t].pc = pc /\ loop'[t].claim = loop[t].claim
         /\ loop'[t].outcome = loop[t].outcome /\ loop'[t].tag = loop[t].tag
         /\ LoopOthers(t)
  BY DEF LoopTyped, Loops, Goto, LoopOthers

LEMMA GotoTyped ==
  ASSUME LoopTyped, NEW t \in Targets, NEW pc \in LoopSteps, Goto(t, pc),
         pc \in Working => loop[t].claim \in Claims
  PROVE  LoopTyped'
  BY DEF LoopTyped, Loops, Goto

LEMMA EndsFacts ==
  ASSUME LoopTyped, NEW t \in Targets, NEW out, Ends(t, out)
  PROVE  /\ loop'[t].pc = "settling" /\ loop'[t].claim = loop[t].claim
         /\ loop'[t].outcome = out /\ loop'[t].tag = loop[t].tag
         /\ LoopOthers(t)
  BY DEF LoopTyped, Loops, Ends, LoopOthers

LEMMA EndsTyped ==
  ASSUME LoopTyped, NEW t \in Targets, NEW out \in Outcomes \cup {None}, Ends(t, out),
         loop[t].claim \in Claims
  PROVE  LoopTyped'
  <1> DEFINE new == [loop[t] EXCEPT !.pc = "settling", !.outcome = out]
  <1>1. loop[t] \in Loops
    BY DEF LoopTyped
  <1>2. new \in Loops /\ new.claim = loop[t].claim
    BY <1>1 DEF Loops, LoopSteps
  <1>3. loop' = [loop EXCEPT ![t] = new]
    BY DEF Ends, LoopTyped
  <1> HIDE DEF new
  <1> QED BY <1>2, <1>3, LoopOne

\* a loop that works on a claim has one
LEMMA WorkingClaim ==
  ASSUME LoopTyped, NEW t \in Targets, loop[t].pc \in Working
  PROVE  loop[t].claim \in Claims
  BY DEF LoopTyped

LEMMA LoopFields ==
  ASSUME LoopTyped, NEW t \in Targets
  PROVE  /\ loop[t].pc \in LoopSteps /\ loop[t].tag \in Tags \cup {None}
         /\ loop[t].claim \in Claims \cup {None} /\ loop[t].epoch \in 0 .. MaxEpochs
         /\ loop[t].outcome \in Outcomes \cup {None}
  BY DEF LoopTyped, Loops

\* the claim of an active row
LEMMA ActiveClaim ==
  ASSUME RowsTyped, NEW tag, NEW t, NEW r \in Active(tag, t)
  PROVE  [req |-> r, gen |-> requirement[r].gen] \in Claims
  <1>1. r \in Requirements /\ GoodRow(requirement[r]) /\ requirement[r].status = "in_progress"
    BY DEF Active, RowsTyped
  <1>2. requirement[r].gen \in 1 .. MaxClaims
    BY <1>1, StoreAssumption DEF GoodRow, Rows
  <1> QED BY <1>1, <1>2 DEF Claims

LEMMA TargetKinds ==
  /\ Conversations \subseteq Targets /\ Terminals \subseteq Targets
  BY DEF Targets

LEMMA CommandTyped ==
  ASSUME LeftTyped, NEW name, Command(name) PROVE LeftTyped'
  BY AutoWorkAssumption DEF LeftTyped, Command

LEMMA FaultTyped ==
  ASSUME LeftTyped, Fault PROVE LeftTyped'
  BY AutoWorkAssumption DEF LeftTyped, Fault

-----------------------------------------------------------------------------
(* Type correctness of the loop's own steps.                               *)

LEMMA LoopPreparesTyped ==
  ASSUME BoardTyped, NEW t \in Targets, LoopPrepares(t)
  PROVE  BoardTyped'
  <1>1. LoopTyped'
    BY ResetTyped, LoopFields DEF BoardTyped, LoopPrepares, LoopSteps, Working
  <1> QED BY <1>1, Frame DEF BoardTyped, LoopPrepares, storeVars, receiverVars, historyVars

LEMMA LoopRecoversTyped ==
  ASSUME BoardTyped, NEW t \in Targets, LoopRecovers(t)
  PROVE  BoardTyped'
  <1>1. PICK r \in Active(loop[t].tag, t) :
          loop' = [loop EXCEPT ![t].pc = "committed", ![t].recovered = TRUE,
                               ![t].claim = [req |-> r, gen |-> requirement[r].gen]]
    BY DEF LoopRecovers
  <1> DEFINE c == [req |-> r, gen |-> requirement[r].gen]
  <1>2. c \in Claims
    BY ActiveClaim DEF BoardTyped
  <1>3. loop' = [loop EXCEPT ![t].pc = "committed", ![t].recovered = TRUE, ![t].claim = c]
    BY <1>1
  <1> HIDE DEF c
  <1> DEFINE new == [loop[t] EXCEPT !.pc = "committed", !.recovered = TRUE, !.claim = c]
  <1>5. loop[t] \in Loops
    BY DEF BoardTyped, LoopTyped
  <1>6. new \in Loops /\ new.claim = c
    BY <1>2, <1>5 DEF Loops, LoopSteps
  <1>7. loop' = [loop EXCEPT ![t] = new]
    BY <1>3 DEF BoardTyped, LoopTyped
  <1> HIDE DEF new
  <1>4. LoopTyped'
    BY <1>2, <1>6, <1>7, LoopOne DEF BoardTyped
  <1> QED BY <1>4, Frame DEF BoardTyped, LoopRecovers, storeVars, receiverVars, historyVars

LEMMA LoopClaimsTyped ==
  ASSUME BoardTyped, NEW t \in Targets, LoopClaims(t)
  PROVE  BoardTyped'
  <1>1. PICK r \in Claimable(loop[t].tag, t) :
          /\ requirement' = [requirement EXCEPT ![r] = Claimed(@, t)]
          /\ loop' = [loop EXCEPT ![t].pc = "committed",
                                  ![t].claim = [req |-> r, gen |-> requirement[r].gen + 1]]
    BY DEF LoopClaims
  <1> DEFINE c == [req |-> r, gen |-> requirement[r].gen + 1]
             row == Claimed(requirement[r], t)
  <1>2. r \in Requirements /\ GoodRow(requirement[r]) /\ requirement[r].gen < MaxClaims
    BY DEF Claimable, BoardTyped, RowsTyped
  <1>3. GoodRow(row)
    BY <1>2, ClaimedFacts
  <1>4. requirement[r].gen + 1 \in 1 .. MaxClaims
    BY <1>2, StoreAssumption DEF GoodRow, Rows
  <1>5. c \in Claims
    BY <1>2, <1>4 DEF Claims
  <1>6. requirement' = [requirement EXCEPT ![r] = row]
        /\ loop' = [loop EXCEPT ![t].pc = "committed", ![t].claim = c]
    BY <1>1
  <1> HIDE DEF c, row
  <1> DEFINE new == [loop[t] EXCEPT !.pc = "committed", !.claim = c]
  <1>10. loop[t] \in Loops
    BY DEF BoardTyped, LoopTyped
  <1>11. new \in Loops /\ new.claim = c
    BY <1>5, <1>10 DEF Loops, LoopSteps
  <1>12. loop' = [loop EXCEPT ![t] = new]
    BY <1>6 DEF BoardTyped, LoopTyped
  <1> HIDE DEF new
  <1>7. LoopTyped'
    BY <1>5, <1>11, <1>12, LoopOne DEF BoardTyped
  <1>8. row \in Rows
    BY <1>3 DEF GoodRow
  <1>9. RowsTyped'
    BY <1>2, <1>3, <1>6, <1>8 DEF BoardTyped, RowsTyped
  <1> QED BY <1>7, <1>9, Frame DEF BoardTyped, LoopClaims, receiverVars, historyVars

LEMMA LoopFindsNothingTyped ==
  ASSUME BoardTyped, NEW t \in Targets, LoopFindsNothing(t)
  PROVE  BoardTyped'
  <1>1. LoopTyped'
    BY ResetTyped, LoopFields DEF BoardTyped, LoopFindsNothing, LoopSteps, Working
  <1> QED BY <1>1, Frame DEF BoardTyped, LoopFindsNothing, storeVars, receiverVars,
                             historyVars

\* the steps that only move the loop
LEMMA LoopMovesTyped ==
  ASSUME BoardTyped, NEW t \in Targets,
         LoopExits(t) \/ LoopPublishes(t) \/ TerminalLoses(t)
  PROVE  BoardTyped'
  <1>1. CASE LoopExits(t)
    <2>1. LoopTyped'
      BY <1>1, GotoTyped DEF BoardTyped, LoopExits, LoopSteps, Working
    <2> QED BY <1>1, <2>1, Frame DEF BoardTyped, LoopExits, storeVars, receiverVars,
                                     historyVars
  <1>2. CASE LoopPublishes(t)
    <2>1. LoopTyped'
      BY <1>2, GotoTyped, WorkingClaim DEF BoardTyped, LoopPublishes, LoopSteps, Working
    <2> QED BY <1>2, <2>1, Frame DEF BoardTyped, LoopPublishes, storeVars, receiverVars,
                                     historyVars
  <1>3. CASE TerminalLoses(t)
    <2>1. LoopTyped'
      BY <1>3, GotoTyped, WorkingClaim DEF BoardTyped, TerminalLoses, LoopSteps, Working
    <2> QED BY <1>3, <2>1, Frame DEF BoardTyped, TerminalLoses, storeVars, receiverVars,
                                     historyVars
  <1> QED BY <1>1, <1>2, <1>3

-----------------------------------------------------------------------------
(* Conversations.                                                          *)

LEMMA AdmitTurnTyped ==
  ASSUME ReceiptsTyped, NEW c \in Claims, NEW v \in Conversations, AdmitTurn(c, v)
  PROVE  ReceiptsTyped'
  BY DEF ReceiptsTyped, AdmitTurn, Receipts

LEMMA CompletedFacts ==
  ASSUME ReceiptsTyped, NEW vs, NEW result \in {"ok", "error"}
  PROVE  LET f == Completed(vs, result)
         IN /\ f \in [Claims -> Receipts]
            /\ \A c \in Claims :
                 \/ f[c] = receipt[c]
                 \/ /\ f[c] = result /\ receipt[c] = "accepted"
                    /\ \E v \in vs : conv[v] = c
  BY DEF ReceiptsTyped, Completed, Receipts

LEMMA SendAdmitsTyped ==
  ASSUME BoardTyped, NEW v \in Conversations, SendAdmits(v)
  PROVE  BoardTyped'
  <1>1. v \in Targets /\ loop[v].claim \in Claims
    BY TargetKinds, WorkingClaim DEF BoardTyped, SendAdmits, Working, LoopSteps
  <1>2. LoopTyped'
    BY <1>1, GotoTyped DEF BoardTyped, SendAdmits, LoopSteps
  <1>3. ReceiptsTyped'
    BY <1>1, AdmitTurnTyped DEF BoardTyped, SendAdmits
  <1> QED BY <1>2, <1>3, Frame DEF BoardTyped, SendAdmits, storeVars, terminalVars,
                                   historyVars

LEMMA DeliveryOutcomeType ==
  ASSUME NEW v, NEW result PROVE DeliveryOutcome(v, result) \in Outcomes
  BY DEF DeliveryOutcome, Outcomes, Verdicts

LEMMA SendReplaysTyped ==
  ASSUME BoardTyped, NEW v \in Conversations, SendReplays(v)
  PROVE  BoardTyped'
  <1>1. v \in Targets /\ loop[v].claim \in Claims
    BY TargetKinds, WorkingClaim DEF BoardTyped, SendReplays, Working, LoopSteps
  <1>2. LoopTyped'
    <2>1. CASE Goto(v, "waiting")
      BY <1>1, <2>1, GotoTyped DEF BoardTyped, LoopSteps
    <2>2. CASE Ends(v, DeliveryOutcome(v, receipt[loop[v].claim]))
      BY <1>1, <2>2, EndsTyped, DeliveryOutcomeType DEF BoardTyped
    <2> QED BY <2>1, <2>2 DEF SendReplays
  <1>3. ReceiptsTyped'
    <2>1. CASE UNCHANGED <<receipt, conv>>
      BY <2>1, Frame DEF BoardTyped, SendReplays
    <2>2. CASE /\ turn[v] = "none" /\ receipt' = Completed({v}, "error")
               /\ conv' = [conv EXCEPT ![v] = None]
      <3>1. receipt' \in [Claims -> Receipts]
        BY <2>2, CompletedFacts DEF BoardTyped
      <3> QED BY <2>2, <3>1 DEF BoardTyped, ReceiptsTyped, SendReplays
    <2> QED BY <2>1, <2>2 DEF SendReplays
  <1> QED BY <1>2, <1>3, Frame DEF BoardTyped, SendReplays, storeVars, terminalVars,
                                   historyVars

\* the steps that only end the loop's wait
LEMMA SendEndsTyped ==
  ASSUME BoardTyped, NEW v \in Conversations,
         SendRefused(v) \/ WaitObserves(v) \/ WaitGivesUp(v)
  PROVE  BoardTyped'
  <1>1. v \in Targets /\ loop[v].claim \in Claims
    BY TargetKinds, WorkingClaim
    DEF BoardTyped, SendRefused, WaitObserves, WaitGivesUp, Working, LoopSteps
  <1>2. LoopTyped'
    BY <1>1, EndsTyped, DeliveryOutcomeType
    DEF BoardTyped, SendRefused, WaitObserves, WaitGivesUp, Outcomes
  <1> QED BY <1>2, Frame DEF BoardTyped, SendRefused, WaitObserves, WaitGivesUp,
                             storeVars, receiverVars, historyVars

LEMMA SendFailsTyped ==
  ASSUME BoardTyped, NEW v \in Conversations, SendFails(v)
  PROVE  BoardTyped'
  <1>1. v \in Targets /\ loop[v].claim \in Claims
    BY TargetKinds, WorkingClaim DEF BoardTyped, SendFails, Working, LoopSteps
  <1>2. LoopTyped'
    BY <1>1, EndsTyped DEF BoardTyped, SendFails, Outcomes
  <1> QED BY <1>2, FaultTyped, Frame DEF BoardTyped, SendFails, storeVars, receiverVars,
                                         historyVars

LEMMA UserSendsTyped ==
  ASSUME BoardTyped, NEW v \in Conversations, UserSends(v)
  PROVE  ReceiptsTyped'
  BY DEF BoardTyped, ReceiptsTyped, UserSends

LEMMA TurnStartsTyped ==
  ASSUME BoardTyped, NEW v \in Conversations, TurnStarts(v)
  PROVE  ReceiptsTyped' /\ RunsTyped'
  BY DEF BoardTyped, ReceiptsTyped, RunsTyped, TurnStarts

LEMMA TurnEndsTyped ==
  ASSUME BoardTyped, NEW v \in Conversations, NEW result \in {"ok", "error"},
         TurnEnds(v, result)
  PROVE  ReceiptsTyped'
  <1>1. receipt' \in [Claims -> Receipts]
    BY CompletedFacts DEF BoardTyped, TurnEnds
  <1> QED BY <1>1 DEF BoardTyped, ReceiptsTyped, TurnEnds

LEMMA AgentDeclaresTyped ==
  ASSUME BoardTyped, NEW v \in Conversations, AgentDeclares(v)
  PROVE  RowsTyped' /\ Quiet(requirement')
  <1>1. PICK s \in {"done", "failed"} : requirement' = WithVerdict(conv[v], v, s)
    BY DEF AgentDeclares
  <1>2. Quiet(requirement')
    BY <1>1, WithVerdictQuiet DEF BoardTyped, AgentDeclares, Verdicts
  <1> QED BY <1>2, QuietTyped


-----------------------------------------------------------------------------
(* Terminals.                                                              *)

LEMMA TerminalClaim ==
  ASSUME BoardTyped, NEW x \in Terminals, loop[x].pc \in Working
  PROVE  x \in Targets /\ loop[x].claim \in Claims
  BY TargetKinds, WorkingClaim DEF BoardTyped

LEMMA TerminalScopesTyped ==
  ASSUME BoardTyped, NEW x \in Terminals, TerminalScopes(x)
  PROVE  BoardTyped'
  <1>1. x \in Targets /\ loop[x].claim \in Claims
    BY TerminalClaim DEF TerminalScopes, Working, LoopSteps
  <1>2. LoopTyped'
    <2>1. CASE loop' = [loop EXCEPT ![x].pc = "scoped", ![x].epoch = term[x].pty]
      <3> DEFINE new == [loop[x] EXCEPT !.pc = "scoped", !.epoch = term[x].pty]
      <3>1. loop[x] \in Loops /\ term[x].pty \in 0 .. MaxEpochs
        BY <1>1 DEF BoardTyped, LoopTyped, TermsTyped, Sessions
      <3>2. new \in Loops /\ new.claim = loop[x].claim
        BY <3>1 DEF Loops, LoopSteps
      <3>3. loop' = [loop EXCEPT ![x] = new]
        BY <2>1, <1>1 DEF BoardTyped, LoopTyped
      <3> HIDE DEF new
      <3> QED BY <1>1, <3>2, <3>3, LoopOne DEF BoardTyped
    <2>2. CASE Ends(x, IF loop[x].recovered THEN "needs_review" ELSE "errored")
      BY <1>1, <2>2, EndsTyped DEF BoardTyped, Outcomes, Verdicts
    <2> QED BY <2>1, <2>2 DEF TerminalScopes
  <1> QED BY <1>2, Frame DEF BoardTyped, TerminalScopes, storeVars, receiverVars,
                             historyVars

LEMMA TerminalAdmitsTyped ==
  ASSUME BoardTyped, NEW x \in Terminals, TerminalAdmits(x)
  PROVE  BoardTyped'
  <1>1. x \in Targets /\ loop[x].claim \in Claims /\ loop[x].epoch \in 0 .. MaxEpochs
    BY TerminalClaim, LoopFields DEF BoardTyped, TerminalAdmits, Working, LoopSteps
  <1>2. LoopTyped'
    BY <1>1, GotoTyped DEF BoardTyped, TerminalAdmits, LoopSteps
  <1> DEFINE a == [phase |-> "admitted", terminal |-> x, epoch |-> loop[x].epoch,
                   outcome |-> None]
  <1>3. a \in Admissions /\ a.phase = "admitted"
    BY <1>1 DEF Admissions, Phases
  <1>4. admission' = [admission EXCEPT ![loop[x].claim] = a]
    BY DEF TerminalAdmits
  <1> HIDE DEF a
  <1>5. AdmissionsTyped'
    BY <1>1, <1>3, <1>4 DEF BoardTyped, AdmissionsTyped
  <1> QED BY <1>2, <1>5, Frame DEF BoardTyped, TerminalAdmits, storeVars,
                                   conversationVars, historyVars

LEMMA TerminalReplaysTyped ==
  ASSUME BoardTyped, NEW x \in Terminals, TerminalReplays(x)
  PROVE  BoardTyped'
  <1> DEFINE c == loop[x].claim
  <1>1. x \in Targets /\ c \in Claims
    BY TerminalClaim DEF TerminalReplays, Working, LoopSteps
  <1>2. admission[c] \in Admissions
    BY <1>1 DEF BoardTyped, AdmissionsTyped
  <1>3. LoopTyped'
    <2>1. CASE Ends(x, "needs_review")
      BY <1>1, <2>1, EndsTyped DEF BoardTyped, Outcomes, Verdicts
    <2>2. CASE Ends(x, admission[c].outcome)
      BY <1>1, <1>2, <2>2, EndsTyped DEF BoardTyped, Outcomes, Admissions
    <2>3. CASE loop' = [loop EXCEPT ![x].pc = "parking", ![x].epoch = admission[c].epoch]
      <3> DEFINE e == admission[c].epoch
                 new == [loop[x] EXCEPT !.pc = "parking", !.epoch = e]
      <3>1. loop[x] \in Loops /\ e \in 0 .. MaxEpochs
        BY <1>1, <1>2 DEF BoardTyped, LoopTyped, Admissions
      <3>2. loop' = [loop EXCEPT ![x] = new]
        BY <2>3, <1>1 DEF BoardTyped, LoopTyped
      <3> HIDE DEF e
      <3>3. new \in Loops /\ new.claim = loop[x].claim
        BY <3>1 DEF Loops, LoopSteps
      <3> HIDE DEF new
      <3> QED BY <1>1, <3>2, <3>3, LoopOne DEF BoardTyped
    <2> QED BY <2>1, <2>2, <2>3 DEF TerminalReplays
  <1> QED BY <1>3, Frame DEF BoardTyped, TerminalReplays, storeVars, receiverVars,
                             historyVars

\* an admission moves to an open phase
LEMMA PhaseTyped ==
  ASSUME AdmissionsTyped, NEW c \in Claims, NEW p \in {"body_written", "effects_started"},
         admission' = [admission EXCEPT ![c].phase = p]
  PROVE  AdmissionsTyped'
  <1>1. admission[c] \in Admissions
    BY DEF AdmissionsTyped
  <1>2. [admission[c] EXCEPT !.phase = p] \in Admissions
        /\ [admission[c] EXCEPT !.phase = p].phase = p
    BY <1>1 DEF Admissions, Phases
  <1> QED BY <1>2 DEF AdmissionsTyped

LEMMA LeftFaultsTyped ==
  ASSUME LeftTyped, NEW deaf \in BOOLEAN, deaf \/ left.faults > 0,
         left' = [left EXCEPT !.faults = IF deaf THEN @ ELSE @ - 1]
  PROVE  LeftTyped'
  BY AutoWorkAssumption DEF LeftTyped

LEMMA TerminalTypesTyped ==
  ASSUME BoardTyped, NEW x \in Terminals, TerminalTypes(x)
  PROVE  BoardTyped'
  <1> DEFINE c == loop[x].claim
  <1>1. x \in Targets /\ c \in Claims
    BY TerminalClaim DEF TerminalTypes, Working, LoopSteps
  <1>2. AdmissionsTyped'
    BY <1>1, PhaseTyped DEF BoardTyped, TerminalTypes
  <1>3. CASE /\ term' = [term EXCEPT ![x].line = @ \cup {c}]
             /\ Goto(x, "typed") /\ UNCHANGED left
    <2>1. LoopTyped'
      BY <1>1, <1>3, GotoTyped DEF BoardTyped, LoopSteps
    <2>2. TermsTyped'
      BY <1>1, <1>3 DEF BoardTyped, TermsTyped, Sessions, TerminalTypes
    <2> QED BY <1>2, <1>3, <2>1, <2>2, Frame
            DEF BoardTyped, TerminalTypes, storeVars, conversationVars, historyVars
  <1>4. CASE /\ term[x].deaf \/ left.faults > 0
             /\ left' = [left EXCEPT !.faults = IF term[x].deaf THEN @ ELSE @ - 1]
             /\ Goto(x, "parking") /\ UNCHANGED term
    <2>1. LoopTyped'
      BY <1>1, <1>4, GotoTyped DEF BoardTyped, LoopSteps
    <2>2. term[x].deaf \in BOOLEAN
      BY DEF BoardTyped, TermsTyped, Sessions
    <2>3. LeftTyped'
      BY <1>4, <2>2, LeftFaultsTyped DEF BoardTyped
    <2> QED BY <1>2, <1>4, <2>1, <2>3, Frame
            DEF BoardTyped, TerminalTypes, storeVars, conversationVars, historyVars
  <1> QED BY <1>3, <1>4 DEF TerminalTypes

LEMMA TerminalSubmitsTyped ==
  ASSUME BoardTyped, NEW x \in Terminals, TerminalSubmits(x)
  PROVE  BoardTyped'
  <1> DEFINE c == loop[x].claim
  <1>1. x \in Targets /\ c \in Claims
    BY TerminalClaim DEF TerminalSubmits, Working, LoopSteps
  <1>2. AdmissionsTyped'
    BY <1>1, PhaseTyped DEF BoardTyped, TerminalSubmits
  <1>3. CASE /\ term' = [term EXCEPT ![x].line = {}, ![x].given = @ \cup term[x].line]
             /\ runs' = runs \cup term[x].line
             /\ Goto(x, "waiting") /\ UNCHANGED left
    <2>1. LoopTyped'
      BY <1>1, <1>3, GotoTyped DEF BoardTyped, LoopSteps
    <2>2. term[x] \in Sessions /\ term[x].line \subseteq Claims
          /\ term[x].given \subseteq Claims
      BY DEF BoardTyped, TermsTyped, Sessions
    <2>3. [term[x] EXCEPT !.line = {}, !.given = @ \cup term[x].line] \in Sessions
      BY <2>2 DEF Sessions
    <2>4. TermsTyped' /\ RunsTyped'
      BY <1>3, <2>2, <2>3 DEF BoardTyped, TermsTyped, RunsTyped, TerminalSubmits
    <2> QED BY <1>2, <1>3, <2>1, <2>4, Frame
            DEF BoardTyped, TerminalSubmits, storeVars, conversationVars, historyVars
  <1>4. CASE /\ term[x].deaf \/ left.faults > 0
             /\ left' = [left EXCEPT !.faults = IF term[x].deaf THEN @ ELSE @ - 1]
             /\ Goto(x, "parking") /\ UNCHANGED <<term, runs>>
    <2>1. LoopTyped'
      BY <1>1, <1>4, GotoTyped DEF BoardTyped, LoopSteps
    <2>2. term[x].deaf \in BOOLEAN
      BY DEF BoardTyped, TermsTyped, Sessions
    <2>3. LeftTyped'
      BY <1>4, <2>2, LeftFaultsTyped DEF BoardTyped
    <2> QED BY <1>2, <1>4, <2>1, <2>3, Frame
            DEF BoardTyped, TerminalSubmits, storeVars, conversationVars, historyVars
  <1> QED BY <1>3, <1>4 DEF TerminalSubmits

LEMMA TerminalWriteRefusedTyped ==
  ASSUME BoardTyped, NEW x \in Terminals, TerminalWriteRefused(x)
  PROVE  BoardTyped'
  <1>1. x \in Targets /\ loop[x].claim \in Claims
    BY TerminalClaim DEF TerminalWriteRefused, Working, LoopSteps
  <1>2. LoopTyped'
    BY <1>1, GotoTyped DEF BoardTyped, TerminalWriteRefused, LoopSteps
  <1>3. AdmissionsTyped'
    <2>1. admission' = admission \/ admission' = ParkedAdmissions({loop[x].claim})
      BY DEF TerminalWriteRefused
    <2> QED BY <2>1, ParkedAdmissionsTyped, Frame DEF BoardTyped
  <1> QED BY <1>2, <1>3, Frame DEF BoardTyped, TerminalWriteRefused, storeVars,
                                   conversationVars, historyVars

LEMMA TerminalTurnEndsTyped ==
  ASSUME BoardTyped, NEW x \in Terminals, TerminalTurnEnds(x)
  PROVE  BoardTyped' /\ Quiet(requirement')
  <1>1. x \in Targets /\ loop[x].claim \in Claims
    BY TerminalClaim DEF TerminalTurnEnds, Working, LoopSteps
  <1>2. CASE requirement[loop[x].claim.req].status \in Verdicts
    <2>1. PICK cs : Park(cs)
      BY <1>2 DEF TerminalTurnEnds
    <2>2. LoopTyped'
      BY <1>1, <1>2, EndsTyped DEF BoardTyped, TerminalTurnEnds, Outcomes
    <2> QED BY <2>1, <2>2, ParkTyped, Frame DEF BoardTyped, TerminalTurnEnds,
                                               conversationVars, historyVars
  <1>3. CASE requirement[loop[x].claim.req].status \notin Verdicts
    <2>1. LoopTyped'
      BY <1>1, <1>3, GotoTyped DEF BoardTyped, TerminalTurnEnds, LoopSteps
    <2> QED BY <1>3, <2>1, QuietSame, Frame DEF BoardTyped, TerminalTurnEnds,
                                               conversationVars, historyVars
  <1> QED BY <1>2, <1>3

LEMMA TerminalParksTyped ==
  ASSUME BoardTyped, NEW x \in Terminals, TerminalParks(x)
  PROVE  BoardTyped' /\ Quiet(requirement')
  <1> DEFINE c == loop[x].claim
  <1>1. x \in Targets /\ c \in Claims
    BY TerminalClaim DEF TerminalParks, Working, LoopSteps
  <1>2. RowsTyped' /\ AdmissionsTyped' /\ Quiet(requirement')
    BY ParkTyped DEF BoardTyped, TerminalParks
  <1> DEFINE out == IF admission'[c].phase = "settled" THEN admission'[c].outcome
                    ELSE "needs_review"
  <1>3. out \in Outcomes \cup {None} /\ Ends(x, out)
    BY <1>1, <1>2 DEF AdmissionsTyped, TerminalParks, Outcomes, Verdicts
  <1> HIDE DEF out
  <1>4. LoopTyped'
    BY <1>1, <1>3, EndsTyped DEF BoardTyped
  <1> QED BY <1>2, <1>4, Frame DEF BoardTyped, TerminalParks, conversationVars, historyVars

LEMMA DeadFacts ==
  ASSUME NEW s \in Sessions, NEW status \in {"running", "exited", "gone"}
  PROVE  /\ Dead(s, status) \in Sessions
         /\ Dead(s, status).line = {} /\ Dead(s, status).given = {}
  <1> DEFINE e == 0
             d == FALSE
             l == {}
             new == [s EXCEPT !.status = status, !.pty = e, !.deaf = d, !.line = l,
                              !.given = l]
  <1>1. e \in 0 .. MaxEpochs /\ d \in BOOLEAN /\ l \in SUBSET Claims
    BY ReceiversAssumption
  <1>2. Dead(s, status) = new
    BY DEF Dead
  <1> HIDE DEF e, d, l
  <1>3. new \in Sessions /\ new.line = l /\ new.given = l
    BY <1>1 DEF Sessions
  <1> HIDE DEF new
  <1> QED BY <1>2, <1>3 DEF l

LEMMA PtyExitsTyped ==
  ASSUME BoardTyped, NEW x \in Terminals, PtyExits(x)
  PROVE  RowsTyped' /\ AdmissionsTyped' /\ TermsTyped' /\ Quiet(requirement')
  <1>1. Dead(term[x], "exited") \in Sessions
    BY DeadFacts DEF BoardTyped, TermsTyped
  <1>2. TermsTyped'
    BY <1>1 DEF BoardTyped, TermsTyped, PtyExits
  <1> QED BY <1>2, ParkTyped DEF BoardTyped, PtyExits

LEMMA KillTyped ==
  ASSUME BoardTyped, NEW x \in Terminals, Kill(x)
  PROVE  RowsTyped' /\ AdmissionsTyped' /\ TermsTyped' /\ Quiet(requirement')
  <1>1. term[x] \in Sessions
    BY DEF BoardTyped, TermsTyped
  <1>2. [term[x] EXCEPT !.deaf = TRUE, !.line = {}, !.given = {}] \in Sessions
    BY <1>1 DEF Sessions
  <1>3. TermsTyped'
    BY <1>2 DEF BoardTyped, TermsTyped, Kill
  <1> QED BY <1>3, ParkTyped DEF BoardTyped, Kill

LEMMA RelaunchTyped ==
  ASSUME BoardTyped, NEW x \in Terminals, NEW spawned \in BOOLEAN, Relaunch(x, spawned)
  PROVE  RowsTyped' /\ AdmissionsTyped' /\ TermsTyped' /\ Quiet(requirement')
  <1>1. epochs + 1 \in 0 .. MaxEpochs
    BY ReceiversAssumption DEF BoardTyped, TermsTyped, Relaunch
  <1> DEFINE e == epochs + 1
             new == IF spawned THEN [Dead(term[x], "running") EXCEPT !.pty = e]
                    ELSE Dead(term[x], "exited")
  <1>2. Dead(term[x], "exited") \in Sessions /\ Dead(term[x], "running") \in Sessions
    BY DeadFacts DEF BoardTyped, TermsTyped
  <1>3. e \in 0 .. MaxEpochs /\ epochs' = e /\ term' = [term EXCEPT ![x] = new]
    BY <1>1 DEF Relaunch
  <1> HIDE DEF e
  <1>4. new \in Sessions
    BY <1>2, <1>3 DEF Sessions
  <1> HIDE DEF new
  <1>5. TermsTyped'
    BY <1>3, <1>4 DEF BoardTyped, TermsTyped
  <1> QED BY <1>5, ParkTyped DEF BoardTyped, Relaunch

LEMMA CliDeclaresTyped ==
  ASSUME BoardTyped, NEW x \in Terminals, CliDeclares(x)
  PROVE  RowsTyped' /\ Quiet(requirement')
  <1>1. PICK c \in term[x].given, s \in {"done", "failed"} :
          requirement' = WithVerdict(c, x, s)
    BY DEF CliDeclares
  <1>2. c \in Claims
    BY DEF BoardTyped, TermsTyped, Sessions
  <1>3. Quiet(requirement')
    BY <1>1, <1>2, WithVerdictQuiet DEF BoardTyped, Verdicts
  <1> QED BY <1>3, QuietTyped

-----------------------------------------------------------------------------
(* Type correctness of settling, custody and the sweeper.                  *)

LEMMA SettlesTyped ==
  ASSUME BoardTyped, NEW t \in Targets, Settles(t)
  PROVE  BoardTyped' /\ Quiet(requirement')
  <1>1. loop[t].claim \in Claims
    BY WorkingClaim DEF BoardTyped, Settles, Working, LoopSteps
  <1>2. Quiet(requirement')
    BY <1>1, SettleRowsQuiet DEF BoardTyped, Settles
  <1>3. LoopTyped'
    BY <1>1, GotoTyped DEF BoardTyped, Settles, LoopSteps
  <1> QED BY <1>2, <1>3, QuietTyped, Frame DEF BoardTyped, Settles, receiverVars,
                                               historyVars

LEMMA PausesTyped ==
  ASSUME BoardTyped, NEW t \in Targets, Pauses(t)
  PROVE  BoardTyped'
  <1>1. LoopTyped'
    BY GotoTyped, WorkingClaim DEF BoardTyped, Pauses, LoopSteps, Working
  <1>2. PausedTyped'
    BY DEF BoardTyped, PausedTyped, Pauses
  <1> QED BY <1>1, <1>2, Frame DEF BoardTyped, Pauses, receiverVars, historyVars

LEMMA InterruptsTyped ==
  ASSUME BoardTyped, NEW t \in Targets, Interrupts(t)
  PROVE  BoardTyped'
  <1>1. loop[t].claim \in Claims /\ loop[t].claim.req \in Requirements
    BY WorkingClaim, ClaimReq DEF BoardTyped, Interrupts, Working, LoopSteps
  <1>2. LoopTyped'
    BY <1>1, GotoTyped DEF BoardTyped, Interrupts, LoopSteps
  <1>3. PausedTyped'
    BY DEF BoardTyped, PausedTyped, Interrupts
  <1>4. HistoryTyped'
    BY <1>1 DEF BoardTyped, HistoryTyped, Interrupts
  <1> QED BY <1>2, <1>3, <1>4, Frame DEF BoardTyped, Interrupts, receiverVars

LEMMA ReleasesTyped ==
  ASSUME BoardTyped, NEW t \in Targets, Releases(t)
  PROVE  BoardTyped' /\ Quiet(requirement')
  <1>1. loop[t].claim \in Claims
    BY WorkingClaim DEF BoardTyped, Releases, Working, LoopSteps
  <1>2. Quiet(requirement')
    BY <1>1, AbandonedQuiet DEF BoardTyped, Releases
  <1>3. LoopTyped'
    BY <1>1, GotoTyped DEF BoardTyped, Releases, LoopSteps
  <1> QED BY <1>2, <1>3, QuietTyped, Frame DEF BoardTyped, Releases, receiverVars,
                                               historyVars

LEMMA LoopReturnsTyped ==
  ASSUME BoardTyped, NEW t \in Targets, LoopReturns(t)
  PROVE  BoardTyped'
  <1>1. LoopTyped'
    BY ResetTyped, LoopFields DEF BoardTyped, LoopReturns, LoopSteps, Working
  <1> QED BY <1>1, Frame DEF BoardTyped, LoopReturns, storeVars, receiverVars, historyVars

LEMMA LoopReachesCapTyped ==
  ASSUME BoardTyped, NEW t \in Targets, LoopReachesCap(t)
  PROVE  BoardTyped'
  <1>1. LoopTyped'
    BY ResetTyped, LoopFields DEF BoardTyped, LoopReachesCap, LoopSteps, Working
  <1>2. BindingsTyped'
    BY DEF BoardTyped, BindingsTyped, LoopReachesCap
  <1> QED BY <1>1, <1>2, Frame DEF BoardTyped, LoopReachesCap, storeVars, receiverVars,
                                   historyVars

LEMMA LoopDiesTyped ==
  ASSUME BoardTyped, NEW t \in Targets, LoopDies(t)
  PROVE  BoardTyped'
  <1>1. LoopTyped'
    BY ResetTyped, LoopFields DEF BoardTyped, LoopDies, LoopSteps, Working
  <1> QED BY <1>1, FaultTyped, Frame DEF BoardTyped, LoopDies, storeVars, receiverVars,
                                         historyVars

LEMMA CustodyRecoversTyped ==
  ASSUME BoardTyped, NEW t \in Targets, CustodyRecovers(t)
  PROVE  BoardTyped' /\ Quiet(requirement')
  <1>1. CASE /\ loop' = [loop EXCEPT ![t] = LoopAt("off", None)]
             /\ UNCHANGED <<requirement, admission>>
    <2>1. LoopTyped'
      BY <1>1, ResetTyped DEF BoardTyped, LoopSteps, Working
    <2> QED BY <1>1, <2>1, QuietSame, Frame DEF BoardTyped, CustodyRecovers,
                                               conversationVars, historyVars
  <1>2. CASE \E r \in Active(loop[t].tag, t) :
               /\ loop' = [loop EXCEPT ![t].pc = "closing",
                             ![t].claim = [req |-> r, gen |-> requirement[r].gen]]
               /\ IF t \in Terminals THEN Park(OpenAt(t, 0..MaxEpochs))
                  ELSE UNCHANGED <<requirement, admission>>
    <2>1. PICK r \in Active(loop[t].tag, t) :
               /\ loop' = [loop EXCEPT ![t].pc = "closing",
                             ![t].claim = [req |-> r, gen |-> requirement[r].gen]]
               /\ IF t \in Terminals THEN Park(OpenAt(t, 0..MaxEpochs))
                  ELSE UNCHANGED <<requirement, admission>>
      BY <1>2
    <2> DEFINE c == [req |-> r, gen |-> requirement[r].gen]
    <2>2. c \in Claims
      BY ActiveClaim DEF BoardTyped
    <2>3. loop' = [loop EXCEPT ![t].pc = "closing", ![t].claim = c]
      BY <2>1
    <2> HIDE DEF c
    <2> DEFINE new == [loop[t] EXCEPT !.pc = "closing", !.claim = c]
    <2>4. loop[t] \in Loops
      BY DEF BoardTyped, LoopTyped
    <2>5. new \in Loops /\ new.claim = c
      BY <2>2, <2>4 DEF Loops, LoopSteps
    <2>6. loop' = [loop EXCEPT ![t] = new]
      BY <2>3 DEF BoardTyped, LoopTyped
    <2> HIDE DEF new
    <2>7. LoopTyped'
      BY <2>2, <2>5, <2>6, LoopOne DEF BoardTyped
    <2>8. RowsTyped' /\ AdmissionsTyped' /\ Quiet(requirement')
      <3>1. CASE Park(OpenAt(t, 0..MaxEpochs))
        BY <3>1, ParkTyped DEF BoardTyped
      <3>2. CASE UNCHANGED <<requirement, admission>>
        BY <3>2, QuietSame, Frame DEF BoardTyped
      <3> QED BY <2>1, <3>1, <3>2
    <2> QED BY <2>7, <2>8, Frame DEF BoardTyped, CustodyRecovers, conversationVars,
                                     historyVars
  <1> QED BY <1>1, <1>2 DEF CustodyRecovers

LEMMA CustodyClosesTyped ==
  ASSUME BoardTyped, NEW t \in Targets, CustodyCloses(t)
  PROVE  BoardTyped' /\ Quiet(requirement')
  <1>1. loop[t].claim \in Claims
    BY WorkingClaim DEF BoardTyped, CustodyCloses, Working, LoopSteps
  <1>2. Quiet(requirement')
    BY <1>1, ClosedRowsQuiet DEF BoardTyped, CustodyCloses
  <1>3. LoopTyped'
    BY ResetTyped DEF BoardTyped, CustodyCloses, LoopSteps, Working
  <1> QED BY <1>2, <1>3, QuietTyped, Frame DEF BoardTyped, CustodyCloses, receiverVars,
                                               historyVars

LEMMA SweepTyped ==
  ASSUME BoardTyped, NEW r \in Requirements, Sweep(r)
  PROVE  BoardTyped' /\ Quiet(requirement')
  <1>1. Quiet(requirement')
    BY QuietOne, ResolvedMoves DEF BoardTyped, Sweep, Verdicts
  <1> QED BY <1>1, QuietTyped, Frame DEF BoardTyped, Sweep, receiverVars, loopVars,
                                         historyVars

-----------------------------------------------------------------------------
(* Type correctness of the requests and of the commands.                   *)

\* the request of one thread changes
LEMMA HandlerOne ==
  ASSUME HandlersTyped, NEW h \in Threads, NEW new \in Requests,
         new.step # "none" => new.target \in Targets,
         handler' = [handler EXCEPT ![h] = new]
  PROVE  HandlersTyped'
  BY DEF HandlersTyped

LEMMA HandlerStepTyped ==
  ASSUME HandlersTyped, NEW h \in Threads,
         NEW s \in {"none", "resume", "stop", "park", "resolve", "start"},
         handler[h].step # "none", handler' = [handler EXCEPT ![h].step = s]
  PROVE  HandlersTyped'
  BY DEF HandlersTyped, Requests

LEMMA HandlerFields ==
  ASSUME HandlersTyped, NEW h \in Threads
  PROVE  /\ handler[h].target \in Targets \cup {None} /\ handler[h].tag \in Tags \cup {None}
         /\ handler[h].claim \in Claims \cup {None}
         /\ handler[h].step \in {"none", "resume", "stop", "park", "resolve", "start"}
         /\ handler[h].step # "none" => handler[h].target \in Targets
  BY DEF HandlersTyped, Requests

LEMMA NoRequestType == NoRequest \in Requests
  BY DEF NoRequest, Requests

LEMMA SetAutoworkTyped ==
  ASSUME BoardTyped, NEW h \in Handlers, NEW t \in Targets, NEW tag \in Tags \cup {None},
         SetAutowork(h, t, tag)
  PROVE  BoardTyped'
  <1>1. h \in Threads
    BY DEF Threads
  <1> DEFINE s == IF tag = None THEN "stop" ELSE "resume"
             new == [step |-> s, target |-> t, tag |-> tag, claim |-> None]
  <1>2. new \in Requests /\ new.target = t
    BY DEF Requests
  <1>3. handler' = [handler EXCEPT ![h] = new]
    BY DEF SetAutowork
  <1> HIDE DEF new
  <1>4. HandlersTyped'
    BY <1>1, <1>2, <1>3, HandlerOne DEF BoardTyped
  <1>5. BindingsTyped'
    BY DEF BoardTyped, BindingsTyped, SetAutowork
  <1>6. LeftTyped'
    BY CommandTyped DEF BoardTyped, SetAutowork
  <1> QED BY <1>4, <1>5, <1>6, Frame DEF BoardTyped, SetAutowork, storeVars, receiverVars,
                                         historyVars

LEMMA RequeuedAtFacts ==
  ASSUME RowsTyped, HistoryTyped, NEW rs
  PROVE  /\ RequeuedAt(rs) \in [Requirements -> 0 .. MaxClaims]
         /\ \A r \in Requirements :
              RequeuedAt(rs)[r] = IF r \in rs THEN requirement[r].gen ELSE requeuedAt[r]
  BY DEF RowsTyped, HistoryTyped, RequeuedAt, Rows

\* f is a value of requirement' whose rows are well formed
GoodRows(f) == f \in [Requirements -> Rows] /\ \A r \in Requirements : GoodRow(f[r])

LEMMA GoodRowsTyped == ASSUME GoodRows(requirement') PROVE RowsTyped'
  BY DEF GoodRows, RowsTyped

LEMMA ResumedRows ==
  ASSUME RowsTyped, NEW rows
  PROVE  LET f == [r \in Requirements |-> IF r \in rows THEN ResumedForEnable(requirement[r])
                                          ELSE requirement[r]]
         IN GoodRows(f)
  <1> DEFINE Row(r) == IF r \in rows THEN ResumedForEnable(requirement[r]) ELSE requirement[r]
  <1>1. \A r \in Requirements : GoodRow(Row(r)) /\ Row(r) \in Rows
    BY ResumedFacts DEF RowsTyped, GoodRow
  <1> HIDE DEF Row
  <1>2. GoodRows([r \in Requirements |-> Row(r)])
    BY <1>1 DEF GoodRows
  <1> QED BY <1>2 DEF Row

LEMMA RequeuedRows ==
  ASSUME RowsTyped, NEW rs
  PROVE  LET f == [r \in Requirements |-> IF r \in rs THEN Requeued(requirement[r], TRUE)
                                          ELSE requirement[r]]
         IN GoodRows(f)
  <1> DEFINE Row(r) == IF r \in rs THEN Requeued(requirement[r], TRUE) ELSE requirement[r]
  <1>1. \A r \in Requirements : GoodRow(Row(r)) /\ Row(r) \in Rows
    BY RequeuedFacts DEF RowsTyped, GoodRow
  <1> HIDE DEF Row
  <1>2. GoodRows([r \in Requirements |-> Row(r)])
    BY <1>1 DEF GoodRows
  <1> QED BY <1>2 DEF Row

LEMMA GoodRowsOne ==
  ASSUME RowsTyped, NEW r \in Requirements, NEW row, GoodRow(row)
  PROVE  GoodRows([requirement EXCEPT ![r] = row])
  BY DEF RowsTyped, GoodRows, GoodRow

LEMMA HandlerResumesTyped ==
  ASSUME BoardTyped, NEW h \in Threads, HandlerResumes(h)
  PROVE  BoardTyped'
  <1> DEFINE tag == handler[h].tag
             rows == {r \in Requirements : requirement[r].tag = tag}
  <1>1. HandlersTyped'
    BY HandlerStepTyped DEF BoardTyped, HandlerResumes
  <1>2. RowsTyped' /\ PausedTyped' /\ HistoryTyped'
    <2>1. CASE paused[tag]
      <3>1. RowsTyped'
        BY <2>1, ResumedRows, GoodRowsTyped DEF BoardTyped, HandlerResumes
      <3>2. PausedTyped'
        BY <2>1 DEF BoardTyped, PausedTyped, HandlerResumes
      <3>3. HistoryTyped'
        <4>1. requeuedAt' = RequeuedAt({r \in rows : requirement[r].status = "failed"})
              /\ stopped' = stopped \ rows
          BY <2>1 DEF HandlerResumes
        <4> HIDE DEF rows
        <4> QED BY <4>1, RequeuedAtFacts DEF BoardTyped, HistoryTyped
      <3> QED BY <3>1, <3>2, <3>3
    <2>2. CASE ~paused[tag]
      BY <2>2, Frame DEF BoardTyped, HandlerResumes, storeVars, historyVars
    <2> QED BY <2>1, <2>2
  <1> QED BY <1>1, <1>2, Frame DEF BoardTyped, HandlerResumes, receiverVars

LEMMA StoppedClaimType ==
  ASSUME RowsTyped, LoopTyped, NEW t \in Targets
  PROVE  StoppedClaim(t) \in Claims \cup {None}
  <1>1. CASE Active(loop[t].tag, t) # {}
    <2> DEFINE r == CHOOSE r \in Active(loop[t].tag, t) : TRUE
    <2>1. r \in Active(loop[t].tag, t)
      BY <1>1
    <2>2. StoppedClaim(t) = [req |-> r, gen |-> requirement[r].gen]
      BY <1>1 DEF StoppedClaim
    <2> HIDE DEF r
    <2> QED BY <2>1, <2>2, ActiveClaim
  <1>2. CASE Active(loop[t].tag, t) = {}
    BY <1>2, LoopFields DEF StoppedClaim
  <1> QED BY <1>1, <1>2

LEMMA HandlerStopsTyped ==
  ASSUME BoardTyped, NEW h \in Threads, HandlerStops(h)
  PROVE  BoardTyped'
  <1> DEFINE t == handler[h].target
             s == CASE loop[t].pc = "off" -> "start"
                    [] t \in Terminals    -> "park"
                    [] OTHER              -> "resolve"
             c == IF loop[t].pc = "off" THEN None ELSE StoppedClaim(t)
             new == [handler[h] EXCEPT !.step = s, !.claim = c]
  <1>1. t \in Targets /\ handler[h] \in Requests
    BY HandlerFields DEF BoardTyped, HandlersTyped, HandlerStops
  <1>2. c \in Claims \cup {None}
    BY <1>1, StoppedClaimType DEF BoardTyped
  <1>3. s \in {"start", "park", "resolve"}
    OBVIOUS
  <1>4. /\ handler' = [handler EXCEPT ![h].step = s, ![h].claim = c]
        /\ loop' = [loop EXCEPT ![t] = LoopAt("off", None)]
    BY DEF HandlerStops
  <1> HIDE DEF s, c
  <1>5. handler' = [handler EXCEPT ![h] = new]
    BY <1>4 DEF BoardTyped, HandlersTyped
  <1>6. new \in Requests /\ new.target = t
    BY <1>1, <1>2, <1>3 DEF Requests
  <1> HIDE DEF new, t
  <1>7. HandlersTyped'
    BY <1>1, <1>5, <1>6, HandlerOne DEF BoardTyped
  <1>8. LoopTyped'
    BY <1>1, <1>4, ResetTyped DEF BoardTyped, LoopSteps, Working
  <1> QED BY <1>7, <1>8, Frame DEF BoardTyped, HandlerStops, storeVars, receiverVars,
                                   historyVars

LEMMA HandlerParksTyped ==
  ASSUME BoardTyped, NEW h \in Threads, HandlerParks(h)
  PROVE  BoardTyped' /\ Quiet(requirement')
  <1>1. HandlersTyped'
    BY HandlerStepTyped DEF BoardTyped, HandlerParks
  <1>2. RowsTyped' /\ AdmissionsTyped' /\ Quiet(requirement')
    BY ParkTyped DEF BoardTyped, HandlerParks
  <1> QED BY <1>1, <1>2, Frame DEF BoardTyped, HandlerParks, conversationVars, historyVars

LEMMA HandlerResolvesTyped ==
  ASSUME BoardTyped, NEW h \in Threads, HandlerResolves(h)
  PROVE  BoardTyped' /\ Quiet(requirement')
  <1>1. HandlersTyped'
    BY HandlerStepTyped DEF BoardTyped, HandlerResolves
  <1>2. Quiet(requirement')
    <2>1. CASE handler[h].claim = None
      BY <2>1, QuietSame DEF BoardTyped, HandlerResolves
    <2>2. CASE handler[h].claim # None
      BY <2>2, HandlerFields, ClosedRowsQuiet DEF BoardTyped, HandlerResolves
    <2> QED BY <2>1, <2>2
  <1> QED BY <1>1, <1>2, QuietTyped, Frame DEF BoardTyped, HandlerResolves, receiverVars,
                                               historyVars

LEMMA HandlerStartsTyped ==
  ASSUME BoardTyped, NEW h \in Threads, HandlerStarts(h)
  PROVE  BoardTyped'
  <1>1. NoRequest \in Requests /\ NoRequest.step = "none"
    BY NoRequestType DEF NoRequest
  <1>2. HandlersTyped'
    BY <1>1, HandlerOne DEF BoardTyped, HandlerStarts
  <1>3. handler[h].target \in Targets /\ handler[h].tag \in Tags \cup {None}
    BY HandlerFields DEF BoardTyped, HandlerStarts
  <1>4. LoopTyped'
    BY <1>3, ResetTyped, Frame DEF BoardTyped, HandlerStarts, LoopSteps, Working
  <1> QED BY <1>2, <1>4, Frame DEF BoardTyped, HandlerStarts, storeVars, receiverVars,
                                   historyVars

LEMMA ResumeBindingTyped ==
  ASSUME BoardTyped, NEW t \in Targets, ResumeBinding(t)
  PROVE  BoardTyped'
  <1> DEFINE new == [step |-> "stop", target |-> t, tag |-> boot[t], claim |-> None]
  <1>1. Boot \in Threads /\ boot[t] \in Tags \cup {None}
    BY DEF Threads, BoardTyped, BindingsTyped
  <1>2. new \in Requests /\ new.target = t
    BY <1>1 DEF Requests
  <1>3. handler' = handler \/ handler' = [handler EXCEPT ![Boot] = new]
    BY DEF ResumeBinding
  <1> HIDE DEF new
  <1>4. HandlersTyped'
    BY <1>1, <1>2, <1>3, HandlerOne, Frame DEF BoardTyped
  <1>5. BindingsTyped'
    BY DEF BoardTyped, BindingsTyped, ResumeBinding
  <1> QED BY <1>4, <1>5, Frame DEF BoardTyped, ResumeBinding, storeVars, receiverVars,
                                   historyVars

LEMMA RequeueTyped ==
  ASSUME BoardTyped, NEW r \in Requirements, Requeue(r)
  PROVE  BoardTyped'
  <1>1. GoodRow(Requeued(requirement[r], FALSE))
    BY RequeuedFacts DEF BoardTyped, RowsTyped
  <1>2. RowsTyped'
    BY <1>1, GoodRowsOne, GoodRowsTyped DEF BoardTyped, Requeue
  <1>3. HistoryTyped'
    BY RequeuedAtFacts DEF BoardTyped, HistoryTyped, Requeue
  <1>4. LeftTyped'
    BY CommandTyped DEF BoardTyped, Requeue
  <1> QED BY <1>2, <1>3, <1>4, Frame DEF BoardTyped, Requeue, receiverVars, loopVars

LEMMA SetStatusTyped ==
  ASSUME BoardTyped, NEW r \in Requirements, NEW status \in Verdicts, SetStatus(r, status)
  PROVE  BoardTyped' /\ Quiet(requirement')
  <1>1. Quiet(requirement')
    BY QuietOne, ResolvedMoves DEF BoardTyped, SetStatus
  <1>2. LeftTyped'
    BY CommandTyped DEF BoardTyped, SetStatus
  <1> QED BY <1>1, <1>2, QuietTyped, Frame DEF BoardTyped, SetStatus, receiverVars,
                                               loopVars, historyVars

LEMMA DeleteTyped ==
  ASSUME BoardTyped, NEW r \in Requirements, Delete(r)
  PROVE  BoardTyped' /\ Quiet(requirement')
  <1> DEFINE s == IF requirement[r].status = "in_progress" THEN "needs_review"
                  ELSE "deleted"
  <1>1. s \in Verdicts \cup {"deleted"}
    BY DEF Verdicts
  <1>2. requirement' = [requirement EXCEPT ![r] = Resolved(requirement[r], s)]
    BY DEF Delete
  <1> HIDE DEF s
  <1>3. Quiet(requirement')
    BY <1>1, <1>2, QuietOne, ResolvedMoves DEF BoardTyped
  <1>4. LeftTyped'
    BY CommandTyped DEF BoardTyped, Delete
  <1> QED BY <1>3, <1>4, QuietTyped, Frame DEF BoardTyped, Delete, receiverVars, loopVars,
                                               historyVars

LEMMA RetagTyped ==
  ASSUME BoardTyped, NEW r \in Requirements, NEW tag \in Tags, Retag(r, tag)
  PROVE  BoardTyped'
  <1> DEFINE row == [requirement[r] EXCEPT !.tag = tag]
  <1>1. GoodRow(row)
    BY DEF BoardTyped, RowsTyped, GoodRow, Rows
  <1>2. requirement' = [requirement EXCEPT ![r] = row]
    BY DEF BoardTyped, RowsTyped, Retag
  <1> HIDE DEF row
  <1>3. RowsTyped'
    BY <1>1, <1>2, GoodRowsOne, GoodRowsTyped DEF BoardTyped
  <1>4. LeftTyped' /\ HistoryTyped'
    BY CommandTyped DEF BoardTyped, HistoryTyped, Retag
  <1> QED BY <1>3, <1>4, Frame DEF BoardTyped, Retag, receiverVars, loopVars

LEMMA ResumeTagTyped ==
  ASSUME BoardTyped, NEW tag \in Tags, NEW rs \in SUBSET Requirements, ResumeTag(tag, rs)
  PROVE  BoardTyped'
  <1>1. RowsTyped'
    BY RequeuedRows, GoodRowsTyped DEF BoardTyped, ResumeTag
  <1>2. PausedTyped'
    BY DEF BoardTyped, PausedTyped, ResumeTag
  <1>3. HistoryTyped'
    BY RequeuedAtFacts DEF BoardTyped, HistoryTyped, ResumeTag
  <1>4. LeftTyped'
    BY CommandTyped DEF BoardTyped, ResumeTag
  <1> QED BY <1>1, <1>2, <1>3, <1>4, Frame DEF BoardTyped, ResumeTag, receiverVars, loopVars

LEMMA UserCancelsTyped ==
  ASSUME BoardTyped, NEW v \in Conversations, UserCancels(v)
  PROVE  BoardTyped'
  <1> DEFINE b == loop[v].cancelled \/ loop[v].pc \in
                              {"preparing", "committed", "claimed", "waiting"}
             new == [loop[v] EXCEPT !.cancelled = b]
  <1>1. v \in Targets /\ loop[v] \in Loops /\ b \in BOOLEAN
    BY TargetKinds DEF BoardTyped, LoopTyped, Loops
  <1>2. loop' = [loop EXCEPT ![v] = new]
    BY <1>1 DEF BoardTyped, LoopTyped, UserCancels
  <1> HIDE DEF b
  <1>3. new \in Loops /\ new.pc = loop[v].pc /\ new.claim = loop[v].claim
    BY <1>1 DEF Loops
  <1> HIDE DEF new
  <1>4. new.pc \in Working => new.claim \in Claims
    BY <1>1, <1>3 DEF BoardTyped, LoopTyped
  <1>5. LoopTyped'
    BY <1>1, <1>2, <1>3, <1>4, LoopOne DEF BoardTyped
  <1>6. LeftTyped'
    BY CommandTyped DEF BoardTyped, UserCancels
  <1> QED BY <1>5, <1>6, Frame DEF BoardTyped, UserCancels, storeVars, receiverVars,
                                   historyVars

LEMMA DetachedMoves ==
  ASSUME RowsTyped, NEW r \in Requirements
  PROVE  Moves(r, Detached(requirement[r]))
  BY DetachedFacts DEF RowsTyped, Moves, Kept, Closed, Verdicts

LEMMA DeleteTerminalTyped ==
  ASSUME BoardTyped, NEW x \in Terminals, DeleteTerminal(x)
  PROVE  BoardTyped' /\ Quiet(requirement')
  <1> DEFINE Row(r) == IF requirement[r].owner = x THEN Detached(requirement[r])
                       ELSE requirement[r]
  <1>1. \A r \in Requirements : Moves(r, Row(r))
    BY DetachedMoves, KeptMoves DEF BoardTyped
  <1>2. requirement' = [r \in Requirements |-> Row(r)]
    BY DEF DeleteTerminal
  <1> HIDE DEF Row
  <1>3. Quiet(requirement')
    BY <1>1, <1>2 DEF Quiet, Moves, GoodRow
  <1>4. AdmissionsTyped'
    BY ParkedAdmissionsTyped DEF BoardTyped, DeleteTerminal
  <1>5. Dead(term[x], "gone") \in Sessions
    BY DeadFacts DEF BoardTyped, TermsTyped
  <1>6. TermsTyped'
    BY <1>5 DEF BoardTyped, TermsTyped, DeleteTerminal
  <1>7. BindingsTyped' /\ LeftTyped'
    BY CommandTyped DEF BoardTyped, BindingsTyped, DeleteTerminal
  <1> QED BY <1>3, <1>4, <1>6, <1>7, QuietTyped, Frame
          DEF BoardTyped, DeleteTerminal, conversationVars, historyVars

LEMMA CrashTyped ==
  ASSUME BoardTyped, Crash
  PROVE  BoardTyped' /\ Quiet(requirement')
  <1> DEFINE ghosts == {x \in Terminals : term[x].status = "running"}
             Row(r) == IF requirement[r].status = "in_progress" /\ requirement[r].owner \in ghosts
                       THEN Resolved(requirement[r], "needs_review") ELSE requirement[r]
             Ses(x) == IF x \in ghosts THEN Dead(term[x], "exited") ELSE term[x]
  <1>1. \A r \in Requirements : Moves(r, Row(r))
    BY ResolvedMoves, KeptMoves DEF BoardTyped, Verdicts
  <1>2. \A x \in Terminals : Ses(x) \in Sessions
    BY DeadFacts DEF BoardTyped, TermsTyped
  <1>3. requirement' = [r \in Requirements |-> Row(r)]
        /\ term' = [x \in Terminals |-> Ses(x)] /\ epochs' = 0
    BY DEF Crash
  <1> HIDE DEF Row, Ses, ghosts
  <1>4. Quiet(requirement')
    BY <1>1, <1>3 DEF Quiet, Moves, GoodRow
  <1>5. TermsTyped'
    BY <1>2, <1>3, ReceiversAssumption DEF TermsTyped
  <1>6. AdmissionsTyped'
    <2>1. PICK cs : admission' = ParkedAdmissions(cs)
      BY DEF Crash
    <2> QED BY <2>1, ParkedAdmissionsTyped DEF BoardTyped
  <1>7. ReceiptsTyped'
    <2>1. PICK healed : /\ receipt' = Completed(healed, "error")
                        /\ conv' = [v \in Conversations |-> IF v \in healed THEN None ELSE conv[v]]
      BY DEF Crash
    <2>2. receipt' \in [Claims -> Receipts]
      BY <2>1, CompletedFacts DEF BoardTyped
    <2>3. turn' = [v \in Conversations |-> "none"]
      BY DEF Crash
    <2> QED BY <2>1, <2>2, <2>3 DEF BoardTyped, ReceiptsTyped
  <1>8. LoopTyped'
    <2>1. LoopAt("off", None) \in Loops /\ LoopAt("off", None).pc = "off"
      BY LoopAtType DEF LoopAt, LoopSteps
    <2> QED BY <2>1 DEF LoopTyped, Crash, Working
  <1>9. HandlersTyped'
    <2>1. NoRequest \in Requests /\ NoRequest.step = "none"
      BY NoRequestType DEF NoRequest
    <2> QED BY <2>1 DEF HandlersTyped, Crash
  <1>10. BindingsTyped' /\ LeftTyped'
    BY FaultTyped DEF BoardTyped, BindingsTyped, Crash
  <1> QED BY <1>4, <1>5, <1>6, <1>7, <1>8, <1>9, <1>10, QuietTyped, Frame
          DEF BoardTyped, Crash, historyVars

-----------------------------------------------------------------------------
(* Every step keeps the types.                                             *)

LEMMA LoopStepTyped ==
  ASSUME BoardTyped, NEW t \in Targets, LoopStep(t)
  PROVE  BoardTyped'
  BY LoopPreparesTyped, LoopRecoversTyped, LoopClaimsTyped, LoopFindsNothingTyped,
     LoopMovesTyped, SettlesTyped, PausesTyped, InterruptsTyped, ReleasesTyped,
     LoopReturnsTyped, LoopReachesCapTyped, CustodyRecoversTyped, CustodyClosesTyped,
     SendAdmitsTyped, SendReplaysTyped, SendEndsTyped, TerminalScopesTyped,
     TerminalAdmitsTyped, TerminalReplaysTyped, TerminalTypesTyped, TerminalSubmitsTyped,
     TerminalWriteRefusedTyped, TerminalTurnEndsTyped, TerminalParksTyped
  DEF LoopStep

LEMMA HandlerStepsTyped ==
  ASSUME BoardTyped, NEW h \in Threads, HandlerStep(h)
  PROVE  BoardTyped'
  BY HandlerResumesTyped, HandlerStopsTyped, HandlerParksTyped, HandlerResolvesTyped,
     HandlerStartsTyped
  DEF HandlerStep

LEMMA ReceiverStepTyped ==
  ASSUME BoardTyped, ReceiverStep
  PROVE  BoardTyped'
  <1>1. LoopTyped' /\ HandlersTyped' /\ BindingsTyped' /\ HistoryTyped' /\ LeftTyped'
    BY Frame DEF BoardTyped, ReceiverStep, loopVars, historyVars
  <1>2. CASE \E v \in Conversations : TurnStarts(v)
    BY <1>1, <1>2, TurnStartsTyped, Frame
    DEF BoardTyped, TurnStarts, storeVars, terminalVars
  <1>3. CASE \E v \in Conversations : AgentDeclares(v)
    BY <1>1, <1>3, AgentDeclaresTyped, Frame DEF BoardTyped, AgentDeclares, receiverVars
  <1>4. CASE \E v \in Conversations, result \in {"ok", "error"} : TurnEnds(v, result)
    BY <1>1, <1>4, TurnEndsTyped, Frame DEF BoardTyped, TurnEnds, storeVars, terminalVars
  <1>5. CASE \E x \in Terminals : PtyExits(x)
    BY <1>1, <1>5, PtyExitsTyped, Frame DEF BoardTyped, PtyExits, conversationVars
  <1>6. CASE \E x \in Terminals : CliDeclares(x)
    BY <1>1, <1>6, CliDeclaresTyped, Frame DEF BoardTyped, CliDeclares, receiverVars
  <1> QED BY <1>2, <1>3, <1>4, <1>5, <1>6 DEF ReceiverStep

LEMMA UserStepTyped ==
  ASSUME BoardTyped, UserStep
  PROVE  BoardTyped'
  <1>1. ASSUME UNCHANGED <<loopVars, historyVars>>
        PROVE  LoopTyped' /\ HandlersTyped' /\ BindingsTyped' /\ HistoryTyped'
    BY <1>1, Frame DEF BoardTyped, loopVars, historyVars
  <1>2. CASE \E v \in Conversations : /\ UserSends(v) /\ Command("send")
                                      /\ UNCHANGED <<loopVars, historyVars>>
    BY <1>1, <1>2, UserSendsTyped, CommandTyped, Frame
    DEF BoardTyped, UserSends, storeVars, terminalVars
  <1>3. CASE \E x \in Terminals : /\ Kill(x) /\ Command("kill")
                                  /\ UNCHANGED <<loopVars, historyVars>>
    BY <1>1, <1>3, KillTyped, CommandTyped, Frame DEF BoardTyped, Kill, conversationVars
  <1>4. CASE \E x \in Terminals : /\ Relaunch(x, TRUE) /\ Command("relaunch")
                                  /\ UNCHANGED <<loopVars, historyVars>>
    BY <1>1, <1>4, RelaunchTyped, CommandTyped, Frame
    DEF BoardTyped, Relaunch, conversationVars
  <1>5. CASE \E x \in Terminals : /\ Relaunch(x, FALSE) /\ Fault
                                  /\ UNCHANGED <<loopVars, historyVars>>
    BY <1>1, <1>5, RelaunchTyped, FaultTyped, Frame
    DEF BoardTyped, Relaunch, conversationVars
  <1>6. CASE \/ \E h \in Handlers, t \in Targets, tag \in Tags \cup {None} :
                  SetAutowork(h, t, tag)
             \/ \E r \in Requirements :
                  \/ Requeue(r) \/ Delete(r)
                  \/ \E status \in Verdicts : SetStatus(r, status)
                  \/ \E tag \in Tags : Retag(r, tag)
             \/ \E tag \in Tags, rs \in SUBSET Requirements : ResumeTag(tag, rs)
             \/ \E v \in Conversations : UserCancels(v)
             \/ \E x \in Terminals : DeleteTerminal(x)
    BY <1>6, SetAutoworkTyped, RequeueTyped, DeleteTyped, SetStatusTyped, RetagTyped,
       ResumeTagTyped, UserCancelsTyped, DeleteTerminalTyped
  <1> QED BY <1>2, <1>3, <1>4, <1>5, <1>6 DEF UserStep

LEMMA NextTyped ==
  ASSUME BoardTyped, [AutoWorkNext]_vars
  PROVE  BoardTyped'
  <1>1. CASE UNCHANGED vars
    BY <1>1, Frame DEF BoardTyped, vars, storeVars, receiverVars, loopVars, historyVars
  <1>2. CASE AutoWorkNext
    BY <1>2, LoopStepTyped, LoopDiesTyped, ResumeBindingTyped, SendFailsTyped,
       HandlerStepsTyped, SweepTyped, ReceiverStepTyped, UserStepTyped, CrashTyped
    DEF AutoWorkNext
  <1> QED BY <1>1, <1>2

LEMMA InitTyped ==
  ASSUME AutoWorkInit PROVE BoardTyped
  <1>0. AutoWorkInit
    OBVIOUS
  <1>1. RowsTyped
    <2>1. requirement \in [Requirements -> [status : {"pending"}, tag : Tags,
                             owner : {None}, gen : {0}, attempts : {0}]]
      BY <1>0 DEF AutoWorkInit, StoreInit
    <2>2. 0 \in 0 .. MaxClaims
      BY StoreAssumption
    <2>3. \A row \in [status : {"pending"}, tag : Tags, owner : {None}, gen : {0},
                      attempts : {0}] : GoodRow(row) /\ row \in Rows
      BY <2>2 DEF GoodRow, Rows, Statuses
    <2> QED BY <2>1, <2>3 DEF RowsTyped
  <1>2. PausedTyped /\ RunsTyped
    BY <1>0 DEF AutoWorkInit, StoreInit, ReceiversInit, PausedTyped, RunsTyped
  <1>3. ReceiptsTyped
    BY <1>0 DEF AutoWorkInit, ReceiversInit, ReceiptsTyped, Receipts
  <1>4. TermsTyped
    <2>1. 0 \in 0 .. MaxEpochs
      BY ReceiversAssumption
    <2>2. [status |-> "exited", pty |-> 0, deaf |-> FALSE, line |-> {}, given |-> {}]
            \in Sessions
      BY <2>1 DEF Sessions
    <2> QED BY <1>0, <2>1, <2>2 DEF AutoWorkInit, ReceiversInit, TermsTyped
  <1>5. AdmissionsTyped
    <2>1. 0 \in 0 .. MaxEpochs
      BY ReceiversAssumption
    <2>2. NoAdmission \in Admissions /\ NoAdmission.phase = "none"
      BY <2>1 DEF NoAdmission, Admissions, Phases
    <2> QED BY <1>0, <2>2 DEF AutoWorkInit, ReceiversInit, AdmissionsTyped
  <1>6. LoopTyped
    <2>1. LoopAt("off", None) \in Loops /\ LoopAt("off", None).pc = "off"
      BY LoopAtType DEF LoopAt, LoopSteps
    <2> QED BY <1>0, <2>1 DEF AutoWorkInit, LoopTyped, Working
  <1>7. HandlersTyped
    <2>1. NoRequest \in Requests /\ NoRequest.step = "none"
      BY NoRequestType DEF NoRequest
    <2> QED BY <1>0, <2>1 DEF AutoWorkInit, HandlersTyped
  <1>8. BindingsTyped
    BY <1>0 DEF AutoWorkInit, BindingsTyped
  <1>9. HistoryTyped
    BY <1>0, StoreAssumption DEF AutoWorkInit, HistoryTyped
  <1>10. LeftTyped
    BY <1>0, AutoWorkAssumption DEF AutoWorkInit, LeftTyped
  <1> QED BY <1>1, <1>2, <1>3, <1>4, <1>5, <1>6, <1>7, <1>8, <1>9, <1>10 DEF BoardTyped

LEMMA TypedGivesTypeOK == BoardTyped => AutoWorkTypeOK
  BY DEF BoardTyped, AutoWorkTypeOK, StoreTypeOK, ReceiversTypeOK, LoopsTypeOK, RowsTyped,
         PausedTyped, ReceiptsTyped, TermsTyped, AdmissionsTyped, RunsTyped, LoopTyped,
         HandlersTyped, BindingsTyped, HistoryTyped, LeftTyped

LEMMA AlwaysTyped == AutoWorkSpec => []BoardTyped
  BY InitTyped, NextTyped, PTL DEF AutoWorkSpec

\* Type correctness of AutoWork, for any number of targets, tags, requirements,
\* claims, commands and faults: in particular a row never has more attempts
\* than claims, and no claim is minted past the bound.
THEOREM AutoWorkTypeCorrect == AutoWorkSpec => []AutoWorkTypeOK
  BY AlwaysTyped, TypedGivesTypeOK, PTL

-----------------------------------------------------------------------------
(* At most once.  A claim that a receiver admitted keeps its row: until a  *)
(* user requeues it, the row stays at the claim's generation and does not  *)
(* return to pending, so no later claim of the requirement can be minted.  *)
(* What an agent is given was admitted before: a turn that starts, and a   *)
(* prompt on the input line of a terminal.                                 *)

AdmittedHeld ==
  \A c \in Claims :
    ~Unadmitted(c) =>
      /\ c.gen <= requirement[c.req].gen
      /\ c.gen > requeuedAt[c.req] => /\ requirement[c.req].gen = c.gen
                                      /\ requirement[c.req].status # "pending"
TurnsAdmitted ==
  \A v \in Conversations : turn[v] = "starting" => ~Unadmitted(conv[v])
LinesAdmitted == \A x \in Terminals : \A c \in term[x].line : ~Unadmitted(c)
RunsAdmitted == \A c \in runs : ~Unadmitted(c)

\* the pause of a tag covers every requirement whose turn a user stopped
StopsPaused == \A r \in stopped : paused[requirement[r].tag]

HeldInv == AdmittedHeld /\ TurnsAdmitted /\ LinesAdmitted /\ RunsAdmitted /\ StopsPaused

LEMMA HeldGivesAtMostOnce ==
  ASSUME BoardTyped, HeldInv PROVE AtMostOnce
  <1> SUFFICES ASSUME NEW c \in runs, NEW d \in runs, c.req = d.req,
                      c.gen > requeuedAt[c.req], d.gen > requeuedAt[c.req]
               PROVE  c = d
    BY DEF AtMostOnce
  <1>1. c \in Claims /\ d \in Claims
    BY DEF BoardTyped, RunsTyped
  <1>2. c.gen = requirement[c.req].gen /\ d.gen = requirement[d.req].gen
    BY <1>1 DEF HeldInv, RunsAdmitted, AdmittedHeld
  <1> QED BY <1>1, <1>2 DEF Claims

\* what most steps leave alone
SameAdmitted == \A c \in Claims : Unadmitted(c)' <=> Unadmitted(c)
TurnsKept ==
  \A v \in Conversations : turn'[v] = "starting" => turn[v] = "starting" /\ conv'[v] = conv[v]
LinesKept == \A x \in Terminals : term'[x].line \subseteq term[x].line
Still ==
  /\ Quiet(requirement') /\ requeuedAt' = requeuedAt
  /\ SameAdmitted /\ TurnsKept /\ LinesKept /\ runs' = runs
  /\ paused' = paused /\ stopped' = stopped

LEMMA HeldQuiet ==
  ASSUME BoardTyped, AdmittedHeld, SameAdmitted, Quiet(requirement'),
         requeuedAt' = requeuedAt
  PROVE  AdmittedHeld'
  <1> SUFFICES ASSUME NEW c \in Claims, ~Unadmitted(c)'
               PROVE  /\ c.gen <= requirement'[c.req].gen
                      /\ c.gen > requeuedAt[c.req] =>
                           /\ requirement'[c.req].gen = c.gen
                           /\ requirement'[c.req].status # "pending"
    BY DEF AdmittedHeld
  <1> DEFINE r == c.req
  <1>1. r \in Requirements /\ ~Unadmitted(c)
    BY ClaimReq DEF SameAdmitted
  <1>2. /\ c.gen <= requirement[r].gen
        /\ c.gen > requeuedAt[r] => /\ requirement[r].gen = c.gen
                                    /\ requirement[r].status # "pending"
    BY <1>1 DEF AdmittedHeld
  <1>3. Moves(r, requirement'[r])
    BY <1>1 DEF Quiet
  <1>4. CASE Kept(r, requirement'[r])
    BY <1>2, <1>4 DEF Kept
  <1>5. CASE Closed(r, requirement'[r])
    BY <1>2, <1>5 DEF Closed, Verdicts
  <1>6. CASE Returned(r, requirement'[r])
    <2>1. requirement[r].gen = c.gen => ClaimOf(r) = c
      BY DEF ClaimOf, Claims
    <2> QED BY <1>1, <1>2, <1>6, <2>1 DEF Returned
  <1> QED BY <1>3, <1>4, <1>5, <1>6 DEF Moves

LEMMA TurnsStay ==
  ASSUME BoardTyped, TurnsAdmitted, SameAdmitted, TurnsKept PROVE TurnsAdmitted'
  BY DEF BoardTyped, ReceiptsTyped, TurnsAdmitted, SameAdmitted, TurnsKept

LEMMA LinesStay ==
  ASSUME BoardTyped, LinesAdmitted, SameAdmitted, LinesKept PROVE LinesAdmitted'
  BY DEF BoardTyped, TermsTyped, Sessions, LinesAdmitted, SameAdmitted, LinesKept

LEMMA RunsStay ==
  ASSUME BoardTyped, RunsAdmitted, SameAdmitted, runs' = runs PROVE RunsAdmitted'
  BY DEF BoardTyped, RunsTyped, RunsAdmitted, SameAdmitted

LEMMA StopsStay ==
  ASSUME BoardTyped, StopsPaused, Quiet(requirement'), paused' = paused, stopped' = stopped
  PROVE  StopsPaused'
  <1>1. \A r \in Requirements : requirement'[r].tag = requirement[r].tag
    BY DEF Quiet, Moves
  <1> QED BY <1>1 DEF StopsPaused, BoardTyped, HistoryTyped

LEMMA StillKeeps ==
  ASSUME BoardTyped, HeldInv, Still PROVE HeldInv'
  BY HeldQuiet, TurnsStay, LinesStay, RunsStay, StopsStay DEF HeldInv, Still

-----------------------------------------------------------------------------
(* The steps that are still.                                               *)

LEMMA SameReceivers ==
  ASSUME receipt' = receipt, admission' = admission PROVE SameAdmitted
  BY DEF SameAdmitted, Unadmitted

LEMMA SameTurns ==
  ASSUME conv' = conv, turn' = turn PROVE TurnsKept
  BY DEF TurnsKept

LEMMA SameLines ==
  ASSUME term' = term PROVE LinesKept
  BY DEF LinesKept

\* only the loops and the requests move
LEMMA LoopsOnlyStill ==
  ASSUME BoardTyped, UNCHANGED <<storeVars, receiverVars, historyVars>>
  PROVE  Still
  <1>1. /\ requirement' = requirement /\ paused' = paused /\ receipt' = receipt
        /\ conv' = conv /\ turn' = turn /\ term' = term /\ admission' = admission
        /\ runs' = runs /\ requeuedAt' = requeuedAt /\ stopped' = stopped
    BY DEF storeVars, receiverVars, historyVars
  <1> QED BY <1>1, QuietSame, SameReceivers, SameTurns, SameLines DEF Still, BoardTyped

\* the requirement rows move as well
LEMMA RowsOnlyStill ==
  ASSUME BoardTyped, Quiet(requirement'), UNCHANGED <<paused, receiverVars, historyVars>>
  PROVE  Still
  <1>1. /\ paused' = paused /\ receipt' = receipt
        /\ conv' = conv /\ turn' = turn /\ term' = term /\ admission' = admission
        /\ runs' = runs /\ requeuedAt' = requeuedAt /\ stopped' = stopped
    BY DEF receiverVars, historyVars
  <1> QED BY <1>1, SameReceivers, SameTurns, SameLines DEF Still

\* only open admissions are parked
LEMMA ParkedSame ==
  ASSUME AdmissionsTyped, NEW cs, \A c \in cs \cap Claims : admission[c].phase # "none",
         receipt' = receipt, admission' = ParkedAdmissions(cs)
  PROVE  SameAdmitted
  <1> SUFFICES ASSUME NEW c \in Claims PROVE Unadmitted(c)' <=> Unadmitted(c)
    BY DEF SameAdmitted
  <1>1. admission'[c] = admission[c] \/ (c \in cs /\ admission'[c].phase = "settled")
    BY ParkedAdmissionsFacts
  <1> QED BY <1>1 DEF Unadmitted

LEMMA OpenAtOpen ==
  ASSUME NEW x, NEW es
  PROVE  \A c \in OpenAt(x, es) \cap Claims : admission[c].phase # "none"
  BY DEF OpenAt, Open

LEMMA ParkStill ==
  ASSUME BoardTyped, NEW cs, \A c \in cs \cap Claims : admission[c].phase # "none",
         Park(cs), UNCHANGED <<paused, conversationVars, runs, historyVars>>, LinesKept
  PROVE  Still
  <1>1. /\ paused' = paused /\ receipt' = receipt /\ conv' = conv /\ turn' = turn
        /\ runs' = runs /\ requeuedAt' = requeuedAt /\ stopped' = stopped
    BY DEF conversationVars, historyVars
  <1>2. Quiet(requirement')
    BY ParkTyped DEF BoardTyped
  <1>3. SameAdmitted
    BY <1>1, ParkedSame DEF BoardTyped, Park
  <1> QED BY <1>1, <1>2, <1>3, SameTurns DEF Still

LEMMA CompletedSame ==
  ASSUME ReceiptsTyped, NEW vs, NEW result \in {"ok", "error"},
         receipt' = Completed(vs, result)
  PROVE  \A c \in Claims : receipt'[c] = "none" <=> receipt[c] = "none"
  BY CompletedFacts DEF ReceiptsTyped


LEMMA LoopsStill ==
  ASSUME BoardTyped, NEW t \in Targets,
         \/ LoopPrepares(t) \/ LoopRecovers(t) \/ LoopFindsNothing(t) \/ LoopExits(t)
         \/ LoopPublishes(t) \/ SendRefused(t) \/ SendFails(t) \/ WaitObserves(t)
         \/ WaitGivesUp(t) \/ TerminalScopes(t) \/ TerminalReplays(t) \/ TerminalLoses(t)
         \/ LoopReturns(t) \/ LoopReachesCap(t) \/ LoopDies(t) \/ ResumeBinding(t)
  PROVE  Still
  <1>1. UNCHANGED <<storeVars, receiverVars, historyVars>>
    BY DEF LoopPrepares, LoopRecovers, LoopFindsNothing, LoopExits, LoopPublishes,
           SendRefused, SendFails, WaitObserves, WaitGivesUp, TerminalScopes,
           TerminalReplays, TerminalLoses, LoopReturns, LoopReachesCap, LoopDies,
           ResumeBinding
  <1> QED BY <1>1, LoopsOnlyStill

LEMMA RequestsStill ==
  ASSUME BoardTyped,
         \/ \E h \in Handlers, t \in Targets, tag \in Tags \cup {None} :
              SetAutowork(h, t, tag)
         \/ \E h \in Threads : HandlerStops(h) \/ HandlerStarts(h)
         \/ \E v \in Conversations : UserCancels(v)
  PROVE  Still
  <1>1. UNCHANGED <<storeVars, receiverVars, historyVars>>
    BY DEF SetAutowork, HandlerStops, HandlerStarts, UserCancels
  <1> QED BY <1>1, LoopsOnlyStill

\* the steps that settle, close or delete rows
LEMMA RowsStill ==
  ASSUME BoardTyped,
         \/ \E t \in Targets : Settles(t) \/ Releases(t) \/ CustodyCloses(t)
         \/ \E h \in Threads : HandlerResolves(h)
         \/ \E r \in Requirements :
              \/ Sweep(r) \/ Delete(r)
              \/ \E status \in Verdicts : SetStatus(r, status)
         \/ UNCHANGED historyVars /\ \E v \in Conversations : AgentDeclares(v)
         \/ UNCHANGED historyVars /\ \E x \in Terminals : CliDeclares(x)
  PROVE  Still
  <1>1. Quiet(requirement')
    BY SettlesTyped, ReleasesTyped, CustodyClosesTyped, HandlerResolvesTyped, SweepTyped,
       DeleteTyped, SetStatusTyped, AgentDeclaresTyped, CliDeclaresTyped
  <1>2. UNCHANGED <<paused, receiverVars, historyVars>>
    BY DEF Settles, Releases, CustodyCloses, HandlerResolves, Sweep, Delete, SetStatus,
           AgentDeclares, CliDeclares
  <1> QED BY <1>1, <1>2, RowsOnlyStill

LEMMA TerminalTurnEndsStill ==
  ASSUME BoardTyped, NEW x \in Terminals, TerminalTurnEnds(x)
  PROVE  Still
  <1> DEFINE c == loop[x].claim
  <1>1. UNCHANGED <<paused, conversationVars, runs, historyVars>> /\ LinesKept
    BY SameLines DEF TerminalTurnEnds
  <1>2. CASE UNCHANGED <<requirement, admission>>
    BY <1>1, <1>2, LoopsOnlyStill
    DEF TerminalTurnEnds, storeVars, receiverVars, conversationVars
  <1>3. CASE \E cs : Park(cs) /\ \A d \in cs \cap Claims : admission[d].phase # "none"
    BY <1>1, <1>3, ParkStill
  <1>4. CASE requirement[c.req].status \in Verdicts
    <2> DEFINE cs == IF /\ Open(c) /\ requirement[c.req].gen = c.gen
                        /\ requirement[c.req].owner = x
                     THEN {c} ELSE OpenAt(x, {loop[x].epoch})
    <2>1. Park(cs)
      BY <1>4 DEF TerminalTurnEnds
    <2>2. \A d \in cs \cap Claims : admission[d].phase # "none"
      BY OpenAtOpen DEF Open
    <2> HIDE DEF cs
    <2> QED BY <1>3, <2>1, <2>2
  <1>5. CASE requirement[c.req].status \notin Verdicts
    BY <1>2, <1>5 DEF TerminalTurnEnds
  <1> QED BY <1>4, <1>5

LEMMA TerminalParksStill ==
  ASSUME BoardTyped, NEW x \in Terminals, TerminalParks(x)
  PROVE  Still
  <1>1. UNCHANGED <<paused, conversationVars, runs, historyVars>> /\ LinesKept
    BY SameLines DEF TerminalParks
  <1>2. Park(OpenAt(x, {loop[x].epoch}))
    BY DEF TerminalParks
  <1> QED BY <1>1, <1>2, OpenAtOpen, ParkStill

LEMMA CustodyRecoversStill ==
  ASSUME BoardTyped, NEW t \in Targets, CustodyRecovers(t)
  PROVE  Still
  <1>1. /\ UNCHANGED <<paused, conversationVars, runs, historyVars>> /\ LinesKept
        /\ term' = term /\ epochs' = epochs
    BY SameLines DEF CustodyRecovers
  <1>2. CASE UNCHANGED <<requirement, admission>>
    BY <1>1, <1>2, LoopsOnlyStill DEF storeVars, receiverVars, conversationVars
  <1>3. CASE Park(OpenAt(t, 0..MaxEpochs))
    BY <1>1, <1>3, OpenAtOpen, ParkStill
  <1> QED BY <1>2, <1>3 DEF CustodyRecovers

LEMMA HandlerParksStill ==
  ASSUME BoardTyped, NEW h \in Threads, HandlerParks(h)
  PROVE  Still
  <1>1. UNCHANGED <<paused, conversationVars, runs, historyVars>> /\ LinesKept
    BY SameLines DEF HandlerParks
  <1>2. Park(OpenAt(handler[h].target, 0..MaxEpochs))
    BY DEF HandlerParks
  <1> QED BY <1>1, <1>2, OpenAtOpen, ParkStill

\* the session of one terminal changes
LEMMA LinesOne ==
  ASSUME TermsTyped, NEW x \in Terminals, NEW new, new.line \subseteq term[x].line,
         term' = [term EXCEPT ![x] = new]
  PROVE  LinesKept
  BY DEF TermsTyped, LinesKept

LEMMA PtysStill ==
  ASSUME BoardTyped, NEW x \in Terminals, UNCHANGED historyVars,
         PtyExits(x) \/ Kill(x) \/ (\E spawned \in BOOLEAN : Relaunch(x, spawned))
  PROVE  Still
  <1>1. UNCHANGED <<paused, conversationVars, runs, historyVars>>
    BY DEF PtyExits, Kill, Relaunch
  <1>2. term[x] \in Sessions
    BY DEF BoardTyped, TermsTyped
  <1>3. LinesKept
    <2>1. CASE PtyExits(x)
      BY <1>2, <2>1, DeadFacts, LinesOne DEF BoardTyped, PtyExits
    <2>2. CASE Kill(x)
      <3> DEFINE new == [term[x] EXCEPT !.deaf = TRUE, !.line = {}, !.given = {}]
      <3>1. new.line = {} /\ term' = [term EXCEPT ![x] = new]
        BY <1>2, <2>2 DEF BoardTyped, TermsTyped, Sessions, Kill
      <3> HIDE DEF new
      <3> QED BY <3>1, LinesOne DEF BoardTyped
    <2>3. CASE \E spawned \in BOOLEAN : Relaunch(x, spawned)
      <3>1. PICK spawned \in BOOLEAN : Relaunch(x, spawned)
        BY <2>3
      <3> DEFINE e == epochs + 1
                 new == IF spawned THEN [Dead(term[x], "running") EXCEPT !.pty = e]
                        ELSE Dead(term[x], "exited")
      <3>2. Dead(term[x], "running") \in Sessions /\ Dead(term[x], "running").line = {}
            /\ Dead(term[x], "exited").line = {}
        BY <1>2, DeadFacts
      <3>3. term' = [term EXCEPT ![x] = new]
        BY <3>1 DEF Relaunch
      <3> HIDE DEF e
      <3>4. new.line = {}
        BY <3>2 DEF Sessions
      <3> HIDE DEF new
      <3> QED BY <3>3, <3>4, LinesOne DEF BoardTyped
    <2> QED BY <2>1, <2>2, <2>3
  <1>4. PICK es : Park(OpenAt(x, es))
    BY DEF PtyExits, Kill, Relaunch
  <1> QED BY <1>1, <1>3, <1>4, OpenAtOpen, ParkStill

LEMMA DeleteTerminalStill ==
  ASSUME BoardTyped, NEW x \in Terminals, DeleteTerminal(x)
  PROVE  Still
  <1>1. Quiet(requirement')
    BY DeleteTerminalTyped
  <1>2. /\ paused' = paused /\ receipt' = receipt /\ conv' = conv /\ turn' = turn
        /\ runs' = runs /\ requeuedAt' = requeuedAt /\ stopped' = stopped
    BY DEF DeleteTerminal, conversationVars, historyVars
  <1>3. SameAdmitted
    BY <1>2, OpenAtOpen, ParkedSame DEF BoardTyped, DeleteTerminal
  <1>4. LinesKept
    BY DeadFacts, LinesOne DEF BoardTyped, TermsTyped, DeleteTerminal
  <1> QED BY <1>1, <1>2, <1>3, <1>4, SameTurns DEF Still

LEMMA TerminalWriteRefusedStill ==
  ASSUME BoardTyped, NEW x \in Terminals, TerminalWriteRefused(x)
  PROVE  Still
  <1> DEFINE c == loop[x].claim
  <1>1. UNCHANGED <<storeVars, conversationVars, runs, term, historyVars>>
    BY DEF TerminalWriteRefused
  <1>2. \/ admission' = admission
        \/ admission[c].phase # "none" /\ admission' = ParkedAdmissions({c})
    BY DEF TerminalWriteRefused
  <1>3. SameAdmitted
    <2>1. receipt' = receipt
      BY <1>1 DEF conversationVars
    <2>2. CASE admission' = admission
      BY <2>1, <2>2, SameReceivers
    <2>3. CASE admission[c].phase # "none" /\ admission' = ParkedAdmissions({c})
      BY <2>1, <2>3, ParkedSame DEF BoardTyped
    <2> QED BY <1>2, <2>2, <2>3
  <1>4. Quiet(requirement')
    BY <1>1, QuietSame DEF BoardTyped, storeVars
  <1> QED BY <1>1, <1>3, <1>4, SameTurns, SameLines DEF Still, storeVars, conversationVars,
                                                       historyVars

LEMMA ReceiptsSame ==
  ASSUME ReceiptsTyped, NEW vs, NEW result \in {"ok", "error"},
         receipt' = Completed(vs, result), admission' = admission
  PROVE  SameAdmitted
  BY CompletedSame DEF SameAdmitted, Unadmitted

LEMMA SendReplaysStill ==
  ASSUME BoardTyped, NEW v \in Conversations, SendReplays(v)
  PROVE  Still
  <1>1. /\ UNCHANGED <<storeVars, turn, terminalVars, runs, historyVars>>
    BY DEF SendReplays
  <1>2. SameAdmitted
    <2>1. admission' = admission
      BY <1>1 DEF terminalVars
    <2>2. CASE receipt' = receipt
      BY <2>1, <2>2, SameReceivers
    <2>3. CASE receipt' = Completed({v}, "error")
      BY <2>1, <2>3, ReceiptsSame DEF BoardTyped
    <2> QED BY <2>2, <2>3 DEF SendReplays
  <1>3. TurnsKept
    <2>1. turn' = turn
      BY <1>1
    <2>2. conv' = conv \/ (turn[v] = "none" /\ conv' = [conv EXCEPT ![v] = None])
      BY DEF SendReplays
    <2> QED BY <2>1, <2>2 DEF TurnsKept, BoardTyped, ReceiptsTyped
  <1> QED BY <1>1, <1>2, <1>3, QuietSame, SameLines
          DEF Still, BoardTyped, storeVars, terminalVars, historyVars

LEMMA TurnEndsStill ==
  ASSUME BoardTyped, NEW v \in Conversations, NEW result \in {"ok", "error"},
         TurnEnds(v, result), UNCHANGED historyVars
  PROVE  Still
  <1>1. SameAdmitted
    BY ReceiptsSame DEF BoardTyped, TurnEnds, terminalVars
  <1>2. TurnsKept
    BY DEF TurnsKept, BoardTyped, ReceiptsTyped, TurnEnds
  <1> QED BY <1>1, <1>2, QuietSame, SameLines
          DEF Still, BoardTyped, TurnEnds, storeVars, terminalVars, historyVars

LEMMA UserSendsStill ==
  ASSUME BoardTyped, NEW v \in Conversations, UserSends(v), UNCHANGED historyVars
  PROVE  Still
  <1>1. SameAdmitted
    BY SameReceivers DEF UserSends, terminalVars
  <1>2. TurnsKept
    BY DEF TurnsKept, BoardTyped, ReceiptsTyped, UserSends
  <1> QED BY <1>1, <1>2, QuietSame, SameLines
          DEF Still, BoardTyped, UserSends, storeVars, terminalVars, historyVars

LEMMA CrashStill ==
  ASSUME BoardTyped, Crash
  PROVE  Still
  <1>1. Quiet(requirement')
    BY CrashTyped
  <1>2. TurnsKept
    BY DEF TurnsKept, Crash
  <1>3. LinesKept
    <2> DEFINE ghosts == {x \in Terminals : term[x].status = "running"}
    <2>1. term' = [x \in Terminals |-> IF x \in ghosts THEN Dead(term[x], "exited") ELSE term[x]]
      BY DEF Crash
    <2>2. \A x \in Terminals : Dead(term[x], "exited").line = {}
      BY DeadFacts DEF BoardTyped, TermsTyped
    <2> HIDE DEF ghosts
    <2> QED BY <2>1, <2>2 DEF LinesKept
  <1>4. SameAdmitted
    <2>1. PICK vs : receipt' = Completed(vs, "error")
      BY DEF Crash
    <2>2. \A c \in Claims : receipt'[c] = "none" <=> receipt[c] = "none"
      BY <2>1, CompletedSame DEF BoardTyped
    <2> DEFINE ghosts == {x \in Terminals : term[x].status = "running"}
               cs == UNION {OpenAt(x, 0..MaxEpochs) : x \in ghosts}
    <2>3. admission' = ParkedAdmissions(cs)
      BY DEF Crash
    <2>4. \A c \in cs : admission[c].phase # "none"
      BY DEF OpenAt, Open
    <2> HIDE DEF cs
    <2>5. \A c \in Claims : admission'[c].phase = "none" <=> admission[c].phase = "none"
      <3> TAKE c \in Claims
      <3>1. admission'[c] = admission[c] \/ (c \in cs /\ admission'[c].phase = "settled")
        BY <2>3, ParkedAdmissionsFacts DEF BoardTyped
      <3> QED BY <2>4, <3>1
    <2> QED BY <2>2, <2>5 DEF SameAdmitted, Unadmitted
  <1> QED BY <1>1, <1>2, <1>3, <1>4 DEF Still, Crash, historyVars


-----------------------------------------------------------------------------
(* The other steps: a claim is minted or admitted, a prompt is handed      *)
(* over, a tag is paused, and users requeue, retag and resume.             *)

\* everything but the rows, the pauses and their history
LEMMA ReceiversStay ==
  ASSUME BoardTyped, TurnsAdmitted, LinesAdmitted, RunsAdmitted, UNCHANGED receiverVars
  PROVE  TurnsAdmitted' /\ LinesAdmitted' /\ RunsAdmitted' /\ SameAdmitted
  <1>1. /\ receipt' = receipt /\ conv' = conv /\ turn' = turn /\ term' = term
        /\ admission' = admission /\ runs' = runs
    BY DEF receiverVars
  <1>2. SameAdmitted /\ TurnsKept /\ LinesKept
    BY <1>1, SameReceivers, SameTurns, SameLines
  <1> QED BY <1>1, <1>2, TurnsStay, LinesStay, RunsStay

LEMMA LoopClaimsHeld ==
  ASSUME BoardTyped, HeldInv, NEW t \in Targets, LoopClaims(t)
  PROVE  /\ HeldInv'
         /\ \A r \in stopped :
              requirement'[r].status = "in_progress" => requirement[r].status = "in_progress"
  <1>1. TurnsAdmitted' /\ LinesAdmitted' /\ RunsAdmitted' /\ SameAdmitted
    BY ReceiversStay DEF HeldInv, LoopClaims
  <1>2. PICK r \in Claimable(loop[t].tag, t) :
          requirement' = [requirement EXCEPT ![r] = Claimed(@, t)]
    BY DEF LoopClaims
  <1> DEFINE row == Claimed(requirement[r], t)
  <1>3. /\ r \in Requirements /\ GoodRow(requirement[r]) /\ requirement[r].gen < MaxClaims
        /\ requirement[r].status = "pending" /\ ~paused[requirement[r].tag]
    BY DEF Claimable, BoardTyped, RowsTyped
  <1>4. row.gen = requirement[r].gen + 1 /\ row.tag = requirement[r].tag
    BY <1>3, ClaimedFacts
  <1>5. requirement' = [requirement EXCEPT ![r] = row]
    BY <1>2
  <1>6. requirement[r].gen \in Int /\ requirement \in [Requirements -> Rows]
    BY <1>3 DEF BoardTyped, RowsTyped, GoodRow, Rows
  <1> HIDE DEF row
  <1>7. AdmittedHeld'
    <2> SUFFICES ASSUME NEW c \in Claims, ~Unadmitted(c)
                 PROVE  /\ c.gen <= requirement'[c.req].gen
                        /\ c.gen > requeuedAt[c.req] =>
                             /\ requirement'[c.req].gen = c.gen
                             /\ requirement'[c.req].status # "pending"
      BY <1>1 DEF AdmittedHeld, SameAdmitted, LoopClaims, historyVars
    <2>1. /\ c.req \in Requirements /\ c.gen \in Int
          /\ c.gen <= requirement[c.req].gen
          /\ c.gen > requeuedAt[c.req] => /\ requirement[c.req].gen = c.gen
                                          /\ requirement[c.req].status # "pending"
      BY ClaimReq DEF HeldInv, AdmittedHeld
    <2>2. CASE c.req = r
      BY <1>3, <1>4, <1>5, <1>6, <2>1, <2>2
    <2>3. CASE c.req # r
      BY <1>5, <1>6, <2>1, <2>3
    <2> QED BY <2>2, <2>3
  <1>8. StopsPaused'
    BY <1>3, <1>4, <1>5, <1>6 DEF HeldInv, StopsPaused, BoardTyped, HistoryTyped, LoopClaims,
                                  historyVars
  <1>9. \A s \in stopped :
          requirement'[s].status = "in_progress" => requirement[s].status = "in_progress"
    <2> TAKE s \in stopped
    <2>1. s # r
      BY <1>3 DEF HeldInv, StopsPaused
    <2> QED BY <1>5, <1>6, <2>1 DEF BoardTyped, HistoryTyped
  <1> QED BY <1>1, <1>7, <1>8, <1>9 DEF HeldInv

\* c is admitted while its row is held
LEMMA AdmitsHeld ==
  ASSUME BoardTyped, AdmittedHeld, NEW c \in Claims, NEW t, Holds(c, t),
         \A d \in Claims \ {c} : Unadmitted(d)' <=> Unadmitted(d),
         requirement' = requirement, requeuedAt' = requeuedAt
  PROVE  AdmittedHeld'
  <1> SUFFICES ASSUME NEW d \in Claims, ~Unadmitted(d)'
               PROVE  /\ d.gen <= requirement[d.req].gen
                      /\ d.gen > requeuedAt[d.req] =>
                           /\ requirement[d.req].gen = d.gen
                           /\ requirement[d.req].status # "pending"
    BY DEF AdmittedHeld
  <1>1. CASE d = c
    <2>1. c.gen \in Int
      BY ClaimReq
    <2> QED BY <1>1, <2>1 DEF Holds
  <1>2. CASE d # c
    BY <1>2 DEF AdmittedHeld
  <1> QED BY <1>1, <1>2

\* c becomes admitted, everything else that is admitted stays so
LEMMA AdmitsOthers ==
  ASSUME BoardTyped, HeldInv, NEW c \in Claims, ~Unadmitted(c)',
         \A d \in Claims \ {c} : Unadmitted(d)' <=> Unadmitted(d)
  PROVE  \A d \in Claims : ~Unadmitted(d) => ~Unadmitted(d)'
  OBVIOUS

LEMMA SendAdmitsHeld ==
  ASSUME BoardTyped, HeldInv, NEW v \in Conversations, SendAdmits(v)
  PROVE  HeldInv'
  <1>1. v \in Targets /\ loop[v].claim \in Claims
    BY TargetKinds, WorkingClaim DEF BoardTyped, SendAdmits, Working, LoopSteps
  <1> PICK c \in Claims : c = loop[v].claim
    BY <1>1
  <1>2. /\ receipt' = [receipt EXCEPT ![c] = "accepted"]
        /\ conv' = [conv EXCEPT ![v] = c] /\ turn' = [turn EXCEPT ![v] = "starting"]
        /\ Holds(c, v)
    BY DEF SendAdmits, AdmitTurn, CanAdmitTurn
  <1>3. /\ requirement' = requirement /\ paused' = paused /\ term' = term
        /\ admission' = admission /\ runs' = runs /\ requeuedAt' = requeuedAt
        /\ stopped' = stopped
    BY DEF SendAdmits, storeVars, terminalVars, historyVars
  <1>4. /\ ~Unadmitted(c)'
        /\ \A d \in Claims \ {c} : Unadmitted(d)' <=> Unadmitted(d)
    BY <1>2, <1>3 DEF Unadmitted, BoardTyped, ReceiptsTyped
  <1>5. AdmittedHeld'
    BY <1>2, <1>3, <1>4, AdmitsHeld DEF HeldInv
  <1>6. \A d \in Claims : ~Unadmitted(d) => ~Unadmitted(d)'
    BY <1>4, AdmitsOthers
  <1>7. TurnsAdmitted'
    <2> SUFFICES ASSUME NEW u \in Conversations, turn'[u] = "starting"
                 PROVE  ~Unadmitted(conv[u])'
      BY DEF TurnsAdmitted
    <2>1. PICK d \in Claims : conv'[u] = d /\ ~Unadmitted(d)'
      <3>1. CASE u = v
        BY <1>2, <1>4, <3>1 DEF BoardTyped, ReceiptsTyped
      <3>2. CASE u # v
        <4>1. turn[u] = "starting" /\ conv'[u] = conv[u] /\ conv[u] \in Claims
          BY <1>2, <3>2 DEF BoardTyped, ReceiptsTyped
        <4>2. PICK e \in Claims : e = conv[u]
          BY <4>1
        <4>3. ~Unadmitted(e)
          BY <4>1, <4>2 DEF HeldInv, TurnsAdmitted
        <4> QED BY <1>6, <4>1, <4>2, <4>3
      <3> QED BY <3>1, <3>2
    <2> QED BY <2>1 DEF Unadmitted
  <1>8. LinesAdmitted' /\ RunsAdmitted'
    BY <1>3, <1>6 DEF HeldInv, LinesAdmitted, RunsAdmitted, BoardTyped, RunsTyped,
                      TermsTyped, Sessions
  <1>9. StopsPaused'
    BY <1>3 DEF HeldInv, StopsPaused
  <1> QED BY <1>5, <1>7, <1>8, <1>9 DEF HeldInv

LEMMA TerminalAdmitsHeld ==
  ASSUME BoardTyped, HeldInv, NEW x \in Terminals, TerminalAdmits(x)
  PROVE  HeldInv'
  <1>1. x \in Targets /\ loop[x].claim \in Claims
    BY TerminalClaim DEF TerminalAdmits, Working, LoopSteps
  <1> PICK c \in Claims : c = loop[x].claim
    BY <1>1
  <1>2. /\ requirement' = requirement /\ paused' = paused /\ term' = term
        /\ receipt' = receipt /\ runs' = runs /\ requeuedAt' = requeuedAt
        /\ stopped' = stopped /\ conv' = conv /\ turn' = turn
    BY DEF TerminalAdmits, storeVars, conversationVars, historyVars
  <1>3. /\ Holds(c, x)
        /\ admission' = [admission EXCEPT ![c] =
             [phase |-> "admitted", terminal |-> x, epoch |-> loop[x].epoch, outcome |-> None]]
    BY DEF TerminalAdmits, CanAdmitTerminal
  <1>4. /\ ~Unadmitted(c)'
        /\ \A d \in Claims \ {c} : Unadmitted(d)' <=> Unadmitted(d)
    BY <1>2, <1>3 DEF Unadmitted, BoardTyped, AdmissionsTyped
  <1>5. AdmittedHeld'
    BY <1>2, <1>3, <1>4, AdmitsHeld DEF HeldInv
  <1>6. \A d \in Claims : ~Unadmitted(d) => ~Unadmitted(d)'
    BY <1>4, AdmitsOthers
  <1>7. TurnsAdmitted'
    <2> SUFFICES ASSUME NEW u \in Conversations, turn'[u] = "starting"
                 PROVE  ~Unadmitted(conv[u])'
      BY DEF TurnsAdmitted
    <2>1. PICK d \in Claims : d = conv[u]
      BY <1>2 DEF BoardTyped, ReceiptsTyped
    <2>2. ~Unadmitted(d)'
      BY <1>2, <1>6, <2>1 DEF HeldInv, TurnsAdmitted
    <2> QED BY <1>2, <2>1, <2>2 DEF Unadmitted
  <1>8. LinesAdmitted' /\ RunsAdmitted'
    BY <1>2, <1>6 DEF HeldInv, LinesAdmitted, RunsAdmitted, BoardTyped, RunsTyped,
                      TermsTyped, Sessions
  <1>9. StopsPaused'
    BY <1>2 DEF HeldInv, StopsPaused
  <1> QED BY <1>5, <1>7, <1>8, <1>9 DEF HeldInv

LEMMA TurnStartsHeld ==
  ASSUME BoardTyped, HeldInv, NEW v \in Conversations, TurnStarts(v), UNCHANGED historyVars
  PROVE  HeldInv'
  <1>1. /\ requirement' = requirement /\ paused' = paused /\ term' = term
        /\ receipt' = receipt /\ admission' = admission /\ requeuedAt' = requeuedAt
        /\ stopped' = stopped
    BY DEF TurnStarts, storeVars, terminalVars, historyVars
  <1>2. SameAdmitted /\ LinesKept /\ TurnsKept
    BY <1>1, SameReceivers, SameLines DEF TurnsKept, TurnStarts, BoardTyped, ReceiptsTyped
  <1>3. Quiet(requirement')
    BY <1>1, QuietSame DEF BoardTyped
  <1>4. AdmittedHeld' /\ TurnsAdmitted' /\ LinesAdmitted' /\ StopsPaused'
    BY <1>1, <1>2, <1>3, HeldQuiet, TurnsStay, LinesStay, StopsStay DEF HeldInv
  <1>5. RunsAdmitted'
    BY <1>1 DEF HeldInv, RunsAdmitted, TurnsAdmitted, TurnStarts, Unadmitted
  <1> QED BY <1>4, <1>5 DEF HeldInv

\* the phase of an admission moves on
LEMMA PhaseSame ==
  ASSUME AdmissionsTyped, NEW c \in Claims, admission[c].phase # "none",
         NEW p \in {"body_written", "effects_started"}, receipt' = receipt,
         admission' = [admission EXCEPT ![c].phase = p]
  PROVE  SameAdmitted
  BY DEF AdmissionsTyped, Admissions, SameAdmitted, Unadmitted

LEMMA TerminalTypesHeld ==
  ASSUME BoardTyped, HeldInv, NEW x \in Terminals, TerminalTypes(x)
  PROVE  HeldInv'
  <1> DEFINE c == loop[x].claim
  <1>1. x \in Targets /\ c \in Claims
    BY TerminalClaim DEF TerminalTypes, Working, LoopSteps
  <1>2. /\ requirement' = requirement /\ paused' = paused
        /\ receipt' = receipt /\ runs' = runs /\ requeuedAt' = requeuedAt
        /\ stopped' = stopped /\ conv' = conv /\ turn' = turn
    BY DEF TerminalTypes, storeVars, conversationVars, historyVars
  <1>3. /\ admission[c].phase = "admitted"
        /\ admission' = [admission EXCEPT ![c].phase = "body_written"]
        /\ term' = term \/ term' = [term EXCEPT ![x].line = @ \cup {c}]
    BY DEF TerminalTypes, CanAdvance
  <1> HIDE DEF c
  <1>4. SameAdmitted
    BY <1>1, <1>2, <1>3, PhaseSame DEF BoardTyped
  <1>5. Quiet(requirement') /\ TurnsKept
    BY <1>2, QuietSame, SameTurns DEF BoardTyped
  <1>6. AdmittedHeld' /\ TurnsAdmitted' /\ RunsAdmitted' /\ StopsPaused'
    BY <1>2, <1>4, <1>5, HeldQuiet, TurnsStay, RunsStay, StopsStay DEF HeldInv
  <1>7. LinesAdmitted'
    <2> SUFFICES ASSUME NEW y \in Terminals, NEW d \in term'[y].line PROVE ~Unadmitted(d)'
      BY DEF LinesAdmitted
    <2>1. d \in term[y].line \/ d = c
      BY <1>3 DEF BoardTyped, TermsTyped, Sessions
    <2>2. d \in Claims
      BY <1>1, <2>1 DEF BoardTyped, TermsTyped, Sessions
    <2>3. ~Unadmitted(d)
      BY <1>3, <2>1 DEF HeldInv, LinesAdmitted, Unadmitted
    <2> QED BY <1>4, <2>2, <2>3 DEF SameAdmitted
  <1> QED BY <1>6, <1>7 DEF HeldInv

LEMMA TerminalSubmitsHeld ==
  ASSUME BoardTyped, HeldInv, NEW x \in Terminals, TerminalSubmits(x)
  PROVE  HeldInv'
  <1> DEFINE c == loop[x].claim
  <1>1. x \in Targets /\ c \in Claims
    BY TerminalClaim DEF TerminalSubmits, Working, LoopSteps
  <1>2. /\ requirement' = requirement /\ paused' = paused
        /\ receipt' = receipt /\ requeuedAt' = requeuedAt
        /\ stopped' = stopped /\ conv' = conv /\ turn' = turn
    BY DEF TerminalSubmits, storeVars, conversationVars, historyVars
  <1>3. /\ admission[c].phase = "body_written"
        /\ admission' = [admission EXCEPT ![c].phase = "effects_started"]
        /\ \/ term' = term
           \/ term' = [term EXCEPT ![x].line = {}, ![x].given = @ \cup term[x].line]
        /\ runs' = runs \/ runs' = runs \cup term[x].line
    BY DEF TerminalSubmits, CanAdvance
  <1> HIDE DEF c
  <1>4. SameAdmitted
    BY <1>1, <1>2, <1>3, PhaseSame DEF BoardTyped
  <1>5. Quiet(requirement') /\ TurnsKept
    BY <1>2, QuietSame, SameTurns DEF BoardTyped
  <1>6. LinesKept
    BY <1>3 DEF LinesKept, BoardTyped, TermsTyped, Sessions
  <1>7. AdmittedHeld' /\ TurnsAdmitted' /\ LinesAdmitted' /\ StopsPaused'
    BY <1>2, <1>4, <1>5, <1>6, HeldQuiet, TurnsStay, LinesStay, StopsStay DEF HeldInv
  <1>8. RunsAdmitted'
    <2> SUFFICES ASSUME NEW d \in runs' PROVE ~Unadmitted(d)'
      BY DEF RunsAdmitted
    <2>1. d \in runs \/ d \in term[x].line
      BY <1>3
    <2>2. d \in Claims
      BY <2>1 DEF BoardTyped, RunsTyped, TermsTyped, Sessions
    <2>3. ~Unadmitted(d)
      BY <2>1 DEF HeldInv, RunsAdmitted, LinesAdmitted
    <2> QED BY <1>4, <2>2, <2>3 DEF SameAdmitted
  <1> QED BY <1>7, <1>8 DEF HeldInv

LEMMA PausesHeld ==
  ASSUME BoardTyped, HeldInv, NEW t \in Targets, Pauses(t) \/ Interrupts(t)
  PROVE  HeldInv'
  <1>1. TurnsAdmitted' /\ LinesAdmitted' /\ RunsAdmitted' /\ SameAdmitted
    BY ReceiversStay DEF HeldInv, Pauses, Interrupts
  <1>2. requirement' = requirement /\ requeuedAt' = requeuedAt
    BY DEF Pauses, Interrupts, historyVars
  <1>3. AdmittedHeld'
    BY <1>1, <1>2, HeldQuiet, QuietSame DEF HeldInv, BoardTyped
  <1>4. CASE Pauses(t)
    BY <1>1, <1>2, <1>3, <1>4
    DEF HeldInv, StopsPaused, Pauses, historyVars, BoardTyped, PausedTyped, RowsTyped,
        Rows, HistoryTyped
  <1>5. CASE Interrupts(t)
    <2>1. /\ paused' = [paused EXCEPT ![loop[t].tag] = TRUE]
          /\ \A r \in stopped' : r \in stopped \/ requirement[r].tag = loop[t].tag
      BY <1>5 DEF Interrupts
    <2>2. \A r \in stopped' : requirement[r].tag \in Tags
      <3>1. HistoryTyped'
        BY <1>5, InterruptsTyped DEF BoardTyped
      <3> QED BY <3>1 DEF HistoryTyped, BoardTyped, RowsTyped, Rows
    <2>3. StopsPaused'
      BY <1>2, <2>1, <2>2 DEF HeldInv, StopsPaused, BoardTyped, PausedTyped
    <2> QED BY <1>1, <1>3, <2>3 DEF HeldInv
  <1> QED BY <1>4, <1>5

\* the requirements in rs are requeued by a user, and no other row returns
LEMMA RequeuesHeld ==
  ASSUME BoardTyped, AdmittedHeld, SameAdmitted, NEW rs,
         requeuedAt' = RequeuedAt(rs),
         \A r \in Requirements :
           /\ requirement'[r].gen = requirement[r].gen
           /\ r \notin rs /\ requirement'[r].status = "pending"
                => requirement[r].status = "pending"
  PROVE  AdmittedHeld'
  <1> SUFFICES ASSUME NEW c \in Claims, ~Unadmitted(c)'
               PROVE  /\ c.gen <= requirement'[c.req].gen
                      /\ c.gen > requeuedAt'[c.req] =>
                           /\ requirement'[c.req].gen = c.gen
                           /\ requirement'[c.req].status # "pending"
    BY DEF AdmittedHeld
  <1>1. c.req \in Requirements /\ ~Unadmitted(c) /\ c.gen \in Int
    BY ClaimReq DEF SameAdmitted
  <1>2. /\ c.gen <= requirement[c.req].gen
        /\ c.gen > requeuedAt[c.req] => /\ requirement[c.req].gen = c.gen
                                        /\ requirement[c.req].status # "pending"
    BY <1>1 DEF AdmittedHeld
  <1>3. requeuedAt'[c.req] = IF c.req \in rs THEN requirement[c.req].gen
                             ELSE requeuedAt[c.req]
    BY <1>1, RequeuedAtFacts DEF BoardTyped
  <1>4. requirement[c.req].gen \in Int
    BY <1>1 DEF BoardTyped, RowsTyped, Rows
  <1>5. CASE c.req \in rs
    BY <1>1, <1>2, <1>3, <1>4, <1>5
  <1>6. CASE c.req \notin rs
    BY <1>1, <1>2, <1>3, <1>6
  <1> QED BY <1>5, <1>6

LEMMA HandlerResumesHeld ==
  ASSUME BoardTyped, HeldInv, NEW h \in Threads, HandlerResumes(h)
  PROVE  HeldInv'
  <1> DEFINE tag == handler[h].tag
             rows == {r \in Requirements : requirement[r].tag = tag}
             failed == {r \in rows : requirement[r].status = "failed"}
  <1>1. TurnsAdmitted' /\ LinesAdmitted' /\ RunsAdmitted' /\ SameAdmitted
    BY ReceiversStay DEF HeldInv, HandlerResumes
  <1>2. CASE paused[tag]
    <2>1. /\ requirement' = [r \in Requirements |->
                               IF r \in rows THEN ResumedForEnable(requirement[r])
                               ELSE requirement[r]]
          /\ paused' = [paused EXCEPT ![tag] = FALSE]
          /\ requeuedAt' = RequeuedAt(failed)
          /\ stopped' = stopped \ rows
      BY <1>2 DEF HandlerResumes
    <2>2. \A r \in Requirements :
            /\ requirement'[r].gen = requirement[r].gen
            /\ requirement'[r].tag = requirement[r].tag
            /\ r \notin failed /\ requirement'[r].status = "pending"
                 => requirement[r].status = "pending"
      <3> TAKE r \in Requirements
      <3>1. GoodRow(requirement[r])
        BY DEF BoardTyped, RowsTyped
      <3>2. CASE r \in rows
        BY <2>1, <3>1, <3>2, ResumedFacts
      <3>3. CASE r \notin rows
        BY <2>1, <3>3
      <3> QED BY <3>2, <3>3
    <2>3. AdmittedHeld'
      <3> HIDE DEF failed
      <3> QED BY <1>1, <2>1, <2>2, RequeuesHeld DEF HeldInv
    <2>4. StopsPaused'
      BY <2>1, <2>2 DEF HeldInv, StopsPaused, BoardTyped, HistoryTyped, PausedTyped,
                        RowsTyped, Rows
    <2> QED BY <1>1, <2>3, <2>4 DEF HeldInv
  <1>3. CASE ~paused[tag]
    <2>1. requirement' = requirement /\ paused' = paused /\ requeuedAt' = requeuedAt
          /\ stopped' = stopped
      BY <1>3 DEF HandlerResumes, storeVars, historyVars
    <2> QED BY <1>1, <2>1, HeldQuiet, QuietSame, StopsStay DEF HeldInv, BoardTyped
  <1> QED BY <1>2, <1>3

LEMMA RequeueHeld ==
  ASSUME BoardTyped, HeldInv, NEW r \in Requirements, Requeue(r)
  PROVE  HeldInv'
  <1>1. TurnsAdmitted' /\ LinesAdmitted' /\ RunsAdmitted' /\ SameAdmitted
    BY ReceiversStay DEF HeldInv, Requeue
  <1> DEFINE row == Requeued(requirement[r], FALSE)
  <1>2. row.gen = requirement[r].gen /\ row.tag = requirement[r].tag
    BY RequeuedFacts DEF BoardTyped, RowsTyped
  <1>3. /\ requirement' = [requirement EXCEPT ![r] = row]
        /\ requeuedAt' = RequeuedAt({r}) /\ stopped' = stopped \ {r} /\ paused' = paused
    BY DEF Requeue
  <1> HIDE DEF row
  <1>4. \A s \in Requirements :
            /\ requirement'[s].gen = requirement[s].gen
            /\ requirement'[s].tag = requirement[s].tag
            /\ s \notin {r} /\ requirement'[s].status = "pending"
                 => requirement[s].status = "pending"
    BY <1>2, <1>3 DEF BoardTyped, RowsTyped
  <1>5. AdmittedHeld'
    BY <1>1, <1>3, <1>4, RequeuesHeld DEF HeldInv
  <1>6. StopsPaused'
    BY <1>3, <1>4 DEF HeldInv, StopsPaused, BoardTyped, HistoryTyped
  <1> QED BY <1>1, <1>5, <1>6 DEF HeldInv

LEMMA ResumeTagHeld ==
  ASSUME BoardTyped, HeldInv, NEW tag \in Tags, NEW rs \in SUBSET Requirements,
         ResumeTag(tag, rs)
  PROVE  HeldInv'
  <1>1. TurnsAdmitted' /\ LinesAdmitted' /\ RunsAdmitted' /\ SameAdmitted
    BY ReceiversStay DEF HeldInv, ResumeTag
  <1> DEFINE rows == {r \in Requirements : requirement[r].tag = tag}
  <1>2. /\ requirement' = [r \in Requirements |->
                             IF r \in rs THEN Requeued(requirement[r], TRUE)
                             ELSE requirement[r]]
        /\ paused' = [paused EXCEPT ![tag] = FALSE]
        /\ requeuedAt' = RequeuedAt(rs) /\ stopped' = stopped \ rows
    BY DEF ResumeTag
  <1>3. \A r \in Requirements :
            /\ requirement'[r].gen = requirement[r].gen
            /\ requirement'[r].tag = requirement[r].tag
            /\ r \notin rs /\ requirement'[r].status = "pending"
                 => requirement[r].status = "pending"
    <2> TAKE r \in Requirements
    <2>1. GoodRow(requirement[r])
      BY DEF BoardTyped, RowsTyped
    <2>2. CASE r \in rs
      BY <1>2, <2>1, <2>2, RequeuedFacts
    <2>3. CASE r \notin rs
      BY <1>2, <2>3
    <2> QED BY <2>2, <2>3
  <1>4. AdmittedHeld'
    BY <1>1, <1>2, <1>3, RequeuesHeld DEF HeldInv
  <1>5. StopsPaused'
    BY <1>2, <1>3 DEF HeldInv, StopsPaused, BoardTyped, HistoryTyped, PausedTyped,
                      RowsTyped, Rows
  <1> QED BY <1>1, <1>4, <1>5 DEF HeldInv

LEMMA RetagHeld ==
  ASSUME BoardTyped, HeldInv, NEW r \in Requirements, NEW tag \in Tags, Retag(r, tag)
  PROVE  HeldInv'
  <1>1. TurnsAdmitted' /\ LinesAdmitted' /\ RunsAdmitted' /\ SameAdmitted
    BY ReceiversStay DEF HeldInv, Retag
  <1>2. /\ requirement' = [requirement EXCEPT ![r].tag = tag] /\ paused' = paused
        /\ stopped' = stopped \ {r} /\ requeuedAt' = requeuedAt
    BY DEF Retag
  <1>3. \A s \in Requirements :
            /\ requirement'[s].gen = requirement[s].gen
            /\ requirement'[s].status = requirement[s].status
            /\ s # r => requirement'[s].tag = requirement[s].tag
    BY <1>2 DEF BoardTyped, RowsTyped, Rows
  <1>4. AdmittedHeld'
    BY <1>1, <1>2, <1>3, ClaimReq DEF HeldInv, AdmittedHeld, SameAdmitted
  <1>5. StopsPaused'
    BY <1>2, <1>3 DEF HeldInv, StopsPaused, BoardTyped, HistoryTyped
  <1> QED BY <1>1, <1>4, <1>5 DEF HeldInv


\* no requirement is put in progress
NoneClaimed ==
  \A r \in Requirements :
    requirement'[r].status = "in_progress" => requirement[r].status = "in_progress"
StopStep ==
  \A r \in stopped :
    requirement'[r].status = "in_progress" => requirement[r].status = "in_progress"

LEMMA QuietClaimsNone ==
  ASSUME Quiet(requirement') PROVE NoneClaimed
  <1> SUFFICES ASSUME NEW r \in Requirements, requirement'[r].status = "in_progress"
               PROVE  requirement[r].status = "in_progress"
    BY DEF NoneClaimed
  <1>1. Moves(r, requirement'[r])
    BY DEF Quiet
  <1> QED BY <1>1 DEF Moves, Kept, Closed, Returned, Verdicts

LEMMA RequeuesClaimNone ==
  ASSUME BoardTyped,
         \/ \E h \in Threads : HandlerResumes(h)
         \/ \E r \in Requirements : Requeue(r)
         \/ \E tag \in Tags, rs \in SUBSET Requirements : ResumeTag(tag, rs)
         \/ \E r \in Requirements, tag \in Tags : Retag(r, tag)
  PROVE  NoneClaimed
  <1>1. \A r \in Requirements : GoodRow(requirement[r])
    BY DEF BoardTyped, RowsTyped
  <1>2. ASSUME NEW h \in Threads, HandlerResumes(h) PROVE NoneClaimed
    <2>1. \A r \in Requirements : \/ requirement'[r] = ResumedForEnable(requirement[r])
                                  \/ requirement'[r] = requirement[r]
      BY <1>2 DEF HandlerResumes, storeVars
    <2> QED BY <1>1, <2>1, ResumedFacts DEF NoneClaimed
  <1>3. ASSUME NEW r \in Requirements, Requeue(r) PROVE NoneClaimed
    <2>1. \A s \in Requirements : \/ requirement'[s] = Requeued(requirement[s], FALSE)
                                  \/ requirement'[s] = requirement[s]
      BY <1>3 DEF Requeue, BoardTyped, RowsTyped
    <2> QED BY <1>1, <2>1, RequeuedFacts DEF NoneClaimed
  <1>4. ASSUME NEW tag \in Tags, NEW rs \in SUBSET Requirements, ResumeTag(tag, rs)
        PROVE NoneClaimed
    <2>1. \A s \in Requirements : \/ requirement'[s] = Requeued(requirement[s], TRUE)
                                  \/ requirement'[s] = requirement[s]
      BY <1>4 DEF ResumeTag
    <2> QED BY <1>1, <2>1, RequeuedFacts DEF NoneClaimed
  <1>5. ASSUME NEW r \in Requirements, NEW tag \in Tags, Retag(r, tag) PROVE NoneClaimed
    BY <1>5 DEF NoneClaimed, Retag, BoardTyped, RowsTyped, Rows
  <1> QED BY <1>2, <1>3, <1>4, <1>5

LEMMA SameRowsClaimNone ==
  ASSUME requirement' = requirement PROVE NoneClaimed
  BY DEF NoneClaimed

LEMMA NoneClaimedStops ==
  ASSUME BoardTyped, NoneClaimed PROVE StopStep
  BY DEF NoneClaimed, StopStep, BoardTyped, HistoryTyped

\* the step is still, or one of the others
HeldStep == HeldInv' /\ StopStep

LEMMA StillHeld ==
  ASSUME BoardTyped, HeldInv, Still PROVE HeldStep
  BY StillKeeps, QuietClaimsNone, NoneClaimedStops DEF HeldStep, Still

LEMMA LoopStepHeld ==
  ASSUME BoardTyped, HeldInv, NEW t \in Targets, LoopStep(t)
  PROVE  HeldStep
  <1>1. CASE \/ LoopPrepares(t) \/ LoopRecovers(t) \/ LoopFindsNothing(t) \/ LoopExits(t)
             \/ LoopPublishes(t) \/ SendRefused(t) \/ WaitObserves(t)
             \/ WaitGivesUp(t) \/ TerminalScopes(t) \/ TerminalReplays(t)
             \/ TerminalLoses(t) \/ LoopReturns(t) \/ LoopReachesCap(t)
    BY <1>1, LoopsStill, StillHeld
  <1>2. CASE Settles(t) \/ Releases(t) \/ CustodyCloses(t)
    BY <1>2, RowsStill, StillHeld
  <1>3. CASE CustodyRecovers(t)
    BY <1>3, CustodyRecoversStill, StillHeld
  <1>4. CASE t \in Conversations /\ SendReplays(t)
    BY <1>4, SendReplaysStill, StillHeld
  <1>5. CASE /\ t \in Terminals
             /\ TerminalTurnEnds(t) \/ TerminalParks(t) \/ TerminalWriteRefused(t)
    BY <1>5, TerminalTurnEndsStill, TerminalParksStill, TerminalWriteRefusedStill, StillHeld
  <1>6. CASE LoopClaims(t)
    BY <1>6, LoopClaimsHeld DEF HeldStep, StopStep
  <1>7. CASE Pauses(t) \/ Interrupts(t)
    BY <1>7, PausesHeld, SameRowsClaimNone, NoneClaimedStops
    DEF HeldStep, Pauses, Interrupts
  <1>8. CASE t \in Conversations /\ SendAdmits(t)
    BY <1>8, SendAdmitsHeld, SameRowsClaimNone, NoneClaimedStops
    DEF HeldStep, SendAdmits, storeVars
  <1>9. CASE /\ t \in Terminals
             /\ TerminalAdmits(t) \/ TerminalTypes(t) \/ TerminalSubmits(t)
    BY <1>9, TerminalAdmitsHeld, TerminalTypesHeld, TerminalSubmitsHeld, SameRowsClaimNone,
       NoneClaimedStops
    DEF HeldStep, TerminalAdmits, TerminalTypes, TerminalSubmits, storeVars
  <1> QED BY <1>1, <1>2, <1>3, <1>4, <1>5, <1>6, <1>7, <1>8, <1>9 DEF LoopStep

LEMMA HandlerStepHeld ==
  ASSUME BoardTyped, HeldInv, NEW h \in Threads, HandlerStep(h)
  PROVE  HeldStep
  <1>1. CASE HandlerStops(h) \/ HandlerStarts(h)
    BY <1>1, RequestsStill, StillHeld
  <1>2. CASE HandlerParks(h)
    BY <1>2, HandlerParksStill, StillHeld
  <1>3. CASE HandlerResolves(h)
    BY <1>3, RowsStill, StillHeld
  <1>4. CASE HandlerResumes(h)
    BY <1>4, HandlerResumesHeld, RequeuesClaimNone, NoneClaimedStops DEF HeldStep
  <1> QED BY <1>1, <1>2, <1>3, <1>4 DEF HandlerStep

LEMMA ReceiverStepHeld ==
  ASSUME BoardTyped, HeldInv, ReceiverStep
  PROVE  HeldStep
  <1>1. UNCHANGED historyVars
    BY DEF ReceiverStep
  <1>2. CASE \E v \in Conversations : TurnStarts(v)
    BY <1>1, <1>2, TurnStartsHeld, SameRowsClaimNone, NoneClaimedStops
    DEF HeldStep, TurnStarts, storeVars
  <1>3. CASE \/ \E v \in Conversations : AgentDeclares(v)
             \/ \E x \in Terminals : CliDeclares(x)
    BY <1>1, <1>3, RowsStill, StillHeld
  <1>4. CASE \E v \in Conversations, result \in {"ok", "error"} : TurnEnds(v, result)
    BY <1>1, <1>4, TurnEndsStill, StillHeld
  <1>5. CASE \E x \in Terminals : PtyExits(x)
    BY <1>1, <1>5, PtysStill, StillHeld
  <1> QED BY <1>2, <1>3, <1>4, <1>5 DEF ReceiverStep

LEMMA UserStepHeld ==
  ASSUME BoardTyped, HeldInv, UserStep
  PROVE  HeldStep
  <1>1. CASE \/ \E h \in Handlers, t \in Targets, tag \in Tags \cup {None} :
                  SetAutowork(h, t, tag)
             \/ \E v \in Conversations : UserCancels(v)
    BY <1>1, RequestsStill, StillHeld
  <1>2. CASE \E r \in Requirements : Delete(r) \/ \E status \in Verdicts : SetStatus(r, status)
    BY <1>2, RowsStill, StillHeld
  <1>3. CASE \E x \in Terminals : DeleteTerminal(x)
    BY <1>3, DeleteTerminalStill, StillHeld
  <1>4. CASE \E v \in Conversations : UserSends(v) /\ UNCHANGED historyVars
    BY <1>4, UserSendsStill, StillHeld
  <1>5. CASE \E x \in Terminals :
               /\ Kill(x) \/ Relaunch(x, TRUE) \/ Relaunch(x, FALSE)
               /\ UNCHANGED historyVars
    BY <1>5, PtysStill, StillHeld
  <1>6. CASE \/ \E r \in Requirements : Requeue(r)
             \/ \E tag \in Tags, rs \in SUBSET Requirements : ResumeTag(tag, rs)
             \/ \E r \in Requirements, tag \in Tags : Retag(r, tag)
    BY <1>6, RequeueHeld, ResumeTagHeld, RetagHeld, RequeuesClaimNone, NoneClaimedStops
    DEF HeldStep
  <1> QED BY <1>1, <1>2, <1>3, <1>4, <1>5, <1>6 DEF UserStep

LEMMA NextHeld ==
  ASSUME BoardTyped, HeldInv, AutoWorkNext
  PROVE  HeldStep
  <1>1. CASE \E t \in Targets : LoopStep(t)
    BY <1>1, LoopStepHeld
  <1>2. CASE \E t \in Targets : LoopDies(t) \/ ResumeBinding(t)
    BY <1>2, LoopsStill, StillHeld
  <1>3. CASE \E v \in Conversations : SendFails(v)
    BY <1>3, TargetKinds, LoopsStill, StillHeld
  <1>4. CASE \E h \in Threads : HandlerStep(h)
    BY <1>4, HandlerStepHeld
  <1>5. CASE \E r \in Requirements : Sweep(r)
    BY <1>5, RowsStill, StillHeld
  <1>6. CASE ReceiverStep
    BY <1>6, ReceiverStepHeld
  <1>7. CASE UserStep
    BY <1>7, UserStepHeld
  <1>8. CASE Crash
    BY <1>8, CrashStill, StillHeld
  <1> QED BY <1>1, <1>2, <1>3, <1>4, <1>5, <1>6, <1>7, <1>8 DEF AutoWorkNext

LEMMA InitHeld ==
  ASSUME AutoWorkInit PROVE HeldInv
  BY DEF AutoWorkInit, ReceiversInit, NoAdmission, HeldInv, AdmittedHeld, TurnsAdmitted,
         LinesAdmitted, RunsAdmitted, StopsPaused, Unadmitted

LEMMA StutterHeld ==
  ASSUME BoardTyped, HeldInv, UNCHANGED vars PROVE HeldInv'
  <1>1. UNCHANGED <<storeVars, receiverVars, historyVars>>
    BY DEF vars
  <1> QED BY <1>1, LoopsOnlyStill, StillKeeps

LEMMA AlwaysHeld == AutoWorkSpec => []HeldInv
  <1>1. BoardTyped /\ HeldInv /\ [AutoWorkNext]_vars => HeldInv'
    BY NextHeld, StutterHeld DEF HeldStep
  <1> QED BY <1>1, InitHeld, AlwaysTyped, PTL DEF AutoWorkSpec

\* Between two explicit requeues no agent is given a requirement twice,
\* whatever loops die, toggles, restarts, kills and late receipts interleave,
\* on any number of Conversations and terminals.
THEOREM RunsAtMostOnce == AutoWorkSpec => []AtMostOnce
  BY AlwaysTyped, AlwaysHeld, HeldGivesAtMostOnce, PTL

\* A requirement whose turn the user stopped is claimed by no loop before a
\* user resumes its tag, enables AutoWork on it, retags or requeues it.
THEOREM StopsHold == AutoWorkSpec => UserStopHolds
  <1>1. BoardTyped /\ HeldInv /\ [AutoWorkNext]_vars =>
          [\A r \in stopped :
             requirement'[r].status = "in_progress"
               => requirement[r].status = "in_progress"]_vars
    BY NextHeld DEF HeldStep, StopStep
  <1> QED BY <1>1, AlwaysTyped, AlwaysHeld, PTL DEF AutoWorkSpec, UserStopHolds


=============================================================================
