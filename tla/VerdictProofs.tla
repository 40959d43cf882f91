---------------------------- MODULE VerdictProofs ----------------------------
(***************************************************************************)
(* Proof that AutoWork reports done only what an agent was given, for      *)
(* every value of the constants.                                           *)
(*                                                                         *)
(* A verdict is written under the claim that Holds compares, from four     *)
(* sources: the agent of a running turn, the program behind a terminal,    *)
(* the outcome the loop classified, and the outcome of a settled           *)
(* admission.  The invariant says of each source that its claim was handed *)
(* over, or is past, so that Holds refuses the verdict.                    *)
(***************************************************************************)
EXTENDS AutoWorkProofs

\* the row no longer holds claim c
Past(c) ==
  \/ requirement[c.req].gen > c.gen
  \/ requirement[c.req].gen = c.gen /\ requirement[c.req].status # "in_progress"
Earned(c) == c \in runs \/ Past(c)

TurnsRun ==
  \A v \in Conversations, c \in Claims : turn[v] = "running" /\ conv[v] = c => c \in runs
ReceiptsRun == \A c \in Claims : receipt[c] = "ok" => c \in runs
GivenRun == \A x \in Terminals : term[x].given \subseteq runs
OutcomesEarned == \A c \in Claims : admission[c].outcome = "done" => Earned(c)
LoopsEarned ==
  \A t \in Targets, c \in Claims :
    loop[t].claim = c =>
      /\ c.gen <= requirement[c.req].gen
      /\ loop[t].pc = "settling" /\ loop[t].outcome = "done" => Earned(c)

EarnedInv == TurnsRun /\ ReceiptsRun /\ GivenRun /\ OutcomesEarned /\ LoopsEarned

-----------------------------------------------------------------------------
(* What every step does to the sources of a verdict.                       *)

RowsForward ==
  \A r \in Requirements :
    \/ requirement'[r].gen = requirement[r].gen + 1
    \/ /\ requirement'[r].gen = requirement[r].gen
       /\ requirement'[r].status = "in_progress" => requirement[r].status = "in_progress"
TurnsHonest ==
  \A v \in Conversations, c \in Claims :
    turn'[v] = "running" /\ conv'[v] = c =>
      (turn[v] = "running" /\ conv[v] = c) \/ c \in runs'
ReceiptsHonest ==
  \A c \in Claims : receipt'[c] = "ok" => receipt[c] = "ok" \/ c \in runs'
GivenHonest == \A x \in Terminals : term'[x].given \subseteq term[x].given \cup runs'
OutcomesHonest ==
  \A c \in Claims : admission'[c].outcome = "done" => admission[c].outcome = "done" \/ Past(c)
LoopsHonest ==
  \A t \in Targets, c \in Claims :
    loop'[t].claim = c =>
      /\ loop[t].claim = c \/ c.gen <= requirement'[c.req].gen
      /\ loop'[t].pc = "settling" /\ loop'[t].outcome = "done" =>
           \/ loop[t].claim = c /\ loop[t].pc = "settling" /\ loop[t].outcome = "done"
           \/ Earned(c)'

\* f is a value of requirement' in which a row becomes done only after a run
DoneFree(f) ==
  \A r \in Requirements :
    requirement[r].status = "in_progress" /\ f[r].status = "done" => ClaimOf(r) \in runs

Honest ==
  /\ RowsForward /\ runs \subseteq runs' /\ TurnsHonest /\ ReceiptsHonest /\ GivenHonest
  /\ OutcomesHonest /\ LoopsHonest /\ DoneFree(requirement')

LEMMA PastStays ==
  ASSUME BoardTyped, RowsForward, NEW c \in Claims, Past(c) PROVE Past(c)'
  <1>1. c.req \in Requirements /\ c.gen \in Int
    BY ClaimReq
  <1>2. requirement[c.req].gen \in Int
    BY <1>1 DEF BoardTyped, RowsTyped, Rows
  <1>3. CASE requirement'[c.req].gen = requirement[c.req].gen + 1
    BY <1>1, <1>2, <1>3 DEF Past
  <1>4. CASE /\ requirement'[c.req].gen = requirement[c.req].gen
             /\ requirement'[c.req].status = "in_progress"
                  => requirement[c.req].status = "in_progress"
    BY <1>1, <1>2, <1>4 DEF Past
  <1> QED BY <1>1, <1>3, <1>4 DEF RowsForward

LEMMA EarnedStays ==
  ASSUME BoardTyped, RowsForward, runs \subseteq runs', NEW c \in Claims, Earned(c)
  PROVE  Earned(c)'
  BY PastStays DEF Earned

LEMMA HonestKeeps ==
  ASSUME BoardTyped, BoardTyped', EarnedInv, Honest PROVE EarnedInv'
  <1>1. \A c \in Claims : Earned(c) => Earned(c)'
    BY EarnedStays DEF Honest
  <1>2. TurnsRun' /\ ReceiptsRun'
    BY DEF EarnedInv, Honest, TurnsRun, ReceiptsRun, TurnsHonest, ReceiptsHonest
  <1>3. GivenRun'
    BY DEF EarnedInv, Honest, GivenRun, GivenHonest
  <1>4. OutcomesEarned'
    BY <1>1 DEF EarnedInv, Honest, OutcomesEarned, OutcomesHonest, Earned
  <1>5. LoopsEarned'
    <2> SUFFICES ASSUME NEW t \in Targets, NEW c \in Claims, loop'[t].claim = c
                 PROVE  /\ c.gen <= requirement'[c.req].gen
                        /\ loop'[t].pc = "settling" /\ loop'[t].outcome = "done" => Earned(c)'
      BY DEF LoopsEarned
    <2>1. c.req \in Requirements /\ c.gen \in Int
      BY ClaimReq
    <2>2. requirement[c.req].gen \in Int /\ requirement'[c.req].gen \in Int
      BY <2>1 DEF BoardTyped, RowsTyped, Rows
    <2>3. /\ loop[t].claim = c \/ c.gen <= requirement'[c.req].gen
          /\ loop'[t].pc = "settling" /\ loop'[t].outcome = "done" =>
               \/ loop[t].claim = c /\ loop[t].pc = "settling" /\ loop[t].outcome = "done"
               \/ Earned(c)'
      BY DEF Honest, LoopsHonest
    <2>4. loop[t].claim = c =>
            /\ c.gen <= requirement[c.req].gen
            /\ loop[t].pc = "settling" /\ loop[t].outcome = "done" => Earned(c)
      BY DEF EarnedInv, LoopsEarned
    <2>5. requirement'[c.req].gen >= requirement[c.req].gen
      BY <2>1, <2>2 DEF Honest, RowsForward
    <2>6. c.gen <= requirement'[c.req].gen
      BY <2>1, <2>2, <2>3, <2>4, <2>5
    <2> QED BY <1>1, <2>3, <2>4, <2>6
  <1> QED BY <1>2, <1>3, <1>4, <1>5 DEF EarnedInv

-----------------------------------------------------------------------------
(* Facts about the parts of a step.                                        *)

LEMMA QuietForward ==
  ASSUME Quiet(requirement') PROVE RowsForward
  <1> SUFFICES ASSUME NEW r \in Requirements
               PROVE  /\ requirement'[r].gen = requirement[r].gen
                      /\ requirement'[r].status = "in_progress"
                           => requirement[r].status = "in_progress"
    BY DEF RowsForward
  <1>1. Moves(r, requirement'[r])
    BY DEF Quiet
  <1> QED BY <1>1 DEF Moves, Kept, Closed, Returned, Verdicts

LEMMA SameForward ==
  ASSUME requirement' = requirement PROVE RowsForward /\ DoneFree(requirement')
  BY DEF RowsForward, DoneFree

LEMMA SameConversations ==
  ASSUME UNCHANGED conversationVars PROVE TurnsHonest /\ ReceiptsHonest
  BY DEF conversationVars, TurnsHonest, ReceiptsHonest

LEMMA SameTerminals ==
  ASSUME UNCHANGED <<term, admission>> PROVE GivenHonest /\ OutcomesHonest
  BY DEF GivenHonest, OutcomesHonest

LEMMA SameReceiversHonest ==
  ASSUME UNCHANGED receiverVars
  PROVE  /\ TurnsHonest /\ ReceiptsHonest /\ GivenHonest /\ OutcomesHonest
         /\ runs \subseteq runs'
  BY SameConversations, SameTerminals DEF receiverVars, conversationVars

\* loops
LEMMA NoneNoClaim == None \notin Claims
  BY ReceiversAssumption

LEMMA LoopsSame ==
  ASSUME loop' = loop PROVE LoopsHonest
  BY DEF LoopsHonest

LEMMA LoopResets ==
  ASSUME BoardTyped, NEW t, NEW pc, NEW tag,
         loop' = [loop EXCEPT ![t] = LoopAt(pc, tag)]
  PROVE  LoopsHonest
  <1>1. LoopAt(pc, tag).claim \notin Claims
    BY NoneNoClaim DEF LoopAt
  <1> QED BY <1>1 DEF LoopsHonest, BoardTyped, LoopTyped

LEMMA LoopGoes ==
  ASSUME BoardTyped, NEW t \in Targets, NEW pc, pc # "settling", Goto(t, pc)
  PROVE  LoopsHonest
  <1>1. /\ loop'[t].pc = pc /\ loop'[t].claim = loop[t].claim /\ LoopOthers(t)
    BY GotoFacts DEF BoardTyped
  <1> QED BY <1>1 DEF LoopsHonest, LoopOthers

LEMMA LoopEnds ==
  ASSUME BoardTyped, NEW t \in Targets, NEW out, Ends(t, out),
         NEW d, d = loop[t].claim, out = "done" => Earned(d)'
  PROVE  LoopsHonest
  <1>1. /\ loop'[t].claim = loop[t].claim /\ loop'[t].outcome = out /\ LoopOthers(t)
    BY EndsFacts DEF BoardTyped
  <1> QED BY <1>1 DEF LoopsHonest, LoopOthers

\* a loop takes a claim
LEMMA LoopTakes ==
  ASSUME BoardTyped, NEW t \in Targets, NEW new, NEW d \in Claims,
         new.claim = d, new.pc # "settling", d.gen <= requirement'[d.req].gen,
         loop' = [loop EXCEPT ![t] = new]
  PROVE  LoopsHonest
  BY DEF LoopsHonest, BoardTyped, LoopTyped

\* rows
LEMMA WithVerdictDone ==
  ASSUME RowsTyped, NEW c \in Claims, NEW t, NEW s,
         s # "done" \/ Earned(c)
  PROVE  DoneFree(WithVerdict(c, t, s))
  <1> SUFFICES ASSUME NEW r \in Requirements, requirement[r].status = "in_progress",
                      WithVerdict(c, t, s)[r].status = "done"
               PROVE  ClaimOf(r) \in runs
    BY DEF DoneFree
  <1>1. Holds(c, t)
    BY DEF WithVerdict
  <1>2. c.req \in Requirements
    BY ClaimReq
  <1>3. WithVerdict(c, t, s) = [requirement EXCEPT ![c.req] = Resolved(requirement[c.req], s)]
    BY <1>1 DEF WithVerdict
  <1>4. r = c.req
    BY <1>2, <1>3 DEF RowsTyped
  <1>5. Resolved(requirement[r], s).status = s
    BY DEF RowsTyped, Rows, Resolved
  <1>6. s = "done"
    BY <1>2, <1>3, <1>4, <1>5 DEF RowsTyped
  <1>7. ~Past(c)
    <2>1. c.gen \in Int /\ requirement[c.req].gen = c.gen
      BY <1>1, ClaimReq DEF Holds
    <2> QED BY <1>1, <2>1 DEF Past, Holds
  <1> QED BY <1>1, <1>4, <1>6, <1>7, ClaimOfHeld DEF Earned

LEMMA OneRowDone ==
  ASSUME RowsTyped, NEW r \in Requirements, NEW row, row.status # "done"
  PROVE  DoneFree([requirement EXCEPT ![r] = row])
  BY DEF RowsTyped, DoneFree

LEMMA AbandonedDone ==
  ASSUME RowsTyped, NEW c \in Claims, NEW t
  PROVE  DoneFree(AbandonedOrQuarantined(c, t))
  <1>1. CASE CanAbandon(c, t)
    <2>1. c.req \in Requirements /\ Abandoned(requirement[c.req]).status # "done"
      BY ClaimReq, AbandonedFacts DEF RowsTyped
    <2> QED BY <1>1, <2>1, OneRowDone DEF AbandonedOrQuarantined
  <1>2. CASE ~CanAbandon(c, t)
    BY <1>2, WithVerdictDone DEF AbandonedOrQuarantined
  <1> QED BY <1>1, <1>2

LEMMA ClosedRowsDone ==
  ASSUME RowsTyped, OutcomesEarned, NEW c \in Claims, NEW t
  PROVE  DoneFree(ClosedRows(c, t))
  <1>1. CASE t \in Conversations \/ admission[c].phase = "none"
    BY <1>1, AbandonedDone DEF ClosedRows
  <1>2. CASE ~(t \in Conversations \/ admission[c].phase = "none")
    <2> DEFINE s == IF admission[c].phase = "settled" THEN admission[c].outcome
                    ELSE "needs_review"
    <2>1. s # "done" \/ Earned(c)
      BY DEF OutcomesEarned
    <2>2. ClosedRows(c, t) = WithVerdict(c, t, s)
      BY <1>2 DEF ClosedRows
    <2> HIDE DEF s
    <2> QED BY <2>1, <2>2, WithVerdictDone
  <1> QED BY <1>1, <1>2

LEMMA SettleRowsDone ==
  ASSUME RowsTyped, LoopsEarned, NEW t \in Targets, loop[t].claim \in Claims,
         loop[t].pc = "settling"
  PROVE  DoneFree(SettleRows(t))
  <1>1. CASE loop[t].outcome \in Verdicts
    <2>1. loop[t].outcome # "errored"
      BY <1>1 DEF Verdicts
    <2>2. SettleRows(t) = WithVerdict(loop[t].claim, t, loop[t].outcome)
      BY <1>1, <2>1 DEF SettleRows
    <2>3. loop[t].outcome # "done" \/ Earned(loop[t].claim)
      BY DEF LoopsEarned
    <2> QED BY <2>2, <2>3, WithVerdictDone
  <1>2. CASE loop[t].outcome \notin Verdicts
    <2>1. \/ SettleRows(t) = WithVerdict(loop[t].claim, t, "failed")
          \/ SettleRows(t) = AbandonedOrQuarantined(loop[t].claim, t)
      BY <1>2 DEF SettleRows
    <2> QED BY <2>1, WithVerdictDone, AbandonedDone
  <1> QED BY <1>1, <1>2

LEMMA ReviewedDone ==
  ASSUME RowsTyped, NEW rs
  PROVE  DoneFree([r \in Requirements |-> IF r \in rs THEN Resolved(requirement[r], "needs_review")
                                          ELSE requirement[r]])
  <1>1. \A r \in Requirements : Resolved(requirement[r], "needs_review").status = "needs_review"
    BY DEF RowsTyped, Rows, Resolved
  <1> QED BY <1>1 DEF DoneFree

LEMMA ParkedRowsDone ==
  ASSUME RowsTyped, NEW cs PROVE DoneFree(ParkedRows(cs))
  <1> DEFINE rs == {r \in Requirements :
                      \E c \in cs : c.req = r /\ Holds(c, admission[c].terminal)}
  <1>1. ParkedRows(cs) = [r \in Requirements |->
                            IF r \in rs THEN Resolved(requirement[r], "needs_review")
                            ELSE requirement[r]]
    BY DEF ParkedRows
  <1> HIDE DEF rs
  <1> QED BY <1>1, ReviewedDone

\* a parked admission takes the verdict of a row that is past
LEMMA ParkedOutcomes ==
  ASSUME BoardTyped, NEW cs, admission' = ParkedAdmissions(cs)
  PROVE  OutcomesHonest
  <1> SUFFICES ASSUME NEW c \in Claims, admission'[c].outcome = "done",
                      admission[c].outcome # "done"
               PROVE  Past(c)
    BY DEF OutcomesHonest
  <1>1. "done" = Projected(c, admission[c].terminal)
    BY ParkedAdmissionsFacts DEF BoardTyped
  <1>2. requirement[c.req].gen = c.gen /\ requirement[c.req].status = "done"
    BY <1>1 DEF Projected
  <1> QED BY <1>2 DEF Past

LEMMA ParkHonest ==
  ASSUME BoardTyped, NEW cs, Park(cs), UNCHANGED conversationVars
  PROVE  /\ RowsForward /\ TurnsHonest /\ ReceiptsHonest /\ OutcomesHonest
         /\ DoneFree(requirement')
  BY ParkTyped, QuietForward, SameConversations, ParkedOutcomes, ParkedRowsDone
  DEF BoardTyped, Park

-----------------------------------------------------------------------------
(* Every step is honest: the loop.                                         *)

\* the steps that move only the loop, and not into settling
LEMMA LoopMovesHonest ==
  ASSUME BoardTyped, NEW t \in Targets,
         \/ LoopPrepares(t) \/ LoopFindsNothing(t) \/ LoopExits(t) \/ LoopPublishes(t)
         \/ TerminalLoses(t) \/ LoopReturns(t) \/ LoopReachesCap(t) \/ LoopDies(t)
         \/ Pauses(t) \/ Interrupts(t)
  PROVE  Honest
  <1>1. requirement' = requirement /\ UNCHANGED receiverVars
    BY DEF LoopPrepares, LoopFindsNothing, LoopExits, LoopPublishes, TerminalLoses,
           LoopReturns, LoopReachesCap, LoopDies, Pauses, Interrupts, storeVars
  <1>2. LoopsHonest
    <2>1. CASE LoopPrepares(t) \/ LoopFindsNothing(t) \/ LoopReturns(t) \/ LoopReachesCap(t)
               \/ LoopDies(t)
      <3>1. PICK pc : loop' = [loop EXCEPT ![t] = LoopAt(pc, loop[t].tag)]
        BY <2>1 DEF LoopPrepares, LoopFindsNothing, LoopReturns, LoopReachesCap, LoopDies
      <3> QED BY <3>1, LoopResets
    <2>2. CASE LoopExits(t) \/ LoopPublishes(t) \/ TerminalLoses(t) \/ Pauses(t)
               \/ Interrupts(t)
      BY <2>2, LoopGoes DEF LoopExits, LoopPublishes, TerminalLoses, Pauses, Interrupts
    <2> QED BY <2>1, <2>2
  <1> QED BY <1>1, <1>2, SameForward, SameReceiversHonest DEF Honest

LEMMA LoopRecoversHonest ==
  ASSUME BoardTyped, NEW t \in Targets, LoopRecovers(t)
  PROVE  Honest
  <1>1. requirement' = requirement /\ UNCHANGED receiverVars
    BY DEF LoopRecovers, storeVars
  <1>2. PICK r \in Active(loop[t].tag, t) :
          loop' = [loop EXCEPT ![t].pc = "committed", ![t].recovered = TRUE,
                               ![t].claim = [req |-> r, gen |-> requirement[r].gen]]
    BY DEF LoopRecovers
  <1>3. PICK d \in Claims : d = [req |-> r, gen |-> requirement[r].gen]
    BY ActiveClaim DEF BoardTyped
  <1>4. d.req = r /\ d.gen = requirement[r].gen
    BY <1>3
  <1> DEFINE new == [loop[t] EXCEPT !.pc = "committed", !.recovered = TRUE, !.claim = d]
  <1>5. loop' = [loop EXCEPT ![t] = new]
    BY <1>2, <1>3 DEF BoardTyped, LoopTyped
  <1>6. new.claim = d /\ new.pc = "committed"
    BY DEF BoardTyped, LoopTyped, Loops
  <1>7. d.gen <= requirement'[d.req].gen
    BY <1>1, <1>4, ClaimReq
  <1> HIDE DEF new
  <1>8. LoopsHonest
    BY <1>5, <1>6, <1>7, LoopTakes
  <1> QED BY <1>1, <1>8, SameForward, SameReceiversHonest DEF Honest

LEMMA LoopClaimsHonest ==
  ASSUME BoardTyped, NEW t \in Targets, LoopClaims(t)
  PROVE  Honest
  <1>1. UNCHANGED receiverVars
    BY DEF LoopClaims
  <1>2. PICK r \in Claimable(loop[t].tag, t) :
          /\ requirement' = [requirement EXCEPT ![r] = Claimed(@, t)]
          /\ loop' = [loop EXCEPT ![t].pc = "committed",
                                  ![t].claim = [req |-> r, gen |-> requirement[r].gen + 1]]
    BY DEF LoopClaims
  <1> DEFINE row == Claimed(requirement[r], t)
  <1>3. r \in Requirements /\ GoodRow(requirement[r]) /\ requirement[r].gen < MaxClaims
        /\ requirement[r].status = "pending"
    BY DEF Claimable, BoardTyped, RowsTyped
  <1>4. row.gen = requirement[r].gen + 1 /\ row.status = "in_progress"
    BY <1>3, ClaimedFacts
  <1>5. requirement' = [requirement EXCEPT ![r] = row]
    BY <1>2
  <1>6. requirement[r].gen + 1 \in 1 .. MaxClaims /\ requirement \in [Requirements -> Rows]
    BY <1>3, StoreAssumption DEF GoodRow, Rows, BoardTyped, RowsTyped
  <1>7. [req |-> r, gen |-> requirement[r].gen + 1] \in Claims
    BY <1>3, <1>6 DEF Claims
  <1>8. PICK d \in Claims : d = [req |-> r, gen |-> requirement[r].gen + 1]
    BY <1>7
  <1>9. d.req = r /\ d.gen = requirement[r].gen + 1
    BY <1>8
  <1> HIDE DEF row
  <1>10. RowsForward /\ DoneFree(requirement')
    <2>1. requirement'[r] = row /\ \A s \in Requirements \ {r} : requirement'[s] = requirement[s]
      BY <1>3, <1>5, <1>6
    <2> QED BY <1>3, <1>4, <2>1 DEF RowsForward, DoneFree
  <1> DEFINE new == [loop[t] EXCEPT !.pc = "committed", !.claim = d]
  <1>11. loop' = [loop EXCEPT ![t] = new]
    BY <1>2, <1>8 DEF BoardTyped, LoopTyped
  <1>12. new.claim = d /\ new.pc = "committed"
    BY DEF BoardTyped, LoopTyped, Loops
  <1>13. d.gen <= requirement'[d.req].gen
    BY <1>3, <1>4, <1>5, <1>6, <1>9
  <1> HIDE DEF new
  <1>14. LoopsHonest
    BY <1>11, <1>12, <1>13, LoopTakes
  <1> QED BY <1>1, <1>10, <1>14, SameReceiversHonest DEF Honest

\* the settled rows
LEMMA SettlesHonest ==
  ASSUME BoardTyped, EarnedInv, NEW t \in Targets,
         Settles(t) \/ Releases(t) \/ CustodyCloses(t)
  PROVE  Honest
  <1>1. UNCHANGED receiverVars
    BY DEF Settles, Releases, CustodyCloses
  <1>2. RowsForward
    BY SettlesTyped, ReleasesTyped, CustodyClosesTyped, QuietForward
  <1>3. loop[t].claim \in Claims
    BY WorkingClaim DEF BoardTyped, Settles, Releases, CustodyCloses, Working, LoopSteps
  <1>4. DoneFree(requirement')
    <2>1. CASE Settles(t)
      BY <1>3, <2>1, SettleRowsDone DEF Settles, BoardTyped, EarnedInv
    <2>2. CASE Releases(t)
      BY <1>3, <2>2, AbandonedDone DEF Releases, BoardTyped
    <2>3. CASE CustodyCloses(t)
      BY <1>3, <2>3, ClosedRowsDone DEF CustodyCloses, BoardTyped, EarnedInv
    <2> QED BY <2>1, <2>2, <2>3
  <1>5. LoopsHonest
    <2>1. CASE Settles(t) \/ Releases(t)
      <3>1. PICK pc : pc \in {"pausing", "settled"} /\ Goto(t, pc)
        BY <2>1 DEF Settles, Releases
      <3> QED BY <3>1, LoopGoes
    <2>2. CASE CustodyCloses(t)
      BY <2>2, LoopResets DEF CustodyCloses
    <2> QED BY <2>1, <2>2
  <1> QED BY <1>1, <1>2, <1>4, <1>5, SameReceiversHonest DEF Honest

LEMMA CustodyRecoversHonest ==
  ASSUME BoardTyped, NEW t \in Targets, CustodyRecovers(t)
  PROVE  Honest
  <1>1. UNCHANGED conversationVars /\ term' = term /\ runs' = runs
    BY DEF CustodyRecovers
  <1>2. RowsForward /\ DoneFree(requirement') /\ OutcomesHonest
    <2>1. CASE UNCHANGED <<requirement, admission>>
      BY <1>1, <2>1, SameForward, SameTerminals
    <2>2. CASE Park(OpenAt(t, 0..MaxEpochs))
      BY <1>1, <2>2, ParkHonest
    <2> QED BY <2>1, <2>2 DEF CustodyRecovers
  <1>3. GivenHonest
    BY <1>1 DEF GivenHonest
  <1>4. LoopsHonest
    <2>1. CASE loop' = [loop EXCEPT ![t] = LoopAt("off", None)]
      BY <2>1, LoopResets
    <2>2. CASE \E r \in Active(loop[t].tag, t) :
            loop' = [loop EXCEPT ![t].pc = "closing",
                                 ![t].claim = [req |-> r, gen |-> requirement[r].gen]]
      <3>1. PICK r \in Active(loop[t].tag, t) :
            loop' = [loop EXCEPT ![t].pc = "closing",
                                 ![t].claim = [req |-> r, gen |-> requirement[r].gen]]
        BY <2>2
      <3>2. PICK d \in Claims : d = [req |-> r, gen |-> requirement[r].gen]
        BY ActiveClaim DEF BoardTyped
      <3>3. d.req = r /\ d.gen = requirement[r].gen /\ r \in Requirements
        BY <3>2 DEF Active
      <3> DEFINE new == [loop[t] EXCEPT !.pc = "closing", !.claim = d]
      <3>4. loop' = [loop EXCEPT ![t] = new]
        BY <3>1, <3>2 DEF BoardTyped, LoopTyped
      <3>5. new.claim = d /\ new.pc = "closing"
        BY DEF BoardTyped, LoopTyped, Loops
      <3>6. requirement'[r].gen = requirement[r].gen
        BY <3>3, CustodyRecoversTyped DEF Quiet, Moves, Kept, Closed, Returned
      <3>7. d.gen <= requirement'[d.req].gen
        BY <3>3, <3>6, ClaimReq
      <3> HIDE DEF new
      <3> QED BY <3>4, <3>5, <3>7, LoopTakes
    <2> QED BY <2>1, <2>2 DEF CustodyRecovers
  <1> QED BY <1>1, <1>2, <1>3, <1>4, SameConversations DEF Honest

\* the conversation's answer
LEMMA DeliveryEarned ==
  ASSUME BoardTyped, EarnedInv, NEW v, NEW d \in Claims, NEW result,
         result = "ok" => receipt[d] = "ok", DeliveryOutcome(v, result) = "done",
         runs' = runs
  PROVE  Earned(d)'
  <1>1. result = "ok"
    BY DEF DeliveryOutcome
  <1> QED BY <1>1 DEF EarnedInv, ReceiptsRun, Earned

LEMMA SendEndsHonest ==
  ASSUME BoardTyped, EarnedInv, NEW v \in Conversations,
         SendRefused(v) \/ WaitObserves(v) \/ WaitGivesUp(v) \/ SendFails(v)
  PROVE  Honest
  <1>1. requirement' = requirement /\ UNCHANGED receiverVars /\ runs' = runs
    BY DEF SendRefused, WaitObserves, WaitGivesUp, SendFails, storeVars, receiverVars
  <1>2. v \in Targets /\ loop[v].claim \in Claims
    BY TargetKinds, WorkingClaim
    DEF BoardTyped, SendRefused, WaitObserves, WaitGivesUp, SendFails, Working, LoopSteps
  <1>3. PICK d \in Claims : d = loop[v].claim
    BY <1>2
  <1>4. LoopsHonest
    <2>1. CASE SendRefused(v) \/ SendFails(v)
      <3>1. PICK out \in {"interrupted", "conflict", "errored"} : Ends(v, out)
        BY <2>1 DEF SendRefused, SendFails
      <3> QED BY <1>2, <3>1, LoopEnds
    <2>2. CASE WaitObserves(v)
      <3>1. DeliveryOutcome(v, receipt[d]) = "done" => Earned(d)'
        BY <1>1, DeliveryEarned
      <3>2. Ends(v, DeliveryOutcome(v, receipt[d]))
        BY <1>3, <2>2 DEF WaitObserves
      <3> QED BY <1>2, <1>3, <3>1, <3>2, LoopEnds
    <2>3. CASE WaitGivesUp(v)
      <3>1. DeliveryOutcome(v, "error") # "done"
        BY DEF DeliveryOutcome
      <3>2. Ends(v, DeliveryOutcome(v, "error"))
        BY <2>3 DEF WaitGivesUp
      <3> QED BY <1>2, <3>1, <3>2, LoopEnds
    <2> QED BY <2>1, <2>2, <2>3
  <1> QED BY <1>1, <1>4, SameForward, SameReceiversHonest DEF Honest

LEMMA SendAdmitsHonest ==
  ASSUME BoardTyped, NEW v \in Conversations, SendAdmits(v)
  PROVE  Honest
  <1>1. /\ requirement' = requirement /\ UNCHANGED <<term, admission>> /\ runs' = runs
        /\ AdmitTurn(loop[v].claim, v) /\ Goto(v, "waiting") /\ v \in Targets
    BY TargetKinds DEF SendAdmits, storeVars, terminalVars
  <1>2. TurnsHonest /\ ReceiptsHonest
    BY <1>1 DEF AdmitTurn, TurnsHonest, ReceiptsHonest, BoardTyped, ReceiptsTyped
  <1>3. LoopsHonest
    BY <1>1, LoopGoes
  <1> QED BY <1>1, <1>2, <1>3, SameForward, SameTerminals DEF Honest

LEMMA SendReplaysHonest ==
  ASSUME BoardTyped, EarnedInv, NEW v \in Conversations, SendReplays(v)
  PROVE  Honest
  <1>1. /\ requirement' = requirement /\ UNCHANGED <<term, admission>> /\ runs' = runs
        /\ turn' = turn
    BY DEF SendReplays, storeVars, terminalVars
  <1>2. v \in Targets /\ loop[v].claim \in Claims
    BY TargetKinds, WorkingClaim DEF BoardTyped, SendReplays, Working, LoopSteps
  <1>3. PICK d \in Claims : d = loop[v].claim
    BY <1>2
  <1>4. TurnsHonest
    <2>1. conv' = conv \/ (turn[v] = "none" /\ conv' = [conv EXCEPT ![v] = None])
      BY DEF SendReplays
    <2> QED BY <1>1, <2>1 DEF TurnsHonest, BoardTyped, ReceiptsTyped
  <1>5. ReceiptsHonest
    <2>1. receipt' = receipt \/ receipt' = Completed({v}, "error")
      BY DEF SendReplays
    <2>2. receipt' = Completed({v}, "error") => \A c \in Claims : receipt'[c] \in {receipt[c], "error"}
      BY CompletedFacts DEF BoardTyped
    <2> QED BY <2>1, <2>2 DEF ReceiptsHonest
  <1>6. LoopsHonest
    <2>1. CASE Goto(v, "waiting")
      BY <1>2, <2>1, LoopGoes
    <2>2. CASE Ends(v, DeliveryOutcome(v, receipt[loop[v].claim]))
      <3>1. DeliveryOutcome(v, receipt[d]) = "done" => Earned(d)'
        BY <1>1, DeliveryEarned
      <3>2. Ends(v, DeliveryOutcome(v, receipt[d]))
        BY <1>3, <2>2
      <3> QED BY <1>2, <1>3, <3>1, <3>2, LoopEnds
    <2> QED BY <2>1, <2>2 DEF SendReplays
  <1> QED BY <1>1, <1>4, <1>5, <1>6, SameForward, SameTerminals DEF Honest

-----------------------------------------------------------------------------
(* Every step is honest: terminals.                                        *)

LEMMA TerminalScopesHonest ==
  ASSUME BoardTyped, NEW x \in Terminals, TerminalScopes(x)
  PROVE  Honest
  <1>1. requirement' = requirement /\ UNCHANGED receiverVars
    BY DEF TerminalScopes, storeVars
  <1>2. x \in Targets /\ loop[x].claim \in Claims
    BY TerminalClaim DEF TerminalScopes, Working, LoopSteps
  <1>3. LoopsHonest
    <2>1. CASE loop' = [loop EXCEPT ![x].pc = "scoped", ![x].epoch = term[x].pty]
      <3>1. /\ loop'[x].claim = loop[x].claim /\ loop'[x].pc = "scoped"
            /\ \A u \in Targets \ {x} : loop'[u] = loop[u]
        BY <1>2, <2>1 DEF BoardTyped, LoopTyped, Loops
      <3> QED BY <3>1 DEF LoopsHonest
    <2>2. CASE Ends(x, IF loop[x].recovered THEN "needs_review" ELSE "errored")
      BY <1>2, <2>2, LoopEnds
    <2> QED BY <2>1, <2>2 DEF TerminalScopes
  <1> QED BY <1>1, <1>3, SameForward, SameReceiversHonest DEF Honest

LEMMA TerminalAdmitsHonest ==
  ASSUME BoardTyped, NEW x \in Terminals, TerminalAdmits(x)
  PROVE  Honest
  <1>1. /\ requirement' = requirement /\ UNCHANGED conversationVars /\ term' = term
        /\ runs' = runs
    BY DEF TerminalAdmits, storeVars
  <1>2. x \in Targets
    BY TargetKinds
  <1>3. OutcomesHonest
    <2>1. None # "done"
      BY ReceiversAssumption DEF Verdicts
    <2>2. \A c \in Claims : \/ admission'[c] = admission[c]
                            \/ admission'[c].outcome = None /\ admission[c].phase = "none"
                               /\ c = loop[x].claim
      BY DEF TerminalAdmits, BoardTyped, AdmissionsTyped
    <2> QED BY <2>1, <2>2 DEF OutcomesHonest
  <1>4. GivenHonest
    BY <1>1 DEF GivenHonest
  <1>5. LoopsHonest
    <2>1. PICK pc \in {"admitted", "parking"} : Goto(x, pc)
      BY DEF TerminalAdmits
    <2> QED BY <1>2, <2>1, LoopGoes
  <1> QED BY <1>1, <1>3, <1>4, <1>5, SameForward, SameConversations DEF Honest


LEMMA TerminalReplaysHonest ==
  ASSUME BoardTyped, EarnedInv, NEW x \in Terminals, TerminalReplays(x)
  PROVE  Honest
  <1>1. requirement' = requirement /\ UNCHANGED receiverVars /\ runs' = runs
    BY DEF TerminalReplays, storeVars, receiverVars
  <1>2. x \in Targets /\ loop[x].claim \in Claims
    BY TerminalClaim DEF TerminalReplays, Working, LoopSteps
  <1>3. PICK d \in Claims : d = loop[x].claim
    BY <1>2
  <1>4. LoopsHonest
    <2>1. CASE Ends(x, "needs_review")
      BY <1>2, <2>1, LoopEnds
    <2>2. CASE Ends(x, admission[d].outcome)
      <3>1. admission[d].outcome = "done" => Earned(d)'
        BY <1>1 DEF EarnedInv, OutcomesEarned, Earned, Past
      <3> QED BY <1>2, <1>3, <2>2, <3>1, LoopEnds
    <2>3. CASE loop' = [loop EXCEPT ![x].pc = "parking", ![x].epoch = admission[d].epoch]
      <3>1. /\ loop'[x].claim = loop[x].claim /\ loop'[x].pc = "parking"
            /\ \A u \in Targets \ {x} : loop'[u] = loop[u]
        BY <1>2, <2>3 DEF BoardTyped, LoopTyped, Loops
      <3> QED BY <3>1 DEF LoopsHonest
    <2> QED BY <1>3, <2>1, <2>2, <2>3 DEF TerminalReplays
  <1> QED BY <1>1, <1>4, SameForward, SameReceiversHonest DEF Honest

\* the phase of an admission moves on, its outcome does not
LEMMA PhaseHonest ==
  ASSUME BoardTyped, NEW c \in Claims, NEW p, admission' = [admission EXCEPT ![c].phase = p]
  PROVE  OutcomesHonest
  BY DEF BoardTyped, AdmissionsTyped, Admissions, OutcomesHonest

LEMMA TerminalTypesHonest ==
  ASSUME BoardTyped, NEW x \in Terminals, TerminalTypes(x)
  PROVE  Honest
  <1>1. requirement' = requirement /\ UNCHANGED conversationVars /\ runs' = runs
    BY DEF TerminalTypes, storeVars
  <1>2. x \in Targets /\ loop[x].claim \in Claims
    BY TerminalClaim DEF TerminalTypes, Working, LoopSteps
  <1>3. OutcomesHonest
    BY <1>2, PhaseHonest DEF TerminalTypes
  <1>4. GivenHonest
    BY <1>1 DEF TerminalTypes, GivenHonest, BoardTyped, TermsTyped, Sessions
  <1>5. LoopsHonest
    <2>1. PICK pc \in {"typed", "parking"} : Goto(x, pc)
      BY DEF TerminalTypes
    <2> QED BY <1>2, <2>1, LoopGoes
  <1> QED BY <1>1, <1>3, <1>4, <1>5, SameForward, SameConversations DEF Honest

LEMMA TerminalSubmitsHonest ==
  ASSUME BoardTyped, NEW x \in Terminals, TerminalSubmits(x)
  PROVE  Honest
  <1>1. requirement' = requirement /\ UNCHANGED conversationVars /\ runs \subseteq runs'
    BY DEF TerminalSubmits, storeVars
  <1>2. x \in Targets /\ loop[x].claim \in Claims
    BY TerminalClaim DEF TerminalSubmits, Working, LoopSteps
  <1>3. OutcomesHonest
    BY <1>2, PhaseHonest DEF TerminalSubmits
  <1>4. GivenHonest
    <2>1. CASE UNCHANGED <<term, runs>>
      BY <2>1 DEF GivenHonest
    <2>2. CASE /\ term' = [term EXCEPT ![x].line = {}, ![x].given = @ \cup term[x].line]
               /\ runs' = runs \cup term[x].line
      BY <2>2 DEF GivenHonest, BoardTyped, TermsTyped, Sessions
    <2> QED BY <2>1, <2>2 DEF TerminalSubmits
  <1>5. LoopsHonest
    <2>1. PICK pc \in {"waiting", "parking"} : Goto(x, pc)
      BY DEF TerminalSubmits
    <2> QED BY <1>2, <2>1, LoopGoes
  <1> QED BY <1>1, <1>3, <1>4, <1>5, SameForward, SameConversations DEF Honest

LEMMA TerminalWriteRefusedHonest ==
  ASSUME BoardTyped, NEW x \in Terminals, TerminalWriteRefused(x)
  PROVE  Honest
  <1>1. /\ requirement' = requirement /\ UNCHANGED conversationVars /\ runs' = runs
        /\ term' = term /\ Goto(x, "parking") /\ x \in Targets
    BY TargetKinds DEF TerminalWriteRefused, storeVars
  <1>2. OutcomesHonest
    <2>1. CASE admission' = admission
      BY <2>1 DEF OutcomesHonest
    <2>2. CASE admission' = ParkedAdmissions({loop[x].claim})
      BY <2>2, ParkedOutcomes
    <2> QED BY <2>1, <2>2 DEF TerminalWriteRefused
  <1>3. GivenHonest /\ LoopsHonest
    BY <1>1, LoopGoes DEF GivenHonest
  <1> QED BY <1>1, <1>2, <1>3, SameForward, SameConversations DEF Honest

LEMMA TerminalTurnEndsHonest ==
  ASSUME BoardTyped, EarnedInv, NEW x \in Terminals, TerminalTurnEnds(x)
  PROVE  Honest
  <1>1. UNCHANGED conversationVars /\ runs' = runs /\ term' = term
    BY DEF TerminalTurnEnds
  <1>2. x \in Targets /\ loop[x].claim \in Claims
    BY TerminalClaim DEF TerminalTurnEnds, Working, LoopSteps
  <1>3. PICK d \in Claims : d = loop[x].claim
    BY <1>2
  <1>4. GivenHonest
    BY <1>1 DEF GivenHonest
  <1>5. CASE requirement[d.req].status \in Verdicts
    <2>1. PICK cs : Park(cs)
      BY <1>3, <1>5 DEF TerminalTurnEnds
    <2>2. RowsForward /\ OutcomesHonest /\ DoneFree(requirement')
      BY <1>1, <2>1, ParkHonest
    <2>3. Past(d)
      <3>1. d.gen <= requirement[d.req].gen /\ requirement[d.req].status # "in_progress"
        BY <1>2, <1>3, <1>5 DEF EarnedInv, LoopsEarned, Verdicts
      <3>2. d.gen \in Int /\ requirement[d.req].gen \in Int
        BY ClaimReq DEF BoardTyped, RowsTyped, Rows
      <3> QED BY <3>1, <3>2 DEF Past
    <2>4. Earned(d)'
      BY <1>1, <2>2, <2>3, EarnedStays DEF Earned
    <2>5. Ends(x, requirement[d.req].status)
      BY <1>3, <1>5 DEF TerminalTurnEnds
    <2>6. LoopsHonest
      BY <1>2, <1>3, <2>4, <2>5, LoopEnds
    <2> QED BY <1>1, <1>4, <2>2, <2>6, SameConversations DEF Honest
  <1>6. CASE requirement[d.req].status \notin Verdicts
    <2>1. Goto(x, "parking") /\ UNCHANGED <<requirement, admission>>
      BY <1>3, <1>6 DEF TerminalTurnEnds
    <2> QED BY <1>1, <1>2, <1>4, <2>1, LoopGoes, SameForward, SameConversations, SameTerminals
            DEF Honest
  <1> QED BY <1>5, <1>6

LEMMA TerminalParksHonest ==
  ASSUME BoardTyped, EarnedInv, NEW x \in Terminals, TerminalParks(x)
  PROVE  Honest
  <1>1. UNCHANGED conversationVars /\ runs' = runs /\ term' = term
    BY DEF TerminalParks
  <1>2. x \in Targets /\ loop[x].claim \in Claims
    BY TerminalClaim DEF TerminalParks, Working, LoopSteps
  <1>3. PICK d \in Claims : d = loop[x].claim
    BY <1>2
  <1>4. RowsForward /\ OutcomesHonest /\ DoneFree(requirement')
    BY <1>1, ParkHonest DEF TerminalParks
  <1>5. \A c \in Claims : Earned(c) => Earned(c)'
    BY <1>1, <1>4, EarnedStays
  <1>6. admission'[d].outcome = "done" => Earned(d)'
    BY <1>4, <1>5 DEF OutcomesHonest, EarnedInv, OutcomesEarned, Earned
  <1> DEFINE out == IF admission'[d].phase = "settled" THEN admission'[d].outcome
                    ELSE "needs_review"
  <1>7. Ends(x, out)
    BY <1>3 DEF TerminalParks
  <1>8. out = "done" => Earned(d)'
    BY <1>6
  <1> HIDE DEF out
  <1>9. LoopsHonest
    BY <1>2, <1>3, <1>7, <1>8, LoopEnds
  <1>10. GivenHonest
    BY <1>1 DEF GivenHonest
  <1> QED BY <1>1, <1>4, <1>9, <1>10, SameConversations DEF Honest

\* the session of one terminal dies or is relaunched
LEMMA DeadGiven ==
  ASSUME TermsTyped, NEW x \in Terminals, NEW new, new.given \subseteq term[x].given,
         term' = [term EXCEPT ![x] = new]
  PROVE  GivenHonest
  BY DEF TermsTyped, GivenHonest

LEMMA PtysHonest ==
  ASSUME BoardTyped, NEW x \in Terminals, UNCHANGED loopVars,
         PtyExits(x) \/ Kill(x) \/ (\E spawned \in BOOLEAN : Relaunch(x, spawned))
  PROVE  Honest
  <1>1. UNCHANGED conversationVars /\ runs' = runs /\ loop' = loop
    BY DEF PtyExits, Kill, Relaunch, loopVars
  <1>2. term[x] \in Sessions
    BY DEF BoardTyped, TermsTyped
  <1>3. GivenHonest
    <2>1. CASE PtyExits(x)
      BY <1>2, <2>1, DeadFacts, DeadGiven DEF BoardTyped, PtyExits
    <2>2. CASE Kill(x)
      <3> DEFINE new == [term[x] EXCEPT !.deaf = TRUE, !.line = {}, !.given = {}]
      <3>1. new.given = {} /\ term' = [term EXCEPT ![x] = new]
        BY <1>2, <2>2 DEF BoardTyped, TermsTyped, Sessions, Kill
      <3> HIDE DEF new
      <3> QED BY <3>1, DeadGiven DEF BoardTyped
    <2>3. CASE \E spawned \in BOOLEAN : Relaunch(x, spawned)
      <3>1. PICK spawned \in BOOLEAN : Relaunch(x, spawned)
        BY <2>3
      <3> DEFINE e == epochs + 1
                 new == IF spawned THEN [Dead(term[x], "running") EXCEPT !.pty = e]
                        ELSE Dead(term[x], "exited")
      <3>2. Dead(term[x], "running") \in Sessions /\ Dead(term[x], "running").given = {}
            /\ Dead(term[x], "exited").given = {}
        BY <1>2, DeadFacts
      <3>3. term' = [term EXCEPT ![x] = new]
        BY <3>1 DEF Relaunch
      <3> HIDE DEF e
      <3>4. new.given = {}
        BY <3>2 DEF Sessions
      <3> HIDE DEF new
      <3> QED BY <3>3, <3>4, DeadGiven DEF BoardTyped
    <2> QED BY <2>1, <2>2, <2>3
  <1>4. PICK cs : Park(cs)
    BY DEF PtyExits, Kill, Relaunch
  <1>5. RowsForward /\ OutcomesHonest /\ DoneFree(requirement')
    BY <1>1, <1>4, ParkHonest
  <1> QED BY <1>1, <1>3, <1>5, LoopsSame, SameConversations DEF Honest

LEMMA CliDeclaresHonest ==
  ASSUME BoardTyped, EarnedInv, NEW x \in Terminals, CliDeclares(x), UNCHANGED loopVars
  PROVE  Honest
  <1>1. PICK c \in term[x].given, s \in {"done", "failed"} :
          requirement' = WithVerdict(c, x, s)
    BY DEF CliDeclares
  <1>2. c \in Claims /\ Earned(c)
    BY DEF BoardTyped, TermsTyped, Sessions, EarnedInv, GivenRun, Earned
  <1>3. RowsForward /\ DoneFree(requirement')
    BY <1>1, <1>2, CliDeclaresTyped, QuietForward, WithVerdictDone DEF BoardTyped
  <1> QED BY <1>3, LoopsSame, SameReceiversHonest DEF Honest, CliDeclares, loopVars

-----------------------------------------------------------------------------
(* Every step is honest: turns, requests, users and the process.           *)

LEMMA TurnStartsHonest ==
  ASSUME BoardTyped, NEW v \in Conversations, TurnStarts(v), UNCHANGED loopVars
  PROVE  Honest
  <1>1. /\ requirement' = requirement /\ UNCHANGED <<term, admission>> /\ loop' = loop
        /\ receipt' = receipt /\ conv' = conv /\ runs \subseteq runs'
    BY DEF TurnStarts, storeVars, terminalVars, loopVars
  <1>2. TurnsHonest /\ ReceiptsHonest
    BY DEF TurnStarts, TurnsHonest, ReceiptsHonest, BoardTyped, ReceiptsTyped
  <1> QED BY <1>1, <1>2, SameForward, SameTerminals, LoopsSame DEF Honest

LEMMA TurnEndsHonest ==
  ASSUME BoardTyped, EarnedInv, NEW v \in Conversations, NEW result \in {"ok", "error"},
         TurnEnds(v, result), UNCHANGED loopVars
  PROVE  Honest
  <1>1. /\ requirement' = requirement /\ UNCHANGED <<term, admission>> /\ loop' = loop
        /\ runs' = runs
    BY DEF TurnEnds, storeVars, terminalVars, loopVars
  <1>2. TurnsHonest
    BY DEF TurnEnds, TurnsHonest, BoardTyped, ReceiptsTyped
  <1>3. ReceiptsHonest
    <2> SUFFICES ASSUME NEW c \in Claims, receipt'[c] = "ok", receipt[c] # "ok"
                 PROVE  c \in runs
      BY <1>1 DEF ReceiptsHonest
    <2>1. receipt' = Completed({v}, result)
      BY DEF TurnEnds
    <2>2. result = "ok" /\ conv[v] = c
      BY <2>1, CompletedFacts DEF BoardTyped
    <2>3. turn[v] = "running"
      BY <2>2 DEF TurnEnds
    <2> QED BY <2>2, <2>3 DEF EarnedInv, TurnsRun
  <1> QED BY <1>1, <1>2, <1>3, SameForward, SameTerminals, LoopsSame DEF Honest

LEMMA UserSendsHonest ==
  ASSUME BoardTyped, NEW v \in Conversations, UserSends(v), UNCHANGED loopVars
  PROVE  Honest
  <1>1. /\ requirement' = requirement /\ UNCHANGED <<term, admission>> /\ loop' = loop
        /\ runs' = runs /\ receipt' = receipt
    BY DEF UserSends, storeVars, terminalVars, loopVars
  <1>2. User \notin Claims
    BY ReceiversAssumption
  <1>3. TurnsHonest /\ ReceiptsHonest
    BY <1>1, <1>2 DEF UserSends, TurnsHonest, ReceiptsHonest, BoardTyped, ReceiptsTyped
  <1> QED BY <1>1, <1>3, SameForward, SameTerminals, LoopsSame DEF Honest

LEMMA AgentDeclaresHonest ==
  ASSUME BoardTyped, EarnedInv, NEW v \in Conversations, AgentDeclares(v),
         UNCHANGED loopVars
  PROVE  Honest
  <1>1. PICK s \in {"done", "failed"} : requirement' = WithVerdict(conv[v], v, s)
    BY DEF AgentDeclares
  <1>2. conv[v] \in Claims /\ Earned(conv[v])
    BY DEF AgentDeclares, EarnedInv, TurnsRun, Earned
  <1>3. RowsForward /\ DoneFree(requirement')
    BY <1>1, <1>2, AgentDeclaresTyped, QuietForward, WithVerdictDone DEF BoardTyped
  <1> QED BY <1>3, LoopsSame, SameReceiversHonest DEF Honest, AgentDeclares, loopVars

LEMMA RequestsHonest ==
  ASSUME BoardTyped,
         \/ \E h \in Handlers, t \in Targets, tag \in Tags \cup {None} :
              SetAutowork(h, t, tag)
         \/ \E h \in Threads : HandlerStops(h) \/ HandlerStarts(h)
         \/ \E t \in Targets : ResumeBinding(t)
  PROVE  Honest
  <1>1. requirement' = requirement /\ UNCHANGED receiverVars
    BY DEF SetAutowork, HandlerStops, HandlerStarts, ResumeBinding, storeVars
  <1>2. LoopsHonest
    <2>1. CASE \/ \E h \in Handlers, t \in Targets, tag \in Tags \cup {None} :
                    SetAutowork(h, t, tag)
               \/ \E t \in Targets : ResumeBinding(t)
      BY <2>1, LoopsSame DEF SetAutowork, ResumeBinding
    <2>2. ASSUME NEW h \in Threads, HandlerStops(h) PROVE LoopsHonest
      BY <2>2, LoopResets DEF HandlerStops
    <2>3. ASSUME NEW h \in Threads, HandlerStarts(h) PROVE LoopsHonest
      BY <2>3, LoopResets, LoopsSame DEF HandlerStarts
    <2> QED BY <2>1, <2>2, <2>3
  <1> QED BY <1>1, <1>2, SameForward, SameReceiversHonest DEF Honest

LEMMA UserCancelsHonest ==
  ASSUME BoardTyped, NEW v \in Conversations, UserCancels(v)
  PROVE  Honest
  <1>1. requirement' = requirement /\ UNCHANGED receiverVars
    BY DEF UserCancels, storeVars
  <1>2. \A t \in Targets : /\ loop'[t].claim = loop[t].claim /\ loop'[t].pc = loop[t].pc
                           /\ loop'[t].outcome = loop[t].outcome
    <2> DEFINE b == loop[v].cancelled \/ loop[v].pc \in
                              {"preparing", "committed", "claimed", "waiting"}
    <2>1. loop' = [loop EXCEPT ![v].cancelled = b]
      BY DEF UserCancels
    <2> HIDE DEF b
    <2> QED BY <2>1 DEF BoardTyped, LoopTyped, Loops
  <1>3. LoopsHonest
    BY <1>2 DEF LoopsHonest
  <1> QED BY <1>1, <1>3, SameForward, SameReceiversHonest DEF Honest

LEMMA HandlerParksHonest ==
  ASSUME BoardTyped, NEW h \in Threads, HandlerParks(h)
  PROVE  Honest
  <1>1. UNCHANGED conversationVars /\ runs' = runs /\ term' = term /\ loop' = loop
    BY DEF HandlerParks
  <1>2. RowsForward /\ OutcomesHonest /\ DoneFree(requirement')
    BY <1>1, ParkHonest DEF HandlerParks
  <1>3. GivenHonest
    BY <1>1 DEF GivenHonest
  <1> QED BY <1>1, <1>2, <1>3, LoopsSame, SameConversations DEF Honest

LEMMA HandlerResolvesHonest ==
  ASSUME BoardTyped, EarnedInv, NEW h \in Threads, HandlerResolves(h)
  PROVE  Honest
  <1>1. RowsForward
    BY HandlerResolvesTyped, QuietForward
  <1>2. DoneFree(requirement')
    <2>1. CASE handler[h].claim = None
      BY <2>1, SameForward DEF HandlerResolves
    <2>2. CASE handler[h].claim # None
      BY <2>2, HandlerFields, ClosedRowsDone DEF BoardTyped, EarnedInv, HandlerResolves
    <2> QED BY <2>1, <2>2
  <1> QED BY <1>1, <1>2, LoopsSame, SameReceiversHonest DEF Honest, HandlerResolves

\* users only put rows back in the queue, or close rows no claim holds
LEMMA RowsHonest ==
  ASSUME BoardTyped, UNCHANGED receiverVars, loop' = loop,
         \A r \in Requirements :
           /\ requirement'[r].gen = requirement[r].gen
           /\ requirement'[r].status = "in_progress" => requirement[r].status = "in_progress"
           /\ requirement[r].status = "in_progress" => requirement'[r].status # "done"
  PROVE  Honest
  <1>1. RowsForward /\ DoneFree(requirement')
    BY DEF RowsForward, DoneFree
  <1> QED BY <1>1, LoopsSame, SameReceiversHonest DEF Honest

LEMMA HandlerResumesHonest ==
  ASSUME BoardTyped, NEW h \in Threads, HandlerResumes(h)
  PROVE  Honest
  <1>1. \A r \in Requirements : \/ requirement'[r] = ResumedForEnable(requirement[r])
                                \/ requirement'[r] = requirement[r]
    BY DEF HandlerResumes, storeVars
  <1>2. \A r \in Requirements : GoodRow(requirement[r])
    BY DEF BoardTyped, RowsTyped
  <1>3. \A r \in Requirements :
           /\ requirement'[r].gen = requirement[r].gen
           /\ requirement'[r].status = "in_progress" => requirement[r].status = "in_progress"
           /\ requirement[r].status = "in_progress" => requirement'[r].status # "done"
    BY <1>1, <1>2, ResumedFacts
  <1> QED BY <1>3, RowsHonest DEF HandlerResumes

LEMMA RequeuesHonest ==
  ASSUME BoardTyped,
         \/ \E r \in Requirements : Requeue(r)
         \/ \E tag \in Tags, rs \in SUBSET Requirements : ResumeTag(tag, rs)
  PROVE  Honest
  <1>1. \A r \in Requirements :
          \/ \E reset \in BOOLEAN : requirement'[r] = Requeued(requirement[r], reset)
          \/ requirement'[r] = requirement[r]
    BY DEF Requeue, ResumeTag, BoardTyped, RowsTyped
  <1>2. \A r \in Requirements : GoodRow(requirement[r])
    BY DEF BoardTyped, RowsTyped
  <1>3. \A r \in Requirements :
           /\ requirement'[r].gen = requirement[r].gen
           /\ requirement'[r].status = "in_progress" => requirement[r].status = "in_progress"
           /\ requirement[r].status = "in_progress" => requirement'[r].status # "done"
    BY <1>1, <1>2, RequeuedFacts
  <1>4. UNCHANGED receiverVars /\ loop' = loop
    BY DEF Requeue, ResumeTag, loopVars
  <1> QED BY <1>3, <1>4, RowsHonest

LEMMA RetagHonest ==
  ASSUME BoardTyped, NEW r \in Requirements, NEW tag \in Tags, Retag(r, tag)
  PROVE  Honest
  <1>1. \A s \in Requirements : /\ requirement'[s].gen = requirement[s].gen
                                /\ requirement'[s].status = requirement[s].status
    BY DEF Retag, BoardTyped, RowsTyped, Rows
  <1> QED BY <1>1, RowsHonest DEF Retag, loopVars

\* a row that a claim holds is closed for review, any other as the user says
LEMMA ClosesHonest ==
  ASSUME BoardTyped, NEW r \in Requirements,
         Sweep(r) \/ Delete(r) \/ \E status \in Verdicts : SetStatus(r, status)
  PROVE  Honest
  <1>1. PICK s \in Verdicts \cup {"deleted"} :
          /\ requirement' = [requirement EXCEPT ![r] = Resolved(@, s)]
          /\ requirement[r].status = "in_progress" => s = "needs_review"
    <2>1. CASE Sweep(r)
      BY <2>1 DEF Sweep, Verdicts
    <2>2. CASE Delete(r)
      BY <2>2 DEF Delete, Verdicts
    <2>3. CASE \E status \in Verdicts : SetStatus(r, status)
      BY <2>3 DEF SetStatus
    <2> QED BY <2>1, <2>2, <2>3
  <1>2. /\ Resolved(requirement[r], s).status = s
        /\ Resolved(requirement[r], s).gen = requirement[r].gen /\ s # "in_progress"
    BY DEF BoardTyped, RowsTyped, Rows, Resolved, Verdicts
  <1>3. \A q \in Requirements :
           /\ requirement'[q].gen = requirement[q].gen
           /\ requirement'[q].status = "in_progress" => requirement[q].status = "in_progress"
           /\ requirement[q].status = "in_progress" => requirement'[q].status # "done"
    BY <1>1, <1>2 DEF BoardTyped, RowsTyped
  <1>4. UNCHANGED receiverVars /\ loop' = loop
    BY DEF Sweep, Delete, SetStatus, loopVars
  <1> QED BY <1>3, <1>4, RowsHonest

LEMMA DeleteTerminalHonest ==
  ASSUME BoardTyped, NEW x \in Terminals, DeleteTerminal(x)
  PROVE  Honest
  <1>1. UNCHANGED conversationVars /\ runs' = runs /\ loop' = loop
    BY DEF DeleteTerminal
  <1>2. RowsForward
    BY DeleteTerminalTyped, QuietForward
  <1>3. DoneFree(requirement')
    <2>1. \A r \in Requirements : GoodRow(requirement[r])
      BY DEF BoardTyped, RowsTyped
    <2>2. \A r \in Requirements : \/ requirement'[r] = Detached(requirement[r])
                                  \/ requirement'[r] = requirement[r]
      BY DEF DeleteTerminal
    <2> QED BY <2>1, <2>2, DetachedFacts DEF DoneFree
  <1>4. OutcomesHonest
    BY ParkedOutcomes DEF DeleteTerminal
  <1>5. GivenHonest
    BY DeadFacts, DeadGiven DEF BoardTyped, TermsTyped, DeleteTerminal
  <1> QED BY <1>1, <1>2, <1>3, <1>4, <1>5, LoopsSame, SameConversations DEF Honest

LEMMA CrashHonest ==
  ASSUME BoardTyped, Crash
  PROVE  Honest
  <1> DEFINE ghosts == {x \in Terminals : term[x].status = "running"}
  <1>1. RowsForward
    BY CrashTyped, QuietForward
  <1>2. DoneFree(requirement')
    <2> DEFINE rs == {r \in Requirements : /\ requirement[r].status = "in_progress"
                                           /\ requirement[r].owner \in ghosts}
    <2>1. requirement' = [r \in Requirements |->
                            IF r \in rs THEN Resolved(requirement[r], "needs_review")
                            ELSE requirement[r]]
      BY DEF Crash
    <2> HIDE DEF rs
    <2> QED BY <2>1, ReviewedDone DEF BoardTyped
  <1>3. TurnsHonest
    BY DEF Crash, TurnsHonest
  <1>4. ReceiptsHonest
    <2>1. PICK vs : receipt' = Completed(vs, "error")
      BY DEF Crash
    <2>2. \A c \in Claims : receipt'[c] \in {receipt[c], "error"}
      BY <2>1, CompletedFacts DEF BoardTyped
    <2> QED BY <2>2 DEF ReceiptsHonest
  <1>5. GivenHonest
    <2>1. term' = [x \in Terminals |-> IF x \in ghosts THEN Dead(term[x], "exited") ELSE term[x]]
      BY DEF Crash
    <2>2. \A x \in Terminals : Dead(term[x], "exited").given = {}
      BY DeadFacts DEF BoardTyped, TermsTyped
    <2> HIDE DEF ghosts
    <2> QED BY <2>1, <2>2 DEF GivenHonest
  <1>6. OutcomesHonest
    <2>1. PICK cs : admission' = ParkedAdmissions(cs)
      BY DEF Crash
    <2> QED BY <2>1, ParkedOutcomes
  <1>7. LoopsHonest
    <2>1. LoopAt("off", None).claim \notin Claims
      BY NoneNoClaim DEF LoopAt
    <2> QED BY <2>1 DEF LoopsHonest, Crash
  <1> QED BY <1>1, <1>2, <1>3, <1>4, <1>5, <1>6, <1>7 DEF Honest, Crash

-----------------------------------------------------------------------------

LEMMA LoopStepHonest ==
  ASSUME BoardTyped, EarnedInv, NEW t \in Targets, LoopStep(t)
  PROVE  Honest
  BY LoopMovesHonest, LoopRecoversHonest, LoopClaimsHonest, SettlesHonest,
     CustodyRecoversHonest, SendEndsHonest, SendAdmitsHonest, SendReplaysHonest,
     TerminalScopesHonest, TerminalAdmitsHonest, TerminalReplaysHonest, TerminalTypesHonest,
     TerminalSubmitsHonest, TerminalWriteRefusedHonest, TerminalTurnEndsHonest,
     TerminalParksHonest
  DEF LoopStep

LEMMA HandlerStepHonest ==
  ASSUME BoardTyped, EarnedInv, NEW h \in Threads, HandlerStep(h)
  PROVE  Honest
  BY RequestsHonest, HandlerParksHonest, HandlerResolvesHonest, HandlerResumesHonest
  DEF HandlerStep

LEMMA ReceiverStepHonest ==
  ASSUME BoardTyped, EarnedInv, ReceiverStep
  PROVE  Honest
  <1>1. UNCHANGED loopVars
    BY DEF ReceiverStep
  <1> QED BY <1>1, TurnStartsHonest, AgentDeclaresHonest, TurnEndsHonest, PtysHonest,
             CliDeclaresHonest
          DEF ReceiverStep

LEMMA UserStepHonest ==
  ASSUME BoardTyped, EarnedInv, UserStep
  PROVE  Honest
  <1>1. CASE \E v \in Conversations : UserSends(v) /\ UNCHANGED loopVars
    BY <1>1, UserSendsHonest
  <1>2. CASE \E x \in Terminals : /\ Kill(x) \/ Relaunch(x, TRUE) \/ Relaunch(x, FALSE)
                                  /\ UNCHANGED loopVars
    BY <1>2, PtysHonest
  <1>3. CASE \/ \E h \in Handlers, t \in Targets, tag \in Tags \cup {None} :
                  SetAutowork(h, t, tag)
             \/ \E r \in Requirements :
                  \/ Requeue(r) \/ Delete(r)
                  \/ \E status \in Verdicts : SetStatus(r, status)
                  \/ \E tag \in Tags : Retag(r, tag)
             \/ \E tag \in Tags, rs \in SUBSET Requirements : ResumeTag(tag, rs)
             \/ \E v \in Conversations : UserCancels(v)
             \/ \E x \in Terminals : DeleteTerminal(x)
    BY <1>3, RequestsHonest, RequeuesHonest, ClosesHonest, RetagHonest, UserCancelsHonest,
       DeleteTerminalHonest
  <1> QED BY <1>1, <1>2, <1>3 DEF UserStep

LEMMA NextHonest ==
  ASSUME BoardTyped, EarnedInv, AutoWorkNext
  PROVE  Honest
  <1>1. CASE \E t \in Targets : LoopDies(t)
    BY <1>1, LoopMovesHonest
  <1>2. CASE \E v \in Conversations : SendFails(v)
    BY <1>2, SendEndsHonest
  <1> QED BY <1>1, <1>2, LoopStepHonest, RequestsHonest, HandlerStepHonest, ClosesHonest,
             ReceiverStepHonest, UserStepHonest, CrashHonest
          DEF AutoWorkNext

LEMMA InitEarned ==
  ASSUME AutoWorkInit PROVE EarnedInv
  <1>1. None # "done" /\ None \notin Claims
    BY ReceiversAssumption DEF Verdicts
  <1> QED BY <1>1 DEF AutoWorkInit, ReceiversInit, NoAdmission, LoopAt, EarnedInv, TurnsRun,
                      ReceiptsRun, GivenRun, OutcomesEarned, LoopsEarned

LEMMA StutterEarned ==
  ASSUME EarnedInv, UNCHANGED vars PROVE EarnedInv'
  BY DEF vars, storeVars, receiverVars, loopVars, EarnedInv, TurnsRun, ReceiptsRun, GivenRun,
         OutcomesEarned, LoopsEarned, Earned, Past

LEMMA AlwaysEarned == AutoWorkSpec => []EarnedInv
  <1>1. BoardTyped /\ BoardTyped' /\ EarnedInv /\ [AutoWorkNext]_vars => EarnedInv'
    BY NextHonest, HonestKeeps, StutterEarned
  <1> QED BY <1>1, InitEarned, AlwaysTyped, PTL DEF AutoWorkSpec

\* AutoWork reports done only what an agent was given: no failed start,
\* restart, parked admission, replayed receipt or verdict of an earlier
\* generation makes a row done whose claim was not handed over.
THEOREM DoneOnlyAfterRun == AutoWorkSpec => DoneWasRun
  <1>1. BoardTyped /\ EarnedInv /\ [AutoWorkNext]_vars =>
          [\A r \in Requirements :
             requirement[r].status = "in_progress" /\ requirement'[r].status = "done"
               => [req |-> r, gen |-> requirement[r].gen] \in runs]_vars
    BY NextHonest DEF Honest, DoneFree, ClaimOf
  <1> QED BY <1>1, AlwaysTyped, AlwaysEarned, PTL DEF AutoWorkSpec, DoneWasRun

=============================================================================
