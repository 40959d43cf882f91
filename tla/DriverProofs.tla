---------------------------- MODULE DriverProofs ----------------------------
(***************************************************************************)
(* Who drives a claim of AutoWork: one loop, request or custodian at a     *)
(* time, and a new loop only after the turn of the last one was absorbed.  *)
(***************************************************************************)
EXTENDS AutoWorkProofs

-----------------------------------------------------------------------------
(* The inductive invariant.  start and stop hold the lifecycle lock of the *)
(* target from the moment the loop is taken out; whoever works on a claim  *)
(* works for the owner of its generation.                                  *)

Locking == {"park", "resolve", "start"}

LockExclusive ==
  \A h, k \in Threads :
    /\ handler[h].step \in Locking /\ handler[k].step \in Locking
    /\ handler[h].target = handler[k].target
    => h = k
LockedOff ==
  \A h \in Threads : handler[h].step \in Locking => loop[handler[h].target].pc = "off"
OffHasNone == \A t \in Targets : loop[t].pc = "off" => loop[t].claim = None
ClaimLocked == \A h \in Threads : handler[h].claim # None => handler[h].step \in Locking
LockInv == LockExclusive /\ LockedOff /\ OffHasNone /\ ClaimLocked

\* the loop of t, or a request that stops it, works on c
Holder(t, c) ==
  \/ loop[t].claim = c
  \/ \E h \in Threads : handler[h].target = t /\ handler[h].claim = c
HolderRows ==
  \A t \in Targets, c \in Claims :
    Holder(t, c) =>
      /\ c.gen <= requirement[c.req].gen
      /\ c.gen = requirement[c.req].gen => requirement[c.req].owner \in {t, None}
OneHolder == \A t, u \in Targets, c \in Claims : Holder(t, c) /\ Holder(u, c) => t = u
HoldInv == HolderRows /\ OneHolder

DriverInv == LockInv /\ HoldInv

LEMMA NoneNoClaim == None \notin Claims /\ None \notin Targets
  BY ReceiversAssumption, StoreAssumption DEF Targets

LEMMA DriverGivesOneDriver ==
  ASSUME BoardTyped, DriverInv PROVE OneDriver
  <1>1. \A t, u \in Targets : loop[t].claim # None /\ loop[t].claim = loop[u].claim => t = u
    <2> TAKE t, u \in Targets
    <2> HAVE loop[t].claim # None /\ loop[t].claim = loop[u].claim
    <2>1. loop[t].claim \in Claims
      BY LoopFields DEF BoardTyped
    <2> QED
      BY <2>1 DEF DriverInv, HoldInv, OneHolder, Holder
  <1>2. \A h \in Threads :
          handler[h].step \in {"park", "resolve"} => loop[handler[h].target].pc = "off"
    BY DEF DriverInv, LockInv, LockedOff, Locking
  <1>3. \A h, k \in Threads :
          handler[h].claim # None /\ handler[h].claim = handler[k].claim => h = k
    <2> TAKE h, k \in Threads
    <2> HAVE handler[h].claim # None /\ handler[h].claim = handler[k].claim
    <2>1. handler[h].claim \in Claims
      BY HandlerFields DEF BoardTyped
    <2>2. handler[h].step \in Locking /\ handler[k].step \in Locking
      BY DEF DriverInv, LockInv, ClaimLocked
    <2>3. handler[h].target \in Targets /\ handler[k].target \in Targets
      BY <2>2, HandlerFields DEF BoardTyped, Locking
    <2>4. Holder(handler[h].target, handler[h].claim) /\ Holder(handler[k].target, handler[h].claim)
      BY DEF Holder
    <2>5. handler[h].target = handler[k].target
      BY <2>1, <2>3, <2>4 DEF DriverInv, HoldInv, OneHolder
    <2> QED
      BY <2>2, <2>5 DEF DriverInv, LockInv, LockExclusive
  <1> QED
    BY <1>1, <1>2, <1>3 DEF OneDriver

-----------------------------------------------------------------------------
(* No statement but a claim gives a row a new owner or a new generation.   *)

Loosens(r, row) ==
  row.gen = requirement[r].gen /\ row.owner \in {requirement[r].owner, None}
Eases(r, row) ==
  /\ Loosens(r, row)
  /\ row.tag = requirement[r].tag
  /\ row.status = "in_progress" =>
       requirement[r].status = "in_progress" /\ row.owner = requirement[r].owner
RowsLoosen(f) == \A r \in Requirements : Loosens(r, f[r])
RowsEase(f) == \A r \in Requirements : Eases(r, f[r])

LEMMA EaseLoosens == ASSUME NEW f, RowsEase(f) PROVE RowsLoosen(f)
  BY DEF RowsEase, RowsLoosen, Eases

LEMMA EaseSame == RowsEase(requirement)
  BY DEF RowsEase, Eases, Loosens

LEMMA ResolvedEases ==
  ASSUME RowsTyped, NEW r \in Requirements, NEW s, s # "in_progress"
  PROVE  Eases(r, Resolved(requirement[r], s))
  BY DEF RowsTyped, Rows, Resolved, Eases, Loosens

LEMMA RequeuedEases ==
  ASSUME RowsTyped, NEW r \in Requirements, NEW reset
  PROVE  Eases(r, Requeued(requirement[r], reset))
  <1> DEFINE a == IF reset THEN 0 ELSE requirement[r].attempts
             row == [requirement[r] EXCEPT !.status = "pending", !.owner = None, !.attempts = a]
  <1>1. Requeued(requirement[r], reset) = row
    BY DEF Requeued
  <1> HIDE DEF a
  <1> QED
    BY <1>1 DEF RowsTyped, Rows, Eases, Loosens

LEMMA AbandonedEases ==
  ASSUME RowsTyped, NEW r \in Requirements
  PROVE  Eases(r, Abandoned(requirement[r]))
  <1> DEFINE a == IF requirement[r].attempts = 0 THEN 0 ELSE requirement[r].attempts - 1
             row == [requirement[r] EXCEPT !.status = "pending", !.owner = None, !.attempts = a]
  <1>1. Abandoned(requirement[r]) = row
    BY DEF Abandoned
  <1> HIDE DEF a
  <1> QED
    BY <1>1 DEF RowsTyped, Rows, Eases, Loosens

LEMMA DetachedEases ==
  ASSUME RowsTyped, NEW r \in Requirements
  PROVE  Eases(r, Detached(requirement[r]))
  <1>1. CASE requirement[r].status = "in_progress"
    BY <1>1, ResolvedEases DEF Detached
  <1>2. CASE requirement[r].status = "needs_review"
    BY <1>2 DEF Detached, Eases, Loosens
  <1>3. CASE requirement[r].status \notin {"in_progress", "needs_review"}
    BY <1>3 DEF Detached, RowsTyped, Rows, Eases, Loosens
  <1> QED
    BY <1>1, <1>2, <1>3

LEMMA ResumedEases ==
  ASSUME RowsTyped, NEW r \in Requirements
  PROVE  Eases(r, ResumedForEnable(requirement[r]))
  <1>1. CASE requirement[r].status = "in_progress"
    BY <1>1, ResolvedEases DEF ResumedForEnable
  <1>2. CASE requirement[r].status \in {"failed", "pending"}
    BY <1>2, RequeuedEases DEF ResumedForEnable
  <1>3. CASE requirement[r].status \notin {"in_progress", "failed", "pending"}
    BY <1>3 DEF ResumedForEnable, Eases, Loosens
  <1> QED
    BY <1>1, <1>2, <1>3

\* one row changes
LEMMA EaseOne ==
  ASSUME RowsTyped, NEW r \in Requirements, NEW row, Eases(r, row)
  PROVE  RowsEase([requirement EXCEPT ![r] = row])
  BY EaseSame DEF RowsEase, RowsTyped

LEMMA WithVerdictEases ==
  ASSUME RowsTyped, NEW c \in Claims, NEW t, NEW s \in Verdicts
  PROVE  RowsEase(WithVerdict(c, t, s))
  <1>1. CASE Holds(c, t)
    <2>1. Eases(c.req, Resolved(requirement[c.req], s))
      BY ResolvedEases, ClaimReq DEF Verdicts
    <2> QED
      BY <1>1, <2>1, EaseOne, ClaimReq DEF WithVerdict
  <1>2. CASE ~Holds(c, t)
    BY <1>2, EaseSame DEF WithVerdict
  <1> QED
    BY <1>1, <1>2

LEMMA AbandonedOrQuarantinedEases ==
  ASSUME RowsTyped, NEW c \in Claims, NEW t
  PROVE  RowsEase(AbandonedOrQuarantined(c, t))
  <1>1. CASE CanAbandon(c, t)
    BY <1>1, AbandonedEases, EaseOne, ClaimReq DEF AbandonedOrQuarantined
  <1>2. CASE ~CanAbandon(c, t)
    BY <1>2, WithVerdictEases DEF AbandonedOrQuarantined, Verdicts
  <1> QED
    BY <1>1, <1>2

LEMMA ClosedRowsEase ==
  ASSUME RowsTyped, AdmissionsTyped, NEW c \in Claims, NEW t
  PROVE  RowsEase(ClosedRows(c, t))
  <1>1. CASE t \in Conversations \/ admission[c].phase = "none"
    BY <1>1, AbandonedOrQuarantinedEases DEF ClosedRows
  <1>2. CASE ~(t \in Conversations \/ admission[c].phase = "none")
    <2> DEFINE s == IF admission[c].phase = "settled" THEN admission[c].outcome
                    ELSE "needs_review"
    <2>1. s \in Verdicts
      BY DEF AdmissionsTyped, Verdicts
    <2>2. ClosedRows(c, t) = WithVerdict(c, t, s)
      BY <1>2 DEF ClosedRows
    <2> HIDE DEF s
    <2> QED
      BY <2>1, <2>2, WithVerdictEases
  <1> QED
    BY <1>1, <1>2

LEMMA SettleRowsEase ==
  ASSUME RowsTyped, NEW t \in Targets, loop[t].claim \in Claims
  PROVE  RowsEase(SettleRows(t))
  <1>1. CASE loop[t].outcome \in Verdicts
    <2>1. SettleRows(t) = WithVerdict(loop[t].claim, t, loop[t].outcome)
      BY <1>1 DEF SettleRows, Verdicts
    <2> QED
      BY <1>1, <2>1, WithVerdictEases
  <1>2. CASE loop[t].outcome \notin Verdicts
    <2>1. \/ SettleRows(t) = WithVerdict(loop[t].claim, t, "failed")
          \/ SettleRows(t) = AbandonedOrQuarantined(loop[t].claim, t)
      BY <1>2 DEF SettleRows
    <2>2. "failed" \in Verdicts
      BY DEF Verdicts
    <2> QED
      BY <2>1, <2>2, WithVerdictEases, AbandonedOrQuarantinedEases
  <1> QED
    BY <1>1, <1>2

LEMMA ParkedRowsEase ==
  ASSUME RowsTyped, NEW cs PROVE RowsEase(ParkedRows(cs))
  <1> DEFINE Row(r) == IF \E c \in cs : c.req = r /\ Holds(c, admission[c].terminal)
                       THEN Resolved(requirement[r], "needs_review")
                       ELSE requirement[r]
  <1>1. \A r \in Requirements : Eases(r, Row(r))
    BY ResolvedEases, EaseSame DEF RowsEase
  <1>2. ParkedRows(cs) = [r \in Requirements |-> Row(r)]
    BY DEF ParkedRows
  <1> HIDE DEF Row
  <1> QED
    BY <1>1, <1>2 DEF RowsEase

-----------------------------------------------------------------------------
(* Every step but a claim and a retag eases the rows.                      *)

LEMMA RowEases ==
  ASSUME BoardTyped,
         \/ \E t \in Targets : Settles(t) \/ Releases(t) \/ CustodyCloses(t)
         \/ \E h \in Threads : HandlerResolves(h)
         \/ \E r \in Requirements :
              \/ Sweep(r) \/ Delete(r) \/ Requeue(r)
              \/ \E status \in Verdicts : SetStatus(r, status)
         \/ \E v \in Conversations : AgentDeclares(v)
         \/ \E x \in Terminals : CliDeclares(x)
  PROVE  RowsEase(requirement')
  <1> USE DEF BoardTyped
  <1>1. CASE \E t \in Targets : Settles(t)
    BY <1>1, SettleRowsEase, WorkingClaim DEF Settles, Working, LoopSteps
  <1>2. CASE \E t \in Targets : Releases(t)
    BY <1>2, AbandonedOrQuarantinedEases, WorkingClaim DEF Releases, Working, LoopSteps
  <1>3. CASE \E t \in Targets : CustodyCloses(t)
    BY <1>3, ClosedRowsEase, WorkingClaim DEF CustodyCloses, Working, LoopSteps
  <1>4. CASE \E h \in Threads : HandlerResolves(h)
    <2>1. PICK h \in Threads : HandlerResolves(h)
      BY <1>4
    <2>2. CASE handler[h].claim = None
      BY <2>1, <2>2, EaseSame DEF HandlerResolves
    <2>3. CASE handler[h].claim # None
      BY <2>1, <2>3, HandlerFields, ClosedRowsEase DEF HandlerResolves
    <2> QED
      BY <2>2, <2>3
  <1>5. CASE \E r \in Requirements : Sweep(r)
    <2>1. PICK r \in Requirements :
            requirement' = [requirement EXCEPT ![r] = Resolved(requirement[r], "needs_review")]
      BY <1>5 DEF Sweep
    <2>2. Eases(r, Resolved(requirement[r], "needs_review"))
      BY ResolvedEases
    <2> QED
      BY <2>1, <2>2, EaseOne
  <1>6. CASE \E r \in Requirements : Delete(r)
    <2>1. PICK r \in Requirements : Delete(r)
      BY <1>6
    <2> DEFINE s == IF requirement[r].status = "in_progress" THEN "needs_review" ELSE "deleted"
    <2>2. s # "in_progress" /\ requirement' = [requirement EXCEPT ![r] = Resolved(requirement[r], s)]
      BY <2>1 DEF Delete
    <2> HIDE DEF s
    <2> QED
      BY <2>2, ResolvedEases, EaseOne
  <1>7. CASE \E r \in Requirements : Requeue(r)
    <2>1. PICK r \in Requirements :
            requirement' = [requirement EXCEPT ![r] = Requeued(requirement[r], FALSE)]
      BY <1>7 DEF Requeue
    <2>2. Eases(r, Requeued(requirement[r], FALSE))
      BY RequeuedEases
    <2> QED
      BY <2>1, <2>2, EaseOne
  <1>8. CASE \E r \in Requirements, status \in Verdicts : SetStatus(r, status)
    <2>1. PICK r \in Requirements, status \in Verdicts :
            requirement' = [requirement EXCEPT ![r] = Resolved(requirement[r], status)]
      BY <1>8 DEF SetStatus
    <2>2. status # "in_progress"
      BY DEF Verdicts
    <2>3. Eases(r, Resolved(requirement[r], status))
      BY <2>2, ResolvedEases
    <2> QED
      BY <2>1, <2>3, EaseOne
  <1>9. CASE \E v \in Conversations : AgentDeclares(v)
    BY <1>9, WithVerdictEases DEF AgentDeclares, Verdicts
  <1>10. CASE \E x \in Terminals : CliDeclares(x)
    <2>1. PICK x \in Terminals : CliDeclares(x)
      BY <1>10
    <2>2. PICK c \in term[x].given, s \in {"done", "failed"} : requirement' = WithVerdict(c, x, s)
      BY <2>1 DEF CliDeclares
    <2>3. c \in Claims /\ s \in Verdicts
      BY <2>2 DEF TermsTyped, Sessions, Verdicts
    <2> QED
      BY <2>2, <2>3, WithVerdictEases
  <1> QED
    BY <1>1, <1>2, <1>3, <1>4, <1>5, <1>6, <1>7, <1>8, <1>9, <1>10

LEMMA ParkEases ==
  ASSUME BoardTyped, NEW cs, Park(cs) PROVE RowsEase(requirement')
  BY ParkedRowsEase DEF Park, BoardTyped

LEMMA HandlerResumesEases ==
  ASSUME BoardTyped, NEW h \in Threads, HandlerResumes(h) PROVE RowsEase(requirement')
  <1> DEFINE rows == {r \in Requirements : requirement[r].tag = handler[h].tag}
             Row(r) == IF r \in rows THEN ResumedForEnable(requirement[r]) ELSE requirement[r]
  <1>1. \A r \in Requirements : Eases(r, Row(r))
    BY ResumedEases, EaseSame DEF RowsEase, BoardTyped
  <1>2. requirement' = requirement \/ requirement' = [r \in Requirements |-> Row(r)]
    BY DEF HandlerResumes, storeVars
  <1> HIDE DEF Row
  <1> QED
    BY <1>1, <1>2, EaseSame DEF RowsEase

LEMMA ResumeTagEases ==
  ASSUME BoardTyped, NEW tag, NEW rs, ResumeTag(tag, rs) PROVE RowsEase(requirement')
  <1> DEFINE Row(r) == IF r \in rs THEN Requeued(requirement[r], TRUE) ELSE requirement[r]
  <1>1. \A r \in Requirements : Eases(r, Row(r))
    BY RequeuedEases, EaseSame DEF RowsEase, BoardTyped
  <1>2. requirement' = [r \in Requirements |-> Row(r)]
    BY DEF ResumeTag
  <1> HIDE DEF Row
  <1> QED
    BY <1>1, <1>2 DEF RowsEase

LEMMA DeleteTerminalEases ==
  ASSUME BoardTyped, NEW x \in Terminals, DeleteTerminal(x) PROVE RowsEase(requirement')
  <1> DEFINE Row(r) == IF requirement[r].owner = x THEN Detached(requirement[r])
                       ELSE requirement[r]
  <1>1. \A r \in Requirements : Eases(r, Row(r))
    BY DetachedEases, EaseSame DEF RowsEase, BoardTyped
  <1>2. requirement' = [r \in Requirements |-> Row(r)]
    BY DEF DeleteTerminal
  <1> HIDE DEF Row
  <1> QED
    BY <1>1, <1>2 DEF RowsEase

LEMMA CrashEases ==
  ASSUME BoardTyped, Crash PROVE RowsEase(requirement')
  <1> DEFINE ghosts == {x \in Terminals : term[x].status = "running"}
             Row(r) == IF requirement[r].status = "in_progress" /\ requirement[r].owner \in ghosts
                       THEN Resolved(requirement[r], "needs_review") ELSE requirement[r]
  <1>1. \A r \in Requirements : Eases(r, Row(r))
    BY ResolvedEases, EaseSame DEF RowsEase, BoardTyped
  <1>2. requirement' = [r \in Requirements |-> Row(r)]
    BY DEF Crash
  <1> HIDE DEF Row
  <1> QED
    BY <1>1, <1>2 DEF RowsEase

LEMMA RetagLoosens ==
  ASSUME BoardTyped, NEW r \in Requirements, NEW tag, Retag(r, tag)
  PROVE  RowsLoosen(requirement')
  <1>1. requirement' = [requirement EXCEPT ![r].tag = tag]
    BY DEF Retag
  <1> QED
    BY <1>1 DEF BoardTyped, RowsTyped, Rows, RowsLoosen, Loosens

-----------------------------------------------------------------------------
(* What most steps do to the loops and to the requests.                    *)

\* t's loop takes no claim and is not installed
LoopKeeps(t) ==
  /\ loop'[t].claim \in {loop[t].claim, None}
  /\ loop[t].pc = "off" => loop'[t].pc = "off"
  /\ loop'[t].pc = "off" => loop'[t].claim = None
\* h takes no claim and no lock
HandlerKeeps(h) ==
  /\ handler'[h].claim \in {handler[h].claim, None}
  /\ handler'[h].step \in Locking =>
       handler[h].step \in Locking /\ handler'[h].target = handler[h].target
  /\ handler'[h].claim # None => handler'[h].step \in Locking

LoopsKeep == \A t \in Targets : LoopKeeps(t)
HandlersKeep == \A h \in Threads : HandlerKeeps(h)

LEMMA SameLoops == ASSUME LockInv, loop' = loop PROVE LoopsKeep
  BY DEF LoopsKeep, LoopKeeps, LockInv, OffHasNone

LEMMA SameHandlers == ASSUME LockInv, handler' = handler PROVE HandlersKeep
  BY DEF HandlersKeep, HandlerKeeps, LockInv, ClaimLocked

LEMMA KeepsLock ==
  ASSUME BoardTyped, LockInv, LoopsKeep, HandlersKeep PROVE LockInv'
  <1>1. LockExclusive'
    BY DEF LockInv, LockExclusive, HandlersKeep, HandlerKeeps
  <1>2. LockedOff'
    <2> SUFFICES ASSUME NEW h \in Threads, handler'[h].step \in Locking
                 PROVE  loop'[handler'[h].target].pc = "off"
      BY DEF LockedOff
    <2>1. handler[h].step \in Locking /\ handler'[h].target = handler[h].target
      BY DEF HandlersKeep, HandlerKeeps
    <2>2. handler[h].target \in Targets /\ loop[handler[h].target].pc = "off"
      BY <2>1, HandlerFields DEF BoardTyped, Locking, LockInv, LockedOff
    <2> QED
      BY <2>1, <2>2 DEF LoopsKeep, LoopKeeps
  <1>3. OffHasNone' /\ ClaimLocked'
    BY DEF OffHasNone, ClaimLocked, LoopsKeep, LoopKeeps, HandlersKeep, HandlerKeeps
  <1> QED
    BY <1>1, <1>2, <1>3 DEF LockInv

LEMMA KeepsHolders ==
  ASSUME LoopsKeep, HandlersKeep, NEW t \in Targets, NEW c \in Claims, Holder(t, c)'
  PROVE  Holder(t, c)
  <1>1. CASE loop'[t].claim = c
    BY <1>1, NoneNoClaim DEF LoopsKeep, LoopKeeps, Holder
  <1>2. CASE \E h \in Threads : handler'[h].target = t /\ handler'[h].claim = c
    BY <1>2, NoneNoClaim DEF HandlersKeep, HandlerKeeps, Holder
  <1> QED
    BY <1>1, <1>2 DEF Holder

\* rows that loosen keep what is known of the holders
LEMMA LooserRows ==
  ASSUME HolderRows, RowsLoosen(requirement'), NEW t \in Targets, NEW c \in Claims, Holder(t, c)
  PROVE  /\ c.gen <= requirement'[c.req].gen
         /\ c.gen = requirement'[c.req].gen => requirement'[c.req].owner \in {t, None}
  <1>1. c.req \in Requirements
    BY ClaimReq
  <1>2. Loosens(c.req, requirement'[c.req])
    BY <1>1 DEF RowsLoosen
  <1>3. /\ c.gen <= requirement[c.req].gen
        /\ c.gen = requirement[c.req].gen => requirement[c.req].owner \in {t, None}
    BY DEF HolderRows
  <1> QED
    BY <1>2, <1>3 DEF Loosens

LEMMA KeepsDriver ==
  ASSUME BoardTyped, DriverInv, RowsLoosen(requirement'), LoopsKeep, HandlersKeep
  PROVE  DriverInv'
  <1>1. LockInv'
    BY KeepsLock DEF DriverInv
  <1>2. HolderRows'
    <2> SUFFICES ASSUME NEW t \in Targets, NEW c \in Claims, Holder(t, c)'
                 PROVE  /\ c.gen <= requirement'[c.req].gen
                        /\ c.gen = requirement'[c.req].gen => requirement'[c.req].owner \in {t, None}
      BY DEF HolderRows
    <2> QED
      BY KeepsHolders, LooserRows DEF DriverInv, HoldInv
  <1>3. OneHolder'
    BY KeepsHolders DEF OneHolder, DriverInv, HoldInv
  <1> QED
    BY <1>1, <1>2, <1>3 DEF DriverInv, HoldInv

\* somebody takes the claim of a row that t owns
LEMMA TakesHolder ==
  ASSUME HoldInv, RowsLoosen(requirement'), NEW t \in Targets, NEW c \in Claims,
         requirement[c.req].gen = c.gen, requirement[c.req].owner = t,
         \A u \in Targets, d \in Claims : Holder(u, d)' => Holder(u, d) \/ (u = t /\ d = c)
  PROVE  HoldInv'
  <1>1. \A u \in Targets : Holder(u, c) => u = t
    BY NoneNoClaim DEF HoldInv, HolderRows
  <1>2. HolderRows'
    <2> SUFFICES ASSUME NEW u \in Targets, NEW d \in Claims, Holder(u, d)'
                 PROVE  /\ d.gen <= requirement'[d.req].gen
                        /\ d.gen = requirement'[d.req].gen => requirement'[d.req].owner \in {u, None}
      BY DEF HolderRows
    <2>1. CASE Holder(u, d)
      BY <2>1, LooserRows DEF HoldInv
    <2>2. CASE u = t /\ d = c
      <3>1. Loosens(c.req, requirement'[c.req]) /\ c.gen \in Int
        BY ClaimReq DEF RowsLoosen
      <3> QED
        BY <2>2, <3>1 DEF Loosens
    <2> QED
      BY <2>1, <2>2
  <1>3. OneHolder'
    BY <1>1 DEF OneHolder, HoldInv
  <1> QED
    BY <1>2, <1>3 DEF HoldInv

-----------------------------------------------------------------------------
(* The steps that go on with the claim of a loop or drop it.               *)

\* a claim stays with the tag under which its loop found it
TagKeeps(t) ==
  loop'[t].claim # None => loop'[t].claim = loop[t].claim /\ loop'[t].tag = loop[t].tag
\* a loop that is not being closed stays installed for its tag
DriveKeeps(t) ==
  loop[t].pc \notin {"off", "closing"} =>
    loop'[t].pc \notin {"off", "closing"} /\ loop'[t].tag = loop[t].tag
LoopsStay == \A t \in Targets : LoopKeeps(t) /\ TagKeeps(t) /\ DriveKeeps(t)

LEMMA StayKeeps == ASSUME LoopsStay PROVE LoopsKeep
  BY DEF LoopsStay, LoopsKeep

LEMMA SameStay == ASSUME LockInv, loop' = loop PROVE LoopsStay
  BY DEF LoopsStay, LoopKeeps, TagKeeps, DriveKeeps, LockInv, OffHasNone

LEMMA LoopGoesOn ==
  ASSUME LockInv, NEW t \in Targets, loop[t].pc # "off", LoopOthers(t),
         loop'[t].pc \notin {"off", "closing"}, loop'[t].claim \in {loop[t].claim, None},
         loop'[t].tag = loop[t].tag
  PROVE  LoopsStay
  <1>1. LoopKeeps(t) /\ TagKeeps(t) /\ DriveKeeps(t)
    BY DEF LoopKeeps, TagKeeps, DriveKeeps
  <1>2. \A u \in Targets \ {t} : LoopKeeps(u) /\ TagKeeps(u) /\ DriveKeeps(u)
    BY DEF LoopOthers, LoopKeeps, TagKeeps, DriveKeeps, LockInv, OffHasNone
  <1> QED
    BY <1>1, <1>2 DEF LoopsStay

LEMMA ResetStays ==
  ASSUME BoardTyped, LockInv, NEW t \in Targets, NEW pc \in LoopSteps \ {"off", "closing"},
         loop[t].pc # "off", loop' = [loop EXCEPT ![t] = LoopAt(pc, loop[t].tag)]
  PROVE  LoopsStay
  <1> DEFINE new == LoopAt(pc, loop[t].tag)
  <1>1. new.pc = pc /\ new.claim = None /\ new.tag = loop[t].tag
        /\ pc \notin {"off", "closing"}
    BY DEF LoopAt
  <1>2. loop'[t] = new /\ LoopOthers(t)
    BY DEF BoardTyped, LoopTyped, LoopOthers
  <1> HIDE DEF new
  <1> QED
    BY <1>1, <1>2, LoopGoesOn

LEMMA GotoStays ==
  ASSUME BoardTyped, LockInv, NEW t \in Targets, NEW pc \in LoopSteps \ {"off", "closing"},
         loop[t].pc # "off", Goto(t, pc)
  PROVE  LoopsStay
  BY GotoFacts, LoopGoesOn DEF BoardTyped

LEMMA EndsStays ==
  ASSUME BoardTyped, LockInv, NEW t \in Targets, NEW out, loop[t].pc # "off", Ends(t, out)
  PROVE  LoopsStay
  <1>1. /\ loop'[t].pc = "settling" /\ loop'[t].claim = loop[t].claim
        /\ loop'[t].tag = loop[t].tag /\ LoopOthers(t)
    BY EndsFacts DEF BoardTyped
  <1> QED
    BY <1>1, LoopGoesOn

LEMMA EpochStays ==
  ASSUME BoardTyped, LockInv, NEW t \in Targets, NEW pc \in LoopSteps \ {"off", "closing"}, NEW e,
         loop[t].pc # "off", loop' = [loop EXCEPT ![t].pc = pc, ![t].epoch = e]
  PROVE  LoopsStay
  <1>1. /\ loop'[t].pc = pc /\ loop'[t].claim = loop[t].claim
        /\ loop'[t].tag = loop[t].tag /\ LoopOthers(t)
    BY DEF BoardTyped, LoopTyped, Loops, LoopOthers
  <1> QED
    BY <1>1, LoopGoesOn

LEMMA ResetsStay ==
  ASSUME BoardTyped, LockInv, NEW t \in Targets,
         \/ LoopPrepares(t) \/ LoopFindsNothing(t) \/ LoopReturns(t) \/ LoopReachesCap(t)
         \/ LoopDies(t)
  PROVE  LoopsStay
  <1>1. CASE LoopPrepares(t)
    BY <1>1, ResetStays DEF LoopPrepares, LoopSteps
  <1>2. CASE LoopFindsNothing(t)
    <2> DEFINE pc == IF t \in Terminals /\ term[t].status = "gone" THEN "custody" ELSE "idle"
    <2>1. pc \in LoopSteps \ {"off", "closing"} /\ loop[t].pc = "preparing"
          /\ loop' = [loop EXCEPT ![t] = LoopAt(pc, loop[t].tag)]
      BY <1>2 DEF LoopFindsNothing, LoopSteps
    <2> HIDE DEF pc
    <2> QED
      BY <2>1, ResetStays
  <1>3. CASE LoopReturns(t)
    BY <1>3, ResetStays DEF LoopReturns, LoopSteps
  <1>4. CASE LoopReachesCap(t)
    BY <1>4, ResetStays DEF LoopReachesCap, LoopSteps
  <1>5. CASE LoopDies(t)
    BY <1>5, ResetStays DEF LoopDies, LoopSteps
  <1> QED
    BY <1>1, <1>2, <1>3, <1>4, <1>5

LEMMA GotosStay ==
  ASSUME BoardTyped, LockInv, NEW t \in Targets,
         \/ LoopExits(t) \/ LoopPublishes(t) \/ Settles(t) \/ Pauses(t) \/ Interrupts(t)
         \/ Releases(t) \/ SendAdmits(t) \/ TerminalAdmits(t) \/ TerminalTypes(t)
         \/ TerminalSubmits(t) \/ TerminalWriteRefused(t) \/ TerminalLoses(t)
  PROVE  LoopsStay
  <1>1. loop[t].pc # "off"
    BY DEF LoopExits, LoopPublishes, Settles, Pauses, Interrupts, Releases, SendAdmits,
           TerminalAdmits, TerminalTypes, TerminalSubmits, TerminalWriteRefused, TerminalLoses
  <1>2. PICK pc \in LoopSteps \ {"off", "closing"} : Goto(t, pc)
    BY DEF LoopExits, LoopPublishes, Settles, Pauses, Interrupts, Releases, SendAdmits,
           TerminalAdmits, TerminalTypes, TerminalSubmits, TerminalWriteRefused, TerminalLoses,
           LoopSteps
  <1> QED
    BY <1>1, <1>2, GotoStays

LEMMA EndingsStay ==
  ASSUME BoardTyped, LockInv, NEW t \in Targets,
         \/ SendReplays(t) \/ SendRefused(t) \/ SendFails(t) \/ WaitObserves(t)
         \/ WaitGivesUp(t) \/ TerminalTurnEnds(t) \/ TerminalParks(t) \/ TerminalScopes(t)
         \/ TerminalReplays(t)
  PROVE  LoopsStay
  <1>1. loop[t].pc # "off"
    BY DEF SendReplays, SendRefused, SendFails, WaitObserves, WaitGivesUp, TerminalTurnEnds,
           TerminalParks, TerminalScopes, TerminalReplays
  <1>2. \/ \E out : Ends(t, out)
        \/ \E pc \in LoopSteps \ {"off", "closing"} : Goto(t, pc)
        \/ \E pc \in LoopSteps \ {"off", "closing"} : \E e :
             loop' = [loop EXCEPT ![t].pc = pc, ![t].epoch = e]
    <2>1. CASE SendReplays(t)
      BY <2>1 DEF SendReplays, LoopSteps
    <2>2. CASE SendRefused(t)
      BY <2>2 DEF SendRefused
    <2>3. CASE SendFails(t) \/ WaitObserves(t) \/ WaitGivesUp(t)
      BY <2>3 DEF SendFails, WaitObserves, WaitGivesUp
    <2>4. CASE TerminalTurnEnds(t)
      BY <2>4 DEF TerminalTurnEnds, LoopSteps
    <2>5. CASE TerminalParks(t)
      BY <2>5 DEF TerminalParks
    <2>6. CASE TerminalScopes(t)
      <3>1. \/ loop' = [loop EXCEPT ![t].pc = "scoped", ![t].epoch = term[t].pty]
            \/ \E out : Ends(t, out)
        BY <2>6 DEF TerminalScopes
      <3> QED
        BY <3>1 DEF LoopSteps
    <2>7. CASE TerminalReplays(t)
      <3>1. \/ loop' = [loop EXCEPT ![t].pc = "parking", ![t].epoch = admission[loop[t].claim].epoch]
            \/ \E out : Ends(t, out)
        BY <2>7 DEF TerminalReplays
      <3> QED
        BY <3>1 DEF LoopSteps
    <2> QED
      BY <2>1, <2>2, <2>3, <2>4, <2>5, <2>6, <2>7
  <1> QED
    BY <1>1, <1>2, EndsStays, GotoStays, EpochStays

LEMMA UserCancelsStays ==
  ASSUME BoardTyped, LockInv, NEW v \in Conversations, UserCancels(v) PROVE LoopsStay
  <1> DEFINE b == loop[v].cancelled \/ loop[v].pc \in {"preparing", "committed", "claimed", "waiting"}
  <1>1. loop' = [loop EXCEPT ![v].cancelled = b] /\ v \in Targets
    BY TargetKinds DEF UserCancels
  <1> HIDE DEF b
  <1>2. /\ LoopOthers(v) /\ loop'[v].pc = loop[v].pc /\ loop'[v].claim = loop[v].claim
        /\ loop'[v].tag = loop[v].tag
    BY <1>1 DEF BoardTyped, LoopTyped, Loops, LoopOthers
  <1> QED
    BY <1>2 DEF LoopOthers, LoopsStay, LoopKeeps, TagKeeps, DriveKeeps, LockInv, OffHasNone

LEMMA CustodyClosesStays ==
  ASSUME BoardTyped, LockInv, NEW t \in Targets, CustodyCloses(t) PROVE LoopsStay
  <1> DEFINE new == LoopAt("off", None)
  <1>1. new.pc = "off" /\ new.claim = None
    BY DEF LoopAt
  <1>2. loop'[t] = new /\ LoopOthers(t) /\ loop[t].pc = "closing"
    BY DEF CustodyCloses, BoardTyped, LoopTyped, LoopOthers
  <1> HIDE DEF new
  <1> QED
    BY <1>1, <1>2 DEF LoopOthers, LoopsStay, LoopKeeps, TagKeeps, DriveKeeps, LockInv, OffHasNone

-----------------------------------------------------------------------------
(* The requests that take no lock.                                         *)

ParkKeeps(h) ==
  handler[h].step = "park" => handler'[h].step = "park" /\ handler'[h].target = handler[h].target
HandlersStay == \A h \in Threads : HandlerKeeps(h) /\ ParkKeeps(h)

LEMMA SameRequests == ASSUME LockInv, handler' = handler PROVE HandlersStay
  BY SameHandlers DEF HandlersStay, HandlersKeep, ParkKeeps

\* one request moves
LEMMA OneRequest ==
  ASSUME LockInv, NEW h \in Threads, \A k \in Threads \ {h} : handler'[k] = handler[k],
         HandlerKeeps(h)
  PROVE  /\ HandlersKeep
         /\ handler[h].step # "park" => HandlersStay
  <1>1. \A k \in Threads \ {h} : HandlerKeeps(k) /\ ParkKeeps(k)
    BY DEF HandlerKeeps, ParkKeeps, LockInv, ClaimLocked
  <1> QED
    BY <1>1 DEF HandlersKeep, HandlersStay, ParkKeeps

\* a request is made or resumed: it holds nothing yet
LEMMA RequestMade ==
  ASSUME BoardTyped, LockInv, NEW h \in Threads, NEW new, new.claim = None,
         new.step \notin Locking, handler[h].step # "park", handler' = [handler EXCEPT ![h] = new]
  PROVE  HandlersStay
  <1>1. handler'[h] = new /\ \A k \in Threads \ {h} : handler'[k] = handler[k]
    BY DEF BoardTyped, HandlersTyped
  <1> QED
    BY <1>1, OneRequest DEF HandlerKeeps

LEMMA RequestsMadeStay ==
  ASSUME BoardTyped, LockInv,
         \/ \E h \in Handlers, t \in Targets, tag \in Tags \cup {None} : SetAutowork(h, t, tag)
         \/ \E t \in Targets : ResumeBinding(t)
  PROVE  HandlersStay
  <1>1. CASE \E h \in Handlers, t \in Targets, tag \in Tags \cup {None} : SetAutowork(h, t, tag)
    <2>1. PICK h \in Handlers, t \in Targets, tag \in Tags \cup {None} : SetAutowork(h, t, tag)
      BY <1>1
    <2> DEFINE new == [step |-> IF tag = None THEN "stop" ELSE "resume", target |-> t,
                       tag |-> tag, claim |-> None]
    <2>2. /\ handler' = [handler EXCEPT ![h] = new] /\ handler[h].step # "park" /\ h \in Threads
          /\ new.claim = None /\ new.step \notin Locking
      BY <2>1 DEF SetAutowork, NoRequest, Threads, Locking
    <2> HIDE DEF new
    <2> QED
      BY <2>2, RequestMade
  <1>2. CASE \E t \in Targets : ResumeBinding(t)
    <2>1. PICK t \in Targets : ResumeBinding(t)
      BY <1>2
    <2> DEFINE new == [step |-> "stop", target |-> t, tag |-> boot[t], claim |-> None]
    <2>2. /\ handler' = handler \/ handler' = [handler EXCEPT ![Boot] = new]
          /\ handler[Boot].step # "park" /\ Boot \in Threads
          /\ new.claim = None /\ new.step \notin Locking
      BY <2>1 DEF ResumeBinding, NoRequest, Threads, Locking
    <2> HIDE DEF new
    <2> QED
      BY <2>2, RequestMade, SameRequests
  <1> QED
    BY <1>1, <1>2

LEMMA RequestSteps ==
  ASSUME BoardTyped, LockInv, NEW h \in Threads,
         HandlerResumes(h) \/ HandlerParks(h) \/ HandlerResolves(h)
  PROVE  /\ HandlersKeep
         /\ handler[h].step # "park" => HandlersStay
  <1>1. PICK s \in {"stop", "resolve", "start"} :
          /\ handler' = [handler EXCEPT ![h].step = s]
          /\ s # "stop" => handler[h].step \in Locking
          /\ s = "stop" => handler[h].claim = None
    BY DEF HandlerResumes, HandlerParks, HandlerResolves, Locking, LockInv, ClaimLocked
  <1>2. /\ handler'[h].step = s /\ handler'[h].claim = handler[h].claim
        /\ handler'[h].target = handler[h].target
        /\ \A k \in Threads \ {h} : handler'[k] = handler[k]
    BY <1>1 DEF BoardTyped, HandlersTyped, Requests
  <1>3. HandlerKeeps(h)
    BY <1>1, <1>2 DEF HandlerKeeps, Locking
  <1> QED
    BY <1>2, <1>3, OneRequest

-----------------------------------------------------------------------------
(* The steps that take a claim, a lock or a loop.                          *)

\* what an active row says of its claim
LEMMA ActiveRow ==
  ASSUME RowsTyped, NEW tag, NEW t, NEW r \in Active(tag, t)
  PROVE  /\ ClaimOf(r) \in Claims /\ ClaimOf(r).req = r /\ ClaimOf(r).gen = requirement[r].gen
         /\ requirement[r].owner = t /\ requirement[r].status = "in_progress"
         /\ requirement[r].tag = tag /\ r \in Requirements
  BY ActiveClaim DEF Active, ClaimOf

LEMMA LoopTakes ==
  ASSUME BoardTyped, DriverInv, RowsLoosen(requirement'), handler' = handler,
         NEW t \in Targets, NEW tag, NEW r \in Active(tag, t),
         loop[t].pc # "off", loop'[t].pc # "off", loop'[t].claim = ClaimOf(r), LoopOthers(t)
  PROVE  DriverInv'
  <1> DEFINE c == ClaimOf(r)
  <1>1. c \in Claims /\ requirement[c.req].gen = c.gen /\ requirement[c.req].owner = t
    BY ActiveRow DEF BoardTyped
  <1>2. loop'[t].claim = c
    OBVIOUS
  <1> HIDE DEF c
  <1>3. \A u \in Targets, d \in Claims : Holder(u, d)' => Holder(u, d) \/ (u = t /\ d = c)
    BY <1>2 DEF Holder, LoopOthers
  <1>4. HoldInv'
    BY <1>1, <1>3, TakesHolder DEF DriverInv
  <1>5. LockExclusive' /\ ClaimLocked'
    BY DEF DriverInv, LockInv, LockExclusive, ClaimLocked
  <1>6. LockedOff'
    <2> SUFFICES ASSUME NEW h \in Threads, handler[h].step \in Locking
                 PROVE  loop'[handler[h].target].pc = "off"
      BY DEF LockedOff
    <2>1. handler[h].target \in Targets /\ loop[handler[h].target].pc = "off"
      BY HandlerFields DEF BoardTyped, DriverInv, LockInv, LockedOff, Locking
    <2> QED
      BY <2>1 DEF LoopOthers
  <1>7. OffHasNone'
    BY DEF DriverInv, LockInv, OffHasNone, LoopOthers
  <1> QED
    BY <1>4, <1>5, <1>6, <1>7 DEF DriverInv, LockInv

LEMMA LoopRecoversDriver ==
  ASSUME BoardTyped, DriverInv, NEW t \in Targets, LoopRecovers(t) PROVE DriverInv'
  <1>1. PICK r \in Active(loop[t].tag, t) :
          loop' = [loop EXCEPT ![t].pc = "committed", ![t].recovered = TRUE,
                               ![t].claim = [req |-> r, gen |-> requirement[r].gen]]
    BY DEF LoopRecovers
  <1> DEFINE c == ClaimOf(r)
  <1>2. loop' = [loop EXCEPT ![t].pc = "committed", ![t].recovered = TRUE, ![t].claim = c]
    BY <1>1 DEF ClaimOf
  <1> HIDE DEF c
  <1>3. loop'[t].pc = "committed" /\ loop'[t].claim = c /\ LoopOthers(t)
    BY <1>2 DEF BoardTyped, LoopTyped, Loops, LoopOthers
  <1>4. handler' = handler /\ requirement' = requirement /\ loop[t].pc = "preparing"
    BY DEF LoopRecovers, storeVars
  <1>5. RowsLoosen(requirement')
    BY <1>4, EaseSame, EaseLoosens
  <1> QED
    BY <1>3, <1>4, <1>5, LoopTakes DEF c

LEMMA OffReset == LoopAt("off", None).pc = "off" /\ LoopAt("off", None).claim = None
  BY DEF LoopAt

LEMMA CustodyRecoversDriver ==
  ASSUME BoardTyped, DriverInv, NEW t \in Targets, CustodyRecovers(t)
  PROVE  DriverInv' /\ RowsEase(requirement')
  <1>1. handler' = handler /\ loop[t].pc = "custody"
    BY DEF CustodyRecovers
  <1>2. CASE /\ loop' = [loop EXCEPT ![t] = LoopAt("off", None)]
             /\ UNCHANGED <<requirement, admission>>
    <2>1. RowsEase(requirement')
      BY <1>2, EaseSame
    <2>2. loop'[t] = LoopAt("off", None) /\ LoopOthers(t)
      BY <1>2 DEF BoardTyped, LoopTyped, LoopOthers
    <2>3. LoopsKeep
      BY <1>1, <2>2, OffReset
      DEF LoopOthers, LoopsKeep, LoopKeeps, DriverInv, LockInv, OffHasNone
    <2>4. HandlersKeep
      BY <1>1, SameHandlers DEF DriverInv
    <2> QED
      BY <2>1, <2>3, <2>4, EaseLoosens, KeepsDriver
  <1>3. CASE \E r \in Active(loop[t].tag, t) :
               /\ loop' = [loop EXCEPT ![t].pc = "closing",
                             ![t].claim = [req |-> r, gen |-> requirement[r].gen]]
               /\ IF t \in Terminals THEN Park(OpenAt(t, 0..MaxEpochs))
                  ELSE UNCHANGED <<requirement, admission>>
    <2>1. PICK r \in Active(loop[t].tag, t) :
               /\ loop' = [loop EXCEPT ![t].pc = "closing",
                             ![t].claim = [req |-> r, gen |-> requirement[r].gen]]
               /\ IF t \in Terminals THEN Park(OpenAt(t, 0..MaxEpochs))
                  ELSE UNCHANGED <<requirement, admission>>
      BY <1>3
    <2> DEFINE c == ClaimOf(r)
    <2>2. loop' = [loop EXCEPT ![t].pc = "closing", ![t].claim = c]
      BY <2>1 DEF ClaimOf
    <2> HIDE DEF c
    <2>3. loop'[t].pc = "closing" /\ loop'[t].claim = c /\ LoopOthers(t)
      BY <2>2 DEF BoardTyped, LoopTyped, Loops, LoopOthers
    <2>4. RowsEase(requirement')
      BY <2>1, EaseSame, ParkEases
    <2> QED
      BY <1>1, <2>3, <2>4, EaseLoosens, LoopTakes DEF c
  <1> QED
    BY <1>2, <1>3 DEF CustodyRecovers

\* the generation a claim mints is nobody's
LEMMA LoopClaimsDriver ==
  ASSUME BoardTyped, DriverInv, NEW t \in Targets, LoopClaims(t) PROVE DriverInv'
  <1>1. PICK r \in Claimable(loop[t].tag, t) :
          /\ requirement' = [requirement EXCEPT ![r] = Claimed(@, t)]
          /\ loop' = [loop EXCEPT ![t].pc = "committed",
                                  ![t].claim = [req |-> r, gen |-> requirement[r].gen + 1]]
    BY DEF LoopClaims
  <1> DEFINE c == [req |-> r, gen |-> requirement[r].gen + 1]
             row == Claimed(requirement[r], t)
  <1>2. /\ r \in Requirements /\ requirement[r].gen \in Nat /\ requirement[r] \in Rows
        /\ GoodRow(requirement[r]) /\ requirement[r].gen < MaxClaims
    BY DEF Claimable, BoardTyped, RowsTyped, Rows
  <1>3. row.gen = requirement[r].gen + 1 /\ row.owner = t
    <2> DEFINE g == requirement[r].gen + 1
               a == requirement[r].attempts + 1
    <2>1. row = [requirement[r] EXCEPT !.status = "in_progress", !.owner = t, !.gen = g,
                                       !.attempts = a]
      BY DEF Claimed
    <2>2. requirement[r] \in Rows
      BY <1>2
    <2> HIDE DEF row, g, a
    <2>3. row.gen = g /\ row.owner = t
      BY <2>1, <2>2 DEF Rows
    <2> QED
      BY <2>3 DEF g
  <1>4. /\ requirement'[r] = row /\ \A s \in Requirements \ {r} : requirement'[s] = requirement[s]
        /\ c.req = r /\ c.gen = requirement[r].gen + 1
        /\ loop' = [loop EXCEPT ![t].pc = "committed", ![t].claim = c]
    BY <1>1, <1>2 DEF BoardTyped, RowsTyped
  <1> HIDE DEF c, row
  <1>5. loop'[t].pc = "committed" /\ loop'[t].claim = c /\ LoopOthers(t)
    BY <1>4 DEF BoardTyped, LoopTyped, Loops, LoopOthers
  <1>6. handler' = handler /\ loop[t].pc = "preparing"
    BY DEF LoopClaims
  <1>7. \A u \in Targets, d \in Claims : Holder(u, d)' => Holder(u, d) \/ (u = t /\ d = c)
    BY <1>5, <1>6 DEF Holder, LoopOthers
  <1>8. \A u \in Targets, d \in Claims : Holder(u, d) => d # c /\ d.gen <= requirement[d.req].gen
    <2> TAKE u \in Targets, d \in Claims
    <2> HAVE Holder(u, d)
    <2>1. d.gen <= requirement[d.req].gen
      BY DEF DriverInv, HoldInv, HolderRows
    <2>2. d = c => requirement[r].gen + 1 <= requirement[r].gen
      BY <1>4, <2>1
    <2> QED
      BY <1>2, <2>1, <2>2
  <1>9. HolderRows'
    <2> SUFFICES ASSUME NEW u \in Targets, NEW d \in Claims, Holder(u, d)'
                 PROVE  /\ d.gen <= requirement'[d.req].gen
                        /\ d.gen = requirement'[d.req].gen => requirement'[d.req].owner \in {u, None}
      BY DEF HolderRows
    <2>1. CASE Holder(u, d) /\ d.req = r
      <3>1. d.gen <= requirement[r].gen /\ d.gen \in Int
        BY <2>1, <1>8, ClaimReq
      <3> QED
        BY <2>1, <3>1, <1>2, <1>3, <1>4
    <2>2. CASE Holder(u, d) /\ d.req # r
      <3>1. requirement'[d.req] = requirement[d.req]
        BY <1>4, <2>2, ClaimReq
      <3> QED
        BY <2>2, <3>1 DEF DriverInv, HoldInv, HolderRows
    <2>3. CASE u = t /\ d = c
      BY <2>3, <1>2, <1>3, <1>4
    <2> QED
      BY <1>7, <2>1, <2>2, <2>3
  <1>10. OneHolder'
    BY <1>7, <1>8 DEF OneHolder, DriverInv, HoldInv
  <1>11. LockedOff'
    <2> SUFFICES ASSUME NEW h \in Threads, handler[h].step \in Locking
                 PROVE  loop'[handler[h].target].pc = "off"
      BY <1>6 DEF LockedOff
    <2>1. handler[h].target \in Targets /\ loop[handler[h].target].pc = "off"
      BY HandlerFields DEF BoardTyped, DriverInv, LockInv, LockedOff, Locking
    <2> QED
      BY <1>5, <1>6, <2>1 DEF LoopOthers
  <1>12. LockExclusive' /\ OffHasNone' /\ ClaimLocked'
    BY <1>5, <1>6 DEF DriverInv, LockInv, LockExclusive, OffHasNone, ClaimLocked, LoopOthers
  <1> QED
    BY <1>9, <1>10, <1>11, <1>12 DEF DriverInv, LockInv, HoldInv

\* what a stop takes: the claim of an active row of the target, or one it holds
LEMMA StoppedClaimHeld ==
  ASSUME BoardTyped, NEW t \in Targets
  PROVE  \/ StoppedClaim(t) \in {None, loop[t].claim}
         \/ \E r \in Active(loop[t].tag, t) : StoppedClaim(t) = ClaimOf(r)
  <1>1. CASE Active(loop[t].tag, t) # {}
    <2> DEFINE r == CHOOSE r \in Active(loop[t].tag, t) : TRUE
    <2>1. r \in Active(loop[t].tag, t)
      BY <1>1
    <2>2. StoppedClaim(t) = ClaimOf(r)
      BY <1>1 DEF StoppedClaim, ClaimOf
    <2> HIDE DEF r
    <2> QED
      BY <2>1, <2>2
  <1>2. CASE Active(loop[t].tag, t) = {}
    BY <1>2 DEF StoppedClaim
  <1> QED
    BY <1>1, <1>2

\* the fields a stop writes
LEMMA HandlerStopsFacts ==
  ASSUME BoardTyped, NEW h \in Threads, HandlerStops(h)
  PROVE  LET t == handler[h].target
         IN /\ t \in Targets /\ handler[h].step = "stop" /\ loop[t].pc # "closing"
            /\ \A k \in Threads \ {h} : handler'[k] = handler[k]
            /\ handler'[h].target = t /\ handler'[h].step \in Locking
            /\ loop[t].pc # "off" /\ t \in Terminals => handler'[h].step = "park"
            /\ handler'[h].claim = IF loop[t].pc = "off" THEN None ELSE StoppedClaim(t)
            /\ loop'[t] = LoopAt("off", None) /\ LoopOthers(t)
            /\ \A k \in Threads :
                 handler[k].target = t => handler[k].step \notin Locking
            /\ requirement' = requirement /\ admission' = admission /\ term' = term
  <1> DEFINE t == handler[h].target
             s == CASE loop[t].pc = "off" -> "start"
                    [] t \in Terminals    -> "park"
                    [] OTHER              -> "resolve"
             c == IF loop[t].pc = "off" THEN None ELSE StoppedClaim(t)
  <1>1. t \in Targets /\ handler[h].step = "stop" /\ loop[t].pc # "closing"
    BY HandlerFields DEF BoardTyped, HandlerStops
  <1>2. s \in Locking /\ (loop[t].pc # "off" /\ t \in Terminals => s = "park")
    BY DEF Locking
  <1>3. /\ handler' = [handler EXCEPT ![h].step = s, ![h].claim = c]
        /\ loop' = [loop EXCEPT ![t] = LoopAt("off", None)]
    BY DEF HandlerStops
  <1>4. /\ requirement' = requirement /\ admission' = admission /\ term' = term
        /\ \A k \in Threads : handler[k].target = t => handler[k].step \notin Locking
    BY DEF HandlerStops, Locked, Locking, storeVars, receiverVars
  <1> HIDE DEF s, c, t
  <1>5. /\ handler'[h].step = s /\ handler'[h].claim = c /\ handler'[h].target = handler[h].target
        /\ \A k \in Threads \ {h} : handler'[k] = handler[k]
    BY <1>3 DEF BoardTyped, HandlersTyped, Requests
  <1>6. loop'[t] = LoopAt("off", None) /\ LoopOthers(t)
    BY <1>1, <1>3 DEF BoardTyped, LoopTyped, LoopOthers
  <1> QED
    BY <1>1, <1>2, <1>4, <1>5, <1>6 DEF t, c

LEMMA HandlerStopsDriver ==
  ASSUME BoardTyped, DriverInv, NEW h \in Threads, HandlerStops(h) PROVE DriverInv'
  <1> DEFINE t == handler[h].target
  <1>1. /\ t \in Targets /\ handler[h].step = "stop"
        /\ \A k \in Threads \ {h} : handler'[k] = handler[k]
        /\ handler'[h].target = t /\ handler'[h].step \in Locking
        /\ handler'[h].claim = IF loop[t].pc = "off" THEN None ELSE StoppedClaim(t)
        /\ loop'[t] = LoopAt("off", None) /\ LoopOthers(t)
        /\ \A k \in Threads : handler[k].target = t => handler[k].step \notin Locking
        /\ requirement' = requirement
    BY HandlerStopsFacts
  <1> HIDE DEF t
  <1>2. loop'[t].pc = "off" /\ loop'[t].claim = None
    BY <1>1, OffReset
  <1>3. LockExclusive'
    BY <1>1 DEF DriverInv, LockInv, LockExclusive
  <1>4. LockedOff'
    <2> SUFFICES ASSUME NEW k \in Threads, handler'[k].step \in Locking
                 PROVE  loop'[handler'[k].target].pc = "off"
      BY DEF LockedOff
    <2>1. CASE k = h
      BY <1>1, <1>2, <2>1
    <2>2. CASE k # h
      <3>1. handler'[k] = handler[k]
        BY <1>1, <2>2
      <3>2. handler[k].target \in Targets /\ loop[handler[k].target].pc = "off"
        BY <3>1, HandlerFields DEF BoardTyped, DriverInv, LockInv, LockedOff, Locking
      <3> QED
        BY <1>1, <1>2, <3>1, <3>2 DEF LoopOthers
    <2> QED
      BY <2>1, <2>2
  <1>5. OffHasNone' /\ ClaimLocked'
    BY <1>1, <1>2 DEF DriverInv, LockInv, OffHasNone, ClaimLocked, LoopOthers
  <1>6. HoldInv'
    <2>1. RowsLoosen(requirement')
      BY <1>1, EaseSame, EaseLoosens
    <2>2. ASSUME NEW u \in Targets, NEW d \in Claims, Holder(u, d)', ~Holder(u, d)
          PROVE  u = t /\ d = handler'[h].claim
      <3>1. loop'[u].claim # d
        BY <1>1, <1>2, <2>2, NoneNoClaim DEF LoopOthers, Holder
      <3>2. PICK k \in Threads : handler'[k].target = u /\ handler'[k].claim = d
        BY <2>2, <3>1 DEF Holder
      <3>3. k = h
        BY <1>1, <2>2, <3>2 DEF Holder
      <3> QED
        BY <1>1, <3>2, <3>3
    <2>3. CASE \E r \in Active(loop[t].tag, t) : handler'[h].claim = ClaimOf(r)
      <3>1. PICK r \in Active(loop[t].tag, t) : handler'[h].claim = ClaimOf(r)
        BY <2>3
      <3> DEFINE c == ClaimOf(r)
      <3>2. c \in Claims /\ requirement[c.req].gen = c.gen /\ requirement[c.req].owner = t
        BY ActiveRow DEF BoardTyped
      <3>3. handler'[h].claim = c
        BY <3>1
      <3> HIDE DEF c
      <3>4. \A u \in Targets, d \in Claims : Holder(u, d)' => Holder(u, d) \/ (u = t /\ d = c)
        BY <2>2, <3>3
      <3> QED
        BY <1>1, <2>1, <3>2, <3>4, TakesHolder DEF DriverInv
    <2>4. CASE handler'[h].claim \in {None, loop[t].claim}
      <3>1. \A u \in Targets, d \in Claims : Holder(u, d)' => Holder(u, d)
        BY <2>2, <2>4, NoneNoClaim DEF Holder
      <3>2. OneHolder'
        BY <3>1 DEF OneHolder, DriverInv, HoldInv
      <3>3. HolderRows'
        BY <3>1, <1>1 DEF HolderRows, DriverInv, HoldInv
      <3> QED
        BY <3>2, <3>3 DEF HoldInv
    <2>5. \/ handler'[h].claim \in {None, loop[t].claim}
          \/ \E r \in Active(loop[t].tag, t) : handler'[h].claim = ClaimOf(r)
      BY <1>1, StoppedClaimHeld
    <2> QED
      BY <2>3, <2>4, <2>5
  <1> QED
    BY <1>3, <1>4, <1>5, <1>6 DEF DriverInv, LockInv

LEMMA IdleReset ==
  ASSUME NEW tag
  PROVE  /\ LoopAt("idle", tag).pc = "idle" /\ LoopAt("idle", tag).claim = None
         /\ LoopAt("idle", tag).tag = tag
  BY DEF LoopAt

\* the loop is installed under the lock, so nobody else closes a claim of the target
LEMMA HandlerStartsDriver ==
  ASSUME BoardTyped, DriverInv, NEW h \in Threads, HandlerStarts(h) PROVE DriverInv'
  <1> DEFINE t == handler[h].target
  <1>1. t \in Targets /\ handler[h].step = "start" /\ requirement' = requirement
    BY HandlerFields DEF BoardTyped, HandlerStarts, storeVars
  <1>2. /\ \A k \in Threads \ {h} : handler'[k] = handler[k]
        /\ handler'[h].step = "none" /\ handler'[h].claim = None /\ handler'[h].target = None
    BY DEF BoardTyped, HandlersTyped, HandlerStarts, NoRequest
  <1>3. LoopOthers(t) /\ (loop'[t] = loop[t] \/ loop'[t] = LoopAt("idle", handler[h].tag))
    BY <1>1 DEF HandlerStarts, BoardTyped, LoopTyped, LoopOthers
  <1>4. loop'[t] = loop[t] \/ (loop'[t].pc = "idle" /\ loop'[t].claim = None)
    BY <1>3, IdleReset
  <1>5. \A k \in Threads \ {h} : handler[k].step \in Locking => handler[k].target # t
    BY <1>1 DEF DriverInv, LockInv, LockExclusive, Locking
  <1> HIDE DEF t
  <1>6. LockExclusive' /\ ClaimLocked' /\ OffHasNone'
    <2>1. LockExclusive'
      BY <1>2 DEF DriverInv, LockInv, LockExclusive, Locking
    <2>2. ClaimLocked'
      BY <1>2 DEF DriverInv, LockInv, ClaimLocked
    <2>3. OffHasNone'
      BY <1>3, <1>4 DEF DriverInv, LockInv, OffHasNone, LoopOthers
    <2> QED
      BY <2>1, <2>2, <2>3
  <1>7. LockedOff'
    <2> SUFFICES ASSUME NEW k \in Threads, handler'[k].step \in Locking
                 PROVE  loop'[handler'[k].target].pc = "off"
      BY DEF LockedOff
    <2>1. k # h /\ handler'[k] = handler[k]
      BY <1>2 DEF Locking
    <2>2. handler[k].target \in Targets /\ loop[handler[k].target].pc = "off"
      BY <2>1, HandlerFields DEF BoardTyped, DriverInv, LockInv, LockedOff, Locking
    <2> QED
      BY <1>3, <1>5, <2>1, <2>2 DEF LoopOthers
  <1>8. \A u \in Targets, d \in Claims : Holder(u, d)' => Holder(u, d)
    <2> TAKE u \in Targets, d \in Claims
    <2> HAVE Holder(u, d)'
    <2>1. CASE loop'[u].claim = d
      BY <1>3, <1>4, <2>1, NoneNoClaim DEF LoopOthers, Holder
    <2>2. CASE \E k \in Threads : handler'[k].target = u /\ handler'[k].claim = d
      BY <1>2, <2>2, NoneNoClaim DEF Holder
    <2> QED
      BY <2>1, <2>2 DEF Holder
  <1>9. HoldInv'
    BY <1>1, <1>8 DEF OneHolder, HolderRows, DriverInv, HoldInv
  <1> QED
    BY <1>6, <1>7, <1>9 DEF DriverInv, LockInv

LEMMA CrashKeeps ==
  ASSUME BoardTyped, Crash PROVE LoopsKeep /\ HandlersKeep
  <1>1. /\ \A t \in Targets : loop'[t] = LoopAt("off", None)
        /\ \A h \in Threads : handler'[h] = NoRequest
    BY DEF Crash
  <1>2. LoopsKeep
    BY <1>1, OffReset DEF LoopsKeep, LoopKeeps
  <1>3. HandlersKeep
    BY <1>1 DEF HandlersKeep, HandlerKeeps, NoRequest, Locking
  <1> QED
    BY <1>2, <1>3

-----------------------------------------------------------------------------
(* The steps that take nothing.                                            *)

\* rows that ease, loops that go on and requests that take no lock
Plain == RowsEase(requirement') /\ LoopsStay /\ HandlersStay

LEMMA PlainDriver ==
  ASSUME BoardTyped, DriverInv, Plain PROVE DriverInv'
  <1>1. HandlersKeep
    BY DEF Plain, HandlersStay, HandlersKeep
  <1> QED
    BY <1>1, EaseLoosens, StayKeeps, KeepsDriver DEF Plain

LEMMA LoopStepPlain ==
  ASSUME BoardTyped, LockInv, NEW t \in Targets, LoopStep(t) \/ LoopDies(t) \/ SendFails(t),
         ~LoopRecovers(t), ~LoopClaims(t), ~CustodyRecovers(t)
  PROVE  Plain
  <1>1. CASE LoopPrepares(t) \/ LoopFindsNothing(t) \/ LoopReturns(t) \/ LoopReachesCap(t)
             \/ LoopDies(t)
    <2>1. requirement' = requirement /\ handler' = handler
      BY <1>1 DEF LoopPrepares, LoopFindsNothing, LoopReturns, LoopReachesCap, LoopDies, storeVars
    <2> QED
      BY <1>1, <2>1, ResetsStay, EaseSame, SameRequests DEF Plain
  <1>2. CASE LoopExits(t) \/ LoopPublishes(t) \/ Pauses(t) \/ Interrupts(t) \/ SendAdmits(t)
             \/ TerminalAdmits(t) \/ TerminalTypes(t) \/ TerminalSubmits(t)
             \/ TerminalWriteRefused(t) \/ TerminalLoses(t)
    <2>1. requirement' = requirement /\ handler' = handler
      BY <1>2 DEF LoopExits, LoopPublishes, Pauses, Interrupts, SendAdmits, TerminalAdmits,
                  TerminalTypes, TerminalSubmits, TerminalWriteRefused, TerminalLoses, storeVars
    <2> QED
      BY <1>2, <2>1, GotosStay, EaseSame, SameRequests DEF Plain
  <1>3. CASE Settles(t) \/ Releases(t)
    <2>1. handler' = handler
      BY <1>3 DEF Settles, Releases
    <2> QED
      BY <1>3, <2>1, GotosStay, RowEases, SameRequests DEF Plain
  <1>4. CASE SendReplays(t) \/ SendRefused(t) \/ SendFails(t) \/ WaitObserves(t)
             \/ WaitGivesUp(t) \/ TerminalScopes(t) \/ TerminalReplays(t)
    <2>1. requirement' = requirement /\ handler' = handler
      BY <1>4 DEF SendReplays, SendRefused, SendFails, WaitObserves, WaitGivesUp,
                  TerminalScopes, TerminalReplays, storeVars
    <2> QED
      BY <1>4, <2>1, EndingsStay, EaseSame, SameRequests DEF Plain
  <1>5. CASE TerminalTurnEnds(t) \/ TerminalParks(t)
    <2>1. handler' = handler
      BY <1>5 DEF TerminalTurnEnds, TerminalParks
    <2>2. requirement' = requirement \/ \E cs : Park(cs)
      BY <1>5 DEF TerminalTurnEnds, TerminalParks
    <2>3. RowsEase(requirement')
      BY <2>2, EaseSame, ParkEases
    <2> QED
      BY <1>5, <2>1, <2>3, EndingsStay, SameRequests DEF Plain
  <1>6. CASE CustodyCloses(t)
    <2>1. handler' = handler
      BY <1>6 DEF CustodyCloses
    <2> QED
      BY <1>6, <2>1, CustodyClosesStays, RowEases, SameRequests DEF Plain
  <1> QED
    BY <1>1, <1>2, <1>3, <1>4, <1>5, <1>6 DEF LoopStep

LEMMA RequestsPlain ==
  ASSUME BoardTyped, LockInv,
         \/ \E t \in Targets : ResumeBinding(t)
         \/ \E h \in Threads : HandlerResumes(h) \/ HandlerResolves(h)
         \/ \E r \in Requirements : Sweep(r)
  PROVE  Plain
  <1>1. CASE \E t \in Targets : ResumeBinding(t)
    <2>1. requirement' = requirement /\ loop' = loop
      BY <1>1 DEF ResumeBinding, storeVars
    <2> QED
      BY <1>1, <2>1, RequestsMadeStay, EaseSame, SameStay DEF Plain
  <1>2. CASE \E h \in Threads : HandlerResumes(h) \/ HandlerResolves(h)
    <2>1. PICK h \in Threads : HandlerResumes(h) \/ HandlerResolves(h)
      BY <1>2
    <2>2. loop' = loop /\ handler[h].step # "park"
      BY <2>1 DEF HandlerResumes, HandlerResolves
    <2>3. HandlersStay
      BY <2>1, <2>2, RequestSteps
    <2>4. RowsEase(requirement')
      BY <2>1, HandlerResumesEases, RowEases
    <2> QED
      BY <2>2, <2>3, <2>4, SameStay DEF Plain
  <1>3. CASE \E r \in Requirements : Sweep(r)
    <2>1. loop' = loop /\ handler' = handler
      BY <1>3 DEF Sweep, loopVars
    <2> QED
      BY <1>3, <2>1, RowEases, SameStay, SameRequests DEF Plain
  <1> QED
    BY <1>1, <1>2, <1>3

LEMMA ReceiverStepPlain ==
  ASSUME BoardTyped, LockInv, ReceiverStep PROVE Plain
  <1>1. loop' = loop /\ handler' = handler
    BY DEF ReceiverStep, loopVars
  <1>2. CASE \E v \in Conversations :
               TurnStarts(v) \/ \E result \in {"ok", "error"} : TurnEnds(v, result)
    <2>1. requirement' = requirement
      BY <1>2 DEF TurnStarts, TurnEnds, storeVars
    <2> QED
      BY <1>1, <2>1, EaseSame, SameStay, SameRequests DEF Plain
  <1>3. CASE \/ \E v \in Conversations : AgentDeclares(v)
             \/ \E x \in Terminals : CliDeclares(x)
    BY <1>1, <1>3, RowEases, SameStay, SameRequests DEF Plain
  <1>4. CASE \E x \in Terminals : PtyExits(x)
    <2>1. \E cs : Park(cs)
      BY <1>4 DEF PtyExits
    <2> QED
      BY <1>1, <2>1, ParkEases, SameStay, SameRequests DEF Plain
  <1> QED
    BY <1>2, <1>3, <1>4 DEF ReceiverStep

LEMMA UserStepPlain ==
  ASSUME BoardTyped, LockInv, UserStep, ~(\E r \in Requirements, tag \in Tags : Retag(r, tag))
  PROVE  Plain
  <1>1. CASE \E h \in Handlers, t \in Targets, tag \in Tags \cup {None} : SetAutowork(h, t, tag)
    <2>1. requirement' = requirement /\ loop' = loop
      BY <1>1 DEF SetAutowork, storeVars
    <2> QED
      BY <1>1, <2>1, RequestsMadeStay, EaseSame, SameStay DEF Plain
  <1>2. CASE \E v \in Conversations : UserCancels(v)
    <2>1. requirement' = requirement /\ handler' = handler
      BY <1>2 DEF UserCancels, storeVars
    <2> QED
      BY <1>2, <2>1, UserCancelsStays, EaseSame, SameRequests DEF Plain
  <1>3. ASSUME loop' = loop, handler' = handler, RowsEase(requirement') PROVE Plain
    BY <1>3, SameStay, SameRequests DEF Plain
  <1>4. CASE \E r \in Requirements :
               Requeue(r) \/ Delete(r) \/ \E status \in Verdicts : SetStatus(r, status)
    <2>1. loop' = loop /\ handler' = handler
      BY <1>4 DEF Requeue, Delete, SetStatus, loopVars
    <2> QED
      BY <1>3, <1>4, <2>1, RowEases
  <1>5. CASE \E tag \in Tags, rs \in SUBSET Requirements : ResumeTag(tag, rs)
    <2>1. loop' = loop /\ handler' = handler
      BY <1>5 DEF ResumeTag, loopVars
    <2> QED
      BY <1>3, <1>5, <2>1, ResumeTagEases
  <1>6. CASE \E v \in Conversations : UserSends(v) /\ UNCHANGED loopVars
    <2>1. loop' = loop /\ handler' = handler /\ requirement' = requirement
      BY <1>6 DEF UserSends, loopVars, storeVars
    <2> QED
      BY <1>3, <2>1, EaseSame
  <1>7. CASE \E x \in Terminals : DeleteTerminal(x)
    <2>1. loop' = loop /\ handler' = handler
      BY <1>7 DEF DeleteTerminal
    <2> QED
      BY <1>3, <1>7, <2>1, DeleteTerminalEases
  <1>8. CASE \E x \in Terminals :
               (Kill(x) \/ Relaunch(x, TRUE) \/ Relaunch(x, FALSE)) /\ UNCHANGED loopVars
    <2>1. loop' = loop /\ handler' = handler /\ \E cs : Park(cs)
      BY <1>8 DEF Kill, Relaunch, loopVars
    <2> QED
      BY <1>3, <2>1, ParkEases
  <1> QED
    BY <1>1, <1>2, <1>4, <1>5, <1>6, <1>7, <1>8 DEF UserStep

-----------------------------------------------------------------------------
(* One driver.                                                             *)

LEMMA HandlerParksDriver ==
  ASSUME BoardTyped, DriverInv, NEW h \in Threads, HandlerParks(h)
  PROVE  DriverInv' /\ RowsEase(requirement') /\ LoopsStay
  <1>1. loop' = loop /\ \E cs : Park(cs)
    BY DEF HandlerParks
  <1>2. RowsEase(requirement') /\ LoopsStay /\ HandlersKeep
    BY <1>1, ParkEases, SameStay, RequestSteps DEF DriverInv
  <1> QED
    BY <1>2, EaseLoosens, StayKeeps, KeepsDriver

LEMMA RetagDriver ==
  ASSUME BoardTyped, DriverInv, NEW r \in Requirements, NEW tag, Retag(r, tag) PROVE DriverInv'
  <1>1. loop' = loop /\ handler' = handler
    BY DEF Retag, loopVars
  <1> QED
    BY <1>1, RetagLoosens, SameLoops, SameHandlers, KeepsDriver DEF DriverInv

LEMMA NextDriver ==
  ASSUME BoardTyped, DriverInv, AutoWorkNext PROVE DriverInv'
  <1> USE DEF DriverInv
  <1>1. CASE \E t \in Targets : LoopStep(t) \/ LoopDies(t)
    BY <1>1, LoopStepPlain, PlainDriver, LoopRecoversDriver, LoopClaimsDriver,
       CustodyRecoversDriver
  <1>2. CASE \E v \in Conversations : SendFails(v)
    <2>1. PICK t \in Targets : SendFails(t)
      BY <1>2, TargetKinds
    <2> QED
      BY <2>1, LoopStepPlain, PlainDriver, LoopRecoversDriver, LoopClaimsDriver,
         CustodyRecoversDriver
  <1>3. CASE \/ \E t \in Targets : ResumeBinding(t)
             \/ \E r \in Requirements : Sweep(r)
    BY <1>3, RequestsPlain, PlainDriver
  <1>4. CASE \E h \in Threads : HandlerStep(h)
    BY <1>4, RequestsPlain, PlainDriver, HandlerStopsDriver, HandlerParksDriver,
       HandlerStartsDriver
    DEF HandlerStep
  <1>5. CASE ReceiverStep
    BY <1>5, ReceiverStepPlain, PlainDriver
  <1>6. CASE UserStep
    BY <1>6, UserStepPlain, PlainDriver, RetagDriver
  <1>7. CASE Crash
    BY <1>7, CrashKeeps, CrashEases, EaseLoosens, KeepsDriver
  <1> QED
    BY <1>1, <1>2, <1>3, <1>4, <1>5, <1>6, <1>7 DEF AutoWorkNext

LEMMA InitDriver ==
  ASSUME AutoWorkInit PROVE DriverInv
  <1>1. /\ \A t \in Targets : loop[t].claim = None
        /\ \A h \in Threads : handler[h].step = "none" /\ handler[h].claim = None
    BY DEF AutoWorkInit, LoopAt, NoRequest
  <1>2. LockInv
    BY <1>1 DEF LockInv, LockExclusive, LockedOff, OffHasNone, ClaimLocked, Locking
  <1>3. \A t \in Targets, c \in Claims : ~Holder(t, c)
    BY <1>1, NoneNoClaim DEF Holder
  <1> QED
    BY <1>2, <1>3 DEF DriverInv, HoldInv, HolderRows, OneHolder

LEMMA StutterPlain ==
  ASSUME LockInv, UNCHANGED vars PROVE Plain
  <1>1. loop' = loop /\ handler' = handler /\ requirement' = requirement
    BY DEF vars, loopVars, storeVars
  <1> QED
    BY <1>1, EaseSame, SameStay, SameRequests DEF Plain

LEMMA AlwaysDriven == AutoWorkSpec => []DriverInv
  <1>1. BoardTyped /\ DriverInv /\ [AutoWorkNext]_vars => DriverInv'
    BY NextDriver, StutterPlain, PlainDriver DEF DriverInv
  <1> QED
    BY <1>1, InitDriver, AlwaysTyped, PTL DEF AutoWorkSpec

\* No two loops work on the same claim, no loop works beside a request that is
\* closing its claim, and no two requests close the same one, for any number
\* of targets and of concurrent set_autowork requests, and whatever loops die
\* and processes crash.
THEOREM ClaimsHaveOneDriver == AutoWorkSpec => []OneDriver
  BY AlwaysTyped, AlwaysDriven, DriverGivesOneDriver, PTL

-----------------------------------------------------------------------------
(* A clean start.  An open admission belongs to the live PTY of its        *)
(* terminal, and while the claim is held, either the loop of the terminal  *)
(* is installed for the tag of the row, where its custodian will find it,  *)
(* or a request is about to park it.  A user who retags a row in progress  *)
(* breaks that, so these facts are about instances without that command.   *)

RunningPty == \A x \in Terminals : term[x].status = "running" => term[x].pty # 0
OpenLive ==
  \A c \in Claims :
    Open(c) => /\ admission[c].terminal \in Terminals
               /\ term[admission[c].terminal].status = "running"
               /\ term[admission[c].terminal].pty = admission[c].epoch
LiveInv == RunningPty /\ OpenLive

LoopTagged ==
  \A t \in Targets :
    loop[t].claim # None /\ Holds(loop[t].claim, t) =>
      requirement[loop[t].claim.req].tag = loop[t].tag
Parking(x) == \E h \in Threads : handler[h].step = "park" /\ handler[h].target = x
Driven(x, c) ==
  \/ loop[x].pc \notin {"off", "closing"} /\ requirement[c.req].tag = loop[x].tag
  \/ Parking(x)
OpenDriven ==
  \A x \in Terminals, c \in Claims :
    Open(c) /\ admission[c].terminal = x /\ Holds(c, x) => Driven(x, c)

CleanInv == LiveInv /\ LoopTagged /\ OpenDriven

\* no admission of x is open after the step
Disarms(x) == \A c \in Claims : admission'[c].terminal = x => ~Open(c)'
AdmissionsKeep ==
  \A c \in Claims :
    Open(c)' => /\ Open(c) /\ admission'[c].terminal = admission[c].terminal
                /\ admission'[c].epoch = admission[c].epoch
TermKeeps(x) ==
  \/ term'[x].status = term[x].status /\ term'[x].pty = term[x].pty
  \/ (term'[x].status = "running" => term'[x].pty # 0) /\ Disarms(x)
ReceiversKeep == AdmissionsKeep /\ \A x \in Terminals : TermKeeps(x)

LEMMA KeepsLive ==
  ASSUME LiveInv, ReceiversKeep PROVE LiveInv'
  <1>1. RunningPty'
    BY DEF LiveInv, RunningPty, ReceiversKeep, TermKeeps
  <1>2. OpenLive'
    <2> SUFFICES ASSUME NEW c \in Claims, Open(c)'
                 PROVE  /\ admission'[c].terminal \in Terminals
                        /\ term'[admission'[c].terminal].status = "running"
                        /\ term'[admission'[c].terminal].pty = admission'[c].epoch
      BY DEF OpenLive
    <2> DEFINE x == admission[c].terminal
    <2>1. Open(c) /\ admission'[c].terminal = x /\ admission'[c].epoch = admission[c].epoch
      BY DEF ReceiversKeep, AdmissionsKeep
    <2>2. x \in Terminals /\ term[x].status = "running" /\ term[x].pty = admission[c].epoch
      BY <2>1 DEF LiveInv, OpenLive
    <2> HIDE DEF x
    <2>3. ~Disarms(x)
      BY <2>1 DEF Disarms
    <2>4. term'[x].status = term[x].status /\ term'[x].pty = term[x].pty
      BY <2>2, <2>3 DEF ReceiversKeep, TermKeeps
    <2> QED
      BY <2>1, <2>2, <2>4
  <1> QED
    BY <1>1, <1>2 DEF LiveInv

\* c is held by t after the step
HoldsNext(c, t) ==
  /\ requirement'[c.req].status = "in_progress"
  /\ requirement'[c.req].gen = c.gen
  /\ requirement'[c.req].owner = t

\* rows that ease mint no holder
LEMMA EasedHolds ==
  ASSUME RowsEase(requirement'), NEW c \in Claims, NEW t, HoldsNext(c, t)
  PROVE  Holds(c, t) /\ requirement'[c.req].tag = requirement[c.req].tag
  <1>1. Eases(c.req, requirement'[c.req])
    BY ClaimReq DEF RowsEase
  <1> QED
    BY <1>1 DEF Holds, HoldsNext, Eases, Loosens

\* the loop of t respects the tag after the step
TaggedNext(t) ==
  loop'[t].claim # None /\ HoldsNext(loop'[t].claim, t) =>
    requirement'[loop'[t].claim.req].tag = loop'[t].tag

LEMMA TaggedAll == ASSUME \A t \in Targets : TaggedNext(t) PROVE LoopTagged'
  BY DEF TaggedNext, HoldsNext, LoopTagged, Holds

LEMMA StayTagged ==
  ASSUME BoardTyped, LoopTagged, RowsEase(requirement'), NEW t \in Targets, TagKeeps(t)
  PROVE  TaggedNext(t)
  <1> SUFFICES ASSUME loop'[t].claim # None, HoldsNext(loop'[t].claim, t)
               PROVE  requirement'[loop'[t].claim.req].tag = loop'[t].tag
    BY DEF TaggedNext
  <1>1. PICK c : c = loop'[t].claim
    OBVIOUS
  <1>2. c = loop[t].claim /\ loop'[t].tag = loop[t].tag /\ c # None
    BY <1>1 DEF TagKeeps
  <1>3. c \in Claims
    BY <1>2, LoopFields DEF BoardTyped
  <1>4. HoldsNext(c, t)
    BY <1>1
  <1>5. Holds(c, t) /\ requirement'[c.req].tag = requirement[c.req].tag
    BY <1>3, <1>4, EasedHolds
  <1>6. requirement[c.req].tag = loop[t].tag
    BY <1>2, <1>5 DEF LoopTagged
  <1> QED
    BY <1>1, <1>2, <1>5, <1>6

LEMMA PlainTagged ==
  ASSUME BoardTyped, LoopTagged, RowsEase(requirement'), \A t \in Targets : TagKeeps(t)
  PROVE  LoopTagged'
  BY StayTagged, TaggedAll

\* what was open and held before the step was driven
LEMMA WasDriven ==
  ASSUME OpenDriven, RowsEase(requirement'), AdmissionsKeep,
         NEW x \in Terminals, NEW c \in Claims, Open(c)', admission'[c].terminal = x, HoldsNext(c, x)
  PROVE  /\ Open(c) /\ admission[c].terminal = x /\ Holds(c, x) /\ Driven(x, c)
         /\ requirement'[c.req].tag = requirement[c.req].tag
  <1>1. Open(c) /\ admission[c].terminal = x
    BY DEF AdmissionsKeep
  <1>2. Holds(c, x) /\ requirement'[c.req].tag = requirement[c.req].tag
    BY EasedHolds
  <1> QED
    BY <1>1, <1>2 DEF OpenDriven

LEMMA StayDriven ==
  ASSUME NEW x \in Terminals, NEW c, Driven(x, c), DriveKeeps(x), HandlersStay,
         requirement'[c.req].tag = requirement[c.req].tag
  PROVE  Driven(x, c)'
  <1>1. CASE Parking(x)
    BY <1>1 DEF Parking, HandlersStay, ParkKeeps, Driven
  <1>2. CASE loop[x].pc \notin {"off", "closing"} /\ requirement[c.req].tag = loop[x].tag
    BY <1>2 DEF DriveKeeps, Driven
  <1> QED
    BY <1>1, <1>2 DEF Driven

LEMMA PlainClean ==
  ASSUME BoardTyped, CleanInv, Plain, ReceiversKeep PROVE CleanInv'
  <1>1. LiveInv'
    BY KeepsLive DEF CleanInv
  <1>2. LoopTagged'
    BY PlainTagged DEF CleanInv, Plain, LoopsStay
  <1>3. OpenDriven'
    <2> SUFFICES ASSUME NEW x \in Terminals, NEW c \in Claims, Open(c)',
                        admission'[c].terminal = x, HoldsNext(c, x)
                 PROVE  Driven(x, c)'
      BY DEF OpenDriven, Holds, HoldsNext
    <2>1. Driven(x, c) /\ requirement'[c.req].tag = requirement[c.req].tag
      BY WasDriven DEF CleanInv, Plain, ReceiversKeep
    <2>2. DriveKeeps(x) /\ HandlersStay
      BY TargetKinds DEF Plain, LoopsStay
    <2> QED
      BY <2>1, <2>2, StayDriven
  <1> QED
    BY <1>1, <1>2, <1>3 DEF CleanInv

-----------------------------------------------------------------------------
(* What the steps do to the receivers.                                     *)

LEMMA SameReceiversKeep ==
  ASSUME admission' = admission, term' = term PROVE ReceiversKeep
  BY DEF ReceiversKeep, AdmissionsKeep, TermKeeps, Open

\* parking settles
LEMMA ParkedKeep ==
  ASSUME BoardTyped, NEW cs, admission' = ParkedAdmissions(cs)
  PROVE  /\ AdmissionsKeep
         /\ \A c \in cs \cap Claims : ~Open(c)'
  <1>1. \A c \in Claims : admission'[c] = admission[c] \/ admission'[c].phase = "settled"
    BY ParkedAdmissionsFacts DEF BoardTyped
  <1>2. AdmissionsKeep
    BY <1>1 DEF AdmissionsKeep, Open
  <1>3. \A c \in cs \cap Claims : admission'[c].phase = "settled"
    <2> TAKE c \in cs \cap Claims
    <2> DEFINE p == Projected(c, admission[c].terminal)
    <2>1. admission'[c] = [admission[c] EXCEPT !.phase = "settled", !.outcome = p]
      BY DEF ParkedAdmissions
    <2>2. admission[c] \in Admissions
      BY DEF BoardTyped, AdmissionsTyped
    <2> HIDE DEF p
    <2> QED
      BY <2>1, <2>2 DEF Admissions
  <1> QED
    BY <1>2, <1>3 DEF Open

LEMMA ParkReceivers ==
  ASSUME BoardTyped, NEW cs, Park(cs), term' = term PROVE ReceiversKeep
  BY ParkedKeep DEF Park, ReceiversKeep, TermKeeps

\* the session of one terminal changes
LEMMA OneTermKeeps ==
  ASSUME BoardTyped, AdmissionsKeep, NEW x \in Terminals, NEW new,
         term' = [term EXCEPT ![x] = new],
         \/ new.status = term[x].status /\ new.pty = term[x].pty
         \/ (new.status = "running" => new.pty # 0) /\ Disarms(x)
  PROVE  ReceiversKeep
  <1>1. term'[x] = new /\ \A y \in Terminals \ {x} : term'[y] = term[y]
    BY DEF BoardTyped, TermsTyped
  <1> QED
    BY <1>1 DEF ReceiversKeep, TermKeeps

\* parking the live generation of x, or all of them, disarms x
LEMMA ParkDisarms ==
  ASSUME BoardTyped, LiveInv, NEW x \in Terminals, NEW es,
         term[x].status = "running" => term[x].pty \in es, admission' = ParkedAdmissions(OpenAt(x, es))
  PROVE  AdmissionsKeep /\ Disarms(x)
  <1> DEFINE cs == OpenAt(x, es)
  <1>1. AdmissionsKeep /\ \A c \in cs \cap Claims : ~Open(c)'
    BY ParkedKeep
  <1>2. Disarms(x)
    <2> SUFFICES ASSUME NEW c \in Claims, admission'[c].terminal = x, Open(c)' PROVE FALSE
      BY DEF Disarms
    <2>1. Open(c) /\ admission[c].terminal = x
      BY <1>1 DEF AdmissionsKeep
    <2>2. term[x].status = "running" /\ term[x].pty = admission[c].epoch
      BY <2>1 DEF LiveInv, OpenLive
    <2>3. c \in cs
      BY <2>1, <2>2 DEF OpenAt
    <2> QED
      BY <1>1, <2>3
  <1> QED
    BY <1>1, <1>2

\* every generation is typed
LEMMA AllEpochs ==
  ASSUME BoardTyped, NEW x \in Terminals PROVE term[x].pty \in 0 .. MaxEpochs
  BY DEF BoardTyped, TermsTyped, Sessions

LEMMA DeadFields ==
  ASSUME NEW s \in Sessions, NEW status
  PROVE  Dead(s, status).status = status /\ Dead(s, status).pty = 0
  BY DEF Dead, Sessions

\* an open admission moves to another open phase
LEMMA PhaseKeeps ==
  ASSUME BoardTyped, NEW c \in Claims, Open(c), NEW p, admission' = [admission EXCEPT ![c].phase = p]
  PROVE  AdmissionsKeep
  <1>1. /\ \A d \in Claims \ {c} : admission'[d] = admission[d]
        /\ admission'[c].terminal = admission[c].terminal
        /\ admission'[c].epoch = admission[c].epoch
    BY DEF BoardTyped, AdmissionsTyped, Admissions
  <1> QED
    BY <1>1 DEF AdmissionsKeep, Open

LEMMA TerminalWritesKeep ==
  ASSUME BoardTyped, NEW x \in Terminals, TerminalTypes(x) \/ TerminalSubmits(x)
  PROVE  ReceiversKeep
  <1> DEFINE c == loop[x].claim
  <1>1. c \in Claims
    BY TerminalClaim DEF TerminalTypes, TerminalSubmits, Working, LoopSteps
  <1>2. AdmissionsKeep
    <2>1. Open(c) /\ \E p : admission' = [admission EXCEPT ![c].phase = p]
      BY DEF TerminalTypes, TerminalSubmits, CanAdvance, Open
    <2> QED
      BY <1>1, <2>1, PhaseKeeps
  <1>3. \A y \in Terminals : term'[y].status = term[y].status /\ term'[y].pty = term[y].pty
    <2>1. CASE term' = term
      BY <2>1
    <2>2. CASE \E l : term' = [term EXCEPT ![x].line = l]
      BY <2>2 DEF BoardTyped, TermsTyped, Sessions
    <2>3. CASE \E l, g : term' = [term EXCEPT ![x].line = l, ![x].given = g]
      BY <2>3 DEF BoardTyped, TermsTyped, Sessions
    <2> QED
      BY <2>1, <2>2, <2>3 DEF TerminalTypes, TerminalSubmits
  <1> QED
    BY <1>2, <1>3 DEF ReceiversKeep, TermKeeps

LEMMA LoopStepReceivers ==
  ASSUME BoardTyped, NEW t \in Targets, LoopStep(t) \/ LoopDies(t) \/ SendFails(t),
         ~(t \in Terminals /\ TerminalAdmits(t))
  PROVE  ReceiversKeep
  <1>1. CASE \/ LoopPrepares(t) \/ LoopRecovers(t) \/ LoopClaims(t) \/ LoopFindsNothing(t)
             \/ LoopExits(t) \/ LoopPublishes(t) \/ Settles(t) \/ Pauses(t) \/ Interrupts(t)
             \/ Releases(t) \/ LoopReturns(t) \/ LoopReachesCap(t) \/ CustodyCloses(t)
             \/ SendAdmits(t) \/ SendReplays(t) \/ SendRefused(t) \/ WaitObserves(t)
             \/ WaitGivesUp(t) \/ TerminalScopes(t) \/ TerminalReplays(t) \/ TerminalLoses(t)
             \/ LoopDies(t) \/ SendFails(t)
    <2>1. admission' = admission /\ term' = term
      BY <1>1 DEF LoopPrepares, LoopRecovers, LoopClaims, LoopFindsNothing, LoopExits,
                  LoopPublishes, Settles, Pauses, Interrupts, Releases, LoopReturns,
                  LoopReachesCap, CustodyCloses, SendAdmits, SendReplays, SendRefused,
                  WaitObserves, WaitGivesUp, TerminalScopes, TerminalReplays, TerminalLoses,
                  LoopDies, SendFails, receiverVars, terminalVars
    <2> QED
      BY <2>1, SameReceiversKeep
  <1>2. CASE t \in Terminals /\ (TerminalTypes(t) \/ TerminalSubmits(t))
    BY <1>2, TerminalWritesKeep
  <1>3. CASE TerminalWriteRefused(t) \/ TerminalTurnEnds(t) \/ TerminalParks(t)
             \/ CustodyRecovers(t)
    <2>1. term' = term
      BY <1>3 DEF TerminalWriteRefused, TerminalTurnEnds, TerminalParks, CustodyRecovers
    <2>2. admission' = admission \/ \E cs : admission' = ParkedAdmissions(cs)
      <3>1. CASE TerminalWriteRefused(t)
        BY <3>1 DEF TerminalWriteRefused
      <3>2. CASE TerminalTurnEnds(t) \/ TerminalParks(t) \/ CustodyRecovers(t)
        BY <3>2 DEF TerminalTurnEnds, TerminalParks, CustodyRecovers, Park
      <3> QED
        BY <1>3, <3>1, <3>2
    <2>3. AdmissionsKeep
      BY <2>1, <2>2, SameReceiversKeep, ParkedKeep DEF ReceiversKeep
    <2> QED
      BY <2>1, <2>3 DEF ReceiversKeep, TermKeeps
  <1> QED
    BY <1>1, <1>2, <1>3 DEF LoopStep

LEMMA PtyReceivers ==
  ASSUME BoardTyped, LiveInv, NEW x \in Terminals,
         \/ PtyExits(x) \/ Kill(x) \/ (\E spawned \in BOOLEAN : Relaunch(x, spawned))
         \/ DeleteTerminal(x)
  PROVE  ReceiversKeep
  <1>1. term[x] \in Sessions
    BY DEF BoardTyped, TermsTyped
  <1>2. AdmissionsKeep /\ Disarms(x)
    <2>1. CASE PtyExits(x) \/ Kill(x)
      BY <2>1, ParkDisarms DEF PtyExits, Kill, Park
    <2>2. CASE \E spawned \in BOOLEAN : Relaunch(x, spawned)
      <3>1. term[x].status = "running" => term[x].pty \in {term[x].pty} \ {0}
        BY DEF LiveInv, RunningPty
      <3>2. admission' = ParkedAdmissions(OpenAt(x, {term[x].pty} \ {0}))
        BY <2>2 DEF Relaunch, Park
      <3> QED
        BY <3>1, <3>2, ParkDisarms
    <2>3. CASE DeleteTerminal(x)
      BY <2>3, AllEpochs, ParkDisarms DEF DeleteTerminal
    <2> QED
      BY <2>1, <2>2, <2>3
  <1>3. PICK new : /\ term' = [term EXCEPT ![x] = new]
                   /\ \/ new.status = term[x].status /\ new.pty = term[x].pty
                      \/ new.status = "running" => new.pty # 0
    <2>1. CASE PtyExits(x) \/ DeleteTerminal(x)
      <3>1. PICK s \in {"exited", "gone"} : term' = [term EXCEPT ![x] = Dead(term[x], s)]
        BY <2>1 DEF PtyExits, DeleteTerminal
      <3>2. Dead(term[x], s).status # "running"
        BY <1>1, <3>1, DeadFields
      <3> QED
        BY <3>1, <3>2
    <2>2. CASE Kill(x)
      <3> DEFINE new == [term[x] EXCEPT !.deaf = TRUE, !.line = {}, !.given = {}]
      <3>1. new.status = term[x].status /\ new.pty = term[x].pty
        BY <1>1 DEF Sessions
      <3>2. term' = [term EXCEPT ![x] = new]
        BY <2>2 DEF Kill, BoardTyped, TermsTyped
      <3> QED
        BY <3>1, <3>2
    <2>3. CASE \E spawned \in BOOLEAN : Relaunch(x, spawned)
      <3>1. PICK spawned \in BOOLEAN : Relaunch(x, spawned)
        BY <2>3
      <3> DEFINE e == epochs + 1
                 up == [Dead(term[x], "running") EXCEPT !.pty = e]
      <3>2. e # 0
        BY DEF BoardTyped, TermsTyped
      <3>3. term' = [term EXCEPT ![x] = IF spawned THEN up ELSE Dead(term[x], "exited")]
        BY <3>1 DEF Relaunch
      <3> HIDE DEF e
      <3>4. up.pty = e
        BY <1>1, DeadFacts DEF Sessions
      <3>5. Dead(term[x], "exited").status # "running"
        BY <1>1, DeadFields
      <3> HIDE DEF up
      <3>6. CASE spawned
        BY <3>2, <3>3, <3>4, <3>6
      <3>7. CASE ~spawned
        BY <3>3, <3>5, <3>7
      <3> QED
        BY <3>6, <3>7
    <2> QED
      BY <2>1, <2>2, <2>3
  <1> QED
    BY <1>2, <1>3, OneTermKeeps

\* after a crash no admission is open
LEMMA CrashReceivers ==
  ASSUME BoardTyped, LiveInv, Crash
  PROVE  ReceiversKeep /\ \A c \in Claims : ~Open(c)'
  <1> DEFINE ghosts == {x \in Terminals : term[x].status = "running"}
             cs == UNION {OpenAt(x, 0..MaxEpochs) : x \in ghosts}
  <1>1. admission' = ParkedAdmissions(cs)
    BY DEF Crash
  <1>2. AdmissionsKeep /\ \A c \in cs \cap Claims : ~Open(c)'
    BY <1>1, ParkedKeep
  <1>3. \A c \in Claims : ~Open(c)'
    <2> SUFFICES ASSUME NEW c \in Claims, Open(c)' PROVE FALSE
      OBVIOUS
    <2> DEFINE x == admission[c].terminal
    <2>1. Open(c)
      BY <1>2 DEF AdmissionsKeep
    <2>2. x \in ghosts
      BY <2>1 DEF LiveInv, OpenLive
    <2>3. c \in OpenAt(x, 0..MaxEpochs)
      BY <2>1 DEF OpenAt, BoardTyped, AdmissionsTyped, Admissions
    <2>4. c \in cs
      BY <2>2, <2>3
    <2> QED
      BY <1>2, <2>4
  <1>4. \A x \in Terminals : term'[x].status # "running"
    <2>1. \A x \in Terminals :
            term'[x] = IF x \in ghosts THEN Dead(term[x], "exited") ELSE term[x]
      BY DEF Crash
    <2>2. \A x \in Terminals : Dead(term[x], "exited").status = "exited"
      BY DeadFields DEF BoardTyped, TermsTyped
    <2> QED
      BY <2>1, <2>2
  <1> HIDE DEF cs
  <1> QED
    BY <1>2, <1>3, <1>4 DEF ReceiversKeep, TermKeeps, Disarms

-----------------------------------------------------------------------------
(* The steps that open an admission, take a claim or take a lock.          *)

LEMMA TerminalAdmitsClean ==
  ASSUME BoardTyped, CleanInv, NEW x \in Terminals, TerminalAdmits(x), Plain PROVE CleanInv'
  <1> DEFINE c == loop[x].claim
  <1>1. c \in Claims /\ x \in Targets
    BY TerminalClaim DEF TerminalAdmits, Working, LoopSteps
  <1>2. /\ CanAdmitTerminal(c, x) /\ term' = term /\ requirement' = requirement
        /\ loop[x].pc = "scoped"
        /\ admission' = [admission EXCEPT ![c] = [phase |-> "admitted", terminal |-> x,
                                                  epoch |-> loop[x].epoch, outcome |-> None]]
    BY DEF TerminalAdmits, storeVars
  <1>3. /\ admission'[c].terminal = x /\ admission'[c].epoch = loop[x].epoch
        /\ \A d \in Claims \ {c} : admission'[d] = admission[d]
    BY <1>1, <1>2 DEF BoardTyped, AdmissionsTyped
  <1>4. LiveInv'
    <2>1. RunningPty'
      BY <1>2 DEF CleanInv, LiveInv, RunningPty
    <2>2. OpenLive'
      <3> SUFFICES ASSUME NEW d \in Claims, Open(d)'
                   PROVE  /\ admission'[d].terminal \in Terminals
                          /\ term[admission'[d].terminal].status = "running"
                          /\ term[admission'[d].terminal].pty = admission'[d].epoch
        BY <1>2 DEF OpenLive
      <3>1. CASE d = c
        BY <1>2, <1>3, <3>1 DEF CanAdmitTerminal
      <3>2. CASE d # c
        BY <1>3, <3>2 DEF CleanInv, LiveInv, OpenLive, Open
      <3> QED
        BY <3>1, <3>2
    <2> QED
      BY <2>1, <2>2 DEF LiveInv
  <1>5. LoopTagged'
    BY PlainTagged DEF CleanInv, Plain, LoopsStay
  <1>6. OpenDriven'
    <2> SUFFICES ASSUME NEW y \in Terminals, NEW d \in Claims, Open(d)',
                        admission'[d].terminal = y, HoldsNext(d, y)
                 PROVE  Driven(y, d)'
      BY DEF OpenDriven, Holds, HoldsNext
    <2>1. Holds(d, y) /\ requirement'[d.req].tag = requirement[d.req].tag
      BY EasedHolds DEF Plain
    <2>2. DriveKeeps(y) /\ HandlersStay
      BY TargetKinds DEF Plain, LoopsStay
    <2>3. CASE d = c
      <3>1. y = x
        BY <1>3, <2>3
      <3>2. c # None /\ Holds(c, x)
        BY <1>1, <2>1, <2>3, <3>1, NoneNoClaim
      <3>3. requirement[c.req].tag = loop[x].tag
        BY <1>1, <3>2 DEF CleanInv, LoopTagged
      <3>4. Driven(y, d)
        BY <1>2, <2>3, <3>1, <3>3 DEF Driven
      <3> QED
        BY <2>1, <2>2, <3>4, StayDriven
    <2>4. CASE d # c
      <3>1. Open(d) /\ admission[d].terminal = y
        BY <1>3, <2>4 DEF Open
      <3>2. Driven(y, d)
        BY <2>1, <3>1 DEF CleanInv, OpenDriven
      <3> QED
        BY <2>1, <2>2, <3>2, StayDriven
    <2> QED
      BY <2>3, <2>4
  <1> QED
    BY <1>4, <1>5, <1>6 DEF CleanInv

\* the other loops while one takes a claim
LEMMA OthersTagged ==
  ASSUME BoardTyped, CleanInv, RowsEase(requirement'), NEW t \in Targets, LoopOthers(t), TaggedNext(t)
  PROVE  LoopTagged'
  <1>1. \A u \in Targets \ {t} : TagKeeps(u)
    BY DEF LoopOthers, TagKeeps
  <1>2. \A u \in Targets \ {t} : TaggedNext(u)
    BY <1>1, StayTagged DEF CleanInv
  <1> QED
    BY <1>2, TaggedAll

LEMMA LoopRecoversClean ==
  ASSUME BoardTyped, DriverInv, CleanInv, NEW t \in Targets, LoopRecovers(t) PROVE CleanInv'
  <1>1. PICK r \in Active(loop[t].tag, t) :
          loop' = [loop EXCEPT ![t].pc = "committed", ![t].recovered = TRUE,
                               ![t].claim = [req |-> r, gen |-> requirement[r].gen]]
    BY DEF LoopRecovers
  <1> DEFINE c == ClaimOf(r)
  <1>2. loop' = [loop EXCEPT ![t].pc = "committed", ![t].recovered = TRUE, ![t].claim = c]
    BY <1>1 DEF ClaimOf
  <1>3. c.req = r /\ requirement[r].tag = loop[t].tag
    BY ActiveRow DEF BoardTyped
  <1> HIDE DEF c
  <1>4. /\ loop'[t].pc = "committed" /\ loop'[t].claim = c /\ loop'[t].tag = loop[t].tag
        /\ LoopOthers(t)
    BY <1>2 DEF BoardTyped, LoopTyped, Loops, LoopOthers
  <1>5. /\ handler' = handler /\ requirement' = requirement /\ loop[t].pc = "preparing"
        /\ admission' = admission /\ term' = term
    BY DEF LoopRecovers, storeVars, receiverVars
  <1>6. RowsEase(requirement')
    BY <1>5, EaseSame
  <1>7. LiveInv'
    BY <1>5, SameReceiversKeep, KeepsLive DEF CleanInv
  <1>8. LoopTagged'
    <2>1. TaggedNext(t)
      BY <1>3, <1>4, <1>5 DEF TaggedNext
    <2> QED
      BY <1>4, <1>6, <2>1, OthersTagged
  <1>9. OpenDriven'
    <2> SUFFICES ASSUME NEW x \in Terminals, NEW d \in Claims, Open(d)',
                        admission'[d].terminal = x, HoldsNext(d, x)
                 PROVE  Driven(x, d)'
      BY DEF OpenDriven, Holds, HoldsNext
    <2>1. Driven(x, d) /\ requirement'[d.req].tag = requirement[d.req].tag
      BY <1>5, <1>6, SameReceiversKeep, WasDriven DEF CleanInv, ReceiversKeep
    <2>2. DriveKeeps(x)
      BY <1>4, <1>5, TargetKinds DEF DriveKeeps, LoopOthers
    <2>3. HandlersStay
      BY <1>5, SameRequests DEF DriverInv
    <2> QED
      BY <2>1, <2>2, <2>3, StayDriven
  <1> QED
    BY <1>7, <1>8, <1>9 DEF CleanInv

\* a claim is minted: nobody was admitted with it
LEMMA LoopClaimsClean ==
  ASSUME BoardTyped, HeldInv, DriverInv, CleanInv, NEW t \in Targets, LoopClaims(t)
  PROVE  CleanInv'
  <1>1. PICK r \in Claimable(loop[t].tag, t) :
          /\ requirement' = [requirement EXCEPT ![r] = Claimed(@, t)]
          /\ loop' = [loop EXCEPT ![t].pc = "committed",
                                  ![t].claim = [req |-> r, gen |-> requirement[r].gen + 1]]
    BY DEF LoopClaims
  <1> DEFINE c == [req |-> r, gen |-> requirement[r].gen + 1]
             row == Claimed(requirement[r], t)
  <1>2. /\ r \in Requirements /\ requirement[r].gen \in Nat /\ requirement[r] \in Rows
        /\ requirement[r].tag = loop[t].tag
        /\ GoodRow(requirement[r]) /\ requirement[r].gen < MaxClaims
    BY DEF Claimable, BoardTyped, RowsTyped, Rows
  <1>3. row.gen = requirement[r].gen + 1 /\ row.owner = t /\ row.tag = requirement[r].tag
    <2> DEFINE g == requirement[r].gen + 1
               a == requirement[r].attempts + 1
    <2>1. row = [requirement[r] EXCEPT !.status = "in_progress", !.owner = t, !.gen = g,
                                       !.attempts = a]
      BY DEF Claimed
    <2>2. requirement[r] \in Rows
      BY <1>2
    <2> HIDE DEF row, g, a
    <2>3. row.gen = g /\ row.owner = t /\ row.tag = requirement[r].tag
      BY <2>1, <2>2 DEF Rows
    <2> QED
      BY <2>3 DEF g
  <1>4. /\ requirement'[r] = row /\ \A s \in Requirements \ {r} : requirement'[s] = requirement[s]
        /\ c.req = r /\ c.gen = requirement[r].gen + 1
        /\ loop' = [loop EXCEPT ![t].pc = "committed", ![t].claim = c]
    BY <1>1, <1>2 DEF BoardTyped, RowsTyped
  <1> HIDE DEF c, row
  <1>5. /\ loop'[t].pc = "committed" /\ loop'[t].claim = c /\ loop'[t].tag = loop[t].tag
        /\ LoopOthers(t)
    BY <1>4 DEF BoardTyped, LoopTyped, Loops, LoopOthers
  <1>6. handler' = handler /\ loop[t].pc = "preparing" /\ admission' = admission /\ term' = term
    BY DEF LoopClaims, receiverVars
  <1>7. LiveInv'
    BY <1>6, SameReceiversKeep, KeepsLive DEF CleanInv
  <1>8. LoopTagged'
    <2>1. TaggedNext(t)
      BY <1>2, <1>3, <1>4, <1>5 DEF TaggedNext
    <2>2. ASSUME NEW u \in Targets, u # t PROVE TaggedNext(u)
      <3> SUFFICES ASSUME loop'[u].claim # None, HoldsNext(loop'[u].claim, u)
                   PROVE  requirement'[loop'[u].claim.req].tag = loop'[u].tag
        BY DEF TaggedNext
      <3>1. PICK d : d = loop'[u].claim
        OBVIOUS
      <3>2. d = loop[u].claim /\ loop'[u] = loop[u] /\ d # None /\ HoldsNext(d, u)
        BY <1>5, <2>2, <3>1 DEF LoopOthers
      <3>3. d \in Claims
        BY <3>2, LoopFields DEF BoardTyped
      <3>4. d.req # r
        BY <1>3, <1>4, <2>2, <3>2 DEF HoldsNext
      <3>5. requirement'[d.req] = requirement[d.req]
        BY <1>4, <3>3, <3>4, ClaimReq
      <3>6. Holds(d, u)
        BY <3>2, <3>5 DEF HoldsNext, Holds
      <3>7. requirement[d.req].tag = loop[u].tag
        BY <3>2, <3>6 DEF CleanInv, LoopTagged
      <3> QED
        BY <3>1, <3>2, <3>5, <3>7
    <2> QED
      BY <2>1, <2>2, TaggedAll
  <1>9. OpenDriven'
    <2> SUFFICES ASSUME NEW x \in Terminals, NEW d \in Claims, Open(d)',
                        admission'[d].terminal = x, HoldsNext(d, x)
                 PROVE  Driven(x, d)'
      BY DEF OpenDriven, Holds, HoldsNext
    <2>1. Open(d) /\ admission[d].terminal = x
      BY <1>6 DEF Open
    <2>2. d.gen <= requirement[d.req].gen
      BY <2>1 DEF HeldInv, AdmittedHeld, Unadmitted, Open
    <2>3. d.req # r
      <3> SUFFICES ASSUME d.req = r PROVE FALSE
        OBVIOUS
      <3>1. d.gen = requirement[r].gen + 1
        BY <1>3, <1>4 DEF HoldsNext
      <3> QED
        BY <1>2, <2>2, <3>1
    <2>4. requirement'[d.req] = requirement[d.req]
      BY <1>4, <2>3, ClaimReq
    <2>5. Holds(d, x)
      BY <2>4 DEF HoldsNext, Holds
    <2>6. Driven(x, d)
      BY <2>1, <2>5 DEF CleanInv, OpenDriven
    <2>7. DriveKeeps(x)
      BY <1>5, <1>6, TargetKinds DEF DriveKeeps, LoopOthers
    <2>8. HandlersStay
      BY <1>6, SameRequests DEF DriverInv
    <2> QED
      BY <2>4, <2>6, <2>7, <2>8, StayDriven
  <1> QED
    BY <1>7, <1>8, <1>9 DEF CleanInv

LEMMA CustodyRecoversClean ==
  ASSUME BoardTyped, DriverInv, CleanInv, NEW t \in Targets, CustodyRecovers(t) PROVE CleanInv'
  <1>1. handler' = handler /\ loop[t].pc = "custody" /\ term' = term
    BY DEF CustodyRecovers
  <1>2. RowsEase(requirement') /\ ReceiversKeep
    <2>1. ReceiversKeep
      BY LoopStepReceivers DEF LoopStep, TerminalAdmits, CustodyRecovers
    <2> QED
      BY <2>1, CustodyRecoversDriver
  <1>3. LiveInv'
    BY <1>2, KeepsLive DEF CleanInv
  <1>4. HandlersStay
    BY <1>1, SameRequests DEF DriverInv
  <1>5. ~Parking(t)
    BY <1>1 DEF Parking, DriverInv, LockInv, LockedOff, Locking
  <1>6. ASSUME LoopOthers(t), TaggedNext(t),
               \A d \in Claims : ~(Open(d)' /\ admission'[d].terminal = t /\ HoldsNext(d, t)
                                   /\ t \in Terminals)
        PROVE  CleanInv'
    <2>1. LoopTagged'
      BY <1>2, <1>6, OthersTagged
    <2>2. OpenDriven'
      <3> SUFFICES ASSUME NEW x \in Terminals, NEW d \in Claims, Open(d)',
                          admission'[d].terminal = x, HoldsNext(d, x)
                   PROVE  Driven(x, d)'
        BY DEF OpenDriven, Holds, HoldsNext
      <3>1. x # t
        BY <1>6
      <3>2. Driven(x, d) /\ requirement'[d.req].tag = requirement[d.req].tag
        BY <1>2, WasDriven DEF CleanInv, ReceiversKeep
      <3>3. DriveKeeps(x)
        BY <1>6, <3>1, TargetKinds DEF DriveKeeps, LoopOthers
      <3> QED
        BY <1>4, <3>2, <3>3, StayDriven
    <2> QED
      BY <1>3, <2>1, <2>2 DEF CleanInv
  <1>7. CASE /\ Active(loop[t].tag, t) = {}
             /\ loop' = [loop EXCEPT ![t] = LoopAt("off", None)]
             /\ UNCHANGED <<requirement, admission>>
    <2>1. loop'[t] = LoopAt("off", None) /\ LoopOthers(t)
      BY <1>7 DEF BoardTyped, LoopTyped, LoopOthers
    <2>2. TaggedNext(t)
      BY <2>1, OffReset DEF TaggedNext
    <2>3. ASSUME NEW d \in Claims, Open(d)', admission'[d].terminal = t, HoldsNext(d, t),
                 t \in Terminals
          PROVE  FALSE
      <3>1. Holds(d, t) /\ Driven(t, d)
        BY <1>2, <2>3, WasDriven DEF CleanInv, ReceiversKeep
      <3>2. requirement[d.req].tag = loop[t].tag
        BY <1>5, <3>1 DEF Driven
      <3>3. d.req \in Active(loop[t].tag, t)
        BY <3>1, <3>2, ClaimReq DEF Active, Holds
      <3> QED
        BY <1>7, <3>3
    <2> QED
      BY <1>6, <2>1, <2>2, <2>3
  <1>8. CASE \E r \in Active(loop[t].tag, t) :
               /\ loop' = [loop EXCEPT ![t].pc = "closing",
                             ![t].claim = [req |-> r, gen |-> requirement[r].gen]]
               /\ IF t \in Terminals THEN Park(OpenAt(t, 0..MaxEpochs))
                  ELSE UNCHANGED <<requirement, admission>>
    <2>1. PICK r \in Active(loop[t].tag, t) :
               /\ loop' = [loop EXCEPT ![t].pc = "closing",
                             ![t].claim = [req |-> r, gen |-> requirement[r].gen]]
               /\ IF t \in Terminals THEN Park(OpenAt(t, 0..MaxEpochs))
                  ELSE UNCHANGED <<requirement, admission>>
      BY <1>8
    <2> DEFINE c == ClaimOf(r)
    <2>2. loop' = [loop EXCEPT ![t].pc = "closing", ![t].claim = c]
      BY <2>1 DEF ClaimOf
    <2>3. c.req = r /\ requirement[r].tag = loop[t].tag /\ r \in Requirements
      BY ActiveRow DEF BoardTyped
    <2> HIDE DEF c
    <2>4. loop'[t].claim = c /\ loop'[t].tag = loop[t].tag /\ LoopOthers(t)
      BY <2>2 DEF BoardTyped, LoopTyped, Loops, LoopOthers
    <2>5. requirement'[r].tag = requirement[r].tag
      BY <1>2, <2>3 DEF RowsEase, Eases
    <2>6. TaggedNext(t)
      BY <2>3, <2>4, <2>5 DEF TaggedNext
    <2>7. t \in Terminals => Disarms(t)
      BY <2>1, AllEpochs, ParkDisarms DEF CleanInv, Park
    <2>8. \A d \in Claims : ~(Open(d)' /\ admission'[d].terminal = t /\ HoldsNext(d, t)
                              /\ t \in Terminals)
      BY <2>7 DEF Disarms
    <2> QED
      BY <1>6, <2>4, <2>6, <2>8
  <1> QED
    BY <1>7, <1>8 DEF CustodyRecovers

\* the loop taken out of a terminal leaves a request that parks
LEMMA HandlerStopsClean ==
  ASSUME BoardTyped, DriverInv, CleanInv, NEW h \in Threads, HandlerStops(h) PROVE CleanInv'
  <1> DEFINE t == handler[h].target
  <1>1. /\ t \in Targets /\ handler[h].step = "stop"
        /\ \A k \in Threads \ {h} : handler'[k] = handler[k]
        /\ handler'[h].target = t
        /\ loop[t].pc # "off" /\ t \in Terminals => handler'[h].step = "park"
        /\ loop'[t] = LoopAt("off", None) /\ LoopOthers(t)
        /\ \A k \in Threads : handler[k].target = t => handler[k].step \notin Locking
        /\ requirement' = requirement /\ admission' = admission /\ term' = term
    BY HandlerStopsFacts
  <1> HIDE DEF t
  <1>2. RowsEase(requirement') /\ ReceiversKeep
    BY <1>1, EaseSame, SameReceiversKeep
  <1>3. LiveInv'
    BY <1>2, KeepsLive DEF CleanInv
  <1>4. LoopTagged'
    <2>1. TaggedNext(t)
      BY <1>1, OffReset DEF TaggedNext
    <2> QED
      BY <1>1, <1>2, <2>1, OthersTagged
  <1>5. OpenDriven'
    <2> SUFFICES ASSUME NEW x \in Terminals, NEW c \in Claims, Open(c)',
                        admission'[c].terminal = x, HoldsNext(c, x)
                 PROVE  Driven(x, c)'
      BY DEF OpenDriven, Holds, HoldsNext
    <2>1. Driven(x, c) /\ requirement'[c.req].tag = requirement[c.req].tag /\ x \in Targets
      BY <1>2, WasDriven, TargetKinds DEF CleanInv, ReceiversKeep
    <2>2. CASE x = t
      <3>1. ~Parking(x)
        BY <1>1, <2>2 DEF Parking, Locking
      <3>2. handler'[h].step = "park" /\ handler'[h].target = x
        BY <1>1, <2>1, <2>2, <3>1 DEF Driven
      <3> QED
        BY <3>2 DEF Driven, Parking
    <2>3. CASE x # t
      <3>1. loop'[x] = loop[x]
        BY <1>1, <2>1, <2>3 DEF LoopOthers
      <3>2. Parking(x) => Parking(x)'
        BY <1>1 DEF Parking
      <3> QED
        BY <2>1, <3>1, <3>2 DEF Driven
    <2> QED
      BY <2>2, <2>3
  <1> QED
    BY <1>3, <1>4, <1>5 DEF CleanInv

LEMMA HandlerParksClean ==
  ASSUME BoardTyped, DriverInv, CleanInv, NEW h \in Threads, HandlerParks(h) PROVE CleanInv'
  <1> DEFINE t == handler[h].target
  <1>1. /\ handler[h].step = "park" /\ loop' = loop /\ term' = term
        /\ Park(OpenAt(t, 0..MaxEpochs)) /\ \A k \in Threads \ {h} : handler'[k] = handler[k]
    BY DEF HandlerParks, BoardTyped, HandlersTyped
  <1>2. RowsEase(requirement') /\ LoopsStay
    BY HandlerParksDriver
  <1>3. ReceiversKeep
    BY <1>1, ParkReceivers
  <1>4. t \in Terminals => Disarms(t)
    BY <1>1, AllEpochs, ParkDisarms DEF CleanInv, Park
  <1> HIDE DEF t
  <1>5. LiveInv'
    BY <1>3, KeepsLive DEF CleanInv
  <1>6. LoopTagged'
    BY <1>2, PlainTagged DEF CleanInv, LoopsStay
  <1>7. OpenDriven'
    <2> SUFFICES ASSUME NEW x \in Terminals, NEW c \in Claims, Open(c)',
                        admission'[c].terminal = x, HoldsNext(c, x)
                 PROVE  Driven(x, c)'
      BY DEF OpenDriven, Holds, HoldsNext
    <2>1. Driven(x, c) /\ requirement'[c.req].tag = requirement[c.req].tag
      BY <1>2, <1>3, WasDriven DEF CleanInv, ReceiversKeep
    <2>2. x # t
      BY <1>4 DEF Disarms
    <2>3. Parking(x) => Parking(x)'
      BY <1>1, <2>2 DEF Parking, t
    <2> QED
      BY <1>1, <2>1, <2>3 DEF Driven
  <1> QED
    BY <1>5, <1>6, <1>7 DEF CleanInv

\* the target of a request about to start is not armed
LEMMA StartDisarmed ==
  ASSUME BoardTyped, DriverInv, CleanInv, NEW h \in Threads, handler[h].step = "start",
         NEW x \in Terminals, handler[h].target = x, NEW c \in Claims, Open(c),
         admission[c].terminal = x, Holds(c, x)
  PROVE  FALSE
  <1>1. loop[x].pc = "off" /\ Driven(x, c)
    BY DEF DriverInv, LockInv, LockedOff, Locking, CleanInv, OpenDriven
  <1>2. PICK k \in Threads : handler[k].step = "park" /\ handler[k].target = x
    BY <1>1 DEF Driven, Parking
  <1>3. k = h
    BY <1>2 DEF DriverInv, LockInv, LockExclusive, Locking
  <1> QED
    BY <1>2, <1>3

StartStep ==
  \A x \in Terminals :
    loop[x].pc = "off" /\ loop'[x].pc = "idle"
      => \A c \in OpenAt(x, 0..MaxEpochs) : ~Holds(c, x)

LEMMA HandlerStartsClean ==
  ASSUME BoardTyped, DriverInv, CleanInv, NEW h \in Threads, HandlerStarts(h)
  PROVE  CleanInv' /\ StartStep
  <1> DEFINE t == handler[h].target
  <1>1. /\ t \in Targets /\ handler[h].step = "start" /\ requirement' = requirement
        /\ admission' = admission /\ term' = term
    BY HandlerFields DEF BoardTyped, HandlerStarts, storeVars, receiverVars
  <1>2. \A k \in Threads \ {h} : handler'[k] = handler[k]
    BY DEF BoardTyped, HandlersTyped, HandlerStarts
  <1>3. LoopOthers(t) /\ (loop'[t] = loop[t] \/ loop'[t] = LoopAt("idle", handler[h].tag))
    BY <1>1 DEF HandlerStarts, BoardTyped, LoopTyped, LoopOthers
  <1>4. \A c \in Claims : ~(t \in Terminals /\ Open(c) /\ admission[c].terminal = t /\ Holds(c, t))
    BY <1>1, StartDisarmed
  <1>5. StartStep
    <2> SUFFICES ASSUME NEW x \in Terminals, loop[x].pc = "off", loop'[x].pc = "idle",
                        NEW c \in OpenAt(x, 0..MaxEpochs), Holds(c, x)
                 PROVE  FALSE
      BY DEF StartStep
    <2>1. x = t
      BY <1>3, TargetKinds DEF LoopOthers
    <2>2. c \in Claims /\ Open(c) /\ admission[c].terminal = x
      BY DEF OpenAt
    <2> QED
      BY <1>4, <2>1, <2>2
  <1>6. RowsEase(requirement') /\ ReceiversKeep
    BY <1>1, EaseSame, SameReceiversKeep
  <1>7. LiveInv'
    BY <1>6, KeepsLive DEF CleanInv
  <1>8. LoopTagged'
    <2>1. TaggedNext(t)
      <3>1. CASE loop'[t] = loop[t]
        BY <1>1, <1>6, <3>1, StayTagged DEF CleanInv, TagKeeps
      <3>2. CASE loop'[t] = LoopAt("idle", handler[h].tag)
        BY <3>2, IdleReset DEF TaggedNext
      <3> QED
        BY <1>3, <3>1, <3>2
    <2> QED
      BY <1>1, <1>3, <1>6, <2>1, OthersTagged
  <1>9. OpenDriven'
    <2> SUFFICES ASSUME NEW x \in Terminals, NEW c \in Claims, Open(c)',
                        admission'[c].terminal = x, HoldsNext(c, x)
                 PROVE  Driven(x, c)'
      BY DEF OpenDriven, Holds, HoldsNext
    <2>1. /\ Driven(x, c) /\ Open(c) /\ admission[c].terminal = x /\ Holds(c, x)
          /\ requirement'[c.req].tag = requirement[c.req].tag
      BY <1>6, WasDriven DEF CleanInv, ReceiversKeep
    <2>2. x # t
      BY <1>4, <2>1
    <2>3. loop'[x] = loop[x]
      BY <1>3, <2>2, TargetKinds DEF LoopOthers
    <2>4. Parking(x) => Parking(x)'
      BY <1>2, <2>2 DEF Parking
    <2> QED
      BY <2>1, <2>3, <2>4 DEF Driven
  <1> QED
    BY <1>5, <1>7, <1>8, <1>9 DEF CleanInv

LEMMA CrashClean ==
  ASSUME BoardTyped, CleanInv, Crash PROVE CleanInv'
  <1>1. ReceiversKeep /\ \A c \in Claims : ~Open(c)'
    BY CrashReceivers DEF CleanInv
  <1>2. LiveInv'
    BY <1>1, KeepsLive DEF CleanInv
  <1>3. LoopTagged'
    <2>1. \A t \in Targets : loop'[t].claim = None
      BY OffReset DEF Crash
    <2> QED
      BY <2>1, TaggedAll DEF TaggedNext
  <1>4. OpenDriven'
    BY <1>1 DEF OpenDriven
  <1> QED
    BY <1>2, <1>3, <1>4 DEF CleanInv

-----------------------------------------------------------------------------
(* Every step without a retag keeps the terminals clean.                   *)

CleanStep == CleanInv' /\ StartStep

LEMMA KeepsStart == ASSUME LoopsKeep PROVE StartStep
  BY TargetKinds DEF LoopsKeep, LoopKeeps, StartStep

LEMMA PlainStep ==
  ASSUME BoardTyped, CleanInv, Plain, ReceiversKeep PROVE CleanStep
  BY PlainClean, StayKeeps, KeepsStart DEF CleanStep, Plain

LEMMA LoopStepClean ==
  ASSUME BoardTyped, HeldInv, DriverInv, CleanInv, NEW t \in Targets,
         LoopStep(t) \/ LoopDies(t) \/ SendFails(t)
  PROVE  CleanStep
  <1>1. CASE LoopRecovers(t) \/ LoopClaims(t) \/ CustodyRecovers(t)
    <2>1. CleanInv'
      BY <1>1, LoopRecoversClean, LoopClaimsClean, CustodyRecoversClean
    <2>2. loop[t].pc # "off" /\ \A u \in Targets \ {t} : loop'[u] = loop[u]
      <3>1. CASE LoopRecovers(t)
        BY <3>1 DEF LoopRecovers, BoardTyped, LoopTyped
      <3>2. CASE LoopClaims(t)
        BY <3>2 DEF LoopClaims, BoardTyped, LoopTyped
      <3>3. CASE CustodyRecovers(t)
        BY <3>3 DEF CustodyRecovers, BoardTyped, LoopTyped
      <3> QED
        BY <1>1, <3>1, <3>2, <3>3
    <2>3. StartStep
      BY <2>2, TargetKinds DEF StartStep
    <2> QED
      BY <2>1, <2>3 DEF CleanStep
  <1>2. CASE ~LoopRecovers(t) /\ ~LoopClaims(t) /\ ~CustodyRecovers(t)
    <2>1. Plain
      BY <1>2, LoopStepPlain DEF DriverInv
    <2>2. CASE t \in Terminals /\ TerminalAdmits(t)
      BY <2>1, <2>2, TerminalAdmitsClean, StayKeeps, KeepsStart DEF CleanStep, Plain
    <2>3. CASE ~(t \in Terminals /\ TerminalAdmits(t))
      BY <2>1, <2>3, LoopStepReceivers, PlainStep
    <2> QED
      BY <2>2, <2>3
  <1> QED
    BY <1>1, <1>2

LEMMA HandlerStepClean ==
  ASSUME BoardTyped, DriverInv, CleanInv, NEW h \in Threads, HandlerStep(h) PROVE CleanStep
  <1>1. CASE HandlerResumes(h) \/ HandlerResolves(h)
    <2>1. admission' = admission /\ term' = term
      BY <1>1 DEF HandlerResumes, HandlerResolves, receiverVars
    <2> QED
      BY <1>1, <2>1, RequestsPlain, SameReceiversKeep, PlainStep DEF DriverInv
  <1>2. CASE HandlerStops(h)
    <2> DEFINE t == handler[h].target
    <2>1. loop'[t].pc = "off" /\ LoopOthers(t)
      BY <1>2, HandlerStopsFacts, OffReset
    <2>2. StartStep
      BY <2>1, TargetKinds DEF StartStep, LoopOthers
    <2> QED
      BY <1>2, <2>2, HandlerStopsClean DEF CleanStep
  <1>3. CASE HandlerParks(h)
    BY <1>3, HandlerParksClean, HandlerParksDriver, StayKeeps, KeepsStart DEF CleanStep
  <1>4. CASE HandlerStarts(h)
    BY <1>4, HandlerStartsClean DEF CleanStep
  <1> QED
    BY <1>1, <1>2, <1>3, <1>4 DEF HandlerStep

LEMMA ReceiverStepClean ==
  ASSUME BoardTyped, DriverInv, CleanInv, ReceiverStep PROVE CleanStep
  <1>1. Plain
    BY ReceiverStepPlain DEF DriverInv
  <1>2. CASE \/ \E v \in Conversations :
                  \/ TurnStarts(v) \/ AgentDeclares(v)
                  \/ \E result \in {"ok", "error"} : TurnEnds(v, result)
             \/ \E x \in Terminals : CliDeclares(x)
    <2>1. admission' = admission /\ term' = term
      BY <1>2 DEF TurnStarts, AgentDeclares, TurnEnds, CliDeclares, receiverVars, terminalVars
    <2> QED
      BY <1>1, <2>1, SameReceiversKeep, PlainStep
  <1>3. CASE \E x \in Terminals : PtyExits(x)
    BY <1>1, <1>3, PtyReceivers, PlainStep DEF CleanInv
  <1> QED
    BY <1>2, <1>3 DEF ReceiverStep

LEMMA NoRetag ==
  ASSUME "retag" \notin Commands PROVE ~(\E r \in Requirements, tag \in Tags : Retag(r, tag))
  BY DEF Retag, Command

LEMMA UserStepClean ==
  ASSUME "retag" \notin Commands, BoardTyped, DriverInv, CleanInv, UserStep PROVE CleanStep
  <1>1. Plain
    BY NoRetag, UserStepPlain DEF DriverInv
  <1>2. CASE \E x \in Terminals :
               \/ DeleteTerminal(x) \/ Kill(x) \/ Relaunch(x, TRUE) \/ Relaunch(x, FALSE)
    BY <1>1, <1>2, PtyReceivers, PlainStep DEF CleanInv
  <1>3. CASE \/ \E h \in Handlers, t \in Targets, tag \in Tags \cup {None} : SetAutowork(h, t, tag)
             \/ \E r \in Requirements :
                  Requeue(r) \/ Delete(r) \/ \E status \in Verdicts : SetStatus(r, status)
             \/ \E tag \in Tags, rs \in SUBSET Requirements : ResumeTag(tag, rs)
             \/ \E v \in Conversations : UserCancels(v) \/ UserSends(v)
    <2>1. admission' = admission /\ term' = term
      BY <1>3 DEF SetAutowork, Requeue, Delete, SetStatus, ResumeTag, UserCancels, UserSends,
                  receiverVars, terminalVars
    <2> QED
      BY <1>1, <2>1, SameReceiversKeep, PlainStep
  <1> QED
    BY NoRetag, <1>2, <1>3 DEF UserStep

LEMMA NextClean ==
  ASSUME "retag" \notin Commands, BoardTyped, HeldInv, DriverInv, CleanInv, AutoWorkNext
  PROVE  CleanStep
  <1>1. CASE \E t \in Targets : LoopStep(t) \/ LoopDies(t)
    BY <1>1, LoopStepClean
  <1>2. CASE \E v \in Conversations : SendFails(v)
    <2>1. PICK t \in Targets : SendFails(t)
      BY <1>2, TargetKinds
    <2> QED
      BY <2>1, LoopStepClean
  <1>3. CASE \/ \E t \in Targets : ResumeBinding(t)
             \/ \E r \in Requirements : Sweep(r)
    <2>1. admission' = admission /\ term' = term
      BY <1>3 DEF ResumeBinding, Sweep, receiverVars
    <2> QED
      BY <1>3, <2>1, RequestsPlain, SameReceiversKeep, PlainStep DEF DriverInv
  <1>4. CASE \E h \in Threads : HandlerStep(h)
    BY <1>4, HandlerStepClean
  <1>5. CASE ReceiverStep
    BY <1>5, ReceiverStepClean
  <1>6. CASE UserStep
    BY <1>6, UserStepClean
  <1>7. CASE Crash
    BY <1>7, CrashClean, CrashKeeps, KeepsStart DEF CleanStep
  <1> QED
    BY <1>1, <1>2, <1>3, <1>4, <1>5, <1>6, <1>7 DEF AutoWorkNext

LEMMA InitClean ==
  ASSUME AutoWorkInit PROVE CleanInv
  <1>1. /\ \A t \in Targets : loop[t].claim = None
        /\ \A c \in Claims : admission[c].phase = "none"
        /\ \A x \in Terminals : term[x].status = "exited"
    BY DEF AutoWorkInit, ReceiversInit, LoopAt, NoAdmission
  <1> QED
    BY <1>1 DEF CleanInv, LiveInv, RunningPty, OpenLive, LoopTagged, OpenDriven, Open

LEMMA StutterClean ==
  ASSUME BoardTyped, DriverInv, CleanInv, UNCHANGED vars PROVE CleanInv'
  <1>1. Plain
    BY StutterPlain DEF DriverInv
  <1>2. admission' = admission /\ term' = term
    BY DEF vars, receiverVars
  <1> QED
    BY <1>1, <1>2, SameReceiversKeep, PlainClean

\* Where no row is retagged, a loop is installed on a terminal only after every
\* open admission of a claim the terminal holds was parked: start, and the
\* custodian of a loop that died, find the claim by its tag and its owner.
THEOREM StartsAreClean ==
  ASSUME "retag" \notin Commands PROVE AutoWorkSpec => CleanStart
  <1>1. BoardTyped /\ HeldInv /\ DriverInv /\ CleanInv /\ [AutoWorkNext]_vars => CleanInv'
    BY NextClean, StutterClean DEF CleanStep
  <1>2. BoardTyped /\ HeldInv /\ DriverInv /\ CleanInv /\ [AutoWorkNext]_vars =>
          [\A x \in Terminals :
             loop[x].pc = "off" /\ loop'[x].pc = "idle"
               => \A c \in OpenAt(x, 0..MaxEpochs) : ~Holds(c, x)]_vars
    BY NextClean DEF CleanStep, StartStep
  <1> QED
    BY <1>1, <1>2, InitClean, AlwaysTyped, AlwaysHeld, AlwaysDriven, PTL
    DEF AutoWorkSpec, CleanStart

=============================================================================
