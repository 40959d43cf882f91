--------------------------- MODULE RequirementStore ---------------------------
(***************************************************************************)
(* The requirement rows and the tag pauses of the AutoWork board           *)
(* (nomifun-db, sqlite_requirement.rs), and the row each of its            *)
(* compare-and-set statements writes.  A claim is the pair of a            *)
(* requirement and the generation the claim allocator minted for it.  The  *)
(* random claim token is minted with the generation and cleared whenever   *)
(* the row returns to pending, so generation and status determine it.      *)
(* Titles, notes, order keys and timestamps are left out; lease expiry is  *)
(* the passing of time, which the sweeper of module AutoWork may take at   *)
(* any moment at which no loop of the owner is installed.                  *)
(***************************************************************************)
EXTENDS Integers, FiniteSets

CONSTANTS
    Requirements,   \* requirement ids
    Tags,           \* tags that group them into queues
    Conversations,  \* conversation targets of AutoWork
    Terminals,      \* terminal targets of AutoWork
    MaxAttempts,    \* MAX_ATTEMPTS of service.rs
    MaxClaims,      \* bound: claims of one requirement
    None            \* SQL NULL

ASSUME StoreAssumption ==
    /\ MaxAttempts \in Nat \ {0}
    /\ MaxClaims \in Nat \ {0}
    /\ Conversations \cap Terminals = {}
    /\ None \notin Conversations \cup Terminals \cup Tags

Targets == Conversations \cup Terminals

Claims == [req : Requirements, gen : 1..MaxClaims]

Statuses ==
    {"pending", "in_progress", "done", "failed", "needs_review", "cancelled",
     "deleted"}

\* The statuses resolve_claim_exact can write.
Verdicts == {"done", "failed", "needs_review", "cancelled"}

Rows ==
    [status : Statuses, tag : Tags, owner : Targets \cup {None},
     gen : 0..MaxClaims, attempts : 0..MaxClaims]

VARIABLES
    requirement,   \* requirement[r]: the row of r
    paused         \* paused[g]: requirement_tags.paused of tag g

storeVars == <<requirement, paused>>

-----------------------------------------------------------------------------
(* What the statements select. *)

\* The exact authority predicate of every claim-holding statement.
Holds(c, t) ==
    /\ requirement[c.req].status = "in_progress"
    /\ requirement[c.req].gen = c.gen
    /\ requirement[c.req].owner = t

\* The rows recover_active_claim_in_transaction may return.
Active(tag, t) ==
    {r \in Requirements : /\ requirement[r].status = "in_progress"
                          /\ requirement[r].owner = t
                          /\ requirement[r].tag = tag}

OwnsActive(t) ==
    \E r \in Requirements : /\ requirement[r].status = "in_progress"
                            /\ requirement[r].owner = t

\* Mutant of Claimable: the pause of the tag is not read.
ClaimableWhilePaused(tag, t) ==
    {r \in Requirements : /\ requirement[r].status = "pending"
                          /\ requirement[r].tag = tag
                          /\ requirement[r].gen < MaxClaims
                          /\ ~OwnsActive(t)}

\* The rows claim_pending_in_transaction may take; order keys are left out.
Claimable(tag, t) ==
    {r \in Requirements : /\ requirement[r].status = "pending"
                          /\ requirement[r].tag = tag
                          /\ requirement[r].gen < MaxClaims
                          /\ ~paused[tag]
                          /\ ~OwnsActive(t)}

-----------------------------------------------------------------------------
(* The row each statement writes. *)

Claimed(row, t) ==
    [row EXCEPT !.status = "in_progress", !.owner = t,
                !.gen = @ + 1, !.attempts = @ + 1]

\* requeue_for_resume_exact and resume_tag_with_requeues.
Requeued(row, reset) ==
    [row EXCEPT !.status = "pending", !.owner = None,
                !.attempts = IF reset THEN 0 ELSE @]

\* The row trigger of migration 010 behind abandon_claim_before_admission_exact.
Abandoned(row) ==
    [row EXCEPT !.status = "pending", !.owner = None,
                !.attempts = IF @ = 0 THEN 0 ELSE @ - 1]

\* resolve_claim_exact, and every statement that parks a row for review.
Resolved(row, status) == [row EXCEPT !.status = status]

\* One row of resume_tag_for_enable_atomic.
ResumedForEnable(row) ==
    CASE row.status = "in_progress"           -> Resolved(row, "needs_review")
      [] row.status \in {"failed", "pending"} -> Requeued(row, TRUE)
      [] OTHER                                -> row

\* One row of detach_owner_for_session and of the terminal delete.
Detached(row) ==
    CASE row.status = "in_progress"  -> Resolved(row, "needs_review")
      [] row.status = "needs_review" -> row
      [] OTHER                       -> [row EXCEPT !.owner = None]

\* resolve_claim_exact: the rows after a verdict by the holder t of claim c.
WithVerdict(c, t, status) ==
    IF Holds(c, t)
    THEN [requirement EXCEPT ![c.req] = Resolved(@, status)]
    ELSE requirement

StoreTypeOK ==
    /\ requirement \in [Requirements -> Rows]
    /\ paused \in [Tags -> BOOLEAN]

StoreInit ==
    /\ requirement \in
         [Requirements -> [status : {"pending"}, tag : Tags, owner : {None},
                           gen : {0}, attempts : {0}]]
    /\ paused = [g \in Tags |-> FALSE]

=============================================================================
