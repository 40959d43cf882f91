------------------------ MODULE AutoWorkCorrectness ------------------------
(***************************************************************************)
(* The properties of AutoWork.                                             *)
(***************************************************************************)
EXTENDS AutoWork

-----------------------------------------------------------------------------
(* Invariants.                                                             *)

\* Between two explicit requeues an agent is given a requirement at most once,
\* whatever loops die, toggles, restarts and late receipts interleave.  No row
\* says so: it follows from the abandon transaction, the only automatic way
\* back to pending, refusing a claim that a receiver has admitted.
AtMostOnce ==
    \A c, d \in runs :
      c.req = d.req /\ c.gen > requeuedAt[c.req] /\ d.gen > requeuedAt[c.req] => c = d

\* No two loops work on the same claim, and the loop of a target never works
\* beside a request or a custodian that is closing its claim.
OneDriver ==
    /\ \A t, u \in Targets :
         loop[t].claim # None /\ loop[t].claim = loop[u].claim => t = u
    /\ \A h, k \in Threads :
         /\ handler[h].step \in {"park", "resolve"} => loop[handler[h].target].pc = "off"
         /\ handler[h].claim # None /\ handler[h].claim = handler[k].claim => h = k

-----------------------------------------------------------------------------
(* Action properties.                                                      *)

\* A claim becomes done only after its prompt was given to an agent: neither a
\* failed start, a restart, a park nor a late verdict of another generation
\* reports work that was never handed over.
DoneWasRun ==
    [][\A r \in Requirements :
         requirement[r].status = "in_progress" /\ requirement'[r].status = "done"
           => [req |-> r, gen |-> requirement[r].gen] \in runs]_vars

\* A requirement whose turn the user stopped is not claimed again, by any
\* loop, until a user resumes its tag, enables AutoWork on it, requeues it or
\* moves it to another tag, which the stop did not pause.
UserStopHolds ==
    [][\A r \in stopped :
         requirement'[r].status = "in_progress" => requirement[r].status = "in_progress"]_vars

\* A loop is installed only when no claim the terminal holds has an open
\* admission: the earlier loop's turn was absorbed or settled before, so the
\* new loop cannot meet a half-written prompt of its own claim.  Rows that
\* users retag meanwhile are the exception: a custodian looks for the claim
\* under the tag of its loop.
CleanStart ==
    [][\A x \in Terminals :
         loop[x].pc = "off" /\ loop'[x].pc = "idle"
           => \A c \in OpenAt(x, 0..MaxEpochs) : ~Holds(c, x)]_vars

-----------------------------------------------------------------------------
(* Liveness.                                                               *)

\* A claim is closed in the end: by its loop, by the request or custodian that
\* ended the loop, by the loop a restart resumes, or by the sweeper.
ClaimsClose ==
    \A r \in Requirements :
      requirement[r].status = "in_progress" ~> requirement[r].status # "in_progress"

=============================================================================
