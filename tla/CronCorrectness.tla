--------------------------- MODULE CronCorrectness ---------------------------
(***************************************************************************)
(* What the scheduler of jobs promises, across timers that fire late, a    *)
(* machine that sleeps and resumes, updates and deletions that race a run, *)
(* and a process that dies at any step.                                    *)
(***************************************************************************)
EXTENDS Cron

\* The record of a run agrees with its conversation: success is recorded
\* only when the turn ended well, and every other end only when no turn was
\* ever accepted or the turn failed - now and later.  A run that is settled
\* while its turn may still start or be running breaks this
\* (handle_execution_result, recover_exact_reserved_run).
Agrees(o) ==
  /\ run[o].status = "ok" => receipt[o] = "ok"
  /\ run[o].status \in {"error", "skipped", "missed"} =>
       receipt[o] \in {"none", "error"}

\* The runs of a schedule: neither a resume that finds the occurrence
\* overdue nor the recovery of a boot settles one whose turn is under way.
ReceiptDecides == \A o \in Scheduled : Agrees(o)

\* The runs that users ask for: the comment in recover_exact_reserved_run
\* says that an unattached reservation "proves that no Conversation claim
\* was possible", which is what a repeated request relies on when it settles
\* the reservation it finds.
RequestedReceiptDecides == \A o \in Requested : Agrees(o)

\* No occurrence is lost: whenever nobody is working on a job, the next
\* occurrence its row plans has a timer that will fire for it, or a callback
\* on its way whose installation is still current, or a reserved run that
\* its owner or the next boot settles.
Covered(j) ==
  LET o == Occurrence(j, job[j].rev, job[j].next)
  IN \/ /\ timer[j].rev = o.rev
        /\ timer[j].at = o.at
        /\ timer[j].due <= o.at
     \/ \E w \in Workers :
          task[w].pc = "tick" /\ task[w].run = o /\ Current(w)
     \/ run[o].status = "reserved"
TimerCovers ==
  \A j \in Jobs :
    \/ ~Live(j) \/ ~job[j].enabled
    \/ ~GateFree(j) \/ sweep.pc # "off"
    \/ \E w \in Workers : task[w].pc = "adding" /\ task[w].run.job = j
    \/ Covered(j)

\* A callback is admitted only while the timer it came from is installed
\* and its row, unless deleted or disabled meanwhile, plans that very
\* occurrence: not after a resume cancelled all timers, and not after an
\* update replaced the schedule.
Admitted(o) == \E w \in Workers : task[w].pc = "admitted" /\ task[w].run = o
AdmittedIsCurrent ==
  [][\A o \in Scheduled :
       Admitted(o)' /\ ~Admitted(o) =>
         /\ timer[o.job].rev = o.rev
         /\ timer[o.job].planned <= o.at
         /\ Live(o.job) => job[o.job].rev = o.rev /\ job[o.job].next = o.at]_cronVars

\* An occurrence whose time has come is dealt with: it is run, skipped or
\* recorded as missed and the job moves on, unless its turn was accepted and
\* nobody can tell how it ended, in which case the run stays reserved.  A
\* job plans one occurrence at a time, so a job that is again and again not
\* overdue has had each of them dealt with.
Overdue(j) ==
  LET o == Occurrence(j, job[j].rev, job[j].next)
  IN /\ Plans(o)
     /\ job[j].next # NoTime
     /\ job[j].next <= now
     /\ ~(run[o].status = "reserved" /\ receipt[o] = "accepted"
          /\ o \notin live)
OccurrenceCloses == \A j \in Jobs : []<>~Overdue(j)
=============================================================================
