------------------------------- MODULE MCCron -------------------------------
EXTENDS CronCorrectness

\* a one-time schedule and an interval
BothSchedules == {[kind |-> "at", n |-> 2], [kind |-> "every", n |-> 1]}
AllCommands == {"add", "update", "remove", "cascade", "now", "resume"}
=============================================================================
