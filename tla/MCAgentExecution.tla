-------------------------- MODULE MCAgentExecution --------------------------
(* Small instances of AgentExecution for TLC.                              *)
EXTENDS ExecutionCorrectness

CONSTANTS a, b   \* step ids

NoEdges == [s \in Steps |-> {}]

\* A plan of one step.
SinglePlans == {[steps |-> {a}, blockers |-> NoEdges]}

\* b after a.
ChainPlans == {[steps |-> {a, b}, blockers |-> [s \in Steps |-> IF s = b THEN {a} ELSE {}]]}

\* a and b side by side.
PairPlans == {[steps |-> {a, b}, blockers |-> NoEdges]}

\* a beside b, a or b alone, and b after a step a that the revision keeps.
RevisedPlans ==
  PairPlans \cup
  {[steps |-> {s}, blockers |-> NoEdges] : s \in {a, b}} \cup
  {[steps |-> {b}, blockers |-> [s \in Steps |-> IF s = b THEN {a} ELSE {}]]}

=============================================================================
