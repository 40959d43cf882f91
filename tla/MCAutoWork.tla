----------------------------- MODULE MCAutoWork -----------------------------
(* Small instances of AutoWork for TLC: the constants are sets of model    *)
(* values that the configurations write down.                              *)
EXTENDS AutoWorkCorrectness

=============================================================================
