--------------------------- MODULE MCConvergenceWait ---------------------------
(* Instances of ConvergenceWait: a budget of nothing, and one of a few pauses. *)
EXTENDS ConvergenceWait

================================================================================
