---------------------------- MODULE MCAssistant -----------------------------
(* Model values and symmetry for the run of Assistant. *)
EXTENDS Assistant, TLC

Symmetric == Permutations(Question)
=============================================================================
