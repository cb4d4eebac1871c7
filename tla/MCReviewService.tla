--------------------------- MODULE MCReviewService --------------------------
(* Model values, symmetry and a bound for the runs of ReviewService. *)
EXTENDS ReviewService, TLC

Symmetric == Permutations(Id)

\* Bound: two failures of any kind, of which at most one is a crash.
FewFailures == faults + crashes <= 2
=============================================================================
