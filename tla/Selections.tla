----------------------------- MODULE Selections -----------------------------
(***************************************************************************)
(* What a comprehension with a condition makes of a sequence, and what a   *)
(* sum over one is.  What is selected is given by positions, and neither   *)
(* is stated by a fold, so that facts about both can be proved.            *)
(***************************************************************************)
EXTENDS Naturals, Sequences, FiniteSets

\* The place of i among the positions in keep.
Rank(keep, i) == Cardinality({j \in keep : j <= i})

\* The elements of a sequence at the positions in keep, in their order.
Selected(s, keep) ==
    [k \in 1 .. Cardinality(keep) |-> s[CHOOSE i \in keep : Rank(keep, i) = k]]

\* The sum of the numbers at the positions in keep.
Total(s, keep) ==
    LET Sum[n \in 0 .. Len(s)] ==
            IF n = 0 THEN 0 ELSE Sum[n - 1] + (IF n \in keep THEN s[n] ELSE 0)
    IN Sum[Len(s)]
=============================================================================
