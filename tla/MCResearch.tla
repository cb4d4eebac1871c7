----------------------------- MODULE MCResearch -----------------------------
(* Claims for the runs of Research. *)
EXTENDS Research

MCClaim(id, standing, publisher, kind, age) ==
    [id |-> id, standing |-> standing, publisher |-> publisher, kind |-> kind, age |-> age]

\* One name is given twice, to a claim of use and to one without.
NamedAnew ==
    {MCClaim(1, "background", "icg", "structural", 8),
     MCClaim(1, "current", "reuters", "development", 1),
     MCClaim(2, "current", "icg", "structural", 2),
     MCClaim(3, "undated", "icg", "structural", 9),
     MCClaim(4, "background", "reuters", "development", 5),
     MCClaim(5, "refused", "blog", "development", 3)}

=============================================================================
