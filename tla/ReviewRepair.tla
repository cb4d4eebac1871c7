---------------------------- MODULE ReviewRepair ----------------------------
(***************************************************************************)
(* What validators.py finds wrong with a review, and what review_engine.py *)
(* makes of the model's second draft: a repair may correct what was found, *)
(* but the judgements of the first draft stay.  A draft is reduced to what *)
(* validation and the merge tell apart.  Of the codes that only name one   *)
(* more defect of the text or of a priority area, one each is kept; four   *)
(* strategic shifts are treated alike, so one is enough.  Nothing keeps a  *)
(* draft from giving two rows or two areas one name (contracts.py), so     *)
(* rows and areas are sequences.                                           *)
(***************************************************************************)
EXTENDS Integers, SequencesExt, Selections

CONSTANTS DriverId, ShiftId, AreaId

Status == {"aligned", "partially_aligned", "not_evidenced", "not_assessable"}

\* safe: all the evidence it cites exists, and for a strategic shift the registry entry
\* of the shift is cited; worded: its text holds a prohibited phrase.
Row(Id) == [id : Id, status : Status, safe : BOOLEAN, worded : BOOLEAN]

\* judgement: gap, sensitivity and target, fixed by the first draft; advice: something a
\* reader is told of and no repair is asked for.
Area ==
    [id : AreaId, judgement : {"first", "second"},
     evidence : {"known", "unknown", "unregistered"}, advice : BOOLEAN]

TextFlaw == {"raw_evidence_id_in_narrative", "prohibited_policy_language",
             "limited_mode_overclaim", "unknown_institutional_referral"}

ReviewDraft ==
    [drivers : Seq(Row(DriverId)), shift : Seq(Row(ShiftId)), areas : Seq(Area),
     summary : Seq(AreaId), text : SUBSET TextFlaw]

Ids(rows) == {rows[i].id : i \in DOMAIN rows}

\* The places of the rows that have the name of a row.
Matches(r, rows) == {i \in DOMAIN rows : rows[i].id = r.id}

Doubled(rows) == \E i \in DOMAIN rows : Matches(rows[i], rows) # {i}

Earliest(places) == CHOOSE i \in places : \A j \in places : i <= j

Latest(places) == CHOOSE i \in places : \A j \in places : j <= i

-----------------------------------------------------------------------------
\* validate_review and review_validation_issues. The advisory codes come in between the
\* others; they are told apart by their severity. A strategy row without its evidence
\* has one of two codes that the repair treats alike.
Issues(d, mode, incomplete) ==
    LET rows == ToSet(d.drivers) \union ToSet(d.shift)
        areas == ToSet(d.areas) IN
    (d.text \ (IF mode = "limited" THEN {} ELSE {"limited_mode_overclaim"}))
    \union {c \in {"prohibited_policy_language"} : \E r \in rows : r.worded}
    \union {c \in {"unknown_assessment_evidence"} : \E r \in ToSet(d.drivers) : ~r.safe}
    \union {c \in {"incomplete_strategy_assessment"} :
               Len(d.shift) # 1 \/ \E r \in ToSet(d.shift) : ~r.safe}
    \union {c \in {"incomplete_coverage_absence_claim"} :
               incomplete /\ \E r \in rows : r.status = "not_evidenced"}
    \union {c \in {"missing_rra_driver_assessment"} : mode = "rra" /\ d.drivers = <<>>}
    \union {c \in {"unknown_evidence"} : \E a \in areas : a.evidence = "unknown"}
    \union {c \in {"missing_registry_support"} : \E a \in areas : a.evidence = "unregistered"}
    \union {c \in {"unknown_priority_area"} :
               Doubled(d.areas) \/ d.summary # [i \in DOMAIN d.areas |-> d.areas[i].id]}
    \union {c \in {"missing_current_context_support"} : \E a \in areas : a.advice}

Advisory == {"missing_current_context_support", "stage_length_overreach"}

Fatal(issues) == issues \ Advisory

\* After one repair these are worth another.
Mechanical == {"raw_evidence_id_in_narrative", "stage_length_overreach",
               "prohibited_policy_language", "missing_registry_support"}

-----------------------------------------------------------------------------
\* A variant that takes every status for a repair of the coverage.
CoverageRepairsBlindly(o, r) == o.status = "not_evidenced" /\ r.id = o.id /\ r.safe

\* A row that found nothing where reading was incomplete may become weaker
\* (_is_coverage_status_repair and what its callers ask for besides).
CoverageRepairs(o, r) ==
    /\ o.status = "not_evidenced"
    /\ r.id = o.id /\ r.safe
    /\ r.status \in {"not_assessable", "partially_aligned"}

\* Where _normalize_coverage_repair_row does not give up.
Bears(supported, r) == r.status = "partially_aligned" => supported

\* The repaired row with the evidence of the original, none if it is not assessable.
Normalized(o, r) == [r EXCEPT !.safe = r.status = "not_assessable" \/ o.safe]

\* A variant that lets the second draft overrule every row.
MergedDriversSecondFirst(original, repaired, coverage, allowNew) ==
    Selected(repaired, {j \in DOMAIN repaired : repaired[j].safe})
    \o Selected(original, {i \in DOMAIN original :
                              original[i].safe /\ original[i].id \notin Ids(repaired)})

\* _merge_rra_assessments: the rows of the first draft with evidence, or made weaker by the
\* first row of the second draft that may; then the first of each name that is left.
MergedDrivers(original, repaired, coverage, allowNew) ==
    LET Repairs(i) == {j \in DOMAIN repaired : coverage /\ CoverageRepairs(original[i], repaired[j])}
        Repair(i)  == repaired[Earliest(Repairs(i))]
        Changed(i) == Repairs(i) # {} /\ Bears(original[i].safe, Repair(i))
        stays == {i \in DOMAIN original : original[i].safe \/ Changed(i)}
        lost  == {i \in DOMAIN original : coverage /\ original[i].status = "not_evidenced"}
        new   == {j \in DOMAIN repaired :
                     /\ repaired[j].safe
                     /\ repaired[j].id \notin {original[i].id : i \in stays \union lost}
                     /\ coverage /\ repaired[j].id \notin Ids(original) => allowNew}
    IN Selected([i \in DOMAIN original |->
                    IF Changed(i) THEN Normalized(original[i], Repair(i)) ELSE original[i]], stays)
       \o Selected(repaired, {j \in new : \A k \in new : repaired[k].id = repaired[j].id => j <= k})

Fallback == [id |-> "fallback", status |-> "not_assessable", safe |-> TRUE, worded |-> FALSE]

\* The first row with evidence, if there is one.
FirstSafe(rows) ==
    LET safe == {i \in DOMAIN rows : rows[i].safe}
    IN IF safe = {} THEN <<>> ELSE <<rows[Earliest(safe)]>>

OrElse(s, t) == IF s # <<>> THEN s ELSE t

\* The strategic shift's row in _normalize_repaired_assessments. The first row decides what
\* is repaired, and the first with evidence whether that may be.
MergedShift(original, repaired, coverage, allowMissing) ==
    LET first    == FirstSafe(original)
        second   == FirstSafe(repaired)
        mismatch == coverage /\ IF original = <<>> THEN ~allowMissing
                                ELSE second # <<>> /\ second[1].id # original[1].id
        repairs  == /\ second # <<>> /\ CoverageRepairs(original[1], second[1])
                    /\ Bears(first # <<>>, second[1])
    IN IF mismatch THEN OrElse(first, <<Fallback>>)
       ELSE IF coverage /\ original # <<>> /\ original[1].status = "not_evidenced"
       THEN IF repairs THEN <<Normalized(original[1], second[1])>>
            ELSE OrElse(first, <<Fallback>>)
       ELSE OrElse(first, OrElse(second, <<Fallback>>))

\* _clean_guardrail_fields: the text of a kept row may be replaced by a cleaner one, of the
\* last row of its name; in limited mode, where sole, only if the name is not doubled.
Cleaned(rows, repaired, sole) ==
    LET Cleaner(i) ==
            LET same == Matches(rows[i], repaired)
            IN /\ same # {} /\ ~repaired[Latest(same)].worded
               /\ sole => Matches(rows[i], rows) = {i} /\ \E j \in same : same = {j}
    IN [i \in DOMAIN rows |-> [rows[i] EXCEPT !.worded = rows[i].worded /\ ~Cleaner(i)]]

-----------------------------------------------------------------------------
EvidenceAfter(a, c, codes) ==
    IF a.evidence = "unknown" /\ "unknown_evidence" \in codes THEN c.evidence
    ELSE IF /\ a.evidence = "unregistered" /\ c.evidence # "unregistered"
            /\ "missing_registry_support" \in codes
    THEN "known" ELSE a.evidence

\* A variant that passes over the areas without one match in the second draft.
PreservedMatchedOnly(original, repaired, codes) ==
    Selected(original, {i \in DOMAIN original :
                           \E j \in DOMAIN repaired : Matches(original[i], repaired) = {j}})

\* _preserve_priority_coverage: no area is dropped, added or judged anew; what the second
\* draft drops or doubles stays as it was.
Preserved(original, repaired, codes) ==
    LET Preserve(a) ==
            LET same == Matches(a, repaired)
                c == repaired[Earliest(same)]
            IN IF \E j \in same : same = {j}
               THEN [c EXCEPT !.judgement = a.judgement, !.evidence = EvidenceAfter(a, c, codes)]
               ELSE a
    IN IF original = <<>> THEN repaired
       ELSE [i \in DOMAIN original |-> Preserve(original[i])]

\* Codes that leave everything else in the draft as it was.
NarrowCode == {"stage_length_overreach", "unknown_institutional_referral",
               "missing_registry_support"}

\* The draft a narrow repair starts from: the first one with the registry links that the
\* last area of the same name adds.
Narrowed(original, repaired, codes) ==
    LET Link(a) ==
            LET same == Matches(a, repaired.areas)
            IN IF same = {} THEN a
               ELSE [a EXCEPT !.evidence = EvidenceAfter(a, repaired.areas[Latest(same)], codes)]
    IN [original EXCEPT !.areas = [i \in DOMAIN @ |-> Link(@[i])]]

\* ReviewEngine.repair
RepairedDraft(original, answer, codes, mode) ==
    LET draft    == IF codes \subseteq NarrowCode THEN Narrowed(original, answer, codes) ELSE answer
        coverage == "incomplete_coverage_absence_claim" \in codes
        allowNew == coverage /\ "missing_rra_driver_assessment" \in codes
        merged   == MergedDrivers(original.drivers, draft.drivers, coverage, allowNew)
        overclaimed == mode = "limited" /\ "limited_mode_overclaim" \in codes
        drivers  == IF overclaimed /\ ~allowNew
                    THEN Selected(merged, {i \in DOMAIN merged :
                                              merged[i].id \in Ids(original.drivers)})
                    ELSE merged
        shift    == MergedShift(original.shift, draft.shift, coverage,
                                coverage /\ "incomplete_strategy_assessment" \in codes)
        cleaning == codes \intersect {"prohibited_policy_language", "limited_mode_overclaim"} # {}
    IN [drivers |-> IF cleaning THEN Cleaned(drivers, draft.drivers, overclaimed) ELSE drivers,
        shift   |-> IF cleaning THEN Cleaned(shift, draft.shift, overclaimed) ELSE shift,
        areas   |-> Preserved(original.areas, draft.areas, codes),
        summary |-> IF original.areas # <<>> /\ original.summary # <<>>
                       /\ "unknown_priority_area" \notin codes
                    THEN original.summary ELSE draft.summary,
        text    |-> draft.text \ (codes \intersect {"raw_evidence_id_in_narrative",
                                                    "unknown_institutional_referral"})]
=============================================================================
