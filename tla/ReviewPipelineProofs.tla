------------------------- MODULE ReviewPipelineProofs ------------------------
(***************************************************************************)
(* Theorems about ReviewPipeline, for every set of drafts and answers: the *)
(* merge of a repair keeps what the first draft found, and a run publishes *)
(* nothing that validation would stop.                                     *)
(***************************************************************************)
EXTENDS ReviewPipeline, IterationLemmas

-----------------------------------------------------------------------------
(***************************************************************************)
(* The merge of the rows.                                                  *)
(***************************************************************************)
\* A row of the first draft is still there, or has become weaker as a repair of the
\* coverage may make it.
Answered(o, q, coverage) ==
    /\ q.id = o.id
    /\ \/ q.status = o.status
       \/ /\ coverage /\ o.status = "not_evidenced"
          /\ q.status \in {"not_assessable", "partially_aligned"}

\* What a merge keeps of some rows of the first draft.
KeepsRows(rows, merged, coverage) ==
    /\ \A q \in ToSet(merged) : q.safe
    /\ \A o \in rows : o.safe => \E q \in ToSet(merged) : Answered(o, q, coverage)

LEMMA EarliestExists ==
    ASSUME NEW n \in Nat, NEW places \in SUBSET (1..n), places # {}
    PROVE  Earliest(places) \in places /\ \A j \in places : Earliest(places) <= j
  <1>1. places \in SUBSET Nat
    OBVIOUS
  <1>2. \E i \in places : \A j \in places : i <= j
    BY <1>1, LeastNumber
  <1> QED
    BY <1>2 DEF Earliest

LEMMA RowsOf ==
    ASSUME NEW T, NEW s \in Seq(T)
    PROVE  /\ \A i \in DOMAIN s : s[i] \in T /\ s[i] \in ToSet(s)
           /\ \A r \in ToSet(s) : r \in T /\ \E i \in DOMAIN s : s[i] = r
           /\ Len(s) \in Nat /\ DOMAIN s = 1..Len(s)
  BY DEF ToSet

LEMMA NormalizedRow ==
    ASSUME NEW I, NEW o \in Row(I), NEW r \in Row(I), CoverageRepairs(o, r)
    PROVE  /\ Normalized(o, r) \in Row(I)
           /\ Normalized(o, r).id = o.id
           /\ Normalized(o, r).status \in {"not_assessable", "partially_aligned"}
           /\ Bears(o.safe, r) => Normalized(o, r).safe
           /\ o.status = "not_evidenced"
  <1> DEFINE safe == r.status = "not_assessable" \/ o.safe
  <1>1. /\ r.id = o.id /\ r.status \in {"not_assessable", "partially_aligned"}
        /\ o.status = "not_evidenced"
    BY DEF CoverageRepairs
  <1>2. safe \in BOOLEAN /\ (Bears(o.safe, r) => safe)
    BY <1>1 DEF Row, Bears
  <1>3. Normalized(o, r) = [r EXCEPT !.safe = safe]
    BY DEF Normalized
  <1> HIDE DEF safe
  <1>4. /\ Normalized(o, r) \in Row(I) /\ Normalized(o, r).safe = safe
        /\ Normalized(o, r).id = r.id /\ Normalized(o, r).status = r.status
    BY <1>2, <1>3 DEF Row
  <1> QED
    BY <1>1, <1>2, <1>4

LEMMA DriversAreKept ==
    ASSUME NEW original \in Seq(Row(DriverId)), NEW repaired \in Seq(Row(DriverId)),
           NEW coverage \in BOOLEAN, NEW allowNew \in BOOLEAN
    PROVE  /\ MergedDrivers(original, repaired, coverage, allowNew) \in Seq(Row(DriverId))
           /\ KeepsRows(ToSet(original),
                        MergedDrivers(original, repaired, coverage, allowNew), coverage)
  <1> DEFINE Repairs(i) == {j \in DOMAIN repaired :
                              coverage /\ CoverageRepairs(original[i], repaired[j])}
             Second(i)  == repaired[Earliest(Repairs(i))]
             Changed(i) == Repairs(i) # {} /\ Bears(original[i].safe, Second(i))
             stays == {i \in DOMAIN original : original[i].safe \/ Changed(i)}
             lost  == {i \in DOMAIN original : coverage /\ original[i].status = "not_evidenced"}
             new   == {j \in DOMAIN repaired :
                          /\ repaired[j].safe
                          /\ repaired[j].id \notin {original[i].id : i \in stays \union lost}
                          /\ coverage /\ repaired[j].id \notin Ids(original) => allowNew}
             rows  == [i \in DOMAIN original |->
                         IF Changed(i) THEN Normalized(original[i], Second(i)) ELSE original[i]]
             firsts == {j \in new : \A k \in new : repaired[k].id = repaired[j].id => j <= k}
             kept  == Selected(rows, stays)
             added == Selected(repaired, firsts)
             Safe  == {r \in Row(DriverId) : r.safe}
  <1>1. MergedDrivers(original, repaired, coverage, allowNew) = kept \o added
    BY Zenon DEF MergedDrivers
  <1>2. /\ DOMAIN original = 1..Len(original) /\ DOMAIN repaired = 1..Len(repaired)
        /\ Len(original) \in Nat /\ Len(repaired) \in Nat
        /\ \A i \in DOMAIN original : original[i] \in Row(DriverId)
        /\ \A j \in DOMAIN repaired : repaired[j] \in Row(DriverId)
    BY RowsOf
  <1>3. ASSUME NEW i \in DOMAIN original, Changed(i)
        PROVE  /\ Normalized(original[i], Second(i)) \in Safe
               /\ Answered(original[i], Normalized(original[i], Second(i)), coverage)
    <2>1. Repairs(i) \in SUBSET (1..Len(repaired)) /\ Repairs(i) # {}
      BY <1>2, <1>3
    <2>2. PICK j \in Repairs(i) : j = Earliest(Repairs(i))
      <3> HIDE DEF Repairs
      <3> QED
        BY <1>2, <2>1, EarliestExists
    <2>3. /\ Second(i) = repaired[j] /\ repaired[j] \in Row(DriverId) /\ coverage
          /\ CoverageRepairs(original[i], repaired[j]) /\ Bears(original[i].safe, repaired[j])
          /\ original[i] \in Row(DriverId)
      BY <1>2, <1>3, <2>2
    <2> HIDE DEF Second
    <2> QED
      BY <2>3, NormalizedRow DEF Answered
  <1> HIDE DEF Changed, Second
  <1>4. \A i \in DOMAIN original : /\ i \in stays => rows[i] \in Safe
                                   /\ i \in stays => Answered(original[i], rows[i], coverage)
                                   /\ rows[i] \in Row(DriverId)
    BY <1>2, <1>3 DEF Answered
  <1>5. rows \in Seq(Row(DriverId)) /\ DOMAIN rows = DOMAIN original
    <2>1. DOMAIN rows = 1..Len(original)
      BY <1>2
    <2>2. rows \in [1..Len(original) -> Row(DriverId)]
      BY <1>2, <1>4
    <2> HIDE DEF rows
    <2> QED
      BY <1>2, <2>1, <2>2
  <1>6. stays \in SUBSET DOMAIN rows
    BY <1>5
  <1>7. firsts \in SUBSET DOMAIN repaired /\ \A j \in firsts : repaired[j] \in Safe
    BY <1>2
  <1>8. \A i \in DOMAIN original : original[i].safe => i \in stays
    OBVIOUS
  <1> HIDE DEF rows, stays, firsts
  <1>9. /\ kept \in Seq(Safe)
        /\ \A i \in stays : \E k \in DOMAIN kept : kept[k] = rows[i]
    <2>1. \A i \in stays : rows[i] \in Safe
      BY <1>4, <1>5, <1>6
    <2> HIDE DEF Safe
    <2> QED
      BY <1>5, <1>6, <2>1, SelectedElements
  <1>10. added \in Seq(Safe)
    <2> HIDE DEF Safe
    <2> QED
      BY <1>7, SelectedElements
  <1> HIDE DEF kept, added
  <1> DEFINE merged == kept \o added
  <1>11. /\ merged \in Seq(Safe)
         /\ \A k \in DOMAIN kept : k \in DOMAIN merged /\ merged[k] = kept[k]
    <2> HIDE DEF Safe
    <2> QED
      BY <1>9, <1>10
  <1> HIDE DEF merged
  <1>12. merged \in Seq(Row(DriverId)) /\ \A q \in ToSet(merged) : q.safe
    <2>1. \A q \in ToSet(merged) : q \in Safe
      BY <1>11, RowsOf
    <2>2. \A k \in DOMAIN merged : merged[k] \in Row(DriverId)
      BY <1>11, RowsOf
    <2> QED
      BY <1>11, <2>1, <2>2
  <1>13. ASSUME NEW o \in ToSet(original), o.safe
         PROVE  \E q \in ToSet(merged) : Answered(o, q, coverage)
    <2>1. PICK i \in DOMAIN original : original[i] = o
      BY RowsOf
    <2>2. i \in stays /\ Answered(o, rows[i], coverage)
      BY <1>4, <1>8, <1>13, <2>1
    <2>3. PICK k \in DOMAIN kept : kept[k] = rows[i]
      BY <1>9, <2>2
    <2>4. k \in DOMAIN merged /\ merged[k] = rows[i]
      BY <1>11, <2>3
    <2>5. rows[i] \in ToSet(merged)
      BY <2>4 DEF ToSet
    <2> QED
      BY <2>2, <2>5
  <1> QED
    BY <1>1, <1>12, <1>13 DEF KeepsRows, merged

LEMMA FallbackIsRow == "fallback" \in ShiftId => Fallback \in Row(ShiftId) /\ Fallback.safe
  BY DEF Fallback, Row, Status

\* The first row with evidence, or none.
LEMMA FirstSafeIsFirst ==
    ASSUME NEW I, NEW rows \in Seq(Row(I))
    PROVE  \/ FirstSafe(rows) = <<>>
           \/ \E i \in DOMAIN rows :
                /\ FirstSafe(rows) = <<rows[i]>> /\ rows[i] \in Row(I) /\ rows[i].safe
                /\ rows[1].safe => i = 1
  <1> DEFINE safe == {i \in DOMAIN rows : rows[i].safe}
  <1>1. /\ DOMAIN rows = 1..Len(rows) /\ Len(rows) \in Nat
        /\ \A i \in DOMAIN rows : rows[i] \in Row(I)
    BY RowsOf
  <1>2. CASE safe = {}
    BY <1>2 DEF FirstSafe
  <1>3. CASE safe # {}
    <2>1. safe \in SUBSET (1..Len(rows)) /\ \A i \in safe : rows[i].safe
      BY <1>1
    <2>2. rows[1].safe => 1 \in safe
      BY <1>1, <1>3
    <2>3. FirstSafe(rows) = <<rows[Earliest(safe)]>>
      BY <1>3 DEF FirstSafe
    <2> HIDE DEF safe
    <2>4. Earliest(safe) \in safe /\ \A j \in safe : Earliest(safe) <= j
      BY <1>1, <1>3, <2>1, EarliestExists
    <2>5. ASSUME rows[1].safe PROVE Earliest(safe) = 1
      <3>1. Earliest(safe) <= 1 /\ Earliest(safe) \in 1..Len(rows)
        BY <2>1, <2>2, <2>4, <2>5
      <3> QED
        BY <1>1, <3>1
    <2> QED
      BY <1>1, <2>1, <2>3, <2>4, <2>5
  <1> QED
    BY <1>2, <1>3

\* The case in which the first row of a doubled shift decides about the evidence of another.
Misled(rows, coverage) ==
    /\ coverage /\ rows # <<>> /\ rows[1].status = "not_evidenced"
    /\ ~rows[1].safe /\ FirstSafe(rows) # <<>>

LEMMA ShiftIsKept ==
    ASSUME NEW original \in Seq(Row(ShiftId)), NEW repaired \in Seq(Row(ShiftId)),
           NEW coverage \in BOOLEAN, NEW allowMissing \in BOOLEAN, "fallback" \in ShiftId
    PROVE  LET merged == MergedShift(original, repaired, coverage, allowMissing)
           IN  /\ merged \in Seq(Row(ShiftId))
               /\ ~Misled(original, coverage) =>
                    KeepsRows(ToSet(FirstSafe(original)), merged, coverage)
  <1> DEFINE merged   == MergedShift(original, repaired, coverage, allowMissing)
             first    == FirstSafe(original)
             second   == FirstSafe(repaired)
             mismatch == coverage /\ IF original = <<>> THEN ~allowMissing
                                     ELSE second # <<>> /\ second[1].id # original[1].id
             repairs  == /\ second # <<>> /\ CoverageRepairs(original[1], second[1])
                         /\ Bears(first # <<>>, second[1])
             weaker   == Normalized(original[1], second[1])
             decides  == coverage /\ original # <<>> /\ original[1].status = "not_evidenced"
             Fits(s)  == /\ s \in Seq(Row(ShiftId))
                         /\ KeepsRows(ToSet(first), s, coverage)
  <1>1. merged = IF mismatch THEN OrElse(first, <<Fallback>>)
                 ELSE IF decides
                 THEN IF repairs THEN <<weaker>> ELSE OrElse(first, <<Fallback>>)
                 ELSE OrElse(first, OrElse(second, <<Fallback>>))
    BY Zenon DEF MergedShift
  <1>2. \A r \in Row(ShiftId) : <<r>> \in Seq(Row(ShiftId)) /\ ToSet(<<r>>) = {r}
    BY DEF ToSet
  <1>3. ToSet(<<>>) = {}
    BY DEF ToSet
  <1>4. Fallback \in Row(ShiftId) /\ Fallback.safe
    BY FallbackIsRow
  <1>5. \A o : Answered(o, o, coverage)
    BY DEF Answered
  <1>6. first = <<>> \/ \E r \in Row(ShiftId) : first = <<r>> /\ r.safe
    BY FirstSafeIsFirst
  <1>7. second = <<>> \/ \E r \in Row(ShiftId) : second = <<r>> /\ r.safe
    BY FirstSafeIsFirst
  <1>8. Fits(OrElse(first, <<Fallback>>)) /\ Fits(OrElse(first, OrElse(second, <<Fallback>>)))
    <2>1. CASE first = <<>>
      BY <1>2, <1>3, <1>4, <1>7, <2>1 DEF OrElse, KeepsRows
    <2>2. CASE first # <<>>
      BY <1>2, <1>5, <1>6, <2>2 DEF OrElse, KeepsRows
    <2> QED
      BY <2>1, <2>2
  <1>9. ASSUME decides, repairs
        PROVE  /\ <<weaker>> \in Seq(Row(ShiftId))
               /\ ~Misled(original, coverage) => Fits(<<weaker>>)
    <2>1. original[1] \in Row(ShiftId)
      BY <1>9
    <2>2. PICK r \in Row(ShiftId) : second = <<r>>
      BY <1>7, <1>9
    <2>3. /\ second[1] = r /\ CoverageRepairs(original[1], r) /\ Bears(first # <<>>, r)
          /\ weaker = Normalized(original[1], r)
      BY <1>9, <2>2
    <2>4. /\ weaker \in Row(ShiftId) /\ weaker.id = original[1].id
          /\ weaker.status \in {"not_assessable", "partially_aligned"}
          /\ Bears(original[1].safe, r) => weaker.safe
      <3> HIDE DEF weaker, first, second
      <3> QED
        BY <2>1, <2>3, NormalizedRow
    <2>5. Answered(original[1], weaker, coverage)
      BY <1>9, <2>4 DEF Answered
    <2> HIDE DEF weaker, second
    <2>6. ASSUME ~Misled(original, coverage) PROVE Fits(<<weaker>>)
      <3>1. original[1].safe \/ first = <<>>
        BY <1>9, <2>6 DEF Misled
      <3>2. CASE first = <<>>
        <4>1. Bears(original[1].safe, r)
          BY <2>3, <3>2 DEF Bears
        <4> QED
          BY <1>2, <1>3, <2>4, <3>2, <4>1 DEF KeepsRows
      <3>3. CASE original[1].safe
        <4>1. Bears(original[1].safe, r)
          BY <3>3 DEF Bears
        <4>2. first = <<original[1]>> \/ first = <<>>
          BY <3>3, FirstSafeIsFirst
        <4>3. \A o \in ToSet(first) : o = original[1]
          BY <1>2, <1>3, <2>1, <4>2
        <4> HIDE DEF first
        <4> QED
          BY <1>2, <2>4, <2>5, <4>1, <4>3 DEF KeepsRows
      <3> QED
        BY <3>1, <3>2, <3>3
    <2> QED
      BY <1>2, <2>4, <2>6
  <1> HIDE DEF mismatch, repairs, weaker, decides, first, second, merged
  <1>10. merged \in Seq(Row(ShiftId)) /\ (~Misled(original, coverage) => Fits(merged))
    BY <1>1, <1>8, <1>9
  <1> QED
    BY <1>10 DEF merged, first

\* Cleaner text does not change what a row says.
LEMMA CleanedRows ==
    ASSUME NEW I, NEW rows \in Seq(Row(I)), NEW repaired, NEW sole
    PROVE  /\ Cleaned(rows, repaired, sole) \in Seq(Row(I))
           /\ \A olds, coverage :
                 KeepsRows(olds, rows, coverage) =>
                    KeepsRows(olds, Cleaned(rows, repaired, sole), coverage)
  <1> DEFINE Cleaner(i) ==
                 LET same == Matches(rows[i], repaired)
                 IN /\ same # {} /\ ~repaired[Latest(same)].worded
                    /\ sole => Matches(rows[i], rows) = {i} /\ \E j \in same : same = {j}
             after == [i \in DOMAIN rows |->
                          [rows[i] EXCEPT !.worded = rows[i].worded /\ ~Cleaner(i)]]
  <1>1. Cleaned(rows, repaired, sole) = after
    BY Zenon DEF Cleaned
  <1>2. /\ DOMAIN rows = 1..Len(rows) /\ Len(rows) \in Nat
        /\ \A i \in DOMAIN rows : rows[i] \in Row(I)
    BY RowsOf
  <1> HIDE DEF Cleaner
  <1>3. ASSUME NEW i \in DOMAIN rows
        PROVE  /\ after[i] \in Row(I) /\ after[i].id = rows[i].id
               /\ after[i].status = rows[i].status /\ after[i].safe = rows[i].safe
    <2> DEFINE w == rows[i].worded /\ ~Cleaner(i)
    <2>1. w \in BOOLEAN /\ after[i] = [rows[i] EXCEPT !.worded = w] /\ rows[i] \in Row(I)
      BY <1>2
    <2> HIDE DEF w, after
    <2> QED
      BY <2>1 DEF Row
  <1>4. DOMAIN after = DOMAIN rows
    OBVIOUS
  <1> HIDE DEF after
  <1>5. after \in Seq(Row(I))
    <2>1. after \in [1..Len(rows) -> Row(I)]
      <3>1. after = [i \in 1..Len(rows) |-> after[i]]
        BY <1>2, <1>4 DEF after
      <3> QED
        BY <1>2, <1>3, <3>1
    <2> QED
      BY <1>2, <2>1
  <1>6. ASSUME NEW olds, NEW coverage, KeepsRows(olds, rows, coverage)
        PROVE  KeepsRows(olds, after, coverage)
    <2>1. \A q \in ToSet(after) : q.safe
      BY <1>3, <1>4, <1>6 DEF KeepsRows, ToSet
    <2>2. ASSUME NEW o \in olds, o.safe
          PROVE  \E q \in ToSet(after) : Answered(o, q, coverage)
      <3>1. PICK i \in DOMAIN rows : Answered(o, rows[i], coverage)
        BY <1>6, <2>2 DEF KeepsRows, ToSet
      <3>2. Answered(o, after[i], coverage)
        BY <1>3, <3>1 DEF Answered
      <3>3. after[i] \in ToSet(after)
        BY <1>4 DEF ToSet
      <3> QED
        BY <3>2, <3>3
    <2> QED
      BY <2>1, <2>2 DEF KeepsRows
  <1> QED
    BY <1>1, <1>5, <1>6

-----------------------------------------------------------------------------
(***************************************************************************)
(* The merge of the priority areas.                                        *)
(***************************************************************************)
\* Each area stays in its place, judged as before, and loses no good source.
KeepsAreas(original, areas) ==
    original # <<>> =>
        /\ DOMAIN areas = DOMAIN original
        /\ \A i \in DOMAIN original :
             /\ areas[i].id = original[i].id /\ areas[i].judgement = original[i].judgement
             /\ original[i].evidence = "known" => areas[i].evidence = "known"

LEMMA EvidenceKept ==
    ASSUME NEW a \in Area, NEW c \in Area, NEW codes
    PROVE  /\ EvidenceAfter(a, c, codes) \in {"known", "unknown", "unregistered"}
           /\ a.evidence = "known" => EvidenceAfter(a, c, codes) = "known"
  BY DEF EvidenceAfter, Area

LEMMA AreasAreKept ==
    ASSUME NEW original \in Seq(Area), NEW repaired \in Seq(Area), NEW codes
    PROVE  /\ Preserved(original, repaired, codes) \in Seq(Area)
           /\ KeepsAreas(original, Preserved(original, repaired, codes))
  <1>1. CASE original = <<>>
    BY <1>1 DEF Preserved, KeepsAreas
  <1>2. CASE original # <<>>
    <2> DEFINE Preserve(a) ==
                   LET same == Matches(a, repaired)
                       c == repaired[Earliest(same)]
                   IN IF \E j \in same : same = {j}
                      THEN [c EXCEPT !.judgement = a.judgement,
                                     !.evidence = EvidenceAfter(a, c, codes)]
                      ELSE a
               after == [i \in DOMAIN original |-> Preserve(original[i])]
    <2>1. Preserved(original, repaired, codes) = after
      BY <1>2, Zenon DEF Preserved
    <2>2. ASSUME NEW a \in Area
          PROVE  /\ Preserve(a) \in Area /\ Preserve(a).id = a.id
                 /\ Preserve(a).judgement = a.judgement
                 /\ a.evidence = "known" => Preserve(a).evidence = "known"
      <3> DEFINE same == Matches(a, repaired)
      <3>1. CASE ~\E j \in same : same = {j}
        BY <2>2, <3>1
      <3>2. CASE \E j \in same : same = {j}
        <4>1. PICK j \in same : same = {j}
          BY <3>2
        <4> DEFINE c == repaired[j]
                   e == EvidenceAfter(a, c, codes)
        <4>2. j \in DOMAIN repaired /\ c.id = a.id /\ c \in Area
          BY DEF Matches
        <4>3. j <= j
          BY <4>2
        <4>4. Earliest(same) = j
          <5> HIDE DEF same
          <5> QED
            BY <4>1, <4>3 DEF Earliest
        <4>5. Preserve(a) = [c EXCEPT !.judgement = a.judgement, !.evidence = e]
          BY <3>2, <4>4
        <4>6. /\ e \in {"known", "unknown", "unregistered"}
              /\ a.evidence = "known" => e = "known"
          BY <4>2, EvidenceKept
        <4>7. c \in Area /\ a \in Area
          BY <2>2, <4>2
        <4>10. c.id = a.id
          BY <4>2
        <4> HIDE DEF e, c, Preserve
        <4>8. /\ Preserve(a) \in Area /\ Preserve(a).id = c.id
              /\ Preserve(a).judgement = a.judgement /\ Preserve(a).evidence = e
          BY <4>5, <4>6, <4>7, Zenon DEF Area
        <4> QED
          BY <4>6, <4>8, <4>10
      <3> QED
        BY <3>1, <3>2
    <2> HIDE DEF Preserve
    <2>3. /\ DOMAIN original = 1..Len(original) /\ Len(original) \in Nat
          /\ \A i \in DOMAIN original : original[i] \in Area
      BY RowsOf
    <2>4. after \in Seq(Area)
      <3>1. after \in [1..Len(original) -> Area]
        BY <2>2, <2>3
      <3> HIDE DEF after
      <3> QED
        BY <2>3, <3>1
    <2>5. KeepsAreas(original, after)
      BY <2>2, <2>3 DEF KeepsAreas
    <2> QED
      BY <2>1, <2>4, <2>5
  <1> QED
    BY <1>1, <1>2

LEMMA NarrowedIsDraft ==
    ASSUME NEW original \in ReviewDraft, NEW answer \in ReviewDraft, NEW codes,
           codes \subseteq NarrowCode
    PROVE  Narrowed(original, answer, codes) \in ReviewDraft
  <1> DEFINE Link(a) ==
                 LET same == Matches(a, answer.areas)
                 IN IF same = {} THEN a
                    ELSE [a EXCEPT !.evidence =
                             EvidenceAfter(a, answer.areas[Latest(same)], codes)]
             areas == [i \in DOMAIN original.areas |-> Link(original.areas[i])]
  <1>1. Narrowed(original, answer, codes) = [original EXCEPT !.areas = areas]
    BY DEF Narrowed
  <1>2. ASSUME NEW a \in Area PROVE Link(a) \in Area
    <2> DEFINE e == EvidenceAfter(a, answer.areas[Latest(Matches(a, answer.areas))], codes)
    <2>1. "unknown_evidence" \notin codes
      BY DEF NarrowCode
    <2>2. e \in {"known", "unknown", "unregistered"}
      BY <1>2, <2>1 DEF EvidenceAfter, Area
    <2>3. Link(a) = a \/ Link(a) = [a EXCEPT !.evidence = e]
      OBVIOUS
    <2> HIDE DEF e, Link
    <2> QED
      BY <1>2, <2>2, <2>3 DEF Area
  <1>3. original.areas \in Seq(Area)
    BY DEF ReviewDraft
  <1>4. areas \in [1..Len(original.areas) -> Area]
    <2> HIDE DEF Link
    <2> QED
      BY <1>2, <1>3
  <1>5. areas \in Seq(Area)
    <2> HIDE DEF areas
    <2> QED
      BY <1>3, <1>4
  <1> HIDE DEF areas
  <1> QED
    BY <1>1, <1>5 DEF ReviewDraft

-----------------------------------------------------------------------------
(***************************************************************************)
(* A whole repair.                                                         *)
(***************************************************************************)
\* A draft the state of a run may hold.
Sound(d) == d \in ReviewDraft

LEMMA RepairKeeps ==
    ASSUME NEW original, Sound(original), NEW answer, Sound(answer), NEW codes, NEW how,
           "fallback" \in ShiftId
    PROVE  LET after    == RepairedDraft(original, answer, codes, how)
               coverage == "incomplete_coverage_absence_claim" \in codes
           IN  /\ Sound(after)
               /\ KeepsRows(ToSet(original.drivers), after.drivers, coverage)
               /\ ~Misled(original.shift, coverage) =>
                    KeepsRows(ToSet(FirstSafe(original.shift)), after.shift, coverage)
               /\ KeepsAreas(original.areas, after.areas)
  <1> DEFINE after    == RepairedDraft(original, answer, codes, how)
             coverage == "incomplete_coverage_absence_claim" \in codes
             draft    == IF codes \subseteq NarrowCode THEN Narrowed(original, answer, codes)
                         ELSE answer
             allowNew == coverage /\ "missing_rra_driver_assessment" \in codes
             merged   == MergedDrivers(original.drivers, draft.drivers, coverage, allowNew)
             overclaimed == how = "limited" /\ "limited_mode_overclaim" \in codes
             old      == {i \in DOMAIN merged : merged[i].id \in Ids(original.drivers)}
             drivers  == IF overclaimed /\ ~allowNew THEN Selected(merged, old) ELSE merged
             missing  == coverage /\ "incomplete_strategy_assessment" \in codes
             shift    == MergedShift(original.shift, draft.shift, coverage, missing)
             cleaning == codes \intersect {"prohibited_policy_language", "limited_mode_overclaim"}
                            # {}
             summary  == IF original.areas # <<>> /\ original.summary # <<>>
                            /\ "unknown_priority_area" \notin codes
                         THEN original.summary ELSE draft.summary
             text     == draft.text \ (codes \intersect {"raw_evidence_id_in_narrative",
                                                         "unknown_institutional_referral"})
             drivers2 == IF cleaning THEN Cleaned(drivers, draft.drivers, overclaimed) ELSE drivers
             shift2   == IF cleaning THEN Cleaned(shift, draft.shift, overclaimed) ELSE shift
             areas    == Preserved(original.areas, draft.areas, codes)
             found    == ToSet(FirstSafe(original.shift))
             misled   == Misled(original.shift, coverage)
  <1>1. after = [drivers |-> drivers2, shift |-> shift2, areas |-> areas, summary |-> summary,
                 text |-> text]
    BY Zenon DEF RepairedDraft
  <1>2. original \in ReviewDraft /\ answer \in ReviewDraft
    BY DEF Sound
  <1>3. draft \in ReviewDraft
    BY <1>2, NarrowedIsDraft
  <1> HIDE DEF draft
  <1>4. /\ original.drivers \in Seq(Row(DriverId)) /\ draft.drivers \in Seq(Row(DriverId))
        /\ original.shift \in Seq(Row(ShiftId)) /\ draft.shift \in Seq(Row(ShiftId))
        /\ original.areas \in Seq(Area) /\ draft.areas \in Seq(Area)
        /\ original.summary \in Seq(AreaId) /\ draft.summary \in Seq(AreaId)
        /\ draft.text \in SUBSET TextFlaw
    BY <1>2, <1>3 DEF ReviewDraft
  <1>5. coverage \in BOOLEAN /\ allowNew \in BOOLEAN /\ missing \in BOOLEAN
    OBVIOUS
  <1> HIDE DEF coverage, allowNew, missing
  <1>6. /\ merged \in Seq(Row(DriverId))
        /\ KeepsRows(ToSet(original.drivers), merged, coverage)
    BY <1>4, <1>5, DriversAreKept
  <1> HIDE DEF merged
  <1>7. /\ drivers \in Seq(Row(DriverId))
        /\ KeepsRows(ToSet(original.drivers), drivers, coverage)
    <2> DEFINE only == Selected(merged, old)
               Safe == {r \in Row(DriverId) : r.safe}
    <2>1. /\ old \in SUBSET DOMAIN merged
          /\ \A i \in DOMAIN merged : merged[i] \in Row(DriverId) /\ merged[i] \in ToSet(merged)
      BY <1>6, RowsOf
    <2>2. \A i \in old : merged[i] \in Safe
      BY <1>6, <2>1 DEF KeepsRows
    <2>3. /\ only \in Seq(Safe)
          /\ \A i \in old : \E k \in DOMAIN only : only[k] = merged[i]
      <3> HIDE DEF Safe, old
      <3> QED
        BY <1>6, <2>1, <2>2, SelectedElements
    <2>4. ASSUME NEW o \in ToSet(original.drivers), o.safe
          PROVE  \E q \in ToSet(only) : Answered(o, q, coverage)
      <3>1. PICK q \in ToSet(merged) : Answered(o, q, coverage)
        BY <1>6, <2>4 DEF KeepsRows
      <3>2. PICK i \in DOMAIN merged : merged[i] = q
        BY <3>1 DEF ToSet
      <3>3. o.id \in Ids(original.drivers)
        BY DEF Ids, ToSet
      <3>4. i \in old
        BY <3>1, <3>2, <3>3 DEF Answered
      <3>5. PICK k \in DOMAIN only : only[k] = q
        BY <2>3, <3>2, <3>4
      <3>6. q \in ToSet(only)
        BY <3>5 DEF ToSet
      <3> QED
        BY <3>1, <3>6
    <2> HIDE DEF only
    <2>5. only \in Seq(Row(DriverId)) /\ \A q \in ToSet(only) : q.safe
      <3>1. \A k \in DOMAIN only : only[k] \in Row(DriverId) /\ only[k].safe
        BY <2>3, RowsOf
      <3>2. \A q \in ToSet(only) : q.safe
        BY <3>1 DEF ToSet
      <3> QED
        BY <2>3, <3>1, <3>2
    <2>6. KeepsRows(ToSet(original.drivers), only, coverage)
      BY <2>4, <2>5 DEF KeepsRows
    <2>7. drivers = only \/ drivers = merged
      BY DEF only
    <2> HIDE DEF drivers
    <2> QED
      BY <1>6, <2>5, <2>6, <2>7
  <1> HIDE DEF drivers
  <1>8. /\ shift \in Seq(Row(ShiftId))
        /\ ~misled => KeepsRows(found, shift, coverage)
    BY <1>4, <1>5, ShiftIsKept
  <1> HIDE DEF shift, found, misled
  <1>9. /\ drivers2 \in Seq(Row(DriverId))
        /\ KeepsRows(ToSet(original.drivers), drivers2, coverage)
    BY <1>7, CleanedRows
  <1>10. /\ shift2 \in Seq(Row(ShiftId)) /\ (~misled => KeepsRows(found, shift2, coverage))
    BY <1>8, CleanedRows
  <1>11. areas \in Seq(Area) /\ KeepsAreas(original.areas, areas)
    BY <1>4, AreasAreKept
  <1>12. summary \in Seq(AreaId) /\ text \in SUBSET TextFlaw
    BY <1>4
  <1> HIDE DEF drivers2, shift2, areas, summary, text
  <1>13. /\ after \in ReviewDraft /\ after.drivers = drivers2 /\ after.shift = shift2
         /\ after.areas = areas
    BY <1>1, <1>9, <1>10, <1>11, <1>12 DEF ReviewDraft
  <1> HIDE DEF after
  <1>14. /\ Sound(after)
         /\ KeepsRows(ToSet(original.drivers), after.drivers, coverage)
         /\ ~misled => KeepsRows(found, after.shift, coverage)
         /\ KeepsAreas(original.areas, after.areas)
    BY <1>9, <1>10, <1>11, <1>13 DEF Sound
  <1> QED
    BY <1>14 DEF after, coverage, found, misled

-----------------------------------------------------------------------------
(***************************************************************************)
(* The invariant of a run.                                                 *)
(***************************************************************************)
Before == {"extract", "research", "readout", "build_evidence", "map", "map_retry", "review",
           "review_retry"}

Repairing == {"repair", "repair_again", "check"}

\* From the review on there is a draft, its caveats are those that are due, the issues are
\* those of this draft, and only a draft without a fatal one is rendered.
PipelineInv ==
    /\ pc \in Working \union {"done", "failed"}
    /\ pc \in Before \union {"failed"} => result = NoReview
    /\ pc \in {"validate", "render", "done"} \union Repairing => Sound(result) /\ caveats = Due
    /\ pc \in Repairing => issues = Issues(result, mode, incomplete)
    /\ pc \in {"render", "done"} => Fatal(Issues(result, mode, incomplete)) = {}

LEMMA DraftsAreSound ==
    /\ \A d \in Draft \union Answer : Sound(d) /\ d # NoReview
    /\ \A d : Sound(d) => d # NoReview
    /\ "fallback" \in ShiftId
  BY PipelineAssumption DEF Sound

\* What one call of repair_once makes of the draft.
RepairedWell ==
    /\ Sound(result')
    /\ KeepsRows(ToSet(result.drivers), result'.drivers, incomplete)
    /\ ~ShiftMisled => KeepsRows(ToSet(FirstSafe(result.shift)), result'.shift, incomplete)
    /\ KeepsAreas(result.areas, result'.areas)
    /\ caveats' = Due' /\ issues' = Issues(result, mode, incomplete)'

LEMMA RepairOnceLemma ==
    ASSUME PipelineInv, pc \in Repairing, NEW answer \in Answer, RepairOnce(answer)
    PROVE  RepairedWell
  <1> DEFINE codes == Fatal(issues)
             coverage == "incomplete_coverage_absence_claim" \in codes
             found == ToSet(FirstSafe(result.shift))
  <1>1. Sound(result) /\ Sound(answer) /\ issues = Issues(result, mode, incomplete)
        /\ "fallback" \in ShiftId
    BY DraftsAreSound DEF PipelineInv, Repairing
  <1>2. coverage => incomplete
    BY <1>1 DEF Fatal, Issues, TextFlaw, Sound, ReviewDraft
  <1>3. result' = RepairedDraft(result, answer, codes, mode)
    BY DEF RepairOnce
  <1> HIDE DEF codes
  <1>4. /\ Sound(result')
        /\ KeepsRows(ToSet(result.drivers), result'.drivers, coverage)
        /\ ~Misled(result.shift, coverage) => KeepsRows(found, result'.shift, coverage)
        /\ KeepsAreas(result.areas, result'.areas)
    BY <1>1, <1>3, RepairKeeps
  <1>5. ~ShiftMisled => ~Misled(result.shift, coverage)
    BY <1>2 DEF ShiftMisled, Misled
  <1> HIDE DEF found, coverage
  <1>6. \A rows, after : KeepsRows(rows, after, coverage) => KeepsRows(rows, after, incomplete)
    BY <1>2 DEF KeepsRows, Answered, coverage
  <1>7. caveats' = Due' /\ issues' = Issues(result, mode, incomplete)'
    BY DEF RepairOnce, Due
  <1> QED
    BY <1>4, <1>5, <1>6, <1>7 DEF RepairedWell, found

LEMMA RepairStepLemma ==
    ASSUME PipelineInv, Repair \/ RepairAgain
    PROVE  RepairedWell /\ pc' \in Repairing
  <1>1. /\ pc \in Repairing /\ pc' \in Repairing
        /\ \E answer \in Answer : RepairOnce(answer)
    BY DEF Repair, RepairAgain, Repairing
  <1> QED
    BY <1>1, RepairOnceLemma

LEMMA PipelineInitLemma == PipelineInit => PipelineInv
  BY DEF PipelineInit, PipelineInv, Working, Before, Repairing

LEMMA PipelineNextLemma == PipelineInv /\ [PipelineNext]_pipelineVars => PipelineInv'
  <1> SUFFICES ASSUME PipelineInv, [PipelineNext]_pipelineVars PROVE PipelineInv'
    OBVIOUS
  <1> USE DEF Before, Repairing
  <1>1. CASE StepRaises
    BY <1>1 DEF StepRaises, PipelineInv, Working
  <1>2. CASE Extract \/ Research \/ Readout \/ BuildEvidence \/ Map \/ MapRetry
    <2>1. /\ pc \in Before /\ pc' \in Before /\ result' = result
      BY <1>2 DEF Extract, Research, Readout, BuildEvidence, Map, MapRetry, Mapped
    <2> QED
      BY <2>1 DEF PipelineInv, Working
  <1>3. CASE Review \/ ReviewRetry
    <2>1. CASE result' \in Draft /\ caveats' = Due /\ pc' = "validate"
      <3>1. Due' = Due
        BY <1>3 DEF Due, Review, ReviewRetry
      <3>2. Sound(result')
        BY <2>1, DraftsAreSound
      <3> QED
        BY <2>1, <3>1, <3>2 DEF PipelineInv, Working
    <2>2. CASE pc \in Before /\ pc' = "review_retry" /\ result' = result
      BY <2>2 DEF PipelineInv, Working
    <2> QED
      BY <1>3, <2>1, <2>2 DEF Review, ReviewRetry
  <1>4. CASE Validate
    <2>1. /\ pc = "validate" /\ issues' = Issues(result, mode, incomplete)
          /\ pc' = IF Fatal(issues') = {} THEN "render" ELSE "repair"
          /\ UNCHANGED <<tier, uploaded, mode, readout, incomplete, result, caveats>>
      BY <1>4 DEF Validate
    <2>2. Sound(result') /\ caveats' = Due' /\ issues' = Issues(result, mode, incomplete)'
      BY <2>1 DEF PipelineInv, Due
    <2> QED
      BY <2>1, <2>2 DEF PipelineInv, Working
  <1>5. CASE Repair \/ RepairAgain
    BY <1>5, RepairStepLemma DEF RepairedWell, PipelineInv, Working
  <1>6. CASE Check
    <2>1. CASE Fatal(issues) = {}
      <3>1. /\ pc = "check" /\ pc' = "render"
            /\ UNCHANGED <<tier, uploaded, mode, readout, incomplete, result, caveats, issues>>
        BY <1>6, <2>1 DEF Check
      <3> QED
        BY <2>1, <3>1 DEF PipelineInv, Working, Due
    <2>2. CASE Fatal(issues) # {}
      BY <1>6, <2>2 DEF Check, PipelineInv, Working
    <2> QED
      BY <2>1, <2>2
  <1>7. CASE Render
    <2>1. /\ pc = "render" /\ pc' = "done"
          /\ UNCHANGED <<tier, uploaded, mode, readout, incomplete, result, caveats, issues>>
      BY <1>7 DEF Render
    <2> QED
      BY <2>1 DEF PipelineInv, Working, Due
  <1>8. CASE UNCHANGED pipelineVars
    BY <1>8 DEF pipelineVars, PipelineInv, Due
  <1> QED
    BY <1>1, <1>2, <1>3, <1>4, <1>5, <1>6, <1>7, <1>8 DEF PipelineNext, RunStep

THEOREM PipelineInvHolds == PipelineSpec => []PipelineInv
  BY PipelineInitLemma, PipelineNextLemma, PTL DEF PipelineSpec

\* The steps after which a draft was there before and is there still.
LEMMA DraftSteps ==
    ASSUME PipelineInv, [PipelineNext]_pipelineVars, RepairStep
    PROVE  (result' = result /\ Sound(result)) \/ RepairedWell
  <1>1. pc \in {"validate", "render", "done"} \union Repairing /\ Sound(result)
    BY DEF RepairStep, PipelineInv, Before, Repairing, Working
  <1>2. CASE Repair \/ RepairAgain
    BY <1>2, RepairStepLemma
  <1>3. CASE StepRaises
    BY <1>3 DEF StepRaises, RepairStep
  <1>4. CASE Check
    BY <1>1, <1>4 DEF Check, RepairStep
  <1>5. CASE Validate \/ Render \/ UNCHANGED pipelineVars
    BY <1>1, <1>5 DEF Validate, Render, pipelineVars
  <1> QED
    BY <1>1, <1>2, <1>3, <1>4, <1>5
       DEF PipelineNext, RunStep, Extract, Research, Readout, BuildEvidence, Map, MapRetry,
           Review, ReviewRetry, Repairing

-----------------------------------------------------------------------------
(***************************************************************************)
(* The theorems.                                                           *)
(***************************************************************************)
\* Whatever the model writes and however it repairs it, what is published passes the
\* validation as it stands.
THEOREM CleanIsPublished == PipelineSpec => []PublishedIsClean
  <1>1. PipelineInv => PublishedIsClean
    BY DEF PipelineInv, PublishedIsClean
  <1> QED
    BY <1>1, PipelineInvHolds, PTL

\* The limitations the application owns are those the published review states.
THEOREM CaveatsAreTold == PipelineSpec => []CaveatsSurvive
  <1>1. PipelineInv => CaveatsSurvive
    BY DEF PipelineInv, CaveatsSurvive
  <1> QED
    BY <1>1, PipelineInvHolds, PTL

\* No repair drops, adds or judges anew an area of the first draft, doubled or not, and none
\* drops or reverses what the first draft found with evidence.
THEOREM FindingsAreKept == PipelineSpec => FindingsSurvive
  <1>1. PipelineInv /\ [PipelineNext]_pipelineVars =>
           [RepairStep => PrioritiesSurvive /\ JudgementsSurvive]_pipelineVars
    <2> SUFFICES ASSUME PipelineInv, [PipelineNext]_pipelineVars, RepairStep
                 PROVE  PrioritiesSurvive /\ JudgementsSurvive
      OBVIOUS
    <2>1. CASE result' = result /\ Sound(result)
      <3>1. PrioritiesSurvive
        BY <2>1 DEF PrioritiesSurvive
      <3>2. \A r : Becomes(r, r)
        BY DEF Becomes
      <3>3. \A r \in ToSet(FirstSafe(result.shift)) : r \in ToSet(result.shift)
        <4>1. result.shift \in Seq(Row(ShiftId))
          BY <2>1 DEF Sound, ReviewDraft
        <4>2. \/ FirstSafe(result.shift) = <<>>
              \/ \E i \in DOMAIN result.shift : FirstSafe(result.shift) = <<result.shift[i]>>
          BY <4>1, FirstSafeIsFirst
        <4> QED
          BY <4>1, <4>2 DEF ToSet
      <3> QED
        BY <2>1, <3>1, <3>2, <3>3 DEF JudgementsSurvive
    <2>2. CASE RepairedWell
      <3>1. PrioritiesSurvive
        BY <2>2 DEF RepairedWell, KeepsAreas, PrioritiesSurvive
      <3>2. \A r, q : Answered(r, q, incomplete) => Becomes(r, q)
        BY DEF Answered, Becomes
      <3>3. \A r \in ToSet(result.drivers) : r.safe =>
               \E q \in ToSet(result'.drivers) : Becomes(r, q)
        BY <2>2, <3>2 DEF RepairedWell, KeepsRows
      <3>4. \A r \in ToSet(FirstSafe(result.shift)) : r.safe
        <4>1. result.shift \in Seq(Row(ShiftId))
          BY DraftSteps DEF Sound, ReviewDraft, RepairStep, PipelineInv, Before, Repairing, Working
        <4>2. \/ FirstSafe(result.shift) = <<>>
              \/ \E i \in DOMAIN result.shift :
                   FirstSafe(result.shift) = <<result.shift[i]>> /\ result.shift[i].safe
          BY <4>1, FirstSafeIsFirst
        <4> QED
          BY <4>1, <4>2 DEF ToSet
      <3>5. ~ShiftMisled => \A r \in ToSet(FirstSafe(result.shift)) :
               \E q \in ToSet(result'.shift) : Becomes(r, q)
        BY <2>2, <3>2, <3>4 DEF RepairedWell, KeepsRows
      <3> QED
        BY <3>1, <3>3, <3>5 DEF JudgementsSurvive
    <2> QED
      BY <2>1, <2>2, DraftSteps
  <1> QED
    BY <1>1, PipelineInvHolds, PTL DEF PipelineSpec, FindingsSurvive

\* Every row of a repaired review rests on evidence that exists, but for the shift that was
\* doubled and begins with a row that has none.
THEOREM RepairsAreSupported == PipelineSpec => RepairedRowsAreSupported
  <1> DEFINE Supported == /\ \A q \in ToSet(result'.drivers) : q.safe
                          /\ ~ShiftMisled => \A q \in ToSet(result'.shift) : q.safe
  <1>1. PipelineInv /\ [PipelineNext]_pipelineVars => [RepairStep => Supported]_result
    <2> SUFFICES ASSUME PipelineInv, [PipelineNext]_pipelineVars, RepairStep, result' # result
                 PROVE  Supported
      OBVIOUS
    <2>1. RepairedWell
      BY DraftSteps
    <2> QED
      BY <2>1 DEF RepairedWell, KeepsRows
  <1> QED
    BY <1>1, PipelineInvHolds, PTL DEF PipelineSpec, RepairedRowsAreSupported
=============================================================================
