--------------------------- MODULE ReviewPipeline ---------------------------
(***************************************************************************)
(* One run of the orchestrator over the steps of runtime.py: research, the *)
(* mapping of an uploaded diagnostic, the review, its validation and the   *)
(* repair. What the documents, the web and the model answer is a choice;   *)
(* any step may raise, and then the run fails and its context is cleared.  *)
(***************************************************************************)
EXTENDS ReviewRepair

CONSTANTS
    Draft,      \* the drafts the model may write
    Answer,     \* and those it may write when told what is wrong
    NoReview

ASSUME PipelineAssumption ==
    /\ Draft \cup Answer \subseteq ReviewDraft
    /\ NoReview \notin ReviewDraft
    /\ "fallback" \in ShiftId

VARIABLES
    pc,
    tier,        \* the research result's, "none" before
    uploaded,    \* a diagnostic was found among the uploads
    mode,        \* diagnostic_mode of the evidence pack
    readout,     \* a readout stands in for current sources
    incomplete,  \* an optional document was sampled or summarised
    result,      \* the review without its limitations
    caveats,     \* the limitations the application owns
    issues       \* validation_issues

pipelineVars ==
    <<pc, tier, uploaded, mode, readout, incomplete, result, caveats, issues>>

Working == {"extract", "research", "readout", "build_evidence", "map", "map_retry",
            "review", "review_retry", "validate", "repair", "repair_again", "check", "render"}

PipelineInit ==
    /\ pc = "extract"
    /\ tier = "none" /\ uploaded = FALSE /\ mode = "limited" /\ readout = FALSE
    /\ incomplete = FALSE
    /\ result = NoReview /\ caveats = {} /\ issues = {}

-----------------------------------------------------------------------------
\* A step, or a call it makes, raises.
StepRaises ==
    /\ pc \in Working
    /\ pc' = "failed"
    /\ result' = NoReview /\ caveats' = {} /\ issues' = {}
    /\ UNCHANGED <<tier, uploaded, mode, readout, incomplete>>

\* The uploads become documents; some may have been sampled. (No caller sets source
\* candidates, so that resolve_sources, the step in between, does nothing.)
Extract ==
    /\ pc = "extract"
    /\ incomplete' \in BOOLEAN
    /\ pc' = "research"
    /\ UNCHANGED <<tier, uploaded, mode, readout, result, caveats, issues>>

\* The diagnostic is looked for, sampled documents are read in full where that can be
\* done, then the controller runs.
Research ==
    /\ pc = "research"
    /\ uploaded' \in BOOLEAN
    /\ incomplete' \in {incomplete, FALSE}
    /\ tier' \in {"full", "reduced", "document_led"}
    /\ pc' = IF tier' = "document_led" THEN "readout" ELSE "build_evidence"
    /\ UNCHANGED <<mode, readout, result, caveats, issues>>

\* The readout may fail and is then done without.
Readout ==
    /\ pc = "readout"
    /\ readout' \in BOOLEAN
    /\ pc' = "build_evidence"
    /\ UNCHANGED <<tier, uploaded, mode, incomplete, result, caveats, issues>>

\* Documents over the direct budget are digested, which makes their role incomplete.
BuildEvidence ==
    /\ pc = "build_evidence"
    /\ mode' = IF uploaded THEN "rra" ELSE "limited"
    /\ \E digested \in BOOLEAN : incomplete' = (incomplete \/ digested)
    /\ pc' = "map"
    /\ UNCHANGED <<tier, uploaded, readout, result, caveats, issues>>

\* A map that covers the evidence, or no map: then the review goes on without alignment.
Mapped ==
    /\ mode' \in {mode, "limited"}
    /\ pc' = "review"

Map ==
    /\ pc = "map"
    /\ IF uploaded
       THEN \/ Mapped
            \/ pc' = "map_retry" /\ UNCHANGED mode
       ELSE pc' = "review" /\ UNCHANGED mode
    /\ UNCHANGED <<tier, uploaded, readout, incomplete, result, caveats, issues>>

\* The one retry of a map that did not satisfy the schema.
MapRetry ==
    /\ pc = "map_retry"
    /\ Mapped
    /\ UNCHANGED <<tier, uploaded, readout, incomplete, result, caveats, issues>>

\* What _preserve_research_limitation puts back: the research limitation, the warning on
\* the coverage of a diagnostic (that it could not be mapped, when it was downgraded),
\* and the caveat of the readout.
Due ==
    (IF tier \in {"reduced", "document_led"} THEN {"research"} ELSE {})
    \union (IF ~uploaded THEN {} ELSE IF mode = "rra" THEN {"coverage"} ELSE {"downgrade"})
    \union (IF readout THEN {"readout"} ELSE {})

Review ==
    /\ pc = "review"
    /\ \/ result' \in Draft /\ caveats' = Due /\ pc' = "validate"
       \/ pc' = "review_retry" /\ UNCHANGED <<result, caveats>>
    /\ UNCHANGED <<tier, uploaded, mode, readout, incomplete, issues>>

\* The one retry of a draft that did not satisfy the schema.
ReviewRetry ==
    /\ pc = "review_retry"
    /\ result' \in Draft /\ caveats' = Due
    /\ pc' = "validate"
    /\ UNCHANGED <<tier, uploaded, mode, readout, incomplete, issues>>

\* Advice alone is announced and passes.
Validate ==
    /\ pc = "validate"
    /\ issues' = Issues(result, mode, incomplete)
    /\ pc' = IF Fatal(issues') = {} THEN "render" ELSE "repair"
    /\ UNCHANGED <<tier, uploaded, mode, readout, incomplete, result, caveats>>

\* A variant of repair_once that leaves the limitations to the model.
RepairOnceBare(answer) ==
    /\ result' = RepairedDraft(result, answer, Fatal(issues), mode)
    /\ caveats' = {}
    /\ issues' = Issues(result', mode, incomplete)
    /\ UNCHANGED <<tier, uploaded, mode, readout, incomplete>>

\* A variant that trusts the model to have repaired what it was told.
RepairOnceUnchecked(answer) ==
    /\ result' = RepairedDraft(result, answer, Fatal(issues), mode)
    /\ caveats' = Due
    /\ issues' = {}
    /\ UNCHANGED <<tier, uploaded, mode, readout, incomplete>>

\* repair_once: the model's limitations are new, the application's are put back.
RepairOnce(answer) ==
    /\ result' = RepairedDraft(result, answer, Fatal(issues), mode)
    /\ caveats' = Due
    /\ issues' = Issues(result', mode, incomplete)
    /\ UNCHANGED <<tier, uploaded, mode, readout, incomplete>>

\* What the first repair leaves is repaired once more if it is mechanical.
Repair ==
    /\ pc = "repair"
    /\ \E answer \in Answer : RepairOnce(answer)
    /\ pc' = IF Fatal(issues') # {} /\ Fatal(issues') \subseteq Mechanical
             THEN "repair_again" ELSE "check"

\* A variant that starts the repair over while what remains is mechanical.
RepairAgainAndAgain ==
    /\ pc = "repair_again"
    /\ \E answer \in Answer : RepairOnce(answer)
    /\ pc' = IF Fatal(issues') # {} /\ Fatal(issues') \subseteq Mechanical
             THEN "repair" ELSE "check"

RepairAgain ==
    /\ pc = "repair_again"
    /\ \E answer \in Answer : RepairOnce(answer)
    /\ pc' = "check"

\* The orchestrator looks at what the repair left; that "repaired" is never asked for a
\* second time is a matter of the order of the steps.
Check ==
    /\ pc = "check"
    /\ IF Fatal(issues) = {}
       THEN pc' = "render" /\ UNCHANGED <<result, caveats, issues>>
       ELSE pc' = "failed" /\ result' = NoReview /\ caveats' = {} /\ issues' = {}
    /\ UNCHANGED <<tier, uploaded, mode, readout, incomplete>>

Render ==
    /\ pc = "render"
    /\ pc' = "done"
    /\ UNCHANGED <<tier, uploaded, mode, readout, incomplete, result, caveats, issues>>

RunStep ==
    \/ Extract \/ Research \/ Readout \/ BuildEvidence \/ Map \/ MapRetry \/ Review
    \/ ReviewRetry \/ Validate \/ Repair \/ RepairAgain \/ Check \/ Render

PipelineNext == RunStep \/ StepRaises

PipelineSpec == PipelineInit /\ [][PipelineNext]_pipelineVars

\* The run's thread goes on to another step or raises: no call waits for ever, as the
\* clients of the model and of the web have timeouts.
GoesOn == pc \in Working /\ pc' \in (Working \union {"done", "failed"}) \ {pc}

FairPipelineSpec == PipelineSpec /\ WF_pc(GoesOn)

-----------------------------------------------------------------------------
\* Nothing is published that validation would stop, whatever repairs it went through.
PublishedIsClean ==
    pc = "done" => Fatal(Issues(result, mode, incomplete)) = {}

\* The reader of a review is told what limits it, however often the model wrote the
\* limitations anew (runtime.py:903-922).
CaveatsSurvive ==
    pc = "done" => Due \subseteq caveats

RepairStep == result # NoReview /\ result' # NoReview

\* Each area, doubled ones too, in its place and with no other between them.
PrioritiesSurvive ==
    result.areas # <<>> =>
        /\ DOMAIN result'.areas = DOMAIN result.areas
        /\ \A i \in DOMAIN result.areas :
             LET a == result.areas[i]
                 b == result'.areas[i]
             IN /\ b.id = a.id /\ b.judgement = a.judgement
                /\ a.evidence = "known" => b.evidence = "known"

\* Row q is what a row r has become.
Becomes(r, q) ==
    /\ q.id = r.id
    /\ \/ q.status = r.status
       \/ /\ r.status = "not_evidenced" /\ incomplete
          /\ q.status \in {"not_assessable", "partially_aligned"}

\* A doubled shift whose first row has found nothing and cites no evidence, while a later
\* one has evidence. Where reading was incomplete the first row decides what becomes of the
\* shift, on the evidence of the later one (review_engine.py:478, 486), which may be lost.
ShiftMisled ==
    /\ incomplete /\ result.shift # <<>> /\ result.shift[1].status = "not_evidenced"
    /\ ~result.shift[1].safe /\ FirstSafe(result.shift) # <<>>

JudgementsSurvive ==
    /\ \A r \in ToSet(result.drivers) :
         r.safe => \E q \in ToSet(result'.drivers) : Becomes(r, q)
    /\ ~ShiftMisled => \A r \in ToSet(FirstSafe(result.shift)) :
                         \E q \in ToSet(result'.shift) : Becomes(r, q)

\* "A repair may correct a priority, but cannot silently remove its assessment"
\* (review_engine.py:631): whatever the second draft renames, drops or doubles, each area
\* stays, is judged as before, and loses no good source; and what the first draft found of
\* a driver, or first of a shift, with evidence, is what the reader gets: only "not
\* evidenced" may become weaker, and only where reading was incomplete.
FindingsSurvive == [][RepairStep => PrioritiesSurvive /\ JudgementsSurvive]_pipelineVars

\* After a repair no row rests on evidence that does not exist (review_engine.py:303, 391).
RepairedRowsAreSupported ==
    [][RepairStep => /\ \A q \in ToSet(result'.drivers) : q.safe
                     /\ ~ShiftMisled => \A q \in ToSet(result'.shift) : q.safe]_result

\* Every run ends, in a review or a failure.
RunEnds == <>(pc \in {"done", "failed"})
=============================================================================
