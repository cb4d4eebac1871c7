------------------------------ MODULE Documents ------------------------------
(***************************************************************************)
(* What becomes of the supporting documents of one review: they are first  *)
(* extracted, large PDFs as samples; the risk diagnostic among them is     *)
(* identified and taken out; the others are extracted again in full; what  *)
(* does not fit its role's budget is read by the model, several documents  *)
(* at a time (document_digest.py, model_gateway.py), and the review gets   *)
(* text, digests and warnings. The steps of the runtime that lie between,  *)
(* research and diagnostic mapping, change nothing of this.                *)
(***************************************************************************)
EXTENDS Extraction

CONSTANTS
    Uploads,          \* the uploads of a review, each [package, context : Seq of Upload]
    DiagnosticNames,  \* names _filename_suggests_diagnostic accepts
    MaxDocuments,     \* PACKAGE_MAX_DOCUMENTS
    Budget,           \* [package, context : Nat], the *_DIRECT_MAX_CHARACTERS
    DigestMax,        \* DIGEST_MAX_ESTIMATED_INPUT_TOKENS, in characters
    Workers,          \* DIGEST_MAX_WORKERS
    MaxCited,         \* MAX_CITED_SEGMENTS_PER_DOCUMENT
    MaxTry,           \* one more than the TRANSIENT_RETRY_DELAYS_SECONDS
    MaxFault          \* bound: failing store operations of emit

Role == {"package", "context"}

ASSUME DocumentsAssumption ==
    /\ {MaxDocuments, DigestMax, Workers, MaxCited, MaxTry} \subseteq Nat \ {0}
    /\ Budget \in [Role -> Nat] /\ MaxFault \in Nat
    /\ \A u \in Uploads :
         /\ u \in [Role -> Seq(UNION {ToSet(u[r]) : r \in Role})]
         /\ \A r \in Role : \A d \in ToSet(u[r]) :
              /\ d.suffix \in {"pdf", "docx", "txt"}
              /\ d.body \in Seq(IF d.suffix = "txt" THEN {Ink, Blank} ELSE Nat)

VARIABLES
    pc,             \* "extract", "research", "plan", "digest", "leave", "review", "done", "failed"
    uploads,        \* the payload
    documents,      \* the retained documents of each role
    warnings,       \* extraction_warnings, a bag: their order is not modelled
    diagnostic,     \* <<>>, or the role and the position of the diagnostic
    direct,         \* the documents of each role without the diagnostic
    jobs,           \* DigestJobs: role and position in direct
    call,           \* the state of each job in the pool
    outcomes,       \* the outcomes collected so far
    promptSchema,   \* DocumentDigest is one of _prompt_schema_types
    grammarTooLarge,  \* whether the provider accepts the schema of a digest
    evidence,       \* what the review is given
    incomplete,     \* _incomplete_document_roles
    reader,         \* what the published review says of its documents
    failure,        \* why the run failed
    faults,
    refusals        \* history value: requests refused for their grammar

documentsVars ==
    <<pc, uploads, documents, warnings, diagnostic, direct, jobs, call, outcomes, promptSchema,
      grammarTooLarge, evidence, incomplete, reader, failure, faults, refusals>>

intake == <<uploads, documents, diagnostic, direct, jobs, grammarTooLarge>>

Excluded == <<"omitted", "upload", 0>>    \* OPTIONAL_UPLOAD_EXCLUDED_WARNING

NoReader == [listed |-> {}, told |-> {}]

DocumentsInit ==
    /\ pc = "extract" /\ uploads \in Uploads
    /\ documents = [r \in Role |-> <<>>] /\ direct = documents
    /\ warnings = EmptyBag /\ diagnostic = <<>> /\ jobs = <<>> /\ call = <<>> /\ outcomes = <<>>
    /\ promptSchema = FALSE /\ grammarTooLarge \in BOOLEAN
    /\ evidence = <<>> /\ incomplete = {} /\ reader = NoReader
    /\ failure = "none" /\ faults = 0 /\ refusals = 0

-----------------------------------------------------------------------------
(* Extraction: extract_uploaded_documents. *)

Accepted(u) == u.sound /\ Outcome(u, TRUE) = "read"

\* Why the package stops the review; its first bad document decides.
PackageProblem(package) ==
    LET bad == {i \in DOMAIN package : ~Accepted(package[i])}
        first == package[CHOOSE i \in bad : \A j \in bad : i <= j]
    IN IF Len(package) > MaxDocuments THEN "package_document_count"
       ELSE IF bad = {} THEN "none"
       ELSE IF first.sound /\ Outcome(first, TRUE) = "limit" THEN "package_document_too_large"
       ELSE "package_document_unreadable"

\* A context document is left out, unless its name says that it is the diagnostic.
ContextProblem(context) ==
    IF \E i \in DOMAIN context : /\ context[i].sound /\ Outcome(context[i], TRUE) = "limit"
                                 /\ context[i].name \in DiagnosticNames
    THEN "diagnostic_coverage" ELSE "none"

Retained(items) ==
    LET kept == Selected(items, {i \in DOMAIN items : Accepted(items[i])})
    IN [i \in DOMAIN kept |-> Document(kept[i], TRUE)]

\* The warnings of the retained documents and, in the place of each other one, that it was
\* left out.
UploadWarnings(items) ==
    FlattenSeq([i \in DOMAIN items |->
        IF Accepted(items[i]) THEN Warnings(items[i], TRUE) ELSE <<Excluded>>])

Fail(code) == pc' = "failed" /\ failure' = code

Extract ==
    LET problem == IF PackageProblem(uploads.package) # "none"
                   THEN PackageProblem(uploads.package) ELSE ContextProblem(uploads.context)
    IN /\ pc = "extract"
       /\ \/ problem # "none" /\ Fail(problem) /\ UNCHANGED <<documents, warnings>>
          \/ /\ problem = "none" /\ pc' = "research" /\ UNCHANGED failure
             /\ documents' = [r \in Role |-> Retained(uploads[r])]
             /\ warnings' = ToBag(UploadWarnings(uploads.package)
                                  \o UploadWarnings(uploads.context))
       /\ UNCHANGED <<uploads, diagnostic, direct, jobs, call, outcomes, promptSchema,
                      grammarTooLarge, evidence, incomplete, reader, faults, refusals>>

-----------------------------------------------------------------------------
(* The beginning of the research step: the diagnostic, then every document in full. *)

\* The places of documents, as a role and a position.
Spots(docs) == UNION {{r} \X DOMAIN docs[r] : r \in Role}

\* identify_uploaded_diagnostic, as a role and a position: the only match in the context,
\* else the only match of all.
Identified(docs) ==
    LET matches == {m \in Spots(docs) : docs[m[1]][m[2]].upload.diagnostic}
        context == {m \in matches : m[1] = "context"}
    IN IF Cardinality(context) = 1 THEN CHOOSE m \in context : TRUE
       ELSE IF Cardinality(matches) = 1 THEN CHOOSE m \in matches : TRUE ELSE <<>>

WarningsOf(docs) == ToBag(FlattenSeq([i \in DOMAIN docs |-> docs[i].warnings]))

\* A variant that removes every warning of that text.
ReplacedAllWarnings(ws, old, new) == [w \in DOMAIN ws \ DOMAIN old |-> ws[w]] (+) new

\* _remove_warning_multiset: one warning for each of the old ones.
ReplacedWarnings(ws, old, new) == (ws (-) old) (+) new

\* A full extraction of d succeeds and finds text.
InFull(d) == Outcome(d.upload, FALSE) = "read"

\* The documents that are extracted again, all but the diagnostic.
Again(docs, found) == Spots(docs) \ {found}

FullProblem(docs, found) ==
    LET bad == {m \in Again(docs, found) : m[1] = "package" /\ ~InFull(docs[m[1]][m[2]])}
        first == docs["package"][(CHOOSE m \in bad : \A n \in bad : m[2] <= n[2])[2]].upload
        named == docs[found[1]][found[2]].upload
    IN IF found # <<>> /\ Outcome(named, FALSE) = "limit" THEN "diagnostic_coverage"
       ELSE IF found # <<>> /\ Outcome(named, FALSE) = "unreadable" THEN "unexpected"
       ELSE IF bad = {} THEN "none"
       ELSE IF Outcome(first, FALSE) = "limit" THEN "package_document_too_large"
       ELSE "package_document_unreadable"

\* What a document becomes: a context document that cannot be read in full keeps its sample.
FullVersion(d) == IF InFull(d) THEN Document(d.upload, FALSE) ELSE d

WarningsInFull(docs, ws) ==
    LET all  == docs["package"] \o docs["context"]
        read == Selected(all, {i \in DOMAIN all : InFull(all[i])})
        full == [i \in DOMAIN read |-> Document(read[i].upload, FALSE)]
    IN ReplacedWarnings(ws, WarningsOf(read), WarningsOf(full))

ReadInFull ==
    LET found == Identified(documents)
        problem == FullProblem(documents, found)
        full == [r \in Role |-> [i \in DOMAIN documents[r] |-> FullVersion(documents[r][i])]]
    IN /\ pc = "research"
       /\ \/ problem # "none" /\ Fail(problem)
             /\ UNCHANGED <<documents, warnings, diagnostic, direct>>
          \/ /\ problem = "none" /\ pc' = "plan" /\ UNCHANGED failure
             /\ diagnostic' = found
             /\ documents' = full
             /\ warnings' = WarningsInFull(documents, warnings)
             /\ direct' = [r \in Role |-> IF found # <<>> /\ found[1] = r
                                          THEN RemoveAt(full[r], found[2]) ELSE full[r]]
       /\ UNCHANGED <<uploads, jobs, call, outcomes, promptSchema, grammarTooLarge, evidence,
                      incomplete, reader, faults, refusals>>

-----------------------------------------------------------------------------
(* Planning: plan_digests for each role, and the jobs in their order. *)

\* The order of plan_digests: the larger first, then by position.
Larger(docs, i, j) ==
    \/ DocumentCharacters(docs[i]) > DocumentCharacters(docs[j])
    \/ DocumentCharacters(docs[i]) = DocumentCharacters(docs[j]) /\ i < j

CharactersOf(docs, positions) ==
    Total([i \in DOMAIN docs |-> DocumentCharacters(docs[i])], positions)

\* A variant that stops one document early.
PlanDigestsShort(docs, budget) ==
    {i \in DOMAIN docs : CharactersOf(docs, {j \in DOMAIN docs : Larger(docs, i, j)}) > budget}

\* The largest documents until the rest fits: i is selected if what is left when its turn
\* comes is over the budget.
PlanDigests(docs, budget) ==
    {i \in DOMAIN docs : CharactersOf(docs, {j \in DOMAIN docs : ~Larger(docs, j, i)}) > budget}

JobsOf(r) ==
    LET order == InOrder(PlanDigests(direct[r], Budget[r]), Len(direct[r]))
    IN [i \in DOMAIN order |-> [role |-> r, at |-> order[i]]]

Queued == [stage |-> "queued", form |-> "none", round |-> 0, try |-> 0, requests |-> 0]

\* The event package_plan is written if there is a document; it may fail.
StoreFails == faults < MaxFault /\ faults' = faults + 1

PlanFails ==
    /\ pc = "plan" /\ \E r \in Role : direct[r] # <<>>
    /\ StoreFails /\ Fail("store")
    /\ UNCHANGED <<intake, warnings, call, outcomes, promptSchema, evidence, incomplete, reader,
                   refusals>>

Plan ==
    /\ pc = "plan" /\ pc' = "digest"
    /\ jobs' = JobsOf("package") \o JobsOf("context")
    /\ call' = [j \in DOMAIN jobs' |-> Queued]
    /\ UNCHANGED <<uploads, documents, warnings, diagnostic, direct, outcomes, promptSchema,
                   grammarTooLarge, evidence, incomplete, reader, failure, faults, refusals>>

-----------------------------------------------------------------------------
(* The pool of digest_documents: digest_document in each of at most Workers threads, with *)
(* AnthropicModelGateway.generate and _stream opened up to single requests.                *)

JobDocument(job) == direct[job.role][job.at]

Running == {j \in DOMAIN call : call[j].stage = "asking"}

Finished(j) == call[j].stage \in {"excluded", "digested"}

\* generate begins a request in the form the shared switch asks for.
Asking(c, round, form) ==
    [stage |-> "asking", form |-> form, round |-> round, try |-> 1, requests |-> c.requests + 1]

Form == IF promptSchema THEN "prompted" ELSE "constrained"

pool == <<pc, intake, warnings, outcomes, evidence, incomplete, reader, failure, faults>>

Ended(j, stage, cited) == call' = [call EXCEPT ![j] = [stage |-> stage, cited |-> cited]]

\* A free thread takes the next job; what is too large is not even asked for.
StartDigest(j) ==
    /\ pc \in {"digest", "leave"} /\ Cardinality(Running) < Workers
    /\ call[j].stage = "queued" /\ \A i \in 1 .. j - 1 : call[i].stage # "queued"
    /\ IF DocumentCharacters(JobDocument(jobs[j])) > DigestMax
       THEN Ended(j, "excluded", {})
       ELSE call' = [call EXCEPT ![j] = Asking(@, 1, Form)]
    /\ UNCHANGED <<pool, promptSchema, refusals>>

\* An overloaded provider, a broken stream: asked again after a pause, a few times.
TransientError(j) ==
    /\ call[j].stage = "asking" /\ call[j].try < MaxTry
    /\ call' = [call EXCEPT ![j].try = @ + 1, ![j].requests = @ + 1]
    /\ UNCHANGED <<pool, promptSchema, refusals>>

\* A variant that gives up at once and lets the error through to the run.
RequestFailsLoudly(j) ==
    /\ call[j].stage = "asking"
    /\ Ended(j, "excluded", {}) /\ pc' = "failed" /\ failure' = "digest"
    /\ UNCHANGED <<intake, warnings, outcomes, evidence, incomplete, reader, faults, promptSchema,
                   refusals>>

\* The last transient error, any other one, a refusal, an answer without a parsed output.
RequestFails(j) ==
    /\ call[j].stage = "asking"
    /\ Ended(j, "excluded", {})
    /\ UNCHANGED <<pool, promptSchema, refusals>>

\* A variant that keeps the switch to itself.
GrammarTooLargeUnshared(j) ==
    /\ call[j].stage = "asking" /\ call[j].form = "constrained" /\ grammarTooLarge
    /\ call' = [call EXCEPT ![j] = Asking(@, @.round, "prompted")]
    /\ refusals' = refusals + 1
    /\ UNCHANGED <<pool, promptSchema>>

\* The provider refuses the schema: the switch is set for all threads, and the same
\* generate goes on with the schema in the prompt.
GrammarTooLarge(j) ==
    /\ call[j].stage = "asking" /\ call[j].form = "constrained" /\ grammarTooLarge
    /\ promptSchema' = TRUE /\ refusals' = refusals + 1
    /\ call' = [call EXCEPT ![j] = Asking(@, @.round, "prompted")]
    /\ UNCHANGED pool

Answers(c) == c.form = "prompted" \/ ~grammarTooLarge

\* A variant that tries again each time.
SchemaInvalidForever(j) ==
    /\ call[j].stage = "asking" /\ Answers(call[j])
    /\ call' = [call EXCEPT ![j] = Asking(@, 2, Form)]
    /\ UNCHANGED <<pool, promptSchema, refusals>>

\* A ValidationError: the model is told once, then the document is left out.
SchemaInvalid(j) ==
    /\ call[j].stage = "asking" /\ Answers(call[j])
    /\ IF call[j].round = 1
       THEN call' = [call EXCEPT ![j] = Asking(@, 2, Form)]
       ELSE Ended(j, "excluded", {})
    /\ UNCHANGED <<pool, promptSchema, refusals>>

\* A digest that cites pages of the document or others; known ones are kept, up to a number.
Digested(j) ==
    /\ call[j].stage = "asking" /\ Answers(call[j])
    /\ \E cites \in {{}, 1 .. Len(JobDocument(jobs[j]).segments) + 1} :
         LET known == cites \intersect DOMAIN JobDocument(jobs[j]).segments
         IN Ended(j, "digested",
                  {p \in known : Cardinality({q \in known : q <= p}) <= MaxCited})
    /\ UNCHANGED <<pool, promptSchema, refusals>>

-----------------------------------------------------------------------------
(* The main thread takes the results in the order of the jobs. *)

OutcomeOf(j) ==
    [name |-> JobDocument(jobs[j]).name, stage |-> call[j].stage, cited |-> call[j].cited,
     document |-> JobDocument(jobs[j])]

\* A variant that takes them as they come.
CollectAsCompleted ==
    /\ pc = "digest" /\ Len(outcomes) < Len(jobs)
    /\ \E j \in DOMAIN jobs : Finished(j) /\ OutcomeOf(j) \notin ToSet(outcomes)
                              /\ outcomes' = Append(outcomes, OutcomeOf(j))
    /\ UNCHANGED <<pc, intake, warnings, call, promptSchema, evidence, incomplete, reader,
                   failure, faults, refusals>>

\* The next result is there, and its event document_digest_progress is written.
Collect ==
    /\ pc = "digest" /\ Len(outcomes) < Len(jobs) /\ Finished(Len(outcomes) + 1)
    /\ outcomes' = Append(outcomes, OutcomeOf(Len(outcomes) + 1))
    /\ UNCHANGED <<pc, intake, warnings, call, promptSchema, evidence, incomplete, reader,
                   failure, faults, refusals>>

\* Its event cannot be written: the pool is left, and that waits for every other job.
ProgressFails ==
    /\ pc = "digest" /\ Len(outcomes) < Len(jobs) /\ Finished(Len(outcomes) + 1)
    /\ StoreFails /\ pc' = "leave"
    /\ UNCHANGED <<intake, warnings, call, outcomes, promptSchema, evidence, incomplete, reader,
                   failure, refusals>>

LeavePool ==
    /\ pc = "leave" /\ \A j \in DOMAIN jobs : Finished(j)
    /\ Fail("store")
    /\ UNCHANGED <<intake, warnings, call, outcomes, promptSchema, evidence, incomplete, reader,
                   faults, refusals>>

-----------------------------------------------------------------------------
(* What the review is given, and what it says to its reader. *)

Positions(r) == {j \in DOMAIN jobs : jobs[j].role = r}

\* One entry per document: its place, which text it is, and where that was taken from.
EvidenceOf(r) ==
    LET Mine(i) == {j \in Positions(r) : jobs[j].at = i}
        OutcomeAt(i) == outcomes[CHOOSE j \in Mine(i) : TRUE]
        Text(i) == [role |-> r, at |-> i, kind |-> "text", from |-> direct[r][i].upload,
                    name |-> direct[r][i].name, cited |-> DOMAIN direct[r][i].segments]
        Digest(i) == [role |-> r, at |-> i, kind |-> "digest",
                      from |-> OutcomeAt(i).document.upload, name |-> OutcomeAt(i).name,
                      cited |-> OutcomeAt(i).cited]
    IN Selected([i \in DOMAIN direct[r] |-> IF Mine(i) = {} THEN Text(i) ELSE Digest(i)],
                {i \in DOMAIN direct[r] : Mine(i) = {} \/ OutcomeAt(i).stage # "excluded"})

OutcomeWarnings == [j \in DOMAIN outcomes |-> <<outcomes[j].stage, outcomes[j].name, 0>>]

SampleWarning(d) == <<"sampled", d.name, Len(d.upload.body)>>

Sampled(d) == SampleWarning(d) \in ToSet(d.warnings)

\* A variant that only counts the digests there are.
DigestedRolesOfDigests == {jobs[j].role : j \in {k \in DOMAIN jobs : outcomes[k].stage = "digested"}}

\* digested_document_roles: also where a document could not be digested.
DigestedRoles == {jobs[j].role : j \in DOMAIN jobs}

\* The warnings of the digests are added, and silence in such a role proves nothing.
BuildEvidence ==
    /\ pc = "digest" /\ Len(outcomes) = Len(jobs) /\ pc' = "review"
    /\ evidence' = EvidenceOf("package") \o EvidenceOf("context")
    /\ warnings' = warnings (+) ToBag(OutcomeWarnings)
    /\ incomplete' = {r \in Role : \E i \in DOMAIN documents[r] : Sampled(documents[r][i])}
                       \union DigestedRoles
    /\ UNCHANGED <<intake, call, outcomes, promptSchema, reader, failure, faults,
                   refusals>>

\* DocumentCoverage lists the documents some evidence stands for; the coverage note and the
\* limitations are written by the model, which has seen the warnings.
Publish ==
    /\ pc = "review" /\ pc' = "done"
    /\ \E told \in SUBSET DOMAIN warnings :
         reader' = [listed |-> {evidence[e].name : e \in DOMAIN evidence}, told |-> told]
    /\ UNCHANGED <<intake, warnings, call, outcomes, promptSchema, evidence, incomplete,
                   failure, faults, refusals>>

\* The evidence, the cited pages of the digests in it, makes a request over the limit, or a
\* request of the mapping, of the review or of its repair fails: that ends the run.
ReviewFails ==
    /\ pc = "review" /\ Fail("review")
    /\ UNCHANGED <<intake, warnings, call, outcomes, promptSchema, evidence, incomplete, reader,
                   faults, refusals>>

Finish == pc \in {"done", "failed"} /\ UNCHANGED documentsVars

Request(j) ==
    TransientError(j) \/ RequestFails(j) \/ GrammarTooLarge(j) \/ SchemaInvalid(j) \/ Digested(j)

DocumentsNext ==
    \/ Extract \/ ReadInFull \/ PlanFails \/ Plan
    \/ \E j \in DOMAIN jobs : StartDigest(j) \/ Request(j)
    \/ Collect \/ ProgressFails \/ LeavePool \/ BuildEvidence \/ Publish \/ ReviewFails \/ Finish

\* The steps of the run are taken, and each request is answered or times out.
DocumentsSpec ==
    /\ DocumentsInit /\ [][DocumentsNext]_documentsVars
    /\ WF_documentsVars(Plan \/ Collect \/ LeavePool \/ BuildEvidence \/ Publish \/ ReviewFails)
    /\ WF_documentsVars(\E j \in DOMAIN jobs : StartDigest(j) \/ Request(j))

-----------------------------------------------------------------------------
(* Properties. *)

Count(s, Test(_)) == Cardinality({i \in DOMAIN s : Test(s[i])})

Written == pc \in {"review", "done"}

\* How often a warning is in a bag of warnings.
Copies(w, ws) == IF w \in DOMAIN ws THEN ws[w] ELSE 0

\* How many uploads, digests or documents the review may use give reason for a warning.
Reasons(w) ==
    CASE w = Excluded -> Count(uploads.context, LAMBDA u : ~Accepted(u))
      [] w[1] \in {"excluded", "digested"} ->
           Count(outcomes, LAMBDA o : <<o.stage, o.name, 0>> = w)
      [] w[1] = "sampled" ->
           Cardinality({m \in Spots(documents) :
               LET d == documents[m[1]][m[2]] IN SampleWarning(d) = w /\ Sampled(d)})
      [] OTHER -> Copies(w, WarningsOf(documents["package"] \o documents["context"]))

\* What the review may be warned of.
Warnable ==
    DOMAIN warnings \union {Excluded} \union {<<o.stage, o.name, 0>> : o \in ToSet(outcomes)}
    \union UNION {ToSet(documents[m[1]][m[2]].warnings) : m \in Spots(documents)}

\* Nothing is silently left out or sampled: the warnings the review is given count every
\* upload that was left out, every digest, every sample it works with and every page without
\* text in it, and no other; also where a sample was replaced by the full document and where
\* two documents have one name (runtime.py:783, 1076).
WarningsAreTrue == Written => \A w \in Warnable : Copies(w, warnings) = Reasons(w)

\* Cutting loses no text: all ink of a plain text is in its segments, none of which is too
\* long, and a sample of a PDF has the pages it may have, the first and the last among them
\* (extraction.py:78, 265).
TextIsWhole ==
    \A r \in Role : \A i \in DOMAIN documents[r] :
      LET u == documents[r][i].upload
          chunks == ChunkText[Stripped(u.body)]
          read == PagesRead(u, TRUE)
          IsInk(c) == c = Ink
      IN /\ u.suffix = "txt" =>
             /\ \A k \in DOMAIN chunks : Len(chunks[k]) \in 1 .. SegmentCharacters
             /\ Count(FlattenSeq(chunks), IsInk) = Count(u.body, IsInk)
         /\ u.suffix = "pdf" /\ Len(u.body) > SamplePages =>
             Cardinality(read) = SamplePages /\ {1, Len(u.body)} \subseteq read

\* Digests end in any order and the diagnostic is taken out of its role, and still every
\* piece of evidence is of the document its identifier names, and every document is there
\* once, unless a warning says that it could not be summarised (document_digest.py:284,
\* runtime.py:1075).
EachInItsPlace ==
    Written =>
      /\ \A e \in ToSet(evidence) :
           /\ e.from = direct[e.role][e.at].upload /\ e.name = direct[e.role][e.at].name
           /\ e.cited \subseteq DOMAIN direct[e.role][e.at].segments
      /\ \A r \in Role : \A i \in DOMAIN direct[r] :
           LET n == Count(evidence, LAMBDA e : e.role = r /\ e.at = i)
           IN \/ n = 1
              \/ n = 0 /\ <<"excluded", direct[r][i].name, 0>> \in DOMAIN warnings

\* Where a role is not marked incomplete, the review has all the text of all its documents,
\* so that it may conclude from silence (runtime.py:300, validators.py:485).
SilenceCountsOnlyInFull ==
    Written =>
      \A r \in Role \ incomplete : \A i \in DOMAIN direct[r] :
        /\ direct[r][i].segments = Segments(direct[r][i].upload, FALSE)
        /\ \E e \in ToSet(evidence) : e.role = r /\ e.at = i /\ e.kind = "text"

\* The text a role supplies verbatim is within its budget, and no document is digested that
\* would still have fitted (document_digest.py:60).
DirectTextFits ==
    pc \in {"digest", "review", "done"} =>
      \A r \in Role :
        LET planned == {jobs[j].at : j \in Positions(r)}
            kept == DOMAIN direct[r] \ planned
        IN /\ CharactersOf(direct[r], kept) <= Budget[r]
           /\ \A i \in planned : CharactersOf(direct[r], kept \union {i}) > Budget[r]

\* Retries within retries stay bounded: a document costs at most two forms of a first request
\* and one repetition, each with its transient retries (model_gateway.py:90, 124;
\* document_digest.py:188).
CallsAreBounded ==
    \A j \in DOMAIN call : call[j].stage = "asking" => call[j].requests <= 3 * MaxTry

\* What one thread learns about the schema the others use: no more requests are refused for
\* it than there are threads (model_gateway.py:132-140).
RefusalsAreFew == refusals <= Workers

\* Nothing is left out, sampled or summarised in silence, and silence counts only where
\* nothing was (runtime.py:300, 783).
NothingIsSilent == WarningsAreTrue /\ SilenceCountsOnlyInFull

\* Between the upload and the evidence no text is lost, doubled or given to another document,
\* and none is given up to a digest that would have fitted (extraction.py:265,
\* document_digest.py:60, 284).
NothingIsMisplaced == TextIsWhole /\ EachInItsPlace /\ DirectTextFits

\* The requests of the digests are bounded, for each document and for the schema they share
\* (model_gateway.py:90, 132).
ProviderCostIsBounded == CallsAreBounded /\ RefusalsAreFew

\* Once the documents are read, nothing the provider answers to a digest, no failure of one
\* and no wait for the others keeps the review from being asked for: it is, or the store has
\* failed. The review's own requests may then fail (document_digest.py:186, 207, 284;
\* runtime.py:1061).
DigestsNeverStopAReview == pc = "plan" ~> (pc = "review" \/ faults > 0)

\* 2026-10-08-large-package-coverage-design.md:43 and README.md: a document that could not
\* be summarised is left out with a stated limitation.
ExclusionIsStated ==
    pc = "done" => \A o \in ToSet(outcomes) :
        o.stage = "excluded" => o.name \in reader.listed \/ <<"excluded", o.name, 0>> \in reader.told
=============================================================================
