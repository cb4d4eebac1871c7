# A TLA+ model of the CPF FCV reviewer

The program takes a Country Partnership Framework document (CPF), with or without a risk
diagnostic, searches the public web for current context, has a language model review the
document against a fixed registry of questions, validates and repairs what the model wrote,
and shows the result in a browser that follows the run over server-sent events. Paths below
are relative to the Python package `src/cpf_fcv_reviewer/` of the repository.

What the language model, the web and the authors of documents may say is a nondeterministic
choice over small sets. What is modelled is the code around them: sessions, queues, event
logs, retries, crashes, deletion; how documents are cut, sampled and digested and how a
search of the web becomes claims; the decisions on what a review may be based on; and the
page that shows it.

## 1. The parts of the system

| Part | State it keeps | Operations | Talks to |
|---|---|---|---|
| Session store, `session_store.py` | sessions: status, result, failure code, event log, parent, expiry | create, set_status, complete, fail, emit, events_after, purge, purge_lineage, reset_failed_research | everything below |
| SQLite store, `persistent_store.py` | three tables (`assessment_sessions`, `_values`, `_events`), the clock | the same, and claim_next, requeue_stale, expiry | worker, handlers |
| Review API, `routes.py` | none of its own: everything is in the store | create, correction, retry, delete, events, result, assistant | store, queue, browser |
| run_assessment, `routes.py:560-645` | the run in progress | mark running, progress, save, announce, clear, fail | store, orchestrator |
| Queues, `background.py` | worker thread, or one thread per enqueue | enqueue, claim, run, `_fail_closed` | store, run_assessment |
| Assistant, `routes.py:142-225` | an `active` flag with an owner, the history of questions | ask, stream, store the exchange, release | store, browser |
| Page, `static/app.js` | cursor of the stream, view, current review (also in `sessionStorage`), operation, detection and assistant epochs, disabled buttons | submit, restore, watch, retry, correct, ask, reset | the API |
| Orchestrator and runtime, `orchestrator.py`, `runtime.py` | the context of one run | steps, repair, limited mode | research, engine, validators |
| Extraction, `extraction.py` | none: a function of one file | sample, chunk, limit, warn | runtime |
| Document digests, `document_digest.py` | jobs and outcomes of one pool of threads | plan, digest, collect | model gateway |
| Model gateway, `model_gateway.py` | `_prompt_schema_types`, shared by all threads | request, transient retry, schema in the prompt | the provider |
| Research controller, `research_controller.py` | accepted and rejected claims, clock, last failure | attempt, back off, recover, decide | two gateways |
| Public research, `public_research.py` | sources and cited excerpts of one search | search, continue, extract, fetch a date, normalize, salvage | the provider, the web |
| Review engine, `review_engine.py` | none: a function of the model's answers | review, repair, merge of assessments | model gateway |
| Curated research, country detection, evidence, validators, contracts, export, prompts, configuration, smoke mode | none that outlives a call | pure functions, network I/O | – |

`PROJECT.json` lists each part with its status.

How they interact: a handler or a run is a series of store operations with nothing held
between two of them. A run writes status, result and events; the stream reads the log by
position; the browser keeps the position. A retry throws the log away and starts the
numbering again. A deletion takes a review with all its corrections and ancestors, while a
run or another handler may be in the middle of its own series. The process may stop at any
point; at the next start `requeue_stale` puts running reviews back into the queue.

What is hard here, and what makes each part correct:

* *Store.* Expiry, cascade, two copies of the status, clocks read before the lock is held.
  Correct: the tables are one session map; no orphan rows; gapless event numbers.
* *Service and queues.* A failing store operation in any place (also in the code that
  handles failures), crash between two operations, retry while the failed run has not
  ended, deletion during a run. Correct: status, result and log tell one story; a
  published review stays; nothing deleted comes back; each review ends and says so.
* *Stream and browser.* Cuts, reconnects, retries, several tabs. Correct: each event of the
  attempt once and in order; the viewer is told the verdict, and the result is there.
* *Assistant.* Two questions at once, disconnect, crash with the flag set, deletion.
  Correct: one answer at a time, the stored history is the conversation that took place.
* *Research.* Attempts, failures, waiting and a last resort in one budget. Correct: the
  tier is true of the claims handed over, late answers are not used, usable ones are.
* *Search.* A source listed and cited many times with different dates, caps, a second call
  that may invent, reject, answer about a part of it or fail. Correct: claims quote what was
  cited, what was rejected stays out, and what was found is not lost.
* *Documents.* Two extractions with different limits, a diagnostic taken out of the middle,
  threads that end in any order and share one switch, retries inside retries. Correct: text
  is in its place and whole, or a warning says so; silence of a document counts only where
  all of it was read; requests are bounded, and no digest keeps the review from being asked for.
* *Pipeline.* One repair, validation of what is published, caveats that must survive.
* *Page.* Answers to requests of an earlier review, operation or conversation. Correct: what
  was erased does not come back, the screen is about what the page does, no button is stuck.

## 2. The modules

| Module | Models | Uses |
|---|---|---|
| `SessionStore` | the map of sessions and every operation of a store on it, as operators | – |
| `ReviewPromise` | abstract: what the owner of a review is promised | – |
| `ReviewService` | handlers, run_assessment and both queues over one store, one step per store operation | `SessionStore`, refines `ReviewPromise` |
| `EventStream` | browser tabs and their streams on top of the service | `ReviewService` |
| `SQLiteStore` | the tables of the persistent store | refines the map of `SessionStore` |
| `Assistant` | questions to one completed review, their lock, flag and history | – |
| `Research` | one run of the research controller | – |
| `PublicSearch` | one search of the public web, one step per call | `Selections` |
| `Selections` | what a comprehension with a condition makes of a sequence, and a sum over one, as operators | – |
| `Extraction` | what extraction makes of one file, as operators | `Selections` |
| `Documents` | the documents of one review from upload to evidence, with the digests' pool of threads and the gateway's requests | `Extraction` |
| `ReviewRepair` | validation codes and the merge of two drafts, as operators | – |
| `ReviewPipeline` | one run of the orchestrator over the steps of the runtime | `ReviewRepair` |
| `Page` | one tab: views, epochs, requests in flight | – |
| `ReviewServiceProofs` | theorems on the service, its families, the promise and the stream | `EventStream`, `IterationLemmas` |
| `SQLiteStoreProofs` | theorems on the tables, and that they implement the map | `SQLiteStore`, `IterationLemmas` |
| `AssistantAndResearchProofs` | theorems on questions and on research | `Assistant`, `Research`, `IterationLemmas` |
| `PublicSearchProofs` | theorems on a search of the web | `PublicSearch`, `IterationLemmas` |
| `DocumentsProofs` | theorems on the documents of a review | `Documents`, `IterationLemmas` |
| `ReviewPipelineProofs`, `PageProofs` | theorems on the module of that name | that module |
| `IterationLemmas` | lemmas: numbers, iterated functions, loops, selections, sums, occurrences | `Selections` |

`MC*.tla` give definitions for TLC (symmetry, uploads, search results, claims, drafts); each
`.cfg` is one run. A definition named as a variant of another one is a plausible bug, used
only to see that the properties notice it.

The modules split where the code does. The pipeline sees nothing of the store but its
`emit`, so a run is a box for `ReviewService` ("some progress, then a return or a failure
that may be retryable"). `ReviewPipeline` opens it; for the pipeline the research is a tier
and the documents are evidence, and `Research` and `Documents` open those. For `Research` an
answer of the gateway is a batch of claims, which `PublicSearch` opens. `EventStream` and
`Page` are two views of the browser: the first one composes the cursor of a stream with the
service, the second one takes any answer of the server and looks at the page's own state.

### How state and actions correspond to the code

*`ReviewService`.* `session` is the store. `thread` is where each run thread stands in
`run_assessment` (`start`: before `set_status(running)`; `work`: inside
`orchestrator.run`; `save`; `announce_complete`; and the except branch `clear`,
`mark_failed`, `announce_failed`, which `_fail_closed` repeats with `fallback` set).
`request` holds the handlers that have done one store operation and not yet the next.
Every action is one store operation with all its effects; between two, anybody may step.
The orchestrator's own `run_complete` and `run_failed` are swallowed by run_assessment and
re-emitted after the result is stored, so they are not steps here. `attempt`, `family` and
`erased` are history: nothing reads them but properties, the label of an event and the
bound on retries. `Persistent` chooses the deployment: SQLite and one worker, or memory and
a thread per enqueue. In memory a crash loses everything and no store operation fails, so
neither is modelled there (`ServiceAssumption`). `EagerRetry = FALSE` is a client like the
page itself, which offers "Retry research" only after it has read `run_failed`;
`TRUE` is any client of the API, which may ask as soon as the status says failed.

*`SessionStore`, `SQLiteStore`.* One operator (one action) per method. A method of the
SQLite store is one transaction under a lock, hence one step; but it reads the clock before
it takes the lock, so `now` is any moment of the last `MaxLag` ticks. The refinement maps
the rows of an id to a session, none to "unused" or "gone".

*`EventStream`.* A tab has the cursor its EventSource would send as `Last-Event-ID`. The
server may end a response at any time (limit of 90 s, network) and the browser reconnects
with the cursor; each request may be answered, fail, or be answered with an HTTP error, after
which the browser does not try again. The page counts the errors in a row and at
`SourceErrorLimit` closes the source and says so (`lost`, `app.js:1411-1417`). A tab that has
been told of a retryable failure may retry, and starts from zero. Other clients of the API may
retry at the same time.

*`Assistant`.* The steps of `_assistant_stream`: check and flag under the process lock,
then answer, then write the history as a whole, then release in `finally`.

*`Research`.* `now` counts ticks since the start of the run; a call takes some ticks and
the budget is compared with it at the same lines as in the code. A claim is reduced to
what the decision looks at: its name, standing, publisher, kind, age. Answers name their claims
as they like, so two claims may have one name, of which the controller keeps the first.

*`PublicSearch`.* `pc` is the call of `_search` that is due. The answer of the web search is
a sequence of blocks, as in the code; `Extracted` folds over them as
`_extract_search_artifact` loops. Which publisher a URL belongs to, which country a passage
names and which dates an item states are parameters of URLs, passages and items; so is which
URLs bar their source (`Barred`: hosts and paths of social media, forums and the like,
`api.worldbank.org`, marked titles) or are a blog (`Blogs`). They bar a cited excerpt like a
claim of the model, and a blog needs a judgement that no excerpt has, so that a search whose
excerpts are all barred fails with `no_parsed_output`. `PartOf` says of which passages in a
row a quote is a part. `late` says that the deadline has passed, which can happen during any
call and is looked at before each; a fetched date is added to a bundle whose size is looked
at once more, which may end the search.

*`Extraction`, `Documents`.* A page is its number of characters, a plain text a sequence of
ink and blanks, so that sampling, cutting and limits are computed as in the code while words
are not. `pc` follows one review: extraction with samples, the diagnostic and the second
extraction in full, the plan, the pool, the evidence. In the pool `call[j]` is where the
thread of job `j` stands in `digest_document` and `generate`; a step is the end of one
request, so that requests of several threads interleave and each reads the shared switch
`promptSchema` when it begins. The main thread collects in the order of the jobs and leaves
the pool only when every thread has ended. Warnings are a bag: their order is left out, their
number is not, because the runtime removes them by count.

*`ReviewPipeline`, `ReviewRepair`.* `pc` is the step of `STEP_NAMES`, plus one for each
second call of a model. A draft is reduced to its rows (name, status, whether its evidence
exists, whether its text holds a prohibited phrase), its priority areas and flaws of its
text. Rows and areas are sequences, and two of them may bear one name: the contracts allow it,
and the merge has a rule for it in most places, the first with evidence, the last, or none.
Codes of validation that the repair treats alike are represented by one of them.
Two observations that shape the model: `stage_length_overreach` is advisory in
`validators.py:999-1006`, so it never reaches `ReviewEngine.repair` through the
orchestrator and the branch for it is not part of `Narrowed`; and
`incomplete_reproducibility_metadata` is not among the codes a repair accepts, so that it
ends the run with an exception (`StepRaises`).

*`Page`.* One action per thing a user does and per answered request; a request carries the
epoch and the review its closure holds, and the set of requests in flight is answered in any
order with any status. A request and the reading of its body are one step, because the code
looks at the epoch again after the body. `erased` is a history value. A reload keeps only
what `sessionStorage` holds.

## 3. What the runs check

| Run | Question | States |
|---|---|---|
| `worker` | two reviews (a correction and its parent), a retry, and two failures of any kind, store operations that raise or a crash between any two steps: do status, result and log tell one story, is what was published frozen, what was deleted gone, and is the promise kept? | 796 thousand |
| `stream` | two threads in one process, clients that retry at once, a tab that is cut and reconnects: one writer, every review ends, each event once and in order, and the viewer is told, or that its connection is lost | 104 thousand |
| `sqlite` | stale clocks, expiry, cascade: do the tables implement the map, and does a deletion take a family as a whole? | 146 thousand |
| `assistant` | three questions, a failing store operation, a restart | 4.8 thousand |
| `research` | three attempts, a wait, recovery, a budget that ends anywhere, one name for two claims | 5.5 thousand |
| `search` | results with any dates, in any order and twice, from barred hosts and blogs too, more sources than fit, a normalization that copies, invents, rejects or fails | 309 thousand |
| `documents` | uploads of every kind, sampled and read again, digested by two threads while the provider refuses, fails and answers in any order | 14 thousand |
| `pipeline` | drafts with any two defects, doubled rows and areas among them, answers to a repair with any one | 63 thousand |
| `page` | one tab that submits, reloads, retries, corrects, asks and resets while answers come in any order | 1.6 million |

Runs that find what the documentation denies (each a finding in `PROJECT.json`):

* `restart_loses_verdict`: a crash between the stored verdict and its event leaves a
  settled review whose stream never ends.
* `erased_family`: a correction in flight survives the deletion of its family.
* `excluded_document`: a document that could not be summarised is left out, and what the
  application itself writes into the review does not say so.

### Bounds, and why they are enough

* Two reviews give every relation the code has between reviews (parent and child, two
  entries of the queue); a third would add a longer chain of the same links. One thread is
  what the worker has; in memory two threads are what a retry of one review can start.
* Two failures are needed: one sends a run to its except branch, the second to
  `_fail_closed`. A third would be swallowed like the second. `FewFailures` counts a crash
  as one of the two: at a restart everything but the store is lost, so a second crash starts
  from a state like the first's.
* One retry distinguishes the old log from the new. Progress events: one or two, as only
  their number counts.
* `research`: three attempts are one that is first, one in the middle, one that is last;
  six ticks with calls of one or three let the budget end before, during and after each of
  them; `MaxFindings = MinClaims = 2` makes the cap bite; the claims of `MCResearch` cover
  every standing with two publishers, and a current claim has the name of one without use.
* `search`: with three or four sources of which two fit the cap bites; two dates can agree,
  differ and differ again; an excerpt of three characters takes some passages and not others;
  the batches of `MCPublicSearch` have a good claim, an invented one, a rejected one, two of
  one name, one about another source, and none.
* `documents`: two threads are what it takes to share a switch and to end out of order; up
  to three documents do not fit, so that one waits for a thread; two requests per transient
  error, a segment of three characters and a sample of four pages make each limit and each
  rounding occur; two documents bear one name.
* `sqlite`: a lag of one tick with a time to live of one is enough for a reading of the
  clock to be on the other side of an expiry.
* `pipeline`: a first draft with two defects reaches each pair of codes, and each flag of
  the merge depends on at most two; answers differ from a good one in one part; two names
  for areas let one be renamed, dropped or given twice.
* `page`: three reviews are one that was erased, its successor and a correction; four
  operations and four messages per load, two files, and at most four requests in flight
  (`Bounded`) let a late answer meet each view.

### Fairness

`FairSpec` (service and stream): each run thread that can step does so (the worker's loop
at `background.py:121` catches what a run raises and only ends with the process; a thread
is a thread of the operating system), and a handler that has stored a review goes on to
enqueue it. Nothing is assumed of clients, retries, deletion or faults. In the stream the
browser reads what has arrived, reconnects (EventSource does, and the attempt may fail) and
goes on after its own retry. `FairPipelineSpec` assumes that a run goes on to another step or raises: the clients
of the model and of the web have timeouts. `DocumentsSpec` assumes that, from the
plan on, the main thread takes its steps, that a free thread takes a job and each request
ends, and that the review is published or fails: requests have timeouts, retries a fixed number. The research controller, the search and the stores have
no liveness property: their ends are bounded by counters and checked as safety. Nor has the
page: a user may reload for ever, and what would be its liveness, a progress view that
something will end, is the safety property `ScreenMatchesOperation`.

### Where a property has to be stated with care

These follow from the code and are as much a result as the properties:

* `TerminalEndsLog`, `KeepsPromise` and `PublishedReviewIsFrozen` are properties of the worker
  and of a client that waits for `run_failed`. In memory, a retry between the stored failure and
  its announcement lets the old run append `run_failed` to the new log (`routes.py:632-641`):
  the runs exclude such a client, so they would not notice it getting worse. What `OneWriter`
  says holds for eager clients too.
* `EveryReviewEnds` and `ViewerIsTold` are checked with threads in the process, one review, and
  neither a failing store operation nor a crash. They say nothing of the single worker: a
  failing enqueue, or a crash between the reset and the enqueue of a retry
  (`routes.py:232-241`), leaves the review "created" for good, and a further retry is
  answered 409.
* `VerdictSurvivesFaults` excepts a crash (see `restart_loses_verdict`) and tolerates one
  failing store operation; the second in the same run is logged and swallowed
  (`background.py`, `_fail_closed`), and nobody announces.
* `StreamLosesNothing` and `ViewerIsTold` except an attempt somebody else has started
  (`Current`): a tab whose stream was cut before the failure reconnects with a cursor of the
  old log and may skip the first events of the new one (`routes.py:351`).
* `ViewerIsTold` begins with a stream that was open once and ends with the verdict or with the
  page's own message that the connection was interrupted. A tab whose very first request is
  refused waits: one error event is below the limit and no other follows (`app.js:1411`).
* `BusyMeansAnswering` excepts a failure of the store in the assistant's `finally`: the flag
  then stays until the process restarts.
* `RunIsBounded` allows one call to outlast the budget: the code looks at the clock between
  calls only. A `research_retry` may be announced although the wait then uses up the budget
  and no attempt follows.
* `UsableEvidenceIsUsed` excepts a claim hidden by its name. The code compares names only
  (`research_controller.py:423`), which each answer chooses anew: with more than one attempt a
  usable claim is dropped if an earlier one without use has its name. Nothing else is lost, as a
  search only follows another when nothing usable was in hand.
* `RejectedStaysRejected` is about cited excerpts. A claim of the same batch that calls the
  source suitable is still used when another one calls it unsuitable, and an irrelevant
  claim survives beside a relevant one (`public_research.py:591-660`).
* `NothingUsableIsLost` speaks of searches that get to their normalization: a deadline that
  passes before it, or a bundle that is too large, ends the search with an error although
  excerpts had been found. Excerpts of barred sources and of blogs of catalogued publishers are
  dropped (`public_research.py:1414`), and the property does not ask for them.
* `FindingsSurvive` and `RepairedRowsAreSupported` except one doubled shift (`ShiftMisled`): the
  first row says `not_evidenced` and cites no evidence that exists, a later one has evidence,
  and reading was incomplete. The code asks the first row what may be repaired and the later one
  whether that is supported (`review_engine.py:478`, `:486`), and then gives the repaired row the
  first one's evidence, or drops the later one. Validation still stops such a review.
* `DigestsNeverStopAReview` ends where the review is asked for: the request itself may be too
  large, among other things by the pages the digests cite (`review_engine.py:708-711`), or fail
  (`ReviewFails`). It begins when the documents have been read. Before that the code
  stops the review on purpose for an unreadable package; it also does so, with an unexpected
  error, when the diagnostic was readable as a sample and is not in full.
* `CallsAreBounded` counts three first requests for one document, not two: a schema that is
  refused in the first round is asked again in the other form, and a repetition follows.
* `CaveatsSurvive` is about limitations. In limited framing the text of the diagnostic is in
  no evidence any more (`runtime.py:845-873`), only its limitation remains.
* `ScreenMatchesOperation` says of the panels that they hold the result of the current
  review, not that the conversation beside them is its own: until the history has been
  loaded, the results of a correction stand beside the conversation of its parent.
* `correctOff` is in no property. The `finally` of an old correction (`app.js:1515`) may
  enable the button while a later one is in flight; a failed correction hides the results,
  and the page then only offers a reset.

Each property has a mutant: a change to one definition, of a kind a bug in that code could
be, that makes TLC find the property violated.

## 4. What is proved

The 36 safety and action properties that the runs of section 3 check are all theorems, for every
value of the constants. The bounds of the runs (`MaxRetry`, `MaxFault`,
`MaxAttempts`, `MaxFile`, ...) are arbitrary numbers here and the sets (reviews, threads,
tabs, claims, drafts, questions) arbitrary sets, unless an assumption below says otherwise.
Each module of proofs is laid out alike: lemmas about the operators, the inductive invariant
with a comment on each part, one lemma per action or group of actions, the theorems.

`ReviewServiceProofs` (of `ReviewService` and `EventStream`):

| Theorem | Says | Beyond the module's ASSUME |
|---|---|---|
| `TypeCorrect` | every variable keeps its type | |
| `ResultIsOfCompleteReview` | a result is stored only beside the status complete | |
| `AnnouncedCompletionIsReal` | `run_complete` in the log implies the complete review with its result | |
| `AtMostOneWriter` | of two runs of one review one has only its announcement left | |
| `GoneForGood` | no step revives a deleted or expired review | |
| `PublishedIsFrozen` | an announced completion is only ever removed | `Persistent` |
| `DeletionIsOfFamilies` | a deletion takes the whole family, as long as none of it is missing | `IsFiniteSet(Id)` |
| `NothingFollowsTheEnd` | nothing is appended behind a terminal event | `~EagerRetry` |
| `OneFaultHidesNothing` | without a crash and with one fault at most, a stored verdict is announced or in the hands of a run | |
| `ServiceKeepsPromise` | the service implements `ReviewPromise`, step by step | `~EagerRetry` |
| `NothingIsLostInTheStream` | a tab has been given the first events of the attempt it watches, each once, in order | |

`SQLiteStoreProofs`: `TablesFit` (no orphan rows, one status, gapless numbers),
`TablesImplementStore` (each method implements the map of sessions), `FamiliesStay` (a
deletion takes a family; `IsFiniteSet(Id)`). `AssistantAndResearchProofs`: `OneAnswerHolds`,
`HistoryIsConversation`, `ClientIsToldTheTruth`, `BusyIsAnswering`; `BudgetHolds`,
`LateNeverCounts`, `FullMeansFull`, `FeedsAreAsked`, `ClaimsInHandAreUsed`. `PublicSearchProofs`: `ReturnedClaimsAreGrounded`,
`RejectedSourcesStayRejected`, `NothingUsableGetsLost` (`NoForgedId`). `DocumentsProofs`:
`DigestsCostIsBounded`, `NoTextIsMisplaced` (`SamplePages > 1`), `NothingGoesUnsaid`.
`ReviewPipelineProofs`:
`CleanIsPublished`, `CaveatsAreTold`, `FindingsAreKept`, `RepairsAreSupported`. `PageProofs`:
`ErasedForGood`, `ScreenIsTrue`, `SendComesBack`. Each states the property of the run of the
same module; `PROJECT.json` has the pairs. `IterationLemmas` holds the facts about numbers,
loops, selections and sums that several of these proofs need.

### Assumptions, and why the code justifies them

* Those named in the modules, which TLC evaluates on the runs: the worker is one thread, and
  without persistence there is neither fault nor crash (`ServiceAssumption`); limits are
  positive, durations are numbers (`ResearchAssumption`, `SQLiteAssumption`,
  `DocumentsAssumption`, `PageAssumption`, `AssistantAssumption`); a search takes some time,
  so `SearchTime` is not empty; `None` is no review (`NoneAssumption`).
* `DocumentsAssumption` also says what an upload is: one of the three suffixes, a plain text of ink
  and blanks, a PDF or DOCX of numbers. A sample has more than one page (`SamplePages > 1`; the
  code's `OPTIONAL_PDF_SAMPLE_PAGES` is 16, `runtime.py:109`): with one it could not hold the first
  and the last page.
* `PipelineAssumption` says what a draft is, any sequences of rows and areas with any names, and
  that the row which stands in for a missing shift has a name.
* `~EagerRetry`: the page offers a retry after it has read `run_failed`. Another client of the
  API may ask earlier, and then in memory the old run's `run_failed` lands in the new log; the
  two theorems are false for it. Nothing else needs a patient client.
* `Persistent` for `PublishedIsFrozen`: in memory, threads of two attempts exist side by side.
* `IsFiniteSet(Id)`: `delete` loops until a round adds nothing. Ids are finite in number at any
  moment; without that the loop need not end.
* `NoForgedId`: a cited excerpt is named by the SHA-256 digest of what it says
  (`public_research.py:1396`), which the model, a language model, does not compute for a claim of
  its own. Were it to, both would be taken for doubles and rejected.

### The arguments

None of the properties is inductive alone.

*Service.* `IInv` adds what connects the store to the actors: `PendingInv` (a review whose
enqueue is pending is new or has failed again, and no run is working on it), `RunInv` by way
of `StepInv` (what the step of a run says of its session: at `announce_complete` the result is
stored, at `work` none is, at `announce_failed` the review may already belong to another run),
`OneWriter` (without it a second run could store a failure over the first one's result) and
`SessionInv` (result, status and log agree). The action properties follow from it and from
`StepAllowed`: what any step may do to one session.

*Families.* `FamilyInv`: parent and child have one family, and in a family that nobody has
left each review is reached from each other one by parents and children. The operator
`Lineage` iterates a round as often as there are ids; by `IterationLemmas` a set that only
grows within `n` members stands still after `n` rounds, so that the outcome is closed.

*Promise.* `CalmInv` says, for a patient client, that a review has one run at most, none once
its log has a terminal event, and that what is about to be announced as a failure is stored as
one. With it each step maps to a step of `ReviewPromise` or to a stutter. `VerdictInv` holds
for eager clients too: a settled review is announced or has a run, as a run only lets go of
its review after it has announced, or after a second fault.

*Stream.* `AttemptInv` says whose attempt runs and events are of: only a late `run_failed` may
be of an earlier attempt than the present one. `TabInv` then says that a tab on the present
attempt has received exactly the first `cursor` events, of which only the last may be of an
earlier attempt, after which the tab has stopped.

*Tables.* `TablesInv`: one row per key, beside each session the row that repeats its status,
no row that outlives its session, numbers from one to the count. The clock is read before the
lock is taken, so that a method may see an earlier time than the last purge did; the refinement
shows each method to be the purge it begins with, followed by one operation of the map.

*Assistant.* `AssistantInv`: the lock or else the flag excludes; who is going to write has read
what is stored now; what was told follows from the step of the question.

*Research.* `ResearchInv`: before each call time is left, so one call is all that can exceed the
budget; the feeds were asked before the run settles for less. `UsableInv` adds that what was
offered and is usable is accepted, or stands behind an accepted claim of its name. A call is
made with nothing usable accepted, so that this other claim has no use (`MergeLosesNothingElse`).

*Search.* `SearchInv` says of what the extraction found: the date of a source stands for all dates
its results have stated, or is in dispute; every passage of an excerpt was cited of that source
after a search had listed it; every segment is of a source that was found. `Extracted` is three
loops inside one another, so each is shown to keep this for the blocks, results and citations so
far (`EveryRound`), and a claim to be grounded whichever of the two ways it took. That nothing is
lost needs, besides, that a selection has exactly the places it selects, each once
(`SelectedFacts`), and that no two excerpts of a salvage have one id.

*Pool.* `PoolInv`: the requests of a job are bounded by how far it has come (round, form, try),
and refusals so far plus requests in the constrained form under way never exceed the threads:
after the first refusal the shared switch keeps further requests from that form.

*Documents.* `DocInv` adds equations. Once the documents are read, `documents`, `direct`, `jobs` and
`warnings` are functions of the uploads, and each outcome is that of its job (`TextsInv`,
`ResultsInv`): the pool decides what a digest cites, never where it belongs. The rest is about
operators, for uploads of any number and size. Each round of the loop that cuts a text, `ChunkText`,
leaves a shorter text, so the chunks of a text keep its ink (`ChunksAreWhole`). The spread of a
sample grows with the page and ends at the last but one, since Python's rounding never loses more than
half of a step and a step is at least one page (`SpreadFacts`, `DistributedFacts`). The order of the
plan is strict and total, so among those digested and among those kept there is an outermost document,
and that one meets the budget from either side (`PlanFits`). Evidence takes each entry of its role
once because a selection does (`EvidenceOfRole`). For the warnings everything is counted as a
sum over the documents: of a selection (`CountedOfSelection`), of what a second reading takes back and
adds (`ReplacedCounted`), and of what was left out; a bag that takes back no more than it
holds then counts exactly the documents the review works with (`TextWarningsCounted`,
`WarningsAreCounted`).

*Pipeline.* `PipelineInv`: the draft in hand has the caveats that are due, the issues in hand are
those of this draft, and none is fatal from `render` on. The lemmas on the merge
(`DriversAreKept`, `ShiftIsKept`, `AreasAreKept`, `EvidenceKept`, `RepairKeeps`) say for any two
drafts, doubled names included, what it keeps and in which place; the action properties follow from them.

*Page.* `PageInv`: at most one current request of the kinds that change the view, what each
request in flight says of the review and epoch it will be compared with, nothing erased in any
place, and for each disabled button the request that will enable it.

### What stays with TLC

* Liveness (`EveryReviewEnds`, `ViewerIsTold`, `RunEnds`, `DigestsNeverStopAReview`): it rests on
  fairness, hence on ENABLED, which the prover does not handle.
* That the constants of a run are those the theorems assume: TLC evaluates each ASSUME.
* That the theorems are not empty: the runs reach the states the properties are about, and the
  mutants of `PROJECT.json` show each of them violated by a plausible bug.

## 5. What is not modelled

* Text. The heuristics by which a validator finds an overclaim, a country or a publisher is
  recognised, a date is read or a document looks like a diagnostic are choices of their
  outcome or parameters.
* Curated research. Its feeds are fetched and parsed one after the other over one client,
  without state that another call sees; it enters `Research` as one more answer (dated
  claims, each once) or a failure. Country detection, for the same reason; the page's side of
  it is in `Page`.
* Pure construction: evidence records, reproducibility hashes, the registry, prompts and
  readouts, DOCX layout, contracts beyond the fields a decision reads.
* The size of requests in tokens: whether it is over the limit is a choice (`ReviewFails`).
  Digests cite at most 40 pages of at most 4000 characters each, which may exceed the context
  budget that is checked later.
* In the search: counters of `last_diagnostics`, the serialized size beyond the texts. The
  program's own client swallows a timeout of a date fetch; an injected one would raise.
* In the gateway: errors other than by their treatment. `map_uploaded_diagnostic`
  (`runtime.py`) catches a `ValidationError` only, any other error of the gateway ends the
  run, which is a failing step of `ReviewPipeline`.
* In the page: rendering, tabs of the result, downloads.
* HTTP and headers, reading handlers, configuration and wiring, smoke mode.

## 6. Plan

Done, in this order: store and service, stream, SQLite store, proofs of the service,
assistant, research, pipeline and repair, documents with digests and gateway, the public
search, the page; then the proofs of all of these. `DocInv`, in three parts, was checked by TLC on
the uploads of `documents` before it was proved.

What could be added:

1. Liveness of the single worker over two reviews, with a store operation that fails once.
2. A page whose first stream request was refused (`app.js:1411`), once the page has a way out of it.
3. The feeds of the curated research as a module that `Research` opens, as `PublicSearch` is.
