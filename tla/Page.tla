-------------------------------- MODULE Page --------------------------------
(***************************************************************************)
(* The page of app.js in one browser tab: which view it shows, of which    *)
(* review, and what its requests that are still in flight may do to it.    *)
(* Their answers arrive in any order and at any time, when the user has    *)
(* long started something else; epochs tell the late ones. The server, the *)
(* user and the network are the environment: any answer is possible. A     *)
(* request and the reading of its body are one step, since the code checks *)
(* the epoch again after the body.                                         *)
(***************************************************************************)
EXTENDS Integers, FiniteSets

CONSTANTS
    RetryLimit,   \* RESULT_RETRY_LIMIT
    ErrorLimit,   \* SOURCE_ERROR_LIMIT
    MaxReview,    \* bound: reviews the server creates
    MaxEpoch,     \* bound: operations, and assistant messages, of a loaded page
    MaxFile       \* bound: primary documents the user chooses

ASSUME PageAssumption ==
    /\ {RetryLimit, ErrorLimit} \subseteq Nat \ {0}
    /\ {MaxReview, MaxEpoch, MaxFile} \subseteq Nat

NoReview == 0

VARIABLES
    view,       \* "landing", "progress", "results", "stopped" or "recovery"
    review,     \* assessmentId
    stored,     \* the one in sessionStorage
    shown,      \* the review whose result the panels hold
    operation,  \* operationEpoch
    source,     \* activeEventSource: none, or what it watches and its errors
    requests,   \* the requests in flight
    buttons,    \* resetPending, and the disabled "correct" and "retry" buttons
    assistant,  \* its epochs, assistantStreaming, the disabled "send" button
    chat,       \* the reviews of whose conversation a part is shown
    intake,     \* the chosen file, its country, and the state of the detection
    created,    \* the reviews the server has created for this tab
    erased      \* history value: the reviews the user has reset

pageVars == <<view, review, stored, shown, operation, source, requests, buttons, assistant, chat,
              intake, created, erased>>

reviewVars == <<review, stored, shown>>

NoSource == [op |-> 0, review |-> NoReview, errors |-> 0, refused |-> FALSE]
Watching(op, id) == [NoSource EXCEPT !.op = op, !.review = id]

Ask(kind, epoch, id, n) == [kind |-> kind, epoch |-> epoch, review |-> id, n |-> n]

Buttons == [resetPending |-> FALSE, correctOff |-> FALSE, retryOff |-> FALSE]
Quiet == [history |-> 0, request |-> 0, streaming |-> FALSE, sendOff |-> FALSE]
NoFile == [file |-> 0, country |-> 0, epoch |-> 0, pending |-> FALSE, confirm |-> FALSE]

PageInit ==
    /\ view = "landing" /\ review = NoReview /\ stored = NoReview /\ shown = NoReview
    /\ operation = 0 /\ source = NoSource /\ requests = {} /\ buttons = Buttons
    /\ assistant = Quiet /\ chat = {} /\ intake = NoFile /\ created = 0 /\ erased = {}

-----------------------------------------------------------------------------
(* The intake form: detectCountry. *)

\* A file is chosen; one that is too large for the detector asks for the country at once.
ChooseFile(file) ==
    LET epoch == intake.epoch + 1 IN
    /\ view = "landing" /\ epoch <= MaxEpoch
    /\ \E detectable \in BOOLEAN :
          /\ intake' = [file |-> file, country |-> 0, epoch |-> epoch, pending |-> detectable,
                        confirm |-> ~detectable]
          /\ requests' = IF detectable THEN requests \union {Ask("detect", epoch, file, 0)}
                       ELSE requests
    /\ UNCHANGED <<view, reviewVars, operation, source, buttons, assistant, chat, created, erased>>

DetectionOf(r, country, confirm) ==
    IF r.epoch # intake.epoch THEN UNCHANGED intake
    ELSE intake' = [intake EXCEPT !.country = country, !.confirm = confirm, !.pending = FALSE]

\* The country of the file, with or without a need to confirm it, or a failure.
DetectionAnswered(r) ==
    /\ r \in requests /\ r.kind = "detect" /\ requests' = requests \ {r}
    /\ \/ \E confirm \in BOOLEAN : DetectionOf(r, r.review, confirm)
       \/ DetectionOf(r, 0, TRUE)
    /\ UNCHANGED <<view, reviewVars, operation, source, buttons, assistant, chat, created, erased>>

\* The user confirms or types the country of the file he has chosen.
ConfirmCountry ==
    /\ view = "landing" /\ intake.confirm
    /\ intake' = [intake EXCEPT !.country = intake.file, !.confirm = FALSE]
    /\ UNCHANGED <<view, reviewVars, operation, source, requests, buttons, assistant, chat, created,
                   erased>>

-----------------------------------------------------------------------------
(* What several handlers do. *)

Begin == operation < MaxEpoch /\ operation' = operation + 1

Current(r) == r.epoch = operation

\* showProgress and the failure views hide the corrections and the results.
Watch(op, id) == view' = "progress" /\ source' = Watching(op, id)

\* renderResult: the panels, the buttons, and a request for the conversation.
Render(r, rest) ==
    /\ view' = "results" /\ shown' = r.review
    /\ buttons' = [buttons EXCEPT !.correctOff = FALSE]
    /\ assistant' = [assistant EXCEPT !.history = @ + 1, !.sendOff = TRUE]
    /\ requests' = rest \union {Ask("history", assistant.history + 1, review, 0)}

Forget == review' = NoReview /\ stored' = NoReview

-----------------------------------------------------------------------------
(* Starting, restoring and watching a review. *)

\* The submit listener; it clears resetPending.
Submit ==
    /\ view = "landing" /\ intake.country # 0 /\ ~intake.pending /\ ~intake.confirm
    /\ Begin /\ view' = "progress"
    /\ buttons' = [buttons EXCEPT !.resetPending = FALSE]
    /\ requests' = requests \union {Ask("submit", operation', NoReview, 0)}
    /\ UNCHANGED <<reviewVars, source, assistant, chat, intake, created, erased>>

SubmitAnswered(r) ==
    /\ r \in requests /\ r.kind = "submit" /\ requests' = requests \ {r}
    /\ \/ created < MaxReview /\ created' = created + 1
          /\ IF Current(r)
             THEN review' = created' /\ stored' = created' /\ Watch(operation, created')
             ELSE UNCHANGED <<view, review, stored, source>>
       \/ /\ view' = IF Current(r) THEN "stopped" ELSE view
          /\ UNCHANGED <<review, stored, source, created>>
    /\ UNCHANGED <<shown, operation, buttons, assistant, chat, intake, erased>>

\* The tab is loaded again: nothing is in flight, and what sessionStorage holds is restored.
Reload ==
    /\ review' = stored /\ shown' = NoReview /\ source' = NoSource /\ buttons' = Buttons
    /\ assistant' = Quiet /\ chat' = {} /\ intake' = NoFile
    /\ IF stored = NoReview
       THEN view' = "landing" /\ operation' = 0 /\ requests' = {}
       ELSE view' = "progress" /\ operation' = 1 /\ requests' = {Ask("restore", 1, stored, 0)}
    /\ UNCHANGED <<stored, created, erased>>

\* restoreSavedReview: 202, 410, a failure, the result.
RestoreAnswered(r) ==
    /\ r \in requests /\ r.kind = "restore"
    /\ IF Current(r) /\ r.review = review
       THEN \/ /\ Watch(operation, review) /\ requests' = requests \ {r}
               /\ UNCHANGED <<reviewVars, buttons, assistant>>
            \/ /\ view' = "landing" /\ Forget /\ requests' = requests \ {r}
               /\ UNCHANGED <<shown, source, buttons, assistant>>
            \/ /\ view' = "landing" /\ requests' = requests \ {r}
               /\ UNCHANGED <<reviewVars, source, buttons, assistant>>
            \/ Render(r, requests \ {r}) /\ UNCHANGED <<review, stored, source>>
       ELSE requests' = requests \ {r} /\ UNCHANGED <<view, reviewVars, source, buttons, assistant>>
    /\ UNCHANGED <<operation, chat, intake, created, erased>>

Active == source # NoSource /\ source.op = operation

\* run_complete: the source is closed and the result fetched.
RunCompleted ==
    /\ Active /\ ~source.refused /\ source' = NoSource
    /\ requests' = requests \union {Ask("result", operation, source.review, 1)}
    /\ UNCHANGED <<view, reviewVars, operation, buttons, assistant, chat, intake, created, erased>>

\* run_failed for a retryable cause; for another one, or expired.
RunFailed ==
    /\ Active /\ ~source.refused /\ source' = NoSource
    /\ \/ view' = "recovery" /\ buttons' = [buttons EXCEPT !.retryOff = FALSE]
       \/ view' = "stopped" /\ UNCHANGED buttons
    /\ UNCHANGED <<reviewVars, operation, requests, assistant, chat, intake, created, erased>>

\* A broken connection. The browser opens it again by itself, but not when the answer was an
\* HTTP error: then it closes the source after one error event.
SourceError ==
    /\ Active /\ ~source.refused
    /\ IF source.errors + 1 >= ErrorLimit
       THEN source' = NoSource /\ view' = "stopped"
       ELSE \E refused \in BOOLEAN :
               /\ source' = [source EXCEPT !.errors = @ + 1, !.refused = refused]
               /\ UNCHANGED view
    /\ UNCHANGED <<reviewVars, operation, requests, buttons, assistant, chat, intake, created,
                   erased>>

SourceOpens ==
    /\ Active /\ ~source.refused /\ source.errors > 0
    /\ source' = [source EXCEPT !.errors = 0]
    /\ UNCHANGED <<view, reviewVars, operation, requests, buttons, assistant, chat, intake, created,
                   erased>>

\* loadResult: not yet, a few times; a failure; the result.
ResultAnswered(r) ==
    /\ r \in requests /\ r.kind = "result"
    /\ IF Current(r)
       THEN \/ /\ r.n < RetryLimit
               /\ requests' = (requests \ {r}) \union {[r EXCEPT !.n = @ + 1]}
               /\ UNCHANGED <<view, shown, buttons, assistant>>
            \/ /\ view' = "stopped" /\ requests' = requests \ {r}
               /\ UNCHANGED <<shown, buttons, assistant>>
            \/ Render(r, requests \ {r})
       ELSE requests' = requests \ {r} /\ UNCHANGED <<view, shown, buttons, assistant>>
    /\ UNCHANGED <<review, stored, operation, source, chat, intake, created, erased>>

-----------------------------------------------------------------------------
(* Retry, correction and reset. *)

\* Variant: an answer that is streaming still counts as streaming.
SilencedStreaming ==
    [assistant EXCEPT !.history = @ + 1, !.request = @ + 1, !.sendOff = TRUE]

\* The answers the assistant may still give become late ones.
Silenced ==
    [history |-> assistant.history + 1, request |-> assistant.request + 1, streaming |-> FALSE,
     sendOff |-> TRUE]

RetryResearch ==
    /\ view = "recovery" /\ review # NoReview /\ ~buttons.resetPending /\ ~buttons.retryOff
    /\ Begin /\ buttons' = [buttons EXCEPT !.retryOff = TRUE]
    /\ requests' = requests \union {Ask("retry", operation', review, 0)}
    /\ UNCHANGED <<view, reviewVars, source, assistant, chat, intake, created, erased>>

\* Variant: an accepted retry is watched whatever the page does by now.
RetryAnsweredLate(r) ==
    /\ r \in requests /\ r.kind = "retry" /\ requests' = requests \ {r}
    /\ \/ Watch(operation, r.review) /\ UNCHANGED buttons
       \/ view' = "stopped" /\ UNCHANGED <<source, buttons>>
       \/ /\ view' = "recovery" /\ buttons' = [buttons EXCEPT !.retryOff = FALSE]
          /\ UNCHANGED source
    /\ UNCHANGED <<reviewVars, operation, assistant, chat, intake, created, erased>>

\* Accepted, gone, refused.
RetryAnswered(r) ==
    /\ r \in requests /\ r.kind = "retry" /\ requests' = requests \ {r}
    /\ IF Current(r)
       THEN \/ Watch(operation, r.review) /\ UNCHANGED buttons
            \/ view' = "stopped" /\ UNCHANGED <<source, buttons>>
            \/ /\ view' = "recovery" /\ buttons' = [buttons EXCEPT !.retryOff = FALSE]
               /\ UNCHANGED source
       ELSE UNCHANGED <<view, source, buttons>>
    /\ UNCHANGED <<reviewVars, operation, assistant, chat, intake, created, erased>>

Correct ==
    /\ view = "results" /\ review # NoReview /\ ~buttons.resetPending /\ ~buttons.correctOff
    /\ Begin /\ buttons' = [buttons EXCEPT !.correctOff = TRUE]
    /\ requests' = requests \union {Ask("correct", operation', review, 0)}
    /\ UNCHANGED <<view, reviewVars, source, assistant, chat, intake, created, erased>>

\* The child is watched in the place of its parent, and the assistant's answers to the parent
\* become late ones. Whatever happened, the button is enabled while results are visible.
CorrectionAnswered(r) ==
    /\ r \in requests /\ r.kind = "correct" /\ requests' = requests \ {r}
    /\ \/ /\ created < MaxReview /\ created' = created + 1
          /\ IF Current(r)
             THEN /\ review' = created' /\ stored' = created' /\ Watch(operation, created')
                  /\ assistant' = Silenced
             ELSE UNCHANGED <<view, review, stored, source, assistant>>
       \/ /\ view' = IF Current(r) THEN "stopped" ELSE view
          /\ UNCHANGED <<review, stored, source, assistant, created>>
    /\ buttons' = IF view' = "results" THEN [buttons EXCEPT !.correctOff = FALSE] ELSE buttons
    /\ UNCHANGED <<shown, operation, chat, intake, erased>>

\* resetReview: everything of the review is cleared before the server is asked to delete it.
Reset ==
    /\ view \in {"results", "stopped", "recovery"} /\ ~buttons.resetPending
    /\ Begin /\ source' = NoSource /\ Forget /\ shown' = NoReview /\ chat' = {}
    /\ assistant' = Silenced
    /\ intake' = [NoFile EXCEPT !.epoch = intake.epoch] /\ view' = "landing"
    /\ buttons' = [buttons EXCEPT !.resetPending = review # NoReview, !.correctOff = TRUE]
    /\ requests' = requests \union {Ask("delete", operation', id, 0) : id \in {review} \ {NoReview}}
    /\ erased' = erased \union ({review, stored, shown} \ {NoReview})
    /\ UNCHANGED created

\* Variant: the landing view with its notice is shown whatever the page does by now.
DeleteAnsweredLate(r) ==
    /\ r \in requests /\ r.kind = "delete" /\ requests' = requests \ {r}
    /\ view' = "landing"
    /\ buttons' = [buttons EXCEPT !.resetPending = FALSE]
    /\ UNCHANGED <<reviewVars, operation, source, assistant, chat, intake, created, erased>>

\* The landing view again, with a notice if the purge was not confirmed.
DeleteAnswered(r) ==
    /\ r \in requests /\ r.kind = "delete" /\ requests' = requests \ {r}
    /\ view' = IF Current(r) THEN "landing" ELSE view
    /\ buttons' = [buttons EXCEPT !.resetPending = FALSE]
    /\ UNCHANGED <<reviewVars, operation, source, assistant, chat, intake, created, erased>>

-----------------------------------------------------------------------------
(* The assistant. *)

HistoryIsCurrent(r) == r.review = review /\ r.epoch = assistant.history

\* loadAssistantHistory: the conversation, or none, or a failure; then "send" is enabled
\* unless an answer is streaming.
HistoryAnswered(r) ==
    /\ r \in requests /\ r.kind = "history" /\ requests' = requests \ {r}
    /\ IF HistoryIsCurrent(r)
       THEN /\ chat' \in {chat, {}, {r.review}}
            /\ assistant' = [assistant EXCEPT !.sendOff = IF assistant.streaming THEN @ ELSE FALSE]
       ELSE UNCHANGED <<chat, assistant>>
    /\ UNCHANGED <<view, reviewVars, operation, source, buttons, intake, created, erased>>

\* sendAssistantMessage: the question is shown at once.
Send ==
    /\ view = "results" /\ review # NoReview /\ ~buttons.resetPending
    /\ ~assistant.streaming /\ ~assistant.sendOff
    /\ assistant.request < MaxEpoch
    /\ assistant' = [history |-> assistant.history + 1, request |-> assistant.request + 1,
                     streaming |-> TRUE, sendOff |-> TRUE]
    /\ chat' = chat \union {review}
    /\ requests' = requests \union {Ask("message", assistant.request + 1, review, 0)}
    /\ UNCHANGED <<view, reviewVars, operation, source, buttons, intake, created, erased>>

MessageIsCurrent(r) == r.review = review /\ r.epoch = assistant.request

\* The stream ends, with "done" or with an error.
MessageAnswered(r) ==
    /\ r \in requests /\ r.kind = "message" /\ requests' = requests \ {r}
    /\ assistant' = IF MessageIsCurrent(r)
                    THEN [assistant EXCEPT !.streaming = FALSE, !.sendOff = FALSE] ELSE assistant
    /\ UNCHANGED <<view, reviewVars, operation, source, buttons, chat, intake, created, erased>>

-----------------------------------------------------------------------------
AnyAnswer ==
    \E r \in requests :
        \/ DetectionAnswered(r) \/ SubmitAnswered(r) \/ RestoreAnswered(r) \/ ResultAnswered(r)
        \/ RetryAnswered(r) \/ CorrectionAnswered(r) \/ DeleteAnswered(r)
        \/ HistoryAnswered(r) \/ MessageAnswered(r)

SourceEvent == RunCompleted \/ RunFailed \/ SourceError \/ SourceOpens

PageNext ==
    \/ \E file \in 1 .. MaxFile : ChooseFile(file)
    \/ ConfirmCountry \/ Submit \/ Reload \/ RetryResearch \/ Correct \/ Reset \/ Send
    \/ AnyAnswer \/ SourceEvent

PageSpec == PageInit /\ [][PageNext]_pageVars

-----------------------------------------------------------------------------
(* Properties. *)

\* After "Start a new review" nothing of the erased review comes back: no late answer shows
\* its result or its conversation again, watches it, or makes it the current one, in this
\* load of the page or in the next one.
NothingErasedComesBack ==
    erased \intersect ({review, stored, shown, source.review} \union chat) = {}

\* What the screen shows is about what the page does now. In progress, something of the
\* current operation is under way: no late answer leaves a progress view that nothing will
\* end. A source is watched only in progress, for the current review. Results are those of
\* the current review. The country is the one of the chosen file.
ScreenMatchesOperation ==
    /\ view = "progress" =>
         \/ Active
         \/ \E r \in requests : /\ r.kind \in {"submit", "restore", "result"} /\ Current(r)
    /\ source # NoSource => view = "progress" /\ Active /\ source.review = review
    /\ view = "results" => shown = review /\ review # NoReview
    /\ intake.country \in {0, intake.file}

\* The reader of a review can ask the assistant, and ask one question at a time: "send" is
\* disabled only while an answer that will enable it is on its way, and enabled only when
\* no question of this review is being answered.
SendIsNeverStuck ==
    view = "results" =>
        IF assistant.sendOff
        THEN \E r \in requests : \/ r.kind = "history" /\ HistoryIsCurrent(r)
                                 \/ r.kind = "message" /\ MessageIsCurrent(r)
        ELSE \A r \in requests : ~(r.kind = "message" /\ r.review = review)
=============================================================================
