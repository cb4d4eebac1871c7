----------------------------- MODULE EventStream ----------------------------
(***************************************************************************)
(* The event stream of a review, as both ends keep it: review_events of    *)
(* routes.py, which reads the log after a cursor, and the EventSource of   *)
(* app.js (watchEvents, retryResearch), which reconnects by itself with    *)
(* the id of the last event it was given.  A viewer is one browser tab,    *)
(* which asks for a retry when its stream has told it of a failure; other  *)
(* clients of the API may ask as soon as the status says so.               *)
(***************************************************************************)
EXTENDS ReviewService

CONSTANTS
    Viewer,
    SourceErrorLimit   \* SOURCE_ERROR_LIMIT

ASSUME StreamAssumption == SourceErrorLimit \in Nat \ {0}

VARIABLE viewer

streamVars == <<vars, viewer>>

\* reading: the response is open; cut: it ended and the browser will reconnect; told: a
\* terminal event or "expired" arrived and the source is closed; lost: the page has closed
\* the source and says that the connection was interrupted; refused: the browser has given
\* up the source and the page waits.
Tab == [pc : {"away", "reading", "cut", "told", "retrying", "lost", "refused"},
        id : Id \union {None}, cursor : Nat, seen : Seq(Event), attempt : Nat, errors : Nat]

\* attempt is a history value: the attempt the tab has opened its stream for; errors counts
\* the consecutive error events of the source (sourceErrors).
Away == [pc |-> "away", id |-> None, cursor |-> 0, seen |-> << >>, attempt |-> 0, errors |-> 0]

Watching(i, n) == [Away EXCEPT !.pc = "reading", !.id = i, !.attempt = n]

StreamInit == Init /\ viewer = [v \in Viewer |-> Away]

-----------------------------------------------------------------------------
\* source.onerror: the page counts the error and closes the source at the limit; pc is what
\* the browser does below it.
Errored(tab, pc) ==
    [tab EXCEPT !.pc = IF tab.errors + 1 >= SourceErrorLimit THEN "lost" ELSE pc,
                !.errors = @ + 1]

\* A request of the stream is answered, fails, or is answered with an HTTP error, after
\* which the browser does not try again.
Connecting(tab) ==
    {[tab EXCEPT !.pc = "reading", !.errors = 0], Errored(tab, "cut"), Errored(tab, "refused")}

\* A tab submits the form, or restores a saved review that has no result yet.
Open(v, i) ==
    /\ viewer[v].pc = "away"
    /\ i \in Live(session) /\ ~session[i].result
    /\ \E tab \in Connecting(Watching(i, attempt[i])) : viewer' = [viewer EXCEPT ![v] = tab]
    /\ UNCHANGED vars

\* read_events(after = cursor)
After(s, cursor) == SubSeq(s.log, cursor + 1, Len(s.log))

\* A tab that has been given the first n events of a batch.
Given(tab, batch, n) == [tab EXCEPT !.cursor = @ + n, !.seen = @ \o SubSeq(batch, 1, n)]

\* One round of the generator: the events of one read are sent in order, up to the
\* first terminal one; the connection may break after any of them.
Read(v) ==
    /\ viewer[v].pc = "reading"
    /\ viewer[v].id \in Live(session)
    /\ LET tab   == viewer[v]
           batch == After(session[tab.id], tab.cursor)
           ends(n) == batch[n].kind \in TerminalKind
       IN  \E n \in DOMAIN batch :
              /\ \A k \in 1..(n - 1) : ~ends(k)
              /\ viewer' = [viewer EXCEPT ![v] =
                    IF ends(n) THEN [Given(tab, batch, n) EXCEPT !.pc = "told"]
                    ELSE IF n < Len(batch) THEN Errored(Given(tab, batch, n), "cut")
                    ELSE Given(tab, batch, n)]
    /\ UNCHANGED vars

\* Nothing to send until the deadline EVENT_STREAM_MAX_SECONDS.
StreamEnds(v) ==
    /\ viewer[v].pc = "reading"
    /\ viewer[v].id \in Live(session)
    /\ After(session[viewer[v].id], viewer[v].cursor) = << >>
    /\ viewer' = [viewer EXCEPT ![v] = Errored(@, "cut")]
    /\ UNCHANGED vars

\* A variant that forgets the last event id and starts over.
ReconnectFromStart(v) ==
    /\ viewer[v].pc = "cut"
    /\ viewer' = [viewer EXCEPT ![v].pc = "reading", ![v].cursor = 0]
    /\ UNCHANGED vars

\* The browser reconnects with Last-Event-ID; one more error in a row and the page gives up.
Reconnect(v) ==
    /\ viewer[v].pc = "cut"
    /\ \E tab \in Connecting(viewer[v]) : viewer' = [viewer EXCEPT ![v] = tab]
    /\ UNCHANGED vars

ToldExpired(v) ==
    /\ viewer[v].pc = "reading"
    /\ viewer[v].id \notin Live(session)
    /\ viewer' = [viewer EXCEPT ![v].pc = "told"]
    /\ UNCHANGED vars

Told(v, kind) ==
    /\ viewer[v].pc = "told"
    /\ viewer[v].seen # << >>
    /\ viewer[v].seen[Len(viewer[v].seen)].kind = kind

\* The tab shows "Retry research"; the service decides whether there is one.
AskRetry(v) ==
    /\ Told(v, "run_failed")
    /\ RetryResearch(viewer[v].id)
    /\ viewer' = [viewer EXCEPT ![v].pc = "retrying", ![v].attempt = attempt'[viewer[v].id]]

\* A variant that goes on with the cursor of the stream before.
WatchRetryFromCursor(v) ==
    /\ viewer[v].pc = "retrying"
    /\ EnqueueOf(viewer[v].id) \notin request
    /\ viewer' = [viewer EXCEPT ![v].pc = "reading"]
    /\ UNCHANGED vars

\* The 202 arrives after the enqueue: a new EventSource, without a cursor.
WatchRetry(v) ==
    /\ viewer[v].pc = "retrying"
    /\ EnqueueOf(viewer[v].id) \notin request
    /\ \E tab \in Connecting(Watching(viewer[v].id, viewer[v].attempt)) :
          viewer' = [viewer EXCEPT ![v] = tab]
    /\ UNCHANGED vars

-----------------------------------------------------------------------------
ViewerStep(v) ==
    \/ Read(v) \/ StreamEnds(v) \/ Reconnect(v) \/ ToldExpired(v)
    \/ AskRetry(v) \/ WatchRetry(v)
    \/ \E i \in Id : Open(v, i)

StreamNext ==
    \/ Next /\ UNCHANGED viewer
    \/ \E v \in Viewer : ViewerStep(v)

\* As in ReviewService, and the browser goes on reading and reconnecting.
StreamSpec ==
    /\ StreamInit /\ [][StreamNext]_streamVars
    /\ \A t \in Thread : WF_streamVars(WorkerStep(t) /\ UNCHANGED viewer)
    /\ \A i \in Id : WF_streamVars(/\ EnqueueOf(i) \in request
                                   /\ Enqueue(EnqueueOf(i))
                                   /\ UNCHANGED viewer)
    /\ \A v \in Viewer : /\ WF_streamVars(Read(v))
                         /\ WF_streamVars(Reconnect(v))
                         /\ WF_streamVars(ToldExpired(v))
                         /\ WF_streamVars(WatchRetry(v))

-----------------------------------------------------------------------------
\* Nobody else has started a new attempt while the tab watches its own.
Current(v) == viewer[v].id \in Id /\ viewer[v].attempt = attempt[viewer[v].id]

\* Of the events of the attempt it watches a tab has been given the first ones, in
\* order: no cut, reconnection or retry makes a stream lose or repeat an event.
StreamLosesNothing ==
    \A v \in Viewer :
        viewer[v].id \in Live(session) /\ Current(v) =>
            LET log      == session[viewer[v].id].log
                seen     == viewer[v].seen
                ours     == {n \in DOMAIN seen : seen[n].attempt = viewer[v].attempt}
                place(n) == Cardinality({k \in ours : k <= n})
            IN  \A n \in ours : place(n) \in DOMAIN log /\ log[place(n)] = seen[n]

\* A tab that watches a review is eventually told how it ended, or says that its connection
\* was interrupted: it never waits for good. That holds whatever other clients do, unless
\* one of them has started a new attempt under its eyes (onerror, SOURCE_ERROR_LIMIT).
ViewerIsTold ==
    \A v \in Viewer :
        viewer[v].pc = "reading" ~> viewer[v].pc \in {"told", "lost"} \/ ~Current(v)
=============================================================================
