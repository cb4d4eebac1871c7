---------------------------- MODULE ReviewService ---------------------------
(***************************************************************************)
(* The request handlers of routes.py, run_assessment, and the two queues   *)
(* of background.py, over one session store.  A handler or a run is a      *)
(* series of store operations with nothing held in between, so the model   *)
(* takes one step per store operation and lets all actors interleave.      *)
(*                                                                         *)
(* Persistent = TRUE  is SQLiteSessionStore with PersistentAssessmentWorker*)
(*   (one worker thread; the process may crash and restart; a store        *)
(*   operation may raise sqlite3.OperationalError).                        *)
(* Persistent = FALSE is VolatileSessionStore with InProcessAssessmentQueue*)
(*   (a thread per enqueue; a crash loses everything, so none is modelled).*)
(***************************************************************************)
EXTENDS SessionStore

CONSTANTS
    Thread,       \* the threads that run reviews
    Persistent,   \* which of the two deployments
    EagerRetry,   \* may a client ask for a retry before it has seen run_failed?
    MaxRetry,     \* bound: accepted research retries per review
    MaxProgress,  \* bound: progress events per run
    MaxFault,     \* bound: store operations that raise
    MaxCrash      \* bound: crashes of the process

ASSUME ServiceAssumption ==
    /\ Persistent \in BOOLEAN /\ EagerRetry \in BOOLEAN
    /\ Persistent => \E w \in Thread : Thread = {w}
    /\ ~Persistent => MaxFault = 0 /\ MaxCrash = 0
    /\ MaxRetry \in Nat /\ MaxProgress \in Nat /\ MaxFault \in Nat /\ MaxCrash \in Nat

VARIABLES
    thread,    \* what each run thread is doing
    request,   \* request handlers between two of their store operations
    attempt,   \* history: accepted research retries of each review
    family,    \* history: the review each correction ultimately corrects
    erased,    \* history: the families whose owner asked for deletion
    faults, crashes

vars == <<session, thread, request, attempt, family, erased, faults, crashes>>

-----------------------------------------------------------------------------
Step == {"idle", "start", "work", "save", "announce_complete",
         "clear", "mark_failed", "announce_failed"}

\* One run_assessment call.  "fallback" is TRUE inside the worker's _fail_closed.
Run == [pc : Step, id : Id \union {None}, attempt : Nat, code : Code,
        sent : Nat, fallback : BOOLEAN]

Idle == [pc |-> "idle", id |-> None, attempt |-> 0, code |-> "none",
         sent |-> 0, fallback |-> FALSE]

StartOf(i) == [Idle EXCEPT !.pc = "start", !.id = i, !.attempt = attempt[i]]

\* A handler that has yet to enqueue, or (a correction) to create the child.
Request == [op : {"enqueue"}, id : Id, code : {"none"}]
           \union [op : {"correct"}, id : Id, code : Code]

EnqueueOf(i) == [op |-> "enqueue", id |-> i, code |-> "none"]

TypeOK ==
    /\ StoreTypeOK
    /\ thread \in [Thread -> Run]
    /\ request \in SUBSET Request
    /\ attempt \in [Id -> Nat]
    /\ family \in [Id -> Id]
    /\ erased \in SUBSET Id
    /\ faults \in Nat
    /\ crashes \in Nat

Init ==
    /\ StoreInit
    /\ thread = [t \in Thread |-> Idle]
    /\ request = {}
    /\ attempt = [i \in Id |-> 0]
    /\ family = [i \in Id |-> i]
    /\ erased = {}
    /\ faults = 0
    /\ crashes = 0

history == <<attempt, family, erased>>
failures == <<faults, crashes>>

-----------------------------------------------------------------------------
(***************************************************************************)
(* Requests.                                                               *)
(***************************************************************************)
\* POST /api/reviews: the session is stored, the enqueue is still to come.
CreateReview(i) ==
    /\ session[i].status = "unused"
    /\ session' = Create(session, i, None, "none")
    /\ request' = request \union {EnqueueOf(i)}
    /\ UNCHANGED <<thread, history, failures>>

\* POST .../corrections: the parent is read, and the child built from the copy.
ReadParent(p) ==
    /\ p \in Live(session)
    /\ request' = request \union {[op |-> "correct", id |-> p, code |-> session[p].code]}
    /\ UNCHANGED <<session, thread, history, failures>>

CreateCorrection(r, i) ==
    /\ r.op = "correct"
    /\ session[i].status = "unused"
    /\ session' = Create(session, i, r.id, r.code)
    /\ request' = (request \ {r}) \union {EnqueueOf(i)}
    /\ family' = [family EXCEPT ![i] = family[r.id]]
    /\ UNCHANGED <<thread, attempt, erased, failures>>

\* A variant that queues the review without asking whether it still exists.
EnqueueUnchecked(r) ==
    /\ r.op = "enqueue"
    /\ Persistent
    /\ request' = request \ {r}
    /\ session' = SetStatus(session, r.id, "queued")
    /\ UNCHANGED <<thread, history, failures>>

\* assessment_queue.enqueue: the worker's queue is the status in the store, and
\* the handler fails if the session has gone; the in-process queue starts a thread.
Enqueue(r) ==
    /\ r.op = "enqueue"
    /\ request' = request \ {r}
    /\ IF Persistent
       THEN /\ session' = IF r.id \in Live(session)
                          THEN SetStatus(session, r.id, "queued") ELSE session
            /\ UNCHANGED thread
       ELSE /\ \E t \in Thread : /\ thread[t].pc = "idle"
                                 /\ thread' = [thread EXCEPT ![t] = StartOf(r.id)]
            /\ UNCHANGED session
    /\ UNCHANGED <<history, failures>>

\* What the browser has seen before it offers "Retry research".
FailureSeen(i) == Logged(session[i], {"run_failed"})

\* POST .../retry-research: the reset is one store operation, the enqueue another.
RetryResearch(i) ==
    /\ ResearchFailed(session, i)
    /\ EagerRetry \/ FailureSeen(i)
    /\ attempt[i] < MaxRetry
    /\ attempt' = [attempt EXCEPT ![i] = @ + 1]
    /\ session' = ResetResearch(session, i, attempt[i] + 1)
    /\ request' = request \union {EnqueueOf(i)}
    /\ UNCHANGED <<thread, family, erased, failures>>

\* DELETE /api/reviews/<id>
DeleteReview(i) ==
    /\ session[i].status # "unused"
    /\ session' = Delete(session, i)
    /\ erased' = erased \union {family[i]}
    /\ UNCHANGED <<thread, request, attempt, family, failures>>

\* The time to live of a session passes; the next operation purges it.
Expire(i) ==
    /\ i \in Live(session)
    /\ session' = Purge(session, {i})
    /\ UNCHANGED <<thread, request, history, failures>>

-----------------------------------------------------------------------------
(***************************************************************************)
(* The worker's claim and the steps of run_assessment.                     *)
(***************************************************************************)
\* A variant that claims a review whatever its status.
ClaimAny(t, i) ==
    /\ Persistent
    /\ thread[t].pc = "idle"
    /\ i \in Live(session)
    /\ session' = SetStatus(session, i, "running")
    /\ thread' = [thread EXCEPT ![t] = StartOf(i)]
    /\ UNCHANGED <<request, history, failures>>

Claim(t, i) ==
    /\ Persistent
    /\ thread[t].pc = "idle"
    /\ session[i].status = "queued"
    /\ session' = SetStatus(session, i, "running")
    /\ thread' = [thread EXCEPT ![t] = StartOf(i)]
    /\ UNCHANGED <<request, history, failures>>

\* Thread t is about to perform the store operation of step pc on a live session.
At(t, pc) == thread[t].pc = pc /\ thread[t].id \in Live(session)

Goto(t, pc) == thread' = [thread EXCEPT ![t].pc = pc]

End(t) == thread' = [thread EXCEPT ![t] = Idle]

MarkRunning(t) ==
    /\ At(t, "start")
    /\ session' = SetStatus(session, thread[t].id, "running")
    /\ Goto(t, "work")
    /\ UNCHANGED <<request, history, failures>>

\* Any event of the orchestrator that is not terminal.
EmitProgress(t) ==
    /\ At(t, "work")
    /\ thread[t].sent < MaxProgress
    /\ session' = Emit(session, thread[t].id, "progress", thread[t].attempt)
    /\ thread' = [thread EXCEPT ![t].sent = @ + 1]
    /\ UNCHANGED <<request, history, failures>>

\* orchestrator.run returns or raises; its own terminal event is only buffered.
Succeed(t) ==
    /\ thread[t].pc = "work"
    /\ thread[t].sent > 0
    /\ Goto(t, "save")
    /\ UNCHANGED <<session, request, history, failures>>

\* A variant without the except branch.
RaiseUncaught(t, code) ==
    /\ thread[t].pc = "work"
    /\ thread[t].sent > 0
    /\ End(t)
    /\ UNCHANGED <<session, request, history, failures>>

Raise(t, code) ==
    /\ thread[t].pc = "work"
    /\ thread[t].sent > 0
    /\ thread' = [thread EXCEPT ![t].pc = "clear", ![t].code = code]
    /\ UNCHANGED <<session, request, history, failures>>

\* A variant that announces the completion before the result is stored.
SaveAfterAnnouncing(t) ==
    /\ At(t, "save")
    /\ session' = Emit(session, thread[t].id, "run_complete", thread[t].attempt)
    /\ Goto(t, "announce_complete")
    /\ UNCHANGED <<request, history, failures>>

SaveResult(t) ==
    /\ At(t, "save")
    /\ session' = Complete(session, thread[t].id)
    /\ Goto(t, "announce_complete")
    /\ UNCHANGED <<request, history, failures>>

AnnounceComplete(t) ==
    /\ At(t, "announce_complete")
    /\ session' = Emit(session, thread[t].id, "run_complete", thread[t].attempt)
    /\ End(t)
    /\ UNCHANGED <<request, history, failures>>

\* A variant that goes straight to the status and leaves the result behind.
ClearNothing(t) ==
    /\ At(t, "clear")
    /\ Goto(t, "mark_failed")
    /\ UNCHANGED <<session, request, history, failures>>

\* A variant that stores the failure first and clears the result second.
ClearAfterMarking(t) ==
    /\ At(t, "clear")
    /\ session' = Fail(session, thread[t].id, thread[t].code)
    /\ Goto(t, "mark_failed")
    /\ UNCHANGED <<request, history, failures>>

\* The except branch of run_assessment, and _fail_closed after it.
ClearPartial(t) ==
    /\ At(t, "clear")
    /\ session' = RemoveResult(session, thread[t].id)
    /\ Goto(t, "mark_failed")
    /\ UNCHANGED <<request, history, failures>>

MarkFailed(t) ==
    /\ At(t, "mark_failed")
    /\ session' = Fail(session, thread[t].id, thread[t].code)
    /\ Goto(t, "announce_failed")
    /\ UNCHANGED <<request, history, failures>>

AnnounceFailed(t) ==
    /\ At(t, "announce_failed")
    /\ session' = Emit(session, thread[t].id, "run_failed", thread[t].attempt)
    /\ End(t)
    /\ UNCHANGED <<request, history, failures>>

\* SessionExpired: the run ends without a trace.
SessionLost(t) ==
    /\ thread[t].pc # "idle"
    /\ thread[t].id \notin Live(session)
    /\ End(t)
    /\ UNCHANGED <<session, request, history, failures>>

-----------------------------------------------------------------------------
(***************************************************************************)
(* A store operation raises, or the process crashes and restarts.          *)
(***************************************************************************)
Recording(t) == thread[t].pc \in {"clear", "mark_failed", "announce_failed"}

\* A variant without _fail_closed: an error in the except branch ends the run.
StoreFaultNoFallback(t) ==
    /\ thread[t].pc # "idle"
    /\ faults < MaxFault
    /\ faults' = faults + 1
    /\ IF Recording(t) THEN End(t)
       ELSE thread' = [thread EXCEPT ![t].pc = "clear", ![t].code = "fatal"]
    /\ UNCHANGED <<session, request, history, crashes>>

\* The exception sends the run to its except branch, from there to _fail_closed,
\* and is swallowed (logged) there.
StoreFault(t) ==
    /\ thread[t].pc # "idle"
    /\ faults < MaxFault
    /\ faults' = faults + 1
    /\ IF thread[t].fallback
       THEN End(t)
       ELSE thread' = [thread EXCEPT ![t].pc = "clear", ![t].code = "fatal",
                                     ![t].fallback = Recording(t)]
    /\ UNCHANGED <<session, request, history, crashes>>

\* The second store operation of a handler raises: the handler answers 500.
RequestFault(r) ==
    /\ faults < MaxFault
    /\ faults' = faults + 1
    /\ request' = request \ {r}
    /\ UNCHANGED <<session, thread, history, crashes>>

\* Threads and handlers vanish; start() requeues what was running.
Crash ==
    /\ crashes < MaxCrash
    /\ crashes' = crashes + 1
    /\ thread' = [t \in Thread |-> Idle]
    /\ request' = {}
    /\ session' = Requeue(session)
    /\ UNCHANGED <<history, faults>>

-----------------------------------------------------------------------------
RunStep(t) ==
    \/ MarkRunning(t) \/ EmitProgress(t) \/ Succeed(t)
    \/ \E code \in {"retryable", "fatal"} : Raise(t, code)
    \/ SaveResult(t) \/ AnnounceComplete(t)
    \/ ClearPartial(t) \/ MarkFailed(t) \/ AnnounceFailed(t)
    \/ SessionLost(t)

WorkerStep(t) == RunStep(t) \/ \E i \in Id : Claim(t, i)

HandlerStep ==
    \E r \in request : Enqueue(r) \/ \E i \in Id : CreateCorrection(r, i)

ClientStep ==
    \E i \in Id : CreateReview(i) \/ ReadParent(i) \/ DeleteReview(i) \/ Expire(i)

Failure ==
    \/ \E t \in Thread : StoreFault(t)
    \/ \E r \in request : RequestFault(r)
    \/ Crash

ServerStep == (\E t \in Thread : WorkerStep(t)) \/ HandlerStep

Next == ServerStep \/ ClientStep \/ (\E i \in Id : RetryResearch(i)) \/ Failure

Spec == Init /\ [][Next]_vars

\* Threads are scheduled and handlers go on: the worker's loop only ends with the
\* process, and nothing in a handler waits for anybody.
Fairness ==
    /\ \A t \in Thread : WF_vars(WorkerStep(t))
    /\ \A i \in Id : WF_vars(EnqueueOf(i) \in request /\ Enqueue(EnqueueOf(i)))

FairSpec == Spec /\ Fairness

-----------------------------------------------------------------------------
(***************************************************************************)
(* Properties.                                                             *)
(***************************************************************************)
\* A stored result is only ever seen beside the status "complete": GET .../result
\* answers 200 on the result alone (routes.py:383), the assistant asks for both.
ResultMeansComplete ==
    \A i \in Id : session[i].result => session[i].status = "complete"

\* Whoever reads run_complete in the log finds the review complete and its result
\* stored, whatever other run, retry or failed store operation came in between.
CompletionIsReal ==
    \A i \in Id : Logged(session[i], {"run_complete"}) =>
                     session[i].status = "complete" /\ session[i].result

\* Nothing follows a terminal event: the stream stops reading there (routes.py:362).
TerminalEndsLog ==
    \A i \in Id : \A n \in DOMAIN session[i].log :
        session[i].log[n].kind \in TerminalKind => n = Len(session[i].log)

Runs(t, i) == thread[t].pc # "idle" /\ thread[t].id = i

\* Two threads with the same review never both work on it: one of them has already
\* stored its failure and has only the announcement left.
OneWriter ==
    \A i \in Id : \A t, u \in Thread :
        Runs(t, i) /\ Runs(u, i) /\ t # u =>
            thread[t].pc = "announce_failed" \/ thread[u].pc = "announce_failed"

\* A verdict that nobody is left to announce has been announced: a viewer that
\* connects later still gets the terminal event.  One failing store operation does
\* not prevent that; a second one, in _fail_closed, does.
VerdictIsAnnounced ==
    \A i \in Id : \/ faults > 1
                 \/ session[i].status \notin {"complete", "failed"}
                 \/ Logged(session[i], TerminalKind)
                 \/ \E t \in Thread : Runs(t, i)

\* With no crash in between: whatever single store operation raises, and whoever
\* else interferes, a stored verdict is announced.
VerdictSurvivesFaults == crashes = 0 => VerdictIsAnnounced

\* Once a family has been erased, none of its reviews is left in the store.
ErasedStaysErased ==
    \A i \in Live(session) : family[i] \notin erased

\* A deletion takes every review of the family, corrections of corrections included,
\* as long as none of them is already missing from the chain of parents.
DeletionTakesTheFamily ==
    [][\A i \in Id :
          /\ family[i] \in erased' \ erased
          /\ \A j \in Id : family[j] = family[i] => session[j] # Gone
          => session'[i].status \in {"unused", "gone"}]_vars

\* A review that is gone stays gone: no late step of a run or handler revives it.
GoneStaysGone ==
    [][\A i \in Id : session[i] = Gone => session'[i] = Gone]_session

\* A completed review that has been announced never changes again, short of removal.
PublishedReviewIsFrozen ==
    [][\A i \in Id : Logged(session[i], {"run_complete"}) =>
                        session'[i] \in {session[i], Gone}]_session

\* Every accepted review ends: it is announced, deleted or expires.
EveryReviewEnds ==
    \A i \in Id : session[i].status \in Status ~>
                     session[i] = Gone \/ Logged(session[i], TerminalKind)

\* The service keeps the promise of ReviewPromise.
Phase == [i \in Id |-> IF session[i].status \in {"created", "queued", "running"}
                        THEN "working" ELSE session[i].status]

Announced == [i \in Id |-> IF Logged(session[i], {"run_complete"}) THEN "complete"
                            ELSE IF Logged(session[i], {"run_failed"}) THEN "failed"
                            ELSE "nothing"]

Promise == INSTANCE ReviewPromise WITH phase <- Phase, announced <- Announced

KeepsPromise == Promise!PromiseSpec
=============================================================================
