------------------------- MODULE ReviewServiceProofs ------------------------
(***************************************************************************)
(* Theorems about ReviewService and EventStream, for every set of ids, of  *)
(* threads and of viewers, every bound and both deployments.  The parts:   *)
(*                                                                         *)
(* 1. The reviews.  The invariant IInv says which statuses a review can    *)
(*    have while a run is at each of its steps and while a handler has yet *)
(*    to enqueue it.                                                       *)
(* 2. The families.  FamilyInv says that the links of a family that is     *)
(*    whole hold it together, so that a deletion finds all of it.          *)
(* 3. The promise.  A log ends with its terminal event, and nobody works   *)
(*    any more on a review that has one; that needs a client that asks for *)
(*    a retry only after it has been told of the failure, as the browser   *)
(*    does.  The verdict of a run survives a failing store operation       *)
(*    whatever the clients do.                                             *)
(* 4. The stream.  AttemptInv says whose attempt the runs and the events   *)
(*    of a review are of, TabInv what a tab has been given of its log.     *)
(***************************************************************************)
EXTENDS EventStream, IterationLemmas, SequenceTheorems, TLAPS

Sessions == [Id -> Session]

\* Only the session of i differs between the maps m and n.
OnlyAt(m, n, i) == n \in Sessions /\ \A j \in Id \ {i} : n[j] = m[j]

\* run_complete is in the log of session s.
Completed(s) == Logged(s, {"run_complete"})

-----------------------------------------------------------------------------
(***************************************************************************)
(* What the operations of the store do to one session.                     *)
(***************************************************************************)
LEMMA BlankIsSession ==
    ASSUME NEW s \in Status \union {"unused", "gone"}
    PROVE  /\ Blank(s) \in Session
           /\ Blank(s).status = s /\ ~Blank(s).result /\ ~Completed(Blank(s))
  BY DEF Blank, Session, Status, Code, Completed, Logged

LEMMA CreateLemma ==
    ASSUME NEW m \in Sessions, NEW i \in Id, NEW p \in Id \union {None}, NEW c \in Code
    PROVE  /\ OnlyAt(m, Create(m, i, p, c), i)
           /\ Create(m, i, p, c)[i].status = "created"
           /\ ~Create(m, i, p, c)[i].result
           /\ ~Completed(Create(m, i, p, c)[i])
  <1> DEFINE b == [Blank("created") EXCEPT !.code = c, !.parent = p]
  <1>1. Blank("created") \in Session /\ Blank("created").log = << >>
    BY BlankIsSession DEF Status, Blank
  <1>2. b \in Session /\ b.status = "created" /\ ~b.result /\ b.log = << >>
    BY <1>1 DEF Session, Blank
  <1>3. Create(m, i, p, c) = [m EXCEPT ![i] = b]
    BY DEF Create
  <1> HIDE DEF b
  <1>4. OnlyAt(m, Create(m, i, p, c), i) /\ Create(m, i, p, c)[i] = b
    BY <1>2, <1>3 DEF Sessions, OnlyAt
  <1> QED
    BY <1>2, <1>4 DEF Completed, Logged

LEMMA SetStatusLemma ==
    ASSUME NEW m \in Sessions, NEW i \in Id, NEW s \in Status
    PROVE  /\ OnlyAt(m, SetStatus(m, i, s), i)
           /\ SetStatus(m, i, s)[i].status = s
           /\ SetStatus(m, i, s)[i].result = m[i].result
           /\ Completed(SetStatus(m, i, s)[i]) <=> Completed(m[i])
  BY DEF SetStatus, Sessions, OnlyAt, Session, Completed, Logged

LEMMA CompleteLemma ==
    ASSUME NEW m \in Sessions, NEW i \in Id
    PROVE  /\ OnlyAt(m, Complete(m, i), i)
           /\ Complete(m, i)[i].status = "complete"
           /\ Complete(m, i)[i].result
           /\ Completed(Complete(m, i)[i]) <=> Completed(m[i])
  BY DEF Complete, Sessions, OnlyAt, Session, Status, Completed, Logged

LEMMA FailLemma ==
    ASSUME NEW m \in Sessions, NEW i \in Id, NEW c \in Code
    PROVE  /\ OnlyAt(m, Fail(m, i, c), i)
           /\ Fail(m, i, c)[i].status = "failed"
           /\ Fail(m, i, c)[i].result = m[i].result
           /\ Completed(Fail(m, i, c)[i]) <=> Completed(m[i])
  BY DEF Fail, Sessions, OnlyAt, Session, Status, Completed, Logged

LEMMA RemoveResultLemma ==
    ASSUME NEW m \in Sessions, NEW i \in Id
    PROVE  /\ OnlyAt(m, RemoveResult(m, i), i)
           /\ RemoveResult(m, i)[i].status = m[i].status
           /\ ~RemoveResult(m, i)[i].result
           /\ Completed(RemoveResult(m, i)[i]) <=> Completed(m[i])
  BY DEF RemoveResult, Sessions, OnlyAt, Session, Completed, Logged

LEMMA ResetLemma ==
    ASSUME NEW m \in Sessions, NEW i \in Id, NEW n \in Nat
    PROVE  /\ OnlyAt(m, ResetResearch(m, i, n), i)
           /\ ResetResearch(m, i, n)[i].status = "created"
           /\ ~ResetResearch(m, i, n)[i].result
           /\ ~Completed(ResetResearch(m, i, n)[i])
  <1> DEFINE e == [kind |-> "run_started", attempt |-> n]
             r == [m[i] EXCEPT !.status = "created", !.result = FALSE,
                               !.code = "none", !.log = << e >>]
  <1>1. e \in Event
    BY DEF Event, Kind
  <1>2. << e >> \in Seq(Event) /\ << e >>[1] = e /\ DOMAIN << e >> = {1}
    BY <1>1
  <1>3. e.kind = "run_started"
    OBVIOUS
  <1> HIDE DEF e
  <1>4. m[i] \in Session
    BY DEF Sessions
  <1>5. r \in Session /\ r.status = "created" /\ ~r.result /\ r.log = << e >>
    BY <1>2, <1>4 DEF Session, Status, Code
  <1>6. ResetResearch(m, i, n) = [m EXCEPT ![i] = r]
    BY DEF ResetResearch, e, Sessions
  <1> HIDE DEF r
  <1>7. OnlyAt(m, ResetResearch(m, i, n), i) /\ ResetResearch(m, i, n)[i] = r
    BY <1>5, <1>6 DEF Sessions, OnlyAt
  <1> QED
    BY <1>2, <1>3, <1>5, <1>7 DEF Completed, Logged

LEMMA EmitLemma ==
    ASSUME NEW m \in Sessions, NEW i \in Id, NEW k \in Kind, NEW n \in Nat
    PROVE  /\ OnlyAt(m, Emit(m, i, k, n), i)
           /\ Emit(m, i, k, n)[i].status = m[i].status
           /\ Emit(m, i, k, n)[i].result = m[i].result
           /\ Completed(Emit(m, i, k, n)[i]) <=> Completed(m[i]) \/ k = "run_complete"
  <1> DEFINE e   == [kind |-> k, attempt |-> n]
             log == m[i].log
             r   == [m[i] EXCEPT !.log = Append(log, e)]
  <1>1. e \in Event /\ e.kind = k
    BY DEF Event
  <1>2. m[i] \in Session /\ log \in Seq(Event)
    BY DEF Sessions, Session
  <1>3. Emit(m, i, k, n) = [m EXCEPT ![i] = r]
    BY DEF Emit, Sessions
  <1> HIDE DEF e
  <1>4. /\ Append(log, e) \in Seq(Event)
        /\ DOMAIN Append(log, e) = 1..(Len(log) + 1)
        /\ DOMAIN log = 1..Len(log) /\ Len(log) \in Nat
        /\ Append(log, e)[Len(log) + 1] = e
        /\ \A j \in 1..Len(log) : Append(log, e)[j] = log[j]
    BY <1>1, <1>2
  <1>5. /\ r \in Session /\ r.log = Append(log, e)
        /\ r.status = m[i].status /\ r.result = m[i].result
    BY <1>2, <1>4 DEF Session
  <1> HIDE DEF r
  <1>6. OnlyAt(m, Emit(m, i, k, n), i) /\ Emit(m, i, k, n)[i] = r
    BY <1>3, <1>5 DEF Sessions, OnlyAt
  <1>7. Completed(r) <=> Completed(m[i]) \/ k = "run_complete"
    <2>1. Completed(m[i]) <=> \E j \in 1..Len(log) : log[j].kind = "run_complete"
      BY <1>4 DEF Completed, Logged
    <2>2. Completed(r) <=> \E j \in 1..(Len(log) + 1) : Append(log, e)[j].kind = "run_complete"
      BY <1>4, <1>5 DEF Completed, Logged
    <2>3. 1..(Len(log) + 1) = 1..Len(log) \union {Len(log) + 1}
      BY <1>4
    <2> QED
      BY <1>1, <1>4, <2>1, <2>2, <2>3
  <1> QED
    BY <1>5, <1>6, <1>7

LEMMA PurgeLemma ==
    ASSUME NEW m \in Sessions, NEW S
    PROVE  /\ Purge(m, S) \in Sessions
           /\ \A i \in Id : Purge(m, S)[i] = IF i \in S THEN Gone ELSE m[i]
  BY BlankIsSession DEF Purge, Sessions, Gone, Status

LEMMA RequeueLemma ==
    ASSUME NEW m \in Sessions
    PROVE  /\ Requeue(m) \in Sessions
           /\ \A i \in Id : /\ m[i].status # "running" => Requeue(m)[i] = m[i]
                            /\ m[i].status = "running" => Requeue(m)[i].status = "queued"
                            /\ Requeue(m)[i].result = m[i].result
                            /\ Completed(Requeue(m)[i]) <=> Completed(m[i])
  BY DEF Requeue, Sessions, Session, Status, Completed, Logged

-----------------------------------------------------------------------------
(***************************************************************************)
(* The inductive invariant.                                                *)
(***************************************************************************)

\* The steps after which a run may still write the verdict of a failure.
FailureStep == {"clear", "mark_failed", "announce_failed"}

\* A review about to be enqueued is new, or has failed again in the hands of a run
\* whose last store operation raised.
Pendable == IF Persistent THEN {"created", "failed", "gone"} ELSE {"created", "gone"}

\* Nobody works on a review that is about to be enqueued.
PendingInv ==
    \A i \in Id : EnqueueOf(i) \in request =>
        /\ session[i].status \in Pendable
        /\ \A t \in Thread : Runs(t, i) =>
              thread[t].pc \in IF Persistent THEN FailureStep ELSE {"announce_failed"}

\* What a run at step s of review i knows of the review.
StepInv(s, i) ==
    /\ session[i].status # "unused"
    /\ s = "start" => session[i].status \in {"created", "running", "gone"}
    /\ s \in {"work", "save"} => session[i].status \in {"running", "gone"}
    /\ s \in {"clear", "mark_failed"} =>
          IF Persistent THEN TRUE ELSE session[i].status \in {"running", "gone"}
    /\ s = "announce_complete" =>
          \/ session[i].status = "gone"
          \/ session[i].status = "complete" /\ session[i].result
    /\ s \in {"announce_complete", "clear", "mark_failed"} => ~Completed(session[i])
    /\ s = "announce_failed" /\ Persistent => ~Completed(session[i])
    /\ s = "mark_failed" => ~session[i].result

RunInv == \A t \in Thread : thread[t].pc # "idle" =>
              thread[t].id \in Id /\ StepInv(thread[t].pc, thread[t].id)

\* ResultMeansComplete and CompletionIsReal for one review.
SessionInv(i) ==
    /\ session[i].result => session[i].status = "complete"
    /\ Completed(session[i]) => session[i].status = "complete" /\ session[i].result

IInv ==
    /\ TypeOK
    /\ PendingInv
    /\ RunInv
    /\ OneWriter
    /\ \A i \in Id : SessionInv(i)

-----------------------------------------------------------------------------
(***************************************************************************)
(* Threads and requests.                                                   *)
(***************************************************************************)
LEMMA IdleIsRun == Idle \in Run /\ Idle.pc = "idle"
  BY DEF Idle, Run, Step, Code

LEMMA StartIsRun ==
    ASSUME NEW i \in Id, attempt \in [Id -> Nat]
    PROVE  /\ StartOf(i) \in Run
           /\ StartOf(i).pc = "start" /\ StartOf(i).id = i
  BY DEF StartOf, Idle, Run, Step, Code

\* Only thread t moves, to step pc of the same run.
LEMMA GotoLemma ==
    ASSUME thread \in [Thread -> Run], NEW t \in Thread, NEW pc \in Step, Goto(t, pc)
    PROVE  /\ thread' \in [Thread -> Run]
           /\ thread'[t].pc = pc /\ thread'[t].id = thread[t].id
           /\ \A u \in Thread \ {t} : thread'[u] = thread[u]
  BY DEF Goto, Run

LEMMA EndLemma ==
    ASSUME thread \in [Thread -> Run], NEW t \in Thread, End(t)
    PROVE  /\ thread' \in [Thread -> Run]
           /\ thread'[t].pc = "idle"
           /\ \A u \in Thread \ {t} : thread'[u] = thread[u]
  BY IdleIsRun DEF End

LEMMA EnqueueOfLemma ==
    /\ \A i \in Id : EnqueueOf(i) \in Request /\ EnqueueOf(i).id = i
                                             /\ EnqueueOf(i).op = "enqueue"
    /\ \A r \in Request : r.id \in Id /\ r.code \in Code
    /\ \A r \in Request : r.op = "enqueue" => r = EnqueueOf(r.id)
  BY DEF EnqueueOf, Request, Code

LEMMA OneThread == Persistent => \A t, u \in Thread : t = u
  BY ServiceAssumption

LEMMA TypeFacts ==
    ASSUME TypeOK
    PROVE  /\ session \in Sessions
           /\ thread \in [Thread -> Run]
           /\ \A t \in Thread : thread[t].pc \in Step /\ thread[t].attempt \in Nat
                                                    /\ thread[t].code \in Code
  BY DEF TypeOK, StoreTypeOK, Sessions, Run

-----------------------------------------------------------------------------
(***************************************************************************)
(* A step of one run, on its own review, preserves the invariant when the  *)
(* run knows what StepInv says after the step, and the failure steps only  *)
(* lead to each other and to the end.                                      *)
(***************************************************************************)
LEMMA RunMoves ==
    ASSUME IInv, NEW t \in Thread, NEW i \in Id,
           thread[t].pc # "idle", thread[t].id = i,
           OnlyAt(session, session', i),
           thread' \in [Thread -> Run],
           \A u \in Thread \ {t} : thread'[u] = thread[u],
           (thread[t].pc # "idle" => thread[t].id = i /\ StepInv(thread[t].pc, i))',
           thread[t].pc \in FailureStep => thread'[t].pc \in FailureStep \union {"idle"},
           thread[t].pc = "announce_failed" =>
              /\ Persistent \/ thread'[t].pc = "idle"
              /\ session'[i].status = session[i].status
              /\ session'[i].result = session[i].result
              /\ Completed(session[i])' <=> Completed(session[i]),
           SessionInv(i)', session'[i].status # "unused",
           EnqueueOf(i) \in request => session'[i].status \in Pendable,
           UNCHANGED <<request, history>>, faults' \in Nat, crashes' \in Nat
    PROVE  IInv'
  <1>1. /\ session' \in Sessions /\ \A j \in Id \ {i} : session'[j] = session[j]
        /\ session \in Sessions /\ thread \in [Thread -> Run]
    BY TypeFacts DEF OnlyAt, IInv
  <1>2. TypeOK'
    BY <1>1 DEF IInv, TypeOK, StoreTypeOK, Sessions, history
  <1>3. PendingInv'
    <2> SUFFICES ASSUME NEW j \in Id, EnqueueOf(j) \in request
                 PROVE  /\ session'[j].status \in Pendable
                        /\ \A u \in Thread : Runs(u, j)' =>
                             thread'[u].pc \in IF Persistent THEN FailureStep
                                                            ELSE {"announce_failed"}
      BY DEF PendingInv
    <2>1. session'[j].status \in Pendable
      BY <1>1 DEF IInv, PendingInv
    <2>2. ASSUME NEW u \in Thread, Runs(u, j)'
          PROVE  thread'[u].pc \in IF Persistent THEN FailureStep ELSE {"announce_failed"}
      <3>1. CASE u # t
        BY <2>2, <3>1 DEF IInv, PendingInv, Runs
      <3>2. CASE u = t
        <4>1. j = i /\ Runs(t, i)
          BY <2>2, <3>2 DEF Runs
        <4>2. thread[t].pc \in IF Persistent THEN FailureStep ELSE {"announce_failed"}
          BY <4>1 DEF IInv, PendingInv
        <4> QED
          BY <2>2, <3>2, <4>2 DEF Runs
      <3> QED
        BY <3>1, <3>2
    <2> QED
      BY <2>1, <2>2
  <1>4. RunInv'
    <2> SUFFICES ASSUME NEW u \in Thread, thread'[u].pc # "idle"
                 PROVE  thread'[u].id \in Id /\ StepInv(thread[u].pc, thread[u].id)'
      BY DEF RunInv
    <2>1. CASE u = t
      BY <2>1
    <2>2. CASE u # t
      <3>1. thread'[u] = thread[u] /\ thread[u].id \in Id
            /\ StepInv(thread[u].pc, thread[u].id)
        BY <2>2 DEF IInv, RunInv
      <3>2. CASE thread[u].id # i
        BY <1>1, <3>1, <3>2 DEF StepInv
      <3>3. CASE thread[u].id = i
        <4>1. ~Persistent
          BY <2>2, OneThread
        <4>2. thread[t].pc = "announce_failed" \/ thread[u].pc = "announce_failed"
          BY <2>2, <3>1, <3>3 DEF IInv, OneWriter, Runs
        <4> QED
          BY <3>1, <3>3, <4>1, <4>2 DEF StepInv
      <3> QED
        BY <3>2, <3>3
    <2> QED
      BY <2>1, <2>2
  <1>5. OneWriter'
    BY OneThread DEF IInv, OneWriter, Runs
  <1>6. \A j \in Id : SessionInv(j)'
    BY <1>1 DEF IInv, SessionInv
  <1> QED
    BY <1>2, <1>3, <1>4, <1>5, <1>6 DEF IInv

-----------------------------------------------------------------------------
(***************************************************************************)
(* The steps of a run.                                                     *)
(***************************************************************************)
\* What the invariant says when run t is about to perform its store operation pc.
LEMMA AtFacts ==
    ASSUME IInv, NEW t \in Thread, thread[t].pc # "idle"
    PROVE  /\ thread[t].id \in Id /\ StepInv(thread[t].pc, thread[t].id)
           /\ SessionInv(thread[t].id)
           /\ Runs(t, thread[t].id)
           /\ faults \in Nat /\ crashes \in Nat
  BY DEF IInv, RunInv, Runs, TypeOK

LEMMA MarkRunningStep ==
    ASSUME IInv, NEW t \in Thread, MarkRunning(t)
    PROVE  IInv'
  <1>0. PICK i \in Id : i = thread[t].id
    BY AtFacts DEF MarkRunning, At
  <1>1. /\ thread[t].pc = "start" /\ i \in Live(session)
        /\ session' = SetStatus(session, i, "running") /\ Goto(t, "work")
        /\ UNCHANGED <<request, history, failures>>
    BY <1>0 DEF MarkRunning, At
  <1>2. i \in Id /\ StepInv("start", i) /\ SessionInv(i) /\ Runs(t, i)
        /\ faults \in Nat /\ crashes \in Nat
    BY <1>0, <1>1, AtFacts
  <1>3. /\ OnlyAt(session, session', i) /\ session'[i].status = "running"
        /\ session'[i].result = session[i].result
        /\ Completed(session[i])' <=> Completed(session[i])
    BY <1>1, <1>2, TypeFacts, SetStatusLemma DEF IInv, Status
  <1>4. /\ thread' \in [Thread -> Run] /\ thread'[t].pc = "work" /\ thread'[t].id = i
        /\ \A u \in Thread \ {t} : thread'[u] = thread[u]
    BY <1>0, <1>1, TypeFacts, GotoLemma DEF IInv, Step
  <1>5. session[i].status \in {"created", "running"}
    BY <1>1, <1>2 DEF StepInv, Live, Status
  <1>6. SessionInv(i)'
    BY <1>2, <1>3, <1>5 DEF SessionInv
  <1>7. EnqueueOf(i) \notin request
    BY <1>1, <1>2 DEF IInv, PendingInv, FailureStep
  <1>8. StepInv("work", i)'
    BY <1>3 DEF StepInv
  <1> QED
    BY <1>0, <1>1, <1>2, <1>3, <1>4, <1>6, <1>7, <1>8, RunMoves DEF FailureStep, failures

LEMMA EmitProgressStep ==
    ASSUME IInv, NEW t \in Thread, EmitProgress(t)
    PROVE  IInv'
  <1>0. PICK i \in Id : i = thread[t].id
    BY AtFacts DEF EmitProgress, At
  <1>1. /\ thread[t].pc = "work" /\ i \in Live(session)
        /\ session' = Emit(session, i, "progress", thread[t].attempt)
        /\ thread' = [thread EXCEPT ![t].sent = @ + 1]
        /\ UNCHANGED <<request, history, failures>>
    BY <1>0 DEF EmitProgress, At
  <1>2. i \in Id /\ StepInv("work", i) /\ SessionInv(i) /\ Runs(t, i)
        /\ faults \in Nat /\ crashes \in Nat
    BY <1>0, <1>1, AtFacts
  <1>3. /\ OnlyAt(session, session', i) /\ session'[i].status = session[i].status
        /\ session'[i].result = session[i].result
        /\ Completed(session[i])' <=> Completed(session[i])
    BY <1>1, <1>2, TypeFacts, EmitLemma DEF IInv, Kind
  <1>4. /\ thread' \in [Thread -> Run] /\ thread'[t].pc = "work" /\ thread'[t].id = i
        /\ \A u \in Thread \ {t} : thread'[u] = thread[u]
    BY <1>0, <1>1, TypeFacts DEF IInv, Run
  <1>5. SessionInv(i)' /\ StepInv("work", i)'
    BY <1>2, <1>3 DEF SessionInv, StepInv
  <1>6. EnqueueOf(i) \notin request
    BY <1>1, <1>2 DEF IInv, PendingInv, FailureStep
  <1>7. session'[i].status # "unused"
    BY <1>2, <1>3 DEF StepInv
  <1> QED
    BY <1>0, <1>1, <1>2, <1>3, <1>4, <1>5, <1>6, <1>7, RunMoves DEF FailureStep, failures

\* The steps that only change what the run does next.
LEMMA LeaveWorkStep ==
    ASSUME IInv, NEW t \in Thread,
           Succeed(t) \/ \E code \in {"retryable", "fatal"} : Raise(t, code)
    PROVE  IInv'
  <1>0. PICK i \in Id : i = thread[t].id
    BY AtFacts DEF Succeed, Raise
  <1>1. /\ thread[t].pc = "work" /\ session' = session
        /\ UNCHANGED <<request, history, failures>>
    BY DEF Succeed, Raise
  <1>2. i \in Id /\ StepInv("work", i) /\ SessionInv(i) /\ Runs(t, i)
        /\ faults \in Nat /\ crashes \in Nat
    BY <1>0, <1>1, AtFacts
  <1>3. /\ thread' \in [Thread -> Run] /\ thread'[t].pc \in {"save", "clear"}
        /\ thread'[t].id = i
        /\ \A u \in Thread \ {t} : thread'[u] = thread[u]
    <2>1. CASE Succeed(t)
      BY <1>0, <2>1, TypeFacts, GotoLemma DEF Succeed, IInv, Step
    <2>2. CASE \E code \in {"retryable", "fatal"} : Raise(t, code)
      BY <1>0, <2>2, TypeFacts DEF Raise, IInv, Run, Step, Code
    <2> QED
      BY <2>1, <2>2
  <1>4. ~Completed(session[i])
    BY <1>2 DEF StepInv, SessionInv
  <1>5. StepInv("save", i)' /\ StepInv("clear", i)' /\ SessionInv(i)'
        /\ session'[i].status # "unused"
    BY <1>1, <1>2, <1>4 DEF StepInv, SessionInv
  <1>6. EnqueueOf(i) \notin request
    BY <1>1, <1>2 DEF IInv, PendingInv, FailureStep
  <1>7. OnlyAt(session, session', i)
    BY <1>1, TypeFacts DEF IInv, OnlyAt
  <1> QED
    BY <1>0, <1>1, <1>2, <1>3, <1>5, <1>6, <1>7, RunMoves DEF FailureStep, failures

LEMMA SaveResultStep ==
    ASSUME IInv, NEW t \in Thread, SaveResult(t)
    PROVE  IInv'
  <1>0. PICK i \in Id : i = thread[t].id
    BY AtFacts DEF SaveResult, At
  <1>1. /\ thread[t].pc = "save"
        /\ session' = Complete(session, i) /\ Goto(t, "announce_complete")
        /\ UNCHANGED <<request, history, failures>>
    BY <1>0 DEF SaveResult, At
  <1>2. StepInv("save", i) /\ SessionInv(i) /\ Runs(t, i) /\ faults \in Nat /\ crashes \in Nat
    BY <1>0, <1>1, AtFacts
  <1>3. /\ OnlyAt(session, session', i) /\ session'[i].status = "complete"
        /\ session'[i].result
        /\ Completed(session[i])' <=> Completed(session[i])
    BY <1>1, TypeFacts, CompleteLemma DEF IInv
  <1>4. /\ thread' \in [Thread -> Run] /\ thread'[t].pc = "announce_complete"
        /\ thread'[t].id = i /\ \A u \in Thread \ {t} : thread'[u] = thread[u]
    BY <1>0, <1>1, TypeFacts, GotoLemma DEF IInv, Step
  <1>5. ~Completed(session[i])
    BY <1>2 DEF StepInv, SessionInv
  <1>6. StepInv("announce_complete", i)' /\ SessionInv(i)'
    BY <1>3, <1>5 DEF StepInv, SessionInv
  <1>7. EnqueueOf(i) \notin request
    BY <1>1, <1>2 DEF IInv, PendingInv, FailureStep
  <1> QED
    BY <1>0, <1>1, <1>2, <1>3, <1>4, <1>6, <1>7, RunMoves DEF FailureStep, failures

LEMMA AnnounceCompleteStep ==
    ASSUME IInv, NEW t \in Thread, AnnounceComplete(t)
    PROVE  IInv'
  <1>0. PICK i \in Id : i = thread[t].id
    BY AtFacts DEF AnnounceComplete, At
  <1>1. /\ thread[t].pc = "announce_complete" /\ i \in Live(session)
        /\ session' = Emit(session, i, "run_complete", thread[t].attempt) /\ End(t)
        /\ UNCHANGED <<request, history, failures>>
    BY <1>0 DEF AnnounceComplete, At
  <1>2. /\ StepInv("announce_complete", i) /\ Runs(t, i)
        /\ faults \in Nat /\ crashes \in Nat
    BY <1>0, <1>1, AtFacts
  <1>3. /\ OnlyAt(session, session', i) /\ session'[i].status = session[i].status
        /\ session'[i].result = session[i].result
    BY <1>1, TypeFacts, EmitLemma DEF IInv, Kind
  <1>4. /\ thread' \in [Thread -> Run] /\ thread'[t].pc = "idle"
        /\ \A u \in Thread \ {t} : thread'[u] = thread[u]
    BY <1>1, TypeFacts, EndLemma DEF IInv
  <1>5. session[i].status = "complete" /\ session[i].result
    BY <1>1, <1>2 DEF StepInv, Live, Status
  <1>6. SessionInv(i)'
    BY <1>3, <1>5 DEF SessionInv
  <1>7. EnqueueOf(i) \notin request
    BY <1>1, <1>2 DEF IInv, PendingInv, FailureStep
  <1> QED
    BY <1>0, <1>1, <1>2, <1>3, <1>4, <1>5, <1>6, <1>7, RunMoves DEF FailureStep, failures

LEMMA ClearPartialStep ==
    ASSUME IInv, NEW t \in Thread, ClearPartial(t)
    PROVE  IInv'
  <1>0. PICK i \in Id : i = thread[t].id
    BY AtFacts DEF ClearPartial, At
  <1>1. /\ thread[t].pc = "clear"
        /\ session' = RemoveResult(session, i) /\ Goto(t, "mark_failed")
        /\ UNCHANGED <<request, history, failures>>
    BY <1>0 DEF ClearPartial, At
  <1>2. StepInv("clear", i) /\ Runs(t, i) /\ faults \in Nat /\ crashes \in Nat
    BY <1>0, <1>1, AtFacts
  <1>3. /\ OnlyAt(session, session', i) /\ session'[i].status = session[i].status
        /\ ~session'[i].result
        /\ Completed(session[i])' <=> Completed(session[i])
    BY <1>1, TypeFacts, RemoveResultLemma DEF IInv
  <1>4. /\ thread' \in [Thread -> Run] /\ thread'[t].pc = "mark_failed"
        /\ thread'[t].id = i /\ \A u \in Thread \ {t} : thread'[u] = thread[u]
    BY <1>0, <1>1, TypeFacts, GotoLemma DEF IInv, Step
  <1>5. StepInv("mark_failed", i)' /\ SessionInv(i)' /\ session'[i].status # "unused"
    BY <1>2, <1>3 DEF StepInv, SessionInv
  <1>6. EnqueueOf(i) \in request => session'[i].status \in Pendable
    BY <1>3 DEF IInv, PendingInv
  <1> QED
    BY <1>0, <1>1, <1>2, <1>3, <1>4, <1>5, <1>6, RunMoves DEF FailureStep, failures

LEMMA MarkFailedStep ==
    ASSUME IInv, NEW t \in Thread, MarkFailed(t)
    PROVE  IInv'
  <1>0. PICK i \in Id : i = thread[t].id
    BY AtFacts DEF MarkFailed, At
  <1>1. /\ thread[t].pc = "mark_failed" /\ thread[t].code \in Code
        /\ session' = Fail(session, i, thread[t].code) /\ Goto(t, "announce_failed")
        /\ UNCHANGED <<request, history, failures>>
    BY <1>0, TypeFacts DEF MarkFailed, At, IInv
  <1>2. StepInv("mark_failed", i) /\ Runs(t, i) /\ faults \in Nat /\ crashes \in Nat
    BY <1>0, <1>1, AtFacts
  <1>3. /\ OnlyAt(session, session', i) /\ session'[i].status = "failed"
        /\ session'[i].result = session[i].result
        /\ Completed(session[i])' <=> Completed(session[i])
    BY <1>1, TypeFacts, FailLemma DEF IInv
  <1>4. /\ thread' \in [Thread -> Run] /\ thread'[t].pc = "announce_failed"
        /\ thread'[t].id = i /\ \A u \in Thread \ {t} : thread'[u] = thread[u]
    BY <1>0, <1>1, TypeFacts, GotoLemma DEF IInv, Step
  <1>5. StepInv("announce_failed", i)' /\ SessionInv(i)'
    BY <1>2, <1>3 DEF StepInv, SessionInv
  <1>6. EnqueueOf(i) \in request => session'[i].status \in Pendable
    BY <1>1, <1>2, <1>3 DEF IInv, PendingInv, Pendable
  <1> QED
    BY <1>0, <1>1, <1>2, <1>3, <1>4, <1>5, <1>6, RunMoves DEF FailureStep, failures

LEMMA AnnounceFailedStep ==
    ASSUME IInv, NEW t \in Thread, AnnounceFailed(t)
    PROVE  IInv'
  <1>0. PICK i \in Id : i = thread[t].id
    BY AtFacts DEF AnnounceFailed, At
  <1>1. /\ thread[t].pc = "announce_failed" /\ thread[t].attempt \in Nat
        /\ session' = Emit(session, i, "run_failed", thread[t].attempt) /\ End(t)
        /\ UNCHANGED <<request, history, failures>>
    BY <1>0, TypeFacts DEF AnnounceFailed, At, IInv
  <1>2. StepInv("announce_failed", i) /\ SessionInv(i) /\ faults \in Nat /\ crashes \in Nat
    BY <1>0, <1>1, AtFacts
  <1>3. /\ OnlyAt(session, session', i) /\ session'[i].status = session[i].status
        /\ session'[i].result = session[i].result
        /\ Completed(session[i])' <=> Completed(session[i])
    BY <1>1, TypeFacts, EmitLemma DEF IInv, Kind
  <1>4. /\ thread' \in [Thread -> Run] /\ thread'[t].pc = "idle"
        /\ \A u \in Thread \ {t} : thread'[u] = thread[u]
    BY <1>1, TypeFacts, EndLemma DEF IInv
  <1>5. SessionInv(i)' /\ session'[i].status # "unused"
    BY <1>2, <1>3 DEF StepInv, SessionInv
  <1>6. EnqueueOf(i) \in request => session'[i].status \in Pendable
    BY <1>3 DEF IInv, PendingInv
  <1> QED
    BY <1>0, <1>1, <1>2, <1>3, <1>4, <1>5, <1>6, RunMoves DEF FailureStep, failures

\* A run that ends because its session has gone, or because of a store error.
LEMMA LeaveStep ==
    ASSUME IInv, NEW t \in Thread, thread[t].pc # "idle", End(t),
           UNCHANGED <<session, request, history, crashes>>, faults' \in Nat
    PROVE  IInv'
  <1>0. PICK i \in Id : i = thread[t].id
    BY AtFacts
  <1>1. StepInv(thread[t].pc, i) /\ SessionInv(i) /\ crashes \in Nat
    BY <1>0, AtFacts
  <1>2. /\ thread' \in [Thread -> Run] /\ thread'[t].pc = "idle"
        /\ \A u \in Thread \ {t} : thread'[u] = thread[u]
    BY TypeFacts, EndLemma DEF IInv
  <1>3. OnlyAt(session, session', i)
    BY TypeFacts DEF IInv, OnlyAt
  <1>4. SessionInv(i)' /\ session'[i].status # "unused"
    BY <1>1 DEF StepInv, SessionInv
  <1>5. EnqueueOf(i) \in request => session'[i].status \in Pendable
    BY DEF IInv, PendingInv
  <1> QED
    BY <1>0, <1>1, <1>2, <1>3, <1>4, <1>5, RunMoves

LEMMA StoreFaultStep ==
    ASSUME IInv, NEW t \in Thread, StoreFault(t)
    PROVE  IInv'
  <1>1. /\ thread[t].pc # "idle" /\ faults < MaxFault
        /\ faults' = faults + 1 /\ faults' \in Nat
        /\ UNCHANGED <<session, request, history, crashes>>
    BY AtFacts DEF StoreFault
  <1>2. Persistent
    BY <1>1, AtFacts, ServiceAssumption
  <1>3. CASE thread[t].fallback
    BY <1>1, <1>3, LeaveStep DEF StoreFault
  <1>4. CASE ~thread[t].fallback
    <2>0. PICK i \in Id : i = thread[t].id
      BY <1>1, AtFacts
    <2>1. StepInv(thread[t].pc, i) /\ SessionInv(i) /\ crashes \in Nat /\ Runs(t, i)
      BY <1>1, <2>0, AtFacts
    <2>2. /\ thread' \in [Thread -> Run] /\ thread'[t].pc = "clear" /\ thread'[t].id = i
          /\ \A u \in Thread \ {t} : thread'[u] = thread[u]
      BY <1>4, <2>0, TypeFacts DEF StoreFault, Recording, IInv, Run, Step, Code
    <2>3. OnlyAt(session, session', i)
      BY <1>1, TypeFacts DEF IInv, OnlyAt
    <2>4. ~Completed(session[i])
      BY <1>1, <1>2, <2>1, TypeFacts DEF StepInv, SessionInv, IInv, Step
    <2>5. StepInv("clear", i)' /\ SessionInv(i)' /\ session'[i].status # "unused"
      BY <1>1, <1>2, <2>1, <2>4 DEF StepInv, SessionInv
    <2>6. EnqueueOf(i) \in request => session'[i].status \in Pendable
      BY <1>1 DEF IInv, PendingInv
    <2> QED
      BY <1>1, <1>2, <2>0, <2>1, <2>2, <2>3, <2>4, <2>5, <2>6, RunMoves DEF FailureStep
  <1> QED
    BY <1>3, <1>4

-----------------------------------------------------------------------------
(***************************************************************************)
(* The steps of clients and handlers.                                      *)
(***************************************************************************)
\* A new session is stored and is to be enqueued.
LEMMA NewSessionStep ==
    ASSUME IInv, NEW i \in Id, NEW p \in Id \union {None}, NEW c \in Code, NEW R,
           session[i].status = "unused",
           session' = Create(session, i, p, c),
           R \subseteq request, request' = R \union {EnqueueOf(i)},
           family' \in [Id -> Id], UNCHANGED <<thread, attempt, erased, failures>>
    PROVE  IInv'
  <1>1. /\ OnlyAt(session, session', i) /\ session'[i].status = "created"
        /\ ~session'[i].result /\ ~Completed(session[i])'
    BY TypeFacts, CreateLemma DEF IInv
  <1>2. session' \in Sessions /\ \A j \in Id \ {i} : session'[j] = session[j]
    BY <1>1 DEF OnlyAt
  <1>3. \A t \in Thread : ~Runs(t, i)
    BY DEF IInv, RunInv, StepInv, Runs
  <1>4. TypeOK'
    BY <1>2, EnqueueOfLemma DEF IInv, TypeOK, StoreTypeOK, Sessions, failures
  <1>5. PendingInv'
    BY <1>1, <1>2, <1>3, EnqueueOfLemma DEF IInv, PendingInv, Pendable, Runs
  <1>6. RunInv'
    BY <1>2, <1>3 DEF IInv, RunInv, StepInv, Runs
  <1>7. OneWriter'
    BY DEF IInv, OneWriter, Runs
  <1>8. \A j \in Id : SessionInv(j)'
    BY <1>1, <1>2 DEF IInv, SessionInv
  <1> QED
    BY <1>4, <1>5, <1>6, <1>7, <1>8 DEF IInv

LEMMA CreateReviewStep ==
    ASSUME IInv, NEW i \in Id, CreateReview(i)
    PROVE  IInv'
  <1>1. family \in [Id -> Id]
    BY DEF IInv, TypeOK
  <1> QED
    BY <1>1, NewSessionStep DEF CreateReview, history, Code

LEMMA CreateCorrectionStep ==
    ASSUME IInv, NEW r \in request, NEW i \in Id, CreateCorrection(r, i)
    PROVE  IInv'
  <1>1. r \in Request /\ family \in [Id -> Id]
    BY DEF IInv, TypeOK
  <1>2. r.id \in Id /\ r.code \in Code
    BY <1>1, EnqueueOfLemma
  <1>3. family' \in [Id -> Id]
    BY <1>1, <1>2 DEF CreateCorrection
  <1> DEFINE R == request \ {r}
  <1>4. R \subseteq request /\ request' = R \union {EnqueueOf(i)}
    BY DEF CreateCorrection
  <1>5. /\ session[i].status = "unused" /\ session' = Create(session, i, r.id, r.code)
        /\ UNCHANGED <<thread, attempt, erased, failures>>
    BY DEF CreateCorrection
  <1> HIDE DEF R
  <1> QED
    BY <1>2, <1>3, <1>4, <1>5, NewSessionStep

\* Nothing but the requests changes, and no review is to be enqueued that was not.
LEMMA RequestStep ==
    ASSUME IInv, request' \in SUBSET Request,
           \A i \in Id : EnqueueOf(i) \in request' => EnqueueOf(i) \in request,
           UNCHANGED <<session, thread, history, crashes>>, faults' \in Nat
    PROVE  IInv'
  <1>1. TypeOK'
    BY DEF IInv, TypeOK, StoreTypeOK, history
  <1>2. PendingInv'
    BY DEF IInv, PendingInv, Runs
  <1>3. RunInv' /\ OneWriter' /\ \A i \in Id : SessionInv(i)'
    BY DEF IInv, RunInv, StepInv, OneWriter, Runs, SessionInv
  <1> QED
    BY <1>1, <1>2, <1>3 DEF IInv

LEMMA ReadParentStep ==
    ASSUME IInv, NEW p \in Id, ReadParent(p)
    PROVE  IInv'
  <1> DEFINE r == [op |-> "correct", id |-> p, code |-> session[p].code]
  <1>1. session[p].code \in Code /\ request \in SUBSET Request /\ faults \in Nat
    BY TypeFacts DEF IInv, TypeOK, Sessions, Session
  <1>2. r \in Request /\ \A i \in Id : EnqueueOf(i) # r
    BY <1>1 DEF Request, EnqueueOf
  <1>3. request' = request \union {r} /\ UNCHANGED <<session, thread, history, failures>>
    BY DEF ReadParent
  <1> HIDE DEF r
  <1> QED
    BY <1>1, <1>2, <1>3, RequestStep DEF failures

LEMMA RequestFaultStep ==
    ASSUME IInv, NEW r \in request, RequestFault(r)
    PROVE  IInv'
  BY RequestStep DEF RequestFault, IInv, TypeOK

LEMMA EnqueueStep ==
    ASSUME IInv, NEW r \in request, Enqueue(r)
    PROVE  IInv'
  <1>1. PICK i \in Id : r = EnqueueOf(i) /\ r.id = i
    BY EnqueueOfLemma DEF Enqueue, IInv, TypeOK
  <1>2. /\ session[i].status \in Pendable
        /\ \A t \in Thread : Runs(t, i) =>
              thread[t].pc \in IF Persistent THEN FailureStep ELSE {"announce_failed"}
    BY <1>1 DEF IInv, PendingInv
  <1>3. /\ request' = request \ {r} /\ UNCHANGED <<history, failures>>
        /\ request' \in SUBSET Request
        /\ \A j \in Id : EnqueueOf(j) \in request' => j # i /\ EnqueueOf(j) \in request
    BY <1>1 DEF Enqueue, IInv, TypeOK
  <1>4. SessionInv(i) /\ session \in Sessions /\ thread \in [Thread -> Run]
    BY TypeFacts DEF IInv
  <1>5. CASE Persistent
    <2>1. /\ UNCHANGED thread
          /\ session' = IF i \in Live(session) THEN SetStatus(session, i, "queued")
                                               ELSE session
      BY <1>1, <1>5 DEF Enqueue
    <2>2. CASE i \notin Live(session)
      BY <1>3, <2>1, <2>2, RequestStep DEF failures, IInv, TypeOK
    <2>3. CASE i \in Live(session)
      <3>1. /\ OnlyAt(session, session', i) /\ session'[i].status = "queued"
            /\ session'[i].result = session[i].result
            /\ Completed(session[i])' <=> Completed(session[i])
        BY <1>4, <2>1, <2>3, SetStatusLemma DEF Status
      <3>2. session' \in Sessions /\ \A j \in Id \ {i} : session'[j] = session[j]
        BY <3>1 DEF OnlyAt
      <3>3. TypeOK'
        BY <1>3, <2>1, <3>2 DEF IInv, TypeOK, StoreTypeOK, Sessions, history, failures
      <3>4. PendingInv'
        BY <1>3, <2>1, <3>2 DEF IInv, PendingInv, Runs
      <3>5. RunInv'
        BY <1>2, <1>5, <2>1, <3>1, <3>2 DEF IInv, RunInv, StepInv, Runs, FailureStep
      <3>6. OneWriter' /\ \A j \in Id : SessionInv(j)'
        BY <1>2, <1>4, <2>1, <3>1, <3>2 DEF IInv, OneWriter, Runs, SessionInv, Pendable
      <3> QED
        BY <3>3, <3>4, <3>5, <3>6 DEF IInv
    <2> QED
      BY <2>2, <2>3
  <1>6. CASE ~Persistent
    <2>1. PICK t \in Thread : /\ thread[t].pc = "idle"
                              /\ thread' = [thread EXCEPT ![t] = StartOf(i)]
                              /\ UNCHANGED session
      BY <1>1, <1>6 DEF Enqueue
    <2>2. /\ thread' \in [Thread -> Run] /\ thread'[t].pc = "start" /\ thread'[t].id = i
          /\ \A u \in Thread \ {t} : thread'[u] = thread[u]
      BY <1>4, <2>1, StartIsRun DEF IInv, TypeOK
    <2>3. TypeOK'
      BY <1>3, <2>1, <2>2 DEF IInv, TypeOK, StoreTypeOK, history, failures
    <2>4. PendingInv'
      BY <1>3, <2>1, <2>2 DEF IInv, PendingInv, Runs
    <2>5. StepInv("start", i)'
      BY <1>2, <1>6, <2>1 DEF StepInv, Pendable
    <2>6. RunInv'
      BY <2>1, <2>2, <2>5 DEF IInv, RunInv, StepInv
    <2>7. OneWriter'
      BY <1>2, <1>6, <2>2 DEF IInv, OneWriter, Runs
    <2>8. \A j \in Id : SessionInv(j)'
      BY <2>1 DEF IInv, SessionInv
    <2> QED
      BY <2>3, <2>4, <2>6, <2>7, <2>8 DEF IInv
  <1> QED
    BY <1>5, <1>6

LEMMA RetryResearchStep ==
    ASSUME IInv, NEW i \in Id, RetryResearch(i)
    PROVE  IInv'
  <1>1. /\ session[i].status = "failed"
        /\ session' = ResetResearch(session, i, attempt[i] + 1)
        /\ request' = request \union {EnqueueOf(i)}
        /\ attempt' = [attempt EXCEPT ![i] = @ + 1]
        /\ UNCHANGED <<thread, family, erased, failures>>
    BY DEF RetryResearch, ResearchFailed
  <1>2. attempt \in [Id -> Nat] /\ session \in Sessions /\ thread \in [Thread -> Run]
    BY TypeFacts DEF IInv, TypeOK
  <1>3. /\ OnlyAt(session, session', i) /\ session'[i].status = "created"
        /\ ~session'[i].result /\ ~Completed(session[i])'
    BY <1>1, <1>2, ResetLemma
  <1>4. session' \in Sessions /\ \A j \in Id \ {i} : session'[j] = session[j]
    BY <1>3 DEF OnlyAt
  <1>5. ASSUME NEW t \in Thread, Runs(t, i)
        PROVE  thread[t].pc \in IF Persistent THEN FailureStep ELSE {"announce_failed"}
    <2>1. thread[t].pc \in Step \ {"idle"} /\ StepInv(thread[t].pc, i)
      BY <1>2, <1>5, TypeFacts DEF IInv, RunInv, Runs
    <2>2. thread[t].pc \in FailureStep
      BY <1>1, <2>1 DEF StepInv, Step, FailureStep
    <2> QED
      BY <1>1, <2>1, <2>2 DEF StepInv, FailureStep
  <1>6. TypeOK'
    BY <1>1, <1>2, <1>4, EnqueueOfLemma DEF IInv, TypeOK, StoreTypeOK, Sessions, failures
  <1>7. PendingInv'
    BY <1>1, <1>3, <1>4, <1>5, EnqueueOfLemma DEF IInv, PendingInv, Pendable, Runs
  <1>8. RunInv'
    BY <1>1, <1>3, <1>4, <1>5 DEF IInv, RunInv, StepInv, Runs, FailureStep
  <1>9. OneWriter' /\ \A j \in Id : SessionInv(j)'
    BY <1>1, <1>3, <1>4 DEF IInv, OneWriter, Runs, SessionInv
  <1> QED
    BY <1>6, <1>7, <1>8, <1>9 DEF IInv

LEMMA ClaimStep ==
    ASSUME IInv, NEW t \in Thread, NEW i \in Id, Claim(t, i)
    PROVE  IInv'
  <1>1. /\ Persistent /\ thread[t].pc = "idle" /\ session[i].status = "queued"
        /\ session' = SetStatus(session, i, "running")
        /\ thread' = [thread EXCEPT ![t] = StartOf(i)]
        /\ UNCHANGED <<request, history, failures>>
    BY DEF Claim
  <1>2. session \in Sessions /\ thread \in [Thread -> Run] /\ SessionInv(i)
    BY TypeFacts DEF IInv
  <1>3. /\ OnlyAt(session, session', i) /\ session'[i].status = "running"
        /\ session'[i].result = session[i].result
        /\ Completed(session[i])' <=> Completed(session[i])
    BY <1>1, <1>2, SetStatusLemma DEF Status
  <1>4. session' \in Sessions /\ \A j \in Id \ {i} : session'[j] = session[j]
    BY <1>3 DEF OnlyAt
  <1>5. /\ thread' \in [Thread -> Run] /\ thread'[t].pc = "start" /\ thread'[t].id = i
        /\ \A u \in Thread : u = t
    BY <1>1, <1>2, StartIsRun, OneThread DEF IInv, TypeOK
  <1>6. EnqueueOf(i) \notin request
    BY <1>1 DEF IInv, PendingInv, Pendable
  <1>7. TypeOK'
    BY <1>1, <1>4, <1>5 DEF IInv, TypeOK, StoreTypeOK, Sessions, history, failures
  <1>8. PendingInv'
    BY <1>1, <1>4, <1>5, <1>6 DEF IInv, PendingInv, Runs
  <1>9. StepInv("start", i)'
    BY <1>3 DEF StepInv
  <1>10. RunInv'
    BY <1>5, <1>9 DEF RunInv
  <1>11. OneWriter' /\ \A j \in Id : SessionInv(j)'
    BY <1>1, <1>2, <1>3, <1>4, <1>5 DEF IInv, OneWriter, SessionInv
  <1> QED
    BY <1>7, <1>8, <1>10, <1>11 DEF IInv

\* A deletion or an expiry: some sessions that exist disappear.
LEMMA PurgeStep ==
    ASSUME IInv, NEW S, session' = Purge(session, S),
           \A i \in Id : i \in S => session[i].status # "unused",
           UNCHANGED <<thread, request, attempt, family, failures>>, erased' \in SUBSET Id
    PROVE  IInv'
  <1>1. session \in Sessions
    BY TypeFacts DEF IInv
  <1>2. /\ session' \in Sessions
        /\ \A i \in Id : session'[i] = session[i] \/ (i \in S /\ session'[i] = Gone)
    <2>1. /\ Purge(session, S) \in Sessions
          /\ \A i \in Id : Purge(session, S)[i] = IF i \in S THEN Gone ELSE session[i]
      BY <1>1, PurgeLemma, Zenon
    <2> QED
      BY <2>1
  <1>3. Gone.status = "gone" /\ ~Gone.result /\ ~Completed(Gone)
    BY BlankIsSession DEF Gone
  <1>4. TypeOK'
    BY <1>2 DEF IInv, TypeOK, StoreTypeOK, Sessions, failures
  <1>5. PendingInv'
    BY <1>2, <1>3 DEF IInv, PendingInv, Pendable, Runs
  <1>6. RunInv'
    <2> SUFFICES ASSUME NEW t \in Thread, thread[t].pc # "idle"
                 PROVE  thread[t].id \in Id /\ StepInv(thread[t].pc, thread[t].id)'
      BY DEF RunInv
    <2> DEFINE i == thread[t].id
    <2>1. i \in Id /\ StepInv(thread[t].pc, i)
      BY DEF IInv, RunInv
    <2>2. CASE session'[i] = session[i]
      BY <2>1, <2>2 DEF StepInv
    <2>3. CASE session'[i] = Gone
      BY <1>3, <2>1, <2>3 DEF StepInv
    <2> QED
      BY <1>2, <2>1, <2>2, <2>3
  <1>7. OneWriter' /\ \A j \in Id : SessionInv(j)'
    BY <1>2, <1>3 DEF IInv, OneWriter, Runs, SessionInv
  <1> QED
    BY <1>4, <1>5, <1>6, <1>7 DEF IInv

LEMMA DeleteReviewStep ==
    ASSUME IInv, NEW i \in Id, DeleteReview(i)
    PROVE  IInv'
  <1> DEFINE S == Lineage(session, i) \intersect Live(session)
  <1>1. \A j \in Id : j \in S => session[j].status # "unused"
    BY DEF Live, Status
  <1>2. session' = Purge(session, S)
    BY DEF DeleteReview, Delete
  <1>3. erased' \in SUBSET Id /\ UNCHANGED <<thread, request, attempt, family, failures>>
    BY DEF DeleteReview, IInv, TypeOK
  <1> HIDE DEF S
  <1> QED
    BY <1>1, <1>2, <1>3, PurgeStep

LEMMA ExpireStep ==
    ASSUME IInv, NEW i \in Id, Expire(i)
    PROVE  IInv'
  <1>1. \A j \in Id : j \in {i} => session[j].status # "unused"
    BY DEF Expire, Live, Status
  <1>2. erased' \in SUBSET Id
    BY DEF Expire, history, IInv, TypeOK
  <1> QED
    BY <1>1, <1>2, PurgeStep DEF Expire, history

LEMMA CrashStep ==
    ASSUME IInv, Crash
    PROVE  IInv'
  <1>1. session \in Sessions
    BY TypeFacts DEF IInv
  <1>2. /\ session' \in Sessions
        /\ \A i \in Id : /\ session[i].status # "running" => session'[i] = session[i]
                         /\ session[i].status = "running" => session'[i].status = "queued"
                         /\ session'[i].result = session[i].result
                         /\ Completed(session[i])' <=> Completed(session[i])
    BY <1>1, RequeueLemma DEF Crash
  <1>3. thread' \in [Thread -> Run] /\ \A t \in Thread : thread'[t].pc = "idle"
    BY IdleIsRun DEF Crash
  <1>4. TypeOK'
    BY <1>2, <1>3 DEF Crash, IInv, TypeOK, StoreTypeOK, Sessions, history
  <1>5. PendingInv'
    BY DEF Crash, PendingInv
  <1>6. RunInv'
    BY <1>3 DEF RunInv
  <1>7. OneWriter'
    BY <1>3 DEF OneWriter, Runs
  <1>8. \A i \in Id : SessionInv(i)'
    BY <1>2 DEF IInv, SessionInv
  <1> QED
    BY <1>4, <1>5, <1>6, <1>7, <1>8 DEF IInv

-----------------------------------------------------------------------------
(***************************************************************************)
(* The invariant holds in every reachable state.                           *)
(***************************************************************************)
LEMMA InitEstablishesIInv == Init => IInv
  <1> SUFFICES ASSUME Init PROVE IInv
    OBVIOUS
  <1>1. /\ session = [i \in Id |-> Unused] /\ request = {}
        /\ thread = [t \in Thread |-> Idle]
    BY DEF Init, StoreInit
  <1>2. Unused \in Session /\ ~Unused.result /\ ~Completed(Unused)
    BY BlankIsSession DEF Unused
  <1>3. TypeOK
    BY <1>1, <1>2, IdleIsRun DEF Init, TypeOK, StoreTypeOK
  <1>4. PendingInv /\ RunInv /\ OneWriter
    BY <1>1, IdleIsRun DEF PendingInv, RunInv, OneWriter, Runs
  <1>5. \A i \in Id : SessionInv(i)
    BY <1>1, <1>2 DEF SessionInv
  <1> QED
    BY <1>3, <1>4, <1>5 DEF IInv

LEMMA NextPreservesIInv == IInv /\ [Next]_vars => IInv'
  <1> SUFFICES ASSUME IInv, [Next]_vars PROVE IInv'
    OBVIOUS
  <1>1. ASSUME NEW t \in Thread, WorkerStep(t) PROVE IInv'
    <2>1. CASE SessionLost(t)
      <3>1. /\ thread[t].pc # "idle" /\ End(t)
            /\ UNCHANGED <<session, request, history, crashes>> /\ faults' \in Nat
        BY <2>1 DEF SessionLost, failures, IInv, TypeOK
      <3> QED
        BY <3>1, LeaveStep
    <2> QED
      BY <1>1, <2>1, MarkRunningStep, EmitProgressStep, LeaveWorkStep, SaveResultStep,
         AnnounceCompleteStep, ClearPartialStep, MarkFailedStep, AnnounceFailedStep,
         ClaimStep DEF WorkerStep, RunStep
  <1>2. CASE HandlerStep
    BY <1>2, EnqueueStep, CreateCorrectionStep DEF HandlerStep
  <1>3. CASE ClientStep
    BY <1>3, CreateReviewStep, ReadParentStep, DeleteReviewStep, ExpireStep DEF ClientStep
  <1>4. CASE Failure
    BY <1>4, StoreFaultStep, RequestFaultStep, CrashStep DEF Failure
  <1>5. CASE UNCHANGED vars
    BY <1>5 DEF vars, IInv, TypeOK, StoreTypeOK, PendingInv, RunInv, StepInv, OneWriter,
                Runs, SessionInv
  <1> QED
    BY <1>1, <1>2, <1>3, <1>4, <1>5, RetryResearchStep DEF Next, ServerStep

THEOREM IInvHolds == Spec => []IInv
  BY InitEstablishesIInv, NextPreservesIInv, PTL DEF Spec

-----------------------------------------------------------------------------
(***************************************************************************)
(* What follows for the users of the service.                              *)
(***************************************************************************)
\* Every variable keeps its type.
THEOREM TypeCorrect == Spec => []TypeOK
  <1>1. IInv => TypeOK
    BY DEF IInv
  <1> QED
    BY <1>1, IInvHolds, PTL

\* A review that shows a result is complete, in both deployments and whatever store
\* operations raise, runs are repeated and processes crash.
THEOREM ResultIsOfCompleteReview == Spec => []ResultMeansComplete
  <1>1. IInv => ResultMeansComplete
    BY DEF IInv, SessionInv, ResultMeansComplete
  <1> QED
    BY <1>1, IInvHolds, PTL

\* run_complete in the log of a review means that the result can be fetched.
THEOREM AnnouncedCompletionIsReal == Spec => []CompletionIsReal
  <1>1. IInv => CompletionIsReal
    BY DEF IInv, SessionInv, CompletionIsReal, Completed
  <1> QED
    BY <1>1, IInvHolds, PTL

\* Two runs of one review never both work on it, even when clients retry early.
THEOREM AtMostOneWriter == Spec => []OneWriter
  <1>1. IInv => OneWriter
    BY DEF IInv
  <1> QED
    BY <1>1, IInvHolds, PTL

-----------------------------------------------------------------------------
(***************************************************************************)
(* What a step may do to the session of a review.                          *)
(***************************************************************************)
\* The session of i stays, is created, disappears, or is not published yet.
Allowed(i) ==
    \/ session'[i] = session[i]
    \/ session[i].status = "unused"
    \/ session[i].status \in Status /\ session'[i] = Gone
    \/ session[i].status \in Status /\ (Persistent => ~Completed(session[i]))

LEMMA RunStepAllowed ==
    ASSUME IInv, NEW t \in Thread, RunStep(t), NEW i \in Id
    PROVE  Allowed(i)
  <1>1. CASE \/ Succeed(t) \/ (\E code \in {"retryable", "fatal"} : Raise(t, code))
             \/ SessionLost(t)
    BY <1>1 DEF Succeed, Raise, SessionLost, Allowed
  <1>2. CASE \/ MarkRunning(t) \/ EmitProgress(t) \/ SaveResult(t) \/ AnnounceComplete(t)
             \/ ClearPartial(t) \/ MarkFailed(t) \/ AnnounceFailed(t)
    <2>1. /\ thread[t].id \in Live(session)
          /\ thread[t].pc \in {"start", "work", "save", "announce_complete", "clear",
                              "mark_failed", "announce_failed"}
      BY <1>2 DEF MarkRunning, EmitProgress, SaveResult, AnnounceComplete, ClearPartial,
                  MarkFailed, AnnounceFailed, At
    <2>2. PICK j \in Id : j = thread[t].id /\ session[j].status \in Status
      BY <2>1 DEF Live
    <2>3. StepInv(thread[t].pc, j) /\ SessionInv(j)
      BY <2>1, <2>2, AtFacts
    <2>4. Persistent => ~Completed(session[j])
      BY <2>1, <2>2, <2>3 DEF StepInv, SessionInv, Status
    <2>5. OnlyAt(session, session', j)
      <3>1. session \in Sessions /\ thread[t].attempt \in Nat /\ thread[t].code \in Code
        BY TypeFacts DEF IInv
      <3>2. CASE MarkRunning(t)
        BY <2>2, <3>1, <3>2, SetStatusLemma DEF MarkRunning, Status
      <3>3. CASE EmitProgress(t) \/ AnnounceComplete(t) \/ AnnounceFailed(t)
        BY <2>2, <3>1, <3>3, EmitLemma DEF EmitProgress, AnnounceComplete, AnnounceFailed, Kind
      <3>4. CASE SaveResult(t)
        BY <2>2, <3>1, <3>4, CompleteLemma DEF SaveResult
      <3>5. CASE ClearPartial(t)
        BY <2>2, <3>1, <3>5, RemoveResultLemma DEF ClearPartial
      <3>6. CASE MarkFailed(t)
        BY <2>2, <3>1, <3>6, FailLemma DEF MarkFailed
      <3> QED
        BY <1>2, <3>2, <3>3, <3>4, <3>5, <3>6
    <2> QED
      BY <2>2, <2>4, <2>5 DEF OnlyAt, Allowed
  <1> QED
    BY <1>1, <1>2 DEF RunStep

LEMMA HandlerStepAllowed ==
    ASSUME IInv, NEW i \in Id,
           HandlerStep \/ ClientStep \/ (\E j \in Id : RetryResearch(j))
    PROVE  Allowed(i)
  <1>0. /\ session \in Sessions /\ attempt \in [Id -> Nat]
        /\ \A r \in request : r \in Request /\ r.id \in Id /\ r.code \in Code
    BY TypeFacts, EnqueueOfLemma DEF IInv, TypeOK
  <1>1. ASSUME NEW r \in request, Enqueue(r)
        PROVE  Allowed(i)
    <2>1. CASE UNCHANGED session
      BY <2>1 DEF Allowed
    <2>2. CASE session' # session
      <3>1. /\ Persistent /\ r.id \in Live(session)
            /\ session' = SetStatus(session, r.id, "queued")
        BY <1>1, <2>2 DEF Enqueue
      <3>2. r = EnqueueOf(r.id)
        BY <1>0, <1>1, EnqueueOfLemma DEF Enqueue
      <3>3. OnlyAt(session, session', r.id)
        BY <1>0, <3>1, SetStatusLemma DEF Status
      <3>4. session[r.id].status \in Status /\ session[r.id].status # "complete"
        BY <1>0, <3>1, <3>2 DEF IInv, PendingInv, Pendable, Live
      <3>5. ~Completed(session[r.id])
        BY <1>0, <3>4 DEF IInv, SessionInv
      <3> QED
        BY <1>0, <3>3, <3>4, <3>5 DEF OnlyAt, Allowed
    <2> QED
      BY <2>1, <2>2
  <1>2. ASSUME NEW r \in request, NEW j \in Id, CreateCorrection(r, j)
        PROVE  Allowed(i)
    <2>1. OnlyAt(session, session', j) /\ session[j].status = "unused"
      BY <1>0, <1>2, CreateLemma DEF CreateCorrection
    <2> QED
      BY <2>1 DEF OnlyAt, Allowed
  <1>3. ASSUME NEW j \in Id, CreateReview(j)
        PROVE  Allowed(i)
    <2>1. OnlyAt(session, session', j) /\ session[j].status = "unused"
      BY <1>0, <1>3, CreateLemma DEF CreateReview, Code
    <2> QED
      BY <2>1 DEF OnlyAt, Allowed
  <1>4. ASSUME NEW j \in Id, ReadParent(j)
        PROVE  Allowed(i)
    BY <1>4 DEF ReadParent, Allowed
  <1>5. ASSUME NEW S, session' = Purge(session, S), S \subseteq Live(session)
        PROVE  Allowed(i)
    <2>1. session \in Sessions
      BY <1>0
    <2>2. \A j \in Id : Purge(session, S)[j] = IF j \in S THEN Gone ELSE session[j]
      BY <2>1, PurgeLemma, Zenon
    <2> QED
      BY <1>5, <2>2 DEF Allowed, Live
  <1>6. ASSUME NEW j \in Id, DeleteReview(j)
        PROVE  Allowed(i)
    <2> DEFINE S == Lineage(session, j) \intersect Live(session)
    <2>1. session' = Purge(session, S) /\ S \subseteq Live(session)
      BY <1>6 DEF DeleteReview, Delete
    <2> HIDE DEF S
    <2> QED
      BY <1>5, <2>1
  <1>7. ASSUME NEW j \in Id, Expire(j)
        PROVE  Allowed(i)
    <2>1. {j} \subseteq Live(session) /\ session' = Purge(session, {j})
      BY <1>7 DEF Expire
    <2> QED
      BY <1>5, <2>1
  <1>8. ASSUME NEW j \in Id, RetryResearch(j)
        PROVE  Allowed(i)
    <2>1. OnlyAt(session, session', j) /\ session[j].status = "failed"
      BY <1>0, <1>8, ResetLemma DEF RetryResearch, ResearchFailed
    <2>2. ~Completed(session[j])
      BY <2>1 DEF IInv, SessionInv
    <2> QED
      BY <2>1, <2>2 DEF OnlyAt, Allowed, Status
  <1> QED
    BY <1>1, <1>2, <1>3, <1>4, <1>6, <1>7, <1>8 DEF HandlerStep, ClientStep

LEMMA StepAllowed ==
    ASSUME IInv, [Next]_vars, NEW i \in Id
    PROVE  Allowed(i)
  <1>1. ASSUME NEW t \in Thread, NEW j \in Id, Claim(t, j)
        PROVE  Allowed(i)
    <2>1. OnlyAt(session, session', j) /\ session[j].status = "queued"
      BY <1>1, TypeFacts, SetStatusLemma DEF Claim, IInv, Status
    <2>2. ~Completed(session[j])
      BY <2>1 DEF IInv, SessionInv
    <2> QED
      BY <2>1, <2>2 DEF OnlyAt, Allowed, Status
  <1>2. CASE Crash
    <2>1. session[i].status # "running" => session'[i] = session[i]
      BY <1>2, TypeFacts, RequeueLemma DEF Crash, IInv
    <2>2. session[i].status = "running" => ~Completed(session[i])
      BY DEF IInv, SessionInv
    <2> QED
      BY <2>1, <2>2 DEF Allowed, Status
  <1>3. CASE UNCHANGED session
    BY <1>3 DEF Allowed
  <1> QED
    BY <1>1, <1>2, <1>3, RunStepAllowed, HandlerStepAllowed
       DEF Next, ServerStep, WorkerStep, Failure, StoreFault, RequestFault, vars

\* A review that has been deleted or has expired is never brought back by a late step
\* of a run, of a handler or of the restart.
THEOREM GoneForGood == Spec => GoneStaysGone
  <1>1. IInv /\ [Next]_vars => [\A i \in Id : session[i] = Gone => session'[i] = Gone]_session
    <2> SUFFICES ASSUME IInv, [Next]_vars, NEW i \in Id, session[i] = Gone
                 PROVE  session'[i] = Gone
      OBVIOUS
    <2>1. Gone.status = "gone"
      BY BlankIsSession DEF Gone
    <2> QED
      BY <2>1, StepAllowed DEF Allowed, Status
  <1> QED
    BY <1>1, IInvHolds, PTL DEF Spec, GoneStaysGone

\* With the worker and the SQLite store, a review whose completion has been announced
\* only ever disappears: no retry, restart or failing store operation touches it.
THEOREM PublishedIsFrozen ==
    ASSUME Persistent
    PROVE  Spec => PublishedReviewIsFrozen
  <1>1. IInv /\ [Next]_vars =>
           [\A i \in Id : Logged(session[i], {"run_complete"}) =>
                             session'[i] \in {session[i], Gone}]_session
    <2> SUFFICES ASSUME IInv, [Next]_vars, NEW i \in Id, Completed(session[i])
                 PROVE  session'[i] \in {session[i], Gone}
      BY DEF Completed
    <2>1. session[i].status = "complete"
      BY DEF IInv, SessionInv
    <2> QED
      BY <2>1, StepAllowed DEF Allowed, Status
  <1> QED
    BY <1>1, IInvHolds, PTL DEF Spec, PublishedReviewIsFrozen
-----------------------------------------------------------------------------
(***************************************************************************)
(* A deletion takes the whole family of a review.  delete() follows the    *)
(* links between corrections and their parents until a round adds nothing, *)
(* so what it takes is closed under the links; what is left to show is     *)
(* that the links hold a family together.                                  *)
(***************************************************************************)
Rounds(m, i) ==
    CHOOSE round : round = [n \in Nat |-> IF n = 0 THEN {i} ELSE Grow(m, round[n - 1])]

LEMMA LineageIsLastRound ==
    ASSUME NEW m, NEW i
    PROVE  Lineage(m, i) = Rounds(m, i)[Cardinality(Id)]
  BY DEF Lineage, Rounds

LEMMA LineageIsClosed ==
    ASSUME IsFiniteSet(Id), NEW m, NEW i \in Id
    PROVE  /\ i \in Lineage(m, i)
           /\ \A j, p \in Live(m) : m[j].parent = p =>
                  (j \in Lineage(m, i) <=> p \in Lineage(m, i))
  <1> DEFINE S        == SUBSET Id
             more(L)  == Grow(m, L)
             G        == [L \in S |-> more(L)]
             Fits(f)  == f = [n \in Nat |-> IF n = 0 THEN {i} ELSE more(f[n - 1])]
             r        == Rounds(m, i)
  <1>1. \A L \in S : more(L) \in S /\ L \subseteq more(L)
    BY DEF Grow, Live
  <1>2. r = CHOOSE f : Fits(f)
    BY DEF Rounds
  <1> HIDE DEF more, r
  <1>3. G \in [S -> S] /\ {i} \in S /\ \A L \in S : G[L] = more(L) /\ L \subseteq G[L]
    BY <1>1
  <1> HIDE DEF G, S
  <1>4. PICK f \in [Nat -> S] : f[0] = {i} /\ \A n \in Nat : f[n + 1] = G[f[n]]
    <2> DEFINE a == {i}
    <2>1. a \in S /\ G \in [S -> S]
      BY <1>3
    <2> HIDE DEF a
    <2>2. \E f \in [Nat -> S] : f[0] = a /\ \A n \in Nat : f[n + 1] = G[f[n]]
      BY <2>1, IterationExists, SMTT(30)
    <2> QED
      BY <2>2 DEF a
  <1>5. \A n \in Nat : n = 0 \/ (n - 1 \in Nat /\ (n - 1) + 1 = n)
    OBVIOUS
  <1>6. Fits(f)
    <2>1. \A n \in Nat : f[n] = IF n = 0 THEN {i} ELSE more(f[n - 1])
      <3>1. ASSUME NEW n \in Nat, n # 0 PROVE f[n] = more(f[n - 1])
        <4>1. n - 1 \in Nat /\ (n - 1) + 1 = n
          BY <1>5, <3>1
        <4>2. f[n] = G[f[n - 1]] /\ f[n - 1] \in S
          BY <1>4, <4>1
        <4> QED
          BY <1>3, <4>2
      <3> QED
        BY <1>4, <3>1
    <2>2. f = [n \in Nat |-> f[n]]
      BY <1>4
    <2> QED
      BY <2>1, <2>2
  <1>7. Fits(r)
    <2> HIDE DEF Fits
    <2> QED
      BY <1>2, <1>6
  <1>8. r[0] = {i} /\ \A n \in Nat : r[n + 1] = more(r[n])
    <2>1. \A n \in Nat : r[n] = IF n = 0 THEN {i} ELSE more(r[n - 1])
      BY <1>7
    <2>2. \A n \in Nat : n + 1 \in Nat /\ n + 1 # 0 /\ (n + 1) - 1 = n
      OBVIOUS
    <2> HIDE DEF Fits
    <2> QED
      BY <2>1, <2>2
  <1>9. \A n \in Nat : r[n] \in S
    <2> DEFINE Good == {n \in Nat : r[n] \in S}
    <2>1. 0 \in Good /\ \A n \in Good : n + 1 \in Good
      BY <1>1, <1>3, <1>8 DEF S
    <2>2. Good \in SUBSET Nat
      OBVIOUS
    <2> HIDE DEF Good
    <2>3. \A n \in Nat : n \in Good
      BY <2>1, <2>2, EveryNumber
    <2> QED
      BY <2>3 DEF Good
  <1>10. r \in [Nat -> S]
    <2>1. DOMAIN r = Nat /\ r = [n \in Nat |-> r[n]]
      BY <1>7
    <2> HIDE DEF Fits
    <2> QED
      BY <1>9, <2>1
  <1>11. \A n \in Nat : r[n + 1] = G[r[n]]
    BY <1>3, <1>8, <1>9
  <1>12. /\ r[Cardinality(Id)] \in SUBSET Id
         /\ r[0] \subseteq r[Cardinality(Id)]
         /\ G[r[Cardinality(Id)]] = r[Cardinality(Id)]
    <2>1. /\ G \in [SUBSET Id -> SUBSET Id] /\ \A L \in SUBSET Id : L \subseteq G[L]
          /\ r \in [Nat -> SUBSET Id]
      BY <1>3, <1>10 DEF S
    <2>2. r[0] # {}
      BY <1>8
    <2> QED
      BY <1>11, <2>1, <2>2, LastRoundAddsNothing, Zenon
  <1>13. more(r[Cardinality(Id)]) = r[Cardinality(Id)]
    BY <1>3, <1>12 DEF S
  <1> DEFINE L == Lineage(m, i)
  <1>14. L = r[Cardinality(Id)]
    BY LineageIsLastRound DEF r
  <1>15. i \in L /\ Grow(m, L) = L
    BY <1>8, <1>12, <1>13, <1>14 DEF more
  <1> HIDE DEF L
  <1>16. \A j, p \in Live(m) : m[j].parent = p => (j \in L <=> p \in L)
    BY <1>15 DEF Grow
  <1> QED
    BY <1>15, <1>16 DEF L

\* No review of the family f has been removed.
Whole(f) == \A j \in Id : family[j] = f => session[j].status # "gone"

\* S does not separate a correction of the family f from its parent.
ClosedIn(S, f) ==
    \A j \in Id : family[j] = f /\ session[j].status \in Status /\ session[j].parent \in Id =>
                     (j \in S <=> session[j].parent \in S)

\* The links hold the reviews of f together: there is no way to divide them.
Together(f) ==
    \A S \in SUBSET Id : ClosedIn(S, f) =>
        \A i, j \in Id : /\ family[i] = f /\ session[i].status \in Status
                         /\ family[j] = f /\ session[j].status \in Status
                         /\ i \in S
                         => j \in S

FamilyInv ==
    /\ \A i \in Id : session[i].status = "gone" => session[i] = Gone
    /\ \A i \in Id : session[i].status = "unused" =>
                        family[i] = i /\ \A j \in Id : family[j] = i => j = i
    /\ \A r \in request : session[r.id].status # "unused"
    /\ \A j \in Id : session[j].status \in Status /\ session[j].parent \in Id =>
                        /\ session[session[j].parent].status # "unused"
                        /\ family[session[j].parent] = family[j]
    /\ \A f \in Id : Whole(f) => Together(f)

\* A review that a step leaves where it is, as far as its family is concerned.
Stays(i) ==
    /\ session'[i].parent = session[i].parent
    /\ session[i].status \in Status => session'[i].status \in Status
    /\ session[i].status \notin Status => session'[i] = session[i]

\* A step that neither creates a review nor brings one back.
NothingNew ==
    /\ family' = family
    /\ \A r \in request' : r \in request \/ session[r.id].status # "unused"
    /\ \A i \in Id : Stays(i) \/ (session[i].status \in Status /\ session'[i] = Gone)

\* A step that creates i, as a correction of p or as a family of its own.
OneNew(i, p) ==
    /\ session[i].status = "unused" /\ OnlyAt(session, session', i)
    /\ session'[i].status = "created" /\ session'[i].parent = p
    /\ \A r \in request' : r \in request \/ r.id = i
    /\ \/ p = None /\ family' = family
       \/ p \in Id /\ session[p].status # "unused" /\ family' = [family EXCEPT ![i] = family[p]]

LEMMA ParentLemma ==
    ASSUME NEW m \in Sessions, NEW i \in Id
    PROVE  /\ \A s \in Status : SetStatus(m, i, s)[i].parent = m[i].parent
           /\ Complete(m, i)[i].parent = m[i].parent
           /\ \A c \in Code : Fail(m, i, c)[i].parent = m[i].parent
           /\ RemoveResult(m, i)[i].parent = m[i].parent
           /\ \A k, n : Emit(m, i, k, n)[i].parent = m[i].parent
           /\ \A n : ResetResearch(m, i, n)[i].parent = m[i].parent
           /\ \A p, c : Create(m, i, p, c)[i].parent = p
           /\ \A j \in Id : Requeue(m)[j].parent = m[j].parent
  <1>1. \A s \in Status : SetStatus(m, i, s)[i].parent = m[i].parent
    BY DEF SetStatus, Sessions, Session
  <1>2. Complete(m, i)[i].parent = m[i].parent
    BY DEF Complete, Sessions, Session
  <1>3. \A c \in Code : Fail(m, i, c)[i].parent = m[i].parent
    BY DEF Fail, Sessions, Session
  <1>4. RemoveResult(m, i)[i].parent = m[i].parent
    BY DEF RemoveResult, Sessions, Session
  <1>5. \A k, n : Emit(m, i, k, n)[i].parent = m[i].parent
    BY DEF Emit, Sessions, Session
  <1>6. \A n : ResetResearch(m, i, n)[i].parent = m[i].parent
    <2> TAKE n
    <2> DEFINE log == << [kind |-> "run_started", attempt |-> n] >>
    <2> HIDE DEF log
    <2>1. ResetResearch(m, i, n) = [m EXCEPT ![i].status = "created", ![i].result = FALSE,
                                             ![i].code = "none", ![i].log = log]
      BY DEF ResetResearch, log
    <2> QED
      BY <2>1 DEF Sessions, Session
  <1>7. \A p, c : Create(m, i, p, c)[i].parent = p
    <2> TAKE p, c
    <2> DEFINE b == [Blank("created") EXCEPT !.code = c, !.parent = p]
    <2>1. b.parent = p
      BY DEF Blank
    <2>2. Create(m, i, p, c) = [m EXCEPT ![i] = b]
      BY DEF Create
    <2> HIDE DEF b
    <2> QED
      BY <2>1, <2>2 DEF Sessions
  <1>8. \A j \in Id : Requeue(m)[j].parent = m[j].parent
    BY DEF Requeue, Sessions, Session
  <1> QED
    BY <1>1, <1>2, <1>3, <1>4, <1>5, <1>6, <1>7, <1>8

LEMMA NothingNewKeepsFamilies ==
    ASSUME IInv, FamilyInv, NothingNew, TypeOK'
    PROVE  FamilyInv'
  <1>1. Gone.status = "gone" /\ "gone" \notin Status /\ "unused" \notin Status
    BY BlankIsSession DEF Gone, Status
  <1>2. /\ \A i \in Id : session'[i].status \in Status =>
                session[i].status \in Status /\ session'[i].parent = session[i].parent
        /\ \A i \in Id : session'[i].status = "unused" <=> session[i].status = "unused"
        /\ \A i \in Id : session'[i].status = "gone" =>
                session'[i] = Gone /\ session[i].status # "unused"
        /\ \A i \in Id : session[i].status = "gone" => session'[i].status = "gone"
    BY <1>1 DEF NothingNew, Stays, FamilyInv
  <1>3. \A i \in Id : session[i].status \in Status /\ session'[i].status # "gone" =>
                          session'[i].status \in Status
    BY <1>1 DEF NothingNew, Stays
  <1>4. family' = family
    BY DEF NothingNew
  <1>5. \A i \in Id : session'[i].status = "gone" => session'[i] = Gone
    BY <1>2
  <1>6. \A i \in Id : session'[i].status = "unused" =>
                        family'[i] = i /\ \A j \in Id : family'[j] = i => j = i
    BY <1>2, <1>4 DEF FamilyInv
  <1>7. \A r \in request' : session'[r.id].status # "unused"
    <2> SUFFICES ASSUME NEW r \in request' PROVE session'[r.id].status # "unused"
      OBVIOUS
    <2>1. session[r.id].status # "unused"
      BY DEF NothingNew, FamilyInv
    <2>2. r.id \in Id
      BY EnqueueOfLemma DEF TypeOK
    <2> QED
      BY <1>2, <2>1, <2>2
  <1>8. \A j \in Id : session'[j].status \in Status /\ session'[j].parent \in Id =>
                        /\ session'[session'[j].parent].status # "unused"
                        /\ family'[session'[j].parent] = family'[j]
    BY <1>2, <1>4 DEF FamilyInv
  <1>9. ASSUME NEW f \in Id, Whole(f)' PROVE Together(f)'
    <2>1. \A j \in Id : family[j] = f => session'[j].status # "gone"
      BY <1>4, <1>9 DEF Whole
    <2>2. Whole(f)
      BY <1>2, <2>1 DEF Whole
    <2>3. Together(f)
      BY <2>2 DEF FamilyInv
    <2> SUFFICES ASSUME NEW S \in SUBSET Id, ClosedIn(S, f)', NEW i \in Id, NEW j \in Id,
                        family[i] = f, session'[i].status \in Status,
                        family[j] = f, session'[j].status \in Status, i \in S
                 PROVE  j \in S
      BY <1>4 DEF Together
    <2>4. ClosedIn(S, f)
      BY <1>2, <1>3, <1>4, <2>1 DEF ClosedIn
    <2> QED
      BY <1>2, <2>3, <2>4 DEF Together
  <1> QED
    BY <1>5, <1>6, <1>7, <1>8, <1>9 DEF FamilyInv

LEMMA OneNewKeepsFamilies ==
    ASSUME IInv, FamilyInv, NEW i \in Id, NEW p \in Id \union {None}, OneNew(i, p), TypeOK'
    PROVE  FamilyInv'
  <1>1. "created" \in Status /\ "gone" \notin Status /\ "unused" \notin Status
    BY DEF Status
  <1>2. /\ \A j \in Id \ {i} : session'[j] = session[j]
        /\ session[i].status = "unused" /\ session'[i].status = "created"
        /\ session'[i].parent = p
    BY DEF OneNew, OnlyAt
  <1>3. family \in [Id -> Id] /\ family[i] = i /\ \A j \in Id : family[j] = i => j = i
    BY <1>2 DEF IInv, TypeOK, FamilyInv
  <1>4. \A j \in Id \ {i} : family'[j] = family[j]
    BY <1>3 DEF OneNew
  <1>5. \/ p = None /\ family'[i] = i
        \/ p \in Id \ {i} /\ session[p].status # "unused" /\ family'[i] = family[p]
    BY <1>2, <1>3 DEF OneNew
  <1>6. \A j \in Id : session'[j].status = "gone" => session'[j] = Gone
    BY <1>1, <1>2 DEF FamilyInv
  <1>7. ASSUME NEW k \in Id, session'[k].status = "unused"
        PROVE  family'[k] = k /\ \A j \in Id : family'[j] = k => j = k
    <2>1. k # i /\ session[k].status = "unused" /\ family'[k] = k
      BY <1>1, <1>2, <1>4, <1>7 DEF FamilyInv
    <2>2. ASSUME NEW j \in Id, family'[j] = k PROVE j = k
      <3>1. CASE j # i
        BY <1>4, <2>1, <2>2, <3>1 DEF FamilyInv
      <3>2. CASE j = i
        <4>1. p \in Id /\ session[p].status # "unused" /\ family[p] = k
          BY <1>5, <2>1, <2>2, <3>2
        <4>2. p = k
          BY <2>1, <4>1 DEF FamilyInv
        <4> QED
          BY <2>1, <4>1, <4>2
      <3> QED
        BY <3>1, <3>2
    <2> QED
      BY <2>1, <2>2
  <1>8. ASSUME NEW r \in request' PROVE session'[r.id].status # "unused"
    <2>1. r.id \in Id
      BY EnqueueOfLemma DEF TypeOK
    <2>2. r \in request \/ r.id = i
      BY DEF OneNew
    <2> QED
      BY <1>1, <1>2, <2>1, <2>2 DEF FamilyInv
  <1>9. ASSUME NEW j \in Id, session'[j].status \in Status, session'[j].parent \in Id
        PROVE  /\ session'[session'[j].parent].status # "unused"
               /\ family'[session'[j].parent] = family'[j]
    <2>1. CASE j = i
      BY <1>2, <1>4, <1>5, <1>9, <2>1, NoneAssumption
    <2>2. CASE j # i
      <3>1. /\ session[j].status \in Status /\ session'[j].parent = session[j].parent
            /\ session[session[j].parent].status # "unused"
            /\ family[session[j].parent] = family[j]
        BY <1>2, <1>9, <2>2 DEF FamilyInv
      <3> QED
        BY <1>2, <1>4, <1>9, <2>2, <3>1
    <2> QED
      BY <2>1, <2>2
  <1>10. ASSUME NEW f \in Id, Whole(f)' PROVE Together(f)'
    <2> SUFFICES ASSUME NEW S \in SUBSET Id, ClosedIn(S, f)', NEW k \in Id, NEW j \in Id,
                        family'[k] = f, session'[k].status \in Status,
                        family'[j] = f, session'[j].status \in Status, k \in S
                 PROVE  j \in S
      BY DEF Together
    <2>1. ClosedIn(S, f)
      <3> SUFFICES ASSUME NEW h \in Id, family[h] = f, session[h].status \in Status,
                          session[h].parent \in Id
                   PROVE  h \in S <=> session[h].parent \in S
        BY DEF ClosedIn
      <3>1. h # i
        BY <1>1, <1>2
      <3> QED
        BY <1>2, <1>4, <3>1 DEF ClosedIn
    <2>2. Whole(f)
      <3> SUFFICES ASSUME NEW h \in Id, family[h] = f PROVE session[h].status # "gone"
        BY DEF Whole
      <3>1. CASE h = i
        BY <1>2, <3>1
      <3>2. CASE h # i
        BY <1>2, <1>4, <1>10, <3>2 DEF Whole
      <3> QED
        BY <3>1, <3>2
    <2>3. \A x, y \in Id \ {i} : /\ family'[x] = f /\ session'[x].status \in Status
                                 /\ family'[y] = f /\ session'[y].status \in Status
                                 /\ x \in S
                                 => y \in S
      BY <1>2, <1>4, <2>1, <2>2 DEF FamilyInv, Together
    <2>4. CASE p = None
      <3>1. family'[i] = i /\ \A x \in Id \ {i} : family'[x] # i
        BY <1>3, <1>4, <1>5, <2>4, NoneAssumption
      <3> QED
        BY <2>3, <3>1
    <2>5. CASE p # None
      <3>1. p \in Id \ {i} /\ session[p].status # "unused" /\ family'[i] = family[p]
        BY <1>5, <2>5
      <3>2. family'[i] = f => /\ family'[p] = f /\ session'[p].status \in Status
                              /\ (i \in S <=> p \in S)
        <4>1. SUFFICES ASSUME family'[i] = f
                       PROVE  family'[p] = f /\ session'[p].status \in Status /\ (i \in S <=> p \in S)
          OBVIOUS
        <4>2. family'[p] = f
          BY <1>4, <3>1, <4>1
        <4>3. session'[p].status # "gone" /\ session'[p].status # "unused"
          BY <1>2, <1>10, <3>1, <4>2 DEF Whole
        <4>4. session'[p].status \in Status \union {"unused", "gone"}
          BY <3>1, TypeFacts DEF Sessions, Session, OneNew, OnlyAt
        <4>5. i \in S <=> p \in S
          BY <1>1, <1>2, <3>1, <4>1 DEF ClosedIn
        <4> QED
          BY <4>2, <4>3, <4>4, <4>5
      <3> QED
        BY <2>3, <3>1, <3>2
    <2> QED
      BY <2>4, <2>5
  <1> QED
    BY <1>6, <1>7, <1>8, <1>9, <1>10 DEF FamilyInv

LEMMA RunStepIsNothingNew ==
    ASSUME IInv, FamilyInv, NEW t \in Thread, WorkerStep(t)
    PROVE  NothingNew
  <1>1. /\ family' = family /\ request' = request
        /\ session \in Sessions /\ thread[t].attempt \in Nat /\ thread[t].code \in Code
    BY TypeFacts DEF IInv, WorkerStep, RunStep, MarkRunning, EmitProgress, Succeed, Raise,
         SaveResult, AnnounceComplete, ClearPartial, MarkFailed, AnnounceFailed, SessionLost,
         Claim, history
  <1>2. ASSUME NEW i \in Id, session[i].status \in Status, OnlyAt(session, session', i),
               session'[i].parent = session[i].parent, session'[i].status \in Status
        PROVE  NothingNew
    BY <1>1, <1>2 DEF NothingNew, OnlyAt, Stays
  <1>3. CASE UNCHANGED session
    BY <1>1, <1>3 DEF NothingNew, Stays
  <1>4. ASSUME NEW i \in Id, Claim(t, i)
        PROVE  NothingNew
    <2>1. "queued" \in Status /\ "running" \in Status
      BY DEF Status
    <2> QED
      BY <1>1, <1>2, <1>4, <2>1, SetStatusLemma, ParentLemma DEF Claim
  <1> DEFINE i == thread[t].id
  <1>5. ASSUME NEW pc, At(t, pc)
        PROVE  i \in Id /\ session[i].status \in Status
    BY <1>5 DEF At, Live
  <1> HIDE DEF i
  <1>6. CASE MarkRunning(t)
    <2>1. i \in Id /\ session[i].status \in Status /\ session' = SetStatus(session, i, "running")
          /\ "running" \in Status
      BY <1>5, <1>6 DEF MarkRunning, i, Status
    <2> QED
      BY <1>1, <1>2, <2>1, SetStatusLemma, ParentLemma
  <1>7. CASE EmitProgress(t) \/ AnnounceComplete(t) \/ AnnounceFailed(t)
    <2>1. PICK k \in Kind : /\ i \in Id /\ session[i].status \in Status
                            /\ session' = Emit(session, i, k, thread[t].attempt)
      BY <1>5, <1>7 DEF EmitProgress, AnnounceComplete, AnnounceFailed, i, Kind
    <2> QED
      BY <1>1, <1>2, <2>1, EmitLemma, ParentLemma
  <1>8. CASE SaveResult(t)
    <2>1. /\ i \in Id /\ session[i].status \in Status /\ session' = Complete(session, i)
          /\ "complete" \in Status
      BY <1>5, <1>8 DEF SaveResult, i, Status
    <2> QED
      BY <1>1, <1>2, <2>1, CompleteLemma, ParentLemma
  <1>9. CASE ClearPartial(t)
    <2>1. i \in Id /\ session[i].status \in Status /\ session' = RemoveResult(session, i)
      BY <1>5, <1>9 DEF ClearPartial, i
    <2> QED
      BY <1>1, <1>2, <2>1, RemoveResultLemma, ParentLemma
  <1>10. CASE MarkFailed(t)
    <2>1. /\ i \in Id /\ session[i].status \in Status
          /\ session' = Fail(session, i, thread[t].code) /\ "failed" \in Status
      BY <1>5, <1>10 DEF MarkFailed, i, Status
    <2> QED
      BY <1>1, <1>2, <2>1, FailLemma, ParentLemma
  <1>11. CASE Succeed(t) \/ (\E code \in {"retryable", "fatal"} : Raise(t, code)) \/ SessionLost(t)
    BY <1>3, <1>11 DEF Succeed, Raise, SessionLost
  <1> QED
    BY <1>4, <1>6, <1>7, <1>8, <1>9, <1>10, <1>11 DEF WorkerStep, RunStep

\* A deletion or an expiry brings nothing new.
LEMMA PurgeIsNothingNew ==
    ASSUME IInv, FamilyInv, NEW S, S \subseteq Live(session), session' = Purge(session, S),
           UNCHANGED <<request, family>>
    PROVE  NothingNew
  <1>1. session \in Sessions
    BY TypeFacts DEF IInv
  <1>2. \A j \in Id : Purge(session, S)[j] = IF j \in S THEN Gone ELSE session[j]
    BY <1>1, PurgeLemma, Zenon
  <1> QED
    BY <1>2 DEF NothingNew, Stays, Live

LEMMA OtherStepIsNothingNew ==
    ASSUME IInv, FamilyInv,
           \/ \E r \in request : Enqueue(r) \/ RequestFault(r)
           \/ \E i \in Id : ReadParent(i) \/ DeleteReview(i) \/ Expire(i) \/ RetryResearch(i)
           \/ \E t \in Thread : StoreFault(t)
           \/ Crash
           \/ UNCHANGED vars
    PROVE  NothingNew
  <1>1. /\ session \in Sessions /\ attempt \in [Id -> Nat]
        /\ \A r \in request : r \in Request /\ r.id \in Id
    BY TypeFacts, EnqueueOfLemma DEF IInv, TypeOK
  <1>2. ASSUME NEW r \in request, Enqueue(r)
        PROVE  NothingNew
    <2>1. family' = family /\ request' \subseteq request
      BY <1>2 DEF Enqueue, history
    <2>2. CASE UNCHANGED session
      BY <2>1, <2>2 DEF NothingNew, Stays
    <2>3. CASE session' # session
      <3>1. /\ session[r.id].status \in Status /\ r.id \in Id
            /\ session' = SetStatus(session, r.id, "queued") /\ "queued" \in Status
        BY <1>1, <1>2, <2>3 DEF Enqueue, Live, Status
      <3>2. /\ OnlyAt(session, session', r.id) /\ session'[r.id].status \in Status
            /\ session'[r.id].parent = session[r.id].parent
        BY <1>1, <3>1, SetStatusLemma, ParentLemma
      <3> QED
        BY <2>1, <3>1, <3>2 DEF OnlyAt, NothingNew, Stays
    <2> QED
      BY <2>2, <2>3
  <1>3. ASSUME NEW r \in request, RequestFault(r)
        PROVE  NothingNew
    BY <1>3 DEF RequestFault, history, NothingNew, Stays
  <1>4. ASSUME NEW i \in Id, ReadParent(i)
        PROVE  NothingNew
    <2> DEFINE c == [op |-> "correct", id |-> i, code |-> session[i].code]
    <2>1. c.id = i /\ session[i].status # "unused"
      BY <1>4 DEF ReadParent, Live, Status
    <2>2. request' = request \union {c} /\ UNCHANGED <<session, family>>
      BY <1>4 DEF ReadParent, history
    <2> HIDE DEF c
    <2> QED
      BY <2>1, <2>2 DEF NothingNew, Stays
  <1>5. ASSUME NEW i \in Id, DeleteReview(i)
        PROVE  NothingNew
    <2> DEFINE S == Lineage(session, i) \intersect Live(session)
    <2>1. session' = Purge(session, S) /\ S \subseteq Live(session) /\ UNCHANGED <<request, family>>
      BY <1>5 DEF DeleteReview, Delete
    <2> HIDE DEF S
    <2> QED
      BY <2>1, PurgeIsNothingNew
  <1>6. ASSUME NEW i \in Id, Expire(i)
        PROVE  NothingNew
    <2>1. {i} \subseteq Live(session) /\ session' = Purge(session, {i}) /\ UNCHANGED <<request, family>>
      BY <1>6 DEF Expire, history
    <2> QED
      BY <2>1, PurgeIsNothingNew
  <1>7. ASSUME NEW i \in Id, RetryResearch(i)
        PROVE  NothingNew
    <2>1. /\ session[i].status \in Status /\ family' = family
          /\ request' = request \union {EnqueueOf(i)} /\ EnqueueOf(i).id = i
          /\ session' = ResetResearch(session, i, attempt[i] + 1) /\ attempt[i] + 1 \in Nat
          /\ "created" \in Status /\ session[i].status # "unused"
      BY <1>1, <1>7 DEF RetryResearch, ResearchFailed, Status, EnqueueOf
    <2>2. /\ OnlyAt(session, session', i) /\ session'[i].status \in Status
          /\ session'[i].parent = session[i].parent
      BY <1>1, <2>1, ResetLemma, ParentLemma
    <2> QED
      BY <2>1, <2>2 DEF OnlyAt, NothingNew, Stays
  <1>8. ASSUME NEW t \in Thread, StoreFault(t)
        PROVE  NothingNew
    BY <1>8 DEF StoreFault, history, NothingNew, Stays
  <1>9. CASE Crash
    <2>1. /\ family' = family /\ request' = {} /\ session' = Requeue(session)
      BY <1>9 DEF Crash, history
    <2>2. \A i \in Id : Stays(i)
      BY <1>1, <2>1, RequeueLemma, ParentLemma DEF Stays, Status
    <2> QED
      BY <2>1, <2>2 DEF NothingNew
  <1>10. CASE UNCHANGED vars
    BY <1>10 DEF vars, NothingNew, Stays
  <1> QED
    BY <1>2, <1>3, <1>4, <1>5, <1>6, <1>7, <1>8, <1>9, <1>10

LEMMA CreationIsOneNew ==
    ASSUME IInv, FamilyInv, NEW i \in Id
    PROVE  /\ CreateReview(i) => OneNew(i, None)
           /\ \A r \in request : CreateCorrection(r, i) => r.id \in Id /\ OneNew(i, r.id)
  <1>1. /\ session \in Sessions /\ EnqueueOf(i).id = i /\ "none" \in Code
        /\ \A r \in request : r \in Request /\ r.id \in Id /\ r.code \in Code
    BY TypeFacts, EnqueueOfLemma DEF IInv, TypeOK, Code
  <1>2. ASSUME CreateReview(i) PROVE OneNew(i, None)
    <2>1. /\ session[i].status = "unused" /\ session' = Create(session, i, None, "none")
          /\ request' = request \union {EnqueueOf(i)} /\ family' = family
      BY <1>2 DEF CreateReview, history
    <2>2. OnlyAt(session, session', i) /\ session'[i].status = "created"
      BY <1>1, <2>1, CreateLemma
    <2>3. session'[i].parent = None
      BY <1>1, <2>1, ParentLemma
    <2> QED
      BY <1>1, <2>1, <2>2, <2>3 DEF OneNew
  <1>3. ASSUME NEW r \in request, CreateCorrection(r, i) PROVE r.id \in Id /\ OneNew(i, r.id)
    <2>1. /\ session[i].status = "unused" /\ session' = Create(session, i, r.id, r.code)
          /\ request' = (request \ {r}) \union {EnqueueOf(i)}
          /\ family' = [family EXCEPT ![i] = family[r.id]]
      BY <1>3 DEF CreateCorrection
    <2>2. OnlyAt(session, session', i) /\ session'[i].status = "created" /\ session'[i].parent = r.id
      BY <1>1, <2>1, CreateLemma, ParentLemma
    <2>3. r.id \in Id /\ session[r.id].status # "unused"
      BY <1>1 DEF FamilyInv
    <2> QED
      BY <1>1, <2>1, <2>2, <2>3 DEF OneNew
  <1> QED
    BY <1>2, <1>3

LEMMA NextKeepsFamilies == IInv /\ IInv' /\ FamilyInv /\ [Next]_vars => FamilyInv'
  <1> SUFFICES ASSUME IInv, IInv', FamilyInv, [Next]_vars PROVE FamilyInv'
    OBVIOUS
  <1>1. TypeOK'
    BY DEF IInv
  <1>2. CASE NothingNew
    BY <1>1, <1>2, NothingNewKeepsFamilies
  <1>3. ASSUME NEW i \in Id, CreateReview(i) PROVE FamilyInv'
    BY <1>1, <1>3, CreationIsOneNew, OneNewKeepsFamilies
  <1>4. ASSUME NEW r \in request, NEW i \in Id, CreateCorrection(r, i) PROVE FamilyInv'
    BY <1>1, <1>4, CreationIsOneNew, OneNewKeepsFamilies
  <1>5. CASE \E t \in Thread : WorkerStep(t)
    BY <1>2, <1>5, RunStepIsNothingNew
  <1>6. CASE \/ \E r \in request : Enqueue(r) \/ RequestFault(r)
             \/ \E i \in Id : ReadParent(i) \/ DeleteReview(i) \/ Expire(i) \/ RetryResearch(i)
             \/ \E t \in Thread : StoreFault(t)
             \/ Crash
             \/ UNCHANGED vars
    BY <1>2, <1>6, OtherStepIsNothingNew
  <1> QED
    BY <1>3, <1>4, <1>5, <1>6 DEF Next, ServerStep, HandlerStep, ClientStep, Failure

LEMMA InitHasFamilies == Init => FamilyInv
  <1> SUFFICES ASSUME Init PROVE FamilyInv
    OBVIOUS
  <1>1. Unused.status = "unused" /\ "unused" \notin Status
    BY BlankIsSession DEF Unused, Status
  <1>2. /\ \A i \in Id : session[i].status = "unused" /\ family[i] = i
        /\ request = {}
    BY <1>1 DEF Init, StoreInit
  <1> QED
    BY <1>1, <1>2 DEF FamilyInv, Together

LEMMA FamilyInvHolds == Spec => []FamilyInv
  BY InitHasFamilies, NextKeepsFamilies, IInvHolds, PTL DEF Spec

LEMMA DeletionFindsTheFamily ==
    ASSUME IsFiniteSet(Id), IInv, FamilyInv, NEW d \in Id, DeleteReview(d),
           NEW i \in Id, family[i] = family[d],
           \A j \in Id : family[j] = family[i] => session[j] # Gone
    PROVE  session'[i].status \in {"unused", "gone"}
  <1> DEFINE L == Lineage(session, d)
             f == family[d]
  <1>1. f \in Id /\ session \in Sessions
    BY TypeFacts DEF IInv, TypeOK
  <1>2. \A j \in Id : session[j].status \in Status \union {"unused", "gone"}
    BY <1>1 DEF Sessions, Session
  <1>3. Whole(f)
    BY DEF Whole, FamilyInv
  <1>4. d \in L /\ \A j, p \in Live(session) : session[j].parent = p => (j \in L <=> p \in L)
    BY LineageIsClosed
  <1>5. session' = Purge(session, L \intersect Live(session)) /\ session[d].status # "unused"
    BY DEF DeleteReview, Delete
  <1> HIDE DEF L
  <1>6. \A j \in Id : session'[j] = IF j \in L \intersect Live(session) THEN Gone ELSE session[j]
    BY <1>5 DEF Purge
  <1>7. ClosedIn(L \intersect Id, f)
    <2> SUFFICES ASSUME NEW j \in Id, family[j] = f, session[j].status \in Status,
                        session[j].parent \in Id
                 PROVE  j \in L <=> session[j].parent \in L
      BY DEF ClosedIn
    <2>1. session[session[j].parent].status \in Status
      BY <1>2, <1>3 DEF FamilyInv, Whole
    <2> QED
      BY <1>4, <2>1 DEF Live
  <1>8. session[d].status \in Status
    BY <1>2, <1>3, <1>5 DEF Whole
  <1>9. CASE session[i].status \in Status
    <2>1. i \in L
      BY <1>1, <1>3, <1>4, <1>7, <1>8, <1>9 DEF FamilyInv, Together
    <2>2. session'[i] = Gone
      BY <1>6, <1>9, <2>1 DEF Live
    <2> QED
      BY <2>2, BlankIsSession DEF Gone
  <1>10. CASE session[i].status \notin Status
    BY <1>2, <1>3, <1>6, <1>10 DEF Whole, Live
  <1> QED
    BY <1>9, <1>10

\* For finitely many reviews: a deletion takes every review of the family, corrections of
\* corrections included, as long as none of them has been removed before.
THEOREM DeletionIsOfFamilies ==
    ASSUME IsFiniteSet(Id)
    PROVE  Spec => DeletionTakesTheFamily
  <1>1. IInv /\ FamilyInv /\ [Next]_vars =>
          [\A i \in Id : /\ family[i] \in erased' \ erased
                         /\ \A j \in Id : family[j] = family[i] => session[j] # Gone
                         => session'[i].status \in {"unused", "gone"}]_vars
    <2> SUFFICES ASSUME IInv, FamilyInv, Next, NEW i \in Id, family[i] \in erased' \ erased,
                        \A j \in Id : family[j] = family[i] => session[j] # Gone
                 PROVE  session'[i].status \in {"unused", "gone"}
      OBVIOUS
    <2>1. PICK d \in Id : DeleteReview(d)
      BY DEF Next, ServerStep, WorkerStep, RunStep, HandlerStep, ClientStep, Failure,
             CreateReview, ReadParent, CreateCorrection, Enqueue, RetryResearch, Expire,
             Claim, MarkRunning, EmitProgress, Succeed, Raise, SaveResult, AnnounceComplete,
             ClearPartial, MarkFailed, AnnounceFailed, SessionLost, StoreFault, RequestFault,
             Crash, history
    <2>2. family[i] = family[d]
      BY <2>1 DEF DeleteReview
    <2> QED
      BY <2>1, <2>2, DeletionFindsTheFamily
  <1> QED
    BY <1>1, IInvHolds, FamilyInvHolds, PTL DEF Spec, DeletionTakesTheFamily

-----------------------------------------------------------------------------
(***************************************************************************)
(* The promise of ReviewPromise.                                           *)
(***************************************************************************)
\* run_failed is in the log of session s, or either of the terminal events.
Failed(s)    == Logged(s, {"run_failed"})
Concluded(s) == Logged(s, TerminalKind)

\* TerminalEndsLog for one session.
Ordered(s) == \A n \in DOMAIN s.log : s.log[n].kind \in TerminalKind => n = Len(s.log)

-----------------------------------------------------------------------------
(***************************************************************************)
(* The logs.                                                               *)
(***************************************************************************)
LEMMA ConcludedLemma ==
    ASSUME NEW s PROVE Concluded(s) <=> Completed(s) \/ Failed(s)
  BY DEF Concluded, Completed, Failed, Logged, TerminalKind

LEMMA SameLog ==
    ASSUME NEW s, NEW r, s.log = r.log
    PROVE  /\ Failed(s) <=> Failed(r)
           /\ Completed(s) <=> Completed(r)
           /\ Ordered(s) <=> Ordered(r)
  BY DEF Failed, Completed, Ordered, Logged

LEMMA EmptyLog ==
    ASSUME NEW s, s.log = << >>
    PROVE  ~Failed(s) /\ ~Completed(s) /\ Ordered(s)
  BY DEF Failed, Completed, Ordered, Logged

LEMMA StartedLog ==
    ASSUME NEW s, NEW n, s.log = << [kind |-> "run_started", attempt |-> n] >>
    PROVE  ~Failed(s) /\ ~Completed(s) /\ Ordered(s)
  BY DEF Failed, Completed, Ordered, Logged, TerminalKind

LEMMA AppendedLog ==
    ASSUME NEW s, NEW r, NEW e \in Event, s.log \in Seq(Event), r.log = Append(s.log, e)
    PROVE  /\ Failed(r) <=> Failed(s) \/ e.kind = "run_failed"
           /\ Completed(r) <=> Completed(s) \/ e.kind = "run_complete"
           /\ ~Failed(s) /\ ~Completed(s) => Ordered(r)
  <1> DEFINE log == s.log
  <1>1. /\ DOMAIN r.log = 1..(Len(log) + 1) /\ Len(r.log) = Len(log) + 1
        /\ DOMAIN log = 1..Len(log) /\ Len(log) \in Nat
        /\ r.log[Len(log) + 1] = e
        /\ \A j \in 1..Len(log) : r.log[j] = log[j]
    OBVIOUS
  <1>2. DOMAIN r.log = DOMAIN log \union {Len(log) + 1}
    BY <1>1
  <1>3. Failed(r) <=> Failed(s) \/ e.kind = "run_failed"
    BY <1>1, <1>2 DEF Failed, Logged
  <1>4. Completed(r) <=> Completed(s) \/ e.kind = "run_complete"
    BY <1>1, <1>2 DEF Completed, Logged
  <1>5. ASSUME ~Failed(s), ~Completed(s) PROVE Ordered(r)
    <2>1. \A j \in DOMAIN log : log[j].kind \notin TerminalKind
      BY <1>5, ConcludedLemma DEF Concluded, Logged
    <2> QED
      BY <1>1, <1>2, <2>1 DEF Ordered
  <1> QED
    BY <1>3, <1>4, <1>5

\* The operations of the store that leave the log alone.
LEMMA KeptLog ==
    ASSUME NEW m \in Sessions, NEW i \in Id
    PROVE  /\ \A s \in Status : SetStatus(m, i, s)[i].log = m[i].log
           /\ Complete(m, i)[i].log = m[i].log
           /\ \A c \in Code : Fail(m, i, c)[i].log = m[i].log
           /\ RemoveResult(m, i)[i].log = m[i].log
  BY DEF SetStatus, Complete, Fail, RemoveResult, Sessions, Session

LEMMA RequeuedLog ==
    ASSUME NEW m \in Sessions, NEW i \in Id
    PROVE  Requeue(m)[i].log = m[i].log
  BY DEF Requeue, Sessions, Session

LEMMA CreatedLog ==
    ASSUME NEW m \in Sessions, NEW i \in Id, NEW p \in Id \union {None}, NEW c \in Code
    PROVE  Create(m, i, p, c)[i].log = << >>
  BY DEF Create, Blank, Sessions

LEMMA ResetLog ==
    ASSUME NEW m \in Sessions, NEW i \in Id, NEW n \in Nat
    PROVE  ResetResearch(m, i, n)[i].log = << [kind |-> "run_started", attempt |-> n] >>
  <1> DEFINE e == << [kind |-> "run_started", attempt |-> n] >>
             r == [m[i] EXCEPT !.status = "created", !.result = FALSE,
                               !.code = "none", !.log = e]
  <1>1. ResetResearch(m, i, n) = [m EXCEPT ![i] = r]
    BY DEF ResetResearch, Sessions
  <1>2. r.log = e
    BY DEF Sessions, Session
  <1> HIDE DEF r, e
  <1>3. ResetResearch(m, i, n)[i].log = e
    BY <1>1, <1>2 DEF Sessions
  <1> QED
    BY <1>3 DEF e

LEMMA EmittedLog ==
    ASSUME NEW m \in Sessions, NEW i \in Id, NEW k \in Kind, NEW n \in Nat
    PROVE  /\ Emit(m, i, k, n)[i].log = Append(m[i].log, [kind |-> k, attempt |-> n])
           /\ m[i].log \in Seq(Event)
           /\ [kind |-> k, attempt |-> n] \in Event
  <1>1. m[i].log \in Seq(Event) /\ [kind |-> k, attempt |-> n] \in Event
    BY DEF Sessions, Session, Event
  <1> QED
    BY <1>1 DEF Emit, Sessions, Session

LEMMA GoneLog == Gone.log = << >> /\ Gone.status = "gone"
  BY DEF Gone, Blank

-----------------------------------------------------------------------------
(***************************************************************************)
(* The invariants.                                                         *)
(***************************************************************************)
\* What holds of a review when clients only retry what they were told has failed: its
\* log is in order, nobody works on it once that has its terminal event or while it
\* is about to be enqueued, and a run that is about to announce a failure has
\* stored it.
CalmAt(i) ==
    /\ Failed(session[i]) => session[i].status = "failed"
    /\ Ordered(session[i])
    /\ \A t \in Thread : Runs(t, i) =>
          /\ ~Concluded(session[i])
          /\ EnqueueOf(i) \notin request
          /\ thread[t].pc = "announce_failed" => session[i].status \in {"failed", "gone"}
          /\ \A u \in Thread : Runs(u, i) => u = t
    /\ EnqueueOf(i) \in request =>
          /\ ~Concluded(session[i])
          /\ session[i].status \in {"created", "gone"}

CalmInv == \A i \in Id : CalmAt(i)

\* A stored verdict of review i has been announced or is in the hands of a run.
VerdictAt(i) ==
    \/ crashes > 0 \/ faults > 1
    \/ session[i].status \notin {"complete", "failed"}
    \/ Concluded(session[i])
    \/ \E t \in Thread : Runs(t, i)

\* Only a fault in the except branch leads to _fail_closed.
FallbackInv == \A t \in Thread : thread[t].fallback => faults > 0

VerdictInv == FallbackInv /\ \A i \in Id : VerdictAt(i)

-----------------------------------------------------------------------------
(***************************************************************************)
(* A step that concerns one review leaves the others as they are.          *)
(***************************************************************************)
OthersKeep(i) ==
    /\ OnlyAt(session, session', i)
    /\ \A j \in Id \ {i} :
          /\ EnqueueOf(j) \in request' => EnqueueOf(j) \in request
          /\ \A t \in Thread : Runs(t, j) \/ Runs(t, j)' => thread'[t] = thread[t]

LEMMA CalmMoves ==
    ASSUME CalmInv, NEW i \in Id, OthersKeep(i), CalmAt(i)'
    PROVE  CalmInv'
  <1> SUFFICES ASSUME NEW j \in Id \ {i} PROVE CalmAt(j)'
    BY DEF CalmInv
  <1>1. session'[j] = session[j] /\ CalmAt(j)
    BY DEF OthersKeep, OnlyAt, CalmInv
  <1>2. /\ EnqueueOf(j) \in request' => EnqueueOf(j) \in request
        /\ \A t \in Thread : Runs(t, j)' => Runs(t, j) /\ thread'[t] = thread[t]
    BY DEF OthersKeep, Runs
  <1>3. /\ Failed(session[j])' <=> Failed(session[j])
        /\ Concluded(session[j])' <=> Concluded(session[j])
        /\ Ordered(session[j])' <=> Ordered(session[j])
    BY <1>1, Zenon
  <1> QED
    BY <1>1, <1>2, <1>3 DEF CalmAt

LEMMA VerdictMoves ==
    ASSUME VerdictInv, NEW i \in Id, OthersKeep(i), VerdictAt(i)', FallbackInv',
           faults \in Nat, faults' \in {faults, faults + 1}, crashes' = crashes
    PROVE  VerdictInv'
  <1> SUFFICES ASSUME NEW j \in Id \ {i} PROVE VerdictAt(j)'
    BY DEF VerdictInv
  <1>1. session'[j] = session[j] /\ VerdictAt(j)
    BY DEF OthersKeep, OnlyAt, VerdictInv
  <1>2. \A t \in Thread : Runs(t, j) => Runs(t, j)'
    BY DEF OthersKeep, Runs
  <1>3. Concluded(session[j])' <=> Concluded(session[j])
    BY <1>1, Zenon
  <1> QED
    BY <1>1, <1>2, <1>3 DEF VerdictAt

-----------------------------------------------------------------------------
(***************************************************************************)
(* The steps of a run, by what they do to its review.                      *)
(***************************************************************************)
\* Only thread t moves, and it goes on with review i.
GoesOn(t, i) ==
    /\ Runs(t, i) /\ Runs(t, i)'
    /\ \A u \in Thread \ {t} : thread'[u] = thread[u]
    /\ request' = request /\ faults' = faults /\ crashes' = crashes
    /\ thread'[t].fallback = thread[t].fallback

\* Only thread t moves, and it is done with review i.
IsDone(t, i) ==
    /\ Runs(t, i) /\ thread'[t] = Idle
    /\ \A u \in Thread \ {t} : thread'[u] = thread[u]
    /\ request' = request /\ faults' = faults /\ crashes' = crashes

\* No terminal event is added to the log of i.
Silent(i) ==
    /\ Failed(session[i])' <=> Failed(session[i])
    /\ Completed(session[i])' <=> Completed(session[i])
    /\ Ordered(session[i]) /\ ~Concluded(session[i]) => Ordered(session[i])'

Working == {"created", "queued", "running"}

WorksOn(t, i) ==
    /\ GoesOn(t, i) /\ Silent(i) /\ thread'[t].pc # "announce_failed"
    /\ \/ session'[i].status = session[i].status
       \/ session[i].status \in Working /\ session'[i].status \in Working

Stores(t, i) ==
    /\ GoesOn(t, i) /\ Silent(i) /\ thread'[t].pc # "announce_failed"
    /\ session[i].status = "running" /\ session'[i].status = "complete"

Fails(t, i) ==
    /\ GoesOn(t, i) /\ Silent(i)
    /\ session[i].status \in Status /\ session'[i].status = "failed"

TellsComplete(t, i) ==
    /\ IsDone(t, i)
    /\ session[i].status = "complete" /\ session'[i].status = "complete"
    /\ Completed(session[i])' /\ (Failed(session[i])' <=> Failed(session[i]))
    /\ ~Concluded(session[i]) => Ordered(session[i])'

TellsFailed(t, i) ==
    /\ IsDone(t, i)
    /\ thread[t].pc = "announce_failed"
    /\ session[i].status \in Status /\ session'[i].status = session[i].status
    /\ Failed(session[i])' /\ (Completed(session[i])' <=> Completed(session[i]))
    /\ ~Concluded(session[i]) => Ordered(session[i])'

Leaves(t, i) == IsDone(t, i) /\ session[i].status = "gone" /\ session' = session

RunEffect(t, i) ==
    \/ WorksOn(t, i) \/ Stores(t, i) \/ Fails(t, i)
    \/ TellsComplete(t, i) \/ TellsFailed(t, i) \/ Leaves(t, i)

LEMMA GotoGoesOn ==
    ASSUME IInv, NEW t \in Thread, NEW i \in Id, Runs(t, i), NEW pc \in Step \ {"idle"},
           Goto(t, pc), UNCHANGED <<request, failures>>
    PROVE  GoesOn(t, i) /\ thread'[t].pc = pc
  <1>1. thread \in [Thread -> Run]
    BY TypeFacts DEF IInv
  <1>2. /\ thread'[t].pc = pc /\ thread'[t].id = thread[t].id
        /\ \A u \in Thread \ {t} : thread'[u] = thread[u]
    BY <1>1, GotoLemma
  <1>3. thread'[t].fallback = thread[t].fallback
    BY <1>1 DEF Goto, Run
  <1> QED
    BY <1>2, <1>3 DEF GoesOn, Runs, failures

LEMMA EndIsDone ==
    ASSUME IInv, NEW t \in Thread, NEW i \in Id, Runs(t, i), End(t),
           UNCHANGED <<request, failures>>
    PROVE  IsDone(t, i)
  <1>1. thread \in [Thread -> Run]
    BY TypeFacts DEF IInv
  <1> QED
    BY <1>1 DEF End, IsDone, failures

LEMMA KeptIsSilent ==
    ASSUME NEW i \in Id, session'[i].log = session[i].log
    PROVE  Silent(i)
  BY SameLog DEF Silent

LEMMA EmitEffect ==
    ASSUME IInv, NEW i \in Id, NEW k \in Kind, NEW n \in Nat, session' = Emit(session, i, k, n)
    PROVE  /\ OnlyAt(session, session', i)
           /\ session'[i].status = session[i].status
           /\ Failed(session[i])' <=> Failed(session[i]) \/ k = "run_failed"
           /\ Completed(session[i])' <=> Completed(session[i]) \/ k = "run_complete"
           /\ ~Concluded(session[i]) => Ordered(session[i])'
  <1>0. session \in Sessions
    BY TypeFacts DEF IInv
  <1>1. /\ OnlyAt(session, session', i) /\ session'[i].status = session[i].status
    BY <1>0, EmitLemma
  <1> DEFINE e == [kind |-> k, attempt |-> n]
  <1>2. session'[i].log = Append(session[i].log, e) /\ session[i].log \in Seq(Event)
        /\ e \in Event /\ e.kind = k
    BY <1>0, EmittedLog
  <1> HIDE DEF e
  <1>3. /\ Failed(session'[i]) <=> Failed(session[i]) \/ k = "run_failed"
        /\ Completed(session'[i]) <=> Completed(session[i]) \/ k = "run_complete"
        /\ ~Failed(session[i]) /\ ~Completed(session[i]) => Ordered(session'[i])
    BY <1>2, AppendedLog
  <1> QED
    BY <1>1, <1>3, ConcludedLemma

LEMMA RunStepEffect ==
    ASSUME IInv, NEW t \in Thread, RunStep(t)
    PROVE  \E i \in Id : RunEffect(t, i) /\ OnlyAt(session, session', i)
  <1>0. /\ session \in Sessions
        /\ thread[t].attempt \in Nat /\ thread[t].code \in Code
    BY TypeFacts DEF IInv
  <1>1. thread[t].pc # "idle"
    BY DEF RunStep, MarkRunning, EmitProgress, Succeed, Raise, SaveResult, AnnounceComplete,
           ClearPartial, MarkFailed, AnnounceFailed, SessionLost, At
  <1>2. PICK i \in Id : i = thread[t].id /\ Runs(t, i) /\ StepInv(thread[t].pc, i)
    BY <1>1, AtFacts
  <1> SUFFICES RunEffect(t, i) /\ OnlyAt(session, session', i)
    OBVIOUS
  <1>3. i \in Live(session) => session[i].status \in Status /\ session[i].status # "gone"
    BY DEF Live, Status
  <1>4. CASE MarkRunning(t)
    <2>1. /\ thread[t].pc = "start" /\ i \in Live(session)
          /\ session' = SetStatus(session, i, "running") /\ Goto(t, "work")
          /\ UNCHANGED <<request, failures>>
      BY <1>2, <1>4 DEF MarkRunning, At
    <2>2. GoesOn(t, i) /\ thread'[t].pc = "work"
      BY <1>2, <2>1, GotoGoesOn DEF Step
    <2>3. /\ session'[i].log = session[i].log /\ session'[i].status = "running"
          /\ OnlyAt(session, session', i)
      BY <1>0, <2>1, KeptLog, SetStatusLemma DEF Status
    <2>4. session[i].status \in Working
      BY <1>2, <1>3, <2>1 DEF StepInv, Working
    <2> QED
      BY <2>2, <2>3, <2>4, KeptIsSilent DEF RunEffect, WorksOn, Working
  <1>5. CASE EmitProgress(t)
    <2>1. /\ thread[t].pc = "work" /\ session' = Emit(session, i, "progress", thread[t].attempt)
          /\ thread' = [thread EXCEPT ![t].sent = @ + 1]
          /\ UNCHANGED <<request, failures>>
      BY <1>2, <1>5 DEF EmitProgress, At
    <2>2. /\ OnlyAt(session, session', i) /\ session'[i].status = session[i].status
          /\ Failed(session[i])' <=> Failed(session[i])
          /\ Completed(session[i])' <=> Completed(session[i])
          /\ ~Concluded(session[i]) => Ordered(session[i])'
      BY <1>0, <2>1, EmitEffect DEF Kind
    <2>3. thread \in [Thread -> Run]
      BY TypeFacts DEF IInv
    <2>4. /\ thread'[t].pc = "work" /\ thread'[t].id = thread[t].id
          /\ thread'[t].fallback = thread[t].fallback
          /\ \A u \in Thread \ {t} : thread'[u] = thread[u]
      BY <2>1, <2>3 DEF Run
    <2>5. GoesOn(t, i)
      BY <1>2, <2>1, <2>4 DEF GoesOn, Runs, failures
    <2> QED
      BY <2>2, <2>4, <2>5 DEF RunEffect, WorksOn, Silent
  <1>6. CASE Succeed(t) \/ \E code \in {"retryable", "fatal"} : Raise(t, code)
    <2>1. session' = session /\ UNCHANGED <<request, failures>>
      BY <1>6 DEF Succeed, Raise
    <2>2. thread \in [Thread -> Run]
      BY TypeFacts DEF IInv
    <2>3. /\ thread'[t].pc \in {"save", "clear"} /\ thread'[t].id = thread[t].id
          /\ thread'[t].fallback = thread[t].fallback
          /\ \A u \in Thread \ {t} : thread'[u] = thread[u]
      <3>1. CASE Succeed(t)
        BY <2>2, <3>1 DEF Succeed, Goto, Run
      <3>2. CASE \E code \in {"retryable", "fatal"} : Raise(t, code)
        BY <2>2, <3>2 DEF Raise, Run
      <3> QED
        BY <1>6, <3>1, <3>2
    <2>4. GoesOn(t, i)
      BY <1>2, <2>1, <2>3 DEF GoesOn, Runs, failures
    <2>5. Silent(i) /\ OnlyAt(session, session', i)
      BY <1>0, <2>1, KeptIsSilent DEF OnlyAt
    <2> QED
      BY <2>1, <2>3, <2>4, <2>5 DEF RunEffect, WorksOn
  <1>7. CASE SaveResult(t)
    <2>1. /\ thread[t].pc = "save" /\ i \in Live(session)
          /\ session' = Complete(session, i) /\ Goto(t, "announce_complete")
          /\ UNCHANGED <<request, failures>>
      BY <1>2, <1>7 DEF SaveResult, At
    <2>2. GoesOn(t, i) /\ thread'[t].pc = "announce_complete"
      BY <1>2, <2>1, GotoGoesOn DEF Step
    <2>3. /\ session'[i].log = session[i].log /\ session'[i].status = "complete"
          /\ OnlyAt(session, session', i)
      BY <1>0, <2>1, KeptLog, CompleteLemma
    <2>4. session[i].status = "running"
      BY <1>2, <1>3, <2>1 DEF StepInv
    <2> QED
      BY <2>2, <2>3, <2>4, KeptIsSilent DEF RunEffect, Stores
  <1>8. CASE AnnounceComplete(t)
    <2>1. /\ thread[t].pc = "announce_complete" /\ i \in Live(session)
          /\ session' = Emit(session, i, "run_complete", thread[t].attempt) /\ End(t)
          /\ UNCHANGED <<request, failures>>
      BY <1>2, <1>8 DEF AnnounceComplete, At
    <2>2. IsDone(t, i)
      BY <1>2, <2>1, EndIsDone
    <2>3. /\ OnlyAt(session, session', i) /\ session'[i].status = session[i].status
          /\ Failed(session[i])' <=> Failed(session[i])
          /\ Completed(session[i])'
          /\ ~Concluded(session[i]) => Ordered(session[i])'
      BY <1>0, <2>1, EmitEffect DEF Kind
    <2>4. session[i].status = "complete"
      BY <1>2, <1>3, <2>1 DEF StepInv
    <2> QED
      BY <2>2, <2>3, <2>4 DEF RunEffect, TellsComplete
  <1>9. CASE ClearPartial(t)
    <2>1. /\ session' = RemoveResult(session, i) /\ Goto(t, "mark_failed")
          /\ UNCHANGED <<request, failures>>
      BY <1>2, <1>9 DEF ClearPartial
    <2>2. GoesOn(t, i) /\ thread'[t].pc = "mark_failed"
      BY <1>2, <2>1, GotoGoesOn DEF Step
    <2>3. /\ session'[i].log = session[i].log /\ session'[i].status = session[i].status
          /\ OnlyAt(session, session', i)
      BY <1>0, <2>1, KeptLog, RemoveResultLemma
    <2> QED
      BY <2>2, <2>3, KeptIsSilent DEF RunEffect, WorksOn
  <1>10. CASE MarkFailed(t)
    <2>1. /\ i \in Live(session)
          /\ session' = Fail(session, i, thread[t].code) /\ Goto(t, "announce_failed")
          /\ UNCHANGED <<request, failures>>
      BY <1>2, <1>10 DEF MarkFailed, At
    <2>2. GoesOn(t, i)
      BY <1>2, <2>1, GotoGoesOn DEF Step
    <2>3. /\ session'[i].log = session[i].log /\ session'[i].status = "failed"
          /\ OnlyAt(session, session', i)
      BY <1>0, <2>1, KeptLog, FailLemma
    <2> QED
      BY <1>3, <2>1, <2>2, <2>3, KeptIsSilent DEF RunEffect, Fails
  <1>11. CASE AnnounceFailed(t)
    <2>1. /\ thread[t].pc = "announce_failed" /\ i \in Live(session)
          /\ session' = Emit(session, i, "run_failed", thread[t].attempt) /\ End(t)
          /\ UNCHANGED <<request, failures>>
      BY <1>2, <1>11 DEF AnnounceFailed, At
    <2>2. IsDone(t, i)
      BY <1>2, <2>1, EndIsDone
    <2>3. /\ OnlyAt(session, session', i) /\ session'[i].status = session[i].status
          /\ Failed(session[i])'
          /\ Completed(session[i])' <=> Completed(session[i])
          /\ ~Concluded(session[i]) => Ordered(session[i])'
      BY <1>0, <2>1, EmitEffect DEF Kind
    <2> QED
      BY <1>3, <2>1, <2>2, <2>3 DEF RunEffect, TellsFailed
  <1>12. CASE SessionLost(t)
    <2>1. i \notin Live(session) /\ End(t) /\ session' = session
          /\ UNCHANGED <<request, failures>>
      BY <1>2, <1>12 DEF SessionLost
    <2>2. IsDone(t, i)
      BY <1>2, <2>1, EndIsDone
    <2>3. session[i].status = "gone"
      BY <1>0, <1>2, <2>1 DEF Live, StepInv, Sessions, Session
    <2>4. OnlyAt(session, session', i)
      BY <1>0, <2>1 DEF OnlyAt
    <2> QED
      BY <2>1, <2>2, <2>3, <2>4 DEF RunEffect, Leaves
  <1> QED
    BY <1>4, <1>5, <1>6, <1>7, <1>8, <1>9, <1>10, <1>11, <1>12 DEF RunStep

-----------------------------------------------------------------------------
(***************************************************************************)
(* The steps of handlers and clients, by what they do to one review.       *)
(***************************************************************************)
\* No run moves or fails.
RunsStay == UNCHANGED <<thread, failures>>

\* Review i is new and is to be enqueued.
IsAccepted(i) ==
    /\ RunsStay
    /\ session[i].status = "unused" /\ session'[i].status = "created"
    /\ ~Failed(session[i])' /\ ~Completed(session[i])' /\ Ordered(session[i])'

\* Review i has failed, and is to be enqueued again.
IsRetried(i) ==
    /\ RunsStay
    /\ session[i].status = "failed" /\ session'[i].status = "created"
    /\ ~EagerRetry => Failed(session[i])
    /\ ~Failed(session[i])' /\ ~Completed(session[i])' /\ Ordered(session[i])'

\* Review i is queued in the store, or a thread is started for it.
IsEnqueued(i) ==
    /\ EnqueueOf(i) \in request /\ EnqueueOf(i) \notin request'
    /\ failures' = failures /\ session'[i].log = session[i].log
    /\ \/ thread' = thread /\ session'[i].status = session[i].status
       \/ thread' = thread /\ session[i].status \in Status /\ session'[i].status = "queued"
       \/ /\ session' = session
          /\ \E t \in Thread : thread[t].pc = "idle" /\ thread' = [thread EXCEPT ![t] = StartOf(i)]

\* The worker takes review i.
IsClaimed(i) ==
    /\ Persistent /\ request' = request /\ failures' = failures
    /\ session[i].status = "queued" /\ session'[i].status = "running"
    /\ session'[i].log = session[i].log
    /\ \E t \in Thread : thread[t].pc = "idle" /\ thread' = [thread EXCEPT ![t] = StartOf(i)]

LEMMA PendingOthers ==
    ASSUME NEW i \in Id, NEW R \in SUBSET Request, request' = R \union {EnqueueOf(i)},
           R \subseteq request
    PROVE  \A j \in Id \ {i} : EnqueueOf(j) \in request' => EnqueueOf(j) \in request
  BY EnqueueOfLemma

LEMMA CreatedEffect ==
    ASSUME IInv, NEW i \in Id, NEW p \in Id \union {None}, NEW c \in Code,
           session[i].status = "unused", session' = Create(session, i, p, c),
           NEW R \in SUBSET Request, R \subseteq request, request' = R \union {EnqueueOf(i)},
           RunsStay
    PROVE  IsAccepted(i) /\ OthersKeep(i)
  <1>0. session \in Sessions
    BY TypeFacts DEF IInv
  <1>1. /\ OnlyAt(session, session', i) /\ session'[i].status = "created"
        /\ session'[i].log = << >>
    BY <1>0, CreateLemma, CreatedLog
  <1>2. ~Failed(session'[i]) /\ ~Completed(session'[i]) /\ Ordered(session'[i])
    BY <1>1, EmptyLog
  <1>3. \A j \in Id \ {i} : EnqueueOf(j) \in request' => EnqueueOf(j) \in request
    BY PendingOthers
  <1> QED
    BY <1>1, <1>2, <1>3 DEF IsAccepted, OthersKeep, RunsStay, Runs

LEMMA HandlerEffect ==
    ASSUME IInv, HandlerStep
    PROVE  \E i \in Id : OthersKeep(i) /\ (IsEnqueued(i) \/ IsAccepted(i))
  <1>0. /\ session \in Sessions /\ request \in SUBSET Request /\ thread \in [Thread -> Run]
    BY TypeFacts DEF IInv, TypeOK
  <1>1. ASSUME NEW r \in request, NEW i \in Id, CreateCorrection(r, i)
        PROVE  IsAccepted(i) /\ OthersKeep(i)
    <2> DEFINE R == request \ {r}
    <2>1. /\ r.id \in Id /\ r.code \in Code
          /\ R \in SUBSET Request /\ R \subseteq request
      BY <1>0, EnqueueOfLemma
    <2>2. /\ session[i].status = "unused" /\ session' = Create(session, i, r.id, r.code)
          /\ request' = R \union {EnqueueOf(i)} /\ RunsStay
      BY <1>1 DEF CreateCorrection, RunsStay
    <2> HIDE DEF R
    <2> QED
      BY <2>1, <2>2, CreatedEffect
  <1>2. ASSUME NEW r \in request, Enqueue(r)
        PROVE  \E i \in Id : OthersKeep(i) /\ IsEnqueued(i)
    <2>1. PICK i \in Id : r = EnqueueOf(i) /\ r.id = i
      BY <1>0, <1>2, EnqueueOfLemma DEF Enqueue
    <2>2. request' = request \ {EnqueueOf(i)} /\ failures' = failures
      BY <1>2, <2>1 DEF Enqueue
    <2>3. CASE Persistent
      <3>1. /\ thread' = thread
            /\ session' = IF i \in Live(session) THEN SetStatus(session, i, "queued")
                                                 ELSE session
        BY <1>2, <2>1, <2>3 DEF Enqueue
      <3>2. CASE i \in Live(session)
        <4>1. /\ OnlyAt(session, session', i) /\ session'[i].log = session[i].log
              /\ session[i].status \in Status /\ session'[i].status = "queued"
          BY <1>0, <3>1, <3>2, SetStatusLemma, KeptLog DEF Live, Status
        <4> QED
          BY <2>1, <2>2, <3>1, <4>1 DEF IsEnqueued, OthersKeep
      <3>3. CASE i \notin Live(session)
        <4>1. session' = session /\ OnlyAt(session, session', i)
          BY <1>0, <3>1, <3>3 DEF OnlyAt
        <4> QED
          BY <2>1, <2>2, <3>1, <4>1 DEF IsEnqueued, OthersKeep
      <3> QED
        BY <3>2, <3>3
    <2>4. CASE ~Persistent
      <3>1. PICK t \in Thread : /\ thread[t].pc = "idle"
                                /\ thread' = [thread EXCEPT ![t] = StartOf(i)]
                                /\ session' = session
        BY <1>2, <2>1, <2>4 DEF Enqueue
      <3>2. attempt \in [Id -> Nat]
        BY DEF IInv, TypeOK
      <3>3. /\ thread'[t].pc = "start" /\ thread'[t].id = i
            /\ \A u \in Thread \ {t} : thread'[u] = thread[u]
        BY <1>0, <3>1, <3>2, StartIsRun
      <3>4. \A j \in Id \ {i}, u \in Thread : Runs(u, j) \/ Runs(u, j)' => thread'[u] = thread[u]
        BY <3>1, <3>3 DEF Runs
      <3>5. OnlyAt(session, session', i)
        BY <1>0, <3>1 DEF OnlyAt
      <3>6. OthersKeep(i)
        BY <2>2, <3>4, <3>5 DEF OthersKeep
      <3>7. IsEnqueued(i)
        BY <2>1, <2>2, <3>1 DEF IsEnqueued
      <3> QED
        BY <3>6, <3>7
    <2> QED
      BY <2>3, <2>4
  <1> QED
    BY <1>1, <1>2 DEF HandlerStep

LEMMA CreateReviewEffect ==
    ASSUME IInv, NEW i \in Id, CreateReview(i)
    PROVE  IsAccepted(i) /\ OthersKeep(i)
  <1>1. request \in SUBSET Request /\ request \subseteq request
    BY DEF IInv, TypeOK
  <1>2. /\ session[i].status = "unused" /\ session' = Create(session, i, None, "none")
        /\ request' = request \union {EnqueueOf(i)} /\ RunsStay
    BY DEF CreateReview, RunsStay
  <1>3. None \in Id \union {None} /\ "none" \in Code
    BY DEF Code
  <1> QED
    BY <1>1, <1>2, <1>3, CreatedEffect

LEMMA RetryEffect ==
    ASSUME IInv, NEW i \in Id, RetryResearch(i)
    PROVE  IsRetried(i) /\ OthersKeep(i)
  <1>0. /\ session \in Sessions /\ request \in SUBSET Request /\ request \subseteq request
        /\ attempt[i] + 1 \in Nat
    BY TypeFacts DEF IInv, TypeOK
  <1>1. /\ session[i].status = "failed"
        /\ ~EagerRetry => Failed(session[i])
        /\ session' = ResetResearch(session, i, attempt[i] + 1)
        /\ request' = request \union {EnqueueOf(i)} /\ RunsStay
    BY DEF RetryResearch, ResearchFailed, FailureSeen, Failed, RunsStay
  <1>2. /\ OnlyAt(session, session', i) /\ session'[i].status = "created"
        /\ session'[i].log = << [kind |-> "run_started", attempt |-> attempt[i] + 1] >>
    BY <1>0, <1>1, ResetLemma, ResetLog
  <1>3. ~Failed(session'[i]) /\ ~Completed(session'[i]) /\ Ordered(session'[i])
    BY <1>2, StartedLog
  <1>4. \A j \in Id \ {i} : EnqueueOf(j) \in request' => EnqueueOf(j) \in request
    BY <1>0, <1>1, PendingOthers
  <1> QED
    BY <1>1, <1>2, <1>3, <1>4 DEF IsRetried, OthersKeep, RunsStay, Runs

LEMMA ClaimEffect ==
    ASSUME IInv, NEW t \in Thread, NEW i \in Id, Claim(t, i)
    PROVE  IsClaimed(i) /\ OthersKeep(i)
  <1>0. /\ session \in Sessions /\ thread \in [Thread -> Run] /\ attempt \in [Id -> Nat]
    BY TypeFacts DEF IInv, TypeOK
  <1>1. /\ Persistent /\ thread[t].pc = "idle" /\ session[i].status = "queued"
        /\ session' = SetStatus(session, i, "running")
        /\ thread' = [thread EXCEPT ![t] = StartOf(i)]
        /\ request' = request /\ failures' = failures
    BY DEF Claim
  <1>2. /\ OnlyAt(session, session', i) /\ session'[i].status = "running"
        /\ session'[i].log = session[i].log
    BY <1>0, <1>1, SetStatusLemma, KeptLog DEF Status
  <1>3. thread'[t].id = i /\ \A u \in Thread : u = t
    BY <1>0, <1>1, StartIsRun, OneThread
  <1>4. \A j \in Id \ {i}, u \in Thread : Runs(u, j) \/ Runs(u, j)' => thread'[u] = thread[u]
    BY <1>1, <1>3 DEF Runs
  <1> QED
    BY <1>1, <1>2, <1>4 DEF IsClaimed, OthersKeep

-----------------------------------------------------------------------------
(***************************************************************************)
(* Steps that concern no review in particular, or many.                    *)
(***************************************************************************)
\* Some sessions that exist disappear.
Vanish(S) ==
    /\ session' = Purge(session, S) /\ S \subseteq Live(session)
    /\ UNCHANGED <<thread, request, failures>>

\* The process restarts.
Restarts ==
    /\ crashes' = crashes + 1 /\ faults' = faults /\ request' = {}
    /\ thread' = [t \in Thread |-> Idle] /\ session' = Requeue(session)

\* The run goes to its except branch, to _fail_closed, or gives up.
Faulted(t) ==
    /\ thread[t].pc # "idle" /\ session' = session /\ request' = request
    /\ faults' = faults + 1 /\ crashes' = crashes
    /\ \A u \in Thread \ {t} : thread'[u] = thread[u]
    /\ \/ thread[t].fallback /\ thread'[t] = Idle
       \/ /\ ~thread[t].fallback
          /\ thread'[t].pc = "clear" /\ thread'[t].id = thread[t].id

\* No session and no run changes.
OnlyRequests ==
    /\ UNCHANGED <<session, thread, crashes>> /\ faults' \in {faults, faults + 1}
    /\ \A i \in Id : EnqueueOf(i) \in request' => EnqueueOf(i) \in request

LEMMA StepEffect ==
    ASSUME IInv, [Next]_vars
    PROVE  \/ \E t \in Thread, i \in Id : RunEffect(t, i) /\ OnlyAt(session, session', i)
           \/ \E i \in Id : /\ IsAccepted(i) \/ IsRetried(i) \/ IsEnqueued(i) \/ IsClaimed(i)
                            /\ OthersKeep(i)
           \/ \E S \in SUBSET Id : Vanish(S)
           \/ \E t \in Thread : Faulted(t)
           \/ Restarts
           \/ OnlyRequests
  <1>0. /\ thread \in [Thread -> Run] /\ request \in SUBSET Request
    BY TypeFacts DEF IInv, TypeOK
  <1>1. ASSUME NEW t \in Thread, WorkerStep(t)
        PROVE  \/ \E i \in Id : RunEffect(t, i) /\ OnlyAt(session, session', i)
               \/ \E i \in Id : IsClaimed(i) /\ OthersKeep(i)
    BY <1>1, RunStepEffect, ClaimEffect DEF WorkerStep
  <1>2. ASSUME NEW i \in Id, ReadParent(i)
        PROVE  OnlyRequests
    <2> DEFINE r == [op |-> "correct", id |-> i, code |-> session[i].code]
    <2>1. request' = request \union {r} /\ \A j \in Id : EnqueueOf(j) # r
      BY <1>2 DEF ReadParent, EnqueueOf
    <2> HIDE DEF r
    <2> QED
      BY <1>2, <2>1 DEF ReadParent, OnlyRequests, failures
  <1>3. ASSUME NEW i \in Id, DeleteReview(i)
        PROVE  \E S \in SUBSET Id : Vanish(S)
    <2> DEFINE S == Lineage(session, i) \intersect Live(session)
    <2>1. session' = Purge(session, S) /\ S \subseteq Live(session) /\ S \in SUBSET Id
      BY <1>3 DEF DeleteReview, Delete, Live
    <2> HIDE DEF S
    <2> QED
      BY <1>3, <2>1 DEF DeleteReview, Vanish
  <1>4. ASSUME NEW i \in Id, Expire(i)
        PROVE  \E S \in SUBSET Id : Vanish(S)
    BY <1>4 DEF Expire, Vanish
  <1>5. ASSUME NEW t \in Thread, StoreFault(t)
        PROVE  Faulted(t)
    <2>1. CASE thread[t].fallback
      BY <1>0, <1>5, <2>1 DEF StoreFault, Faulted, End
    <2>2. CASE ~thread[t].fallback
      <3>1. /\ thread'[t].pc = "clear" /\ thread'[t].id = thread[t].id
            /\ \A u \in Thread \ {t} : thread'[u] = thread[u]
        BY <1>0, <1>5, <2>2 DEF StoreFault, Run
      <3> QED
        BY <1>5, <2>2, <3>1 DEF StoreFault, Faulted
    <2> QED
      BY <2>1, <2>2
  <1>6. ASSUME NEW r \in request, RequestFault(r)
        PROVE  OnlyRequests
    BY <1>6 DEF RequestFault, OnlyRequests
  <1>7. CASE Crash
    BY <1>7 DEF Crash, Restarts
  <1>8. CASE UNCHANGED vars
    BY <1>8 DEF vars, OnlyRequests
  <1> QED
    BY <1>1, <1>2, <1>3, <1>4, <1>5, <1>6, <1>7, <1>8, HandlerEffect, CreateReviewEffect,
       RetryEffect DEF Next, ServerStep, ClientStep, Failure

LEMMA RunOthers ==
    ASSUME NEW t \in Thread, NEW i \in Id, OnlyAt(session, session', i), request' = request,
           Runs(t, i), Runs(t, i)' \/ thread'[t].pc = "idle",
           \A u \in Thread \ {t} : thread'[u] = thread[u]
    PROVE  OthersKeep(i)
  BY DEF OthersKeep, Runs

LEMMA RunEffectOthers ==
    ASSUME NEW t \in Thread, NEW i \in Id, RunEffect(t, i), OnlyAt(session, session', i)
    PROVE  OthersKeep(i)
  <1>1. GoesOn(t, i) \/ IsDone(t, i)
    BY DEF RunEffect, WorksOn, Stores, Fails, TellsComplete, TellsFailed, Leaves
  <1>2. CASE GoesOn(t, i)
    BY <1>2, RunOthers DEF GoesOn
  <1>3. CASE IsDone(t, i)
    BY <1>3, RunOthers, IdleIsRun DEF IsDone
  <1> QED
    BY <1>1, <1>2, <1>3

\* A fault, seen as a step on the review the run works on.
LEMMA FaultedOthers ==
    ASSUME IInv, NEW t \in Thread, Faulted(t)
    PROVE  \E i \in Id : Runs(t, i) /\ OthersKeep(i)
  <1>1. PICK i \in Id : i = thread[t].id /\ Runs(t, i)
    BY AtFacts DEF Faulted
  <1>2. OnlyAt(session, session', i)
    BY TypeFacts DEF IInv, Faulted, OnlyAt
  <1>3. Runs(t, i)' \/ thread'[t].pc = "idle"
    BY <1>1, IdleIsRun DEF Faulted, Runs
  <1>4. OthersKeep(i)
    BY <1>1, <1>2, <1>3, RunOthers DEF Faulted
  <1> QED
    BY <1>1, <1>4

\* A session that vanishes has no events.
LEMMA VanishEffect ==
    ASSUME IInv, NEW S, Vanish(S), NEW i \in Id
    PROVE  \/ session'[i] = session[i] /\ i \notin S
           \/ i \in S /\ session[i].status \in Status /\ session'[i] = Gone
  <1>1. session \in Sessions
    BY TypeFacts DEF IInv
  <1>2. \A j \in Id : Purge(session, S)[j] = IF j \in S THEN Gone ELSE session[j]
    BY <1>1, PurgeLemma, Zenon
  <1> QED
    BY <1>2 DEF Vanish, Live

LEMMA RestartEffect ==
    ASSUME IInv, Restarts, NEW i \in Id
    PROVE  /\ session'[i].log = session[i].log
           /\ \/ session'[i].status = session[i].status
              \/ session[i].status = "running" /\ session'[i].status = "queued"
  <1>1. session \in Sessions
    BY TypeFacts DEF IInv
  <1> QED
    BY <1>1, RequeueLemma, RequeuedLog DEF Restarts

LEMMA SameLogInStep ==
    ASSUME NEW i, session'[i].log = session[i].log
    PROVE  /\ Failed(session[i])' <=> Failed(session[i])
           /\ Completed(session[i])' <=> Completed(session[i])
           /\ Concluded(session[i])' <=> Concluded(session[i])
           /\ Ordered(session[i])' <=> Ordered(session[i])
  BY SameLog, ConcludedLemma

LEMMA GoneInStep ==
    ASSUME NEW i, session'[i] = Gone
    PROVE  /\ ~Failed(session[i])' /\ ~Completed(session[i])' /\ ~Concluded(session[i])'
           /\ Ordered(session[i])' /\ session'[i].status = "gone"
  BY EmptyLog, ConcludedLemma, GoneLog

-----------------------------------------------------------------------------
(***************************************************************************)
(* Calm clients keep the reviews calm.                                     *)
(***************************************************************************)
LEMMA RunIsCalm ==
    ASSUME IInv, CalmInv, NEW t \in Thread, NEW i \in Id, RunEffect(t, i)
    PROVE  CalmAt(i)'
  <1>1. /\ Failed(session[i]) => session[i].status = "failed"
        /\ Ordered(session[i]) /\ Runs(t, i)
        /\ ~Concluded(session[i]) /\ ~Failed(session[i]) /\ ~Completed(session[i])
        /\ EnqueueOf(i) \notin request
        /\ thread[t].pc = "announce_failed" => session[i].status \in {"failed", "gone"}
        /\ \A u \in Thread : Runs(u, i) => u = t
    BY ConcludedLemma DEF CalmInv, CalmAt, RunEffect, WorksOn, Stores, Fails, TellsComplete,
                          TellsFailed, Leaves, GoesOn, IsDone
  <1>2. Concluded(session[i])' <=> Completed(session[i])' \/ Failed(session[i])'
    BY ConcludedLemma
  <1>3. CASE GoesOn(t, i) /\ Silent(i)
             /\ (thread'[t].pc = "announce_failed" => session'[i].status = "failed")
    <2>1. \A u \in Thread : Runs(u, i)' => u = t
      BY <1>1, <1>3 DEF GoesOn, Runs
    <2>2. ~Failed(session[i])' /\ ~Concluded(session[i])' /\ Ordered(session[i])'
      BY <1>1, <1>2, <1>3 DEF Silent
    <2>3. EnqueueOf(i) \notin request'
      BY <1>1, <1>3 DEF GoesOn
    <2> QED
      BY <1>3, <2>1, <2>2, <2>3 DEF CalmAt
  <1>4. CASE /\ IsDone(t, i) /\ Ordered(session[i])'
             /\ Failed(session[i])' => session'[i].status = "failed"
    <2>1. \A u \in Thread : ~Runs(u, i)'
      BY <1>1, <1>4, IdleIsRun DEF IsDone, Runs
    <2>2. EnqueueOf(i) \notin request'
      BY <1>1, <1>4 DEF IsDone
    <2> QED
      BY <1>4, <2>1, <2>2 DEF CalmAt
  <1>5. CASE WorksOn(t, i) \/ Stores(t, i) \/ Fails(t, i)
    BY <1>3, <1>5 DEF WorksOn, Stores, Fails
  <1>6. CASE TellsComplete(t, i)
    BY <1>1, <1>4, <1>6 DEF TellsComplete
  <1>7. CASE TellsFailed(t, i)
    BY <1>1, <1>4, <1>7 DEF TellsFailed, Status
  <1>8. CASE Leaves(t, i)
    BY <1>1, <1>4, <1>8 DEF Leaves
  <1> QED
    BY <1>5, <1>6, <1>7, <1>8 DEF RunEffect

LEMMA HandlerIsCalm ==
    ASSUME IInv, CalmInv, ~EagerRetry, NEW i \in Id,
           IsAccepted(i) \/ IsRetried(i) \/ IsEnqueued(i) \/ IsClaimed(i),
           OthersKeep(i)
    PROVE  CalmAt(i)'
  <1>1. CalmAt(i) /\ thread \in [Thread -> Run] /\ attempt \in [Id -> Nat]
    BY TypeFacts DEF CalmInv, IInv, TypeOK
  <1>2. CASE IsAccepted(i)
    <2>1. \A t \in Thread : ~Runs(t, i)
      BY <1>2 DEF IsAccepted, IInv, RunInv, StepInv, Runs
    <2>2. \A t \in Thread : ~Runs(t, i)'
      BY <1>2, <2>1 DEF IsAccepted, RunsStay, Runs
    <2> QED
      BY <1>2, <2>2, ConcludedLemma DEF IsAccepted, CalmAt
  <1>3. CASE IsRetried(i)
    <2>1. \A t \in Thread : ~Runs(t, i)
      BY <1>1, <1>3, ConcludedLemma DEF IsRetried, CalmAt
    <2>2. \A t \in Thread : ~Runs(t, i)'
      BY <1>3, <2>1 DEF IsRetried, RunsStay, Runs
    <2> QED
      BY <1>3, <2>2, ConcludedLemma DEF IsRetried, CalmAt
  <1>4. ASSUME NEW t \in Thread, thread[t].pc = "idle",
               thread' = [thread EXCEPT ![t] = StartOf(i)],
               \A u \in Thread : ~Runs(u, i)
        PROVE  /\ thread'[t].pc = "start"
               /\ \A u \in Thread : Runs(u, i)' => u = t
    BY <1>1, <1>4, StartIsRun DEF Runs
  <1>5. CASE IsEnqueued(i)
    <2>1. /\ ~Concluded(session[i]) /\ Ordered(session[i])
          /\ session[i].status \in {"created", "gone"}
          /\ \A u \in Thread : ~Runs(u, i)
      BY <1>1, <1>5 DEF IsEnqueued, CalmAt
    <2>2. ~Concluded(session[i])' /\ Ordered(session[i])' /\ ~Failed(session[i])'
      BY <1>5, <2>1, SameLogInStep, ConcludedLemma DEF IsEnqueued
    <2>3. EnqueueOf(i) \notin request'
      BY <1>5 DEF IsEnqueued
    <2>4. CASE thread' = thread
      BY <2>1, <2>2, <2>3, <2>4 DEF CalmAt, Runs
    <2>5. CASE \E t \in Thread : /\ thread[t].pc = "idle"
                                 /\ thread' = [thread EXCEPT ![t] = StartOf(i)]
      <3>1. PICK t \in Thread : /\ thread'[t].pc = "start"
                                /\ \A u \in Thread : Runs(u, i)' => u = t
        BY <1>4, <2>1, <2>5
      <3> QED
        BY <2>2, <2>3, <3>1 DEF CalmAt
    <2> QED
      BY <1>5, <2>4, <2>5 DEF IsEnqueued
  <1>6. CASE IsClaimed(i)
    <2>1. ~Completed(session[i]) /\ session[i].status = "queued"
      BY <1>6 DEF IsClaimed, IInv, SessionInv
    <2>2. /\ ~Failed(session[i]) /\ ~Concluded(session[i]) /\ Ordered(session[i])
          /\ EnqueueOf(i) \notin request
      BY <1>1, <2>1, ConcludedLemma DEF CalmAt
    <2>3. ~Concluded(session[i])' /\ Ordered(session[i])' /\ ~Failed(session[i])'
      BY <1>6, <2>2, SameLogInStep DEF IsClaimed
    <2>4. PICK t \in Thread : /\ thread[t].pc = "idle"
                              /\ thread' = [thread EXCEPT ![t] = StartOf(i)]
      BY <1>6 DEF IsClaimed
    <2>5. \A u \in Thread : ~Runs(u, i)
      BY <1>6, <2>4, OneThread DEF IsClaimed, Runs
    <2>6. thread'[t].pc = "start" /\ \A u \in Thread : Runs(u, i)' => u = t
      BY <1>4, <2>4, <2>5
    <2>7. EnqueueOf(i) \notin request'
      BY <1>6, <2>2 DEF IsClaimed
    <2> QED
      BY <2>3, <2>6, <2>7 DEF CalmAt
  <1> QED
    BY <1>2, <1>3, <1>5, <1>6

LEMMA NextIsCalm ==
    ASSUME ~EagerRetry, IInv, CalmInv, [Next]_vars
    PROVE  CalmInv'
  <1>1. ASSUME NEW t \in Thread, NEW i \in Id, RunEffect(t, i), OnlyAt(session, session', i)
        PROVE  CalmInv'
    BY <1>1, RunEffectOthers, RunIsCalm, CalmMoves
  <1>2. ASSUME NEW i \in Id, OthersKeep(i),
               IsAccepted(i) \/ IsRetried(i) \/ IsEnqueued(i) \/ IsClaimed(i)
        PROVE  CalmInv'
    BY <1>2, HandlerIsCalm, CalmMoves
  <1>3. ASSUME NEW S \in SUBSET Id, Vanish(S)
        PROVE  CalmInv'
    <2> SUFFICES ASSUME NEW i \in Id PROVE CalmAt(i)'
      BY DEF CalmInv
    <2>1. CalmAt(i) /\ thread' = thread /\ request' = request
      BY <1>3 DEF CalmInv, Vanish
    <2>2. CASE session'[i] = session[i]
      BY <2>1, <2>2, SameLogInStep DEF CalmAt, Runs
    <2>3. CASE session'[i] = Gone
      BY <2>1, <2>3, GoneInStep DEF CalmAt, Runs
    <2> QED
      BY <1>3, <2>2, <2>3, VanishEffect
  <1>4. ASSUME NEW t \in Thread, Faulted(t)
        PROVE  CalmInv'
    <2>1. PICK i \in Id : Runs(t, i) /\ OthersKeep(i)
      BY <1>4, FaultedOthers
    <2>2. CalmAt(i) /\ session' = session /\ request' = request
      BY <1>4 DEF CalmInv, Faulted
    <2>3. thread'[t].pc # "announce_failed" /\ \A u \in Thread : Runs(u, i)' => u = t
      BY <1>4, <2>1, <2>2, IdleIsRun DEF Faulted, Runs, CalmAt
    <2>4. CalmAt(i)'
      BY <2>1, <2>2, <2>3, SameLogInStep DEF CalmAt
    <2> QED
      BY <2>1, <2>4, CalmMoves
  <1>5. CASE Restarts
    <2> SUFFICES ASSUME NEW i \in Id PROVE CalmAt(i)'
      BY DEF CalmInv
    <2>1. CalmAt(i) /\ request' = {} /\ \A t \in Thread : thread'[t].pc = "idle"
      BY <1>5, IdleIsRun DEF CalmInv, Restarts
    <2>2. Failed(session[i])' => session'[i].status = "failed"
      BY <1>5, <2>1, RestartEffect, SameLogInStep DEF CalmAt
    <2>3. Ordered(session[i])'
      BY <1>5, <2>1, RestartEffect, SameLogInStep DEF CalmAt
    <2> QED
      BY <2>1, <2>2, <2>3 DEF CalmAt, Runs
  <1>6. CASE OnlyRequests
    <2> SUFFICES ASSUME NEW i \in Id PROVE CalmAt(i)'
      BY DEF CalmInv
    <2> QED
      BY <1>6, SameLogInStep DEF CalmInv, CalmAt, OnlyRequests, Runs
  <1> QED
    BY <1>1, <1>2, <1>3, <1>4, <1>5, <1>6, StepEffect

LEMMA InitIsCalm == Init => CalmInv
  <1> SUFFICES ASSUME Init, NEW i \in Id PROVE CalmAt(i)
    BY DEF CalmInv
  <1>1. session[i].log = << >> /\ request = {} /\ \A t \in Thread : thread[t].pc = "idle"
    BY IdleIsRun DEF Init, StoreInit, Unused, Blank
  <1>2. ~Failed(session[i]) /\ ~Completed(session[i]) /\ Ordered(session[i])
    BY <1>1, EmptyLog
  <1> QED
    BY <1>1, <1>2 DEF CalmAt, Runs

THEOREM CalmInvHolds ==
    ASSUME ~EagerRetry
    PROVE  Spec => []CalmInv
  <1>1. Init => CalmInv
    BY InitIsCalm
  <1>2. IInv /\ CalmInv /\ [Next]_vars => CalmInv'
    BY NextIsCalm
  <1> QED
    BY <1>1, <1>2, IInvHolds, PTL DEF Spec

\* The stream of a review may stop reading at the first terminal event: nothing ever
\* follows it in the log, if clients retry only what they were told has failed.
THEOREM NothingFollowsTheEnd ==
    ASSUME ~EagerRetry
    PROVE  Spec => []TerminalEndsLog
  <1>1. CalmInv => TerminalEndsLog
    BY DEF CalmInv, CalmAt, Ordered, TerminalEndsLog
  <1> QED
    BY <1>1, CalmInvHolds, PTL

-----------------------------------------------------------------------------
(***************************************************************************)
(* A stored verdict survives whatever clients and one fault do.            *)
(***************************************************************************)
LEMMA RunKeepsVerdict ==
    ASSUME IInv, VerdictInv, NEW t \in Thread, NEW i \in Id, RunEffect(t, i)
    PROVE  /\ VerdictAt(i)' /\ FallbackInv' /\ faults' = faults /\ crashes' = crashes
  <1>0. faults' = faults /\ crashes' = crashes
    BY DEF RunEffect, WorksOn, Stores, Fails, TellsComplete, TellsFailed, Leaves, GoesOn, IsDone
  <1>1. CASE WorksOn(t, i) \/ Stores(t, i) \/ Fails(t, i)
    <2>1. GoesOn(t, i)
      BY <1>1 DEF WorksOn, Stores, Fails
    <2>2. VerdictAt(i)'
      BY <2>1 DEF GoesOn, VerdictAt
    <2>3. FallbackInv'
      BY <2>1 DEF GoesOn, VerdictInv, FallbackInv
    <2> QED
      BY <1>0, <2>2, <2>3
  <1>2. CASE TellsComplete(t, i) \/ TellsFailed(t, i) \/ Leaves(t, i)
    <2>1. IsDone(t, i)
      BY <1>2 DEF TellsComplete, TellsFailed, Leaves
    <2>2. Idle.fallback = FALSE
      BY DEF Idle
    <2>3. FallbackInv'
      BY <2>1, <2>2 DEF IsDone, VerdictInv, FallbackInv
    <2>4. Concluded(session[i])' <=> Completed(session[i])' \/ Failed(session[i])'
      BY ConcludedLemma
    <2>5. VerdictAt(i)'
      BY <1>2, <2>4 DEF TellsComplete, TellsFailed, Leaves, VerdictAt
    <2> QED
      BY <1>0, <2>3, <2>5
  <1> QED
    BY <1>1, <1>2 DEF RunEffect

LEMMA HandlerKeepsVerdict ==
    ASSUME IInv, VerdictInv, NEW i \in Id,
           IsAccepted(i) \/ IsRetried(i) \/ IsEnqueued(i) \/ IsClaimed(i)
    PROVE  /\ VerdictAt(i)' /\ FallbackInv' /\ faults' = faults /\ crashes' = crashes
  <1>0. /\ VerdictAt(i) /\ faults' = faults /\ crashes' = crashes
        /\ thread \in [Thread -> Run] /\ attempt \in [Id -> Nat]
    BY TypeFacts DEF VerdictInv, IsAccepted, IsRetried, IsEnqueued, IsClaimed, RunsStay,
                     failures, IInv, TypeOK
  <1>1. CASE thread' = thread
    <2>1. FallbackInv'
      BY <1>0, <1>1 DEF VerdictInv, FallbackInv
    <2>2. CASE IsEnqueued(i) /\ session'[i].status = session[i].status
      <3>1. Concluded(session[i])' <=> Concluded(session[i])
        BY <2>2, SameLogInStep DEF IsEnqueued
      <3> QED
        BY <1>0, <1>1, <2>1, <2>2, <3>1 DEF VerdictAt, Runs
    <2>3. CASE session'[i].status \in {"created", "queued", "running"}
      BY <1>0, <2>1, <2>3 DEF VerdictAt
    <2>4. CASE session' = session
      BY <1>0, <1>1, <2>1, <2>4 DEF VerdictAt, Runs
    <2> QED
      BY <2>2, <2>3, <2>4 DEF IsAccepted, IsRetried, IsEnqueued, IsClaimed
  <1>2. CASE \E t \in Thread : thread[t].pc = "idle" /\ thread' = [thread EXCEPT ![t] = StartOf(i)]
    <2>1. PICK t \in Thread : thread' = [thread EXCEPT ![t] = StartOf(i)]
      BY <1>2
    <2>2. /\ StartOf(i).fallback = FALSE /\ StartOf(i).pc = "start" /\ StartOf(i).id = i
      BY DEF StartOf, Idle
    <2>3. FallbackInv'
      BY <1>0, <2>1, <2>2 DEF VerdictInv, FallbackInv
    <2>4. Runs(t, i)'
      BY <1>0, <2>1, <2>2 DEF Runs
    <2> QED
      BY <1>0, <2>3, <2>4 DEF VerdictAt
  <1> QED
    BY <1>1, <1>2 DEF IsAccepted, IsRetried, IsEnqueued, IsClaimed, RunsStay

LEMMA NextKeepsVerdicts ==
    ASSUME IInv, VerdictInv, [Next]_vars
    PROVE  VerdictInv'
  <1>0. faults \in Nat /\ crashes \in Nat
    BY DEF IInv, TypeOK
  <1>1. ASSUME NEW t \in Thread, NEW i \in Id, RunEffect(t, i), OnlyAt(session, session', i)
        PROVE  VerdictInv'
    BY <1>0, <1>1, RunEffectOthers, RunKeepsVerdict, VerdictMoves
  <1>2. ASSUME NEW i \in Id, OthersKeep(i),
               IsAccepted(i) \/ IsRetried(i) \/ IsEnqueued(i) \/ IsClaimed(i)
        PROVE  VerdictInv'
    BY <1>0, <1>2, HandlerKeepsVerdict, VerdictMoves
  <1>3. ASSUME NEW S \in SUBSET Id, Vanish(S)
        PROVE  VerdictInv'
    <2>1. thread' = thread /\ faults' = faults /\ crashes' = crashes
      BY <1>3 DEF Vanish, failures
    <2>2. FallbackInv'
      BY <2>1 DEF VerdictInv, FallbackInv
    <2>3. ASSUME NEW i \in Id PROVE VerdictAt(i)'
      <3>1. VerdictAt(i)
        BY DEF VerdictInv
      <3>2. CASE session'[i] = session[i]
        BY <2>1, <3>1, <3>2, SameLogInStep DEF VerdictAt, Runs
      <3>3. CASE session'[i] = Gone
        BY <3>3, GoneInStep DEF VerdictAt
      <3> QED
        BY <1>3, <3>2, <3>3, VanishEffect
    <2> QED
      BY <2>2, <2>3 DEF VerdictInv
  <1>4. ASSUME NEW t \in Thread, Faulted(t)
        PROVE  VerdictInv'
    <2>1. PICK i \in Id : Runs(t, i) /\ OthersKeep(i)
      BY <1>4, FaultedOthers
    <2>2. faults' = faults + 1 /\ crashes' = crashes /\ FallbackInv'
      BY <1>0, <1>4 DEF Faulted, FallbackInv
    <2>3. VerdictAt(i)'
      <3>1. CASE thread[t].fallback
        BY <1>0, <2>2, <3>1 DEF VerdictInv, FallbackInv, VerdictAt
      <3>2. CASE ~thread[t].fallback
        BY <1>4, <2>1, <3>2 DEF Faulted, Runs, VerdictAt
      <3> QED
        BY <3>1, <3>2
    <2> QED
      BY <1>0, <2>1, <2>2, <2>3, VerdictMoves
  <1>5. CASE Restarts
    <2>1. crashes' > 0 /\ \A t \in Thread : thread'[t].fallback = FALSE
      BY <1>0, <1>5 DEF Restarts, Idle
    <2> QED
      BY <2>1 DEF VerdictInv, VerdictAt, FallbackInv
  <1>6. CASE OnlyRequests
    <2>1. /\ thread' = thread /\ session' = session /\ crashes' = crashes
          /\ faults' \in {faults, faults + 1}
      BY <1>6 DEF OnlyRequests
    <2>2. FallbackInv'
      BY <1>0, <2>1 DEF VerdictInv, FallbackInv
    <2>3. ASSUME NEW i \in Id PROVE VerdictAt(i)'
      <3>1. VerdictAt(i) /\ (Concluded(session[i])' <=> Concluded(session[i]))
        BY <2>1, SameLogInStep DEF VerdictInv
      <3> QED
        BY <1>0, <2>1, <3>1 DEF VerdictAt, Runs
    <2> QED
      BY <2>2, <2>3 DEF VerdictInv
  <1> QED
    BY <1>1, <1>2, <1>3, <1>4, <1>5, <1>6, StepEffect

THEOREM VerdictInvHolds == Spec => []VerdictInv
  <1>1. Init => VerdictInv
    <2> SUFFICES ASSUME Init PROVE VerdictInv
      OBVIOUS
    <2>1. /\ \A t \in Thread : thread[t].fallback = FALSE
          /\ \A i \in Id : session[i].status = "unused"
      BY DEF Init, StoreInit, Unused, Blank, Idle
    <2> QED
      BY <2>1 DEF VerdictInv, VerdictAt, FallbackInv
  <1>2. IInv /\ VerdictInv /\ [Next]_vars => VerdictInv'
    BY NextKeepsVerdicts
  <1> QED
    BY <1>1, <1>2, IInvHolds, PTL DEF Spec

\* A verdict that is stored, in either deployment, is announced or still in the hands
\* of a run, whatever a client does and whichever one store operation raises, as long
\* as the process does not crash.
THEOREM OneFaultHidesNothing == Spec => []VerdictSurvivesFaults
  <1>1. IInv /\ VerdictInv => VerdictSurvivesFaults
    BY DEF IInv, TypeOK, VerdictInv, VerdictAt, VerdictSurvivesFaults, VerdictIsAnnounced,
           Concluded
  <1> QED
    BY <1>1, IInvHolds, VerdictInvHolds, PTL

-----------------------------------------------------------------------------
(***************************************************************************)
(* The service keeps its promise: every step of it is a step of            *)
(* ReviewPromise on the phases and announcements, or leaves them alone.    *)
(***************************************************************************)
PromiseStep == Promise!PromiseNext \/ UNCHANGED <<Phase, Announced>>

LEMMA PhaseIs ==
    ASSUME NEW i \in Id
    PROVE  /\ session[i].status \in Working => Phase[i] = "working"
           /\ session[i].status \notin Working => Phase[i] = session[i].status
           /\ ~Concluded(session[i]) => Announced[i] = "nothing"
           /\ Completed(session[i]) => Announced[i] = "complete"
           /\ Failed(session[i]) /\ ~Completed(session[i]) => Announced[i] = "failed"
  BY ConcludedLemma DEF Phase, Announced, Working, Completed, Failed

LEMMA PhaseWillBe ==
    ASSUME NEW i \in Id
    PROVE  /\ session'[i].status \in Working => Phase'[i] = "working"
           /\ session'[i].status \notin Working => Phase'[i] = session'[i].status
           /\ ~Concluded(session[i])' => Announced'[i] = "nothing"
           /\ Completed(session[i])' => Announced'[i] = "complete"
           /\ Failed(session[i])' /\ ~Completed(session[i])' => Announced'[i] = "failed"
  BY ConcludedLemma DEF Phase, Announced, Working, Completed, Failed

\* When one session changes, so do only its phase and its announcement.
LEMMA PhaseChanges ==
    ASSUME NEW i \in Id, OnlyAt(session, session', i)
    PROVE  /\ Phase' = [Phase EXCEPT ![i] = Phase'[i]]
           /\ Announced' = [Announced EXCEPT ![i] = Announced'[i]]
           /\ Phase = [Phase EXCEPT ![i] = Phase[i]]
           /\ Announced = [Announced EXCEPT ![i] = Announced[i]]
  <1>1. \A j \in Id \ {i} : session'[j] = session[j]
    BY DEF OnlyAt
  <1>2. \A j \in Id \ {i} : Phase'[j] = Phase[j]
    BY <1>1 DEF Phase
  <1>3. \A j \in Id \ {i} : Announced'[j] = Announced[j]
    BY <1>1 DEF Announced
  <1>4. /\ Phase = [j \in Id |-> Phase[j]] /\ Phase' = [j \in Id |-> Phase'[j]]
        /\ Announced = [j \in Id |-> Announced[j]]
        /\ Announced' = [j \in Id |-> Announced'[j]]
    BY Zenon DEF Phase, Announced
  <1> QED
    BY <1>2, <1>3, <1>4

LEMMA RunKeepsPromise ==
    ASSUME CalmInv, NEW t \in Thread, NEW i \in Id, RunEffect(t, i),
           OnlyAt(session, session', i)
    PROVE  PromiseStep
  <1>1. /\ ~Concluded(session[i]) /\ ~Completed(session[i]) /\ ~Failed(session[i])
        /\ thread[t].pc = "announce_failed" => session[i].status \in {"failed", "gone"}
    BY ConcludedLemma DEF CalmInv, CalmAt, RunEffect, WorksOn, Stores, Fails, TellsComplete,
                          TellsFailed, Leaves, GoesOn, IsDone
  <1>2. Concluded(session[i])' <=> Completed(session[i])' \/ Failed(session[i])'
    BY ConcludedLemma
  <1>3. Announced[i] = "nothing"
    BY <1>1, PhaseIs
  <1>4. CASE WorksOn(t, i)
    <2>1. Announced'[i] = "nothing"
      BY <1>1, <1>2, <1>4, PhaseWillBe DEF WorksOn, Silent
    <2>2. Phase'[i] = Phase[i]
      BY <1>4, PhaseIs, PhaseWillBe DEF WorksOn
    <2> QED
      BY <1>3, <2>1, <2>2, PhaseChanges DEF PromiseStep
  <1>5. CASE Stores(t, i)
    <2>1. Announced'[i] = "nothing"
      BY <1>1, <1>2, <1>5, PhaseWillBe DEF Stores, Silent
    <2>2. Phase[i] = "working" /\ Phase'[i] = "complete"
      BY <1>5, PhaseIs, PhaseWillBe DEF Stores, Working
    <2>3. Promise!Settle(i)
      BY <1>3, <2>1, <2>2, PhaseChanges DEF Promise!Settle, Promise!Verdict
    <2> QED
      BY <2>3 DEF PromiseStep, Promise!PromiseNext
  <1>6. CASE Fails(t, i)
    <2>1. Announced'[i] = "nothing"
      BY <1>1, <1>2, <1>6, PhaseWillBe DEF Fails, Silent
    <2>2. Phase'[i] = "failed"
      BY <1>6, PhaseWillBe DEF Fails, Working
    <2>3. Phase[i] \in {"working", "complete", "failed"}
      BY <1>6, PhaseIs DEF Fails, Working, Status
    <2>4. CASE Phase[i] = "working"
      <3>1. Promise!Settle(i)
        BY <1>3, <2>1, <2>2, <2>4, PhaseChanges DEF Promise!Settle, Promise!Verdict
      <3> QED
        BY <3>1 DEF PromiseStep, Promise!PromiseNext
    <2>5. CASE Phase[i] = "complete"
      <3>1. Promise!FailClosed(i)
        BY <1>3, <2>1, <2>2, <2>5, PhaseChanges DEF Promise!FailClosed
      <3> QED
        BY <3>1 DEF PromiseStep, Promise!PromiseNext
    <2>6. CASE Phase[i] = "failed"
      BY <1>3, <2>1, <2>2, <2>6, PhaseChanges DEF PromiseStep
    <2> QED
      BY <2>3, <2>4, <2>5, <2>6
  <1>7. CASE TellsComplete(t, i)
    <2>1. Announced'[i] = "complete"
      BY <1>7, PhaseWillBe DEF TellsComplete
    <2>2. Phase[i] = "complete" /\ Phase'[i] = "complete"
      BY <1>7, PhaseIs, PhaseWillBe DEF TellsComplete, Working
    <2>3. Promise!Announce(i)
      BY <1>3, <2>1, <2>2, PhaseChanges DEF Promise!Announce, Promise!Verdict
    <2> QED
      BY <2>3 DEF PromiseStep, Promise!PromiseNext
  <1>8. CASE TellsFailed(t, i)
    <2>1. Announced'[i] = "failed"
      BY <1>1, <1>8, PhaseWillBe DEF TellsFailed
    <2>2. Phase[i] = "failed" /\ Phase'[i] = "failed"
      BY <1>1, <1>8, PhaseIs, PhaseWillBe DEF TellsFailed, Working, Status
    <2>3. Promise!Announce(i)
      BY <1>3, <2>1, <2>2, PhaseChanges DEF Promise!Announce, Promise!Verdict
    <2> QED
      BY <2>3 DEF PromiseStep, Promise!PromiseNext
  <1>9. CASE Leaves(t, i)
    BY <1>9 DEF Leaves, PromiseStep, Phase, Announced
  <1> QED
    BY <1>4, <1>5, <1>6, <1>7, <1>8, <1>9 DEF RunEffect

LEMMA HandlerKeepsPromise ==
    ASSUME ~EagerRetry, IInv, CalmInv, NEW i \in Id,
           IsAccepted(i) \/ IsRetried(i) \/ IsEnqueued(i) \/ IsClaimed(i),
           OthersKeep(i)
    PROVE  PromiseStep
  <1>0. OnlyAt(session, session', i) /\ CalmAt(i) /\ SessionInv(i)
    BY DEF OthersKeep, CalmInv, IInv
  <1>1. CASE IsAccepted(i)
    <2>1. ~Concluded(session[i])
      BY <1>0, <1>1, ConcludedLemma DEF IsAccepted, CalmAt, SessionInv
    <2>2. ~Concluded(session[i])'
      BY <1>1, ConcludedLemma DEF IsAccepted
    <2>3. Announced[i] = "nothing" /\ Announced'[i] = "nothing"
      BY <2>1, <2>2, PhaseIs, PhaseWillBe
    <2>4. Phase[i] = "unused" /\ Phase'[i] = "working"
      BY <1>1, PhaseIs, PhaseWillBe DEF IsAccepted, Working
    <2>5. Promise!Accept(i)
      BY <1>0, <2>3, <2>4, PhaseChanges DEF Promise!Accept
    <2> QED
      BY <2>5 DEF PromiseStep, Promise!PromiseNext
  <1>2. CASE IsRetried(i)
    <2>1. Announced[i] = "failed"
      BY <1>0, <1>2, PhaseIs DEF IsRetried, SessionInv
    <2>2. ~Concluded(session[i])'
      BY <1>2, ConcludedLemma DEF IsRetried
    <2>3. Announced'[i] = "nothing" /\ Phase'[i] = "working"
      BY <1>2, <2>2, PhaseWillBe DEF IsRetried, Working
    <2>4. Promise!TryAgain(i)
      BY <1>0, <2>1, <2>3, PhaseChanges DEF Promise!TryAgain
    <2> QED
      BY <2>4 DEF PromiseStep, Promise!PromiseNext
  <1>3. CASE IsEnqueued(i) \/ IsClaimed(i)
    <2>1. ~Concluded(session[i])
      BY <1>0, <1>3, ConcludedLemma DEF IsEnqueued, IsClaimed, CalmAt, SessionInv
    <2>2. ~Concluded(session[i])'
      BY <1>3, <2>1, SameLogInStep DEF IsEnqueued, IsClaimed
    <2>3. Announced[i] = "nothing" /\ Announced'[i] = "nothing"
      BY <2>1, <2>2, PhaseIs, PhaseWillBe
    <2>4. \/ session'[i].status = session[i].status
          \/ session[i].status \in Working /\ session'[i].status \in Working
      BY <1>0, <1>3 DEF IsEnqueued, IsClaimed, CalmAt, Working, Status
    <2>5. Phase'[i] = Phase[i]
      BY <2>4, PhaseIs, PhaseWillBe
    <2> QED
      BY <1>0, <2>3, <2>5, PhaseChanges DEF PromiseStep
  <1> QED
    BY <1>1, <1>2, <1>3

LEMMA VanishKeepsPromise ==
    ASSUME IInv, NEW S \in SUBSET Id, Vanish(S)
    PROVE  PromiseStep
  <1>1. \A i \in S : Phase[i] \notin {"unused", "gone"}
    <2> SUFFICES ASSUME NEW i \in S PROVE Phase[i] \notin {"unused", "gone"}
      OBVIOUS
    <2>1. session[i].status \in Status
      BY DEF Vanish, Live
    <2> QED
      BY <2>1, PhaseIs DEF Status, Working
  <1>2. ASSUME NEW i \in Id
        PROVE  /\ Phase'[i] = IF i \in S THEN "gone" ELSE Phase[i]
               /\ Announced'[i] = IF i \in S THEN "nothing" ELSE Announced[i]
    <2>1. CASE i \in S
      <3>1. session'[i] = Gone
        BY <2>1, VanishEffect
      <3> QED
        BY <2>1, <3>1, GoneInStep, PhaseWillBe DEF Working
    <2>2. CASE i \notin S
      <3>1. session'[i] = session[i]
        BY <2>2, VanishEffect
      <3> QED
        BY <2>2, <3>1 DEF Phase, Announced
    <2> QED
      BY <2>1, <2>2
  <1>3. Phase' = [i \in Id |-> IF i \in S THEN "gone" ELSE Phase[i]]
    BY <1>2 DEF Phase
  <1>4. Announced' = [i \in Id |-> IF i \in S THEN "nothing" ELSE Announced[i]]
    BY <1>2 DEF Announced
  <1>5. Promise!Withdraw(S)
    BY <1>1, <1>3, <1>4 DEF Promise!Withdraw
  <1> QED
    BY <1>5 DEF PromiseStep, Promise!PromiseNext

LEMMA RestartKeepsPromise ==
    ASSUME IInv, Restarts
    PROVE  PromiseStep
  <1>1. ASSUME NEW i \in Id
        PROVE  Phase'[i] = Phase[i] /\ Announced'[i] = Announced[i]
    <2>1. Phase'[i] = Phase[i]
      BY RestartEffect, PhaseIs, PhaseWillBe DEF Working
    <2>2. Announced'[i] = Announced[i]
      BY RestartEffect DEF Announced, Logged
    <2> QED
      BY <2>1, <2>2
  <1>2. /\ Phase = [i \in Id |-> Phase[i]] /\ Phase' = [i \in Id |-> Phase'[i]]
        /\ Announced = [i \in Id |-> Announced[i]]
        /\ Announced' = [i \in Id |-> Announced'[i]]
    BY Zenon DEF Phase, Announced
  <1> QED
    BY <1>1, <1>2 DEF PromiseStep

LEMMA NextKeepsPromise ==
    ASSUME ~EagerRetry, IInv, CalmInv, [Next]_vars
    PROVE  PromiseStep
  <1>1. CASE session' = session
    BY <1>1 DEF PromiseStep, Phase, Announced
  <1>2. CASE (\E t \in Thread : Faulted(t)) \/ OnlyRequests
    BY <1>1, <1>2 DEF Faulted, OnlyRequests
  <1> QED
    BY <1>2, StepEffect, RunKeepsPromise, HandlerKeepsPromise, VanishKeepsPromise,
       RestartKeepsPromise

\* The service implements ReviewPromise, in both deployments, through faults, crashes,
\* corrections, deletions and expiry, for clients that retry only what they were told
\* has failed.
THEOREM ServiceKeepsPromise ==
    ASSUME ~EagerRetry
    PROVE  Spec => KeepsPromise
  <1>1. Init => Promise!PromiseInit
    <2> SUFFICES ASSUME Init PROVE Promise!PromiseInit
      OBVIOUS
    <2>1. \A i \in Id : session[i].status = "unused" /\ session[i].log = << >>
      BY DEF Init, StoreInit, Unused, Blank
    <2>2. \A i \in Id : Phase[i] = "unused" /\ Announced[i] = "nothing"
      BY <2>1 DEF Phase, Announced, Logged
    <2> QED
      BY <2>2 DEF Promise!PromiseInit, Phase, Announced
  <1>2. IInv /\ CalmInv /\ [Next]_vars => [Promise!PromiseNext]_(Promise!promiseVars)
    BY NextKeepsPromise DEF PromiseStep, Promise!promiseVars
  <1> QED
    BY <1>1, <1>2, IInvHolds, CalmInvHolds, PTL DEF Spec, KeepsPromise, Promise!PromiseSpec

-----------------------------------------------------------------------------
(***************************************************************************)
(* The stream of events.                                                   *)
(***************************************************************************)
\* The steps after which a run belongs to the attempt of its review: no retry of the
\* review is accepted while a run is at one of them.
Attempting == {"start", "work", "save", "announce_complete"}

\* Whose attempt the runs and the events of review i are of.  Only the announcement of a
\* failure may be of an attempt before the present one.
AttemptAt(i) ==
    /\ \A t \in Thread : Runs(t, i) =>
          /\ thread[t].attempt <= attempt[i]
          /\ thread[t].pc \in Attempting => thread[t].attempt = attempt[i]
    /\ \A n \in DOMAIN session[i].log :
          /\ session[i].log[n].attempt <= attempt[i]
          /\ session[i].log[n].kind # "run_failed" => session[i].log[n].attempt = attempt[i]

AttemptInv == \A i \in Id : AttemptAt(i)

\* What a step of the service may do to the log of i.
LogKept(i)     == attempt'[i] = attempt[i] /\ session'[i].log = session[i].log
LogAppended(i) ==
    /\ attempt'[i] = attempt[i]
    /\ \E e \in Event : /\ session'[i].log = Append(session[i].log, e)
                        /\ e.attempt <= attempt[i]
                        /\ e.kind # "run_failed" => e.attempt = attempt[i]
LogRestarted(i) ==
    /\ attempt'[i] = attempt[i] + 1
    /\ session'[i].log = << [kind |-> "run_started", attempt |-> attempt[i] + 1] >>
LogGone(i) == attempt'[i] = attempt[i] /\ session'[i] = Gone
LogCreated(i) == attempt'[i] = attempt[i] /\ session[i].status = "unused" /\ session'[i].log = << >>

LogMoves(i) == LogKept(i) \/ LogAppended(i) \/ LogRestarted(i) \/ LogGone(i) \/ LogCreated(i)

LEMMA LogMovesAreTimely ==
    ASSUME NEW i \in Id, attempt[i] \in Nat, session[i].log \in Seq(Event), LogMoves(i),
           \A n \in DOMAIN session[i].log :
              /\ session[i].log[n].attempt <= attempt[i]
              /\ session[i].log[n].kind # "run_failed" => session[i].log[n].attempt = attempt[i]
    PROVE  \A n \in DOMAIN session'[i].log :
              /\ session'[i].log[n].attempt <= attempt'[i]
              /\ session'[i].log[n].kind # "run_failed" => session'[i].log[n].attempt = attempt'[i]
  <1> DEFINE log == session[i].log
             next == session'[i].log
  <1>1. CASE LogKept(i)
    BY <1>1 DEF LogKept
  <1>2. CASE LogAppended(i)
    <2>1. PICK e \in Event : /\ next = Append(log, e) /\ e.attempt <= attempt[i]
                             /\ e.kind # "run_failed" => e.attempt = attempt[i]
      BY <1>2 DEF LogAppended
    <2>2. /\ DOMAIN next = 1..(Len(log) + 1) /\ DOMAIN log = 1..Len(log) /\ Len(log) \in Nat
          /\ next[Len(log) + 1] = e /\ \A n \in 1..Len(log) : next[n] = log[n]
      BY <2>1
    <2>3. \A n \in DOMAIN next : n \in DOMAIN log \/ n = Len(log) + 1
      BY <2>2
    <2>4. attempt'[i] = attempt[i]
      BY <1>2 DEF LogAppended
    <2> QED
      BY <2>1, <2>2, <2>3, <2>4
  <1>3. CASE LogRestarted(i)
    <2> DEFINE e == [kind |-> "run_started", attempt |-> attempt[i] + 1]
    <2>1. e.attempt = attempt'[i] /\ next = << e >> /\ attempt'[i] \in Nat
      BY <1>3 DEF LogRestarted
    <2> HIDE DEF e
    <2> QED
      BY <2>1
  <1>4. CASE LogGone(i) \/ LogCreated(i)
    BY <1>4, GoneLog DEF LogGone, LogCreated
  <1> QED
    BY <1>1, <1>2, <1>3, <1>4 DEF LogMoves
\* What a step of the service may do to the run of thread u.
RunGoesOn(u) ==
    \/ thread'[u].pc = "idle"
    \/ /\ thread[u].pc # "idle" /\ thread'[u].id = thread[u].id
       /\ thread'[u].attempt = thread[u].attempt
       /\ thread'[u].pc \in Attempting => thread[u].pc \in Attempting
    \/ thread'[u].attempt = attempt[thread'[u].id] /\ attempt' = attempt

\* A retry is only ever of a review that has failed.
RetriesFailed == \A i \in Id : attempt'[i] = attempt[i] \/ session[i].status = "failed"

IsTimely ==
    /\ \A i \in Id : LogMoves(i)
    /\ \A u \in Thread : RunGoesOn(u)
    /\ RetriesFailed

LEMMA TimelyFacts ==
    ASSUME IInv
    PROVE  /\ session \in Sessions /\ thread \in [Thread -> Run] /\ attempt \in [Id -> Nat]
           /\ \A i \in Id : attempt[i] \in Nat /\ session[i].log \in Seq(Event)
           /\ \A t \in Thread : thread[t].attempt \in Nat /\ thread[t].code \in Code
  <1>1. session \in Sessions /\ thread \in [Thread -> Run] /\ attempt \in [Id -> Nat]
    BY TypeFacts DEF IInv, TypeOK
  <1> QED
    BY <1>1 DEF Sessions, Session, Run

\* Only the log of i changes, if any, and only thread t moves, or none.
LEMMA OneLogIsTimely ==
    ASSUME NEW i \in Id, OnlyAt(session, session', i), LogMoves(i), attempt' = attempt,
           \A u \in Thread : thread'[u] = thread[u] \/ RunGoesOn(u)
    PROVE  IsTimely
  <1>1. \A j \in Id \ {i} : LogMoves(j)
    BY DEF OnlyAt, LogMoves, LogKept
  <1>2. \A u \in Thread : RunGoesOn(u)
    BY DEF RunGoesOn
  <1> QED
    BY <1>1, <1>2 DEF IsTimely, RetriesFailed

LEMMA RunIsTimely ==
    ASSUME IInv, AttemptInv, NEW t \in Thread, RunStep(t)
    PROVE  IsTimely
  <1>0. thread[t].pc # "idle"
    BY DEF RunStep, MarkRunning, EmitProgress, Succeed, Raise, SaveResult, AnnounceComplete,
           ClearPartial, MarkFailed, AnnounceFailed, SessionLost, At
  <1>1. PICK i \in Id : i = thread[t].id /\ Runs(t, i)
    BY <1>0, AtFacts
  <1>2. /\ session \in Sessions /\ thread \in [Thread -> Run] /\ attempt' = attempt
        /\ thread[t].attempt \in Nat /\ thread[t].code \in Code
        /\ thread[t].attempt <= attempt[i]
        /\ thread[t].pc \in Attempting => thread[t].attempt = attempt[i]
    BY <1>1, TimelyFacts DEF RunStep, MarkRunning, EmitProgress, Succeed, Raise, SaveResult,
         AnnounceComplete, ClearPartial, MarkFailed, AnnounceFailed, SessionLost, history,
         AttemptInv, AttemptAt
  <1>3. OnlyAt(session, session', i)
    BY <1>1, <1>2, RunStepEffect DEF RunEffect, WorksOn, Stores, Fails, TellsComplete,
         TellsFailed, Leaves, GoesOn, IsDone, Runs
  <1>4. \A u \in Thread : thread'[u] = thread[u] \/ RunGoesOn(u)
    <2>1. ASSUME NEW pc, Goto(t, pc), pc \in Attempting => thread[t].pc \in Attempting
          PROVE  \A u \in Thread : thread'[u] = thread[u] \/ RunGoesOn(u)
      <3>1. /\ thread'[t].pc = pc /\ thread'[t].id = thread[t].id
            /\ thread'[t].attempt = thread[t].attempt
            /\ \A u \in Thread \ {t} : thread'[u] = thread[u]
        BY <1>2, <2>1 DEF Goto, Run
      <3> QED
        BY <1>0, <2>1, <3>1 DEF RunGoesOn
    <2>2. CASE End(t)
      BY <1>2, <2>2 DEF End, RunGoesOn, Idle
    <2>3. CASE EmitProgress(t)
      <3>1. /\ thread'[t].pc = thread[t].pc /\ thread'[t].id = thread[t].id
            /\ thread'[t].attempt = thread[t].attempt
            /\ \A u \in Thread \ {t} : thread'[u] = thread[u]
        BY <1>2, <2>3 DEF EmitProgress, Run
      <3> QED
        BY <1>0, <3>1 DEF RunGoesOn
    <2>4. CASE \E code \in {"retryable", "fatal"} : Raise(t, code)
      <3>1. /\ thread'[t].pc = "clear" /\ thread'[t].id = thread[t].id
            /\ thread'[t].attempt = thread[t].attempt
            /\ \A u \in Thread \ {t} : thread'[u] = thread[u]
        BY <1>2, <2>4 DEF Raise, Run
      <3> QED
        BY <1>0, <3>1 DEF RunGoesOn, Attempting
    <2>5. CASE MarkRunning(t) \/ Succeed(t) \/ SaveResult(t) \/ ClearPartial(t) \/ MarkFailed(t)
      BY <2>1, <2>5 DEF MarkRunning, Succeed, SaveResult, ClearPartial, MarkFailed, At, Attempting
    <2> QED
      BY <2>2, <2>3, <2>4, <2>5 DEF RunStep, AnnounceComplete, AnnounceFailed, SessionLost
  <1>5. LogMoves(i)
    <2>1. CASE MarkRunning(t) \/ SaveResult(t) \/ ClearPartial(t) \/ MarkFailed(t)
      <3>1. "running" \in Status
        BY DEF Status
      <3>2. session'[i].log = session[i].log
        BY <1>1, <1>2, <2>1, <3>1, KeptLog DEF MarkRunning, SaveResult, ClearPartial, MarkFailed
      <3> QED
        BY <1>2, <3>2 DEF LogMoves, LogKept
    <2>2. CASE UNCHANGED session
      BY <1>2, <2>2 DEF LogMoves, LogKept
    <2>3. CASE EmitProgress(t) \/ AnnounceComplete(t) \/ AnnounceFailed(t)
      <3>1. PICK k \in Kind : /\ session' = Emit(session, i, k, thread[t].attempt)
                              /\ k # "run_failed" => thread[t].pc \in Attempting
        BY <1>1, <2>3 DEF EmitProgress, AnnounceComplete, AnnounceFailed, At, Kind, Attempting
      <3> DEFINE e == [kind |-> k, attempt |-> thread[t].attempt]
      <3>2. /\ session'[i].log = Append(session[i].log, e) /\ e \in Event
            /\ e.kind = k /\ e.attempt = thread[t].attempt
        BY <1>2, <3>1, EmittedLog
      <3> HIDE DEF e
      <3> QED
        BY <1>2, <3>1, <3>2 DEF LogMoves, LogAppended
    <2> QED
      BY <2>1, <2>2, <2>3 DEF RunStep, Succeed, Raise, SessionLost
  <1> QED
    BY <1>2, <1>3, <1>4, <1>5, OneLogIsTimely

LEMMA OtherStepIsTimely ==
    ASSUME IInv,
           \/ \E r \in request : Enqueue(r) \/ RequestFault(r)
           \/ \E r \in request, i \in Id : CreateCorrection(r, i)
           \/ \E i \in Id : CreateReview(i) \/ ReadParent(i) \/ DeleteReview(i) \/ Expire(i)
           \/ \E i \in Id : RetryResearch(i)
           \/ \E t \in Thread : StoreFault(t) \/ \E i \in Id : Claim(t, i)
           \/ Crash
           \/ UNCHANGED vars
    PROVE  IsTimely
  <1>0. /\ session \in Sessions /\ thread \in [Thread -> Run] /\ attempt \in [Id -> Nat]
        /\ \A r \in request : r \in Request /\ r.id \in Id /\ r.code \in Code
        /\ "none" \in Code
    BY TimelyFacts, EnqueueOfLemma DEF IInv, TypeOK, Code
  <1>1. ASSUME attempt' = attempt, \A i \in Id : session'[i] = Gone \/ session'[i].log = session[i].log,
               \A u \in Thread : thread'[u] = thread[u] \/ RunGoesOn(u)
        PROVE  IsTimely
    <2>1. \A i \in Id : LogMoves(i)
      BY <1>1 DEF LogMoves, LogKept, LogGone
    <2>2. \A u \in Thread : RunGoesOn(u)
      BY <1>1 DEF RunGoesOn
    <2> QED
      BY <1>1, <2>1, <2>2 DEF IsTimely, RetriesFailed
  <1>2. ASSUME NEW r \in request, Enqueue(r) PROVE IsTimely
    <2>1. CASE Persistent
      <3>1. /\ attempt' = attempt /\ thread' = thread
            /\ session' = session \/ session' = SetStatus(session, r.id, "queued")
        BY <1>2, <2>1 DEF Enqueue, history
      <3>2. "queued" \in Status
        BY DEF Status
      <3>3. ASSUME NEW i \in Id, session' = SetStatus(session, r.id, "queued")
            PROVE  session'[i].log = session[i].log
        <4>1. CASE i = r.id
          BY <1>0, <3>2, <3>3, <4>1, KeptLog
        <4>2. CASE i # r.id
          <5>1. OnlyAt(session, session', r.id)
            BY <1>0, <3>2, <3>3, SetStatusLemma
          <5> QED
            BY <4>2, <5>1 DEF OnlyAt
        <4> QED
          BY <4>1, <4>2
      <3>4. \A i \in Id : session'[i].log = session[i].log
        BY <3>1, <3>3
      <3> QED
        BY <1>1, <3>1, <3>4
    <2>2. CASE ~Persistent
      <3>1. /\ attempt' = attempt /\ session' = session
            /\ \E t \in Thread : thread' = [thread EXCEPT ![t] = StartOf(r.id)]
        BY <1>2, <2>2 DEF Enqueue, history
      <3>2. StartOf(r.id).attempt = attempt[r.id] /\ StartOf(r.id).id = r.id
        BY DEF StartOf, Idle
      <3>3. \A u \in Thread : thread'[u] = thread[u] \/ RunGoesOn(u)
        BY <1>0, <3>1, <3>2 DEF RunGoesOn
      <3> QED
        BY <1>1, <3>1, <3>3
    <2> QED
      BY <2>1, <2>2
  <1>3. ASSUME NEW i \in Id, NEW p \in Id \union {None}, NEW c \in Code,
               session' = Create(session, i, p, c), session[i].status = "unused",
               UNCHANGED <<thread, attempt>>
        PROVE  IsTimely
    <2>1. OnlyAt(session, session', i)
      BY <1>0, <1>3, CreateLemma
    <2>2. session'[i].log = << >>
      BY <1>0, <1>3, CreatedLog
    <2>3. LogMoves(i)
      BY <1>3, <2>2 DEF LogMoves, LogCreated
    <2> QED
      BY <1>3, <2>1, <2>3, OneLogIsTimely
  <1>4. ASSUME NEW r \in request, NEW i \in Id, CreateCorrection(r, i) PROVE IsTimely
    <2>1. /\ session' = Create(session, i, r.id, r.code) /\ session[i].status = "unused"
          /\ UNCHANGED <<thread, attempt>>
      BY <1>4 DEF CreateCorrection
    <2> QED
      BY <1>0, <1>3, <2>1
  <1>5. ASSUME NEW i \in Id, CreateReview(i) PROVE IsTimely
    <2>1. /\ session' = Create(session, i, None, "none") /\ session[i].status = "unused"
          /\ UNCHANGED <<thread, attempt>>
      BY <1>5 DEF CreateReview, history
    <2> QED
      BY <1>0, <1>3, <2>1
  <1>6. ASSUME UNCHANGED <<session, thread, attempt>> PROVE IsTimely
    BY <1>1, <1>6
  <1>7. ASSUME NEW i \in Id, DeleteReview(i) \/ Expire(i) PROVE IsTimely
    <2>1. attempt' = attempt /\ thread' = thread
      BY <1>7 DEF DeleteReview, Expire, history
    <2>2. \A j \in Id : session'[j] = Gone \/ session'[j] = session[j]
      BY <1>7 DEF DeleteReview, Expire, Delete, Purge
    <2> QED
      BY <1>1, <2>1, <2>2
  <1>8. ASSUME NEW i \in Id, RetryResearch(i) PROVE IsTimely
    <2>1. /\ session[i].status = "failed" /\ thread' = thread
          /\ attempt' = [attempt EXCEPT ![i] = @ + 1] /\ attempt[i] + 1 \in Nat
          /\ session' = ResetResearch(session, i, attempt[i] + 1)
      BY <1>0, <1>8 DEF RetryResearch, ResearchFailed
    <2>2. OnlyAt(session, session', i)
      BY <1>0, <2>1, ResetLemma
    <2>3. session'[i].log = << [kind |-> "run_started", attempt |-> attempt[i] + 1] >>
      BY <1>0, <2>1, ResetLog
    <2>4. attempt'[i] = attempt[i] + 1 /\ \A j \in Id \ {i} : attempt'[j] = attempt[j]
      BY <1>0, <2>1
    <2>5. LogMoves(i)
      BY <2>3, <2>4 DEF LogMoves, LogRestarted
    <2>6. \A j \in Id \ {i} : LogMoves(j)
      BY <2>2, <2>4 DEF OnlyAt, LogMoves, LogKept
    <2>7. \A u \in Thread : RunGoesOn(u)
      BY <2>1 DEF RunGoesOn
    <2> QED
      BY <2>1, <2>4, <2>5, <2>6, <2>7 DEF IsTimely, RetriesFailed
  <1>9. ASSUME NEW t \in Thread, StoreFault(t) PROVE IsTimely
    <2>1. /\ attempt' = attempt /\ session' = session /\ thread[t].pc # "idle"
      BY <1>9 DEF StoreFault, history
    <2>2. CASE thread[t].fallback
      <3>1. /\ thread'[t].pc = "idle" /\ \A u \in Thread \ {t} : thread'[u] = thread[u]
        BY <1>0, <1>9, <2>2, EndLemma DEF StoreFault
      <3> QED
        BY <1>1, <2>1, <3>1 DEF RunGoesOn
    <2>3. CASE ~thread[t].fallback
      <3> DEFINE again == Recording(t)
      <3>0. thread' = [thread EXCEPT ![t].pc = "clear", ![t].code = "fatal", ![t].fallback = again]
        BY <1>9, <2>3 DEF StoreFault
      <3> HIDE DEF again
      <3>a. thread[t] \in Run
        BY <1>0
      <3>b. thread'[t] = [thread[t] EXCEPT !.pc = "clear", !.code = "fatal", !.fallback = again]
        BY <1>0, <3>0
      <3>c. /\ thread'[t].pc = "clear" /\ thread'[t].id = thread[t].id
            /\ thread'[t].attempt = thread[t].attempt
        BY <3>a, <3>b DEF Run
      <3>d. \A u \in Thread \ {t} : thread'[u] = thread[u]
        BY <1>0, <3>0
      <3>1. /\ thread'[t].pc = "clear" /\ thread'[t].id = thread[t].id
            /\ thread'[t].attempt = thread[t].attempt
            /\ \A u \in Thread \ {t} : thread'[u] = thread[u]
        BY <3>c, <3>d
      <3>2. RunGoesOn(t)
        BY <2>1, <3>1 DEF RunGoesOn, Attempting
      <3> QED
        BY <1>1, <2>1, <3>1, <3>2
    <2> QED
      BY <2>2, <2>3
  <1>10. ASSUME NEW t \in Thread, NEW i \in Id, Claim(t, i) PROVE IsTimely
    <2>1. /\ attempt' = attempt /\ session' = SetStatus(session, i, "running")
          /\ thread' = [thread EXCEPT ![t] = StartOf(i)] /\ "running" \in Status
      BY <1>10 DEF Claim, history, Status
    <2>2. \A j \in Id : session'[j].log = session[j].log
      BY <1>0, <2>1, KeptLog, SetStatusLemma DEF OnlyAt
    <2>3. StartOf(i).attempt = attempt[i] /\ StartOf(i).id = i
      BY DEF StartOf, Idle
    <2>4. \A u \in Thread : thread'[u] = thread[u] \/ RunGoesOn(u)
      BY <1>0, <2>1, <2>3 DEF RunGoesOn
    <2> QED
      BY <1>1, <2>1, <2>2, <2>4
  <1>11. CASE Crash
    <2>1. /\ attempt' = attempt /\ session' = Requeue(session)
          /\ \A u \in Thread : thread'[u].pc = "idle"
      BY <1>11, IdleIsRun DEF Crash, history
    <2>2. \A j \in Id : session'[j].log = session[j].log
      BY <1>0, <2>1, RequeuedLog
    <2> QED
      BY <1>1, <2>1, <2>2 DEF RunGoesOn
  <1>12. ASSUME NEW i \in Id, ReadParent(i) PROVE IsTimely
    BY <1>6, <1>12 DEF ReadParent, history
  <1>13. ASSUME NEW r \in request, RequestFault(r) PROVE IsTimely
    BY <1>6, <1>13 DEF RequestFault, history
  <1>14. CASE UNCHANGED vars
    BY <1>6, <1>14 DEF vars
  <1> QED
    BY <1>2, <1>4, <1>5, <1>7, <1>8, <1>9, <1>10, <1>11, <1>12, <1>13, <1>14

LEMMA NextIsTimely ==
    ASSUME IInv, AttemptInv, [Next]_vars
    PROVE  IsTimely
  <1>1. CASE \E t \in Thread : RunStep(t)
    BY <1>1, RunIsTimely
  <1>2. CASE ~\E t \in Thread : RunStep(t)
    BY <1>2, OtherStepIsTimely DEF Next, ServerStep, WorkerStep, HandlerStep, ClientStep, Failure
  <1> QED
    BY <1>1, <1>2

LEMMA NextKeepsAttempts == IInv /\ IInv' /\ AttemptInv /\ [Next]_vars => AttemptInv'
  <1> SUFFICES ASSUME IInv, IInv', AttemptInv, [Next]_vars, NEW i \in Id PROVE AttemptAt(i)'
    BY DEF AttemptInv
  <1>1. IsTimely
    BY NextIsTimely
  <1>2. /\ attempt[i] \in Nat /\ session[i].log \in Seq(Event)
        /\ \A t \in Thread : thread[t].attempt \in Nat
    BY TimelyFacts
  <1>3. \A n \in DOMAIN session'[i].log :
              /\ session'[i].log[n].attempt <= attempt'[i]
              /\ session'[i].log[n].kind # "run_failed" => session'[i].log[n].attempt = attempt'[i]
    BY <1>1, <1>2, LogMovesAreTimely DEF IsTimely, AttemptInv, AttemptAt
  <1>4. attempt'[i] \in {attempt[i], attempt[i] + 1}
    BY <1>1 DEF IsTimely, LogMoves, LogKept, LogAppended, LogRestarted, LogGone, LogCreated
  <1>5. ASSUME NEW t \in Thread, Runs(t, i)'
        PROVE  /\ thread'[t].attempt <= attempt'[i]
               /\ thread'[t].pc \in Attempting => thread'[t].attempt = attempt'[i]
    <2>1. thread'[t].pc # "idle" /\ thread'[t].id = i /\ RunGoesOn(t)
      BY <1>1, <1>5 DEF Runs, IsTimely
    <2>2. CASE thread'[t].attempt = attempt[thread'[t].id] /\ attempt' = attempt
      BY <1>2, <2>1, <2>2
    <2>3. CASE /\ thread[t].pc # "idle" /\ thread'[t].id = thread[t].id
               /\ thread'[t].attempt = thread[t].attempt
               /\ thread'[t].pc \in Attempting => thread[t].pc \in Attempting
      <3>1. /\ Runs(t, i) /\ thread[t].attempt <= attempt[i]
            /\ thread[t].pc \in Attempting => thread[t].attempt = attempt[i]
        BY <2>1, <2>3 DEF Runs, AttemptInv, AttemptAt
      <3>2. thread[t].pc \in Attempting => session[i].status # "failed"
        BY <3>1, AtFacts DEF Runs, StepInv, Attempting
      <3>3. thread[t].pc \in Attempting => attempt'[i] = attempt[i]
        BY <1>1, <3>2 DEF IsTimely, RetriesFailed
      <3> QED
        BY <1>2, <1>4, <2>3, <3>1, <3>3
    <2> QED
      BY <2>1, <2>2, <2>3 DEF RunGoesOn
  <1> QED
    BY <1>3, <1>5 DEF AttemptAt

LEMMA InitIsTimely == Init => AttemptInv
  <1> SUFFICES ASSUME Init, NEW i \in Id PROVE AttemptAt(i)
    BY DEF AttemptInv
  <1>1. session[i].log = << >> /\ \A t \in Thread : thread[t].pc = "idle"
    BY IdleIsRun DEF Init, StoreInit, Unused, Blank
  <1> QED
    BY <1>1 DEF AttemptAt, Runs

-----------------------------------------------------------------------------
(***************************************************************************)
(* The tabs.                                                               *)
(***************************************************************************)
\* What a tab has been given of the log it reads: everything up to its cursor, of which
\* only the last event may be of an earlier attempt, and then it has been told.
Follows(tab, log) ==
    /\ tab.cursor <= Len(log)
    /\ \A n \in 1..tab.cursor :
          /\ tab.seen[n] = log[n]
          /\ tab.seen[n].attempt = tab.attempt \/ (n = tab.cursor /\ tab.pc = "told")

\* A tab that watches its review, as far as it is concerned itself.
SeenOf(tab, a) ==
    /\ tab.attempt <= a
    /\ \A n \in DOMAIN tab.seen : tab.seen[n].attempt <= a
    /\ tab.pc = "retrying" => \A n \in DOMAIN tab.seen : tab.seen[n].attempt < tab.attempt
    /\ tab.pc # "retrying" => tab.cursor = Len(tab.seen)

TabFits(tab) ==
    /\ tab.pc = "away" => tab.id = None
    /\ tab.pc # "away" =>
          /\ tab.id \in Id /\ session[tab.id].status # "unused"
          /\ SeenOf(tab, attempt[tab.id])
          /\ (/\ tab.pc # "retrying"
              /\ tab.attempt = attempt[tab.id] /\ session[tab.id].status \in Status)
             => Follows(tab, session[tab.id].log)

TabInv == viewer \in [Viewer -> Tab] /\ \A v \in Viewer : TabFits(viewer[v])

LEMMA SessionsGoOn ==
    ASSUME IInv, FamilyInv, [Next]_vars, NEW i \in Id, session[i].status # "unused"
    PROVE  /\ session'[i].status # "unused"
           /\ session'[i].status \in Status => session[i].status \in Status
  <1>0. Gone.status = "gone" /\ "gone" \notin Status /\ "unused" \notin Status
    BY BlankIsSession DEF Gone, Status
  <1>1. CASE NothingNew
    BY <1>0, <1>1 DEF NothingNew, Stays
  <1>2. CASE \E j \in Id, p \in Id \union {None} : OneNew(j, p)
    BY <1>0, <1>2 DEF OneNew, OnlyAt
  <1>3. ASSUME NEW j \in Id, CreateReview(j) PROVE \E p \in Id \union {None} : OneNew(j, p)
    BY <1>3, CreationIsOneNew
  <1>4. ASSUME NEW r \in request, NEW j \in Id, CreateCorrection(r, j)
        PROVE  \E p \in Id \union {None} : OneNew(j, p)
    BY <1>4, CreationIsOneNew
  <1>5. CASE \E t \in Thread : WorkerStep(t)
    BY <1>1, <1>5, RunStepIsNothingNew
  <1>6. CASE \/ \E r \in request : Enqueue(r) \/ RequestFault(r)
             \/ \E j \in Id : ReadParent(j) \/ DeleteReview(j) \/ Expire(j) \/ RetryResearch(j)
             \/ \E t \in Thread : StoreFault(t)
             \/ Crash
             \/ UNCHANGED vars
    BY <1>1, <1>6, OtherStepIsNothingNew
  <1> QED
    BY <1>2, <1>3, <1>4, <1>5, <1>6 DEF Next, ServerStep, HandlerStep, ClientStep, Failure

\* A tab that does nothing itself in a step of the service.
LEMMA TabIsKept ==
    ASSUME IInv, IInv', FamilyInv, AttemptInv, [Next]_vars, NEW tab \in Tab, TabFits(tab)
    PROVE  /\ tab.pc = "away" => tab.id = None
           /\ tab.pc # "away" =>
                 /\ tab.id \in Id /\ session'[tab.id].status # "unused"
                 /\ SeenOf(tab, attempt'[tab.id])
                 /\ (/\ tab.pc # "retrying"
                     /\ tab.attempt = attempt'[tab.id] /\ session'[tab.id].status \in Status)
                    => Follows(tab, session'[tab.id].log)
  <1> SUFFICES ASSUME tab.pc # "away"
               PROVE  /\ tab.id \in Id /\ session'[tab.id].status # "unused"
                      /\ SeenOf(tab, attempt'[tab.id])
                      /\ (/\ tab.pc # "retrying"
                          /\ tab.attempt = attempt'[tab.id]
                          /\ session'[tab.id].status \in Status)
                         => Follows(tab, session'[tab.id].log)
    BY DEF TabFits
  <1>1. PICK i \in Id : i = tab.id /\ session[i].status # "unused"
    BY DEF TabFits
  <1>2. /\ session'[i].status # "unused"
        /\ session'[i].status \in Status => session[i].status \in Status
    BY <1>1, SessionsGoOn
  <1>3. IsTimely /\ LogMoves(i)
    BY NextIsTimely DEF IsTimely
  <1>4. /\ attempt[i] \in Nat /\ tab.attempt \in Nat /\ tab.cursor \in Nat
        /\ tab.seen \in Seq(Event) /\ session[i].log \in Seq(Event)
        /\ \A n \in DOMAIN tab.seen : tab.seen[n].attempt \in Nat
    <2>1. tab.attempt \in Nat /\ tab.cursor \in Nat /\ tab.seen \in Seq(Event)
      BY DEF Tab
    <2>2. \A e \in Event : e.attempt \in Nat
      BY DEF Event
    <2>3. \A n \in DOMAIN tab.seen : tab.seen[n] \in Event
      BY <2>1
    <2> QED
      BY <2>1, <2>2, <2>3, TimelyFacts
  <1>5. attempt'[i] = attempt[i] \/ attempt'[i] = attempt[i] + 1
    BY <1>3 DEF LogMoves, LogKept, LogAppended, LogRestarted, LogGone, LogCreated
  <1>6. SeenOf(tab, attempt[i])
    BY <1>1 DEF TabFits
  <1>7. SeenOf(tab, attempt'[i])
    BY <1>4, <1>5, <1>6 DEF SeenOf
  <1>8. ASSUME tab.pc # "retrying", tab.attempt = attempt'[i], session'[i].status \in Status
        PROVE  Follows(tab, session'[i].log)
    <2>1. attempt'[i] = attempt[i] /\ session[i].status \in Status
      BY <1>2, <1>4, <1>5, <1>6, <1>8 DEF SeenOf
    <2>2. Follows(tab, session[i].log)
      BY <1>1, <1>8, <2>1 DEF TabFits
    <2>3. session'[i] # Gone
      BY <1>8, GoneLog DEF Status
    <2>4. session'[i].log = session[i].log \/ \E e \in Event : session'[i].log = Append(session[i].log, e)
      <3>1. ~LogRestarted(i)
        <4>1. attempt'[i] # attempt[i] + 1
          BY <1>4, <2>1
        <4> QED
          BY <4>1 DEF LogRestarted
      <3>2. ~LogGone(i) /\ ~LogCreated(i)
        BY <1>1, <2>3 DEF LogGone, LogCreated
      <3> QED
        BY <1>3, <3>1, <3>2 DEF LogMoves, LogKept, LogAppended
    <2>5. ASSUME NEW e \in Event, session'[i].log = Append(session[i].log, e)
          PROVE  Follows(tab, session'[i].log)
      <3>1. /\ Len(session'[i].log) = Len(session[i].log) + 1 /\ Len(session[i].log) \in Nat
            /\ \A n \in 1..Len(session[i].log) : session'[i].log[n] = session[i].log[n]
        BY <1>4, <2>5
      <3>2. \A n \in 1..tab.cursor : n \in 1..Len(session[i].log)
        BY <1>4, <2>2, <3>1 DEF Follows
      <3> QED
        BY <1>4, <2>2, <3>1, <3>2 DEF Follows
    <2> QED
      BY <2>2, <2>4, <2>5 DEF Follows
  <1> QED
    BY <1>1, <1>2, <1>7, <1>8

-----------------------------------------------------------------------------
(***************************************************************************)
(* The steps of a tab.                                                     *)
(***************************************************************************)
LEMMA AwayIsTab == Away \in Tab /\ Away.pc = "away" /\ Away.id = None
  BY DEF Away, Tab

LEMMA WatchingLemma ==
    ASSUME NEW i \in Id, NEW n \in Nat
    PROVE  /\ Watching(i, n) \in Tab
           /\ Watching(i, n).pc = "reading" /\ Watching(i, n).id = i
           /\ Watching(i, n).attempt = n /\ Watching(i, n).cursor = 0
           /\ Watching(i, n).seen = << >>
  <1>1. Watching(i, n) \in Tab
    BY AwayIsTab DEF Watching, Tab
  <1> QED
    BY <1>1 DEF Watching, Away

\* A stream that has just been opened has nothing to answer for.
LEMMA WatchingFits ==
    ASSUME IInv, NEW i \in Id, session[i].status # "unused", NEW n \in Nat, n <= attempt[i],
           NEW tab, tab = Watching(i, n)
    PROVE  tab \in Tab /\ TabFits(tab)
  <1>1. /\ tab.pc = "reading" /\ tab.id = i /\ tab.attempt = n /\ tab.cursor = 0
        /\ Len(tab.seen) = 0 /\ DOMAIN tab.seen = {} /\ tab \in Tab
    BY WatchingLemma
  <1>2. session[i].log \in Seq(Event) /\ Len(session[i].log) \in Nat
    BY TimelyFacts
  <1>3. Follows(tab, session[i].log)
    BY <1>1, <1>2 DEF Follows
  <1>4. SeenOf(tab, attempt[i])
    BY <1>1 DEF SeenOf
  <1> QED
    BY <1>1, <1>3, <1>4 DEF TabFits

Watched == {"reading", "cut", "told", "lost", "refused"}

\* Opening, cutting and losing the connection: only the program counter and the number of
\* errors change.
Moved(tab, pc, e) == [tab EXCEPT !.pc = pc, !.errors = e]

Moves(tab) == {Moved(tab, pc, e) : pc \in Watched, e \in Nat}

LEMMA MovedFits ==
    ASSUME NEW tab \in Tab, TabFits(tab), tab.pc \in {"reading", "cut"}, NEW next \in Moves(tab)
    PROVE  next \in Tab /\ TabFits(next)
  <1>0. PICK pc \in Watched, e \in Nat : next = Moved(tab, pc, e)
    BY DEF Moves
  <1>1. /\ next \in Tab /\ next.pc = pc /\ next.id = tab.id /\ next.cursor = tab.cursor
        /\ next.seen = tab.seen /\ next.attempt = tab.attempt
    BY <1>0 DEF Tab, Watched, Moved
  <1> QED
    BY <1>1 DEF TabFits, SeenOf, Follows, Watched

LEMMA ErroredMoves ==
    ASSUME NEW tab, tab.errors \in Nat, NEW pc \in Watched
    PROVE  Errored(tab, pc) \in Moves(tab)
  <1> DEFINE q == IF tab.errors + 1 >= SourceErrorLimit THEN "lost" ELSE pc
             e == tab.errors + 1
  <1>1. q \in Watched /\ e \in Nat
    BY DEF Watched
  <1>2. Errored(tab, pc) = Moved(tab, q, e)
    BY DEF Errored, Moved
  <1> HIDE DEF q, e
  <1> QED
    BY <1>1, <1>2 DEF Moves

LEMMA ConnectingMoves ==
    ASSUME NEW tab \in Tab, NEW next \in Connecting(tab)
    PROVE  next \in Moves(tab)
  <1>1. tab.errors \in Nat /\ {"reading", "cut", "refused"} \subseteq Watched /\ 0 \in Nat
    BY DEF Tab, Watched
  <1>2. CASE next = [tab EXCEPT !.pc = "reading", !.errors = 0]
    <2>1. next = Moved(tab, "reading", 0)
      BY <1>2 DEF Moved
    <2> QED
      BY <1>1, <2>1 DEF Moves
  <1>3. Errored(tab, "cut") \in Moves(tab) /\ Errored(tab, "refused") \in Moves(tab)
    BY <1>1, ErroredMoves
  <1>4. \/ next = [tab EXCEPT !.pc = "reading", !.errors = 0]
        \/ next = Errored(tab, "cut") \/ next = Errored(tab, "refused")
    BY DEF Connecting
  <1> QED
    BY <1>2, <1>3, <1>4

LEMMA RestOfLog ==
    ASSUME NEW log \in Seq(Event), NEW c \in Nat,
           NEW rest, rest = SubSeq(log, c + 1, Len(log)), NEW n \in DOMAIN rest
    PROVE  /\ c <= Len(log) /\ rest \in Seq(Event) /\ Len(rest) = Len(log) - c
           /\ n \in 1..Len(rest) /\ n \in Nat
           /\ \A k \in 1..Len(rest) : rest[k] = log[c + k]
  <1>1. Len(log) \in Nat
    OBVIOUS
  <1>2. c < Len(log)
    <2> SUFFICES ASSUME ~(c < Len(log)) PROVE FALSE
      OBVIOUS
    <2>1. c + 1 > Len(log)
      BY <1>1
    <2>2. Len(rest) = 0
      BY <1>1, <2>1
    <2>3. rest \in Seq(Event)
      BY <1>1, <2>1
    <2>4. n \in 1..Len(rest)
      BY <2>3
    <2> QED
      BY <2>2, <2>4
  <1>3. Len(rest) = Len(log) - c /\ \A k \in 1..(Len(log) - c) : rest[k] = log[c + k]
    BY <1>1, <1>2
  <1>4. rest \in Seq(Event)
    BY <1>1, <1>2
  <1>5. n \in 1..Len(rest)
    BY <1>4
  <1>6. n \in Nat
    BY <1>4, <1>5
  <1> QED
    BY <1>1, <1>2, <1>3, <1>4, <1>5, <1>6

\* rest is what log has after c events; seen is old and the first n events after it.
IsRest(rest, log, c) ==
    rest \in Seq(Event) /\ \A k \in 1..Len(rest) : rest[k] = log[c + k]

IsGiven(seen, old, log, c, n) ==
    /\ Len(seen) = c + n
    /\ \A k \in 1..c : seen[k] = old[k]
    /\ \A k \in 1..n : seen[c + k] = log[c + k]

\* None of the n events of log after the first c is terminal, but perhaps the last.
IsUntilTheEnd(log, c, n, pc) ==
    /\ \A k \in 1..(n - 1) : log[c + k].kind \notin TerminalKind
    /\ log[c + n].kind \in TerminalKind => pc = "told"

\* What the reader has been given before, followed by the first n events of the rest.
LEMMA GivenEvents ==
    ASSUME NEW log \in Seq(Event), NEW c \in Nat, NEW n \in Nat, NEW old \in Seq(Event),
           Len(old) = c, NEW rest, IsRest(rest, log, c), n <= Len(rest),
           NEW seen, seen = old \o SubSeq(rest, 1, n)
    PROVE  seen \in Seq(Event) /\ IsGiven(seen, old, log, c, n)
  <1>0. rest \in Seq(Event) /\ \A k \in 1..Len(rest) : rest[k] = log[c + k]
    BY DEF IsRest
  <1> DEFINE more == SubSeq(rest, 1, n)
  <1>1. more \in Seq(Event) /\ Len(more) = n /\ \A k \in 1..n : more[k] = rest[k]
    BY <1>0
  <1>2. seen = old \o more
    OBVIOUS
  <1> HIDE DEF more
  <1>3. seen \in Seq(Event) /\ Len(seen) = c + n
    BY <1>1, <1>2, ConcatProperties
  <1>a. \A k \in 1..(Len(old) + Len(more)) :
           seen[k] = IF k <= Len(old) THEN old[k] ELSE more[k - Len(old)]
    BY <1>1, <1>2, ConcatProperties
  <1>4. ASSUME NEW k \in 1..c PROVE seen[k] = old[k]
    <2>1. k \in 1..(Len(old) + Len(more)) /\ k <= Len(old)
      BY <1>1
    <2> QED
      BY <1>a, <2>1
  <1>5. ASSUME NEW k \in 1..n PROVE seen[c + k] = more[k]
    <2>1. /\ c + k \in 1..(Len(old) + Len(more)) /\ ~(c + k <= Len(old))
          /\ (c + k) - Len(old) = k
      BY <1>1
    <2>2. seen[c + k] = more[(c + k) - Len(old)]
      BY <1>a, <2>1
    <2> QED
      BY <2>1, <2>2
  <1>6. \A k \in 1..n : k \in 1..Len(rest)
    OBVIOUS
  <1> QED
    BY <1>0, <1>1, <1>3, <1>4, <1>5, <1>6 DEF IsGiven

LEMMA ThreePlaces ==
    ASSUME NEW c \in Nat, NEW n \in Nat, NEW k \in 1..(c + n)
    PROVE  k \in 1..c \/ (k - c \in 1..(n - 1)) \/ k = c + n
  OBVIOUS

\* A reader is given events of the log up to the first terminal one.
LEMMA GivenFits ==
    ASSUME IInv, AttemptInv, NEW tab \in Tab, TabFits(tab), tab.pc = "reading",
           NEW log, log = session[tab.id].log, NEW c \in Nat, c = tab.cursor,
           NEW n \in Nat, 1 <= n, c + n <= Len(log),
           NEW next \in Tab, next.pc \in Watched,
           next.id = tab.id, next.cursor = c + n, next.attempt = tab.attempt,
           IsUntilTheEnd(log, c, n, next.pc),
           IsGiven(next.seen, tab.seen, log, c, n)
    PROVE  TabFits(next)
  <1>0. PICK i \in Id : i = tab.id /\ session[i].status # "unused"
    BY DEF TabFits
  <1>1. /\ Len(next.seen) = c + n
        /\ \A k \in 1..c : next.seen[k] = tab.seen[k]
        /\ \A k \in 1..n : next.seen[c + k] = log[c + k]
    BY DEF IsGiven
  <1>2. /\ log \in Seq(Event) /\ Len(log) \in Nat /\ attempt[i] \in Nat
        /\ next.seen \in Seq(Event) /\ tab.seen \in Seq(Event)
    BY <1>0, TimelyFacts DEF Tab
  <1>3. SeenOf(tab, attempt[i]) /\ c = Len(tab.seen)
    BY <1>0, <1>1 DEF TabFits, SeenOf
  <1>4. \A k \in 1..Len(log) :
           /\ log[k].attempt <= attempt[i]
           /\ log[k].kind # "run_failed" => log[k].attempt = attempt[i]
    BY <1>0, <1>2 DEF AttemptInv, AttemptAt
  <1>5. DOMAIN next.seen = 1..(c + n) /\ DOMAIN tab.seen = 1..c /\ c + n <= Len(log)
    BY <1>1, <1>2, <1>3
  <1>6. ASSUME NEW k \in 1..(c + n)
        PROVE  k \in 1..c \/ (k - c \in 1..(n - 1)) \/ k = c + n
    BY <1>6, ThreePlaces
  <1>7. ASSUME NEW k \in 1..n
        PROVE  next.seen[c + k] = log[c + k] /\ c + k \in 1..Len(log)
    <2>1. c + k \in 1..Len(log)
      <3>1. k \in Nat /\ 1 <= k /\ k <= n /\ Len(log) \in Nat
        BY <1>2, <1>7
      <3>2. c + k \in Nat /\ 1 <= c + k /\ c + k <= c + n
        BY <3>1
      <3>3. c + k <= Len(log)
        BY <1>2, <3>2
      <3> QED
        BY <3>1, <3>2, <3>3
    <2> QED
      BY <1>1, <1>7, <2>1
  <1>8. SeenOf(next, attempt[i])
    <2>1. ASSUME NEW k \in DOMAIN next.seen PROVE next.seen[k].attempt <= attempt[i]
      <3>1. k \in 1..(c + n)
        BY <1>5, <2>1
      <3>2. CASE k \in 1..c
        BY <1>1, <1>3, <1>5, <3>2 DEF SeenOf
      <3>3. CASE k \notin 1..c
        <4>1. k - c \in 1..n /\ c + (k - c) = k
          BY <3>1, <3>3
        <4> QED
          BY <1>4, <1>7, <4>1
      <3> QED
        BY <3>2, <3>3
    <2> QED
      BY <1>1, <1>3, <2>1 DEF SeenOf, Watched
  <1>9. ASSUME tab.attempt = attempt[i], session[i].status \in Status
        PROVE  Follows(next, log)
    <2>1. Follows(tab, log)
      BY <1>0, <1>9 DEF TabFits
    <2>2. ASSUME NEW k \in 1..(c + n)
          PROVE  /\ next.seen[k] = log[k]
                 /\ next.seen[k].attempt = tab.attempt \/ (k = c + n /\ next.pc = "told")
      <3>1. CASE k \in 1..c
        BY <1>1, <2>1, <3>1 DEF Follows
      <3>2. CASE k - c \in 1..(n - 1)
        <4>1. k - c \in 1..n /\ c + (k - c) = k
          BY <2>2, <3>2
        <4>2. next.seen[k] = log[k] /\ k \in 1..Len(log)
          BY <1>7, <4>1
        <4>3. log[k].kind \notin TerminalKind
          BY <3>2, <4>1 DEF IsUntilTheEnd
        <4> QED
          BY <1>4, <1>9, <4>2, <4>3 DEF TerminalKind
      <3>3. CASE k = c + n
        <4>1. n \in 1..n
          OBVIOUS
        <4>2. next.seen[k] = log[k] /\ k \in 1..Len(log)
          BY <1>7, <3>3, <4>1
        <4> QED
          BY <1>4, <1>9, <3>3, <4>2 DEF TerminalKind, IsUntilTheEnd
      <3> QED
        BY <1>6, <3>1, <3>2, <3>3
    <2> QED
      BY <1>1, <1>5, <2>2 DEF Follows
  <1> QED
    BY <1>0, <1>8, <1>9 DEF TabFits, Watched

LEMMA ReadFits ==
    ASSUME IInv, AttemptInv, TabInv, NEW v \in Viewer, Read(v)
    PROVE  \E next \in Tab : TabFits(next) /\ viewer' = [viewer EXCEPT ![v] = next]
  <1>1. PICK tab \in Tab : tab = viewer[v] /\ TabFits(tab) /\ tab.pc = "reading"
    BY DEF TabInv, Read
  <1>2. PICK c \in Nat, old \in Seq(Event) : c = tab.cursor /\ old = tab.seen /\ Len(old) = c
    BY <1>1 DEF TabFits, SeenOf, Tab
  <1>3. PICK log \in Seq(Event) : log = session[tab.id].log
    BY <1>1, TimelyFacts DEF TabFits
  <1>4. PICK batch : batch = SubSeq(log, c + 1, Len(log))
    OBVIOUS
  <1> DEFINE unread == After(session[viewer[v].id], viewer[v].cursor)
  <1>a. unread = batch
    BY <1>1, <1>2, <1>3, <1>4 DEF After
  <1>b. PICK n \in DOMAIN unread, pc \in Watched, e \in Nat :
           /\ \A k \in 1..(n - 1) : unread[k].kind \notin TerminalKind
           /\ unread[n].kind \in TerminalKind => pc = "told"
           /\ viewer' = [viewer EXCEPT ![v] = Moved(Given(viewer[v], unread, n), pc, e)]
    <2>1. PICK n \in DOMAIN unread :
             /\ \A k \in 1..(n - 1) : unread[k].kind \notin TerminalKind
             /\ viewer' = [viewer EXCEPT ![v] =
                   IF unread[n].kind \in TerminalKind
                   THEN [Given(viewer[v], unread, n) EXCEPT !.pc = "told"]
                   ELSE IF n < Len(unread) THEN Errored(Given(viewer[v], unread, n), "cut")
                   ELSE Given(viewer[v], unread, n)]
      BY DEF Read
    <2> HIDE DEF unread
    <2>2. PICK given : given = Given(viewer[v], unread, n)
      OBVIOUS
    <2>3. /\ given.errors \in Nat /\ {"told", "reading", "cut"} \subseteq Watched
          /\ [given EXCEPT !.pc = "told"] = Moved(given, "told", given.errors)
          /\ given = Moved(given, "reading", given.errors)
      BY <1>1, <2>2 DEF Tab, Watched, Given, Moved
    <2>4. Errored(given, "cut") \in Moves(given)
      BY <2>3, ErroredMoves
    <2>5. PICK q \in Watched, m \in Nat : Errored(given, "cut") = Moved(given, q, m)
      BY <2>4 DEF Moves
    <2>6. CASE unread[n].kind \in TerminalKind
      <3>1. PICK e \in Nat : e = given.errors
        BY <2>3
      <3>2. viewer' = [viewer EXCEPT ![v] = Moved(Given(viewer[v], unread, n), "told", e)]
        BY <2>1, <2>2, <2>3, <2>6, <3>1
      <3>3. PICK pc \in Watched : pc = "told"
        BY <2>3
      <3>4. /\ n \in DOMAIN unread /\ pc \in Watched /\ e \in Nat
            /\ \A k \in 1..(n - 1) : unread[k].kind \notin TerminalKind
            /\ unread[n].kind \in TerminalKind => pc = "told"
            /\ viewer' = [viewer EXCEPT ![v] = Moved(Given(viewer[v], unread, n), pc, e)]
        BY <2>1, <2>6, <3>1, <3>2, <3>3
      <3> QED
        BY <3>4
    <2>7. CASE unread[n].kind \notin TerminalKind /\ n < Len(unread)
      <3>1. viewer' = [viewer EXCEPT ![v] = Moved(Given(viewer[v], unread, n), q, m)]
        BY <2>1, <2>2, <2>5, <2>7
      <3> QED
        BY <2>1, <2>7, <3>1
    <2>8. CASE unread[n].kind \notin TerminalKind /\ ~(n < Len(unread))
      <3>1. PICK e \in Nat : e = given.errors
        BY <2>3
      <3>2. viewer' = [viewer EXCEPT ![v] = Moved(Given(viewer[v], unread, n), "reading", e)]
        BY <2>1, <2>2, <2>3, <2>8, <3>1
      <3>3. PICK pc \in Watched : pc = "reading"
        BY <2>3
      <3>4. /\ n \in DOMAIN unread /\ pc \in Watched /\ e \in Nat
            /\ \A k \in 1..(n - 1) : unread[k].kind \notin TerminalKind
            /\ unread[n].kind \in TerminalKind => pc = "told"
            /\ viewer' = [viewer EXCEPT ![v] = Moved(Given(viewer[v], unread, n), pc, e)]
        BY <2>1, <2>8, <3>1, <3>2, <3>3
      <3> QED
        BY <3>4
    <2> QED
      BY <2>6, <2>7, <2>8
  <1> HIDE DEF unread
  <1>5. /\ n \in DOMAIN batch
        /\ \A k \in 1..(n - 1) : batch[k].kind \notin TerminalKind
        /\ batch[n].kind \in TerminalKind => pc = "told"
        /\ viewer' = [viewer EXCEPT ![v] = Moved(Given(tab, batch, n), pc, e)]
    BY <1>1, <1>a, <1>b
  <1>6. PICK seen : seen = old \o SubSeq(batch, 1, n)
    OBVIOUS
  <1>7. PICK next : /\ next = Moved(Given(tab, batch, n), pc, e)
                    /\ viewer' = [viewer EXCEPT ![v] = next]
    BY <1>5
  <1>8. /\ c <= Len(log) /\ batch \in Seq(Event) /\ Len(batch) = Len(log) - c
        /\ n \in 1..Len(batch) /\ n \in Nat
        /\ \A k \in 1..Len(batch) : batch[k] = log[c + k]
    BY <1>4, <1>5, RestOfLog
  <1>9. n <= Len(batch) /\ 1 <= n /\ c + n <= Len(log) /\ c + n \in Nat
    <2>1. Len(log) \in Nat
      OBVIOUS
    <2> QED
      BY <1>8, <2>1
  <1>10. seen \in Seq(Event) /\ IsGiven(seen, old, log, c, n)
    <2>1. IsRest(batch, log, c)
      BY <1>8 DEF IsRest
    <2> QED
      BY <1>2, <1>6, <1>8, <1>9, <2>1, GivenEvents
  <1>11. IsUntilTheEnd(log, c, n, pc)
    <2>1. \A k \in 1..(n - 1) : k \in 1..Len(batch)
      BY <1>8
    <2> QED
      BY <1>5, <1>8, <2>1 DEF IsUntilTheEnd
  <1>12. /\ next \in Tab /\ next.pc = pc /\ next.id = tab.id /\ next.cursor = c + n
         /\ next.attempt = tab.attempt /\ next.seen = seen
    <2>1. /\ Given(tab, batch, n) \in Tab /\ Given(tab, batch, n).cursor = c + n
          /\ Given(tab, batch, n).id = tab.id /\ Given(tab, batch, n).seen = seen
          /\ Given(tab, batch, n).attempt = tab.attempt
      BY <1>2, <1>6, <1>9, <1>10 DEF Tab, Given
    <2>2. PICK given \in Tab : /\ given = Given(tab, batch, n) /\ given.cursor = c + n
                               /\ given.id = tab.id /\ given.seen = seen
                               /\ given.attempt = tab.attempt
      BY <2>1
    <2>3. next = Moved(given, pc, e)
      BY <1>7, <2>2
    <2> QED
      BY <2>2, <2>3 DEF Tab, Watched, Moved
  <1>13. TabFits(next)
    <2>1. IsGiven(next.seen, tab.seen, log, c, n) /\ IsUntilTheEnd(log, c, n, next.pc)
      BY <1>2, <1>10, <1>11, <1>12
    <2>2. next.pc \in Watched
      BY <1>12
    <2> QED
      BY <1>1, <1>2, <1>3, <1>8, <1>9, <1>12, <2>1, <2>2, GivenFits
  <1> QED
    BY <1>7, <1>12, <1>13

\* Every tab but v does nothing in this step, and v fits afterwards.
LEMMA OneTabMoves ==
    ASSUME IInv, IInv', FamilyInv, AttemptInv, [Next]_vars, TabInv, NEW v \in Viewer,
           NEW next \in Tab, viewer' = [viewer EXCEPT ![v] = next], TabFits(next)'
    PROVE  TabInv'
  <1>1. viewer \in [Viewer -> Tab] /\ viewer' \in [Viewer -> Tab] /\ viewer'[v] = next
    BY DEF TabInv
  <1>2. ASSUME NEW w \in Viewer PROVE TabFits(viewer[w])'
    <2>1. CASE w = v
      BY <1>1, <2>1
    <2>2. CASE w # v
      <3>1. viewer'[w] = viewer[w] /\ viewer[w] \in Tab /\ TabFits(viewer[w])
        BY <1>1, <2>2 DEF TabInv
      <3> QED
        BY <3>1, TabIsKept DEF TabFits
    <2> QED
      BY <2>1, <2>2
  <1> QED
    BY <1>1, <1>2 DEF TabInv

LEMMA ViewerKeepsTabs ==
    ASSUME IInv, IInv', FamilyInv, AttemptInv, TabInv, NEW v \in Viewer, ViewerStep(v)
    PROVE  TabInv'
  <1>1. viewer \in [Viewer -> Tab] /\ viewer[v] \in Tab /\ TabFits(viewer[v])
    BY DEF TabInv
  <1>2. /\ \A i \in Id : attempt[i] \in Nat
        /\ viewer[v].attempt \in Nat
        /\ "unused" \notin Status
    BY <1>1, TimelyFacts DEF Tab, Status
  <1>3. ASSUME UNCHANGED vars,
               \E next \in Tab : TabFits(next) /\ viewer' = [viewer EXCEPT ![v] = next]
        PROVE  TabInv'
    <2>1. PICK next \in Tab : TabFits(next) /\ viewer' = [viewer EXCEPT ![v] = next]
      BY <1>3
    <2>2. TabFits(next)'
      BY <1>3, <2>1 DEF vars, TabFits
    <2>3. [Next]_vars
      BY <1>3
    <2> QED
      BY <2>1, <2>2, <2>3, OneTabMoves
  <1>4. ASSUME NEW next, UNCHANGED vars, viewer[v].pc \in {"reading", "cut"},
               next \in Moves(viewer[v]), viewer' = [viewer EXCEPT ![v] = next]
        PROVE  TabInv'
    <2>1. next \in Tab /\ TabFits(next)
      BY <1>1, <1>4, MovedFits
    <2> QED
      BY <1>3, <1>4, <2>1
  <1>5. ASSUME NEW i \in Id, NEW n \in Nat, UNCHANGED vars, n <= attempt[i],
               session[i].status # "unused", NEW next \in Connecting(Watching(i, n)),
               viewer' = [viewer EXCEPT ![v] = next]
        PROVE  TabInv'
    <2>1. PICK tab : tab = Watching(i, n)
      OBVIOUS
    <2>2. tab \in Tab /\ TabFits(tab) /\ tab.pc = "reading"
      BY <1>5, <2>1, WatchingFits, WatchingLemma
    <2>3. next \in Moves(tab)
      BY <1>5, <2>1, <2>2, ConnectingMoves
    <2>4. next \in Tab /\ TabFits(next)
      BY <2>2, <2>3, MovedFits
    <2> QED
      BY <1>3, <1>5, <2>4
  <1>6. CASE Read(v)
    <2>1. UNCHANGED vars
      BY <1>6 DEF Read
    <2> QED
      BY <1>3, <1>6, <2>1, ReadFits
  <1>7. CASE StreamEnds(v)
    <2>1. "cut" \in Watched /\ viewer[v].errors \in Nat
      BY <1>1 DEF Watched, Tab
    <2>2. PICK next : next = Errored(viewer[v], "cut") /\ viewer' = [viewer EXCEPT ![v] = next]
      BY <1>1, <1>7 DEF StreamEnds
    <2> QED
      BY <1>4, <1>7, <2>1, <2>2, ErroredMoves DEF StreamEnds
  <1>8. CASE Reconnect(v)
    <2>1. PICK next \in Connecting(viewer[v]) : viewer' = [viewer EXCEPT ![v] = next]
      BY <1>8 DEF Reconnect
    <2>2. next \in Moves(viewer[v])
      BY <1>1, <2>1, ConnectingMoves
    <2> QED
      BY <1>4, <1>8, <2>1, <2>2 DEF Reconnect
  <1>9. CASE ToldExpired(v)
    <2>1. "told" \in Watched /\ viewer[v].errors \in Nat
      BY <1>1 DEF Watched, Tab
    <2>2. PICK next : /\ next = Moved(viewer[v], "told", viewer[v].errors)
                      /\ viewer' = [viewer EXCEPT ![v] = next]
      <3>1. [viewer[v] EXCEPT !.pc = "told"] = Moved(viewer[v], "told", viewer[v].errors)
        BY <1>1 DEF Tab, Moved
      <3> QED
        BY <1>1, <1>9, <3>1 DEF ToldExpired
    <2>3. next \in Moves(viewer[v])
      BY <2>1, <2>2 DEF Moves
    <2> QED
      BY <1>4, <1>9, <2>2, <2>3 DEF ToldExpired
  <1>10. CASE WatchRetry(v)
    <2>1. PICK i \in Id, n \in Nat : i = viewer[v].id /\ n = viewer[v].attempt
      BY <1>1, <1>2, <1>10 DEF WatchRetry, TabFits
    <2>2. n <= attempt[i] /\ session[i].status # "unused"
      BY <1>1, <1>10, <2>1 DEF WatchRetry, TabFits, SeenOf
    <2>3. PICK next \in Connecting(Watching(i, n)) :
             UNCHANGED vars /\ viewer' = [viewer EXCEPT ![v] = next]
      BY <1>10, <2>1 DEF WatchRetry
    <2> QED
      BY <1>5, <2>2, <2>3
  <1>11. ASSUME NEW i \in Id, Open(v, i) PROVE TabInv'
    <2>1. session[i].status # "unused" /\ attempt[i] \in Nat /\ attempt[i] <= attempt[i]
      BY <1>2, <1>11 DEF Open, Live
    <2>2. PICK n \in Nat : n = attempt[i]
      BY <2>1
    <2>3. PICK next \in Connecting(Watching(i, n)) :
             UNCHANGED vars /\ viewer' = [viewer EXCEPT ![v] = next]
      BY <1>11, <2>2 DEF Open
    <2> QED
      BY <1>5, <2>1, <2>2, <2>3
  <1>12. CASE AskRetry(v)
    <2>1. PICK tab \in Tab : tab = viewer[v] /\ TabFits(tab) /\ tab.pc = "told"
      BY <1>1, <1>12 DEF AskRetry, Told
    <2>2. PICK i \in Id : i = tab.id /\ SeenOf(tab, attempt[i]) /\ session[i].status # "unused"
      BY <2>1 DEF TabFits
    <2>3. RetryResearch(i) /\ attempt' = [attempt EXCEPT ![i] = @ + 1] /\ [Next]_vars
      BY <1>12, <2>1, <2>2 DEF AskRetry, RetryResearch, Next
    <2>4. PICK n \in Nat : n = attempt[i] + 1 /\ n = attempt'[i]
      BY <1>2, <2>3, TimelyFacts
    <2>5. PICK next : /\ next = [tab EXCEPT !.pc = "retrying", !.attempt = n]
                      /\ viewer' = [viewer EXCEPT ![v] = next]
      BY <1>1, <1>12, <2>1, <2>2, <2>4 DEF AskRetry
    <2>6. /\ next \in Tab /\ next.pc = "retrying" /\ next.id = i /\ next.attempt = n
          /\ next.seen = tab.seen
      BY <2>2, <2>5 DEF Tab
    <2>7. SeenOf(next, attempt'[i])
      <3>1. ASSUME NEW k \in DOMAIN tab.seen PROVE tab.seen[k].attempt < n /\ tab.seen[k].attempt <= n
        <4>1. tab.seen \in Seq(Event) /\ \A e \in Event : e.attempt \in Nat
          BY DEF Tab, Event
        <4>2. tab.seen[k].attempt \in Nat /\ tab.seen[k].attempt <= attempt[i] /\ attempt[i] \in Nat
          BY <1>2, <2>2, <3>1, <4>1 DEF SeenOf
        <4> QED
          BY <2>4, <4>2
      <3> QED
        BY <2>4, <2>6, <3>1 DEF SeenOf
    <2>8. session'[i].status # "unused"
      BY <2>2, <2>3, SessionsGoOn
    <2>9. TabFits(next)'
      BY <2>6, <2>7, <2>8 DEF TabFits
    <2> QED
      BY <2>3, <2>5, <2>6, <2>9, OneTabMoves
  <1> QED
    BY <1>6, <1>7, <1>8, <1>9, <1>10, <1>11, <1>12 DEF ViewerStep

StreamInv == IInv /\ FamilyInv /\ AttemptInv /\ TabInv

LEMMA StreamNextIsNext == TabInv /\ [StreamNext]_streamVars => [Next]_vars
  <1> SUFFICES ASSUME TabInv, [StreamNext]_streamVars PROVE [Next]_vars
    OBVIOUS
  <1>1. ASSUME NEW v \in Viewer, AskRetry(v) PROVE Next
    <2>1. viewer[v].id \in Id /\ RetryResearch(viewer[v].id)
      BY <1>1 DEF AskRetry, Told, TabInv, TabFits
    <2> QED
      BY <2>1 DEF Next
  <1>2. ASSUME NEW v \in Viewer, ViewerStep(v) PROVE [Next]_vars
    <2>1. CASE Read(v)
      BY <2>1 DEF Read
    <2>3. CASE StreamEnds(v) \/ Reconnect(v) \/ ToldExpired(v) \/ WatchRetry(v)
      BY <2>3 DEF StreamEnds, Reconnect, ToldExpired, WatchRetry
    <2>2. CASE \E i \in Id : Open(v, i)
      BY <2>2 DEF Open
    <2> QED
      BY <1>1, <1>2, <2>1, <2>2, <2>3 DEF ViewerStep
  <1> QED
    BY <1>2 DEF StreamNext, streamVars

LEMMA StreamKeepsInv == StreamInv /\ [StreamNext]_streamVars => StreamInv'
  <1> SUFFICES ASSUME StreamInv, [StreamNext]_streamVars PROVE StreamInv'
    OBVIOUS
  <1>1. [Next]_vars
    BY StreamNextIsNext DEF StreamInv
  <1>2. IInv' /\ FamilyInv' /\ AttemptInv'
    BY <1>1, NextPreservesIInv, NextKeepsFamilies, NextKeepsAttempts DEF StreamInv
  <1>3. CASE \E v \in Viewer : ViewerStep(v)
    BY <1>2, <1>3, ViewerKeepsTabs DEF StreamInv
  <1>4. CASE viewer' = viewer
    BY <1>1, <1>2, <1>4, TabIsKept DEF StreamInv, TabInv, TabFits
  <1> QED
    BY <1>2, <1>3, <1>4 DEF StreamNext, streamVars, StreamInv

LEMMA StreamInvHolds == StreamSpec => []StreamInv
  <1>1. StreamInit => StreamInv
    <2> SUFFICES ASSUME StreamInit PROVE StreamInv
      OBVIOUS
    <2>1. Init
      BY DEF StreamInit
    <2>2. TabInv
      BY AwayIsTab DEF StreamInit, TabInv, TabFits
    <2> QED
      BY <2>1, <2>2, InitEstablishesIInv, InitHasFamilies, InitIsTimely DEF StreamInv
  <1> QED
    BY <1>1, StreamKeepsInv, PTL DEF StreamSpec

LEMMA FirstOnes ==
    ASSUME NEW c \in Nat, NEW n \in Nat, n <= c,
           NEW S, \A k \in 1..n : k \in S, S \subseteq 1..c
    PROVE  Cardinality({k \in S : k <= n}) = n
  <1>1. {k \in S : k <= n} = 1..n
    <2>1. ASSUME NEW k \in S, k <= n PROVE k \in 1..n
      <3>1. k \in 1..c
        BY <2>1
      <3> QED
        BY <2>1, <3>1
    <2>2. ASSUME NEW k \in 1..n PROVE k \in S /\ k <= n
      OBVIOUS
    <2> QED
      BY <2>1, <2>2
  <1>2. Cardinality(1..n) = n
    BY FS_Interval
  <1> QED
    BY <1>1, <1>2

\* Whatever the connections, the clients and the runs do, and whatever fails, a tab that
\* watches the present attempt of a review has been given the first events of that attempt,
\* each once and in order (watchEvents of app.js, review_events of routes.py).
THEOREM NothingIsLostInTheStream == StreamSpec => []StreamLosesNothing
  <1>1. StreamInv => StreamLosesNothing
    <2> SUFFICES ASSUME StreamInv, NEW v \in Viewer, viewer[v].id \in Live(session), Current(v)
                 PROVE  LET log      == session[viewer[v].id].log
                            seen     == viewer[v].seen
                            ours     == {n \in DOMAIN seen : seen[n].attempt = viewer[v].attempt}
                            place(n) == Cardinality({k \in ours : k <= n})
                        IN  \A n \in ours : place(n) \in DOMAIN log /\ log[place(n)] = seen[n]
      BY DEF StreamLosesNothing
    <2>1. PICK tab \in Tab : tab = viewer[v] /\ TabFits(tab)
      BY DEF StreamInv, TabInv
    <2>2. PICK i \in Id : i = tab.id /\ session[i].status \in Status /\ tab.attempt = attempt[i]
      BY <2>1 DEF Live, Current
    <2>3. PICK log \in Seq(Event) : log = session[i].log
      BY TimelyFacts DEF StreamInv
    <2>4. PICK c \in Nat, seen \in Seq(Event) : c = tab.cursor /\ seen = tab.seen
      BY DEF Tab
    <2> DEFINE ours == {n \in DOMAIN seen : seen[n].attempt = tab.attempt}
    <2>5. tab.pc # "away"
      BY <2>1, <2>2, NoneAssumption DEF TabFits
    <2>6. SeenOf(tab, attempt[i])
      BY <2>1, <2>2, <2>5 DEF TabFits
    <2>7. ASSUME NEW n \in ours
          PROVE  /\ Cardinality({k \in ours : k <= n}) \in DOMAIN log
                 /\ log[Cardinality({k \in ours : k <= n})] = seen[n]
      <3>1. tab.pc # "retrying"
        <4> SUFFICES ASSUME tab.pc = "retrying" PROVE FALSE
          OBVIOUS
        <4>1. n \in DOMAIN seen /\ seen[n].attempt = tab.attempt /\ tab.attempt \in Nat
          BY DEF Tab
        <4>2. seen[n].attempt < tab.attempt
          BY <2>4, <2>6, <4>1 DEF SeenOf
        <4> QED
          BY <4>1, <4>2
      <3>2. Follows(tab, log)
        BY <2>1, <2>2, <2>3, <2>5, <3>1 DEF TabFits
      <3>3. c = Len(seen) /\ DOMAIN seen = 1..c
        BY <2>4, <2>6, <3>1 DEF SeenOf
      <3>4. /\ c <= Len(log) /\ Len(log) \in Nat
            /\ \A k \in 1..c : seen[k] = log[k] /\ (k < c => k \in ours)
        BY <2>4, <3>2, <3>3 DEF Follows
      <3>5. n \in 1..c /\ ours \subseteq 1..c /\ n \in Nat /\ n <= c
        BY <3>3
      <3>6. \A k \in 1..n : k \in ours
        <4> SUFFICES ASSUME NEW k \in 1..n PROVE k \in ours
          OBVIOUS
        <4>1. k = n \/ (k < c /\ k \in 1..c)
          BY <3>5
        <4> QED
          BY <3>4, <4>1
      <3> HIDE DEF ours
      <3>7. Cardinality({k \in ours : k <= n}) = n
        BY <3>5, <3>6, FirstOnes
      <3>8. n \in DOMAIN log /\ log[n] = seen[n]
        BY <3>4, <3>5
      <3> QED
        BY <3>7, <3>8
    <2> QED
      BY <2>1, <2>2, <2>3, <2>4, <2>7
  <1> QED
    BY <1>1, StreamInvHolds, PTL
=============================================================================
