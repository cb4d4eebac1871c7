---------------------------- MODULE SessionStore ----------------------------
(***************************************************************************)
(* What the rest of the reviewer relies on from the store of assessment    *)
(* sessions, whichever class implements it: VolatileSessionStore           *)
(* (session_store.py) or SQLiteSessionStore (persistent_store.py).  Every  *)
(* public operation is one step on a map from session ids to sessions; an  *)
(* operation on a session that is not live raises SessionExpired, which    *)
(* here is a guard that is false.                                          *)
(*                                                                         *)
(* A session keeps the fields the control flow reads: its status, whether  *)
(* "result" (written and removed together with "evidence_by_id") is        *)
(* present, the failure code, the parent of a correction and the event     *)
(* log.  Uploaded bytes and the review text are left out.  The field       *)
(* "attempt" of an event is a history value: the number of research        *)
(* retries that preceded the run which emitted it.                         *)
(***************************************************************************)
EXTENDS Naturals, Sequences, FiniteSets

CONSTANTS
    Id,      \* the session ids uuid4 may hand out, each at most once
    None     \* the parent of a review that is not a correction

ASSUME NoneAssumption == None \notin Id

VARIABLE session

Status == {"created", "queued", "running", "complete", "failed"}

\* The codes of RETRYABLE_RESEARCH_CODES, all other codes, and no failure_code.
Code == {"none", "retryable", "fatal"}

Kind == {"run_started", "progress", "run_complete", "run_failed"}

Event == [kind : Kind, attempt : Nat]

Session == [status : Status \union {"unused", "gone"},
            result : BOOLEAN,
            code   : Code,
            parent : Id \union {None},
            log    : Seq(Event)]

Blank(s) == [status |-> s, result |-> FALSE, code |-> "none",
             parent |-> None, log |-> << >>]

Unused == Blank("unused")
Gone   == Blank("gone")

Live(m) == {i \in Id : m[i].status \in Status}

TerminalKind == {"run_complete", "run_failed"}

Logged(s, kinds) == \E n \in DOMAIN s.log : s.log[n].kind \in kinds

-----------------------------------------------------------------------------
(***************************************************************************)
(* The operations, as functions from the map before to the map after.      *)
(***************************************************************************)
\* _purge_expired, and the effect of a DELETE: the sessions in S disappear.
Purge(m, S) == [i \in Id |-> IF i \in S THEN Gone ELSE m[i]]

Create(m, i, parent, code) ==
    [m EXCEPT ![i] = [Blank("created") EXCEPT !.code = code, !.parent = parent]]

\* The three shapes of update() that touch the modelled fields.
SetStatus(m, i, s) == [m EXCEPT ![i].status = s]

Complete(m, i) == [m EXCEPT ![i].status = "complete", ![i].result = TRUE]

\* A variant that mixes up the status and the code.
FailSwapped(m, i, code) == [m EXCEPT ![i].status = code, ![i].code = "failed"]

Fail(m, i, code) == [m EXCEPT ![i].status = "failed", ![i].code = code]

\* remove_keys("result", "evidence_by_id", ...)
RemoveResult(m, i) == [m EXCEPT ![i].result = FALSE]

Emit(m, i, kind, n) ==
    [m EXCEPT ![i].log = Append(@, [kind |-> kind, attempt |-> n])]

\* The condition under which reset_failed_research returns True.
ResearchFailed(m, i) == m[i].status = "failed" /\ m[i].code = "retryable"

\* A variant that appends to the log of the failed run.
ResetKeepsLog(m, i, n) ==
    [m EXCEPT ![i].status = "created",
              ![i].result = FALSE,
              ![i].code = "none",
              ![i].log = Append(@, [kind |-> "run_started", attempt |-> n])]

ResetResearch(m, i, n) ==
    [m EXCEPT ![i].status = "created",
              ![i].result = FALSE,
              ![i].code = "none",
              ![i].log = << [kind |-> "run_started", attempt |-> n] >>]

\* A variant that runs again whatever a worker has ever claimed.
RequeueAll(m) ==
    [i \in Id |-> IF m[i].status \in {"running", "complete"}
                  THEN [m[i] EXCEPT !.status = "queued"] ELSE m[i]]

\* requeue_stale(0): every review that was running is queued again.
Requeue(m) ==
    [i \in Id |-> IF m[i].status = "running" THEN [m[i] EXCEPT !.status = "queued"]
                                             ELSE m[i]]

-----------------------------------------------------------------------------
(***************************************************************************)
(* delete(): the correction lineage, grown until nothing is added.         *)
(***************************************************************************)
\* A variant that follows the links to the parents but not to the children.
GrowUpwardsOnly(m, L) ==
    L \union {p \in Live(m) : \E j \in L \intersect Live(m) : m[j].parent = p}

\* One round of the loop: the live children of L and the live parents of L.
Grow(m, L) ==
    L \union {j \in Live(m) : m[j].parent \in L}
      \union {p \in Live(m) : \E j \in L \intersect Live(m) : m[j].parent = p}

\* Each round adds a session or is the last, so |Id| rounds reach the fixpoint.
Lineage(m, i) ==
    LET round[n \in Nat] == IF n = 0 THEN {i} ELSE Grow(m, round[n - 1])
    IN  round[Cardinality(Id)]

Delete(m, i) == Purge(m, Lineage(m, i) \intersect Live(m))

-----------------------------------------------------------------------------
(***************************************************************************)
(* The store as a specification of its own, for its implementations to     *)
(* refine: before any operation the store may find sessions expired, and   *)
(* what has expired is gone for good.                                      *)
(***************************************************************************)
StoreInit == session = [i \in Id |-> Unused]

StoreOperation(m, i, next) ==
    \/ /\ m[i].status = "unused"
       /\ \E p \in Id \union {None}, c \in Code : next = Create(m, i, p, c)
    \/ /\ i \in Live(m)
       /\ \/ \E s \in {"queued", "running"} : next = SetStatus(m, i, s)
          \/ next = Complete(m, i)
          \/ \E c \in Code : next = Fail(m, i, c)
          \/ next = RemoveResult(m, i)
          \/ \E k \in Kind : next = Emit(m, i, k, 0)
          \/ ResearchFailed(m, i) /\ next = ResetResearch(m, i, 0)
    \/ next = Delete(m, i)

\* One step, as a relation between the map before it and the map after it.
StoreStep(now, next) ==
    \/ next = Requeue(now)
    \/ \E S \in SUBSET {i \in Live(now) : next[i] = Gone} :
          \E m \in {Purge(now, S)} : next = m \/ \E i \in Id : StoreOperation(m, i, next)

StoreNext == \E now \in {session}, next \in {session'} : StoreStep(now, next)

StoreSpec == StoreInit /\ [][StoreNext]_session

StoreTypeOK == session \in [Id -> Session]
=============================================================================
