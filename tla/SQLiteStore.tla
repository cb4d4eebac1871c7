----------------------------- MODULE SQLiteStore ----------------------------
(***************************************************************************)
(* SQLiteSessionStore (persistent_store.py): the sessions in three tables, *)
(* with the status kept twice (the column sessions.status, by which the    *)
(* worker claims, and the row "status" of session_values, which the        *)
(* handlers read).  A table is a set of rows.                              *)
(*                                                                         *)
(* Every method reads the clock first and then takes the lock, so another  *)
(* caller's operation with a later reading may come in between: a method   *)
(* runs with a reading "now" of some moment up to MaxLag ago.  Under the   *)
(* lock it is one transaction, so one step; an exception rolls the         *)
(* transaction back, its purge included.                                   *)
(***************************************************************************)
EXTENDS Naturals, Sequences, FiniteSets

CONSTANTS
    Id, None,
    TTL,         \* self._ttl_seconds
    MaxLag,      \* bound: how long a caller waits between the clock and the lock
    MaxTime,     \* bound: the last reading of the clock
    MaxEvents    \* bound: events per session

ASSUME SQLiteAssumption ==
    /\ TTL \in Nat \ {0} /\ MaxLag \in Nat /\ MaxTime \in Nat /\ MaxEvents \in Nat

VARIABLES
    sessions,   \* rows [id, expires, status, updated]
    values,     \* rows [id, name, value]
    events,     \* rows [id, sequence, kind]
    clock,
    issued      \* history: the ids uuid4 has handed out

sqliteVars == <<sessions, values, events, clock, issued>>

tables == <<sessions, values, events>>

SQLiteInit ==
    /\ sessions = {} /\ values = {} /\ events = {}
    /\ clock = 0
    /\ issued = {}

Tick ==
    /\ clock < MaxTime
    /\ clock' = clock + 1
    /\ UNCHANGED <<tables, issued>>

\* The readings self._now() may have returned to a caller that now has the lock.
Readings == {now \in 0..clock : now + MaxLag >= clock}

-----------------------------------------------------------------------------
(***************************************************************************)
(* SQL, on the contents of the tables.                                     *)
(***************************************************************************)
Row(id)           == CHOOSE r \in sessions : r.id = id
Value(id, name)   == CHOOSE v \in values : v.id = id /\ v.name = name
HasValue(id, name) == \E v \in values : v.id = id /\ v.name = name

\* What a session_values query returns for one name, "none" for a missing row.
ValueOr(id, name, default) ==
    IF HasValue(id, name) THEN Value(id, name).value ELSE default

\* A variant of the schema without ON DELETE CASCADE for the events.
DeleteSessionsOnly(gone) ==
    /\ sessions' = {r \in sessions : r.id \notin gone}
    /\ values' = {v \in values : v.id \notin gone}
    /\ UNCHANGED events

\* DELETE FROM sessions WHERE session_id IN gone, with ON DELETE CASCADE.
DeleteSessions(gone) ==
    /\ sessions' = {r \in sessions : r.id \notin gone}
    /\ values' = {v \in values : v.id \notin gone}
    /\ events' = {e \in events : e.id \notin gone}

Expired(now) == {r.id : r \in {s \in sessions : s.expires <= now}}

Kept(rows, gone) == {r \in rows : r.id \notin gone}

\* INSERT ... ON CONFLICT(session_id, name) DO UPDATE
Upsert(rows, id, name, value) ==
    {v \in rows : ~(v.id = id /\ v.name = name)}
        \union {[id |-> id, name |-> name, value |-> value]}

\* UPDATE session_values SET value = ... WHERE session_id = id AND name = 'status'
SetStatusValue(rows, id, status) ==
    {IF v.id = id /\ v.name = "status" THEN [v EXCEPT !.value = status] ELSE v : v \in rows}

\* UPDATE sessions SET expires_at, updated_at, status WHERE session_id = id
SetRow(rows, id, expires, updated, status) ==
    {IF r.id = id THEN [id |-> id, expires |-> expires, updated |-> updated, status |-> status]
                  ELSE r : r \in rows}

\* COALESCE(MAX(sequence), 0) + 1
NextSequence(id) ==
    LET used == {e.sequence : e \in {f \in events : f.id = id}}
    IN  IF used = {} THEN 1 ELSE 1 + CHOOSE n \in used : \A k \in used : k <= n

-----------------------------------------------------------------------------
(***************************************************************************)
(* The methods, each with the reading it was entered with.                 *)
(***************************************************************************)
\* _require: the session is there once the expired ones have been purged.  If it is
\* not, SessionExpired rolls everything back and no table changes.
Required(id, now) == \E r \in sessions : r.id = id /\ r.expires > now

\* create: a correction copies the failure code of its parent, if there is one.
CreateRow(now, id, parent, code) ==
    LET gone  == Expired(now)
        names == {[id |-> id, name |-> "status", value |-> "created"]}
                 \union (IF parent = None THEN {}
                         ELSE {[id |-> id, name |-> "parent", value |-> parent]})
                 \union (IF code = "none" THEN {}
                         ELSE {[id |-> id, name |-> "failure_code", value |-> code]})
    IN  /\ id \notin issued
        /\ issued' = issued \union {id}
        /\ sessions' = Kept(sessions, gone)
              \union {[id |-> id, expires |-> now + TTL, updated |-> now, status |-> "created"]}
        /\ values' = Kept(values, gone) \union names
        /\ events' = Kept(events, gone)
        /\ UNCHANGED clock

\* update(status = ...), with the result of a run or the code of its failure.
Update(now, id, status, result, code) ==
    LET gone == Expired(now)
        v1   == Upsert(Kept(values, gone), id, "status", status)
        v2   == IF result THEN Upsert(v1, id, "result", "stored") ELSE v1
    IN  /\ Required(id, now)
        /\ values' = IF code = "none" THEN v2 ELSE Upsert(v2, id, "failure_code", code)
        /\ sessions' = SetRow(Kept(sessions, gone), id, now + TTL, now, status)
        /\ events' = Kept(events, gone)
        /\ UNCHANGED <<clock, issued>>

\* remove_keys("result", ...)
RemoveKeys(now, id) ==
    LET gone == Expired(now)
    IN  /\ Required(id, now)
        /\ values' = {v \in Kept(values, gone) : ~(v.id = id /\ v.name = "result")}
        /\ sessions' = SetRow(Kept(sessions, gone), id, now + TTL, now, Row(id).status)
        /\ events' = Kept(events, gone)
        /\ UNCHANGED <<clock, issued>>

\* emit: the expiry is not moved.
EmitRow(now, id, kind) ==
    LET gone == Expired(now)
    IN  /\ Required(id, now)
        /\ NextSequence(id) <= MaxEvents
        /\ sessions' = Kept(sessions, gone)
        /\ values' = Kept(values, gone)
        /\ events' = Kept(events, gone)
              \union {[id |-> id, sequence |-> NextSequence(id), kind |-> kind]}
        /\ UNCHANGED <<clock, issued>>

\* A variant that leaves the events of the failed attempt in the table.
ResetFailedKeepingEvents(now, id) ==
    LET gone  == Expired(now)
        stale == {"failure_code", "result"}
    IN  /\ Required(id, now)
        /\ ValueOr(id, "status", "none") = "failed"
        /\ ValueOr(id, "failure_code", "none") = "retryable"
        /\ NextSequence(id) <= MaxEvents
        /\ values' = SetStatusValue({v \in Kept(values, gone) : ~(v.id = id /\ v.name \in stale)},
                                    id, "created")
        /\ events' = Kept(events, gone)
              \union {[id |-> id, sequence |-> NextSequence(id), kind |-> "run_started"]}
        /\ sessions' = SetRow(Kept(sessions, gone), id, now + TTL, now, "created")
        /\ UNCHANGED <<clock, issued>>

\* reset_failed_research, when it returns True.
ResetFailed(now, id) ==
    LET gone  == Expired(now)
        stale == {"failure_code", "result"}
    IN  /\ Required(id, now)
        /\ ValueOr(id, "status", "none") = "failed"
        /\ ValueOr(id, "failure_code", "none") = "retryable"
        /\ values' = SetStatusValue({v \in Kept(values, gone) : ~(v.id = id /\ v.name \in stale)},
                                    id, "created")
        /\ events' = {e \in Kept(events, gone) : e.id # id}
              \union {[id |-> id, sequence |-> 1, kind |-> "run_started"]}
        /\ sessions' = SetRow(Kept(sessions, gone), id, now + TTL, now, "created")
        /\ UNCHANGED <<clock, issued>>

\* A read (get, read_events, count, or a refused reset) commits its purge.
ReadOnly(now) ==
    /\ DeleteSessions(Expired(now))
    /\ UNCHANGED <<clock, issued>>

\* A variant that looks for children once and not for their children.
LineageOneGeneration(id, gone) ==
    {id} \union {v.id : v \in {u \in Kept(values, gone) : u.name = "parent" /\ u.value = id}}

\* delete: the parents are read after the purge, the loop runs over two sets.
LineageOf(id, gone) ==
    LET existing == {r.id : r \in Kept(sessions, gone)}
        links    == {v \in Kept(values, gone) : v.name = "parent"}
        related(L) == {v.id : v \in {u \in links : u.value \in L}}
              \union {v.value : v \in {u \in links : u.id \in L /\ u.value \in existing}}
        round[n \in Nat] == IF n = 0 THEN {id}
                            ELSE round[n - 1] \union related(round[n - 1])
    IN  round[Cardinality(Id)]

DeleteLineage(now, id) ==
    LET gone == Expired(now)
    IN  /\ DeleteSessions(gone \union LineageOf(id, gone))
        /\ UNCHANGED <<clock, issued>>

\* A variant that marks the claimed session in the values only.
ClaimNextValueOnly(now) ==
    LET gone   == Expired(now)
        queued == {r \in Kept(sessions, gone) : r.status = "queued"}
    IN  /\ \E r \in queued :
              /\ values' = SetStatusValue(Kept(values, gone), r.id, "running")
              /\ sessions' = Kept(sessions, gone)
        /\ events' = Kept(events, gone)
        /\ UNCHANGED <<clock, issued>>

\* claim_next: the queued session with the smallest updated_at; which one of equals
\* depends on the ids, which uuid4 draws at random.
ClaimNext(now) ==
    LET gone   == Expired(now)
        queued == {r \in Kept(sessions, gone) : r.status = "queued"}
    IN  /\ \E r \in queued :
              /\ \A q \in queued : r.updated <= q.updated
              /\ sessions' = SetRow(Kept(sessions, gone), r.id, r.expires, now, "running")
              /\ values' = SetStatusValue(Kept(values, gone), r.id, "running")
        /\ events' = Kept(events, gone)
        /\ UNCHANGED <<clock, issued>>

\* requeue_stale(0) at the start of the process, before there is any other caller;
\* it does not purge.
RequeueStale ==
    LET stale == {r.id : r \in {s \in sessions : s.status = "running" /\ s.updated <= clock}}
    IN  /\ stale # {}
        /\ sessions' = {IF r.id \in stale THEN [r EXCEPT !.status = "queued", !.updated = clock]
                                          ELSE r : r \in sessions}
        /\ values' = {IF v.id \in stale /\ v.name = "status" THEN [v EXCEPT !.value = "queued"]
                                                           ELSE v : v \in values}
        /\ UNCHANGED <<events, clock, issued>>

-----------------------------------------------------------------------------
Method(now) ==
    \/ \E id \in Id :
         \/ CreateRow(now, id, None, "none")
         \/ \E parent \in issued : CreateRow(now, id, parent, "retryable")
         \/ \E status \in {"queued", "running"} : Update(now, id, status, FALSE, "none")
         \/ Update(now, id, "complete", TRUE, "none")
         \/ Update(now, id, "failed", FALSE, "retryable")
         \/ RemoveKeys(now, id)
         \/ EmitRow(now, id, "progress")
         \/ ResetFailed(now, id)
         \/ DeleteLineage(now, id)
    \/ ReadOnly(now)
    \/ ClaimNext(now)

SQLiteNext == Tick \/ RequeueStale \/ \E now \in Readings : Method(now)

SQLiteSpec == SQLiteInit /\ [][SQLiteNext]_sqliteVars

-----------------------------------------------------------------------------
\* The tables fit together: the two copies of the status agree, so that what the worker
\* claims by is what GET reports and what a retry tests; and no row outlives its session,
\* so that deletion and expiry leave no value or event behind.
TablesFitTogether ==
    LET ids == {r.id : r \in sessions}
    IN  /\ \A r \in sessions : \A v \in values :
               v.id = r.id /\ v.name = "status" => v.value = r.status
        /\ \A v \in values \union events : v.id \in ids

\* The tables implement the store that the rest of the service is written against.
RowSession(id) ==
    [status |-> Value(id, "status").value,
     result |-> HasValue(id, "result"),
     code   |-> ValueOr(id, "failure_code", "none"),
     parent |-> ValueOr(id, "parent", None),
     log    |-> LET mine == {e \in events : e.id = id}
                IN  [n \in 1..Cardinality(mine) |->
                        [kind |-> (CHOOSE e \in mine : e.sequence = n).kind, attempt |-> 0]]]

Blank(status) == [status |-> status, result |-> FALSE, code |-> "none",
                  parent |-> None, log |-> << >>]

AbstractSession ==
    [id \in Id |-> IF \E r \in sessions : r.id = id THEN RowSession(id)
                   ELSE IF id \in issued THEN Blank("gone") ELSE Blank("unused")]

Abstract == INSTANCE SessionStore WITH session <- AbstractSession

ImplementsStore == Abstract!StoreSpec

\* A deletion does not separate a correction from its parent: of two linked sessions that
\* have not expired both go or both stay. (ImplementsStore does not say so: to it, what a
\* deletion takes besides may as well have expired.)
FamiliesGoTogether ==
    [][LET alive == {r.id : r \in {s \in sessions : s.expires > clock}}
           left  == {r.id : r \in sessions'}
       IN  \A v \in values : v.name = "parent" /\ {v.id, v.value} \subseteq alive =>
                                 (v.id \in left <=> v.value \in left)]_sessions
=============================================================================
