-------------------------- MODULE SQLiteStoreProofs --------------------------
(***************************************************************************)
(* Theorems about SQLiteStore, for every set of ids, every time to live    *)
(* and however long a caller waits between the clock and the lock: the     *)
(* three tables fit together, they implement the map of sessions that the  *)
(* rest of the service is written against, and a deletion takes a review   *)
(* together with its corrections and ancestors.                            *)
(*                                                                         *)
(* A method is a purge followed by one operation.  The lemmas therefore    *)
(* speak of the contents S, V, E of the tables and the ids I handed out,   *)
(* so that the lemma on the purge and one on an operation can be chained.  *)
(***************************************************************************)
EXTENDS SQLiteStore, IterationLemmas, SequenceTheorems, TLAPS

RowStatus == {"created", "queued", "running", "complete", "failed"}

SessionRow == [id : Id, expires : Nat, status : RowStatus, updated : Nat]

ValueRow == [id : Id, name : {"status"}, value : RowStatus]
            \union [id : Id, name : {"parent"}, value : Id]
            \union [id : Id, name : {"failure_code"}, value : {"retryable"}]
            \union [id : Id, name : {"result"}, value : {"stored"}]

RowKind == {"run_started", "progress"}

EventRow == [id : Id, sequence : Nat \ {0}, kind : RowKind]

\* One row per primary key.
SessionKeys(S) ==
    /\ S \subseteq SessionRow
    /\ \A r, s \in S : r.id = s.id => r = s

ValueKeys(V) ==
    /\ V \subseteq ValueRow
    /\ \A v, w \in V : v.id = w.id /\ v.name = w.name => v = w

EventKeys(E) ==
    /\ E \subseteq EventRow
    /\ \A e, f \in E : e.id = f.id /\ e.sequence = f.sequence => e = f

Ids(S) == {r.id : r \in S}

\* The rows of one session.
Mine(T, i) == {t \in T : t.id = i}

\* The events of a session are numbered from one, without a gap.
Numbered(E, i) ==
    /\ IsFiniteSet(Mine(E, i))
    /\ {e.sequence : e \in Mine(E, i)} = 1..Cardinality(Mine(E, i))

StatusRow(r) == [id |-> r.id, name |-> "status", value |-> r.status]

Together(S, V, E, I) ==
    /\ SessionKeys(S) /\ ValueKeys(V) /\ EventKeys(E) /\ I \subseteq Id
    /\ Ids(S) \subseteq I
    /\ \A r \in S : StatusRow(r) \in V
    /\ \A v \in V : v.id \in Ids(S)
    /\ \A e \in E : e.id \in Ids(S)
    /\ \A i \in Id : Numbered(E, i)

\* The inductive invariant.
TablesInv ==
    /\ Together(sessions, values, events, issued)
    /\ clock \in Nat
    /\ \A r \in sessions : r.updated <= clock

-----------------------------------------------------------------------------
(* What a query of the values finds. *)

HasIn(V, i, n)   == \E v \in V : v.id = i /\ v.name = n
AtIn(V, i, n)    == CHOOSE v \in V : v.id = i /\ v.name = n
OrIn(V, i, n, d) == IF HasIn(V, i, n) THEN AtIn(V, i, n).value ELSE d

LEMMA RowIsFound ==
    ASSUME NEW V, ValueKeys(V), NEW v \in V
    PROVE  /\ HasIn(V, v.id, v.name) /\ AtIn(V, v.id, v.name) = v
           /\ \A d : OrIn(V, v.id, v.name, d) = v.value
  <1>1. HasIn(V, v.id, v.name)
    BY DEF HasIn
  <1>2. AtIn(V, v.id, v.name) \in V /\ AtIn(V, v.id, v.name).id = v.id
        /\ AtIn(V, v.id, v.name).name = v.name
    BY DEF AtIn
  <1>3. AtIn(V, v.id, v.name) = v
    BY <1>2 DEF ValueKeys
  <1> QED
    BY <1>1, <1>3 DEF OrIn

\* A query about a session depends on the rows of that session only.
LEMMA SameRowsSameValues ==
    ASSUME NEW V, NEW W, ValueKeys(V), ValueKeys(W), NEW i, NEW n,
           \A v \in V : v.id = i /\ v.name = n => v \in W,
           \A w \in W : w.id = i /\ w.name = n => w \in V
    PROVE  /\ HasIn(V, i, n) <=> HasIn(W, i, n)
           /\ HasIn(V, i, n) => AtIn(V, i, n) = AtIn(W, i, n)
           /\ \A d : OrIn(V, i, n, d) = OrIn(W, i, n, d)
  <1>1. HasIn(V, i, n) <=> HasIn(W, i, n)
    BY DEF HasIn
  <1>2. ASSUME HasIn(V, i, n) PROVE AtIn(V, i, n) = AtIn(W, i, n)
    <2>1. PICK v \in V : v.id = i /\ v.name = n
      BY <1>2 DEF HasIn
    <2>2. v \in W
      BY <2>1
    <2> QED
      BY <2>1, <2>2, RowIsFound
  <1> QED
    BY <1>1, <1>2 DEF OrIn

LEMMA FewerRows ==
    ASSUME NEW V, ValueKeys(V), NEW W \in SUBSET V
    PROVE  ValueKeys(W)
  BY DEF ValueKeys

LEMMA UpsertKeys ==
    ASSUME NEW V, ValueKeys(V), NEW i, NEW n, NEW x,
           [id |-> i, name |-> n, value |-> x] \in ValueRow
    PROVE  /\ ValueKeys(Upsert(V, i, n, x))
           /\ [id |-> i, name |-> n, value |-> x] \in Upsert(V, i, n, x)
           /\ \A v \in V : ~(v.id = i /\ v.name = n) => v \in Upsert(V, i, n, x)
           /\ \A v \in Upsert(V, i, n, x) : (v.id = i /\ v.name = n) \/ v \in V
  <1> DEFINE row == [id |-> i, name |-> n, value |-> x]
             U   == Upsert(V, i, n, x)
  <1>1. row.id = i /\ row.name = n /\ row \in ValueRow
    OBVIOUS
  <1>2. U = {v \in V : ~(v.id = i /\ v.name = n)} \union {row}
    BY DEF Upsert
  <1> HIDE DEF row, U
  <1>3. ValueKeys(U)
    BY <1>1, <1>2 DEF ValueKeys
  <1>4. row \in U /\ (\A v \in V : ~(v.id = i /\ v.name = n) => v \in U)
        /\ (\A v \in U : (v.id = i /\ v.name = n) \/ v \in V)
    BY <1>1, <1>2
  <1> QED
    BY <1>3, <1>4 DEF row, U

\* An UPDATE of the status is an upsert where the row exists.
LEMMA UpdateIsUpsert ==
    ASSUME NEW V, ValueKeys(V), NEW i, HasIn(V, i, "status"), NEW s \in RowStatus
    PROVE  SetStatusValue(V, i, s) = Upsert(V, i, "status", s)
  <1> DEFINE row == [id |-> i, name |-> "status", value |-> s]
             new(v) == IF v.id = i /\ v.name = "status" THEN [v EXCEPT !.value = s] ELSE v
  <1>1. \A v \in ValueRow : v = [id |-> v.id, name |-> v.name, value |-> v.value]
    BY DEF ValueRow
  <1>2. ASSUME NEW v \in V, v.id = i, v.name = "status" PROVE [v EXCEPT !.value = s] = row
    <2>1. v = [id |-> i, name |-> "status", value |-> v.value]
      BY <1>1, <1>2 DEF ValueKeys
    <2> QED
      BY <2>1
  <1>3. \A v \in V : new(v) = IF v.id = i /\ v.name = "status" THEN row ELSE v
    BY <1>2
  <1>4. SetStatusValue(V, i, s) = {new(v) : v \in V}
    BY DEF SetStatusValue
  <1>5. PICK w \in V : w.id = i /\ w.name = "status"
    BY DEF HasIn
  <1>6. Upsert(V, i, "status", s) = {v \in V : ~(v.id = i /\ v.name = "status")} \union {row}
    BY DEF Upsert
  <1> HIDE DEF row, new
  <1>7. row \in {new(v) : v \in V}
    BY <1>3, <1>5
  <1>8. \A y : y \in {new(v) : v \in V}
               <=> y \in {v \in V : ~(v.id = i /\ v.name = "status")} \union {row}
    BY <1>3, <1>7
  <1> QED
    BY <1>4, <1>6, <1>8

-----------------------------------------------------------------------------
(* The log of a session. *)

LogOf(E, i) ==
    [n \in 1..Cardinality(Mine(E, i)) |->
        [kind |-> (CHOOSE e \in Mine(E, i) : e.sequence = n).kind, attempt |-> 0]]

\* The number the next event gets is one more than the number of events.
NextIn(E, i) ==
    LET used == {e.sequence : e \in Mine(E, i)}
    IN  IF used = {} THEN 1 ELSE 1 + CHOOSE n \in used : \A k \in used : k <= n

LEMMA NextIsCount ==
    ASSUME NEW E, NEW i, Numbered(E, i)
    PROVE  /\ Cardinality(Mine(E, i)) \in Nat
           /\ NextIn(E, i) = Cardinality(Mine(E, i)) + 1
  <1> DEFINE c    == Cardinality(Mine(E, i))
             used == {e.sequence : e \in Mine(E, i)}
  <1>1. c \in Nat
    BY FS_CardinalityType DEF Numbered
  <1>2. used = 1..c
    BY DEF Numbered
  <1>3. NextIn(E, i) = IF used = {} THEN 1 ELSE 1 + CHOOSE n \in used : \A k \in used : k <= n
    BY DEF NextIn
  <1> HIDE DEF c, used
  <1>4. CASE c = 0
    <2>1. used = {}
      BY <1>1, <1>2, <1>4
    <2> QED
      BY <1>1, <1>3, <1>4, <2>1 DEF c
  <1>5. CASE c # 0
    <2> DEFINE top == CHOOSE n \in used : \A k \in used : k <= n
    <2>1. c \in used /\ \A k \in used : k <= c
      BY <1>1, <1>2, <1>5
    <2>2. top \in used /\ \A k \in used : k <= top
      <3> QED
        BY <2>1
    <2>3. top \in Nat /\ c <= top /\ top <= c
      BY <1>1, <1>2, <2>1, <2>2
    <2> HIDE DEF top
    <2>4. top = c
      BY <1>1, <2>3
    <2>5. used # {} /\ NextIn(E, i) = 1 + top
      BY <1>3, <2>1 DEF top
    <2> QED
      BY <1>1, <2>4, <2>5 DEF c
  <1> QED
    BY <1>4, <1>5

\* Without events a session has the empty log.
LEMMA NoEvents ==
    ASSUME NEW E, NEW i, Mine(E, i) = {}
    PROVE  Numbered(E, i) /\ LogOf(E, i) = << >>
  <1>1. IsFiniteSet({}) /\ Cardinality({}) = 0
    BY FS_EmptySet
  <1>2. 1..0 = {} /\ {e.sequence : e \in {}} = {}
    OBVIOUS
  <1>3. Numbered(E, i)
    BY <1>1, <1>2, Zenon DEF Numbered
  <1>4. Cardinality(Mine(E, i)) = 0
    BY <1>1
  <1>5. LogOf(E, i) = [n \in 1..0 |-> [kind |-> (CHOOSE e \in Mine(E, i) : e.sequence = n).kind,
                                       attempt |-> 0]]
    BY <1>4 DEF LogOf
  <1> QED
    BY <1>2, <1>3, <1>5

Added(E, i, kind) == E \union {[id |-> i, sequence |-> NextIn(E, i), kind |-> kind]}

Entry(kind) == [kind |-> kind, attempt |-> 0]

\* What is appended to the events of a session is appended to its log.
LEMMA EventAppended ==
    ASSUME NEW E, EventKeys(E), NEW i \in Id, Numbered(E, i), LogOf(E, i) \in Seq(Abstract!Event),
           NEW kind \in RowKind
    PROVE  /\ EventKeys(Added(E, i, kind))
           /\ Numbered(Added(E, i, kind), i)
           /\ LogOf(Added(E, i, kind), i) = Append(LogOf(E, i), Entry(kind))
           /\ \A j : j # i => Mine(Added(E, i, kind), j) = Mine(E, j)
  <1> DEFINE c    == Cardinality(Mine(E, i))
             row  == [id |-> i, sequence |-> NextIn(E, i), kind |-> kind]
             F    == E \union {row}
             said == [kind |-> kind, attempt |-> 0]
  <1>1. c \in Nat /\ row = [id |-> i, sequence |-> c + 1, kind |-> kind]
    BY NextIsCount
  <1> HIDE DEF c, row
  <1>2. row.id = i /\ row.sequence = c + 1 /\ row.kind = kind /\ row \in EventRow
    BY <1>1 DEF EventRow
  <1>3. {e.sequence : e \in Mine(E, i)} = 1..c
    BY DEF Numbered, c
  <1>4. \A e \in Mine(E, i) : e \in E /\ e.id = i /\ e.sequence \in 1..c
    BY <1>3 DEF Mine
  <1>5. row \notin Mine(E, i)
    BY <1>1, <1>2, <1>4
  <1>6. EventKeys(F)
    <2>1. \A e \in E : e.id = i => e.sequence # c + 1
      BY <1>1, <1>4 DEF Mine
    <2> QED
      BY <1>2, <2>1 DEF EventKeys
  <1>7. Mine(F, i) = Mine(E, i) \union {row}
    BY <1>2 DEF Mine
  <1>8. IsFiniteSet(Mine(F, i)) /\ Cardinality(Mine(F, i)) = c + 1
    <2>1. IsFiniteSet(Mine(E, i))
      BY DEF Numbered
    <2>2. /\ IsFiniteSet(Mine(E, i) \union {row})
          /\ Cardinality(Mine(E, i) \union {row}) = Cardinality(Mine(E, i)) + 1
      BY <1>5, <2>1, FS_AddElement
    <2> QED
      BY <1>7, <2>2 DEF c
  <1>9. {e.sequence : e \in Mine(F, i)} = {e.sequence : e \in Mine(E, i)} \union {c + 1}
    <2> HIDE DEF F
    <2>1. row.sequence = c + 1
      BY <1>2
    <2> QED
      BY <1>7, <2>1
  <1>10. Numbered(F, i)
    <2>1. (1..c) \union {c + 1} = 1..(c + 1)
      BY <1>1
    <2> QED
      BY <1>3, <1>8, <1>9, <2>1 DEF Numbered
  <1>11. \A j : j # i => Mine(F, j) = Mine(E, j)
    BY <1>2 DEF Mine
  <1> DEFINE At(M, n) == CHOOSE e \in M : e.sequence = n
  <1>12. ASSUME NEW n \in 1..c PROVE At(Mine(F, i), n) = At(Mine(E, i), n)
    <2>1. PICK e \in Mine(E, i) : e.sequence = n
      BY <1>3
    <2>2. \A f \in Mine(F, i) : f.sequence = n => f = e
      BY <1>6, <1>7, <2>1 DEF EventKeys, Mine
    <2>3. At(Mine(F, i), n) = e
      BY <1>7, <2>1, <2>2
    <2>4. At(Mine(E, i), n) = e
      BY <1>7, <2>1, <2>2
    <2> QED
      BY <2>3, <2>4
  <1>13. At(Mine(F, i), c + 1) = row
    <2>1. \A f \in Mine(F, i) : f.sequence = c + 1 => f = row
      BY <1>2, <1>6, <1>7 DEF EventKeys, Mine
    <2> QED
      BY <1>2, <1>7, <2>1
  <1>14. LogOf(F, i) = [n \in 1..(c + 1) |-> [kind |-> At(Mine(F, i), n).kind, attempt |-> 0]]
    BY <1>8 DEF LogOf
  <1>15. LogOf(E, i) = [n \in 1..c |-> [kind |-> At(Mine(E, i), n).kind, attempt |-> 0]]
    BY DEF LogOf, c
  <1> DEFINE log  == LogOf(E, i)
             log2 == LogOf(F, i)
  <1>16. Len(log) = c /\ DOMAIN log = 1..c
    <2>1. DOMAIN log = 1..c
      BY <1>15
    <2>2. DOMAIN log = 1..Len(log) /\ Len(log) \in Nat
      BY DEF log
    <2> HIDE DEF log
    <2> QED
      BY <1>1, <2>1, <2>2
  <1>17. ASSUME NEW n \in 1..c PROVE log2[n] = log[n]
    <2>1. log[n] = [kind |-> At(Mine(E, i), n).kind, attempt |-> 0]
      BY <1>15
    <2>2. n \in 1..(c + 1)
      BY <1>1
    <2>3. log2[n] = [kind |-> At(Mine(F, i), n).kind, attempt |-> 0]
      BY <1>14, <2>2
    <2> HIDE DEF log, log2, At, F
    <2> QED
      BY <1>12, <2>1, <2>3
  <1>18. log2[c + 1] = said
    <2>1. c + 1 \in 1..(c + 1)
      BY <1>1
    <2>2. log2[c + 1] = [kind |-> At(Mine(F, i), c + 1).kind, attempt |-> 0]
      BY <1>14, <2>1
    <2> HIDE DEF log, log2, At, F
    <2> QED
      BY <1>2, <1>13, <2>2 DEF said
  <1>19. log2 = Append(log, said)
    <2>1. log2 = [n \in 1..(c + 1) |-> log2[n]]
      BY <1>14
    <2>2. said \in Abstract!Event
      BY DEF said, RowKind, Abstract!Event, Abstract!Kind
    <2>3. log \in Seq(Abstract!Event)
      BY DEF log
    <2> HIDE DEF log, log2, said, At, F
    <2>4. /\ Append(log, said) \in Seq(Abstract!Event)
          /\ DOMAIN Append(log, said) = 1..(c + 1)
          /\ Append(log, said)[c + 1] = said
          /\ \A n \in 1..c : Append(log, said)[n] = log[n]
      BY <1>1, <1>16, <2>2, <2>3
    <2> DEFINE app == Append(log, said)
    <2>5. app = [n \in 1..(c + 1) |-> app[n]]
      <3>1. app \in [1..Len(app) -> Abstract!Event]
        BY <2>4, LenProperties
      <3>2. app = [n \in DOMAIN app |-> app[n]]
        <4> HIDE DEF app
        <4> QED
          BY <3>1
      <3> QED
        BY <2>4, <3>2
    <2>6. \A n \in 1..(c + 1) : n = c + 1 \/ n \in 1..c
      BY <1>1
    <2>7. \A n \in 1..(c + 1) : log2[n] = app[n]
      BY <1>17, <1>18, <2>4, <2>6
    <2> HIDE DEF app
    <2>8. log2 = app
      BY <2>1, <2>5, <2>7
    <2> QED
      BY <2>8 DEF app
  <1> QED
    BY <1>6, <1>10, <1>11, <1>19 DEF Added, Entry, row

\* The first event of a session without events.
LEMMA FirstEvent ==
    ASSUME NEW E, EventKeys(E), NEW i \in Id, NEW kind \in RowKind
    PROVE  LET F == E \union {[id |-> i, sequence |-> 1, kind |-> kind]} IN
           Mine(E, i) = {} =>
              /\ EventKeys(F) /\ Numbered(F, i)
              /\ LogOf(F, i) = << Entry(kind) >>
              /\ \A j : j # i => Mine(F, j) = Mine(E, j)
  <1> DEFINE F == E \union {[id |-> i, sequence |-> 1, kind |-> kind]}
  <1>1. ASSUME Numbered(E, i), LogOf(E, i) \in Seq(Abstract!Event)
        PROVE  /\ EventKeys(Added(E, i, kind)) /\ Numbered(Added(E, i, kind), i)
               /\ LogOf(Added(E, i, kind), i) = Append(LogOf(E, i), Entry(kind))
               /\ \A j : j # i => Mine(Added(E, i, kind), j) = Mine(E, j)
    BY <1>1, EventAppended
  <1>2. ASSUME Mine(E, i) = {}
        PROVE  /\ Numbered(E, i) /\ LogOf(E, i) = << >>
               /\ LogOf(E, i) \in Seq(Abstract!Event) /\ NextIn(E, i) = 1
    <2>1. Numbered(E, i) /\ LogOf(E, i) = << >>
      BY <1>2, NoEvents
    <2>2. Cardinality(Mine(E, i)) = 0
      BY <1>2, FS_EmptySet
    <2>3. NextIn(E, i) = Cardinality(Mine(E, i)) + 1
      BY <2>1, NextIsCount, Zenon
    <2>4. NextIn(E, i) = 0 + 1
      BY <2>2, <2>3, Zenon
    <2>5. << >> \in Seq(Abstract!Event)
      OBVIOUS
    <2> QED
      BY <2>1, <2>4, <2>5
  <1>3. NextIn(E, i) = 1 => Added(E, i, kind) = F
    BY DEF Added
  <1> HIDE DEF F
  <1>4. Append(<< >>, Entry(kind)) = << Entry(kind) >>
    OBVIOUS
  <1>5. Mine(E, i) = {} =>
          /\ EventKeys(F) /\ Numbered(F, i)
          /\ LogOf(F, i) = << Entry(kind) >>
          /\ \A j : j # i => Mine(F, j) = Mine(E, j)
    BY <1>1, <1>2, <1>3, <1>4, Zenon
  <1> QED
    BY <1>5 DEF F

LEMMA LogIsSequence ==
    ASSUME NEW E, EventKeys(E), NEW i, Numbered(E, i)
    PROVE  LogOf(E, i) \in Seq(Abstract!Event)
  <1> DEFINE c     == Cardinality(Mine(E, i))
             At(n) == CHOOSE e \in Mine(E, i) : e.sequence = n
  <1>1. c \in Nat
    BY FS_CardinalityType DEF Numbered
  <1>2. ASSUME NEW n \in 1..c PROVE [kind |-> At(n).kind, attempt |-> 0] \in Abstract!Event
    <2>1. \E e \in Mine(E, i) : e.sequence = n
      BY DEF Numbered
    <2>2. At(n) \in EventRow
      BY <2>1 DEF EventKeys, Mine
    <2>3. At(n).kind \in Abstract!Kind
      BY <2>2 DEF EventRow, RowKind, Abstract!Kind
    <2> HIDE DEF At
    <2> QED
      BY <2>3 DEF Abstract!Event
  <1>3. LogOf(E, i) = [n \in 1..c |-> [kind |-> At(n).kind, attempt |-> 0]]
    BY DEF LogOf
  <1> HIDE DEF c, At
  <1>4. LogOf(E, i) \in [1..c -> Abstract!Event]
    BY <1>2, <1>3
  <1> QED
    BY <1>1, <1>4, SeqDef

-----------------------------------------------------------------------------
(* The map of sessions that the tables hold. *)

Rec(a, b, c, d, l) == [status |-> a, result |-> b, code |-> c, parent |-> d, log |-> l]

RowOf(V, E, i) == Rec(AtIn(V, i, "status").value, HasIn(V, i, "result"),
                      OrIn(V, i, "failure_code", "none"), OrIn(V, i, "parent", None),
                      LogOf(E, i))

ViewAt(S, V, E, I, i) ==
    IF i \in Ids(S) THEN RowOf(V, E, i)
    ELSE IF i \in I THEN Blank("gone") ELSE Blank("unused")

ViewOf(S, V, E, I) == [i \in Id |-> ViewAt(S, V, E, I, i)]

LEMMA AbstractIsView ==
    /\ AbstractSession = ViewOf(sessions, values, events, issued)
    /\ AbstractSession' = ViewOf(sessions', values', events', issued')
  <1>1. ASSUME NEW i \in Id
        PROVE  /\ RowSession(i) = RowOf(values, events, i)
               /\ RowSession(i)' = RowOf(values', events', i)
    BY DEF RowSession, RowOf, Rec, Value, HasValue, ValueOr, HasIn, AtIn, OrIn, LogOf, Mine
  <1>2. \A i \in Id : /\ (\E r \in sessions : r.id = i) <=> i \in Ids(sessions)
                      /\ (\E r \in sessions' : r.id = i) <=> i \in Ids(sessions')
    BY DEF Ids
  <1>3. AbstractSession = ViewOf(sessions, values, events, issued)
    BY <1>1, <1>2, Zenon DEF AbstractSession, ViewOf, ViewAt
  <1>4. AbstractSession' = ViewOf(sessions', values', events', issued')
    BY <1>1, <1>2, Zenon DEF AbstractSession, ViewOf, ViewAt
  <1> QED
    BY <1>3, <1>4

LEMMA BlankFields ==
    ASSUME NEW s
    PROVE  Blank(s) = Abstract!Blank(s) /\ Blank(s).status = s
  BY DEF Blank, Abstract!Blank

\* The session in the view is what the row and the values of the session say.
LEMMA ViewOfPresent ==
    ASSUME NEW S, NEW V, NEW E, NEW I, Together(S, V, E, I), NEW r \in S
    PROVE  /\ HasIn(V, r.id, "status") /\ AtIn(V, r.id, "status").value = r.status
           /\ r.id \in Ids(S) /\ r.id \in Id /\ r.status \in RowStatus
           /\ ViewAt(S, V, E, I, r.id) = RowOf(V, E, r.id)
           /\ RowOf(V, E, r.id) = Rec(r.status, HasIn(V, r.id, "result"),
                                      OrIn(V, r.id, "failure_code", "none"),
                                      OrIn(V, r.id, "parent", None), LogOf(E, r.id))
  <1>1. StatusRow(r) \in V /\ ValueKeys(V) /\ r \in SessionRow
    BY DEF Together, SessionKeys
  <1>2. StatusRow(r).id = r.id /\ StatusRow(r).name = "status" /\ StatusRow(r).value = r.status
    BY DEF StatusRow
  <1>3. HasIn(V, r.id, "status") /\ AtIn(V, r.id, "status") = StatusRow(r)
    BY <1>1, <1>2, RowIsFound
  <1>4. r.id \in Ids(S) /\ r.id \in Id /\ r.status \in RowStatus
    BY <1>1 DEF Ids, SessionRow
  <1> QED
    BY <1>2, <1>3, <1>4 DEF ViewAt, RowOf

LEMMA LiveMeansPresent ==
    ASSUME NEW S, NEW V, NEW E, NEW I, Together(S, V, E, I)
    PROVE  Abstract!Live(ViewOf(S, V, E, I)) = Ids(S)
  <1>1. Ids(S) \subseteq Id
    BY DEF Together, SessionKeys, SessionRow, Ids
  <1>2. ASSUME NEW i \in Id
        PROVE  ViewAt(S, V, E, I, i).status \in Abstract!Status <=> i \in Ids(S)
    <2>1. CASE i \in Ids(S)
      <3>1. PICK r \in S : r.id = i
        BY <2>1 DEF Ids
      <3>2. ViewAt(S, V, E, I, i).status = r.status /\ r.status \in RowStatus
        <4>1. \A b, c, d, l : Rec(r.status, b, c, d, l).status = r.status
          BY DEF Rec
        <4>2. /\ ViewAt(S, V, E, I, r.id) = RowOf(V, E, r.id) /\ r.status \in RowStatus
              /\ RowOf(V, E, r.id) = Rec(r.status, HasIn(V, r.id, "result"),
                                         OrIn(V, r.id, "failure_code", "none"),
                                         OrIn(V, r.id, "parent", None), LogOf(E, r.id))
          BY ViewOfPresent
        <4> QED
          BY <3>1, <4>1, <4>2
      <3> QED
        BY <2>1, <3>2 DEF Abstract!Status, RowStatus
    <2>2. CASE i \notin Ids(S)
      <3>1. ViewAt(S, V, E, I, i).status \in {"gone", "unused"}
        BY <2>2, BlankFields DEF ViewAt
      <3> QED
        BY <2>2, <3>1 DEF Abstract!Status
    <2> QED
      BY <2>1, <2>2
  <1> QED
    BY <1>1, <1>2 DEF Abstract!Live, ViewOf

\* What the view says of a session depends on its own rows only.
LEMMA SameRowsSameView ==
    ASSUME NEW S, NEW V, NEW E, NEW I, Together(S, V, E, I),
           NEW S2, NEW V2, NEW E2, NEW I2, ValueKeys(V2),
           NEW i, i \in Ids(S2) <=> i \in Ids(S), i \in I2 <=> i \in I,
           Mine(V2, i) = Mine(V, i), Mine(E2, i) = Mine(E, i)
    PROVE  ViewAt(S2, V2, E2, I2, i) = ViewAt(S, V, E, I, i)
  <1>1. ValueKeys(V)
    BY DEF Together
  <1>2. /\ \A v \in V : v.id = i => v \in V2
        /\ \A v \in V2 : v.id = i => v \in V
    BY DEF Mine
  <1>3. \A n : /\ HasIn(V2, i, n) <=> HasIn(V, i, n)
               /\ HasIn(V2, i, n) => AtIn(V2, i, n) = AtIn(V, i, n)
               /\ \A d : OrIn(V2, i, n, d) = OrIn(V, i, n, d)
    BY <1>1, <1>2, SameRowsSameValues
  <1>4. LogOf(E2, i) = LogOf(E, i)
    BY DEF LogOf
  <1>5. CASE i \in Ids(S)
    <2>1. HasIn(V, i, "status")
      BY <1>5, ViewOfPresent DEF Ids
    <2>2. AtIn(V2, i, "status") = AtIn(V, i, "status")
      BY <1>3, <2>1
    <2>3. HasIn(V2, i, "result") = HasIn(V, i, "result")
      BY <1>3 DEF HasIn
    <2>4. RowOf(V2, E2, i) = RowOf(V, E, i)
      BY <1>3, <1>4, <2>2, <2>3, Zenon DEF RowOf
    <2> QED
      BY <1>5, <2>4 DEF ViewAt
  <1>6. CASE i \notin Ids(S)
    BY <1>6 DEF ViewAt
  <1> QED
    BY <1>5, <1>6

\* A purge, or a deletion: what goes is gone, and what stays is as it was.
LEMMA PurgeLemma ==
    ASSUME NEW S, NEW V, NEW E, NEW I, Together(S, V, E, I), NEW gone
    PROVE  /\ Together(Kept(S, gone), Kept(V, gone), Kept(E, gone), I)
           /\ Ids(Kept(S, gone)) = Ids(S) \ gone
           /\ \A i \in Id : ViewAt(Kept(S, gone), Kept(V, gone), Kept(E, gone), I, i)
                            = IF i \in Ids(S) \intersect gone THEN Blank("gone")
                              ELSE ViewAt(S, V, E, I, i)
  <1> DEFINE S2 == Kept(S, gone)
             V2 == Kept(V, gone)
             E2 == Kept(E, gone)
  <1>1. /\ S2 \subseteq S /\ \A r \in S : r \in S2 <=> r.id \notin gone
        /\ V2 \subseteq V /\ \A v \in V : v \in V2 <=> v.id \notin gone
        /\ E2 \subseteq E /\ \A e \in E : e \in E2 <=> e.id \notin gone
    BY DEF Kept
  <1>2. Ids(S2) = Ids(S) \ gone
    BY <1>1 DEF Ids
  <1> HIDE DEF S2, V2, E2
  <1>3. SessionKeys(S2) /\ ValueKeys(V2) /\ EventKeys(E2)
    BY <1>1 DEF Together, SessionKeys, ValueKeys, EventKeys
  <1>4. \A r \in S2 : StatusRow(r) \in V2
    <2>1. \A r : StatusRow(r).id = r.id
      BY DEF StatusRow
    <2> QED
      BY <1>1, <2>1 DEF Together
  <1>5. (\A v \in V2 : v.id \in Ids(S2)) /\ (\A e \in E2 : e.id \in Ids(S2))
    BY <1>1, <1>2 DEF Together
  <1>6. ASSUME NEW i \in Id, i \notin gone
        PROVE  Mine(V2, i) = Mine(V, i) /\ Mine(E2, i) = Mine(E, i)
    BY <1>1, <1>6 DEF Mine
  <1>7. ASSUME NEW i \in Id PROVE Numbered(E2, i)
    <2>1. CASE i \in gone
      <3>1. Mine(E2, i) = {}
        BY <1>1, <2>1 DEF Mine
      <3> QED
        BY <3>1, NoEvents
    <2>2. CASE i \notin gone
      <3>1. Mine(E2, i) = Mine(E, i) /\ Numbered(E, i)
        BY <1>6, <2>2 DEF Together
      <3> QED
        BY <3>1, Zenon DEF Numbered
    <2> QED
      BY <2>1, <2>2
  <1>8. Together(S2, V2, E2, I)
    BY <1>2, <1>3, <1>4, <1>5, <1>7 DEF Together
  <1>9. ASSUME NEW i \in Id
        PROVE  ViewAt(S2, V2, E2, I, i) = IF i \in Ids(S) \intersect gone THEN Blank("gone")
                                          ELSE ViewAt(S, V, E, I, i)
    <2>1. CASE i \in Ids(S) \intersect gone
      <3>1. i \notin Ids(S2) /\ i \in I
        BY <1>2, <2>1 DEF Together
      <3> QED
        BY <2>1, <3>1 DEF ViewAt
    <2>2. CASE i \notin Ids(S)
      BY <1>2, <2>2 DEF ViewAt
    <2>3. CASE i \notin gone
      <3>1. i \in Ids(S2) <=> i \in Ids(S)
        BY <1>2, <2>3
      <3>2. Mine(V2, i) = Mine(V, i) /\ Mine(E2, i) = Mine(E, i)
        BY <1>6, <2>3
      <3>3. ViewAt(S2, V2, E2, I, i) = ViewAt(S, V, E, I, i)
        BY <1>3, <3>1, <3>2, SameRowsSameView
      <3> QED
        BY <2>3, <3>3
    <2> QED
      BY <2>1, <2>2, <2>3
  <1> QED
    BY <1>2, <1>8, <1>9 DEF S2, V2, E2

\* An UPDATE of the row of one session.
LEMMA SetRowLemma ==
    ASSUME NEW S, SessionKeys(S), NEW i \in Ids(S),
           NEW expires \in Nat, NEW updated \in Nat, NEW status \in RowStatus
    PROVE  /\ SessionKeys(SetRow(S, i, expires, updated, status))
           /\ Ids(SetRow(S, i, expires, updated, status)) = Ids(S)
           /\ \A r \in SetRow(S, i, expires, updated, status) :
                 \/ r.id = i /\ r.status = status /\ r.updated = updated /\ r.expires = expires
                 \/ r.id # i /\ r \in S
  <1> DEFINE row    == [id |-> i, expires |-> expires, updated |-> updated, status |-> status]
             new(r) == IF r.id = i THEN row ELSE r
             T      == SetRow(S, i, expires, updated, status)
  <1>1. T = {new(r) : r \in S}
    BY DEF SetRow
  <1>2. i \in Id
    BY DEF SessionKeys, SessionRow, Ids
  <1>3. /\ row \in SessionRow /\ row.id = i /\ row.status = status /\ row.updated = updated
        /\ row.expires = expires
    BY <1>2 DEF SessionRow
  <1> HIDE DEF row, T
  <1>4. \A t \in T : t = row \/ (t \in S /\ t.id # i)
    BY <1>1
  <1>5. SessionKeys(T)
    BY <1>3, <1>4 DEF SessionKeys
  <1>6. \A r \in S : new(r) \in T /\ new(r).id = r.id
    BY <1>1, <1>3
  <1>7. Ids(T) \subseteq Ids(S)
    BY <1>3, <1>4 DEF Ids
  <1>8. Ids(S) \subseteq Ids(T)
    <2> HIDE DEF new
    <2> QED
      BY <1>6 DEF Ids
  <1> QED
    BY <1>3, <1>4, <1>5, <1>7, <1>8 DEF T

-----------------------------------------------------------------------------
(* An operation on one session of the tables. *)

LEMMA OperationOnOne ==
    ASSUME NEW S, NEW V, NEW E, NEW I, Together(S, V, E, I), NEW i \in Ids(S),
           NEW S2, SessionKeys(S2), Ids(S2) = Ids(S), NEW status \in RowStatus,
           \A r \in S2 : \/ r.id = i /\ r.status = status
                         \/ r.id # i /\ r \in S,
           NEW V2, ValueKeys(V2), [id |-> i, name |-> "status", value |-> status] \in V2,
           \A v \in V2 : v.id = i \/ v \in V,
           \A v \in V : v.id # i => v \in V2,
           NEW E2, EventKeys(E2), Numbered(E2, i),
           \A j : j # i => Mine(E2, j) = Mine(E, j)
    PROVE  /\ Together(S2, V2, E2, I)
           /\ \A j \in Id \ {i} : ViewAt(S2, V2, E2, I, j) = ViewAt(S, V, E, I, j)
           /\ ViewAt(S2, V2, E2, I, i) = Rec(status, HasIn(V2, i, "result"),
                                             OrIn(V2, i, "failure_code", "none"),
                                             OrIn(V2, i, "parent", None), LogOf(E2, i))
  <1> DEFINE row == [id |-> i, name |-> "status", value |-> status]
  <1>1. \A r : StatusRow(r).id = r.id /\ StatusRow(r) = [id |-> r.id, name |-> "status", value |-> r.status]
    BY DEF StatusRow
  <1>2. ASSUME NEW r \in S2 PROVE StatusRow(r) \in V2
    <2>1. CASE r.id = i
      <3>1. StatusRow(r) = row
        BY <1>1, <2>1
      <3> QED
        BY <3>1
    <2>2. CASE r.id # i
      <3>1. r \in S /\ StatusRow(r) \in V
        BY <2>2 DEF Together
      <3> HIDE DEF row
      <3> QED
        BY <1>1, <2>2, <3>1
    <2> QED
      BY <2>1, <2>2
  <1>3. i \in Id
    BY DEF Together, SessionKeys, SessionRow, Ids
  <1>4. \A v \in V2 : v.id \in Ids(S2)
    BY DEF Together
  <1>5. \A e \in E2 : e.id \in Ids(S2)
    BY DEF Together, Mine
  <1>6. ASSUME NEW j \in Id PROVE Numbered(E2, j)
    <2>1. CASE j # i
      BY <2>1, Zenon DEF Together, Numbered
    <2> QED
      BY <2>1
  <1>7. Together(S2, V2, E2, I)
    BY <1>2, <1>4, <1>5, <1>6 DEF Together
  <1>8. ASSUME NEW j \in Id \ {i} PROVE ViewAt(S2, V2, E2, I, j) = ViewAt(S, V, E, I, j)
    <2>1. Mine(V2, j) = Mine(V, j)
      BY DEF Mine
    <2>2. Mine(E2, j) = Mine(E, j)
      OBVIOUS
    <2> QED
      BY <2>1, <2>2, SameRowsSameView
  <1>9. PICK r \in S2 : r.id = i
    BY DEF Ids
  <1>10. r.status = status
    BY <1>9
  <1>11. ViewAt(S2, V2, E2, I, i) = Rec(status, HasIn(V2, i, "result"),
                                        OrIn(V2, i, "failure_code", "none"),
                                        OrIn(V2, i, "parent", None), LogOf(E2, i))
    BY <1>7, <1>9, <1>10, ViewOfPresent
  <1> QED
    BY <1>7, <1>8, <1>11

-----------------------------------------------------------------------------
(* The operations of the abstract store, one session at a time. *)

\* Between the maps m and n only the session of i changes; it becomes x.
Becomes(m, n, i, x) ==
    /\ m = [j \in Id |-> m[j]] /\ n = [j \in Id |-> n[j]]
    /\ \A j \in Id \ {i} : n[j] = m[j]
    /\ n[i] = x

LEMMA BecomesIsExcept ==
    ASSUME NEW m, NEW n, NEW i \in Id, NEW x, Becomes(m, n, i, x)
    PROVE  n = [m EXCEPT ![i] = x]
  BY DEF Becomes

Joins(S, V, E, I, i, row, V2) ==
    /\ Together(S, V, E, I) /\ i \in Id \ I
    /\ row \in SessionRow /\ row.id = i /\ row.status = "created"
    /\ ValueKeys(V2) /\ StatusRow(row) \in V2
    /\ \A v \in V2 : v.id = i \/ v \in V
    /\ V \subseteq V2

LEMMA NewSession ==
    ASSUME NEW S, NEW V, NEW E, NEW I, NEW i, NEW row, NEW V2, Joins(S, V, E, I, i, row, V2)
    PROVE  /\ Together(S \union {row}, V2, E, I \union {i})
           /\ Becomes(ViewOf(S, V, E, I), ViewOf(S \union {row}, V2, E, I \union {i}), i,
                      Rec("created", HasIn(V2, i, "result"), OrIn(V2, i, "failure_code", "none"),
                          OrIn(V2, i, "parent", None), << >>))
           /\ ViewOf(S, V, E, I)[i] = Blank("unused")
  <1> DEFINE S2 == S \union {row}
  <1> USE DEF Joins
  <1>1. i \notin Ids(S) /\ Ids(S2) = Ids(S) \union {i}
    BY DEF Together, Ids
  <1>2. SessionKeys(S2)
    BY <1>1 DEF Together, SessionKeys, Ids
  <1>4. \A r \in S2 : StatusRow(r) \in V2
    BY DEF Together
  <1>5. (\A v \in V2 : v.id \in Ids(S2)) /\ (\A e \in E : e.id \in Ids(S2))
    BY <1>1 DEF Together
  <1> HIDE DEF S2
  <1>6. Together(S2, V2, E, I \union {i})
    BY <1>1, <1>2, <1>4, <1>5 DEF Together
  <1>7. ASSUME NEW j \in Id \ {i}
        PROVE  ViewAt(S2, V2, E, I \union {i}, j) = ViewAt(S, V, E, I, j)
    <2>1. Mine(V2, j) = Mine(V, j)
      BY DEF Mine
    <2>2. (j \in Ids(S2) <=> j \in Ids(S)) /\ (j \in I \union {i} <=> j \in I)
      BY <1>1
    <2> QED
      BY <2>1, <2>2, SameRowsSameView
  <1>8. Mine(E, i) = {}
    BY <1>1 DEF Together, Mine
  <1>9. LogOf(E, i) = << >>
    BY <1>8, NoEvents
  <1>10. row \in S2
    BY DEF S2
  <1>11. ViewAt(S2, V2, E, I \union {i}, i)
           = Rec("created", HasIn(V2, i, "result"), OrIn(V2, i, "failure_code", "none"),
                 OrIn(V2, i, "parent", None), LogOf(E, i))
    BY <1>6, <1>10, ViewOfPresent
  <1>12. ViewAt(S, V, E, I, i) = Blank("unused")
    BY <1>1 DEF ViewAt
  <1> DEFINE m == ViewOf(S, V, E, I)
             n == ViewOf(S2, V2, E, I \union {i})
  <1>13. \A j \in Id : m[j] = ViewAt(S, V, E, I, j) /\ n[j] = ViewAt(S2, V2, E, I \union {i}, j)
    BY DEF ViewOf
  <1>14. m = [j \in Id |-> m[j]] /\ n = [j \in Id |-> n[j]]
    BY DEF ViewOf
  <1> HIDE DEF m, n
  <1>15. n[i] = Rec("created", HasIn(V2, i, "result"), OrIn(V2, i, "failure_code", "none"),
                    OrIn(V2, i, "parent", None), << >>)
    BY <1>9, <1>11, <1>13
  <1>16. Becomes(m, n, i, Rec("created", HasIn(V2, i, "result"),
                              OrIn(V2, i, "failure_code", "none"),
                              OrIn(V2, i, "parent", None), << >>))
    <2>1. ASSUME NEW j \in Id \ {i} PROVE n[j] = m[j]
      <3>1. j \in Id /\ ViewAt(S2, V2, E, I \union {i}, j) = ViewAt(S, V, E, I, j)
        BY <1>7
      <3>2. m[j] = ViewAt(S, V, E, I, j) /\ n[j] = ViewAt(S2, V2, E, I \union {i}, j)
        BY <1>13, <3>1, Zenon
      <3> QED
        BY <3>1, <3>2, Zenon
    <2> QED
      BY <1>14, <1>15, <2>1, Zenon DEF Becomes
  <1> QED
    BY <1>6, <1>12, <1>13, <1>16 DEF S2, m, n

\* One field of a session changes.
WithStatus(r, x) == [r EXCEPT !.status = x]
WithResult(r, x) == [r EXCEPT !.result = x]
WithCode(r, x)   == [r EXCEPT !.code = x]
WithParent(r, x) == [r EXCEPT !.parent = x]
WithLog(r, x)    == [r EXCEPT !.log = x]

LEMMA FieldChanges ==
    ASSUME NEW a, NEW b, NEW c, NEW d, NEW l, NEW x
    PROVE  /\ WithStatus(Rec(a, b, c, d, l), x) = Rec(x, b, c, d, l)
           /\ WithResult(Rec(a, b, c, d, l), x) = Rec(a, x, c, d, l)
           /\ WithCode(Rec(a, b, c, d, l), x) = Rec(a, b, x, d, l)
           /\ WithParent(Rec(a, b, c, d, l), x) = Rec(a, b, c, x, l)
           /\ WithLog(Rec(a, b, c, d, l), x) = Rec(a, b, c, d, x)
  <1>1. WithStatus(Rec(a, b, c, d, l), x) = Rec(x, b, c, d, l)
    BY SMT DEF Rec, WithStatus
  <1>2. WithResult(Rec(a, b, c, d, l), x) = Rec(a, x, c, d, l)
    BY SMT DEF Rec, WithResult
  <1>3. WithCode(Rec(a, b, c, d, l), x) = Rec(a, b, x, d, l)
    BY SMT DEF Rec, WithCode
  <1>4. WithParent(Rec(a, b, c, d, l), x) = Rec(a, b, c, x, l)
    BY SMT DEF Rec, WithParent
  <1>5. WithLog(Rec(a, b, c, d, l), x) = Rec(a, b, c, d, x)
    BY SMT DEF Rec, WithLog
  <1> QED
    BY <1>1, <1>2, <1>3, <1>4, <1>5, Zenon

LEMMA SetStatusIs ==
    ASSUME NEW m, NEW n, NEW i \in Id, NEW a, NEW b, NEW c, NEW d, NEW l, NEW s,
           m[i] = Rec(a, b, c, d, l), Becomes(m, n, i, Rec(s, b, c, d, l))
    PROVE  n = Abstract!SetStatus(m, i, s)
  <1>1. Abstract!SetStatus(m, i, s) = [m EXCEPT ![i] = WithStatus(m[i], s)]
    BY Zenon DEF Abstract!SetStatus, Becomes, WithStatus
  <1>2. WithStatus(m[i], s) = Rec(s, b, c, d, l)
    BY FieldChanges
  <1>3. n = [m EXCEPT ![i] = Rec(s, b, c, d, l)]
    BY BecomesIsExcept
  <1> QED
    BY <1>1, <1>2, <1>3, Zenon

LEMMA CompleteIs ==
    ASSUME NEW m, NEW n, NEW i \in Id, NEW a, NEW b, NEW c, NEW d, NEW l,
           m[i] = Rec(a, b, c, d, l), Becomes(m, n, i, Rec("complete", TRUE, c, d, l))
    PROVE  n = Abstract!Complete(m, i)
  <1>1. Abstract!Complete(m, i) = [m EXCEPT ![i] = WithResult(WithStatus(m[i], "complete"), TRUE)]
    BY Zenon DEF Abstract!Complete, Becomes, WithStatus, WithResult
  <1>2. WithResult(WithStatus(m[i], "complete"), TRUE) = Rec("complete", TRUE, c, d, l)
    <2>1. PICK yes : yes = TRUE
      BY Zenon
    <2>2. WithStatus(m[i], "complete") = Rec("complete", b, c, d, l)
      BY FieldChanges
    <2>3. WithResult(Rec("complete", b, c, d, l), yes) = Rec("complete", yes, c, d, l)
      BY FieldChanges
    <2> QED
      BY <2>1, <2>2, <2>3, Zenon
  <1>3. n = [m EXCEPT ![i] = Rec("complete", TRUE, c, d, l)]
    BY BecomesIsExcept
  <1> QED
    BY <1>1, <1>2, <1>3, Zenon

LEMMA FailIs ==
    ASSUME NEW m, NEW n, NEW i \in Id, NEW a, NEW b, NEW c, NEW d, NEW l, NEW k,
           m[i] = Rec(a, b, c, d, l), Becomes(m, n, i, Rec("failed", b, k, d, l))
    PROVE  n = Abstract!Fail(m, i, k)
  <1>1. Abstract!Fail(m, i, k) = [m EXCEPT ![i] = WithCode(WithStatus(m[i], "failed"), k)]
    BY Zenon DEF Abstract!Fail, Becomes, WithStatus, WithCode
  <1>2. WithCode(WithStatus(m[i], "failed"), k) = Rec("failed", b, k, d, l)
    BY FieldChanges
  <1>3. n = [m EXCEPT ![i] = Rec("failed", b, k, d, l)]
    BY BecomesIsExcept
  <1> QED
    BY <1>1, <1>2, <1>3, Zenon

LEMMA RemoveResultIs ==
    ASSUME NEW m, NEW n, NEW i \in Id, NEW a, NEW b, NEW c, NEW d, NEW l,
           m[i] = Rec(a, b, c, d, l), Becomes(m, n, i, Rec(a, FALSE, c, d, l))
    PROVE  n = Abstract!RemoveResult(m, i)
  <1>1. Abstract!RemoveResult(m, i) = [m EXCEPT ![i] = WithResult(m[i], FALSE)]
    BY Zenon DEF Abstract!RemoveResult, Becomes, WithResult
  <1>2. WithResult(m[i], FALSE) = Rec(a, FALSE, c, d, l)
    <2>1. PICK no : no = FALSE
      BY Zenon
    <2>2. WithResult(m[i], no) = Rec(a, no, c, d, l)
      BY FieldChanges
    <2> QED
      BY <2>1, <2>2, Zenon
  <1>3. n = [m EXCEPT ![i] = Rec(a, FALSE, c, d, l)]
    BY BecomesIsExcept
  <1> QED
    BY <1>1, <1>2, <1>3, Zenon

LEMMA EmitIs ==
    ASSUME NEW m, NEW n, NEW i \in Id, NEW a, NEW b, NEW c, NEW d, NEW l, NEW k,
           m[i] = Rec(a, b, c, d, l),
           Becomes(m, n, i, Rec(a, b, c, d, Append(l, [kind |-> k, attempt |-> 0])))
    PROVE  n = Abstract!Emit(m, i, k, 0)
  <1> DEFINE l2 == Append(l, [kind |-> k, attempt |-> 0])
  <1>1. m[i].log = l
    BY SMT DEF Rec
  <1>2. Abstract!Emit(m, i, k, 0) = [m EXCEPT ![i] = WithLog(m[i], l2)]
    BY <1>1, Zenon DEF Abstract!Emit, Becomes, WithLog
  <1>3. n = [m EXCEPT ![i] = Rec(a, b, c, d, l2)]
    BY BecomesIsExcept
  <1> HIDE DEF l2
  <1>4. WithLog(m[i], l2) = Rec(a, b, c, d, l2)
    BY FieldChanges
  <1> QED
    BY <1>2, <1>3, <1>4, Zenon

LEMMA ResetIs ==
    ASSUME NEW m, NEW n, NEW i \in Id, NEW a, NEW b, NEW c, NEW d, NEW l,
           m[i] = Rec(a, b, c, d, l),
           Becomes(m, n, i, Rec("created", FALSE, "none", d,
                                << [kind |-> "run_started", attempt |-> 0] >>))
    PROVE  n = Abstract!ResetResearch(m, i, 0)
  <1> DEFINE l2 == << [kind |-> "run_started", attempt |-> 0] >>
             r  == WithLog(WithCode(WithResult(WithStatus(m[i], "created"), FALSE), "none"), l2)
  <1>1. Abstract!ResetResearch(m, i, 0) = [m EXCEPT ![i] = r]
    BY Zenon DEF Abstract!ResetResearch, Becomes, WithLog, WithCode, WithResult, WithStatus
  <1>2. n = [m EXCEPT ![i] = Rec("created", FALSE, "none", d, l2)]
    BY BecomesIsExcept
  <1> HIDE DEF l2
  <1>3. r = Rec("created", FALSE, "none", d, l2)
    <2>1. PICK no : no = FALSE
      BY Zenon
    <2>2. WithStatus(m[i], "created") = Rec("created", b, c, d, l)
      BY FieldChanges
    <2>3. WithResult(Rec("created", b, c, d, l), no) = Rec("created", no, c, d, l)
      BY FieldChanges
    <2>4. WithCode(Rec("created", no, c, d, l), "none") = Rec("created", no, "none", d, l)
      BY FieldChanges
    <2>5. WithLog(Rec("created", no, "none", d, l), l2) = Rec("created", no, "none", d, l2)
      BY FieldChanges
    <2> QED
      BY <2>1, <2>2, <2>3, <2>4, <2>5, Zenon
  <1> QED
    BY <1>1, <1>2, <1>3, Zenon

LEMMA CreateIs ==
    ASSUME NEW m, NEW n, NEW i \in Id, NEW p, NEW c,
           Becomes(m, n, i, Rec("created", FALSE, c, p, << >>))
    PROVE  n = Abstract!Create(m, i, p, c)
  <1> DEFINE r == WithParent(WithCode(Abstract!Blank("created"), c), p)
  <1>1. Abstract!Create(m, i, p, c) = [m EXCEPT ![i] = r]
    BY Zenon DEF Abstract!Create, WithCode, WithParent
  <1>2. Abstract!Blank("created") = Rec("created", FALSE, "none", None, << >>)
    BY Zenon DEF Abstract!Blank, Rec
  <1>3. r = Rec("created", FALSE, c, p, << >>)
    <2>1. PICK no : no = FALSE
      BY Zenon
    <2>2. WithCode(Rec("created", no, "none", None, << >>), c) = Rec("created", no, c, None, << >>)
      BY FieldChanges
    <2>3. WithParent(Rec("created", no, c, None, << >>), p) = Rec("created", no, c, p, << >>)
      BY FieldChanges
    <2> QED
      BY <1>2, <2>1, <2>2, <2>3, Zenon
  <1>4. n = [m EXCEPT ![i] = Rec("created", FALSE, c, p, << >>)]
    BY BecomesIsExcept
  <1> QED
    BY <1>1, <1>3, <1>4, Zenon

-----------------------------------------------------------------------------
(* What the statements on the values do to what a query finds. *)

LEMMA UpsertFields ==
    ASSUME NEW V, ValueKeys(V), NEW i, NEW n, NEW x,
           [id |-> i, name |-> n, value |-> x] \in ValueRow
    PROVE  /\ HasIn(Upsert(V, i, n, x), i, n)
           /\ \A d : OrIn(Upsert(V, i, n, x), i, n, d) = x
           /\ \A k : k # n => /\ HasIn(Upsert(V, i, n, x), i, k) <=> HasIn(V, i, k)
                              /\ \A d : OrIn(Upsert(V, i, n, x), i, k, d) = OrIn(V, i, k, d)
  <1> DEFINE row == [id |-> i, name |-> n, value |-> x]
             U   == Upsert(V, i, n, x)
  <1>1. /\ ValueKeys(U) /\ row \in U
        /\ \A v \in V : ~(v.id = i /\ v.name = n) => v \in U
        /\ \A v \in U : (v.id = i /\ v.name = n) \/ v \in V
    BY UpsertKeys
  <1>2. row.id = i /\ row.name = n /\ row.value = x
    OBVIOUS
  <1> HIDE DEF row, U
  <1>3. HasIn(U, i, n) /\ \A d : OrIn(U, i, n, d) = x
    BY <1>1, <1>2, RowIsFound
  <1>4. ASSUME NEW k, k # n
        PROVE  (HasIn(U, i, k) <=> HasIn(V, i, k)) /\ \A d : OrIn(U, i, k, d) = OrIn(V, i, k, d)
    <2>1. \A v \in V : v.id = i /\ v.name = k => v \in U
      BY <1>1, <1>4
    <2>2. \A v \in U : v.id = i /\ v.name = k => v \in V
      BY <1>1, <1>4
    <2> QED
      BY <1>1, <2>1, <2>2, SameRowsSameValues
  <1> QED
    BY <1>3, <1>4 DEF U

LEMMA DeleteFields ==
    ASSUME NEW V, ValueKeys(V), NEW i, NEW names, NEW W \in SUBSET V,
           \A v \in V : v \in W <=> ~(v.id = i /\ v.name \in names)
    PROVE  /\ ValueKeys(W)
           /\ \A n \in names : ~HasIn(W, i, n) /\ \A d : OrIn(W, i, n, d) = d
           /\ \A n : n \notin names => /\ HasIn(W, i, n) <=> HasIn(V, i, n)
                                       /\ \A d : OrIn(W, i, n, d) = OrIn(V, i, n, d)
  <1>1. W \subseteq V /\ ValueKeys(W)
    BY FewerRows
  <1>2. \A n \in names : ~HasIn(W, i, n)
    BY DEF HasIn
  <1>3. \A n \in names : \A d : OrIn(W, i, n, d) = d
    BY <1>2 DEF OrIn
  <1>4. ASSUME NEW n, n \notin names
        PROVE  (HasIn(W, i, n) <=> HasIn(V, i, n)) /\ \A d : OrIn(W, i, n, d) = OrIn(V, i, n, d)
    <2>1. \A v \in V : v.id = i /\ v.name = n => v \in W
      BY <1>4
    <2>2. \A v \in W : v.id = i /\ v.name = n => v \in V
      BY <1>1
    <2> QED
      BY <1>1, <2>1, <2>2, SameRowsSameValues
  <1> QED
    BY <1>1, <1>2, <1>3, <1>4

-----------------------------------------------------------------------------
(* A method: the purge, then the operation. *)

LEMMA PurgeThen ==
    ASSUME NEW S, NEW V, NEW E, NEW I, Together(S, V, E, I), NEW gone, NEW p, NEW n,
           p = ViewOf(Kept(S, gone), Kept(V, gone), Kept(E, gone), I),
           n = p \/ \E i \in Id : Abstract!StoreOperation(p, i, n),
           \A j \in Ids(S) \intersect gone : n[j] = p[j]
    PROVE  Abstract!StoreStep(ViewOf(S, V, E, I), n)
  <1> DEFINE m == ViewOf(S, V, E, I)
             D == Ids(S) \intersect gone
  <1>1. \A i \in Id : p[i] = IF i \in D THEN Blank("gone") ELSE m[i]
    BY PurgeLemma DEF ViewOf
  <1>2. p = [i \in Id |-> IF i \in D THEN Blank("gone") ELSE m[i]]
    BY <1>1 DEF ViewOf
  <1>3. Blank("gone") = Abstract!Gone
    BY BlankFields DEF Abstract!Gone
  <1>4. Abstract!Live(m) = Ids(S)
    BY LiveMeansPresent
  <1>5. Ids(S) \subseteq Id
    BY <1>4 DEF Abstract!Live
  <1> HIDE DEF m
  <1>6. p = Abstract!Purge(m, D)
    BY <1>2, <1>3, Zenon DEF Abstract!Purge
  <1>7. D \in SUBSET {i \in Abstract!Live(m) : n[i] = Abstract!Gone}
    BY <1>1, <1>3, <1>4, <1>5
  <1> HIDE DEF D
  <1>8. \E T \in SUBSET {i \in Abstract!Live(m) : n[i] = Abstract!Gone} :
          \E q \in {Abstract!Purge(m, T)} : n = q \/ \E i \in Id : Abstract!StoreOperation(q, i, n)
    BY <1>6, <1>7
  <1>9. Abstract!StoreStep(m, n)
    BY <1>8 DEF Abstract!StoreStep
  <1> QED
    BY <1>9 DEF m

\* The tables and the map after the purge with which a method begins.
PurgedView(now) ==
    ViewOf(Kept(sessions, Expired(now)), Kept(values, Expired(now)), Kept(events, Expired(now)),
           issued)

LEMMA PurgeFacts ==
    ASSUME TablesInv, NEW now \in Readings
    PROVE  /\ now \in Nat /\ now <= clock
           /\ Together(Kept(sessions, Expired(now)), Kept(values, Expired(now)),
                       Kept(events, Expired(now)), issued)
           /\ Ids(Kept(sessions, Expired(now))) = Ids(sessions) \ Expired(now)
           /\ \A r \in Kept(sessions, Expired(now)) :
                 r \in sessions /\ r.updated <= clock /\ r.id \in Id /\ r.id \notin Expired(now)
                 /\ r.expires \in Nat
           /\ \A i \in Id : Required(i, now) => i \in Ids(Kept(sessions, Expired(now)))
  <1>1. now \in Nat /\ now <= clock
    BY DEF Readings, TablesInv
  <1>2. Together(sessions, values, events, issued)
    BY DEF TablesInv
  <1>3. Ids(Kept(sessions, Expired(now))) = Ids(sessions) \ Expired(now)
    BY <1>2, PurgeLemma
  <1>4. Together(Kept(sessions, Expired(now)), Kept(values, Expired(now)),
                 Kept(events, Expired(now)), issued)
    BY <1>2, PurgeLemma
  <1>5. \A r \in Kept(sessions, Expired(now)) :
          r \in sessions /\ r.updated <= clock /\ r.id \in Id /\ r.id \notin Expired(now)
          /\ r.expires \in Nat
    BY <1>2 DEF Kept, TablesInv, Together, SessionKeys, SessionRow
  <1>6. ASSUME NEW i \in Id, Required(i, now) PROVE i \in Ids(Kept(sessions, Expired(now)))
    <2>1. PICK r \in sessions : r.id = i /\ r.expires > now
      BY <1>6 DEF Required
    <2>2. \A s \in sessions : s.id = i => s = r
      BY <1>2, <2>1 DEF Together, SessionKeys
    <2>3. r.expires \in Nat
      BY <1>2 DEF Together, SessionKeys, SessionRow
    <2>4. i \notin Expired(now)
      BY <1>1, <2>1, <2>2, <2>3 DEF Expired
    <2> QED
      BY <1>3, <2>1, <2>4 DEF Ids
  <1> QED
    BY <1>1, <1>3, <1>4, <1>5, <1>6

\* A method that rewrites the row of one session, its values and its events.
LEMMA MethodOnOne ==
    ASSUME TablesInv, NEW now \in Readings, NEW i \in Ids(Kept(sessions, Expired(now))),
           NEW status \in RowStatus, UNCHANGED <<clock, issued>>,
           SessionKeys(sessions'), Ids(sessions') = Ids(Kept(sessions, Expired(now))),
           \A r \in sessions' : \/ r.id = i /\ r.status = status /\ r.updated <= clock
                                \/ r.id # i /\ r \in Kept(sessions, Expired(now)),
           ValueKeys(values'), [id |-> i, name |-> "status", value |-> status] \in values',
           \A v \in values' : v.id = i \/ v \in Kept(values, Expired(now)),
           \A v \in Kept(values, Expired(now)) : v.id # i => v \in values',
           EventKeys(events'), Numbered(events', i),
           \A j : j # i => Mine(events', j) = Mine(Kept(events, Expired(now)), j)
    PROVE  /\ TablesInv'
           /\ Becomes(PurgedView(now), AbstractSession', i,
                      Rec(status, HasIn(values', i, "result"),
                          OrIn(values', i, "failure_code", "none"),
                          OrIn(values', i, "parent", None), LogOf(events', i)))
           /\ Abstract!StoreOperation(PurgedView(now), i, AbstractSession')
                => Abstract!StoreStep(AbstractSession, AbstractSession')
  <1> DEFINE G == Expired(now)
             S == Kept(sessions, G)
             V == Kept(values, G)
             E == Kept(events, G)
             p == ViewOf(S, V, E, issued)
             n == ViewOf(sessions', values', events', issued')
  <1>1. /\ Together(S, V, E, issued) /\ Ids(S) = Ids(sessions) \ G
        /\ \A r \in S : r.updated <= clock
    BY PurgeFacts
  <1>2. /\ Together(sessions', values', events', issued)
        /\ \A j \in Id \ {i} : ViewAt(sessions', values', events', issued, j)
                               = ViewAt(S, V, E, issued, j)
        /\ ViewAt(sessions', values', events', issued, i)
             = Rec(status, HasIn(values', i, "result"), OrIn(values', i, "failure_code", "none"),
                   OrIn(values', i, "parent", None), LogOf(events', i))
    <2> DEFINE S2 == sessions'
               V2 == values'
               E2 == events'
    <2>1. /\ SessionKeys(S2) /\ Ids(S2) = Ids(S) /\ i \in Ids(S)
          /\ \A r \in S2 : (r.id = i /\ r.status = status) \/ (r.id # i /\ r \in S)
      OBVIOUS
    <2>2. /\ ValueKeys(V2) /\ [id |-> i, name |-> "status", value |-> status] \in V2
          /\ \A v \in V2 : v.id = i \/ v \in V
          /\ \A v \in V : v.id # i => v \in V2
      OBVIOUS
    <2>3. EventKeys(E2) /\ Numbered(E2, i) /\ \A j : j # i => Mine(E2, j) = Mine(E, j)
      OBVIOUS
    <2>4. Together(S, V, E, issued)
      BY <1>1
    <2> HIDE DEF S, V, E, S2, V2, E2
    <2>5. /\ Together(S2, V2, E2, issued)
          /\ \A j \in Id \ {i} : ViewAt(S2, V2, E2, issued, j) = ViewAt(S, V, E, issued, j)
          /\ ViewAt(S2, V2, E2, issued, i)
               = Rec(status, HasIn(V2, i, "result"), OrIn(V2, i, "failure_code", "none"),
                     OrIn(V2, i, "parent", None), LogOf(E2, i))
      BY <2>1, <2>2, <2>3, <2>4, OperationOnOne
    <2> QED
      BY <2>5 DEF S2, V2, E2
  <1>3. issued' = issued /\ clock' = clock
    OBVIOUS
  <1>4. \A r \in sessions' : r.updated <= clock
    BY <1>1
  <1>5. TablesInv'
    <2>1. Together(sessions', values', events', issued')
      BY <1>2, <1>3
    <2> QED
      BY <1>3, <1>4, <2>1 DEF TablesInv
  <1>6. i \in Id
    BY <1>1 DEF Together, SessionKeys, SessionRow, Ids
  <1>7. AbstractSession' = n /\ AbstractSession = ViewOf(sessions, values, events, issued)
        /\ PurgedView(now) = p
    BY AbstractIsView DEF PurgedView
  <1>8. Becomes(p, n, i, Rec(status, HasIn(values', i, "result"),
                             OrIn(values', i, "failure_code", "none"),
                             OrIn(values', i, "parent", None), LogOf(events', i)))
    BY <1>2, <1>3, <1>6 DEF Becomes, ViewOf
  <1>9. \A j \in Ids(sessions) \intersect G : n[j] = p[j]
    <2>1. Ids(sessions) \subseteq Id
      BY DEF TablesInv, Together, SessionKeys, SessionRow, Ids
    <2>2. i \notin G
      BY <1>1
    <2> HIDE DEF n, p, G
    <2> QED
      BY <1>8, <2>1, <2>2 DEF Becomes
  <1>10. ASSUME Abstract!StoreOperation(p, i, n)
         PROVE  Abstract!StoreStep(ViewOf(sessions, values, events, issued), n)
    <2>1. Together(sessions, values, events, issued)
      BY DEF TablesInv
    <2>2. n = p \/ \E j \in Id : Abstract!StoreOperation(p, j, n)
      BY <1>6, <1>10
    <2>3. p = ViewOf(Kept(sessions, G), Kept(values, G), Kept(events, G), issued)
      OBVIOUS
    <2> HIDE DEF n, p, G
    <2> QED
      BY <1>9, <2>1, <2>2, <2>3, PurgeThen
  <1> QED
    <2> HIDE DEF n, p
    <2> QED
      BY <1>5, <1>7, <1>8, <1>10

\* The session a method works on, as the purged map has it.
LEMMA SessionBefore ==
    ASSUME TablesInv, NEW now \in Readings, NEW r \in Kept(sessions, Expired(now))
    PROVE  /\ r.id \in Id /\ r.status \in RowStatus /\ r.id \in Ids(Kept(sessions, Expired(now)))
           /\ r.id \in Abstract!Live(PurgedView(now))
           /\ StatusRow(r) \in Kept(values, Expired(now))
           /\ HasIn(Kept(values, Expired(now)), r.id, "status")
           /\ PurgedView(now)[r.id]
                = Rec(r.status, HasIn(Kept(values, Expired(now)), r.id, "result"),
                      OrIn(Kept(values, Expired(now)), r.id, "failure_code", "none"),
                      OrIn(Kept(values, Expired(now)), r.id, "parent", None),
                      LogOf(Kept(events, Expired(now)), r.id))
  <1> DEFINE G == Expired(now)
             S == Kept(sessions, G)
             V == Kept(values, G)
             E == Kept(events, G)
  <1>1. Together(S, V, E, issued)
    BY PurgeFacts
  <1> HIDE DEF S, V, E
  <1>2. r \in S
    BY DEF S
  <1>3. /\ HasIn(V, r.id, "status") /\ r.id \in Ids(S) /\ r.id \in Id /\ r.status \in RowStatus
        /\ ViewAt(S, V, E, issued, r.id) = RowOf(V, E, r.id)
        /\ RowOf(V, E, r.id) = Rec(r.status, HasIn(V, r.id, "result"),
                                   OrIn(V, r.id, "failure_code", "none"),
                                   OrIn(V, r.id, "parent", None), LogOf(E, r.id))
    BY <1>1, <1>2, ViewOfPresent
  <1>4. Abstract!Live(ViewOf(S, V, E, issued)) = Ids(S)
    BY <1>1, LiveMeansPresent
  <1>5. StatusRow(r) \in V
    BY <1>1, <1>2 DEF Together
  <1>6. ViewOf(S, V, E, issued)[r.id] = ViewAt(S, V, E, issued, r.id)
    BY <1>3 DEF ViewOf
  <1>7. PurgedView(now) = ViewOf(S, V, E, issued)
    BY DEF PurgedView, S, V, E
  <1> QED
    BY <1>3, <1>4, <1>5, <1>6, <1>7 DEF S, V, E

\* The events as the purge leaves them.
LEMMA EventsBefore ==
    ASSUME TablesInv, NEW now \in Readings, NEW i \in Id
    PROVE  /\ EventKeys(Kept(events, Expired(now))) /\ Numbered(Kept(events, Expired(now)), i)
           /\ ValueKeys(Kept(values, Expired(now))) /\ SessionKeys(Kept(sessions, Expired(now)))
           /\ LogOf(Kept(events, Expired(now)), i) \in Seq(Abstract!Event)
  <1>1. /\ EventKeys(Kept(events, Expired(now))) /\ Numbered(Kept(events, Expired(now)), i)
        /\ ValueKeys(Kept(values, Expired(now))) /\ SessionKeys(Kept(sessions, Expired(now)))
    BY PurgeFacts DEF Together
  <1> QED
    BY <1>1, LogIsSequence

-----------------------------------------------------------------------------
(* The methods. *)

\* The invariant holds again, and the step is one of the abstract store.
StepIsFine == TablesInv' /\ Abstract!StoreStep(AbstractSession, AbstractSession')

LEMMA UpdateTables ==
    ASSUME TablesInv, NEW now \in Readings, NEW i \in Id, NEW status \in RowStatus,
           NEW result \in BOOLEAN, NEW code \in {"none", "retryable"},
           Update(now, i, status, result, code),
           NEW V, V = Kept(values, Expired(now))
    PROVE  /\ ValueKeys(values') /\ [id |-> i, name |-> "status", value |-> status] \in values'
           /\ \A v \in values' : v.id = i \/ v \in V
           /\ \A v \in V : v.id # i => v \in values'
           /\ HasIn(values', i, "result") <=> result \/ HasIn(V, i, "result")
           /\ OrIn(values', i, "failure_code", "none")
                = IF code = "none" THEN OrIn(V, i, "failure_code", "none") ELSE code
           /\ OrIn(values', i, "parent", None) = OrIn(V, i, "parent", None)
  <1> DEFINE row == [id |-> i, name |-> "status", value |-> status]
             v1 == Upsert(V, i, "status", status)
             v2 == IF result THEN Upsert(v1, i, "result", "stored") ELSE v1
  <1>1. ValueKeys(V)
    BY EventsBefore
  <1>2. values' = IF code = "none" THEN v2 ELSE Upsert(v2, i, "failure_code", code)
    BY DEF Update
  <1>3. /\ row \in ValueRow /\ row.id = i /\ row.name = "status"
        /\ [id |-> i, name |-> "result", value |-> "stored"] \in ValueRow
        /\ [id |-> i, name |-> "failure_code", value |-> "retryable"] \in ValueRow
    BY DEF ValueRow
  <1>4. /\ ValueKeys(v1) /\ row \in v1
        /\ \A v \in v1 : v.id = i \/ v \in V
        /\ \A v \in V : v.id # i => v \in v1
        /\ HasIn(v1, i, "result") <=> HasIn(V, i, "result")
        /\ OrIn(v1, i, "failure_code", "none") = OrIn(V, i, "failure_code", "none")
        /\ OrIn(v1, i, "parent", None) = OrIn(V, i, "parent", None)
    <2>1. /\ ValueKeys(v1) /\ row \in v1
          /\ \A v \in v1 : v.id = i \/ v \in V
          /\ \A v \in V : v.id # i => v \in v1
      BY <1>1, <1>3, UpsertKeys
    <2>2. /\ HasIn(v1, i, "result") <=> HasIn(V, i, "result")
          /\ OrIn(v1, i, "failure_code", "none") = OrIn(V, i, "failure_code", "none")
          /\ OrIn(v1, i, "parent", None) = OrIn(V, i, "parent", None)
      BY <1>1, <1>3, UpsertFields
    <2> QED
      BY <2>1, <2>2
  <1> HIDE DEF row, v1
  <1>5. /\ ValueKeys(v2) /\ row \in v2
        /\ \A v \in v2 : v.id = i \/ v \in V
        /\ \A v \in V : v.id # i => v \in v2
        /\ HasIn(v2, i, "result") <=> result \/ HasIn(V, i, "result")
        /\ OrIn(v2, i, "failure_code", "none") = OrIn(V, i, "failure_code", "none")
        /\ OrIn(v2, i, "parent", None) = OrIn(V, i, "parent", None)
    <2>1. CASE ~result
      BY <1>4, <2>1
    <2>2. CASE result
      <3> DEFINE u == Upsert(v1, i, "result", "stored")
      <3>1. ValueKeys(u) /\ (\A v \in v1 : ~(v.id = i /\ v.name = "result") => v \in u)
            /\ (\A v \in u : (v.id = i /\ v.name = "result") \/ v \in v1)
        BY <1>3, <1>4, UpsertKeys
      <3>2. /\ HasIn(u, i, "result")
            /\ OrIn(u, i, "failure_code", "none") = OrIn(v1, i, "failure_code", "none")
            /\ OrIn(u, i, "parent", None) = OrIn(v1, i, "parent", None)
        BY <1>3, <1>4, UpsertFields
      <3>3. v2 = u
        BY <2>2
      <3> HIDE DEF u, v2
      <3> QED
        BY <1>3, <1>4, <2>2, <3>1, <3>2, <3>3
    <2> QED
      BY <2>1, <2>2
  <1> HIDE DEF v2
  <1>6. CASE code = "none"
    BY <1>2, <1>5, <1>6 DEF row
  <1>7. CASE code = "retryable"
    <2> DEFINE u == Upsert(v2, i, "failure_code", "retryable")
    <2>1. ValueKeys(u) /\ (\A v \in v2 : ~(v.id = i /\ v.name = "failure_code") => v \in u)
          /\ (\A v \in u : (v.id = i /\ v.name = "failure_code") \/ v \in v2)
      BY <1>3, <1>5, UpsertKeys
    <2>2. /\ HasIn(u, i, "result") <=> HasIn(v2, i, "result")
          /\ OrIn(u, i, "failure_code", "none") = "retryable"
          /\ OrIn(u, i, "parent", None) = OrIn(v2, i, "parent", None)
      BY <1>3, <1>5, UpsertFields
    <2>3. values' = u
      BY <1>2, <1>7
    <2> HIDE DEF u
    <2>4. row \in values'
      BY <1>3, <1>5, <2>1, <2>3
    <2>5. ValueKeys(values') /\ (\A v \in values' : v.id = i \/ v \in V)
          /\ (\A v \in V : v.id # i => v \in values')
      BY <1>5, <2>1, <2>3
    <2> QED
      BY <1>5, <1>7, <2>2, <2>3, <2>4, <2>5 DEF row
  <1> QED
    BY <1>6, <1>7

LEMMA UpdateMethod ==
    ASSUME TablesInv, NEW now \in Readings, NEW i \in Id, NEW status \in RowStatus,
           NEW result \in BOOLEAN, NEW code \in {"none", "retryable"},
           Update(now, i, status, result, code)
    PROVE  /\ TablesInv'
           /\ \E a \in RowStatus, b \in BOOLEAN : \E c, d, l :
                 /\ PurgedView(now)[i] = Rec(a, b, c, d, l)
                 /\ Becomes(PurgedView(now), AbstractSession', i,
                            Rec(status, result \/ b, IF code = "none" THEN c ELSE code, d, l))
                 /\ i \in Abstract!Live(PurgedView(now))
           /\ Abstract!StoreOperation(PurgedView(now), i, AbstractSession')
                => Abstract!StoreStep(AbstractSession, AbstractSession')
  <1> DEFINE G == Expired(now)
             S == Kept(sessions, G)
             V == Kept(values, G)
             E == Kept(events, G)
  <1>1. i \in Ids(S) /\ now \in Nat /\ now <= clock
    BY PurgeFacts DEF Update
  <1>2. PICK r \in S : r.id = i
    BY <1>1 DEF Ids
  <1>3. EventKeys(E) /\ Numbered(E, i) /\ ValueKeys(V) /\ SessionKeys(S)
    BY EventsBefore
  <1>4. sessions' = SetRow(S, i, now + TTL, now, status) /\ events' = E
        /\ UNCHANGED <<clock, issued>>
    BY DEF Update
  <1>5. /\ ValueKeys(values') /\ [id |-> i, name |-> "status", value |-> status] \in values'
        /\ \A v \in values' : v.id = i \/ v \in V
        /\ \A v \in V : v.id # i => v \in values'
        /\ HasIn(values', i, "result") <=> result \/ HasIn(V, i, "result")
        /\ OrIn(values', i, "failure_code", "none")
             = IF code = "none" THEN OrIn(V, i, "failure_code", "none") ELSE code
        /\ OrIn(values', i, "parent", None) = OrIn(V, i, "parent", None)
    BY UpdateTables
  <1>6. /\ r.status \in RowStatus /\ i \in Abstract!Live(PurgedView(now))
        /\ PurgedView(now)[i] = Rec(r.status, HasIn(V, i, "result"),
                                    OrIn(V, i, "failure_code", "none"),
                                    OrIn(V, i, "parent", None), LogOf(E, i))
    BY <1>2, SessionBefore
  <1>7. now + TTL \in Nat
    BY <1>1, SQLiteAssumption DEF SQLiteAssumption
  <1>8. /\ SessionKeys(sessions') /\ Ids(sessions') = Ids(S)
        /\ \A q \in sessions' : \/ q.id = i /\ q.status = status /\ q.updated <= clock
                                \/ q.id # i /\ q \in S
    <2> HIDE DEF S
    <2> QED
      BY <1>1, <1>3, <1>4, <1>7, SetRowLemma
  <1>9. /\ TablesInv'
        /\ Becomes(PurgedView(now), AbstractSession', i,
                   Rec(status, HasIn(values', i, "result"),
                       OrIn(values', i, "failure_code", "none"),
                       OrIn(values', i, "parent", None), LogOf(events', i)))
        /\ Abstract!StoreOperation(PurgedView(now), i, AbstractSession')
             => Abstract!StoreStep(AbstractSession, AbstractSession')
    BY <1>1, <1>3, <1>4, <1>5, <1>8, MethodOnOne
  <1>10. HasIn(values', i, "result") = (result \/ HasIn(V, i, "result"))
    BY <1>5 DEF HasIn
  <1>11. HasIn(V, i, "result") \in BOOLEAN
    BY DEF HasIn
  <1>12. /\ PurgedView(now)[i] = Rec(r.status, HasIn(V, i, "result"),
                                     OrIn(V, i, "failure_code", "none"),
                                     OrIn(V, i, "parent", None), LogOf(E, i))
         /\ Becomes(PurgedView(now), AbstractSession', i,
                    Rec(status, result \/ HasIn(V, i, "result"),
                        IF code = "none" THEN OrIn(V, i, "failure_code", "none") ELSE code,
                        OrIn(V, i, "parent", None), LogOf(E, i)))
    BY <1>4, <1>5, <1>6, <1>9, <1>10, Zenon
  <1> QED
    <2> HIDE DEF V, E, G, S
    <2> QED
      BY <1>6, <1>9, <1>11, <1>12, Zenon

LEMMA UpdateStep ==
    ASSUME TablesInv, NEW now \in Readings, NEW i \in Id,
           \/ \E status \in {"queued", "running"} : Update(now, i, status, FALSE, "none")
           \/ Update(now, i, "complete", TRUE, "none")
           \/ Update(now, i, "failed", FALSE, "retryable")
    PROVE  StepIsFine
  <1> DEFINE p == PurgedView(now)
             n == AbstractSession'
  <1>1. ASSUME NEW status \in {"queued", "running"}, Update(now, i, status, FALSE, "none")
        PROVE  StepIsFine
    <2>1. status \in RowStatus /\ FALSE \in BOOLEAN
      BY DEF RowStatus
    <2>2. /\ TablesInv'
          /\ \E a \in RowStatus, b \in BOOLEAN : \E c, d, l :
                /\ p[i] = Rec(a, b, c, d, l)
                /\ Becomes(p, n, i, Rec(status, FALSE \/ b, IF "none" = "none" THEN c ELSE "none", d, l))
                /\ i \in Abstract!Live(p)
          /\ Abstract!StoreOperation(p, i, n) => Abstract!StoreStep(AbstractSession, n)
      BY <1>1, <2>1, UpdateMethod
    <2> HIDE DEF p, n
    <2>0. PICK b \in BOOLEAN : \E a, c, d, l :
                /\ p[i] = Rec(a, b, c, d, l)
                /\ Becomes(p, n, i, Rec(status, FALSE \/ b, IF "none" = "none" THEN c ELSE "none", d, l))
                /\ i \in Abstract!Live(p)
      BY <2>2
    <2>3. PICK a, c, d, l :
                /\ p[i] = Rec(a, b, c, d, l)
                /\ Becomes(p, n, i, Rec(status, FALSE \/ b, IF "none" = "none" THEN c ELSE "none", d, l))
                /\ i \in Abstract!Live(p)
      BY <2>0
    <2>4. (FALSE \/ b) = b
      BY <2>0
    <2>5. Becomes(p, n, i, Rec(status, b, c, d, l))
      BY <2>3, <2>4, Zenon
    <2>6. n = Abstract!SetStatus(p, i, status)
      BY <2>3, <2>5, SetStatusIs
    <2>7. Abstract!StoreOperation(p, i, n)
      BY <2>3, <2>6, Zenon DEF Abstract!StoreOperation
    <2> QED
      BY <2>2, <2>7 DEF StepIsFine, n
  <1>2. ASSUME Update(now, i, "complete", TRUE, "none") PROVE StepIsFine
    <2>1. "complete" \in RowStatus /\ TRUE \in BOOLEAN
      BY DEF RowStatus
    <2>2. /\ TablesInv'
          /\ \E a \in RowStatus, b \in BOOLEAN : \E c, d, l :
                /\ p[i] = Rec(a, b, c, d, l)
                /\ Becomes(p, n, i, Rec("complete", TRUE \/ b, IF "none" = "none" THEN c ELSE "none", d, l))
                /\ i \in Abstract!Live(p)
          /\ Abstract!StoreOperation(p, i, n) => Abstract!StoreStep(AbstractSession, n)
      BY <1>2, <2>1, UpdateMethod
    <2> HIDE DEF p, n
    <2>0. PICK b \in BOOLEAN : \E a, c, d, l :
                /\ p[i] = Rec(a, b, c, d, l)
                /\ Becomes(p, n, i, Rec("complete", TRUE \/ b, IF "none" = "none" THEN c ELSE "none", d, l))
                /\ i \in Abstract!Live(p)
      BY <2>2
    <2>3. PICK a, c, d, l :
                /\ p[i] = Rec(a, b, c, d, l)
                /\ Becomes(p, n, i, Rec("complete", TRUE \/ b, IF "none" = "none" THEN c ELSE "none", d, l))
                /\ i \in Abstract!Live(p)
      BY <2>0
    <2>4. (TRUE \/ b) = TRUE
      OBVIOUS
    <2>5. Becomes(p, n, i, Rec("complete", TRUE, c, d, l))
      BY <2>3, <2>4, Zenon
    <2>6. n = Abstract!Complete(p, i)
      BY <2>3, <2>5, CompleteIs
    <2>7. Abstract!StoreOperation(p, i, n)
      BY <2>3, <2>6, Zenon DEF Abstract!StoreOperation
    <2> QED
      BY <2>2, <2>7 DEF StepIsFine, n
  <1>3. ASSUME Update(now, i, "failed", FALSE, "retryable") PROVE StepIsFine
    <2>1. "failed" \in RowStatus /\ FALSE \in BOOLEAN
      BY DEF RowStatus
    <2>2. /\ TablesInv'
          /\ \E a \in RowStatus, b \in BOOLEAN : \E c, d, l :
                /\ p[i] = Rec(a, b, c, d, l)
                /\ Becomes(p, n, i, Rec("failed", FALSE \/ b,
                                        IF "retryable" = "none" THEN c ELSE "retryable", d, l))
                /\ i \in Abstract!Live(p)
          /\ Abstract!StoreOperation(p, i, n) => Abstract!StoreStep(AbstractSession, n)
      BY <1>3, <2>1, UpdateMethod
    <2> HIDE DEF p, n
    <2>0. PICK b \in BOOLEAN : \E a, c, d, l :
                /\ p[i] = Rec(a, b, c, d, l)
                /\ Becomes(p, n, i, Rec("failed", FALSE \/ b,
                                        IF "retryable" = "none" THEN c ELSE "retryable", d, l))
                /\ i \in Abstract!Live(p)
      BY <2>2
    <2>3. PICK a, c, d, l :
                /\ p[i] = Rec(a, b, c, d, l)
                /\ Becomes(p, n, i, Rec("failed", FALSE \/ b,
                                        IF "retryable" = "none" THEN c ELSE "retryable", d, l))
                /\ i \in Abstract!Live(p)
      BY <2>0
    <2>4. (FALSE \/ b) = b /\ (IF "retryable" = "none" THEN c ELSE "retryable") = "retryable"
      BY <2>3
    <2>5. Becomes(p, n, i, Rec("failed", b, "retryable", d, l))
      BY <2>3, <2>4, Zenon
    <2>6. n = Abstract!Fail(p, i, "retryable") /\ "retryable" \in Abstract!Code
      BY <2>3, <2>5, FailIs DEF Abstract!Code
    <2>7. Abstract!StoreOperation(p, i, n)
      BY <2>3, <2>6, Zenon DEF Abstract!StoreOperation
    <2> QED
      BY <2>2, <2>7 DEF StepIsFine, n
  <1> QED
    BY <1>1, <1>2, <1>3

LEMMA RemoveKeysStep ==
    ASSUME TablesInv, NEW now \in Readings, NEW i \in Id, RemoveKeys(now, i)
    PROVE  StepIsFine
  <1> DEFINE G == Expired(now)
             S == Kept(sessions, G)
             V == Kept(values, G)
             E == Kept(events, G)
             p == PurgedView(now)
             n == AbstractSession'
  <1>1. i \in Ids(S) /\ now \in Nat /\ now <= clock /\ \A r \in S : r \in sessions
    BY PurgeFacts DEF RemoveKeys
  <1>2. PICK r \in S : r.id = i
    BY <1>1 DEF Ids
  <1>3. EventKeys(E) /\ Numbered(E, i) /\ ValueKeys(V) /\ SessionKeys(S)
    BY EventsBefore
  <1>4. Row(i) = r
    <2>1. r \in sessions /\ r.id = i
      BY <1>1, <1>2
    <2>2. \A s \in sessions : s.id = i => s = r
      BY <2>1 DEF TablesInv, Together, SessionKeys
    <2> HIDE DEF S
    <2> QED
      BY <2>1, <2>2 DEF Row
  <1>5. /\ sessions' = SetRow(S, i, now + TTL, now, r.status) /\ events' = E
        /\ values' = {v \in V : ~(v.id = i /\ v.name = "result")}
        /\ UNCHANGED <<clock, issued>>
    BY <1>4 DEF RemoveKeys
  <1>6. /\ r.status \in RowStatus /\ i \in Abstract!Live(p) /\ StatusRow(r) \in V
        /\ p[i] = Rec(r.status, HasIn(V, i, "result"), OrIn(V, i, "failure_code", "none"),
                      OrIn(V, i, "parent", None), LogOf(E, i))
    BY <1>2, SessionBefore
  <1>7. /\ ValueKeys(values') /\ ~HasIn(values', i, "result")
        /\ OrIn(values', i, "failure_code", "none") = OrIn(V, i, "failure_code", "none")
        /\ OrIn(values', i, "parent", None) = OrIn(V, i, "parent", None)
    <2> DEFINE names == {"result"}
               W     == values'
    <2>1. W \in SUBSET V /\ \A v \in V : v \in W <=> ~(v.id = i /\ v.name \in names)
      BY <1>5
    <2>2. "result" \in names /\ "failure_code" \notin names /\ "parent" \notin names
      OBVIOUS
    <2> HIDE DEF V, names, W
    <2>3. /\ ValueKeys(W)
          /\ \A m \in names : ~HasIn(W, i, m) /\ \A d : OrIn(W, i, m, d) = d
          /\ \A m : m \notin names => /\ HasIn(W, i, m) <=> HasIn(V, i, m)
                                      /\ \A d : OrIn(W, i, m, d) = OrIn(V, i, m, d)
      BY <1>3, <2>1, DeleteFields
    <2>4. /\ ValueKeys(W) /\ ~HasIn(W, i, "result")
          /\ OrIn(W, i, "failure_code", "none") = OrIn(V, i, "failure_code", "none")
          /\ OrIn(W, i, "parent", None) = OrIn(V, i, "parent", None)
      BY <2>2, <2>3
    <2> QED
      BY <2>4 DEF W
  <1>8. /\ \A v \in values' : v.id = i \/ v \in V
        /\ \A v \in V : v.id # i => v \in values'
        /\ [id |-> i, name |-> "status", value |-> r.status] \in values'
    <2>1. StatusRow(r) = [id |-> i, name |-> "status", value |-> r.status]
          /\ StatusRow(r).name = "status"
      BY <1>2 DEF StatusRow
    <2> HIDE DEF V
    <2> QED
      BY <1>5, <1>6, <2>1
  <1>9. now + TTL \in Nat
    BY <1>1, SQLiteAssumption DEF SQLiteAssumption
  <1>10. /\ SessionKeys(sessions') /\ Ids(sessions') = Ids(S)
         /\ \A q \in sessions' : \/ q.id = i /\ q.status = r.status /\ q.updated <= clock
                                 \/ q.id # i /\ q \in S
    <2> HIDE DEF S
    <2> QED
      BY <1>1, <1>3, <1>5, <1>6, <1>9, SetRowLemma
  <1>11. /\ TablesInv'
         /\ Becomes(p, n, i, Rec(r.status, HasIn(values', i, "result"),
                                 OrIn(values', i, "failure_code", "none"),
                                 OrIn(values', i, "parent", None), LogOf(events', i)))
         /\ Abstract!StoreOperation(p, i, n) => Abstract!StoreStep(AbstractSession, n)
    BY <1>1, <1>3, <1>5, <1>6, <1>7, <1>8, <1>10, MethodOnOne
  <1>12. HasIn(values', i, "result") = FALSE
    BY <1>7 DEF HasIn
  <1>13. Becomes(p, n, i, Rec(r.status, FALSE, OrIn(V, i, "failure_code", "none"),
                              OrIn(V, i, "parent", None), LogOf(E, i)))
    BY <1>5, <1>7, <1>11, <1>12, Zenon
  <1> HIDE DEF p, n, V, E, S
  <1>14. n = Abstract!RemoveResult(p, i)
    BY <1>6, <1>13, RemoveResultIs
  <1>15. Abstract!StoreOperation(p, i, n)
    BY <1>6, <1>14, Zenon DEF Abstract!StoreOperation
  <1> QED
    BY <1>11, <1>15 DEF StepIsFine, n

LEMMA EmitRowStep ==
    ASSUME TablesInv, NEW now \in Readings, NEW i \in Id, EmitRow(now, i, "progress")
    PROVE  StepIsFine
  <1> DEFINE G == Expired(now)
             S == Kept(sessions, G)
             V == Kept(values, G)
             E == Kept(events, G)
             p == PurgedView(now)
             n == AbstractSession'
             row == [id |-> i, sequence |-> NextIn(E, i), kind |-> "progress"]
  <1>1. i \in Ids(S) /\ i \notin G
    BY PurgeFacts DEF EmitRow
  <1>2. PICK r \in S : r.id = i
    BY <1>1 DEF Ids
  <1>3. /\ EventKeys(E) /\ Numbered(E, i) /\ ValueKeys(V) /\ SessionKeys(S)
        /\ LogOf(E, i) \in Seq(Abstract!Event)
    BY EventsBefore
  <1>4. NextSequence(i) = NextIn(E, i)
    <2>1. Mine(E, i) = {f \in events : f.id = i}
      BY <1>1 DEF Mine, Kept
    <2> QED
      BY <2>1 DEF NextSequence, NextIn
  <1>5. /\ sessions' = S /\ values' = V /\ events' = E \union {row}
        /\ UNCHANGED <<clock, issued>>
    BY <1>4 DEF EmitRow
  <1>6. /\ r.status \in RowStatus /\ i \in Abstract!Live(p) /\ StatusRow(r) \in V
        /\ p[i] = Rec(r.status, HasIn(V, i, "result"), OrIn(V, i, "failure_code", "none"),
                      OrIn(V, i, "parent", None), LogOf(E, i))
    BY <1>2, SessionBefore
  <1>7. /\ EventKeys(E \union {row}) /\ Numbered(E \union {row}, i)
        /\ LogOf(E \union {row}, i) = Append(LogOf(E, i), [kind |-> "progress", attempt |-> 0])
        /\ \A j : j # i => Mine(E \union {row}, j) = Mine(E, j)
    <2>1. "progress" \in RowKind
      BY DEF RowKind
    <2> HIDE DEF E
    <2>2. /\ EventKeys(Added(E, i, "progress")) /\ Numbered(Added(E, i, "progress"), i)
          /\ LogOf(Added(E, i, "progress"), i) = Append(LogOf(E, i), Entry("progress"))
          /\ \A j : j # i => Mine(Added(E, i, "progress"), j) = Mine(E, j)
      BY <1>3, <2>1, EventAppended
    <2> QED
      BY <2>2 DEF Added, Entry
  <1>8. \A q \in S : q.updated <= clock
    BY PurgeFacts
  <1>9. \A q \in S : (q.id = i /\ q.status = r.status /\ q.updated <= clock) \/ (q.id # i /\ q \in S)
    <2> HIDE DEF S
    <2> QED
      BY <1>2, <1>3, <1>8 DEF SessionKeys
  <1>10. [id |-> i, name |-> "status", value |-> r.status] \in V
    BY <1>2, <1>6 DEF StatusRow
  <1>11. /\ TablesInv'
         /\ Becomes(p, n, i, Rec(r.status, HasIn(values', i, "result"),
                                 OrIn(values', i, "failure_code", "none"),
                                 OrIn(values', i, "parent", None), LogOf(events', i)))
         /\ Abstract!StoreOperation(p, i, n) => Abstract!StoreStep(AbstractSession, n)
    <2>1. /\ SessionKeys(sessions') /\ Ids(sessions') = Ids(S)
          /\ \A q \in sessions' : \/ q.id = i /\ q.status = r.status /\ q.updated <= clock
                                  \/ q.id # i /\ q \in S
      BY <1>3, <1>5, <1>9
    <2>2. /\ ValueKeys(values') /\ [id |-> i, name |-> "status", value |-> r.status] \in values'
          /\ (\A v \in values' : v.id = i \/ v \in V)
          /\ (\A v \in V : v.id # i => v \in values')
      BY <1>3, <1>5, <1>10
    <2>3. /\ EventKeys(events') /\ Numbered(events', i)
          /\ \A j : j # i => Mine(events', j) = Mine(E, j)
      <3> HIDE DEF E, row
      <3> QED
        BY <1>5, <1>7
    <2> QED
      BY <1>1, <1>5, <1>6, <2>1, <2>2, <2>3, MethodOnOne
  <1>12. Becomes(p, n, i, Rec(r.status, HasIn(V, i, "result"), OrIn(V, i, "failure_code", "none"),
                              OrIn(V, i, "parent", None),
                              Append(LogOf(E, i), [kind |-> "progress", attempt |-> 0])))
    BY <1>5, <1>7, <1>11, Zenon
  <1> HIDE DEF p, n, V, E, S
  <1>13. n = Abstract!Emit(p, i, "progress", 0)
    BY <1>6, <1>12, EmitIs
  <1>14. Abstract!StoreOperation(p, i, n)
    <2>1. "progress" \in Abstract!Kind
      BY DEF Abstract!Kind
    <2> QED
      BY <1>6, <1>13, <2>1, Zenon DEF Abstract!StoreOperation
  <1> QED
    BY <1>11, <1>14 DEF StepIsFine, n

LEMMA ResetFailedStep ==
    ASSUME TablesInv, NEW now \in Readings, NEW i \in Id, ResetFailed(now, i)
    PROVE  StepIsFine
  <1> DEFINE G == Expired(now)
             S == Kept(sessions, G)
             V == Kept(values, G)
             E == Kept(events, G)
             p == PurgedView(now)
             n == AbstractSession'
             stale == {"failure_code", "result"}
             D == {v \in V : ~(v.id = i /\ v.name \in stale)}
             F == {e \in E : e.id # i}
             W == Upsert(D, i, "status", "created")
             row == [id |-> i, sequence |-> 1, kind |-> "run_started"]
             said == [kind |-> "run_started", attempt |-> 0]
  <1>1. i \in Ids(S) /\ i \notin G /\ now \in Nat /\ now <= clock /\ \A r \in S : r \in sessions
    BY PurgeFacts DEF ResetFailed
  <1>2. PICK r \in S : r.id = i
    BY <1>1 DEF Ids
  <1>3. EventKeys(E) /\ Numbered(E, i) /\ ValueKeys(V) /\ SessionKeys(S)
    BY EventsBefore
  <1>4. /\ r.status \in RowStatus /\ i \in Abstract!Live(p) /\ StatusRow(r) \in V
        /\ p[i] = Rec(r.status, HasIn(V, i, "result"), OrIn(V, i, "failure_code", "none"),
                      OrIn(V, i, "parent", None), LogOf(E, i))
    BY <1>2, SessionBefore
  <1>5. StatusRow(r).id = i /\ StatusRow(r).name = "status" /\ StatusRow(r).value = r.status
    BY <1>2 DEF StatusRow
  <1>6. ValueKeys(values) /\ StatusRow(r) \in values
    BY <1>1 DEF TablesInv, Together
  <1>7. r.status = "failed"
    <2>1. ValueOr(i, "status", "none") = OrIn(values, i, "status", "none")
      BY DEF ValueOr, OrIn, HasValue, HasIn, Value, AtIn
    <2>2. OrIn(values, i, "status", "none") = r.status
      BY <1>5, <1>6, RowIsFound
    <2> QED
      BY <2>1, <2>2 DEF ResetFailed
  <1>8. OrIn(V, i, "failure_code", "none") = "retryable"
    <2>1. ValueOr(i, "failure_code", "none") = OrIn(values, i, "failure_code", "none")
      BY DEF ValueOr, OrIn, HasValue, HasIn, Value, AtIn
    <2>2. /\ \A v \in values : v.id = i /\ v.name = "failure_code" => v \in V
          /\ \A v \in V : v.id = i /\ v.name = "failure_code" => v \in values
      BY <1>1 DEF Kept
    <2> HIDE DEF V
    <2>3. OrIn(values, i, "failure_code", "none") = OrIn(V, i, "failure_code", "none")
      BY <1>3, <1>6, <2>2, SameRowsSameValues
    <2> QED
      BY <2>1, <2>3 DEF ResetFailed
  <1>9. /\ sessions' = SetRow(S, i, now + TTL, now, "created")
        /\ values' = SetStatusValue(D, i, "created")
        /\ events' = F \union {row}
        /\ UNCHANGED <<clock, issued>>
    BY DEF ResetFailed
  <1>10. /\ ValueKeys(D) /\ StatusRow(r) \in D
         /\ ~HasIn(D, i, "result")
         /\ OrIn(D, i, "failure_code", "none") = "none"
         /\ OrIn(D, i, "parent", None) = OrIn(V, i, "parent", None)
    <2>1. D \in SUBSET V /\ \A v \in V : v \in D <=> ~(v.id = i /\ v.name \in stale)
      OBVIOUS
    <2>2. "result" \in stale /\ "failure_code" \in stale /\ "parent" \notin stale /\ "status" \notin stale
      OBVIOUS
    <2> HIDE DEF V, D, stale
    <2>3. /\ ValueKeys(D)
          /\ \A m \in stale : ~HasIn(D, i, m) /\ \A d : OrIn(D, i, m, d) = d
          /\ \A m : m \notin stale => /\ HasIn(D, i, m) <=> HasIn(V, i, m)
                                      /\ \A d : OrIn(D, i, m, d) = OrIn(V, i, m, d)
      BY <1>3, <2>1, DeleteFields
    <2>4. StatusRow(r) \in D
      BY <1>4, <1>5, <2>1, <2>2
    <2> QED
      BY <2>2, <2>3, <2>4
  <1>11. "created" \in RowStatus /\ [id |-> i, name |-> "status", value |-> "created"] \in ValueRow
    BY DEF RowStatus, ValueRow
  <1>12. values' = W
    <2>1. HasIn(D, i, "status")
      BY <1>5, <1>10 DEF HasIn
    <2> HIDE DEF D
    <2> QED
      BY <1>9, <1>10, <1>11, <2>1, UpdateIsUpsert
  <1>13. /\ ValueKeys(W) /\ [id |-> i, name |-> "status", value |-> "created"] \in W
         /\ \A v \in W : v.id = i \/ v \in V
         /\ \A v \in V : v.id # i => v \in W
    <2>1. (\A v \in D : v \in V) /\ (\A v \in V : v.id # i => v \in D)
      OBVIOUS
    <2> HIDE DEF D
    <2>2. /\ ValueKeys(W) /\ [id |-> i, name |-> "status", value |-> "created"] \in W
          /\ \A v \in D : ~(v.id = i /\ v.name = "status") => v \in W
          /\ \A v \in W : (v.id = i /\ v.name = "status") \/ v \in D
      BY <1>10, <1>11, UpsertKeys
    <2> HIDE DEF V, W
    <2> QED
      BY <2>1, <2>2
  <1>14. /\ ~HasIn(W, i, "result")
         /\ OrIn(W, i, "failure_code", "none") = "none"
         /\ OrIn(W, i, "parent", None) = OrIn(V, i, "parent", None)
    <2> HIDE DEF D, V
    <2>1. \A k : k # "status" => /\ HasIn(W, i, k) <=> HasIn(D, i, k)
                                 /\ \A d : OrIn(W, i, k, d) = OrIn(D, i, k, d)
      BY <1>10, <1>11, UpsertFields
    <2> HIDE DEF W
    <2> QED
      BY <1>10, <2>1
  <1>15. /\ EventKeys(F) /\ Mine(F, i) = {} /\ \A j : j # i => Mine(F, j) = Mine(E, j)
    BY <1>3 DEF EventKeys, Mine
  <1>17. /\ EventKeys(F \union {row}) /\ Numbered(F \union {row}, i)
         /\ LogOf(F \union {row}, i) = << said >>
         /\ \A j : j # i => Mine(F \union {row}, j) = Mine(E, j)
    <2> HIDE DEF F
    <2>1. /\ EventKeys(F \union {row}) /\ Numbered(F \union {row}, i)
          /\ LogOf(F \union {row}, i) = << said >>
          /\ \A j : j # i => Mine(F \union {row}, j) = Mine(F, j)
      <3>1. "run_started" \in RowKind
        BY DEF RowKind
      <3> QED
        BY <1>15, <3>1, FirstEvent, Zenon DEF Entry
    <2> HIDE DEF row, said
    <2> QED
      BY <1>15, <2>1
  <1>18. now + TTL \in Nat
    BY <1>1, SQLiteAssumption DEF SQLiteAssumption
  <1>19. /\ SessionKeys(sessions') /\ Ids(sessions') = Ids(S)
         /\ \A q \in sessions' : \/ q.id = i /\ q.status = "created" /\ q.updated <= clock
                                 \/ q.id # i /\ q \in S
    <2> HIDE DEF S
    <2> QED
      BY <1>1, <1>3, <1>9, <1>11, <1>18, SetRowLemma
  <1>20. /\ ValueKeys(values') /\ [id |-> i, name |-> "status", value |-> "created"] \in values'
         /\ \A v \in values' : v.id = i \/ v \in V
         /\ \A v \in V : v.id # i => v \in values'
    BY <1>12, <1>13, Zenon
  <1>21. /\ EventKeys(events') /\ Numbered(events', i)
         /\ \A j : j # i => Mine(events', j) = Mine(E, j)
    BY <1>9, <1>17, Zenon
  <1>22. /\ TablesInv'
         /\ Becomes(p, n, i, Rec("created", HasIn(values', i, "result"),
                                 OrIn(values', i, "failure_code", "none"),
                                 OrIn(values', i, "parent", None), LogOf(events', i)))
         /\ Abstract!StoreOperation(p, i, n) => Abstract!StoreStep(AbstractSession, n)
    <2> HIDE DEF W, D, F, row, stale
    <2> QED
      BY <1>1, <1>9, <1>11, <1>19, <1>20, <1>21, MethodOnOne
  <1>23. HasIn(values', i, "result") = FALSE
    BY <1>12, <1>14 DEF HasIn
  <1>24. Becomes(p, n, i, Rec("created", FALSE, "none", OrIn(V, i, "parent", None), << said >>))
    <2> HIDE DEF W, D, F, row, stale, said, p, n, V
    <2> QED
      BY <1>9, <1>12, <1>14, <1>17, <1>22, <1>23, Zenon
  <1> HIDE DEF p, n, V, E, S
  <1>25. n = Abstract!ResetResearch(p, i, 0)
    BY <1>4, <1>24, ResetIs
  <1>26. Abstract!ResearchFailed(p, i)
    BY <1>4, <1>7, <1>8 DEF Abstract!ResearchFailed, Rec
  <1>27. Abstract!StoreOperation(p, i, n)
    BY <1>4, <1>25, <1>26, Zenon DEF Abstract!StoreOperation
  <1> QED
    BY <1>22, <1>27 DEF StepIsFine, n

\* What create writes to the values of the new session.
Created(i, parent, code) ==
    {[id |-> i, name |-> "status", value |-> "created"]}
        \union (IF parent = None THEN {} ELSE {[id |-> i, name |-> "parent", value |-> parent]})
        \union (IF code = "none" THEN {} ELSE {[id |-> i, name |-> "failure_code", value |-> code]})

LEMMA CreateTables ==
    ASSUME NEW V, ValueKeys(V), NEW i \in Id, \A v \in V : v.id # i,
           NEW parent \in Id \union {None}, NEW code \in {"none", "retryable"},
           NEW W, W = V \union Created(i, parent, code)
    PROVE  /\ ValueKeys(W) /\ [id |-> i, name |-> "status", value |-> "created"] \in W
           /\ \A v \in W : v.id = i \/ v \in V
           /\ ~HasIn(W, i, "result")
           /\ OrIn(W, i, "failure_code", "none") = code
           /\ OrIn(W, i, "parent", None) = parent
  <1> DEFINE names == Created(i, parent, code)
             st == [id |-> i, name |-> "status", value |-> "created"]
             pa == [id |-> i, name |-> "parent", value |-> parent]
             co == [id |-> i, name |-> "failure_code", value |-> code]
  <1>1. /\ st.id = i /\ st.name = "status" /\ st \in ValueRow
        /\ pa.id = i /\ pa.name = "parent" /\ pa.value = parent
        /\ parent # None => pa \in ValueRow
        /\ co.id = i /\ co.name = "failure_code" /\ co.value = code
        /\ code # "none" => co \in ValueRow
    BY DEF ValueRow, RowStatus
  <1>2. names = {st} \union (IF parent = None THEN {} ELSE {pa})
                     \union (IF code = "none" THEN {} ELSE {co})
    BY DEF Created
  <1> HIDE DEF st, pa, co, names
  <1>3. \A v \in names : \/ v = st
                         \/ parent # None /\ v = pa
                         \/ code # "none" /\ v = co
    BY <1>2
  <1>4. st \in names /\ (parent # None => pa \in names) /\ (code # "none" => co \in names)
    BY <1>2
  <1>5. \A v \in W : /\ v \in ValueRow
                    /\ \/ v \in V /\ v.id # i
                       \/ v \in names /\ v.id = i
    <2>1. \A v \in names : v.id = i /\ v \in ValueRow
      BY <1>1, <1>3
    <2>2. \A v \in W : v \in V \/ v \in names
      BY DEF names
    <2>3. \A v \in V : v \in ValueRow /\ v.id # i
      BY DEF ValueKeys
    <2> HIDE DEF names
    <2> QED
      BY <2>1, <2>2, <2>3
  <1>12. names \subseteq W
    BY DEF names
  <1>6. \A v, w \in names : v.name = w.name => v = w
    BY <1>1, <1>3
  <1>7. ValueKeys(W)
    BY <1>5, <1>6 DEF ValueKeys
  <1>8. ~HasIn(W, i, "result")
    BY <1>1, <1>3, <1>5 DEF HasIn
  <1>9. OrIn(W, i, "failure_code", "none") = code
    <2>1. CASE code = "none"
      <3>1. ~HasIn(W, i, "failure_code")
        BY <1>1, <1>3, <1>5, <2>1 DEF HasIn
      <3> QED
        BY <2>1, <3>1 DEF OrIn
    <2>2. CASE code # "none"
      <3>1. co \in W
        BY <1>4, <1>12, <2>2
      <3> QED
        BY <1>1, <1>7, <3>1, RowIsFound
    <2> QED
      BY <2>1, <2>2
  <1>10. OrIn(W, i, "parent", None) = parent
    <2>1. CASE parent = None
      <3>1. ~HasIn(W, i, "parent")
        BY <1>1, <1>3, <1>5, <2>1 DEF HasIn
      <3> QED
        BY <2>1, <3>1 DEF OrIn
    <2>2. CASE parent # None
      <3>1. pa \in W
        BY <1>4, <1>12, <2>2
      <3> QED
        BY <1>1, <1>7, <3>1, RowIsFound
    <2> QED
      BY <2>1, <2>2
  <1>11. st \in W
    BY <1>4, <1>12
  <1> QED
    BY <1>5, <1>7, <1>8, <1>9, <1>10, <1>11 DEF st

LEMMA CreateRowStep ==
    ASSUME TablesInv, NEW now \in Readings, NEW i \in Id, NEW parent \in Id \union {None},
           NEW code \in {"none", "retryable"}, CreateRow(now, i, parent, code)
    PROVE  StepIsFine
  <1> DEFINE G     == Expired(now)
             S     == Kept(sessions, G)
             V     == Kept(values, G)
             E     == Kept(events, G)
             p     == ViewOf(S, V, E, issued)
             n     == ViewOf(sessions', values', events', issued')
             row   == [id |-> i, expires |-> now + TTL, updated |-> now, status |-> "created"]
             W     == V \union Created(i, parent, code)
  <1>1. /\ Together(S, V, E, issued) /\ Ids(S) = Ids(sessions) \ G /\ now \in Nat /\ now <= clock
        /\ \A r \in S : r.updated <= clock
    BY PurgeFacts
  <1>2. /\ sessions' = S \union {row} /\ values' = W /\ events' = E
        /\ issued' = issued \union {i} /\ i \in Id \ issued /\ clock' = clock
    BY DEF CreateRow, Created
  <1>3. row \in SessionRow /\ row.id = i /\ row.status = "created" /\ row.updated = now
    <2>1. now + TTL \in Nat
      BY <1>1, SQLiteAssumption DEF SQLiteAssumption
    <2> QED
      BY <1>1, <2>1 DEF SessionRow, RowStatus
  <1>4. /\ ValueKeys(W) /\ [id |-> i, name |-> "status", value |-> "created"] \in W
        /\ \A v \in W : v.id = i \/ v \in V
        /\ ~HasIn(W, i, "result")
        /\ OrIn(W, i, "failure_code", "none") = code
        /\ OrIn(W, i, "parent", None) = parent
    <2>1. ValueKeys(V) /\ \A v \in V : v.id # i
      BY <1>1, <1>2 DEF Together
    <2>2. W = V \union Created(i, parent, code)
      OBVIOUS
    <2> HIDE DEF V, W
    <2> QED
      BY <2>1, <2>2, CreateTables
  <1>5. V \subseteq W
    OBVIOUS
  <1> HIDE DEF S, V, E, W, row
  <1>6. /\ Together(S \union {row}, W, E, issued \union {i})
        /\ Becomes(p, n, i, Rec("created", HasIn(W, i, "result"),
                                OrIn(W, i, "failure_code", "none"),
                                OrIn(W, i, "parent", None), << >>))
        /\ p[i] = Blank("unused")
    <2>1. /\ Together(S, V, E, issued) /\ i \in Id \ issued
          /\ row \in SessionRow /\ row.id = i /\ row.status = "created"
          /\ ValueKeys(W) /\ StatusRow(row) \in W
          /\ \A v \in W : v.id = i \/ v \in V
      BY <1>1, <1>2, <1>3, <1>4 DEF StatusRow
    <2>2. Joins(S, V, E, issued, i, row, W)
      BY <1>5, <2>1 DEF Joins
    <2>3. n = ViewOf(S \union {row}, W, E, issued \union {i})
      BY <1>2
    <2> QED
      BY <2>2, <2>3, NewSession, Zenon
  <1>7. TablesInv'
    <2>1. Together(sessions', values', events', issued')
      BY <1>2, <1>6
    <2>2. \A r \in sessions' : r.updated <= clock
      BY <1>1, <1>2, <1>3
    <2>3. clock \in Nat
      BY DEF TablesInv
    <2> QED
      BY <1>2, <2>1, <2>2, <2>3 DEF TablesInv
  <1>8. HasIn(W, i, "result") = FALSE
    BY <1>4 DEF HasIn
  <1> HIDE DEF n, p
  <1>10. Becomes(p, n, i, Rec("created", FALSE, code, parent, << >>))
    BY <1>4, <1>6, <1>8, Zenon
  <1>11. p[i].status = "unused"
    BY <1>6, BlankFields
  <1>12. \A j \in Ids(sessions) \intersect G : n[j] = p[j]
    <2>1. Ids(sessions) \subseteq issued /\ issued \subseteq Id
      BY DEF TablesInv, Together
    <2> HIDE DEF n, p, G
    <2> QED
      BY <1>2, <1>10, <2>1 DEF Becomes
  <1>13. Abstract!StoreOperation(p, i, n)
    <2> HIDE DEF n, p
    <2>1. n = Abstract!Create(p, i, parent, code)
      BY <1>10, CreateIs
    <2>2. code \in Abstract!Code
      BY DEF Abstract!Code
    <2> QED
      BY <1>11, <2>1, <2>2, Zenon DEF Abstract!StoreOperation
  <1>14. Abstract!StoreStep(ViewOf(sessions, values, events, issued), n)
    <2>1. Together(sessions, values, events, issued)
      BY DEF TablesInv
    <2>2. n = p \/ \E j \in Id : Abstract!StoreOperation(p, j, n)
      BY <1>13
    <2>3. p = ViewOf(Kept(sessions, G), Kept(values, G), Kept(events, G), issued)
      BY DEF p, S, V, E
    <2> HIDE DEF n, p, G
    <2> QED
      BY <1>12, <2>1, <2>2, <2>3, PurgeThen
  <1>15. AbstractSession' = n /\ AbstractSession = ViewOf(sessions, values, events, issued)
    BY AbstractIsView DEF n
  <1> QED
    BY <1>7, <1>14, <1>15 DEF StepIsFine

\* What every read and every deletion does: sessions disappear with all that is theirs.
LEMMA DeletionStep ==
    ASSUME TablesInv, NEW gone, DeleteSessions(gone), UNCHANGED <<clock, issued>>
    PROVE  StepIsFine
  <1> DEFINE S == Kept(sessions, gone)
             V == Kept(values, gone)
             E == Kept(events, gone)
             p == ViewOf(S, V, E, issued)
  <1>1. Together(sessions, values, events, issued)
    BY DEF TablesInv
  <1>2. sessions' = S /\ values' = V /\ events' = E /\ clock' = clock /\ issued' = issued
    BY DEF DeleteSessions, Kept
  <1>3. Together(S, V, E, issued)
    BY <1>1, PurgeLemma
  <1>4. \A r \in S : r.updated <= clock
    BY DEF TablesInv, Kept
  <1>5. TablesInv'
    <2>1. Together(sessions', values', events', issued')
      BY <1>2, <1>3
    <2>2. \A r \in sessions' : r.updated <= clock'
      BY <1>2, <1>4
    <2>3. clock' \in Nat
      BY <1>2 DEF TablesInv
    <2> QED
      BY <2>1, <2>2, <2>3 DEF TablesInv
  <1>6. Abstract!StoreStep(ViewOf(sessions, values, events, issued), p)
    <2>1. p = ViewOf(Kept(sessions, gone), Kept(values, gone), Kept(events, gone), issued)
      OBVIOUS
    <2> HIDE DEF p
    <2> QED
      BY <1>1, <2>1, PurgeThen
  <1>7. AbstractSession' = p /\ AbstractSession = ViewOf(sessions, values, events, issued)
    BY <1>2, AbstractIsView
  <1> HIDE DEF p
  <1> QED
    BY <1>5, <1>6, <1>7 DEF StepIsFine

LEMMA ClaimNextStep ==
    ASSUME TablesInv, NEW now \in Readings, ClaimNext(now)
    PROVE  StepIsFine
  <1> DEFINE G == Expired(now)
             S == Kept(sessions, G)
             V == Kept(values, G)
             E == Kept(events, G)
             p == PurgedView(now)
             n == AbstractSession'
  <1>1. PICK r \in S : /\ sessions' = SetRow(S, r.id, r.expires, now, "running")
                       /\ values' = SetStatusValue(V, r.id, "running")
    BY DEF ClaimNext
  <1>2. events' = E /\ UNCHANGED <<clock, issued>>
    BY DEF ClaimNext
  <1> DEFINE i == r.id
  <1>3. /\ r.status \in RowStatus /\ i \in Abstract!Live(p) /\ HasIn(V, i, "status")
        /\ i \in Id /\ i \in Ids(S)
        /\ p[i] = Rec(r.status, HasIn(V, i, "result"), OrIn(V, i, "failure_code", "none"),
                      OrIn(V, i, "parent", None), LogOf(E, i))
    BY SessionBefore
  <1>4. now \in Nat /\ now <= clock /\ r.expires \in Nat
    BY PurgeFacts
  <1> HIDE DEF i
  <1>5. EventKeys(E) /\ Numbered(E, i) /\ ValueKeys(V) /\ SessionKeys(S)
    BY <1>3, EventsBefore
  <1> DEFINE W == Upsert(V, i, "status", "running")
  <1>6. "running" \in RowStatus /\ [id |-> i, name |-> "status", value |-> "running"] \in ValueRow
    BY <1>3 DEF RowStatus, ValueRow
  <1>7. values' = W
    <2>1. values' = SetStatusValue(V, i, "running")
      BY <1>1 DEF i
    <2> HIDE DEF V
    <2> QED
      BY <1>3, <1>5, <1>6, <2>1, UpdateIsUpsert
  <1>8. /\ ValueKeys(W) /\ [id |-> i, name |-> "status", value |-> "running"] \in W
        /\ \A v \in W : v.id = i \/ v \in V
        /\ \A v \in V : v.id # i => v \in W
    <2> HIDE DEF V
    <2>1. /\ ValueKeys(W) /\ [id |-> i, name |-> "status", value |-> "running"] \in W
          /\ \A v \in V : ~(v.id = i /\ v.name = "status") => v \in W
          /\ \A v \in W : (v.id = i /\ v.name = "status") \/ v \in V
      BY <1>5, <1>6, UpsertKeys
    <2> HIDE DEF W
    <2> QED
      BY <2>1
  <1>9. \A k : k # "status" => /\ HasIn(W, i, k) <=> HasIn(V, i, k)
                               /\ \A d : OrIn(W, i, k, d) = OrIn(V, i, k, d)
    <2> HIDE DEF V
    <2> QED
      BY <1>5, <1>6, UpsertFields
  <1>10. /\ HasIn(W, i, "result") = HasIn(V, i, "result")
         /\ OrIn(W, i, "failure_code", "none") = OrIn(V, i, "failure_code", "none")
         /\ OrIn(W, i, "parent", None) = OrIn(V, i, "parent", None)
    <2>1. HasIn(W, i, "result") <=> HasIn(V, i, "result")
      BY <1>9
    <2>2. HasIn(W, i, "result") = HasIn(V, i, "result")
      BY <2>1 DEF HasIn
    <2> HIDE DEF V, W
    <2> QED
      BY <1>9, <2>2
  <1>11. /\ SessionKeys(sessions') /\ Ids(sessions') = Ids(S)
         /\ \A q \in sessions' : \/ q.id = i /\ q.status = "running" /\ q.updated <= clock
                                 \/ q.id # i /\ q \in S
    <2>1. sessions' = SetRow(S, i, r.expires, now, "running")
      BY <1>1 DEF i
    <2> HIDE DEF S
    <2> QED
      BY <1>3, <1>4, <1>5, <1>6, <2>1, SetRowLemma
  <1>12. \A j : j # i => Mine(events', j) = Mine(E, j)
    BY <1>2
  <1>13. /\ ValueKeys(values') /\ [id |-> i, name |-> "status", value |-> "running"] \in values'
         /\ \A v \in values' : v.id = i \/ v \in V
         /\ \A v \in V : v.id # i => v \in values'
         /\ EventKeys(events') /\ Numbered(events', i)
    <2> HIDE DEF V, W, E
    <2> QED
      BY <1>2, <1>5, <1>7, <1>8, Zenon
  <1>14. /\ TablesInv'
         /\ Becomes(p, n, i, Rec("running", HasIn(values', i, "result"),
                                 OrIn(values', i, "failure_code", "none"),
                                 OrIn(values', i, "parent", None), LogOf(events', i)))
         /\ Abstract!StoreOperation(p, i, n) => Abstract!StoreStep(AbstractSession, n)
    <2> HIDE DEF W
    <2> QED
      BY <1>2, <1>3, <1>6, <1>11, <1>12, <1>13, MethodOnOne
  <1> HIDE DEF p, n, V, E, S, W
  <1>15. Becomes(p, n, i, Rec("running", HasIn(V, i, "result"),
                              OrIn(V, i, "failure_code", "none"),
                              OrIn(V, i, "parent", None), LogOf(E, i)))
    BY <1>2, <1>7, <1>10, <1>14, Zenon
  <1>16. n = Abstract!SetStatus(p, i, "running")
    BY <1>3, <1>15, SetStatusIs
  <1>17. Abstract!StoreOperation(p, i, n)
    <2>1. "running" \in {"queued", "running"}
      OBVIOUS
    <2> QED
      BY <1>3, <1>16, <2>1, Zenon DEF Abstract!StoreOperation
  <1> QED
    BY <1>14, <1>17 DEF StepIsFine, n

-----------------------------------------------------------------------------
(* requeue_stale, which writes the rows of many sessions. *)

\* The status rows of the sessions in T say "queued".
AllQueued(V, T) ==
    {IF v.id \in T /\ v.name = "status" THEN [v EXCEPT !.value = "queued"] ELSE v : v \in V}

LEMMA AllQueuedFields ==
    ASSUME NEW V, ValueKeys(V), NEW T
    PROVE  /\ ValueKeys(AllQueued(V, T))
           /\ \A v \in V : ~(v.id \in T /\ v.name = "status") => v \in AllQueued(V, T)
           /\ \A v \in V : v.id \in T /\ v.name = "status" =>
                 [id |-> v.id, name |-> "status", value |-> "queued"] \in AllQueued(V, T)
           /\ \A w \in AllQueued(V, T) : \E v \in V : v.id = w.id
           /\ \A i, k : k # "status" =>
                 /\ HasIn(AllQueued(V, T), i, k) = HasIn(V, i, k)
                 /\ \A d : OrIn(AllQueued(V, T), i, k, d) = OrIn(V, i, k, d)
  <1> DEFINE W      == AllQueued(V, T)
             row(i) == [id |-> i, name |-> "status", value |-> "queued"]
             new(v) == IF v.id \in T /\ v.name = "status" THEN [v EXCEPT !.value = "queued"] ELSE v
  <1>1. \A v \in ValueRow : v = [id |-> v.id, name |-> v.name, value |-> v.value] /\ v.id \in Id
    BY DEF ValueRow
  <1>2. ASSUME NEW v \in V, v.name = "status" PROVE [v EXCEPT !.value = "queued"] = row(v.id)
    <2>1. v = [id |-> v.id, name |-> "status", value |-> v.value]
      BY <1>1, <1>2 DEF ValueKeys
    <2> QED
      BY <2>1
  <1>3. \A v \in V : new(v) = IF v.id \in T /\ v.name = "status" THEN row(v.id) ELSE v
    <2> HIDE DEF row
    <2> QED
      BY <1>2, Zenon
  <1>4. W = {new(v) : v \in V}
    BY DEF AllQueued
  <1>5. \A i \in Id : row(i).id = i /\ row(i).name = "status" /\ row(i) \in ValueRow
    BY DEF ValueRow, RowStatus
  <1> HIDE DEF W, row, new
  <1>6. \A v \in V : v.id \in Id /\ v \in ValueRow
    BY <1>1 DEF ValueKeys
  <1>7. \A v \in V : new(v).id = v.id /\ new(v).name = v.name /\ new(v) \in ValueRow
    BY <1>3, <1>5, <1>6
  <1>8. \A w \in W : \E v \in V : w = new(v)
    BY <1>4
  <1>9. \A v \in V : new(v) \in W
    BY <1>4
  <1>10. ValueKeys(W)
    <2>1. W \subseteq ValueRow
      BY <1>7, <1>8
    <2>2. ASSUME NEW u \in W, NEW w \in W, u.id = w.id, u.name = w.name PROVE u = w
      <3>1. PICK a \in V : u = new(a)
        BY <1>8
      <3>2. PICK b \in V : w = new(b)
        BY <1>8
      <3>3. a.id = b.id /\ a.name = b.name
        BY <1>7, <2>2, <3>1, <3>2
      <3>4. a = b
        BY <3>3 DEF ValueKeys
      <3> QED
        BY <3>1, <3>2, <3>4
    <2> QED
      BY <2>1, <2>2 DEF ValueKeys
  <1>11. \A v \in V : ~(v.id \in T /\ v.name = "status") => v \in W
    BY <1>3, <1>9
  <1>12. \A v \in V : v.id \in T /\ v.name = "status" => row(v.id) \in W
    BY <1>3, <1>9
  <1>13. \A w \in W : \E v \in V : v.id = w.id
    BY <1>7, <1>8
  <1>14. ASSUME NEW i, NEW k, k # "status"
         PROVE  HasIn(W, i, k) = HasIn(V, i, k) /\ \A d : OrIn(W, i, k, d) = OrIn(V, i, k, d)
    <2>1. \A v \in V : v.id = i /\ v.name = k => v \in W
      BY <1>11, <1>14
    <2>2. \A w \in W : w.id = i /\ w.name = k => w \in V
      <3>1. ASSUME NEW w \in W, w.name = k PROVE w \in V
        <4>1. PICK v \in V : w = new(v)
          BY <1>8
        <4>2. v.name = k
          BY <1>7, <3>1, <4>1
        <4>3. new(v) = v
          BY <1>3, <1>14, <4>2
        <4> QED
          BY <4>1, <4>3
      <3> QED
        BY <3>1
    <2>3. /\ HasIn(V, i, k) <=> HasIn(W, i, k)
          /\ \A d : OrIn(V, i, k, d) = OrIn(W, i, k, d)
      BY <1>10, <2>1, <2>2, SameRowsSameValues
    <2>4. HasIn(V, i, k) = HasIn(W, i, k)
      BY <2>3 DEF HasIn
    <2> QED
      BY <2>3, <2>4
  <1> QED
    BY <1>10, <1>11, <1>12, <1>13, <1>14 DEF W, row

\* The rows of the sessions in T are queued again, at the time t.
AgainRow(r, t) == [r EXCEPT !.status = "queued", !.updated = t]

LEMMA AgainFields ==
    ASSUME NEW r \in SessionRow, NEW t \in Nat
    PROVE  /\ AgainRow(r, t) \in SessionRow /\ AgainRow(r, t).id = r.id
           /\ AgainRow(r, t).status = "queued" /\ AgainRow(r, t).updated = t
           /\ StatusRow(AgainRow(r, t)) = [id |-> r.id, name |-> "status", value |-> "queued"]
  <1> DEFINE dated(q) == [q EXCEPT !.updated = t]
             new == [id |-> r.id, expires |-> r.expires, status |-> "queued", updated |-> t]
  <1>1. r = [id |-> r.id, expires |-> r.expires, status |-> r.status, updated |-> r.updated]
    BY DEF SessionRow
  <1>2. AgainRow(r, t) = dated(WithStatus(r, "queued"))
    BY Zenon DEF AgainRow, WithStatus
  <1>3. WithStatus(r, "queued")
          = [id |-> r.id, expires |-> r.expires, status |-> "queued", updated |-> r.updated]
    BY <1>1 DEF WithStatus
  <1>4. dated([id |-> r.id, expires |-> r.expires, status |-> "queued", updated |-> r.updated]) = new
    OBVIOUS
  <1> HIDE DEF dated
  <1>5. AgainRow(r, t) = new
    BY <1>2, <1>3, <1>4
  <1>6. new \in SessionRow /\ new.id = r.id /\ new.status = "queued" /\ new.updated = t
    BY DEF SessionRow, RowStatus
  <1> HIDE DEF new
  <1> QED
    BY <1>5, <1>6 DEF StatusRow

LEMMA RequeueStep ==
    ASSUME TablesInv, RequeueStale
    PROVE  StepIsFine
  <1> DEFINE T == {r.id : r \in {s \in sessions : s.status = "running" /\ s.updated <= clock}}
             S2 == {IF r.id \in T THEN AgainRow(r, clock) ELSE r : r \in sessions}
             V2 == AllQueued(values, T)
             m == ViewOf(sessions, values, events, issued)
             n == ViewOf(S2, V2, events, issued)
  <1>1. /\ sessions' = S2 /\ values' = V2 /\ events' = events /\ clock' = clock /\ issued' = issued
    BY Zenon DEF RequeueStale, AllQueued, AgainRow
  <1>2. /\ SessionKeys(sessions) /\ ValueKeys(values) /\ clock \in Nat
        /\ Together(sessions, values, events, issued)
    BY DEF TablesInv, Together
  <1>3. \A r \in sessions : r.id \in T <=> r.status = "running"
    BY <1>2 DEF TablesInv, SessionKeys
  <1> HIDE DEF T
  <1>4. /\ ValueKeys(V2)
        /\ \A v \in values : ~(v.id \in T /\ v.name = "status") => v \in V2
        /\ \A v \in values : v.id \in T /\ v.name = "status" =>
              [id |-> v.id, name |-> "status", value |-> "queued"] \in V2
        /\ \A w \in V2 : \E v \in values : v.id = w.id
        /\ \A i, k : k # "status" =>
              /\ HasIn(V2, i, k) = HasIn(values, i, k)
              /\ \A d : OrIn(V2, i, k, d) = OrIn(values, i, k, d)
    BY <1>2, AllQueuedFields
  <1> HIDE DEF V2
  <1>5. \A r \in sessions :
          /\ r \in SessionRow /\ r.id \in Id
          /\ AgainRow(r, clock) \in SessionRow /\ AgainRow(r, clock).id = r.id
          /\ AgainRow(r, clock).status = "queued" /\ AgainRow(r, clock).updated = clock
          /\ StatusRow(AgainRow(r, clock)) = [id |-> r.id, name |-> "status", value |-> "queued"]
    <2>1. \A r \in sessions : r \in SessionRow /\ r.id \in Id
      BY <1>2 DEF SessionKeys, SessionRow
    <2> QED
      BY <1>2, <2>1, AgainFields
  <1>6. \A q \in S2 : \E r \in sessions :
          /\ q.id = r.id
          /\ r.status = "running" => q = AgainRow(r, clock)
          /\ r.status # "running" => q = r
    BY <1>3, <1>5
  <1>7. \A r \in sessions :
          /\ r.status = "running" => AgainRow(r, clock) \in S2
          /\ r.status # "running" => r \in S2
    BY <1>3
  <1> HIDE DEF S2
  <1>8. SessionKeys(S2)
    <2>1. S2 \subseteq SessionRow
      BY <1>5, <1>6
    <2>2. ASSUME NEW q \in S2, NEW u \in S2, q.id = u.id PROVE q = u
      <3>1. PICK r \in sessions : /\ q.id = r.id
                                  /\ r.status = "running" => q = AgainRow(r, clock)
                                  /\ r.status # "running" => q = r
        BY <1>6
      <3>2. PICK s \in sessions : /\ u.id = s.id
                                  /\ s.status = "running" => u = AgainRow(s, clock)
                                  /\ s.status # "running" => u = s
        BY <1>6
      <3>3. r = s
        BY <1>2, <2>2, <3>1, <3>2 DEF SessionKeys
      <3> QED
        BY <3>1, <3>2, <3>3
    <2> QED
      BY <2>1, <2>2 DEF SessionKeys
  <1>9. Ids(S2) = Ids(sessions)
    <2>1. \A r \in sessions : \E q \in S2 : q.id = r.id
      BY <1>5, <1>7
    <2> QED
      BY <1>6, <2>1 DEF Ids
  <1>10. \A q \in S2 : StatusRow(q) \in V2
    <2>1. ASSUME NEW q \in S2 PROVE StatusRow(q) \in V2
      <3>1. PICK r \in sessions : /\ q.id = r.id
                                  /\ r.status = "running" => q = AgainRow(r, clock)
                                  /\ r.status # "running" => q = r
        BY <1>6
      <3>2. StatusRow(r) \in values /\ StatusRow(r).id = r.id /\ StatusRow(r).name = "status"
        BY <1>2 DEF Together, StatusRow
      <3>3. CASE r.status = "running"
        <4>1. [id |-> r.id, name |-> "status", value |-> "queued"] \in V2
          BY <1>3, <1>4, <3>2, <3>3
        <4> QED
          BY <1>5, <3>1, <3>3, <4>1
      <3>4. CASE r.status # "running"
        BY <1>3, <1>4, <3>1, <3>2, <3>4
      <3> QED
        BY <3>3, <3>4
    <2> QED
      BY <2>1
  <1>11. Together(S2, V2, events, issued)
    <2>1. \A v \in V2 : v.id \in Ids(S2)
      BY <1>2, <1>4, <1>9 DEF Together
    <2> QED
      BY <1>2, <1>4, <1>8, <1>9, <1>10, <2>1 DEF Together
  <1>12. TablesInv'
    <2>1. Together(sessions', values', events', issued')
      BY <1>1, <1>11
    <2>2. \A q \in S2 : q.updated <= clock
      <3>1. \A r \in sessions : r.updated <= clock
        BY DEF TablesInv
      <3>2. clock <= clock
        BY <1>2
      <3> QED
        BY <1>5, <1>6, <3>1, <3>2
    <2> QED
      BY <1>1, <1>2, <2>1, <2>2 DEF TablesInv
  <1>13. ASSUME NEW i \in Id
         PROVE  n[i] = IF m[i].status = "running" THEN WithStatus(m[i], "queued") ELSE m[i]
    <2>1. m[i] = ViewAt(sessions, values, events, issued, i) /\ n[i] = ViewAt(S2, V2, events, issued, i)
      BY DEF ViewOf
    <2> HIDE DEF m, n
    <2>2. CASE i \in Ids(sessions)
      <3>1. PICK r \in sessions : r.id = i
        BY <2>2 DEF Ids
      <3> DEFINE res == HasIn(values, i, "result")
                 cod == OrIn(values, i, "failure_code", "none")
                 par == OrIn(values, i, "parent", None)
                 log == LogOf(events, i)
      <3>2. m[i] = Rec(r.status, res, cod, par, log)
        BY <1>2, <2>1, <3>1, ViewOfPresent
      <3>3. /\ HasIn(V2, i, "result") = res /\ OrIn(V2, i, "failure_code", "none") = cod
            /\ OrIn(V2, i, "parent", None) = par
        BY <1>4
      <3>4. \A q \in S2 : q.id = i => n[i] = Rec(q.status, res, cod, par, log)
        <4>1. ASSUME NEW q \in S2, q.id = i PROVE n[i] = Rec(q.status, res, cod, par, log)
          <5>1. n[i] = Rec(q.status, HasIn(V2, i, "result"), OrIn(V2, i, "failure_code", "none"),
                           OrIn(V2, i, "parent", None), LogOf(events, i))
            BY <1>11, <2>1, <4>1, ViewOfPresent
          <5> QED
            BY <3>3, <5>1, Zenon
        <4> QED
          BY <4>1
      <3> HIDE DEF res, cod, par, log
      <3>5. m[i].status = r.status
        BY <3>2 DEF Rec
      <3>6. CASE r.status = "running"
        <4>1. n[i] = Rec("queued", res, cod, par, log)
          BY <1>5, <1>7, <3>1, <3>4, <3>6
        <4>2. WithStatus(Rec(r.status, res, cod, par, log), "queued") = Rec("queued", res, cod, par, log)
          BY FieldChanges
        <4> QED
          BY <3>2, <3>5, <3>6, <4>1, <4>2
      <3>7. CASE r.status # "running"
        <4>1. n[i] = Rec(r.status, res, cod, par, log)
          BY <1>7, <3>1, <3>4, <3>7
        <4> QED
          BY <3>2, <3>5, <3>7, <4>1
      <3> QED
        BY <3>6, <3>7
    <2>3. CASE i \notin Ids(sessions)
      <3>1. n[i] = m[i]
        BY <1>9, <2>1, <2>3 DEF ViewAt
      <3>2. m[i].status # "running"
        <4>1. m[i] = Blank("gone") \/ m[i] = Blank("unused")
          BY <2>1, <2>3 DEF ViewAt
        <4> QED
          BY <4>1, BlankFields
      <3> QED
        BY <3>1, <3>2
    <2> QED
      BY <2>2, <2>3
  <1>14. n = Abstract!Requeue(m)
    <2>1. n = [i \in Id |-> n[i]]
      BY DEF ViewOf
    <2> HIDE DEF m, n
    <2>2. n = [i \in Id |-> IF m[i].status = "running" THEN WithStatus(m[i], "queued") ELSE m[i]]
      BY <1>13, <2>1
    <2> QED
      BY <2>2, Zenon DEF Abstract!Requeue, WithStatus
  <1>15. AbstractSession' = n /\ AbstractSession = m
    BY <1>1, AbstractIsView
  <1> HIDE DEF m, n
  <1>16. Abstract!StoreStep(m, n)
    BY <1>14, Zenon DEF Abstract!StoreStep
  <1> QED
    BY <1>12, <1>15, <1>16 DEF StepIsFine

-----------------------------------------------------------------------------
(***************************************************************************)
(* The theorems.                                                           *)
(***************************************************************************)
LEMMA TheStart ==
    ASSUME SQLiteInit
    PROVE  TablesInv /\ Abstract!StoreInit
  <1>1. sessions = {} /\ values = {} /\ events = {} /\ issued = {} /\ clock = 0
    BY DEF SQLiteInit
  <1>2. \A i \in Id : Numbered({}, i)
    <2>1. \A i \in Id : Mine({}, i) = {}
      BY DEF Mine
    <2> QED
      BY <2>1, NoEvents, Zenon
  <1>3. Together({}, {}, {}, {})
    <2>1. SessionKeys({}) /\ ValueKeys({}) /\ EventKeys({}) /\ Ids({}) = {}
      BY DEF SessionKeys, ValueKeys, EventKeys, Ids
    <2> QED
      BY <1>2, <2>1 DEF Together
  <1>4. TablesInv
    BY <1>1, <1>3 DEF TablesInv
  <1>5. AbstractSession = ViewOf({}, {}, {}, {})
    BY <1>1, AbstractIsView, Zenon
  <1>6. ASSUME NEW i \in Id PROVE ViewAt({}, {}, {}, {}, i) = Abstract!Unused
    <2>1. ViewAt({}, {}, {}, {}, i) = Blank("unused")
      BY DEF ViewAt, Ids
    <2> QED
      BY <2>1, BlankFields DEF Abstract!Unused
  <1>7. ViewOf({}, {}, {}, {}) = [i \in Id |-> Abstract!Unused]
    BY <1>6, Zenon DEF ViewOf
  <1> QED
    BY <1>4, <1>5, <1>7 DEF Abstract!StoreInit

LEMMA TheSteps ==
    ASSUME TablesInv, [SQLiteNext]_sqliteVars
    PROVE  TablesInv' /\ [Abstract!StoreNext]_AbstractSession
  <1>1. ASSUME StepIsFine PROVE TablesInv' /\ [Abstract!StoreNext]_AbstractSession
    BY <1>1 DEF StepIsFine, Abstract!StoreNext
  <1>2. CASE RequeueStale
    BY <1>1, <1>2, RequeueStep
  <1>3. CASE \E now \in Readings : Method(now)
    <2>1. PICK now \in Readings : Method(now)
      BY <1>3
    <2>2. CASE ReadOnly(now)
      BY <1>1, <2>2, DeletionStep DEF ReadOnly
    <2>3. CASE ClaimNext(now)
      BY <1>1, <2>3, ClaimNextStep
    <2>4. ASSUME NEW i \in Id,
                 \/ CreateRow(now, i, None, "none")
                 \/ \E parent \in issued : CreateRow(now, i, parent, "retryable")
          PROVE  StepIsFine
      <3>1. issued \subseteq Id
        BY DEF TablesInv, Together
      <3>2. PICK parent \in Id \union {None}, code \in {"none", "retryable"} :
                CreateRow(now, i, parent, code)
        BY <2>4, <3>1
      <3> QED
        BY <3>2, CreateRowStep
    <2>5. ASSUME NEW i \in Id,
                 \/ \E status \in {"queued", "running"} : Update(now, i, status, FALSE, "none")
                 \/ Update(now, i, "complete", TRUE, "none")
                 \/ Update(now, i, "failed", FALSE, "retryable")
          PROVE  StepIsFine
      BY <2>5, UpdateStep
    <2>6. ASSUME NEW i \in Id, RemoveKeys(now, i) PROVE StepIsFine
      BY <2>6, RemoveKeysStep
    <2>7. ASSUME NEW i \in Id, EmitRow(now, i, "progress") PROVE StepIsFine
      BY <2>7, EmitRowStep
    <2>8. ASSUME NEW i \in Id, ResetFailed(now, i) PROVE StepIsFine
      BY <2>8, ResetFailedStep
    <2>9. ASSUME NEW i \in Id, DeleteLineage(now, i) PROVE StepIsFine
      BY <2>9, DeletionStep DEF DeleteLineage
    <2> QED
      BY <1>1, <2>1, <2>2, <2>3, <2>4, <2>5, <2>6, <2>7, <2>8, <2>9 DEF Method
  <1>4. CASE Tick \/ UNCHANGED sqliteVars
    <2>1. /\ sessions' = sessions /\ values' = values /\ events' = events /\ issued' = issued
          /\ clock' = clock \/ clock' = clock + 1
      BY <1>4 DEF Tick, tables, sqliteVars
    <2>2. Together(sessions', values', events', issued')
      BY <2>1 DEF TablesInv
    <2>3. clock' \in Nat /\ \A r \in sessions' : r.updated <= clock'
      <3>1. clock \in Nat /\ \A r \in sessions : r.updated <= clock /\ r.updated \in Nat
        BY DEF TablesInv, Together, SessionKeys, SessionRow
      <3> QED
        BY <2>1, <3>1
    <2>4. AbstractSession' = AbstractSession
      BY <2>1, AbstractIsView
    <2> QED
      BY <2>2, <2>3, <2>4 DEF TablesInv
  <1> QED
    BY <1>2, <1>3, <1>4 DEF SQLiteNext

\* The invariant, whatever the interleaving of the methods and their readings of the clock.
THEOREM TablesInvHolds == SQLiteSpec => []TablesInv
  <1>1. SQLiteInit => TablesInv
    BY TheStart
  <1>2. TablesInv /\ [SQLiteNext]_sqliteVars => TablesInv'
    BY TheSteps
  <1> QED
    BY <1>1, <1>2, PTL DEF SQLiteSpec

\* The column that the worker claims by always agrees with the value that the handlers read,
\* and no value or event outlives its session, in every state of every store.
THEOREM TablesFit == SQLiteSpec => []TablesFitTogether
  <1>1. TablesInv => TablesFitTogether
    <2> SUFFICES ASSUME TablesInv PROVE TablesFitTogether
      OBVIOUS
    <2>1. ValueKeys(values) /\ Together(sessions, values, events, issued)
      BY DEF TablesInv, Together
    <2>2. ASSUME NEW r \in sessions, NEW v \in values, v.id = r.id, v.name = "status"
          PROVE  v.value = r.status
      <3>1. StatusRow(r) \in values /\ StatusRow(r).id = r.id /\ StatusRow(r).name = "status"
            /\ StatusRow(r).value = r.status
        BY <2>1 DEF Together, StatusRow
      <3>2. v = StatusRow(r)
        BY <2>1, <2>2, <3>1 DEF ValueKeys
      <3> QED
        BY <3>1, <3>2
    <2>3. \A v \in values \union events : v.id \in {r.id : r \in sessions}
      BY <2>1 DEF Together, Ids
    <2> QED
      BY <2>2, <2>3 DEF TablesFitTogether
  <1> QED
    BY <1>1, TablesInvHolds, PTL

\* The three tables, with their purges, upserts, cascades and event numbers, implement the map
\* of sessions against which the rest of the service is written.
THEOREM TablesImplementStore == SQLiteSpec => ImplementsStore
  <1>1. SQLiteInit => TablesInv /\ Abstract!StoreInit
    BY TheStart
  <1>2. TablesInv /\ [SQLiteNext]_sqliteVars => [Abstract!StoreNext]_AbstractSession
    BY TheSteps
  <1> QED
    BY <1>1, <1>2, TablesInvHolds, PTL DEF SQLiteSpec, ImplementsStore, Abstract!StoreSpec

-----------------------------------------------------------------------------
(***************************************************************************)
(* A deletion takes a whole family, because the loop of delete() runs      *)
(* until a round adds nothing.                                             *)
(***************************************************************************)
\* One look at the links to the children of L and at those to the parents that exist.
RelatedTo(links, existing, L) ==
    {v.id : v \in {u \in links : u.value \in L}}
        \union {v.value : v \in {u \in links : u.id \in L /\ u.value \in existing}}

Rounds(links, existing, i) ==
    CHOOSE round : round = [n \in Nat |-> IF n = 0 THEN {i}
                                          ELSE round[n - 1] \union RelatedTo(links, existing, round[n - 1])]

LEMMA LineageIsLastRound ==
    ASSUME NEW i, NEW gone
    PROVE  LineageOf(i, gone)
             = Rounds({v \in Kept(values, gone) : v.name = "parent"}, Ids(Kept(sessions, gone)), i)
                   [Cardinality(Id)]
  BY DEF LineageOf, Rounds, RelatedTo, Ids

LEMMA LineageIsClosed ==
    ASSUME IsFiniteSet(Id), NEW i \in Id, NEW existing, NEW links,
           \A v \in links : v.id \in Id /\ v.value \in Id
    PROVE  LET L == Rounds(links, existing, i)[Cardinality(Id)] IN
           /\ L \in SUBSET Id /\ i \in L
           /\ RelatedTo(links, existing, L) \subseteq L
  <1> DEFINE S        == SUBSET Id
             more(L)  == L \union RelatedTo(links, existing, L)
             G        == [L \in S |-> more(L)]
             Fits(f)  == f = [n \in Nat |-> IF n = 0 THEN {i} ELSE more(f[n - 1])]
             r        == Rounds(links, existing, i)
  <1>1. \A L \in S : more(L) \in S /\ L \subseteq more(L)
    BY DEF RelatedTo
  <1>2. r = CHOOSE f : Fits(f)
    BY DEF Rounds
  <1> HIDE DEF more, r
  <1>3. G \in [S -> S] /\ {i} \in S /\ \A L \in S : G[L] = more(L) /\ L \subseteq G[L]
    BY <1>1
  <1> HIDE DEF G, S
  <1>4. PICK f \in [Nat -> S] : f[0] = {i} /\ \A n \in Nat : f[n + 1] = G[f[n]]
    <2> DEFINE a == {i}
    <2>1. a \in S /\ G \in [S -> S]
      BY <1>3
    <2> HIDE DEF a
    <2>2. \E f \in [Nat -> S] : f[0] = a /\ \A n \in Nat : f[n + 1] = G[f[n]]
      BY <2>1, IterationExists, SMTT(30)
    <2> QED
      BY <2>2 DEF a
  <1>5. \A n \in Nat : n = 0 \/ (n - 1 \in Nat /\ (n - 1) + 1 = n)
    OBVIOUS
  <1>6. Fits(f)
    <2>1. \A n \in Nat : f[n] = IF n = 0 THEN {i} ELSE more(f[n - 1])
      <3>1. ASSUME NEW n \in Nat, n # 0 PROVE f[n] = more(f[n - 1])
        <4>1. n - 1 \in Nat /\ (n - 1) + 1 = n
          BY <1>5, <3>1
        <4>2. f[n] = G[f[n - 1]] /\ f[n - 1] \in S
          BY <1>4, <4>1
        <4> QED
          BY <1>3, <4>2
      <3> QED
        BY <1>4, <3>1
    <2>2. f = [n \in Nat |-> f[n]]
      BY <1>4
    <2> QED
      BY <2>1, <2>2
  <1>7. Fits(r)
    <2> HIDE DEF Fits
    <2> QED
      BY <1>2, <1>6
  <1>8. r[0] = {i} /\ \A n \in Nat : r[n + 1] = more(r[n])
    <2>1. \A n \in Nat : r[n] = IF n = 0 THEN {i} ELSE more(r[n - 1])
      BY <1>7
    <2>2. \A n \in Nat : n + 1 \in Nat /\ n + 1 # 0 /\ (n + 1) - 1 = n
      OBVIOUS
    <2> HIDE DEF Fits
    <2> QED
      BY <2>1, <2>2
  <1>9. \A n \in Nat : r[n] \in S
    <2> DEFINE Good == {n \in Nat : r[n] \in S}
    <2>1. 0 \in Good /\ \A n \in Good : n + 1 \in Good
      BY <1>1, <1>3, <1>8 DEF S
    <2>2. Good \in SUBSET Nat
      OBVIOUS
    <2> HIDE DEF Good
    <2>3. \A n \in Nat : n \in Good
      BY <2>1, <2>2, EveryNumber
    <2> QED
      BY <2>3 DEF Good
  <1>10. r \in [Nat -> S]
    <2>1. DOMAIN r = Nat /\ r = [n \in Nat |-> r[n]]
      BY <1>7
    <2> HIDE DEF Fits
    <2> QED
      BY <1>9, <2>1
  <1>11. \A n \in Nat : r[n + 1] = G[r[n]]
    BY <1>3, <1>8, <1>9
  <1>12. /\ r[Cardinality(Id)] \in SUBSET Id
         /\ r[0] \subseteq r[Cardinality(Id)]
         /\ G[r[Cardinality(Id)]] = r[Cardinality(Id)]
    <2>1. /\ G \in [SUBSET Id -> SUBSET Id] /\ \A L \in SUBSET Id : L \subseteq G[L]
          /\ r \in [Nat -> SUBSET Id]
      BY <1>3, <1>10 DEF S
    <2>2. r[0] # {}
      BY <1>8
    <2> QED
      BY <1>11, <2>1, <2>2, LastRoundAddsNothing, Zenon
  <1>13. more(r[Cardinality(Id)]) = r[Cardinality(Id)]
    BY <1>3, <1>12 DEF S
  <1> QED
    BY <1>8, <1>12, <1>13 DEF more, r

\* What has not expired by the clock has not expired by an earlier reading of it.
LEMMA AliveIsKept ==
    ASSUME TablesInv, NEW now \in Readings, NEW r \in sessions, r.expires > clock
    PROVE  r.id \notin Expired(now) /\ r.id \in Ids(Kept(sessions, Expired(now)))
  <1>1. now \in Nat /\ clock \in Nat /\ now <= clock
    BY PurgeFacts DEF TablesInv
  <1>2. /\ \A s \in sessions : s.id = r.id => s = r
        /\ r.expires \in Nat
    BY DEF TablesInv, Together, SessionKeys, SessionRow
  <1>3. r.id \notin Expired(now)
    BY <1>1, <1>2 DEF Expired
  <1> QED
    BY <1>3 DEF Ids, Kept

\* Only a deletion removes what has not expired.
LEMMA AliveStays ==
    ASSUME TablesInv, SQLiteNext, \A now \in Readings, i \in Id : ~DeleteLineage(now, i),
           NEW r \in sessions, r.expires > clock
    PROVE  r.id \in Ids(sessions')
  <1>1. CASE Tick
    BY <1>1 DEF Tick, tables, Ids
  <1>2. CASE RequeueStale
    <2> DEFINE T == {s.id : s \in {q \in sessions : q.status = "running" /\ q.updated <= clock}}
               new(s) == IF s.id \in T THEN AgainRow(s, clock) ELSE s
    <2>1. sessions' = {new(s) : s \in sessions}
      BY <1>2, Zenon DEF RequeueStale, AgainRow
    <2>2. new(r).id = r.id
      <3>1. r \in SessionRow /\ clock \in Nat
        BY DEF TablesInv, Together, SessionKeys
      <3>2. AgainRow(r, clock).id = r.id
        BY <3>1, AgainFields
      <3> QED
        BY <3>2
    <2> HIDE DEF new
    <2> QED
      BY <2>1, <2>2 DEF Ids
  <1>3. CASE \E now \in Readings : Method(now)
    <2>1. PICK now \in Readings : Method(now)
      BY <1>3
    <2> DEFINE S == Kept(sessions, Expired(now))
    <2>2. r.id \in Ids(S) /\ r.id \notin Expired(now)
      BY AliveIsKept
    <2>3. SessionKeys(S) /\ now \in Nat /\ now + TTL \in Nat /\ \A s \in S : s.expires \in Nat
      BY PurgeFacts, SQLiteAssumption DEF Together, SQLiteAssumption
    <2>4. ASSUME NEW i \in Id, Required(i, now) PROVE i \in Ids(S)
      BY <2>4, PurgeFacts
    <2>5. ASSUME NEW i \in Ids(S), NEW e \in Nat, NEW st \in RowStatus,
                 sessions' = SetRow(S, i, e, now, st)
          PROVE  r.id \in Ids(sessions')
      <3> HIDE DEF S
      <3>1. Ids(SetRow(S, i, e, now, st)) = Ids(S)
        BY <2>3, SetRowLemma
      <3> QED
        BY <2>2, <2>5, <3>1
    <2>6. ASSUME S \subseteq sessions' PROVE r.id \in Ids(sessions')
      BY <2>2, <2>6 DEF Ids
    <2>7. CASE ReadOnly(now)
      <3>1. sessions' = S
        BY <2>7 DEF ReadOnly, DeleteSessions, Kept
      <3> QED
        BY <2>6, <3>1
    <2>8. CASE ClaimNext(now)
      <3>1. PICK q \in S : sessions' = SetRow(S, q.id, q.expires, now, "running")
        BY <2>8 DEF ClaimNext
      <3>2. q.id \in Ids(S) /\ q.expires \in Nat /\ "running" \in RowStatus
        BY <2>3 DEF Ids, RowStatus
      <3> QED
        BY <2>5, <3>1, <3>2
    <2>9. ASSUME NEW i \in Id, NEW p, NEW c, CreateRow(now, i, p, c)
          PROVE  r.id \in Ids(sessions')
      BY <2>6, <2>9 DEF CreateRow
    <2>10. ASSUME NEW i \in Id, NEW st \in RowStatus, NEW res, NEW c, Update(now, i, st, res, c)
           PROVE  r.id \in Ids(sessions')
      BY <2>3, <2>4, <2>5, <2>10 DEF Update
    <2>11. ASSUME NEW i \in Id, RemoveKeys(now, i) PROVE r.id \in Ids(sessions')
      <3>1. i \in Ids(S) /\ sessions' = SetRow(S, i, now + TTL, now, Row(i).status)
        BY <2>4, <2>11 DEF RemoveKeys
      <3>2. Row(i).status \in RowStatus
        <4>1. \E s \in sessions : s.id = i
          BY <2>11 DEF RemoveKeys, Required
        <4>2. Row(i) \in sessions
          BY <4>1 DEF Row
        <4> QED
          BY <4>2 DEF TablesInv, Together, SessionKeys, SessionRow
      <3> QED
        BY <2>3, <2>5, <3>1, <3>2
    <2>12. ASSUME NEW i \in Id, EmitRow(now, i, "progress") PROVE r.id \in Ids(sessions')
      BY <2>6, <2>12 DEF EmitRow
    <2>13. ASSUME NEW i \in Id, ResetFailed(now, i) PROVE r.id \in Ids(sessions')
      <3>1. i \in Ids(S) /\ sessions' = SetRow(S, i, now + TTL, now, "created")
        BY <2>4, <2>13 DEF ResetFailed
      <3>2. "created" \in RowStatus
        BY DEF RowStatus
      <3> QED
        BY <2>3, <2>5, <3>1, <3>2
    <2>14. {"queued", "running", "complete", "failed"} \subseteq RowStatus
      BY DEF RowStatus
    <2> QED
      BY <2>1, <2>7, <2>8, <2>9, <2>10, <2>11, <2>12, <2>13, <2>14 DEF Method
  <1> QED
    BY <1>1, <1>2, <1>3 DEF SQLiteNext

\* A deletion leaves of two linked sessions that have not expired either both or neither.
LEMMA DeletionTakesBoth ==
    ASSUME IsFiniteSet(Id), TablesInv, NEW now \in Readings, NEW i \in Id, DeleteLineage(now, i),
           NEW v \in values, v.name = "parent",
           NEW r \in sessions, r.id = v.id, r.expires > clock,
           NEW s \in sessions, s.id = v.value, s.expires > clock
    PROVE  v.id \in Ids(sessions') <=> v.value \in Ids(sessions')
  <1> DEFINE G        == Expired(now)
             links    == {w \in Kept(values, G) : w.name = "parent"}
             existing == Ids(Kept(sessions, G))
             L        == LineageOf(i, G)
  <1>1. r.id \notin G /\ s.id \notin G /\ s.id \in existing
    BY AliveIsKept
  <1>2. v \in links
    BY <1>1 DEF Kept
  <1>3. \A w \in links : w.id \in Id /\ w.value \in Id
    <2>1. \A w \in ValueRow : w.name = "parent" => w.id \in Id /\ w.value \in Id
      BY DEF ValueRow
    <2> QED
      BY <2>1 DEF TablesInv, Together, ValueKeys, Kept
  <1>4. L = Rounds(links, existing, i)[Cardinality(Id)]
    BY LineageIsLastRound
  <1> HIDE DEF links, existing, L
  <1>5. RelatedTo(links, existing, L) \subseteq L
    BY <1>3, <1>4, LineageIsClosed
  <1>6. v.id \in L <=> v.value \in L
    BY <1>1, <1>2, <1>5 DEF RelatedTo
  <1>7. sessions' = Kept(sessions, G \union L)
    BY DEF DeleteLineage, DeleteSessions, Kept, L
  <1>8. \A q \in sessions : q.id \notin G => (q.id \in Ids(sessions') <=> q.id \notin L)
    BY <1>7 DEF Kept, Ids
  <1> QED
    BY <1>1, <1>6, <1>8

\* A correction and its parent are deleted together, at any depth of corrections of corrections:
\* as long as ids are finite in number, the loop of delete() finds the whole family.
THEOREM FamiliesStay ==
    ASSUME IsFiniteSet(Id)
    PROVE  SQLiteSpec => FamiliesGoTogether
  <1> DEFINE alive == {r.id : r \in {s \in sessions : s.expires > clock}}
             left  == {r.id : r \in sessions'}
             Both  == \A v \in values : v.name = "parent" /\ {v.id, v.value} \subseteq alive =>
                                            (v.id \in left <=> v.value \in left)
  <1>1. TablesInv /\ [SQLiteNext]_sqliteVars => [Both]_sessions
    <2> SUFFICES ASSUME TablesInv, SQLiteNext,
                        NEW v \in values, v.name = "parent", {v.id, v.value} \subseteq alive
                 PROVE  v.id \in left <=> v.value \in left
      BY DEF sqliteVars
    <2>1. PICK r \in sessions : r.id = v.id /\ r.expires > clock
      OBVIOUS
    <2>2. PICK s \in sessions : s.id = v.value /\ s.expires > clock
      OBVIOUS
    <2>3. left = Ids(sessions')
      BY DEF Ids
    <2> HIDE DEF alive, left
    <2>4. CASE \E now \in Readings, i \in Id : DeleteLineage(now, i)
      BY <2>1, <2>2, <2>3, <2>4, DeletionTakesBoth
    <2>5. CASE ~\E now \in Readings, i \in Id : DeleteLineage(now, i)
      <3>1. r.id \in Ids(sessions') /\ s.id \in Ids(sessions')
        BY <2>1, <2>2, <2>5, AliveStays
      <3> QED
        BY <2>1, <2>2, <2>3, <3>1
    <2> QED
      BY <2>4, <2>5
  <1> QED
    BY <1>1, TablesInvHolds, PTL DEF SQLiteSpec, FamiliesGoTogether
=============================================================================
