---------------------------- MODULE DocumentsProofs ---------------------------
(***************************************************************************)
(* What becomes of the documents of one review, whatever is uploaded,      *)
(* whatever the provider answers and however the threads of the pool       *)
(* interleave: the digests cost a bounded number of requests, no text is   *)
(* lost or misplaced between an upload and the evidence, and nothing is    *)
(* left out, sampled or summarised in silence.                             *)
(*                                                                         *)
(* The last two rest on one observation: once the documents are read, all  *)
(* but the calls of the pool is a function of the uploads and of the       *)
(* results.  The invariant DocInv states these equations; what they imply  *)
(* is then a matter of the operators alone, and most of this module is     *)
(* about those: what is cut, planned, selected and counted.                *)
(***************************************************************************)
EXTENDS Documents, IterationLemmas

-----------------------------------------------------------------------------
(***************************************************************************)
(* The requests of the pool.                                               *)
(***************************************************************************)
\* The jobs that have a request in the constrained form under way.
Constrained == {j \in Running : call[j].form = "constrained"}

\* How many requests a job has made, by how far it has come: a first round in either form,
\* the other form or a second round after that, and a second round in the other form.
Spent(c) ==
    /\ c.form \in {"constrained", "prompted"} /\ c.round \in {1, 2}
    /\ c.try \in Nat /\ c.try <= MaxTry /\ c.requests \in Nat
    /\ c.round = 1 /\ c.form = "constrained" => c.requests <= c.try
    /\ c.round = 1 \/ c.form = "constrained" => c.requests <= MaxTry + c.try
    /\ c.requests <= 2 * MaxTry + c.try

\* A job that runs knows the form the shared switch asks for, or an earlier one.
CallFits(c) ==
    /\ c.stage \in {"queued", "asking", "excluded", "digested"}
    /\ c.stage = "queued" => c.requests = 0
    /\ c.stage = "asking" => Spent(c) /\ (c.form = "prompted" => promptSchema)

PoolInv ==
    /\ DOMAIN call = DOMAIN jobs
    /\ pc \in {"extract", "research", "plan"} => DOMAIN jobs = {}
    /\ \A j \in DOMAIN call : CallFits(call[j])
    /\ promptSchema \in BOOLEAN
    /\ IsFiniteSet(Running) /\ Cardinality(Running) <= Workers
    /\ refusals \in Nat /\ refusals + Cardinality(Constrained) <= Workers
    /\ refusals > 0 => promptSchema

LEMMA Positive == MaxTry \in Nat /\ MaxTry >= 1 /\ Workers \in Nat /\ Workers >= 1
  <1>1. {MaxTry, Workers} \subseteq Nat \ {0}
    BY DocumentsAssumption
  <1> QED
    BY <1>1

LEMMA ConstrainedFacts ==
    ASSUME PoolInv
    PROVE  /\ Constrained \subseteq Running /\ IsFiniteSet(Constrained)
           /\ Cardinality(Constrained) \in Nat /\ Cardinality(Running) \in Nat
           /\ Cardinality(Constrained) <= Cardinality(Running)
  <1>1. Constrained \in SUBSET Running
    BY DEF Constrained
  <1>2. IsFiniteSet(Running)
    BY DEF PoolInv
  <1>3. IsFiniteSet(Constrained) /\ Cardinality(Constrained) <= Cardinality(Running)
    BY <1>1, <1>2, FS_Subset
  <1> QED
    BY <1>1, <1>2, <1>3, FS_CardinalityType

-----------------------------------------------------------------------------
(***************************************************************************)
(* Only the call of j changes.                                             *)
(***************************************************************************)
OnlyCall(j, c) == call' = [call EXCEPT ![j] = c]

LEMMA CallMoves ==
    ASSUME PoolInv, NEW j \in DOMAIN call, NEW c, OnlyCall(j, c)
    PROVE  /\ DOMAIN call' = DOMAIN call /\ call'[j] = c
           /\ \A k \in DOMAIN call : k # j => call'[k] = call[k]
           /\ Running' = IF c.stage = "asking" THEN Running \union {j} ELSE Running \ {j}
           /\ Constrained' = IF c.stage = "asking" /\ c.form = "constrained"
                             THEN Constrained \union {j} ELSE Constrained \ {j}
  <1>1. /\ DOMAIN call' = DOMAIN call /\ call'[j] = c
        /\ \A k \in DOMAIN call : k # j => call'[k] = call[k]
    BY DEF OnlyCall
  <1>2. Running' = IF c.stage = "asking" THEN Running \union {j} ELSE Running \ {j}
    BY <1>1 DEF Running
  <1>3. Constrained' = IF c.stage = "asking" /\ c.form = "constrained"
                       THEN Constrained \union {j} ELSE Constrained \ {j}
    BY <1>1, <1>2 DEF Constrained, Running
  <1> QED
    BY <1>1, <1>2, <1>3

\* What a step of the pool may do to the call of j.
Charge(j, c) ==
    /\ OnlyCall(j, c) /\ UNCHANGED jobs /\ pc \notin {"extract", "research", "plan"}
    /\ pc' = pc
    /\ CallFits(c)'
    /\ c.stage = "asking" /\ j \notin Running => Cardinality(Running) < Workers
    /\ \/ /\ UNCHANGED <<promptSchema, refusals>>
          /\ c.stage = "asking" /\ c.form = "constrained" /\ j \notin Constrained => ~promptSchema
       \/ /\ promptSchema' = TRUE /\ refusals' = refusals + 1
          /\ j \in Constrained /\ c.form = "prompted"

LEMMA ChargeKeepsPool ==
    ASSUME PoolInv, NEW j \in DOMAIN jobs, NEW c, Charge(j, c)
    PROVE  PoolInv'
  <1>1. j \in DOMAIN call /\ OnlyCall(j, c)
    BY DEF PoolInv, Charge
  <1>2. /\ DOMAIN call' = DOMAIN call /\ call'[j] = c
        /\ \A k \in DOMAIN call : k # j => call'[k] = call[k]
        /\ Running' = IF c.stage = "asking" THEN Running \union {j} ELSE Running \ {j}
        /\ Constrained' = IF c.stage = "asking" /\ c.form = "constrained"
                          THEN Constrained \union {j} ELSE Constrained \ {j}
    BY <1>1, CallMoves
  <1>3. /\ DOMAIN call' = DOMAIN jobs' /\ pc' = pc
        /\ pc' \in {"extract", "research", "plan"} => DOMAIN jobs' = {}
    BY <1>2 DEF PoolInv, Charge
  <1>4. promptSchema' \in BOOLEAN /\ (promptSchema => promptSchema') /\ refusals' \in Nat
        /\ (refusals' > 0 => promptSchema')
    <2>1. promptSchema \in BOOLEAN /\ refusals \in Nat /\ (refusals > 0 => promptSchema)
      BY DEF PoolInv
    <2>2. CASE UNCHANGED <<promptSchema, refusals>>
      BY <2>1, <2>2
    <2>3. CASE promptSchema' = TRUE /\ refusals' = refusals + 1
      BY <2>1, <2>3
    <2> QED
      BY <2>2, <2>3 DEF Charge
  <1>5. \A k \in DOMAIN call' : CallFits(call[k])'
    BY <1>2, <1>4 DEF PoolInv, Charge, CallFits
  <1>6. /\ Constrained \subseteq Running /\ IsFiniteSet(Constrained) /\ IsFiniteSet(Running)
        /\ Cardinality(Constrained) \in Nat /\ Cardinality(Running) \in Nat
        /\ Cardinality(Constrained) <= Cardinality(Running)
    BY ConstrainedFacts DEF PoolInv
  <1>7. /\ IsFiniteSet(Running \union {j}) /\ IsFiniteSet(Running \ {j})
        /\ Cardinality(Running \union {j}) = IF j \in Running THEN Cardinality(Running)
                                             ELSE Cardinality(Running) + 1
        /\ Cardinality(Running \ {j}) = IF j \in Running THEN Cardinality(Running) - 1
                                        ELSE Cardinality(Running)
    BY <1>6, FS_AddElement, FS_RemoveElement
  <1>8. /\ Cardinality(Constrained \union {j}) = IF j \in Constrained THEN Cardinality(Constrained)
                                                 ELSE Cardinality(Constrained) + 1
        /\ Cardinality(Constrained \ {j}) = IF j \in Constrained THEN Cardinality(Constrained) - 1
                                            ELSE Cardinality(Constrained)
    BY <1>6, FS_AddElement, FS_RemoveElement
  <1>9. IsFiniteSet(Running') /\ Cardinality(Running') <= Workers /\ Cardinality(Running') \in Nat
    BY <1>2, <1>6, <1>7, Positive, FS_CardinalityType DEF PoolInv, Charge
  <1>10. refusals' + Cardinality(Constrained') <= Workers
    <2>1. /\ refusals \in Nat /\ refusals + Cardinality(Constrained) <= Workers
          /\ refusals > 0 => promptSchema
      BY DEF PoolInv
    <2>2. CASE promptSchema' = TRUE /\ refusals' = refusals + 1 /\ j \in Constrained /\ c.form = "prompted"
      <3>1. Constrained' = Constrained \ {j}
        BY <1>2, <2>2
      <3> QED
        BY <1>6, <1>8, <2>1, <2>2, <3>1, Positive
    <2>3. CASE /\ UNCHANGED <<promptSchema, refusals>>
               /\ c.stage = "asking" /\ c.form = "constrained" /\ j \notin Constrained => ~promptSchema
      <3>1. CASE c.stage = "asking" /\ c.form = "constrained" /\ j \notin Constrained
        <4>1. refusals' = 0
          BY <2>1, <2>3, <3>1
        <4>2. Constrained' \in SUBSET Running'
          BY <1>2, <1>6, <3>1
        <4>3. Cardinality(Constrained') <= Cardinality(Running') /\ Cardinality(Constrained') \in Nat
          BY <1>9, <4>2, FS_Subset, FS_CardinalityType
        <4> QED
          BY <1>9, <4>1, <4>3, Positive
      <3>2. CASE ~(c.stage = "asking" /\ c.form = "constrained") \/ j \in Constrained
        <4>1. Cardinality(Constrained') <= Cardinality(Constrained) /\ Cardinality(Constrained') \in Nat
          <5>1. CASE Constrained' = Constrained \ {j}
            BY <1>6, <1>8, <5>1, FS_RemoveElement, FS_CardinalityType
          <5>2. CASE Constrained' = Constrained \union {j} /\ j \in Constrained
            BY <1>6, <1>8, <5>2
          <5> QED
            BY <1>2, <3>2, <5>1, <5>2
        <4> QED
          BY <1>6, <2>1, <2>3, <4>1, Positive
      <3> QED
        BY <3>1, <3>2
    <2> QED
      BY <2>2, <2>3 DEF Charge
  <1> QED
    BY <1>3, <1>4, <1>5, <1>9, <1>10 DEF PoolInv
-----------------------------------------------------------------------------
(***************************************************************************)
(* The steps of the pool.                                                  *)
(***************************************************************************)
LEMMA QueuedFits == Queued.stage = "queued" /\ Queued.requests = 0
  BY DEF Queued

LEMMA AskingLemma ==
    ASSUME NEW c, NEW round, NEW form
    PROVE  /\ Asking(c, round, form).stage = "asking" /\ Asking(c, round, form).form = form
           /\ Asking(c, round, form).round = round /\ Asking(c, round, form).try = 1
           /\ Asking(c, round, form).requests = c.requests + 1
  BY DEF Asking

LEMMA FormLemma ==
    ASSUME promptSchema \in BOOLEAN
    PROVE  /\ Form \in {"constrained", "prompted"}
           /\ Form = "prompted" <=> promptSchema
  BY DEF Form

\* A call that ends costs nothing more.
LEMMA EndedIsCharge ==
    ASSUME PoolInv, NEW j \in DOMAIN jobs, pc \notin {"extract", "research", "plan"},
           NEW stage \in {"excluded", "digested"}, NEW cited,
           Ended(j, stage, cited), UNCHANGED <<pc, jobs, promptSchema, refusals>>
    PROVE  \E c : Charge(j, c)
  <1> DEFINE c == [stage |-> stage, cited |-> cited]
  <1>1. OnlyCall(j, c) /\ c.stage = stage
    BY DEF OnlyCall, Ended
  <1> HIDE DEF c
  <1>2. Charge(j, c)
    BY <1>1 DEF Charge, CallFits
  <1> QED
    BY <1>2

LEMMA PoolStepIsCharge ==
    ASSUME PoolInv, NEW j \in DOMAIN jobs, StartDigest(j) \/ Request(j),
           pc \notin {"extract", "research", "plan"}
    PROVE  \E c : Charge(j, c)
  <1>1. /\ j \in DOMAIN call /\ CallFits(call[j])
        /\ UNCHANGED <<pc, jobs>> /\ promptSchema \in BOOLEAN
        /\ (j \in Running <=> call[j].stage = "asking")
        /\ (j \in Constrained <=> call[j].stage = "asking" /\ call[j].form = "constrained")
    BY DEF PoolInv, StartDigest, Request, TransientError, RequestFails, GrammarTooLarge,
           SchemaInvalid, Digested, pool, intake, Running, Constrained
  <1>2. MaxTry \in Nat /\ MaxTry >= 1 /\ Form \in {"constrained", "prompted"}
        /\ (Form = "prompted" <=> promptSchema)
    BY <1>1, Positive, FormLemma
  <1>3. CASE StartDigest(j)
    <2>1. CASE DocumentCharacters(JobDocument(jobs[j])) > DigestMax
      BY <1>1, <1>3, <2>1, EndedIsCharge DEF StartDigest
    <2>2. CASE ~(DocumentCharacters(JobDocument(jobs[j])) > DigestMax)
      <3>1. PICK c : c = Asking(call[j], 1, Form) /\ OnlyCall(j, c)
        BY <1>1, <1>3, <2>2 DEF StartDigest, OnlyCall
      <3>2. /\ c.stage = "asking" /\ c.form = Form /\ c.round = 1 /\ c.try = 1
            /\ c.requests = 1
        BY <1>1, <1>3, <3>1, AskingLemma DEF StartDigest, CallFits
      <3>3. /\ UNCHANGED <<promptSchema, refusals>> /\ Cardinality(Running) < Workers
        BY <1>3 DEF StartDigest
      <3>4. Spent(c)
        BY <1>2, <3>2 DEF Spent
      <3>5. CallFits(c)'
        BY <1>2, <3>2, <3>3, <3>4 DEF CallFits
      <3> QED
        BY <1>1, <1>2, <3>1, <3>2, <3>3, <3>5 DEF Charge
    <2> QED
      BY <2>1, <2>2
  <1>4. CASE TransientError(j)
    <2>0. call[j].stage = "asking" /\ call[j].try < MaxTry /\ Spent(call[j])
      BY <1>1, <1>4 DEF TransientError, CallFits
    <2>1. PICK c : c = [call[j] EXCEPT !.try = @ + 1, !.requests = @ + 1] /\ OnlyCall(j, c)
      BY <1>1, <1>4 DEF TransientError, OnlyCall
    <2>2. /\ c.stage = call[j].stage /\ c.form = call[j].form /\ c.round = call[j].round
          /\ c.try = call[j].try + 1 /\ c.requests = call[j].requests + 1
      BY <2>1
    <2>3. UNCHANGED <<promptSchema, refusals>>
      BY <1>4 DEF TransientError
    <2>4. Spent(c)
      BY <1>2, <2>0, <2>2 DEF Spent
    <2>5. CallFits(c)'
      BY <1>1, <2>0, <2>2, <2>3, <2>4 DEF CallFits
    <2> QED
      BY <1>1, <2>0, <2>1, <2>2, <2>3, <2>5 DEF Charge
  <1>5. CASE RequestFails(j)
    BY <1>1, <1>5, EndedIsCharge DEF RequestFails
  <1>6. CASE Digested(j)
    BY <1>1, <1>6, EndedIsCharge DEF Digested
  <1>7. CASE GrammarTooLarge(j)
    <2>0. call[j].stage = "asking" /\ call[j].form = "constrained" /\ Spent(call[j])
      BY <1>1, <1>7 DEF GrammarTooLarge, CallFits
    <2>1. PICK c : c = Asking(call[j], call[j].round, "prompted") /\ OnlyCall(j, c)
      BY <1>1, <1>7 DEF GrammarTooLarge, OnlyCall
    <2>2. /\ c.stage = "asking" /\ c.form = "prompted" /\ c.round = call[j].round /\ c.try = 1
          /\ c.requests = call[j].requests + 1
      BY <2>1, AskingLemma
    <2>3. promptSchema' = TRUE /\ refusals' = refusals + 1
      BY <1>7 DEF GrammarTooLarge
    <2>4. Spent(c)
      BY <1>2, <2>0, <2>2 DEF Spent
    <2>5. CallFits(c)'
      BY <2>2, <2>3, <2>4 DEF CallFits
    <2> QED
      BY <1>1, <2>0, <2>1, <2>2, <2>3, <2>5 DEF Charge
  <1>8. CASE SchemaInvalid(j)
    <2>0. call[j].stage = "asking" /\ Spent(call[j]) /\ (call[j].form = "prompted" => promptSchema)
      BY <1>1, <1>8 DEF SchemaInvalid, CallFits
    <2>1. CASE call[j].round = 1
      <3>1. PICK c : c = Asking(call[j], 2, Form) /\ OnlyCall(j, c)
        BY <1>1, <1>8, <2>1 DEF SchemaInvalid, OnlyCall
      <3>2. /\ c.stage = "asking" /\ c.form = Form /\ c.round = 2 /\ c.try = 1
            /\ c.requests = call[j].requests + 1
        BY <3>1, AskingLemma
      <3>3. UNCHANGED <<promptSchema, refusals>>
        BY <1>8 DEF SchemaInvalid
      <3>4. Spent(c)
        BY <1>2, <2>0, <2>1, <3>2 DEF Spent
      <3>5. CallFits(c)'
        BY <1>2, <3>2, <3>3, <3>4 DEF CallFits
      <3> QED
        BY <1>1, <1>2, <2>0, <3>1, <3>2, <3>3, <3>5 DEF Charge
    <2>2. CASE call[j].round # 1
      BY <1>1, <1>8, <2>2, EndedIsCharge DEF SchemaInvalid
    <2> QED
      BY <2>1, <2>2
  <1> QED
    BY <1>3, <1>4, <1>5, <1>6, <1>7, <1>8 DEF Request

\* The steps of the main thread leave the calls alone, but for the plan, which makes them.
LEMMA PlanStartsPool ==
    ASSUME PoolInv, Plan
    PROVE  PoolInv'
  <1>1. /\ DOMAIN call' = DOMAIN jobs' /\ \A j \in DOMAIN call' : call'[j] = Queued
        /\ UNCHANGED <<promptSchema, refusals>> /\ pc' = "digest" /\ DOMAIN jobs = {}
    BY DEF Plan, PoolInv
  <1>2. Running' = {} /\ Constrained' = {}
    BY <1>1, QueuedFits DEF Running, Constrained
  <1>3. \A j \in DOMAIN call' : CallFits(call[j])'
    BY <1>1, QueuedFits DEF CallFits
  <1>4. refusals \in Nat /\ refusals <= Workers
    BY ConstrainedFacts, Positive DEF PoolInv
  <1> QED
    BY <1>1, <1>2, <1>3, <1>4, FS_EmptySet, Positive DEF PoolInv

LEMMA MainThreadKeepsPool ==
    ASSUME PoolInv, UNCHANGED <<call, jobs, promptSchema, refusals>>,
           pc' \in {"extract", "research", "plan"} => pc \in {"extract", "research", "plan"}
    PROVE  PoolInv'
  BY DEF PoolInv, Running, Constrained, CallFits, Spent

LEMMA NextKeepsPool == PoolInv /\ [DocumentsNext]_documentsVars => PoolInv'
  <1> SUFFICES ASSUME PoolInv, [DocumentsNext]_documentsVars PROVE PoolInv'
    OBVIOUS
  <1>1. ASSUME NEW j \in DOMAIN jobs, StartDigest(j) \/ Request(j) PROVE PoolInv'
    <2>1. pc \notin {"extract", "research", "plan"}
      BY <1>1 DEF PoolInv
    <2> QED
      BY <1>1, <2>1, PoolStepIsCharge, ChargeKeepsPool
  <1>2. CASE Extract \/ ReadInFull
    BY <1>2, MainThreadKeepsPool DEF Extract, ReadInFull, Fail
  <1>3. CASE Plan
    BY <1>3, PlanStartsPool
  <1>4. CASE PlanFails \/ Collect \/ ProgressFails \/ LeavePool \/ BuildEvidence \/ Publish
             \/ ReviewFails
    BY <1>4, MainThreadKeepsPool
       DEF PlanFails, Collect, ProgressFails, LeavePool, BuildEvidence, Publish, ReviewFails,
           Fail, intake
  <1>5. CASE UNCHANGED documentsVars
    BY <1>5, MainThreadKeepsPool DEF documentsVars
  <1> QED
    BY <1>1, <1>2, <1>3, <1>4, <1>5 DEF DocumentsNext, Finish

LEMMA PoolInvHolds == DocumentsSpec => []PoolInv
  <1>1. DocumentsInit => PoolInv
    <2> SUFFICES ASSUME DocumentsInit PROVE PoolInv
      OBVIOUS
    <2>1. /\ DOMAIN call = {} /\ DOMAIN jobs = {} /\ promptSchema = FALSE /\ refusals = 0
      BY DEF DocumentsInit
    <2>2. Running = {} /\ Constrained = {}
      BY <2>1 DEF Running, Constrained
    <2>3. /\ IsFiniteSet(Running) /\ Cardinality(Running) = 0
          /\ Cardinality(Constrained) = 0
      BY <2>2, FS_EmptySet, Zenon
    <2>4. \A j \in DOMAIN call : CallFits(call[j])
      BY <2>1
    <2>5. DOMAIN call = DOMAIN jobs /\ (pc \in {"extract", "research", "plan"} => DOMAIN jobs = {})
      BY <2>1, Zenon
    <2>6. /\ refusals \in Nat /\ refusals + Cardinality(Constrained) <= Workers
          /\ Cardinality(Running) <= Workers /\ ~(refusals > 0)
      <3>1. refusals = 0
        BY DEF DocumentsInit
      <3> QED
        BY <2>3, <3>1, Positive
    <2>7. promptSchema \in BOOLEAN
      BY DEF DocumentsInit
    <2> QED
      BY <2>3, <2>4, <2>5, <2>6, <2>7, Zenon DEF PoolInv
  <1> QED
    BY <1>1, NextKeepsPool, PTL DEF DocumentsSpec

\* Whatever the provider answers to whom: no document costs more than three series of
\* transient retries, and no more requests are refused for the schema than there are threads.
THEOREM DigestsCostIsBounded == DocumentsSpec => []ProviderCostIsBounded
  <1>1. PoolInv => CallsAreBounded
    <2> SUFFICES ASSUME PoolInv, NEW j \in DOMAIN call, call[j].stage = "asking"
                 PROVE  call[j].requests <= 3 * MaxTry
      BY DEF CallsAreBounded
    <2>1. Spent(call[j])
      BY DEF PoolInv, CallFits
    <2> QED
      BY <2>1, Positive DEF Spent
  <1>2. PoolInv => RefusalsAreFew
    BY ConstrainedFacts, Positive DEF PoolInv, RefusalsAreFew
  <1> QED
    BY <1>1, <1>2, PoolInvHolds, PTL DEF ProviderCostIsBounded

-----------------------------------------------------------------------------
(***************************************************************************)
(* Flattened sequences.                                                    *)
(***************************************************************************)
Flattens(T, ss, f) ==
    /\ f \in [0 .. Len(ss) -> Seq(T)] /\ f[0] = <<>> /\ FlattenSeq(ss) = f[Len(ss)]
    /\ \A n \in 1 .. Len(ss) : f[n] = f[n - 1] \o ss[n]

LEMMA FlattenLoop ==
    ASSUME NEW T, NEW ss \in Seq(Seq(T))
    PROVE  \E f : Flattens(T, ss, f)
  <1> DEFINE N == Len(ss)
             S == Seq(T)
             G == [p \in (1 .. N) \X S |-> p[2] \o ss[p[1]]]
             Fits(g) == g = [i \in 1 .. N |-> IF i = 1 THEN ss[i] ELSE g[i - 1] \o ss[i]]
             r == CHOOSE g : Fits(g)
  <1>1. FlattenSeq(ss) = IF N = 0 THEN ss ELSE r[N]
    BY DEF FlattenSeq
  <1>2. N \in Nat /\ (\A n \in 1 .. N : ss[n] \in S) /\ <<>> \in S /\ (N = 0 => ss = <<>>)
        /\ \A s \in S, t \in S : s \o t \in S
    OBVIOUS
  <1>3. \A t \in S : <<>> \o t = t
    OBVIOUS
  <1> HIDE DEF r, N, S
  <1>4. G \in [(1 .. N) \X S -> S] /\ \A n \in 1 .. N : \A s \in S : G[<<n, s>>] = s \o ss[n]
    BY <1>2
  <1> HIDE DEF G
  <1>5. PICK f \in [0 .. N -> S] : f[0] = <<>> /\ \A n \in 1 .. N : f[n] = G[<<n, f[n - 1]>>]
    <2>1. Loopable(S, <<>>, N, G)
      BY <1>2, <1>4 DEF Loopable
    <2> QED
      BY <2>1, LoopExists
  <1>6. \A n \in 1 .. N : n \in 0 .. N /\ n - 1 \in 0 .. N /\ (n # 1 => n - 1 \in 1 .. N)
    BY <1>2
  <1>7. \A n \in 1 .. N : f[n] = f[n - 1] \o ss[n]
    BY <1>4, <1>5, <1>6
  <1> DEFINE h == [i \in 1 .. N |-> f[i]]
  <1>8. Fits(h)
    <2>1. \A i \in 1 .. N : f[i] = IF i = 1 THEN ss[i] ELSE f[i - 1] \o ss[i]
      <3> SUFFICES ASSUME NEW i \in 1 .. N, i = 1 PROVE f[i] = ss[i]
        BY <1>7
      <3>1. i - 1 = 0
        OBVIOUS
      <3>2. f[i] = f[0] \o ss[i]
        BY <1>7, <3>1
      <3> QED
        BY <1>2, <1>3, <1>5, <3>2
    <2>2. \A i \in 1 .. N : h[i] = f[i] /\ (i # 1 => h[i - 1] = f[i - 1])
      BY <1>6
    <2>3. \A i \in 1 .. N : h[i] = IF i = 1 THEN ss[i] ELSE h[i - 1] \o ss[i]
      BY <2>1, <2>2
    <2>4. h = [i \in 1 .. N |-> h[i]]
      OBVIOUS
    <2> HIDE DEF h
    <2> QED
      BY <2>3, <2>4
  <1>9. Fits(r)
    <2> HIDE DEF Fits, h
    <2> QED
      BY <1>8 DEF r
  <1>10. \A i \in 1 .. N : r[i] = IF i = 1 THEN ss[i] ELSE r[i - 1] \o ss[i]
    BY <1>9
  <1> HIDE DEF Fits, h
  <1> DEFINE R == {n \in 0 .. N : n = 0 \/ r[n] = f[n]}
  <1>11. ASSUME NEW n \in 1 .. N, n - 1 \in R PROVE n \in R
    <2>1. CASE n = 1
      <3>0. n - 1 = 0
        BY <2>1
      <3>1. f[n] = f[0] \o ss[n]
        BY <1>7, <3>0
      <3> QED
        BY <1>2, <1>3, <1>5, <1>6, <1>10, <2>1, <3>1
    <2>2. CASE n # 1
      <3>1. r[n - 1] = f[n - 1]
        BY <1>11, <2>2
      <3> QED
        BY <1>6, <1>7, <1>10, <2>2, <3>1
    <2> QED
      BY <2>1, <2>2
  <1>12. N \in R
    <2>1. 0 \in R
      BY <1>2
    <2> HIDE DEF R
    <2>2. \A n \in 0 .. N : n \in R
      BY <1>2, <1>11, <2>1, EveryRound
    <2> QED
      BY <1>2, <2>2
  <1>13. FlattenSeq(ss) = f[N]
    BY <1>1, <1>2, <1>5, <1>12
  <1> QED
    BY <1>5, <1>7, <1>13 DEF Flattens, N, S

\* A value occurs in a flattened sequence as often as in its parts.
LEMMA OccurrencesInFlat ==
    ASSUME NEW T, NEW ss \in Seq(Seq(T)), NEW w
    PROVE  LET parts == [i \in DOMAIN ss |-> Occurrences(w, ss[i])]
           IN  /\ parts \in Seq(Nat) /\ DOMAIN parts = DOMAIN ss /\ FlattenSeq(ss) \in Seq(T)
               /\ Occurrences(w, FlattenSeq(ss)) = Total(parts, DOMAIN parts)
  <1> DEFINE parts == [i \in DOMAIN ss |-> Occurrences(w, ss[i])]
             N == Len(ss)
  <1>1. N \in Nat /\ DOMAIN ss = 1 .. N /\ \A n \in 1 .. N : ss[n] \in Seq(T)
    OBVIOUS
  <1>2. \A n \in 1 .. N : Occurrences(w, ss[n]) \in Nat
    BY <1>1, OccurrencesTotal
  <1>3. parts \in Seq(Nat) /\ DOMAIN parts = 1 .. N /\ Len(parts) = N
    <2>1. parts \in [1 .. N -> Nat]
      BY <1>1, <1>2
    <2> QED
      BY <1>1, <2>1
  <1>4. \A n \in 1 .. N : parts[n] = Occurrences(w, ss[n])
    BY <1>1
  <1> HIDE DEF parts
  <1>5. PICK f : Flattens(T, ss, f)
    BY FlattenLoop
  <1>6. PICK g : Sums(parts, DOMAIN parts, g)
    BY <1>3, TotalLoop
  <1> DEFINE R == {n \in 0 .. N : Occurrences(w, f[n]) = g[n]}
  <1>7. 0 \in R
    <2>1. f[0] = <<>> /\ g[0] = 0
      BY <1>5, <1>6 DEF Flattens, Sums
    <2>2. {i \in DOMAIN <<>> : <<>>[i] = w} = {}
      OBVIOUS
    <2>3. Occurrences(w, <<>>) = 0
      BY <2>2, FS_EmptySet DEF Occurrences
    <2> QED
      BY <1>1, <2>1, <2>3
  <1>8. ASSUME NEW n \in 1 .. N, n - 1 \in R PROVE n \in R
    <2>1. n \in 0 .. N /\ n - 1 \in 0 .. N /\ f[n - 1] \in Seq(T) /\ f[n] = f[n - 1] \o ss[n]
      <3>1. n \in 0 .. N /\ n - 1 \in 0 .. N
        BY <1>1
      <3>2. f \in [0 .. N -> Seq(T)] /\ f[n] = f[n - 1] \o ss[n]
        BY <1>5 DEF Flattens
      <3> QED
        BY <3>1, <3>2
    <2>2. g[n] = g[n - 1] + parts[n]
      BY <1>3, <1>6 DEF Sums
    <2>3. Occurrences(w, f[n - 1] \o ss[n]) = Occurrences(w, f[n - 1]) + Occurrences(w, ss[n])
      BY <1>1, <2>1, OccurrencesInBoth
    <2>4. Occurrences(w, f[n - 1]) = g[n - 1]
      BY <1>8
    <2> QED
      BY <1>4, <2>1, <2>2, <2>3, <2>4
  <1>9. N \in R
    <2> HIDE DEF R
    <2>1. \A n \in 0 .. N : n \in R
      BY <1>1, <1>7, <1>8, EveryRound
    <2> QED
      BY <1>1, <2>1
  <1>10. FlattenSeq(ss) = f[N] /\ f[N] \in Seq(T)
    BY <1>1, <1>5 DEF Flattens
  <1>11. Total(parts, DOMAIN parts) = g[N]
    BY <1>3, <1>6 DEF Sums
  <1> QED
    BY <1>1, <1>3, <1>9, <1>10, <1>11 DEF parts

-----------------------------------------------------------------------------
(***************************************************************************)
(* The pages of a sample.                                                  *)
(***************************************************************************)
LEMMA ExtractionConstants ==
    /\ SamplePages \in Nat \ {0} /\ SamplePrefix \in Nat \ {0}
    /\ SegmentCharacters \in Nat /\ SegmentCharacters >= 2
  <1>1. {SamplePages, SamplePrefix} \subseteq Nat \ {0} /\ SegmentCharacters \in Nat \ {0, 1}
    BY ExtractionAssumption
  <1>2. SamplePages \in {SamplePages, SamplePrefix} /\ SamplePrefix \in {SamplePages, SamplePrefix}
    OBVIOUS
  <1>3. SamplePages \in Nat \ {0} /\ SamplePrefix \in Nat \ {0}
    BY <1>1, <1>2
  <1> QED
    BY <1>1, <1>3

\* Rounding is off by a half at most.
LEMMA RoundedBounds ==
    ASSUME NEW a \in Nat, NEW b \in Nat \ {0}
    PROVE  /\ Rounded(a, b) \in Nat
           /\ 2 * (b * Rounded(a, b)) <= 2 * a + b /\ 2 * a <= 2 * (b * Rounded(a, b)) + b
  <1> DEFINE q == a \div b
             r == a % b
  <1>1. q \in Nat /\ r \in Nat /\ r < b /\ a = b * q + r
    OBVIOUS
  <1>2. Rounded(a, b) = IF 2 * r > b \/ (2 * r = b /\ q % 2 = 1) THEN q + 1 ELSE q
    BY DEF Rounded
  <1> HIDE DEF q, r
  <1>3. b * (q + 1) = b * q + b /\ b * q \in Nat
    BY <1>1
  <1>4. CASE 2 * r > b \/ (2 * r = b /\ q % 2 = 1)
    <2>1. Rounded(a, b) = q + 1 /\ 2 * r >= b
      BY <1>1, <1>2, <1>4
    <2> QED
      BY <1>1, <1>3, <2>1
  <1>5. CASE ~(2 * r > b \/ (2 * r = b /\ q % 2 = 1))
    <2>1. Rounded(a, b) = q /\ 2 * r <= b
      BY <1>1, <1>2, <1>5
    <2> QED
      BY <1>1, <1>3, <2>1
  <1> QED
    BY <1>4, <1>5

LEMMA ProductGrows ==
    ASSUME NEW a \in Nat, NEW b \in Nat, NEW c \in Nat, a <= b
    PROVE  c * a <= c * b
  <1>1. PICK d \in Nat : b = a + d
    <2>1. b - a \in Nat /\ b = a + (b - a)
      OBVIOUS
    <2> QED
      BY <2>1
  <1>2. c * b = c * a + c * d /\ c * d \in Nat /\ c * a \in Nat
    BY <1>1
  <1> QED
    BY <1>2

\* What is more than one apart is not rounded to the same number.
LEMMA RoundedGrows ==
    ASSUME NEW x \in Nat, NEW y \in Nat, NEW b \in Nat \ {0}, y > x + b
    PROVE  Rounded(x, b) < Rounded(y, b)
  <1> SUFFICES ASSUME Rounded(y, b) <= Rounded(x, b) PROVE FALSE
    BY RoundedBounds
  <1>1. Rounded(x, b) \in Nat /\ Rounded(y, b) \in Nat
    BY RoundedBounds
  <1>2. b * Rounded(y, b) <= b * Rounded(x, b)
    BY <1>1, ProductGrows
  <1>3. 2 * (b * Rounded(x, b)) <= 2 * x + b /\ 2 * y <= 2 * (b * Rounded(y, b)) + b
    BY RoundedBounds
  <1>4. b * Rounded(x, b) \in Nat /\ b * Rounded(y, b) \in Nat
    BY <1>1
  <1> QED
    BY <1>2, <1>3, <1>4

\* The pages between the first ones and the last one: as many as there are slots, each in its
\* place.
LEMMA SpreadFacts ==
    ASSUME NEW room \in Nat, NEW slots \in Nat, room > slots, slots >= 1,
           NEW f \in [0 .. slots - 1 -> Nat],
           \A k \in 0 .. slots - 1 :
               f[k] = IF slots = 1 THEN 0 ELSE Rounded(k * (room - 1), slots - 1)
    PROVE  /\ \A k \in 0 .. slots - 1 : f[k] <= room - 1
           /\ \A k, l \in 0 .. slots - 1 : k < l => f[k] < f[l]
  <1>1. CASE slots = 1
    <2>1. \A k \in 0 .. slots - 1 : k = 0 /\ f[k] = 0
      BY <1>1
    <2> QED
      BY <1>1, <2>1
  <1>2. CASE slots # 1
    <2> DEFINE b == slots - 1
               a == room - 1
    <2>1. b \in Nat \ {0} /\ a \in Nat /\ a > b
      BY <1>2
    <2>2. \A k \in 0 .. b : k \in Nat /\ k <= b /\ f[k] = Rounded(k * a, b) /\ f[k] \in Nat
      BY <1>2
    <2> HIDE DEF a, b
    <2>3. ASSUME NEW k \in 0 .. b PROVE f[k] <= a
      <3>1. k * a = a * k /\ a * b = b * a /\ a * k \in Nat /\ a * b \in Nat /\ k * a \in Nat
        BY <2>1, <2>2
      <3>2. a * k <= a * b
        BY <2>1, <2>2, ProductGrows
      <3>3. 2 * (b * f[k]) <= 2 * (k * a) + b
        BY <2>1, <2>2, <3>1, RoundedBounds
      <3>4. 2 * (b * f[k]) <= 2 * (b * a) + b
        <4> DEFINE p == k * a
                   q == b * a
                   r == b * f[k]
        <4>1. r \in Nat /\ p \in Nat /\ q \in Nat
          BY <2>1, <2>2
        <4>2. p <= q
          BY <3>1, <3>2
        <4>3. 2 * r <= 2 * p + b
          BY <3>3
        <4> HIDE DEF p, q, r
        <4>4. 2 * r <= 2 * q + b
          BY <2>1, <4>1, <4>2, <4>3
        <4> QED
          BY <4>4 DEF q, r
      <3>5. SUFFICES ASSUME f[k] >= a + 1 PROVE FALSE
        BY <2>1, <2>2
      <3>6. b * (a + 1) <= b * f[k]
        <4>1. a + 1 \in Nat /\ f[k] \in Nat /\ b \in Nat
          BY <2>1, <2>2
        <4> QED
          BY <3>5, <4>1, ProductGrows
      <3>7. b * (a + 1) = b * a + b /\ b * a \in Nat /\ b * f[k] \in Nat
        BY <2>1, <2>2
      <3> QED
        BY <2>1, <3>4, <3>6, <3>7
    <2>4. ASSUME NEW k \in 0 .. b, NEW l \in 0 .. b, k < l PROVE f[k] < f[l]
      <3>1. k + 1 <= l /\ k \in Nat /\ l \in Nat /\ k + 1 \in Nat
        BY <2>2, <2>4
      <3>2. a * (k + 1) <= a * l
        BY <2>1, <3>1, ProductGrows
      <3>3. /\ a * (k + 1) = k * a + a /\ a * l = l * a
            /\ k * a \in Nat /\ l * a \in Nat
        BY <2>1, <3>1
      <3>4. l * a > k * a + b
        <4> DEFINE p == k * a
                   q == l * a
        <4>1. p \in Nat /\ q \in Nat /\ p + a <= q
          BY <3>2, <3>3
        <4> HIDE DEF p, q
        <4>2. q > p + b
          BY <2>1, <4>1
        <4> QED
          BY <4>2 DEF p, q
      <3>5. Rounded(k * a, b) < Rounded(l * a, b)
        BY <2>1, <3>3, <3>4, RoundedGrows
      <3> QED
        BY <2>2, <3>5
    <2> QED
      BY <2>3, <2>4 DEF a, b
  <1> QED
    BY <1>1, <1>2

\* A sample of a longer file has as many pages as it may have, the first and the last one
\* among them; a file that is not longer is read as a whole.
LEMMA DistributedFacts ==
    ASSUME NEW count \in Nat, NEW limit \in Nat \ {0}
    PROVE  LET D == DistributedPages(count, limit)
           IN  /\ D \in SUBSET (1 .. count) /\ IsFiniteSet(D)
               /\ count <= limit => D = 1 .. count
               /\ count > limit => Cardinality(D) = limit
               /\ count > limit /\ limit > 1 => {1, count} \subseteq D
  <1> DEFINE D == DistributedPages(count, limit)
             prefix == IF SamplePrefix < limit THEN SamplePrefix ELSE limit - 1
             slots == limit - prefix - 1
             room == count - 1 - prefix
             f == [k \in 0 .. slots - 1 |->
                      IF slots = 1 THEN 0 ELSE Rounded(k * (room - 1), slots - 1)]
             middle == {prefix + 1 + f[k] : k \in 0 .. slots - 1}
  <1>0. SamplePrefix \in Nat /\ SamplePrefix >= 1
    BY ExtractionConstants
  <1>1. SUFFICES /\ D \in SUBSET (1 .. count)
                 /\ count <= limit => D = 1 .. count
                 /\ count > limit => Cardinality(D) = limit
                 /\ count > limit /\ limit > 1 => {1, count} \subseteq D
    <2> HIDE DEF D
    <2>1. D \in SUBSET (1 .. count) => IsFiniteSet(D)
      <3>1. IsFiniteSet(1 .. count)
        <4>1. 1 \in Int /\ count \in Int
          OBVIOUS
        <4> QED
          BY <4>1, FS_Interval
      <3> QED
        BY <3>1, FS_Subset
    <2> QED
      BY <2>1 DEF D
  <1>2. CASE count <= limit
    <2>1. D = 1 .. count
      BY <1>2 DEF DistributedPages
    <2> QED
      BY <1>2, <2>1
  <1>3. CASE count > limit /\ limit = 1
    <2>1. D = {1}
      BY <1>3 DEF DistributedPages
    <2>2. Cardinality({1}) = 1
      BY FS_Singleton
    <2> HIDE DEF D
    <2> QED
      BY <1>3, <2>1, <2>2
  <1>4. CASE count > limit /\ limit > 1
    <2>1. /\ prefix \in Nat /\ prefix >= 1 /\ slots \in Nat /\ room \in Nat /\ room > slots
          /\ prefix + slots + 1 = limit /\ prefix + room + 1 = count
      BY <1>0, <1>4
    <2>2. D = 1 .. prefix \union middle \union {count}
      <3>1. D = 1 .. prefix
                \union {prefix + 1 + (IF slots = 1 THEN 0 ELSE Rounded(k * (room - 1), slots - 1)) :
                          k \in 0 .. slots - 1}
                \union {count}
        BY <1>4 DEF DistributedPages
      <3>2. \A k \in 0 .. slots - 1 :
               f[k] = IF slots = 1 THEN 0 ELSE Rounded(k * (room - 1), slots - 1)
        OBVIOUS
      <3>3. middle = {prefix + 1 + (IF slots = 1 THEN 0 ELSE Rounded(k * (room - 1), slots - 1)) :
                        k \in 0 .. slots - 1}
        OBVIOUS
      <3> QED
        BY <3>1, <3>3
    <2>3. f \in [0 .. slots - 1 -> Nat]
      <3> SUFFICES ASSUME NEW k \in 0 .. slots - 1, slots # 1
                   PROVE  Rounded(k * (room - 1), slots - 1) \in Nat
        OBVIOUS
      <3> DEFINE a == k * (room - 1)
                 b == slots - 1
      <3>1. a \in Nat /\ b \in Nat \ {0}
        <4>1. k \in Nat /\ room - 1 \in Nat
          BY <2>1
        <4>2. a \in Nat
          BY <4>1
        <4> QED
          BY <2>1, <4>2
      <3> HIDE DEF a, b
      <3>2. Rounded(a, b) \in Nat
        BY <3>1, RoundedBounds
      <3> QED
        BY <3>2 DEF a, b
    <2>4. \A k \in 0 .. slots - 1 :
             f[k] = IF slots = 1 THEN 0 ELSE Rounded(k * (room - 1), slots - 1)
      OBVIOUS
    <2> HIDE DEF f, slots, room, prefix
    <2>5. /\ \A k \in 0 .. slots - 1 : f[k] <= room - 1
          /\ \A k, l \in 0 .. slots - 1 : k < l => f[k] < f[l]
      <3>1. CASE slots = 0
        <4>1. \A k \in 0 .. slots - 1 : FALSE
          BY <3>1
        <4> QED
          BY <4>1
      <3>2. CASE slots # 0
        <4>1. slots >= 1
          BY <2>1, <3>2
        <4> QED
          BY <2>1, <2>3, <2>4, <4>1, SpreadFacts
      <3> QED
        BY <3>1, <3>2
    <2>6. \A k \in 0 .. slots - 1 : f[k] \in Nat
      BY <2>3
    <2>7. \A m \in middle : m \in Nat /\ prefix < m /\ m < count
      BY <2>1, <2>5, <2>6
    <2>8. IsFiniteSet(middle) /\ Cardinality(middle) = slots
      <3> DEFINE g == [k \in 0 .. slots - 1 |-> prefix + 1 + f[k]]
      <3>1. \A k, l \in 0 .. slots - 1 : g[k] = g[l] => k = l
        <4>1. ASSUME NEW k \in 0 .. slots - 1, NEW l \in 0 .. slots - 1, g[k] = g[l]
              PROVE  k = l
          <5>1. f[k] = f[l]
            BY <2>1, <2>6, <4>1
          <5>2. k \in Int /\ l \in Int
            OBVIOUS
          <5>3. ~(k < l) /\ ~(l < k)
            BY <2>5, <2>6, <5>1
          <5> QED
            BY <5>2, <5>3
        <4> QED
          BY <4>1
      <3>2. g \in Bijection(0 .. slots - 1, middle)
        <4>1. g \in [0 .. slots - 1 -> middle] /\ \A m \in middle : \E k \in 0 .. slots - 1 : g[k] = m
          OBVIOUS
        <4> HIDE DEF g, middle
        <4>2. g \in Injection(0 .. slots - 1, middle)
          BY <3>1, <4>1 DEF Injection, IsInjective
        <4>3. g \in Surjection(0 .. slots - 1, middle)
          BY <4>1 DEF Surjection
        <4> QED
          BY <4>2, <4>3 DEF Bijection
      <3>3. ExistsBijection(0 .. slots - 1, middle)
        BY <3>2 DEF ExistsBijection
      <3>4. IsFiniteSet(0 .. slots - 1) /\ Cardinality(0 .. slots - 1) = slots
        <4>1. 0 \in Int /\ slots - 1 \in Int
          BY <2>1
        <4> QED
          BY <2>1, <4>1, FS_Interval
      <3> HIDE DEF middle
      <3> QED
        BY <3>3, <3>4, FS_Bijection
    <2> HIDE DEF middle
    <2>9. IsFiniteSet(1 .. prefix) /\ Cardinality(1 .. prefix) = prefix
      BY <2>1, FS_Interval
    <2>10. (1 .. prefix) \intersect middle = {}
      BY <2>1, <2>7
    <2>11. IsFiniteSet(1 .. prefix \union middle) /\ Cardinality(1 .. prefix \union middle) = prefix + slots
      <3> DEFINE A == 1 .. prefix
      <3> HIDE DEF A
      <3>1. IsFiniteSet(A) /\ Cardinality(A) = prefix /\ A \intersect middle = {}
        BY <2>9, <2>10 DEF A
      <3>2. IsFiniteSet(A \union middle)
            /\ Cardinality(A \union middle)
                 = Cardinality(A) + Cardinality(middle) - Cardinality(A \intersect middle)
        BY <2>8, <3>1, FS_Union
      <3>3. Cardinality(A \intersect middle) = 0
        BY <3>1, FS_EmptySet
      <3> QED
        BY <2>1, <2>8, <3>1, <3>2, <3>3 DEF A
    <2>12. count \notin 1 .. prefix \union middle
      BY <2>1, <2>7
    <2>13. Cardinality(D) = limit
      <3> DEFINE A == 1 .. prefix \union middle
      <3> HIDE DEF A, D
      <3>1. D = A \union {count} /\ IsFiniteSet(A) /\ Cardinality(A) = prefix + slots /\ count \notin A
        BY <2>2, <2>11, <2>12 DEF A
      <3>2. Cardinality(A \union {count}) = Cardinality(A) + 1
        BY <3>1, FS_AddElement
      <3> QED
        BY <2>1, <3>1, <3>2
    <2>14. D \in SUBSET (1 .. count)
      <3>1. 1 .. prefix \subseteq 1 .. count /\ middle \subseteq 1 .. count /\ count \in 1 .. count
        BY <2>1, <2>7
      <3> HIDE DEF D
      <3> QED
        BY <2>2, <3>1
    <2>15. {1, count} \subseteq D
      <3>1. 1 \in 1 .. prefix
        BY <2>1
      <3> HIDE DEF D
      <3> QED
        BY <2>2, <3>1
    <2> HIDE DEF D
    <2> QED
      BY <1>4, <2>13, <2>14, <2>15
  <1> QED
    BY <1>2, <1>3, <1>4

-----------------------------------------------------------------------------
(***************************************************************************)
(* Plain texts and their chunks.                                           *)
(***************************************************************************)
Texts == Seq({Ink, Blank})

LEMMA OccursNowhere ==
    ASSUME NEW w, NEW s, \A i \in DOMAIN s : s[i] # w
    PROVE  Occurrences(w, s) = 0
  <1>1. {i \in DOMAIN s : s[i] = w} = {}
    OBVIOUS
  <1> QED
    BY <1>1, FS_EmptySet DEF Occurrences

LEMMA PartFacts ==
    ASSUME NEW T, NEW s \in Seq(T), NEW a \in Nat, NEW b \in Nat, 1 <= a, b <= Len(s), a <= b + 1
    PROVE  /\ SubSeq(s, a, b) \in Seq(T) /\ Len(SubSeq(s, a, b)) = b + 1 - a
           /\ \A i \in 1 .. b + 1 - a : SubSeq(s, a, b)[i] = s[a + i - 1]
  OBVIOUS

\* A sequence is the part up to a place and the part from there.
LEMMA PartsMakeWhole ==
    ASSUME NEW T, NEW s \in Seq(T), NEW m \in 0 .. Len(s)
    PROVE  /\ SubSeq(s, 1, m) \in Seq(T) /\ Len(SubSeq(s, 1, m)) = m
           /\ SubSeq(s, m + 1, Len(s)) \in Seq(T) /\ Len(SubSeq(s, m + 1, Len(s))) = Len(s) - m
           /\ s = SubSeq(s, 1, m) \o SubSeq(s, m + 1, Len(s))
           /\ \A w : Occurrences(w, s)
                       = Occurrences(w, SubSeq(s, 1, m)) + Occurrences(w, SubSeq(s, m + 1, Len(s)))
  <1> DEFINE u == SubSeq(s, 1, m)
             v == SubSeq(s, m + 1, Len(s))
  <1>1. /\ u \in Seq(T) /\ Len(u) = m /\ \A i \in 1 .. m : u[i] = s[i]
    BY PartFacts
  <1>2. /\ v \in Seq(T) /\ Len(v) = Len(s) - m /\ \A i \in 1 .. Len(s) - m : v[i] = s[m + i]
    <2>1. m + 1 \in Nat /\ Len(s) \in Nat /\ 1 <= m + 1 /\ m + 1 <= Len(s) + 1
      OBVIOUS
    <2>2. /\ v \in Seq(T) /\ Len(v) = Len(s) + 1 - (m + 1)
          /\ \A i \in 1 .. Len(s) + 1 - (m + 1) : v[i] = s[(m + 1) + i - 1]
      BY <2>1, PartFacts
    <2>3. Len(s) + 1 - (m + 1) = Len(s) - m
      OBVIOUS
    <2>4. \A i \in 1 .. Len(s) - m : (m + 1) + i - 1 = m + i
      OBVIOUS
    <2> HIDE DEF v
    <2> QED
      BY <2>2, <2>3, <2>4
  <1> HIDE DEF u, v
  <1>3. s = u \o v
    <2>1. /\ u \o v \in Seq(T) /\ DOMAIN (u \o v) = 1 .. Len(u) + Len(v)
          /\ \A n \in DOMAIN (u \o v) : (u \o v)[n] = IF n <= Len(u) THEN u[n] ELSE v[n - Len(u)]
      BY <1>1, <1>2, ConcatenationFacts
    <2>2. DOMAIN (u \o v) = DOMAIN s
      BY <1>1, <1>2, <2>1
    <2>3. ASSUME NEW n \in DOMAIN s PROVE s[n] = (u \o v)[n]
      <3>1. CASE n <= m
        BY <1>1, <1>2, <2>1, <2>2, <3>1
      <3>2. CASE ~(n <= m)
        <4>1. n - m \in 1 .. Len(s) - m /\ m + (n - m) = n
          BY <3>2
        <4>2. v[n - m] = s[n]
          BY <1>2, <4>1
        <4> QED
          BY <1>1, <2>1, <2>2, <3>2, <4>2
      <3> QED
        BY <3>1, <3>2
    <2> DEFINE uv == u \o v
    <2>4. uv \in Seq(T) /\ DOMAIN s = DOMAIN uv /\ \A n \in DOMAIN s : s[n] = uv[n]
      BY <2>1, <2>2, <2>3
    <2> HIDE DEF uv
    <2>5. s = uv
      BY <2>4, SequencesEqual
    <2> QED
      BY <2>5 DEF uv
  <1>4. ASSUME NEW w PROVE Occurrences(w, s) = Occurrences(w, u) + Occurrences(w, v)
    BY <1>1, <1>2, <1>3, OccurrencesInBoth
  <1> QED
    BY <1>1, <1>2, <1>3, <1>4 DEF u, v

\* A stripped text begins with ink, if it has any, and has all of it.
LEMMA StrippedFacts ==
    ASSUME NEW t \in Texts
    PROVE  /\ Stripped(t) \in Texts /\ Len(Stripped(t)) <= Len(t)
           /\ Occurrences(Ink, Stripped(t)) = Occurrences(Ink, t)
           /\ Stripped(t) = <<>> \/ Stripped(t)[1] = Ink
           /\ (\E i \in DOMAIN t : t[i] = Ink) => Stripped(t) # <<>>
  <1> DEFINE ink == {i \in DOMAIN t : t[i] = Ink}
  <1>1. t \in Seq({Ink, Blank}) /\ Len(t) \in Nat /\ DOMAIN t = 1 .. Len(t) /\ <<>> \in Texts
    BY DEF Texts
  <1>2. CASE ink = {}
    <2>1. Stripped(t) = <<>>
      BY <1>2 DEF Stripped
    <2>2. Occurrences(Ink, t) = 0 /\ Occurrences(Ink, <<>>) = 0
      BY <1>2, OccursNowhere
    <2> QED
      BY <1>1, <1>2, <2>1, <2>2
  <1>3. CASE ink # {}
    <2> DEFINE a == CHOOSE i \in ink : \A j \in ink : i <= j
               b == CHOOSE i \in ink : \A j \in ink : j <= i
    <2>1. Stripped(t) = SubSeq(t, a, b)
      BY <1>3 DEF Stripped
    <2>2. a \in ink /\ \A j \in ink : a <= j
      <3>1. ink \in SUBSET Nat
        BY <1>1
      <3>2. \E i \in ink : \A j \in ink : i <= j
        BY <1>3, <3>1, LeastNumber
      <3> QED
        BY <3>2
    <2>3. b \in ink /\ \A j \in ink : j <= b
      <3>1. \E i \in ink : \A j \in ink : j <= i
        <4> DEFINE upper == {n \in Nat : \A j \in ink : j <= n}
        <4>1. Len(t) \in upper
          BY <1>1
        <4>2. PICK m \in upper : \A n \in upper : m <= n
          BY <4>1, LeastNumber
        <4>3. m \in ink
          <5> SUFFICES ASSUME m \notin ink PROVE FALSE
            OBVIOUS
          <5>1. m \in Nat /\ \A j \in ink : j \in Nat /\ j <= m /\ j # m
            BY <1>1, <4>2
          <5>2. m # 0
            BY <1>1, <1>3, <5>1
          <5>3. m - 1 \in Nat /\ \A j \in ink : j <= m - 1
            BY <5>1, <5>2
          <5>4. m - 1 \in upper
            BY <5>3
          <5> HIDE DEF upper
          <5> QED
            BY <4>2, <5>1, <5>4
        <4> QED
          BY <4>2, <4>3
      <3> QED
        BY <3>1
    <2> HIDE DEF a, b
    <2>4. a \in 1 .. Len(t) /\ b \in 1 .. Len(t) /\ a <= b /\ t[a] = Ink
      BY <1>1, <2>2, <2>3
    <2> DEFINE core == SubSeq(t, a, b)
               head == SubSeq(t, 1, b)
    <2>5. /\ core \in Seq({Ink, Blank}) /\ Len(core) = b + 1 - a
          /\ \A i \in 1 .. b + 1 - a : core[i] = t[a + i - 1]
      BY <1>1, <2>4, PartFacts
    <2>6. core[1] = Ink /\ core # <<>> /\ Len(core) <= Len(t)
      <3>1. 1 \in 1 .. b + 1 - a /\ a + 1 - 1 = a
        BY <2>4
      <3> HIDE DEF core
      <3>2. core[1] = t[a]
        BY <2>5, <3>1
      <3> QED
        BY <1>1, <2>4, <2>5, <3>1, <3>2
    <2>7. Occurrences(Ink, core) = Occurrences(Ink, t)
      <3>1. b \in 0 .. Len(t) /\ a - 1 \in 0 .. b /\ (a - 1) + 1 = a /\ b + 1 \in Nat
        BY <2>4
      <3>2. /\ head \in Seq({Ink, Blank}) /\ Len(head) = b
            /\ Occurrences(Ink, t) = Occurrences(Ink, head) + Occurrences(Ink, SubSeq(t, b + 1, Len(t)))
        BY <1>1, <3>1, PartsMakeWhole
      <3>3. \A i \in 1 .. b : head[i] = t[i]
        BY <1>1, <2>4, PartFacts
      <3>4. Occurrences(Ink, SubSeq(t, b + 1, Len(t))) = 0
        <4> DEFINE tail == SubSeq(t, b + 1, Len(t))
        <4>1. /\ tail \in Seq({Ink, Blank}) /\ Len(tail) = Len(t) + 1 - (b + 1)
              /\ \A i \in 1 .. Len(t) + 1 - (b + 1) : tail[i] = t[(b + 1) + i - 1]
          <5>1. b + 1 \in Nat /\ 1 <= b + 1 /\ b + 1 <= Len(t) + 1
            BY <1>1, <2>4
          <5> QED
            BY <1>1, <5>1, PartFacts
        <4>2. ASSUME NEW i \in DOMAIN tail PROVE tail[i] # Ink
          <5>1. i \in 1 .. Len(t) + 1 - (b + 1)
            BY <4>1
          <5>2. (b + 1) + i - 1 \in 1 .. Len(t) /\ (b + 1) + i - 1 > b
            BY <1>1, <2>4, <5>1
          <5>3. t[(b + 1) + i - 1] # Ink
            BY <1>1, <2>3, <2>4, <5>2
          <5> QED
            BY <4>1, <5>1, <5>3
        <4> HIDE DEF tail
        <4>3. Occurrences(Ink, tail) = 0
          BY <4>2, OccursNowhere
        <4> QED
          BY <4>3 DEF tail
      <3> HIDE DEF head
      <3>5. SubSeq(head, a, b) = core
        <4>1. /\ SubSeq(head, a, b) \in Seq({Ink, Blank}) /\ Len(SubSeq(head, a, b)) = b + 1 - a
              /\ \A i \in 1 .. b + 1 - a : SubSeq(head, a, b)[i] = head[a + i - 1]
          BY <2>4, <3>2, PartFacts
        <4>2. ASSUME NEW i \in 1 .. b + 1 - a PROVE SubSeq(head, a, b)[i] = core[i]
          <5>1. a + i - 1 \in 1 .. b
            BY <2>4
          <5> QED
            BY <2>5, <3>3, <4>1, <5>1
        <4> HIDE DEF core
        <4>3. DOMAIN SubSeq(head, a, b) = 1 .. b + 1 - a /\ DOMAIN core = 1 .. b + 1 - a
          BY <2>5, <4>1
        <4> QED
          BY <2>5, <4>1, <4>2, <4>3, SequencesEqual
      <3>6. Occurrences(Ink, head) = Occurrences(Ink, SubSeq(head, 1, a - 1)) + Occurrences(Ink, core)
        <4>1. a - 1 \in 0 .. Len(head)
          BY <3>1, <3>2
        <4>2. Occurrences(Ink, head) = Occurrences(Ink, SubSeq(head, 1, a - 1))
                + Occurrences(Ink, SubSeq(head, (a - 1) + 1, Len(head)))
          BY <3>2, <4>1, PartsMakeWhole
        <4> QED
          BY <3>1, <3>2, <3>5, <4>2
      <3>7. Occurrences(Ink, SubSeq(head, 1, a - 1)) = 0
        <4> DEFINE start == SubSeq(head, 1, a - 1)
        <4>1. /\ start \in Seq({Ink, Blank}) /\ Len(start) = (a - 1) + 1 - 1
              /\ \A i \in 1 .. (a - 1) + 1 - 1 : start[i] = head[1 + i - 1]
          <5>1. a - 1 \in Nat /\ 1 \in Nat /\ a - 1 <= Len(head) /\ 1 <= (a - 1) + 1
            BY <2>4, <3>2
          <5> QED
            BY <3>2, <5>1, PartFacts
        <4>2. ASSUME NEW i \in DOMAIN start PROVE start[i] # Ink
          <5>1. i \in 1 .. (a - 1) + 1 - 1 /\ i \in 1 .. b /\ 1 + i - 1 = i /\ i < a
            BY <2>4, <4>1
          <5>2. start[i] = t[i]
            BY <3>3, <4>1, <5>1
          <5> QED
            BY <1>1, <2>2, <2>4, <5>1, <5>2
        <4> HIDE DEF start
        <4>3. Occurrences(Ink, start) = 0
          BY <4>2, OccursNowhere
        <4> QED
          BY <4>3 DEF start
      <3>8. Occurrences(Ink, core) \in Nat
        BY <2>5, OccurrencesTotal
      <3> QED
        BY <3>2, <3>4, <3>6, <3>7, <3>8
    <2> HIDE DEF core
    <2> QED
      BY <2>1, <2>5, <2>6, <2>7 DEF core, Texts
  <1> QED
    BY <1>2, <1>3

LEMMA BoundaryFacts ==
    ASSUME NEW t \in Texts, Len(t) > SegmentCharacters
    PROVE  Boundary(t) \in 1 .. SegmentCharacters
  <1> DEFINE blanks == {i \in SegmentCharacters \div 2 .. SegmentCharacters : t[i + 1] = Blank}
  <1>1. SegmentCharacters \in Nat /\ SegmentCharacters >= 2
    BY ExtractionConstants
  <1>2. SegmentCharacters \div 2 \in Nat /\ SegmentCharacters \div 2 >= 1
    BY <1>1
  <1>3. blanks \in SUBSET (1 .. SegmentCharacters)
    BY <1>1, <1>2
  <1>4. Boundary(t) = IF blanks = {} THEN SegmentCharacters
                      ELSE CHOOSE i \in blanks : \A j \in blanks : j <= i
    BY DEF Boundary
  <1> HIDE DEF blanks
  <1>5. CASE blanks = {}
    BY <1>1, <1>4, <1>5
  <1>6. CASE blanks # {}
    <2> DEFINE upper == {n \in Nat : \A j \in blanks : j <= n}
    <2>1. SegmentCharacters \in upper
      BY <1>1, <1>3
    <2>2. PICK m \in upper : \A n \in upper : m <= n
      BY <2>1, LeastNumber
    <2>3. m \in blanks
      <3> SUFFICES ASSUME m \notin blanks PROVE FALSE
        OBVIOUS
      <3>1. m \in Nat /\ \A j \in blanks : j \in Nat /\ j >= 1 /\ j <= m /\ j # m
        BY <1>3, <2>2
      <3>2. m # 0
        BY <1>6, <3>1
      <3>3. m - 1 \in Nat /\ \A j \in blanks : j <= m - 1
        BY <3>1, <3>2
      <3>4. m - 1 \in upper
        BY <3>3
      <3> HIDE DEF upper
      <3> QED
        BY <2>2, <3>1, <3>4
    <2>4. \E i \in blanks : \A j \in blanks : j <= i
      BY <2>2, <2>3
    <2>5. (CHOOSE i \in blanks : \A j \in blanks : j <= i) \in blanks
      BY <2>4
    <2> QED
      BY <1>3, <1>4, <1>6, <2>5
  <1> QED
    BY <1>5, <1>6

\* What a text that is too long leaves when its first chunk is taken.
Rest(t) == Stripped(SubSeq(t, Boundary(t) + 1, Len(t)))

Chunked(t, f) ==
    IF t = <<>> THEN <<>>
    ELSE IF Len(t) <= SegmentCharacters THEN <<t>>
    ELSE <<Stripped(SubSeq(t, 1, Boundary(t)))>> \o f[Rest(t)]

LEMMA RestFacts ==
    ASSUME NEW t \in Texts, Len(t) > SegmentCharacters
    PROVE  /\ Boundary(t) \in 1 .. SegmentCharacters /\ Boundary(t) \in 0 .. Len(t)
           /\ Rest(t) \in Texts /\ Len(Rest(t)) < Len(t)
           /\ Rest(t) = <<>> \/ Rest(t)[1] = Ink
           /\ SubSeq(t, 1, Boundary(t)) \in Texts /\ Len(SubSeq(t, 1, Boundary(t))) = Boundary(t)
           /\ Stripped(SubSeq(t, 1, Boundary(t))) \in Texts
           /\ Len(Stripped(SubSeq(t, 1, Boundary(t)))) <= SegmentCharacters
           /\ Occurrences(Ink, t) = Occurrences(Ink, Stripped(SubSeq(t, 1, Boundary(t))))
                                      + Occurrences(Ink, Rest(t))
  <1> DEFINE b == Boundary(t)
             u == SubSeq(t, 1, b)
             v == SubSeq(t, b + 1, Len(t))
  <1>1. b \in 1 .. SegmentCharacters
    BY BoundaryFacts
  <1> HIDE DEF b
  <1>2. SegmentCharacters \in Nat /\ t \in Seq({Ink, Blank}) /\ Len(t) \in Nat
    BY ExtractionConstants DEF Texts
  <1>3. b \in 0 .. Len(t) /\ b \in Nat /\ b >= 1 /\ b <= SegmentCharacters
    BY <1>1, <1>2
  <1>4. /\ u \in Texts /\ Len(u) = b /\ v \in Texts /\ Len(v) = Len(t) - b
        /\ Occurrences(Ink, t) = Occurrences(Ink, u) + Occurrences(Ink, v)
    BY <1>2, <1>3, PartsMakeWhole DEF Texts
  <1> HIDE DEF u, v
  <1>5. /\ Stripped(u) \in Texts /\ Len(Stripped(u)) <= b /\ Len(Stripped(u)) \in Nat
        /\ Occurrences(Ink, Stripped(u)) = Occurrences(Ink, u)
    BY <1>4, StrippedFacts DEF Texts
  <1>6. /\ Stripped(v) \in Texts /\ Len(Stripped(v)) <= Len(t) - b /\ Len(Stripped(v)) \in Nat
        /\ Occurrences(Ink, Stripped(v)) = Occurrences(Ink, v)
        /\ Stripped(v) = <<>> \/ Stripped(v)[1] = Ink
    BY <1>4, StrippedFacts DEF Texts
  <1>7. Len(Stripped(v)) < Len(t) /\ Len(Stripped(u)) <= SegmentCharacters
    BY <1>2, <1>3, <1>5, <1>6
  <1> QED
    BY <1>1, <1>3, <1>4, <1>5, <1>6, <1>7 DEF Rest, u, v, b

\* The recursion ends, as what is left is shorter: ChunkText is a function.
LEMMA ChunkTextUnfolds ==
    \A t \in Texts : ChunkText[t] \in Seq(Texts) /\ ChunkText[t] = Chunked(t, ChunkText)
  <1> DEFINE S == [Texts -> Seq(Texts)]
             a == [t \in Texts |-> <<>>]
             G == [F \in S |-> [t \in Texts |-> Chunked(t, F)]]
             Fits(g) == g = [text \in Seq({Ink, Blank}) |->
                 IF text = <<>> THEN <<>>
                 ELSE IF Len(text) <= SegmentCharacters THEN <<text>>
                 ELSE <<Stripped(SubSeq(text, 1, Boundary(text)))>>
                        \o g[Stripped(SubSeq(text, Boundary(text) + 1, Len(text)))]]
             r == CHOOSE g : Fits(g)
  <1>1. ChunkText = r
    BY DEF ChunkText
  <1> HIDE DEF r
  <1>2. \A t \in Texts : Len(t) \in Nat /\ (Len(t) = 0 => t = <<>>)
    BY DEF Texts
  <1>3. a \in S
    OBVIOUS
  <1>4. ASSUME NEW F \in S, NEW t \in Texts PROVE Chunked(t, F) \in Seq(Texts)
    <2>1. CASE Len(t) <= SegmentCharacters
      BY <2>1 DEF Chunked
    <2>2. CASE ~(Len(t) <= SegmentCharacters)
      <3>1. Len(t) > SegmentCharacters
        BY <1>2, <2>2, ExtractionConstants
      <3>2. Stripped(SubSeq(t, 1, Boundary(t))) \in Texts /\ F[Rest(t)] \in Seq(Texts)
        BY <3>1, RestFacts
      <3> DEFINE c == Stripped(SubSeq(t, 1, Boundary(t)))
      <3> HIDE DEF c
      <3>3. <<c>> \o F[Rest(t)] \in Seq(Texts)
        BY <3>2 DEF c
      <3> QED
        BY <3>3 DEF Chunked, c
    <2> QED
      BY <2>1, <2>2
  <1>5. G \in [S -> S]
    BY <1>4
  <1>6. \A F \in S : \A t \in Texts : G[F][t] = Chunked(t, F)
    OBVIOUS
  <1> HIDE DEF S, a, G
  <1>7. PICK f \in [Nat -> S] : f[0] = a /\ \A n \in Nat : f[n + 1] = G[f[n]]
    BY <1>3, <1>5, IterationExists
  <1>8. \A n \in Nat : \A t \in Texts : f[n] \in S /\ f[n + 1][t] = Chunked(t, f[n])
    BY <1>6, <1>7
  <1> DEFINE Stable == {n \in Nat : \A t \in Texts : Len(t) <= n => f[n + 1][t] = f[n][t]}
  <1>9. 0 \in Stable
    <2> SUFFICES ASSUME NEW t \in Texts, Len(t) <= 0 PROVE f[0 + 1][t] = f[0][t]
      OBVIOUS
    <2>1. t = <<>>
      BY <1>2
    <2>2. f[0 + 1][t] = <<>>
      BY <1>8, <2>1 DEF Chunked
    <2>3. f[0][t] = <<>>
      BY <1>7 DEF a
    <2> QED
      BY <2>2, <2>3
  <1>10. ASSUME NEW n \in Stable PROVE n + 1 \in Stable
    <2> SUFFICES ASSUME NEW t \in Texts, Len(t) <= n + 1
                 PROVE  f[(n + 1) + 1][t] = f[n + 1][t]
      OBVIOUS
    <2>1. n \in Nat /\ n + 1 \in Nat
      OBVIOUS
    <2>2. f[(n + 1) + 1][t] = Chunked(t, f[n + 1]) /\ f[n + 1][t] = Chunked(t, f[n])
      BY <1>8, <2>1
    <2>3. CASE Len(t) <= SegmentCharacters
      BY <2>2, <2>3 DEF Chunked
    <2>4. CASE ~(Len(t) <= SegmentCharacters)
      <3>1. Len(t) > SegmentCharacters
        BY <1>2, <2>4, ExtractionConstants
      <3>2. Rest(t) \in Texts /\ Len(Rest(t)) <= n
        BY <1>2, <2>1, <3>1, RestFacts
      <3>3. f[n + 1][Rest(t)] = f[n][Rest(t)]
        BY <1>10, <3>2
      <3> QED
        BY <2>2, <3>3 DEF Chunked
    <2> QED
      BY <2>3, <2>4
  <1>11. \A n \in Nat : n \in Stable
    <2>1. Stable \in SUBSET Nat
      OBVIOUS
    <2> HIDE DEF Stable
    <2> QED
      BY <1>9, <1>10, <2>1, EveryNumber
  <1> DEFINE h == [t \in Texts |-> f[Len(t)][t]]
  <1>12. ASSUME NEW t \in Texts PROVE \A m \in Nat : Len(t) <= m => f[m][t] = h[t]
    <2> DEFINE R == {m \in Nat : Len(t) <= m => f[m][t] = h[t]}
    <2>1. 0 \in R
      <3>1. Len(t) <= 0 => Len(t) = 0
        BY <1>2
      <3> QED
        BY <3>1
    <2>2. ASSUME NEW m \in R PROVE m + 1 \in R
      <3> SUFFICES ASSUME Len(t) <= m + 1 PROVE f[m + 1][t] = h[t]
        OBVIOUS
      <3>1. CASE Len(t) <= m
        <4>1. f[m + 1][t] = f[m][t]
          BY <1>11, <3>1
        <4> QED
          BY <2>2, <3>1, <4>1
      <3>2. CASE ~(Len(t) <= m)
        <4>1. Len(t) = m + 1
          BY <1>2, <3>2
        <4> QED
          BY <4>1
      <3> QED
        BY <3>1, <3>2
    <2>0. R \in SUBSET Nat
      OBVIOUS
    <2> HIDE DEF R
    <2>3. \A m \in Nat : m \in R
      BY <2>0, <2>1, <2>2, EveryNumber
    <2> QED
      BY <2>3 DEF R
  <1>13. h \in S
    <2>1. \A t \in Texts : f[Len(t)][t] \in Seq(Texts)
      BY <1>2, <1>8 DEF S
    <2> QED
      BY <2>1 DEF S
  <1>14. \A t \in Texts : h[t] = Chunked(t, h)
    <2> SUFFICES ASSUME NEW t \in Texts PROVE h[t] = Chunked(t, h)
      OBVIOUS
    <2>1. CASE t = <<>>
      <3>1. Len(t) = 0
        BY <2>1
      <3>2. h[t] = <<>>
        BY <1>7, <3>1 DEF a
      <3> QED
        BY <2>1, <3>2 DEF Chunked
    <2>2. CASE t # <<>>
      <3> DEFINE n == Len(t) - 1
      <3>1. n \in Nat /\ n + 1 = Len(t)
        BY <1>2, <2>2
      <3>2. h[t] = Chunked(t, f[n])
        BY <1>8, <3>1
      <3>3. CASE Len(t) <= SegmentCharacters
        BY <3>2, <3>3 DEF Chunked
      <3>4. CASE ~(Len(t) <= SegmentCharacters)
        <4>1. Len(t) > SegmentCharacters
          BY <1>2, <3>4, ExtractionConstants
        <4>2. Rest(t) \in Texts /\ Len(Rest(t)) <= n
          BY <1>2, <3>1, <4>1, RestFacts
        <4> HIDE DEF h, n
        <4>3. f[n][Rest(t)] = h[Rest(t)]
          BY <1>12, <3>1, <4>2
        <4> QED
          BY <3>2, <4>3 DEF Chunked
      <3> QED
        BY <3>3, <3>4
    <2> QED
      BY <2>1, <2>2
  <1>15. Fits(h)
    <2>1. \A t \in Seq({Ink, Blank}) : h[t] =
                 IF t = <<>> THEN <<>>
                 ELSE IF Len(t) <= SegmentCharacters THEN <<t>>
                 ELSE <<Stripped(SubSeq(t, 1, Boundary(t)))>>
                        \o h[Stripped(SubSeq(t, Boundary(t) + 1, Len(t)))]
      <3> HIDE DEF h
      <3> QED
        BY <1>14 DEF Chunked, Rest, Texts
    <2>2. h = [t \in Seq({Ink, Blank}) |-> h[t]]
      BY DEF Texts
    <2> HIDE DEF h
    <2> QED
      BY <2>1, <2>2
  <1>16. Fits(r)
    <2> HIDE DEF Fits, h
    <2> QED
      BY <1>15 DEF r
  <1>17. \A t \in Texts : r[t] = Chunked(t, r)
    BY <1>16 DEF Chunked, Rest, Texts
  <1>18. \A t \in Texts : r[t] \in Seq(Texts)
    <2> HIDE DEF Fits
    <2> DEFINE R == {n \in Nat : \A t \in Texts : Len(t) <= n => r[t] \in Seq(Texts)}
    <2>1. 0 \in R
      <3> SUFFICES ASSUME NEW t \in Texts, Len(t) <= 0 PROVE r[t] \in Seq(Texts)
        OBVIOUS
      <3>1. t = <<>>
        BY <1>2
      <3>2. r[t] = <<>>
        BY <1>17, <3>1 DEF Chunked
      <3> QED
        BY <3>2
    <2>2. ASSUME NEW n \in R PROVE n + 1 \in R
      <3> SUFFICES ASSUME NEW t \in Texts, Len(t) <= n + 1 PROVE r[t] \in Seq(Texts)
        OBVIOUS
      <3>1. CASE Len(t) <= SegmentCharacters
        <4>1. r[t] = IF t = <<>> THEN <<>> ELSE <<t>>
          BY <1>17, <3>1 DEF Chunked
        <4>2. <<>> \in Seq(Texts) /\ <<t>> \in Seq(Texts)
          OBVIOUS
        <4> QED
          BY <4>1, <4>2
      <3>2. CASE ~(Len(t) <= SegmentCharacters)
        <4>1. Len(t) > SegmentCharacters
          BY <1>2, <3>2, ExtractionConstants
        <4>2. Rest(t) \in Texts /\ Len(Rest(t)) <= n
          BY <1>2, <4>1, RestFacts
        <4>3. r[Rest(t)] \in Seq(Texts)
          BY <2>2, <4>2
        <4> DEFINE c == Stripped(SubSeq(t, 1, Boundary(t)))
        <4>4. c \in Texts
          BY <4>1, RestFacts
        <4> HIDE DEF c
        <4>5. <<c>> \o r[Rest(t)] \in Seq(Texts)
          BY <4>3, <4>4
        <4>6. r[t] = IF t = <<>> THEN <<>> ELSE <<c>> \o r[Rest(t)]
          BY <1>17, <3>2 DEF Chunked, c
        <4> QED
          BY <4>5, <4>6
      <3> QED
        BY <3>1, <3>2
    <2>0. R \in SUBSET Nat
      OBVIOUS
    <2> HIDE DEF R
    <2>3. \A n \in Nat : n \in R
      BY <2>0, <2>1, <2>2, EveryNumber
    <2> QED
      BY <1>2, <2>3 DEF R
  <1> QED
    BY <1>1, <1>17, <1>18

-----------------------------------------------------------------------------
(***************************************************************************)
(* No chunk is too long, none is empty, and together they have all ink.    *)
(***************************************************************************)
OccurrencesIn(w, ss) == [i \in DOMAIN ss |-> Occurrences(w, ss[i])]

LEMMA OccurrencesByParts ==
    ASSUME NEW T, NEW ss \in Seq(Seq(T)), NEW w
    PROVE  /\ OccurrencesIn(w, ss) \in Seq(Nat) /\ DOMAIN OccurrencesIn(w, ss) = DOMAIN ss
           /\ Len(OccurrencesIn(w, ss)) = Len(ss)
           /\ Occurrences(w, FlattenSeq(ss)) = Total(OccurrencesIn(w, ss), DOMAIN OccurrencesIn(w, ss))
           /\ \A i \in DOMAIN ss : OccurrencesIn(w, ss)[i] = Occurrences(w, ss[i])
  <1>1. /\ OccurrencesIn(w, ss) \in Seq(Nat) /\ DOMAIN OccurrencesIn(w, ss) = DOMAIN ss
        /\ Occurrences(w, FlattenSeq(ss)) = Total(OccurrencesIn(w, ss), DOMAIN OccurrencesIn(w, ss))
    BY OccurrencesInFlat DEF OccurrencesIn
  <1>2. Len(ss) \in Nat /\ DOMAIN ss = 1 .. Len(ss)
    OBVIOUS
  <1>3. Len(OccurrencesIn(w, ss)) = Len(ss)
    BY <1>1, <1>2
  <1>4. \A i \in DOMAIN ss : OccurrencesIn(w, ss)[i] = Occurrences(w, ss[i])
    BY DEF OccurrencesIn
  <1> QED
    BY <1>1, <1>3, <1>4

LEMMA OccurrencesInFlatBoth ==
    ASSUME NEW T, NEW ss \in Seq(Seq(T)), NEW tt \in Seq(Seq(T)), NEW w
    PROVE  Occurrences(w, FlattenSeq(ss \o tt))
             = Occurrences(w, FlattenSeq(ss)) + Occurrences(w, FlattenSeq(tt))
  <1> DEFINE P(uu) == OccurrencesIn(w, uu)
  <1>1. ASSUME NEW uu \in Seq(Seq(T))
        PROVE  /\ P(uu) \in Seq(Nat) /\ DOMAIN P(uu) = DOMAIN uu
               /\ Occurrences(w, FlattenSeq(uu)) = Total(P(uu), DOMAIN P(uu))
               /\ Len(P(uu)) = Len(uu)
               /\ \A i \in DOMAIN uu : P(uu)[i] = Occurrences(w, uu[i])
    BY <1>1, OccurrencesByParts
  <1>2. ss \o tt \in Seq(Seq(T))
    OBVIOUS
  <1>3. P(ss \o tt) = P(ss) \o P(tt)
    <2> DEFINE a == P(ss)
               b == P(tt)
               c == P(ss \o tt)
    <2>1. /\ DOMAIN (ss \o tt) = 1 .. Len(ss) + Len(tt)
          /\ \A n \in DOMAIN (ss \o tt) : (ss \o tt)[n] = IF n <= Len(ss) THEN ss[n] ELSE tt[n - Len(ss)]
      BY ConcatenationFacts
    <2>2. /\ a \in Seq(Nat) /\ b \in Seq(Nat) /\ c \in Seq(Nat)
          /\ DOMAIN a = DOMAIN ss /\ DOMAIN b = DOMAIN tt /\ DOMAIN c = DOMAIN (ss \o tt)
      <3> HIDE DEF P
      <3> QED
        BY <1>1, <1>2
    <2>3. Len(ss) \in Nat /\ Len(tt) \in Nat /\ DOMAIN ss = 1 .. Len(ss) /\ DOMAIN tt = 1 .. Len(tt)
      OBVIOUS
    <2>4. /\ \A n \in 1 .. Len(ss) : a[n] = Occurrences(w, ss[n])
          /\ \A n \in 1 .. Len(tt) : b[n] = Occurrences(w, tt[n])
          /\ \A n \in DOMAIN (ss \o tt) : c[n] = Occurrences(w, (ss \o tt)[n])
      <3> HIDE DEF P
      <3> QED
        BY <1>1, <1>2, <2>3
    <2> HIDE DEF a, b, c
    <2>5. Len(a) = Len(ss) /\ Len(b) = Len(tt)
      BY <2>2, <2>3
    <2>6. /\ a \o b \in Seq(Nat) /\ DOMAIN (a \o b) = 1 .. Len(a) + Len(b)
          /\ \A n \in DOMAIN (a \o b) : (a \o b)[n] = IF n <= Len(a) THEN a[n] ELSE b[n - Len(a)]
      BY <2>2, ConcatenationFacts
    <2> DEFINE d == a \o b
    <2>7. DOMAIN d = DOMAIN c /\ d \in Seq(Nat)
      BY <2>1, <2>2, <2>5, <2>6
    <2>8. \A n \in DOMAIN c : c[n] = d[n]
      <3> SUFFICES ASSUME NEW n \in DOMAIN c PROVE c[n] = d[n]
        OBVIOUS
      <3>1. n \in 1 .. Len(ss) + Len(tt) /\ n \in DOMAIN (ss \o tt) /\ n \in DOMAIN (a \o b)
        BY <2>1, <2>2, <2>5, <2>6
      <3>2. CASE n <= Len(ss)
        <4>1. n \in 1 .. Len(ss)
          BY <2>3, <3>1, <3>2
        <4> QED
          BY <2>1, <2>4, <2>5, <2>6, <3>1, <3>2, <4>1
      <3>3. CASE ~(n <= Len(ss))
        <4>1. n - Len(ss) \in 1 .. Len(tt)
          BY <2>3, <3>1, <3>3
        <4> QED
          BY <2>1, <2>4, <2>5, <2>6, <3>1, <3>3, <4>1
      <3> QED
        BY <3>2, <3>3
    <2> HIDE DEF d
    <2>9. c = d
      BY <2>2, <2>7, <2>8, SequencesEqual
    <2> QED
      BY <2>9 DEF a, b, c, d
  <1>4. /\ P(ss) \in Seq(Nat) /\ P(tt) \in Seq(Nat)
        /\ Occurrences(w, FlattenSeq(ss)) = Total(P(ss), DOMAIN P(ss))
        /\ Occurrences(w, FlattenSeq(tt)) = Total(P(tt), DOMAIN P(tt))
        /\ Occurrences(w, FlattenSeq(ss \o tt)) = Total(P(ss \o tt), DOMAIN P(ss \o tt))
    BY <1>1, <1>2
  <1> HIDE DEF P
  <1> QED
    BY <1>3, <1>4, TotalOfConcatenation

LEMMA OccurrencesInFlatOne ==
    ASSUME NEW T, NEW x \in Seq(T), NEW w
    PROVE  Occurrences(w, FlattenSeq(<<x>>)) = Occurrences(w, x)
  <1> DEFINE ss == <<x>>
  <1>1. ss \in Seq(Seq(T)) /\ Len(ss) = 1 /\ ss[1] = x
    OBVIOUS
  <1> HIDE DEF ss
  <1>2. PICK f : Flattens(T, ss, f)
    BY <1>1, FlattenLoop
  <1>3. 1 - 1 = 0 /\ 1 \in 1 .. 1
    OBVIOUS
  <1>4. FlattenSeq(ss) = f[1] /\ f[1] = f[0] \o ss[1] /\ f[0] = <<>>
    BY <1>1, <1>2, <1>3 DEF Flattens
  <1>5. <<>> \o x = x
    OBVIOUS
  <1>6. FlattenSeq(ss) = x
    BY <1>1, <1>4, <1>5
  <1> QED
    BY <1>6 DEF ss

LEMMA OccurrencesInNothing ==
    ASSUME NEW w
    PROVE  Occurrences(w, <<>>) = 0 /\ Occurrences(w, FlattenSeq(<<>>)) = 0
  <1>1. FlattenSeq(<<>>) = <<>>
    BY DEF FlattenSeq
  <1>2. Occurrences(w, <<>>) = 0
    BY OccursNowhere
  <1> QED
    BY <1>1, <1>2

\* What the chunks of a text keep of it.
Whole(t, chunks) ==
    /\ chunks \in Seq(Texts) /\ \A k \in DOMAIN chunks : Len(chunks[k]) \in 1 .. SegmentCharacters
    /\ Occurrences(Ink, FlattenSeq(chunks)) = Occurrences(Ink, t)

LEMMA ChunksAreWhole ==
    ASSUME NEW t \in Texts, t = <<>> \/ t[1] = Ink
    PROVE  Whole(t, ChunkText[t])
  <1> DEFINE Begins(u) == u = <<>> \/ u[1] = Ink
             R == {n \in Nat : \A u \in Texts : Len(u) <= n /\ Begins(u) => Whole(u, ChunkText[u])}
  <1>1. \A u \in Texts : /\ Len(u) \in Nat /\ (Len(u) = 0 <=> u = <<>>) /\ u \in Seq({Ink, Blank})
                         /\ ChunkText[u] \in Seq(Texts) /\ ChunkText[u] = Chunked(u, ChunkText)
    BY ChunkTextUnfolds DEF Texts
  <1>2. Whole(<<>>, ChunkText[<<>>])
    <2>1. <<>> \in Texts /\ Len(<<>>) = 0
      BY DEF Texts
    <2>2. ChunkText[<<>>] = <<>>
      BY <1>1, <2>1 DEF Chunked
    <2> QED
      BY <2>2, OccurrencesInNothing DEF Whole
  <1>3. 0 \in R
    BY <1>1, <1>2
  <1>4. ASSUME NEW n \in Nat, n \in R PROVE n + 1 \in R
    <2> SUFFICES ASSUME NEW u \in Texts, Len(u) <= n + 1, Begins(u) PROVE Whole(u, ChunkText[u])
      BY <1>4
    <2>1. CASE u = <<>>
      BY <1>2, <2>1
    <2>2. CASE u # <<>> /\ Len(u) <= SegmentCharacters
      <3>1. ChunkText[u] = <<u>>
        BY <1>1, <2>2 DEF Chunked
      <3>2. Occurrences(Ink, FlattenSeq(<<u>>)) = Occurrences(Ink, u)
        BY <1>1, OccurrencesInFlatOne
      <3>3. DOMAIN <<u>> = {1} /\ <<u>>[1] = u /\ <<u>> \in Seq(Texts)
        OBVIOUS
      <3>4. Len(u) \in 1 .. SegmentCharacters
        BY <1>1, <2>2, ExtractionConstants
      <3> QED
        BY <3>1, <3>2, <3>3, <3>4 DEF Whole
    <2>3. CASE u # <<>> /\ ~(Len(u) <= SegmentCharacters)
      <3>0. Len(u) > SegmentCharacters
        BY <1>1, <2>3, ExtractionConstants
      <3> DEFINE b == Boundary(u)
                 v == SubSeq(u, 1, b)
                 x == Stripped(v)
                 y == Rest(u)
      <3>1. /\ b \in 1 .. SegmentCharacters /\ b \in 0 .. Len(u)
            /\ y \in Texts /\ Len(y) < Len(u) /\ Begins(y)
            /\ v \in Texts /\ Len(v) = b /\ x \in Texts /\ Len(x) <= SegmentCharacters
            /\ Occurrences(Ink, u) = Occurrences(Ink, x) + Occurrences(Ink, y)
        BY <3>0, RestFacts
      <3>2. 1 \in DOMAIN v /\ v[1] = Ink
        <4>1. b >= 1 /\ b <= Len(u) /\ b \in Nat
          BY <3>1, <1>1, ExtractionConstants
        <4>2. v[1] = u[1]
          <5> HIDE DEF b
          <5>1. 1 \in 1 .. Len(u) + 1 /\ b \in 0 .. Len(u) /\ 1 \in 1 .. b + 1 - 1 /\ 1 + 1 - 1 = 1
            BY <4>1, <1>1
          <5> QED
            BY <1>1, <4>1, <5>1
        <4>3. DOMAIN v = 1 .. Len(v)
          BY <3>1, <1>1
        <4> QED
          BY <2>3, <3>1, <4>1, <4>2, <4>3
      <3>3. x # <<>>
        BY <3>1, <3>2, StrippedFacts
      <3> HIDE DEF b, v, x, y
      <3>4. Len(x) \in 1 .. SegmentCharacters
        BY <1>1, <3>1, <3>3, ExtractionConstants
      <3>5. Whole(y, ChunkText[y])
        <4>1. Len(y) <= n
          BY <1>1, <3>1
        <4> QED
          BY <1>4, <3>1, <4>1
      <3> DEFINE c == ChunkText[y]
      <3>6. ChunkText[u] = <<x>> \o c
        BY <1>1, <2>3, <3>0, ExtractionConstants DEF Chunked, x, v, y, b
      <3>7. c \in Seq(Texts) /\ (\A k \in DOMAIN c : Len(c[k]) \in 1 .. SegmentCharacters)
            /\ Occurrences(Ink, FlattenSeq(c)) = Occurrences(Ink, y)
        BY <3>5 DEF Whole
      <3> HIDE DEF c
      <3>8. <<x>> \in Seq(Texts) /\ Len(<<x>>) = 1 /\ <<x>>[1] = x
        BY <3>1
      <3>9. Occurrences(Ink, FlattenSeq(<<x>> \o c))
              = Occurrences(Ink, FlattenSeq(<<x>>)) + Occurrences(Ink, FlattenSeq(c))
        BY <3>7, <3>8, OccurrencesInFlatBoth DEF Texts
      <3>10. Occurrences(Ink, FlattenSeq(<<x>>)) = Occurrences(Ink, x)
        BY <3>1, OccurrencesInFlatOne DEF Texts
      <3>11. \A k \in DOMAIN (<<x>> \o c) : Len((<<x>> \o c)[k]) \in 1 .. SegmentCharacters
        <4>1. /\ DOMAIN (<<x>> \o c) = 1 .. Len(<<x>>) + Len(c)
              /\ \A k \in DOMAIN (<<x>> \o c) :
                    (<<x>> \o c)[k] = IF k <= Len(<<x>>) THEN <<x>>[k] ELSE c[k - Len(<<x>>)]
          BY <3>7, <3>8, ConcatenationFacts
        <4>2. \A k \in 1 .. 1 + Len(c) : (k <= 1 => k = 1) /\ (~(k <= 1) => k - 1 \in DOMAIN c)
          BY <3>7
        <4> QED
          BY <3>4, <3>7, <3>8, <4>1, <4>2
      <3>12. <<x>> \o c \in Seq(Texts)
        BY <3>7, <3>8
      <3> QED
        BY <3>1, <3>6, <3>7, <3>9, <3>10, <3>11, <3>12 DEF Whole
    <2> QED
      BY <2>1, <2>2, <2>3
  <1>5. R \in SUBSET Nat
    OBVIOUS
  <1>6. \A n \in Nat : n \in R
    <2> HIDE DEF R
    <2> QED
      BY <1>3, <1>4, <1>5, EveryNumber
  <1> QED
    BY <1>1, <1>6

-----------------------------------------------------------------------------
(***************************************************************************)
(* The documents made of the uploads, and those among them that the review *)
(* uses.                                                                   *)
(***************************************************************************)
Samples(u) == [r \in Role |-> Retained(u[r])]

ReadAgain(docs) == [r \in Role |-> [i \in DOMAIN docs[r] |-> FullVersion(docs[r][i])]]

\* The documents without the diagnostic.
Without(docs, found) ==
    [r \in Role |-> IF found # <<>> /\ found[1] = r THEN RemoveAt(docs[r], found[2]) ELSE docs[r]]

Files(u) == UNION {ToSet(u[r]) : r \in Role}

Sampling(u) == {Document(f, TRUE) : f \in Files(u)}

Versions(u) == {Document(f, s) : f \in Files(u), s \in BOOLEAN}

LEMMA UploadFacts ==
    ASSUME NEW u \in Uploads, NEW r \in Role
    PROVE  /\ u[r] \in Seq(Files(u))
           /\ \A f \in Files(u) :
                /\ f.suffix \in {"pdf", "docx", "txt"}
                /\ f.body \in Seq(IF f.suffix = "txt" THEN {Ink, Blank} ELSE Nat)
  BY DocumentsAssumption DEF Files

LEMMA DocumentFacts ==
    ASSUME NEW f, NEW s
    PROVE  /\ Document(f, s).upload = f /\ Document(f, s).name = f.name
           /\ Document(f, s).segments = Segments(f, s) /\ Document(f, s).warnings = Warnings(f, s)
  BY DEF Document

LEMMA RetainedFacts ==
    ASSUME NEW u \in Uploads, NEW r \in Role
    PROVE  Retained(u[r]) \in Seq(Sampling(u))
  <1> DEFINE s == u[r]
             keep == {i \in DOMAIN s : Accepted(s[i])}
  <1>1. s \in Seq(Files(u))
    BY UploadFacts
  <1>2. keep \in SUBSET DOMAIN s
    OBVIOUS
  <1> HIDE DEF keep
  <1>3. Selected(s, keep) \in Seq(Files(u))
    <2> HIDE DEF s
    <2> QED
      BY <1>1, <1>2, SelectedFacts
  <1> DEFINE kept == Selected(s, keep)
             made == [i \in DOMAIN kept |-> Document(kept[i], TRUE)]
  <1>4. Retained(u[r]) = made
    BY DEF Retained, keep
  <1> HIDE DEF kept, s
  <1>5. kept \in Seq(Files(u))
    BY <1>3 DEF kept
  <1>6. \A i \in DOMAIN kept : Document(kept[i], TRUE) \in Sampling(u)
    <2>1. \A i \in DOMAIN kept : kept[i] \in Files(u)
      BY <1>5
    <2> QED
      BY <2>1, Zenon DEF Sampling
  <1>7. made \in Seq(Sampling(u))
    <2>1. Len(kept) \in Nat /\ DOMAIN kept = 1 .. Len(kept)
      BY <1>5
    <2>2. made \in [1 .. Len(kept) -> Sampling(u)]
      BY <1>6, <2>1
    <2> HIDE DEF made
    <2> QED
      BY <2>1, <2>2
  <1> QED
    BY <1>4, <1>7

LEMMA SamplesFacts ==
    ASSUME NEW u \in Uploads
    PROVE  Samples(u) \in [Role -> Seq(Sampling(u))]
  BY RetainedFacts DEF Samples

LEMMA ReadAgainFacts ==
    ASSUME NEW u \in Uploads
    PROVE  LET docs == Samples(u)
           IN  /\ ReadAgain(docs) \in [Role -> Seq(Versions(u))]
               /\ \A r \in Role : /\ DOMAIN ReadAgain(docs)[r] = DOMAIN docs[r]
                                  /\ \A i \in DOMAIN docs[r] :
                                       ReadAgain(docs)[r][i] = FullVersion(docs[r][i])
  <1> DEFINE docs == Samples(u)
             full(r) == [i \in DOMAIN docs[r] |-> FullVersion(docs[r][i])]
  <1>1. docs \in [Role -> Seq(Sampling(u))]
    BY SamplesFacts
  <1> HIDE DEF docs
  <1>2. ASSUME NEW d \in Sampling(u) PROVE FullVersion(d) \in Versions(u)
    <2>1. PICK f \in Files(u) : d = Document(f, TRUE)
      BY <1>2 DEF Sampling
    <2>2. d.upload = f
      BY <2>1, DocumentFacts
    <2>3. FullVersion(d) = Document(f, FALSE) \/ FullVersion(d) = Document(f, TRUE)
      BY <2>1, <2>2 DEF FullVersion
    <2> QED
      <3>1. \A g \in Files(u), s \in BOOLEAN : Document(g, s) \in Versions(u)
        BY DEF Versions
      <3>2. Document(f, FALSE) \in Versions(u) /\ Document(f, TRUE) \in Versions(u)
        BY <3>1
      <3> QED
        BY <2>3, <3>2
  <1>3. ASSUME NEW r \in Role PROVE full(r) \in Seq(Versions(u))
    <2>1. docs[r] \in Seq(Sampling(u))
      BY <1>1
    <2>2. Len(docs[r]) \in Nat /\ DOMAIN docs[r] = 1 .. Len(docs[r])
      BY <2>1
    <2>3. full(r) \in [1 .. Len(docs[r]) -> Versions(u)]
      BY <1>2, <2>1, <2>2
    <2> QED
      BY <2>2, <2>3
  <1>4. ReadAgain(docs) = [r \in Role |-> full(r)]
    BY DEF ReadAgain
  <1>5. \A r \in Role : ReadAgain(docs)[r] = full(r)
    BY <1>4
  <1>6. \A r \in Role : DOMAIN full(r) = DOMAIN docs[r]
                        /\ \A i \in DOMAIN docs[r] : full(r)[i] = FullVersion(docs[r][i])
    OBVIOUS
  <1>7. ReadAgain(docs) \in [Role -> Seq(Versions(u))]
    <2> HIDE DEF full
    <2> QED
      BY <1>3, <1>4
  <1> QED
    BY <1>5, <1>6, <1>7 DEF docs

\* The diagnostic is one of the documents.
LEMMA IdentifiedFacts ==
    ASSUME NEW docs, Identified(docs) # <<>>
    PROVE  Identified(docs) \in Spots(docs)
  <1> DEFINE matches == {m \in Spots(docs) : docs[m[1]][m[2]].upload.diagnostic}
             context == {m \in matches : m[1] = "context"}
  <1>1. Identified(docs) = IF Cardinality(context) = 1 THEN CHOOSE m \in context : TRUE
                           ELSE IF Cardinality(matches) = 1 THEN CHOOSE m \in matches : TRUE ELSE <<>>
    BY DEF Identified
  <1>2. context \subseteq matches /\ matches \subseteq Spots(docs)
    OBVIOUS
  <1> HIDE DEF matches, context
  <1>3. Cardinality({}) # 1
    BY FS_EmptySet
  <1>4. CASE Cardinality(context) = 1
    <2>1. context # {}
      BY <1>3, <1>4
    <2>2. (CHOOSE m \in context : TRUE) \in context
      BY <2>1
    <2> QED
      BY <1>1, <1>2, <1>4, <2>2
  <1>5. CASE Cardinality(context) # 1 /\ Cardinality(matches) = 1
    <2>1. matches # {}
      BY <1>3, <1>5
    <2>2. (CHOOSE m \in matches : TRUE) \in matches
      BY <2>1
    <2> QED
      BY <1>1, <1>2, <1>5, <2>2
  <1> QED
    BY <1>1, <1>4, <1>5

LEMMA RemoveAtFacts ==
    ASSUME NEW T, NEW s \in Seq(T), NEW i \in DOMAIN s
    PROVE  /\ RemoveAt(s, i) \in Seq(T)
           /\ \A k \in DOMAIN RemoveAt(s, i) : \E l \in DOMAIN s : RemoveAt(s, i)[k] = s[l]
  <1>1. i \in 1 .. Len(s) /\ Len(s) \in Nat /\ DOMAIN s = 1 .. Len(s)
    OBVIOUS
  <1> DEFINE a == SubSeq(s, 1, i - 1)
             b == SubSeq(s, i + 1, Len(s))
  <1>2. /\ a \in Seq(T) /\ Len(a) = i - 1 /\ \A k \in 1 .. i - 1 : a[k] = s[k]
    <2>1. 1 \in 1 .. Len(s) + 1 /\ i - 1 \in 0 .. Len(s)
      BY <1>1
    <2> QED
      BY <1>1, <2>1
  <1>3. /\ b \in Seq(T) /\ Len(b) = Len(s) - i /\ \A k \in 1 .. Len(s) - i : b[k] = s[k + i]
    <2>1. i + 1 \in 1 .. Len(s) + 1 /\ Len(s) \in 0 .. Len(s)
      BY <1>1
    <2> QED
      BY <1>1, <2>1
  <1>4. RemoveAt(s, i) = a \o b
    BY DEF RemoveAt
  <1> HIDE DEF a, b
  <1>5. /\ a \o b \in Seq(T) /\ DOMAIN (a \o b) = 1 .. Len(a) + Len(b)
        /\ \A n \in DOMAIN (a \o b) : (a \o b)[n] = IF n <= Len(a) THEN a[n] ELSE b[n - Len(a)]
    BY <1>2, <1>3, ConcatenationFacts
  <1>6. ASSUME NEW k \in DOMAIN (a \o b) PROVE \E l \in DOMAIN s : (a \o b)[k] = s[l]
    <2>1. k \in 1 .. Len(s) - 1
      BY <1>1, <1>2, <1>3, <1>5
    <2>2. CASE k <= i - 1
      <3>1. k \in 1 .. i - 1 /\ k \in DOMAIN s
        BY <1>1, <2>1, <2>2
      <3> QED
        BY <1>2, <1>5, <2>2, <3>1
    <2>3. CASE ~(k <= i - 1)
      <3>1. /\ k - (i - 1) \in 1 .. Len(s) - i /\ k - (i - 1) + i \in DOMAIN s
        BY <1>1, <2>1, <2>3
      <3> QED
        BY <1>2, <1>3, <1>5, <2>3, <3>1
    <2> QED
      BY <2>2, <2>3
  <1> QED
    BY <1>4, <1>5, <1>6

\* The documents the review uses are some of those that were read.
LEMMA WithoutFacts ==
    ASSUME NEW u \in Uploads, NEW r \in Role
    PROVE  LET docs == ReadAgain(Samples(u))
               left == Without(docs, Identified(Samples(u)))
           IN  /\ left[r] \in Seq(Versions(u))
               /\ \A i \in DOMAIN left[r] : \E k \in DOMAIN docs[r] : left[r][i] = docs[r][k]
  <1> DEFINE docs == ReadAgain(Samples(u))
             found == Identified(Samples(u))
             left == Without(docs, found)
  <1>1. docs[r] \in Seq(Versions(u)) /\ DOMAIN docs[r] = DOMAIN Samples(u)[r]
    BY ReadAgainFacts
  <1>2. found # <<>> /\ found[1] = r => found[2] \in DOMAIN Samples(u)[r]
    <2> SUFFICES ASSUME found # <<>>, found[1] = r PROVE found[2] \in DOMAIN Samples(u)[r]
      OBVIOUS
    <2>1. found \in Spots(Samples(u))
      BY IdentifiedFacts
    <2> HIDE DEF found
    <2> QED
      BY <2>1 DEF Spots
  <1>3. left[r] = IF found # <<>> /\ found[1] = r THEN RemoveAt(docs[r], found[2]) ELSE docs[r]
    BY DEF Without
  <1> HIDE DEF docs, found, left
  <1>4. CASE found # <<>> /\ found[1] = r
    <2> DEFINE s == docs[r]
               i == found[2]
    <2>1. s \in Seq(Versions(u)) /\ i \in DOMAIN s
      BY <1>1, <1>2, <1>4
    <2>2. left[r] = RemoveAt(s, i)
      BY <1>3, <1>4
    <2> HIDE DEF s, i
    <2>3. left[r] \in Seq(Versions(u)) /\ \A k \in DOMAIN left[r] : \E l \in DOMAIN s : left[r][k] = s[l]
      BY <2>1, <2>2, RemoveAtFacts
    <2> QED
      BY <2>3 DEF s, docs, left, found
  <1>5. CASE ~(found # <<>> /\ found[1] = r)
    BY <1>1, <1>3, <1>5 DEF docs, left, found
  <1> QED
    BY <1>4, <1>5

-----------------------------------------------------------------------------
LEMMA InOrderFacts ==
    ASSUME NEW n \in Nat, NEW S \in SUBSET (1 .. n)
    PROVE  /\ InOrder(S, n) \in Seq(S)
           /\ \A i \in S : \E k \in DOMAIN InOrder(S, n) : InOrder(S, n)[k] = i
           /\ \A k, l \in DOMAIN InOrder(S, n) : InOrder(S, n)[k] = InOrder(S, n)[l] => k = l
           /\ Len(InOrder(S, n)) = Cardinality(S)
  <1> DEFINE s == [i \in 1 .. n |-> i]
             keep == S \intersect (1 .. n)
  <1>0. s \in [1 .. n -> 1 .. n] /\ keep = S
    OBVIOUS
  <1>1. s \in Seq(1 .. n) /\ DOMAIN s = 1 .. n /\ keep = S
    <2> HIDE DEF s, keep
    <2> QED
      BY <1>0
  <1>2. \A i \in 1 .. n : s[i] = i
    OBVIOUS
  <1>3. InOrder(S, n) = Selected(s, keep)
    BY DEF InOrder
  <1> HIDE DEF s, keep
  <1>4. /\ Selected(s, S) \in Seq(1 .. n) /\ Len(Selected(s, S)) = Cardinality(S)
        /\ \E at \in [DOMAIN Selected(s, S) -> S] : Places(s, S, at)
    BY <1>1, SelectedFacts
  <1> DEFINE q == Selected(s, S)
  <1>5. PICK at \in [DOMAIN q -> S] : Places(s, S, at)
    BY <1>4
  <1>6. /\ \A k \in DOMAIN q : q[k] = s[at[k]]
        /\ \A k, l \in DOMAIN q : k < l => at[k] < at[l]
        /\ \A i \in S : \E k \in DOMAIN q : at[k] = i
    BY <1>5 DEF Places
  <1> HIDE DEF q
  <1>7. \A k \in DOMAIN q : q[k] = at[k] /\ at[k] \in S /\ at[k] \in Nat
    <2>1. \A k \in DOMAIN q : at[k] \in S
      BY <1>5
    <2>2. \A i \in S : i \in 1 .. n /\ i \in Nat
      OBVIOUS
    <2> QED
      BY <1>2, <1>6, <2>1, <2>2
  <1>8. q \in Seq(1 .. n) /\ Len(q) \in Nat /\ DOMAIN q = 1 .. Len(q) /\ Len(q) = Cardinality(S)
    BY <1>4 DEF q
  <1>9. q \in Seq(S)
    BY <1>7, <1>8
  <1>10. \A k, l \in DOMAIN q : q[k] = q[l] => k = l
    BY <1>6, <1>7, <1>8
  <1> QED
    BY <1>1, <1>3, <1>6, <1>7, <1>8, <1>9, <1>10 DEF q

-----------------------------------------------------------------------------
(***************************************************************************)
(* What the steps of the main thread have made of the uploads so far.      *)
(***************************************************************************)
WarningsAtFirst(u) == ToBag(UploadWarnings(u.package) \o UploadWarnings(u.context))

WarningsOfTexts(u) == WarningsInFull(Samples(u), WarningsAtFirst(u))

Early == pc \in {"extract", "research", "plan"}

ReadOnce == pc \in {"plan", "digest", "leave", "review", "done"}

Planned == pc \in {"digest", "leave", "review", "done"}

TextsInv ==
    /\ uploads \in Uploads
    /\ \/ documents = [r \in Role |-> <<>>] \/ documents = Samples(uploads)
       \/ documents = ReadAgain(Samples(uploads))
    /\ pc = "research" => /\ documents = Samples(uploads)
                          /\ warnings = WarningsAtFirst(uploads)
    /\ ReadOnce =>
         /\ documents = ReadAgain(Samples(uploads))
         /\ direct = Without(documents, Identified(Samples(uploads)))
         /\ warnings = IF Written THEN WarningsOfTexts(uploads) (+) ToBag(OutcomeWarnings)
                       ELSE WarningsOfTexts(uploads)
    /\ ReadOnce \/ pc = "research" => PackageProblem(uploads.package) = "none"

\* The results of the pool, in the order of its jobs.
ResultsInv ==
    /\ Early => outcomes = <<>>
    /\ Planned => jobs = JobsOf("package") \o JobsOf("context")
    /\ outcomes \in Seq(ToSet(outcomes))
    /\ DOMAIN outcomes \subseteq DOMAIN jobs
    /\ \A j \in DOMAIN outcomes : Finished(j) /\ outcomes[j] = OutcomeOf(j)
    /\ \A j \in DOMAIN jobs :
         Finished(j) => call[j].cited \subseteq DOMAIN JobDocument(jobs[j]).segments
    /\ Written =>
         /\ DOMAIN outcomes = DOMAIN jobs
         /\ evidence = EvidenceOf("package") \o EvidenceOf("context")
         /\ incomplete = {r \in Role : \E i \in DOMAIN documents[r] : Sampled(documents[r][i])}
                           \union DigestedRoles

LEMMA TextsAtFirst == DocumentsInit => TextsInv
  BY DEF DocumentsInit, TextsInv, ReadOnce, Written

LEMMA ResultsAtFirst == DocumentsInit => ResultsInv
  <1> SUFFICES ASSUME DocumentsInit PROVE ResultsInv
    OBVIOUS
  <1>1. outcomes = <<>> /\ jobs = <<>> /\ pc = "extract"
    BY DEF DocumentsInit
  <1>2. DOMAIN outcomes = {} /\ DOMAIN jobs = {} /\ outcomes \in Seq(ToSet(outcomes))
    BY <1>1
  <1> QED
    BY <1>1, <1>2 DEF ResultsInv, Early, Planned, Written

LEMMA NextKeepsTexts == TextsInv /\ [DocumentsNext]_documentsVars => TextsInv'
  <1> SUFFICES ASSUME TextsInv, [DocumentsNext]_documentsVars PROVE TextsInv'
    OBVIOUS
  <1>1. CASE Extract
    <2>1. CASE pc' = "failed" /\ UNCHANGED <<documents, warnings, uploads>>
      BY <2>1 DEF TextsInv, ReadOnce, Written
    <2>2. CASE pc' = "research" /\ UNCHANGED uploads /\ documents' = Samples(uploads)
               /\ warnings' = WarningsAtFirst(uploads) /\ PackageProblem(uploads.package) = "none"
      BY <2>2 DEF TextsInv, ReadOnce, Written
    <2> QED
      BY <1>1, <2>1, <2>2 DEF Extract, Fail, Samples, WarningsAtFirst
  <1>2. CASE ReadInFull
    <2>1. CASE pc' = "failed" /\ UNCHANGED <<documents, warnings, uploads>>
      BY <2>1 DEF TextsInv, ReadOnce, Written
    <2>2. CASE /\ pc = "research" /\ pc' = "plan" /\ UNCHANGED uploads
               /\ documents' = ReadAgain(documents) /\ warnings' = WarningsInFull(documents, warnings)
               /\ direct' = Without(ReadAgain(documents), Identified(documents))
      BY <2>2 DEF TextsInv, ReadOnce, Written, WarningsOfTexts
    <2> QED
      BY <1>2, <2>1, <2>2 DEF ReadInFull, Fail, ReadAgain, Without
  <1>3. CASE /\ UNCHANGED <<uploads, documents, warnings, direct>>
             /\ pc' = pc \/ pc' = "failed" \/ (pc = "plan" /\ pc' = "digest")
                \/ (pc = "digest" /\ pc' = "leave")
             /\ UNCHANGED outcomes \/ pc = "digest"
    BY <1>3 DEF TextsInv, ReadOnce, Written, OutcomeWarnings
  <1>4. CASE BuildEvidence
    BY <1>4 DEF BuildEvidence, intake, TextsInv, ReadOnce, Written, OutcomeWarnings
  <1>5. CASE Publish
    BY <1>5 DEF Publish, intake, TextsInv, ReadOnce, Written, OutcomeWarnings
  <1>6. CASE PlanFails \/ Plan \/ Collect \/ ProgressFails \/ LeavePool \/ ReviewFails
    BY <1>3, <1>6
       DEF PlanFails, Plan, Collect, ProgressFails, LeavePool, ReviewFails, intake, Fail
  <1>7. ASSUME NEW j \in DOMAIN jobs, StartDigest(j) \/ Request(j) PROVE TextsInv'
    BY <1>3, <1>7 DEF StartDigest, Request, TransientError, RequestFails, GrammarTooLarge,
           SchemaInvalid, Digested, pool, intake
  <1>8. CASE UNCHANGED documentsVars
    BY <1>3, <1>8 DEF documentsVars
  <1> QED
    BY <1>1, <1>2, <1>4, <1>5, <1>6, <1>7, <1>8 DEF DocumentsNext, Finish

-----------------------------------------------------------------------------
\* The jobs of a role are the documents of its plan, each once.
LEMMA JobsFacts ==
    ASSUME NEW r \in Role, NEW T, direct[r] \in Seq(T)
    PROVE  LET P == PlanDigests(direct[r], Budget[r])
           IN  /\ JobsOf(r) \in Seq([role : {r}, at : P])
               /\ \A i \in P : \E k \in DOMAIN JobsOf(r) : JobsOf(r)[k].at = i
               /\ \A k, l \in DOMAIN JobsOf(r) : JobsOf(r)[k].at = JobsOf(r)[l].at => k = l
               /\ P \in SUBSET DOMAIN direct[r]
  <1> DEFINE P == PlanDigests(direct[r], Budget[r])
             n == Len(direct[r])
             q == InOrder(P, n)
             made == [i \in DOMAIN q |-> [role |-> r, at |-> q[i]]]
  <1>1. n \in Nat /\ DOMAIN direct[r] = 1 .. n /\ P \in SUBSET (1 .. n)
    BY DEF PlanDigests
  <1>2. JobsOf(r) = made
    BY DEF JobsOf
  <1> HIDE DEF P, n
  <1>3. /\ q \in Seq(P)
        /\ \A i \in P : \E k \in DOMAIN q : q[k] = i
        /\ \A k, l \in DOMAIN q : q[k] = q[l] => k = l
    BY <1>1, InOrderFacts
  <1> HIDE DEF q
  <1>4. Len(q) \in Nat /\ DOMAIN q = 1 .. Len(q) /\ \A k \in DOMAIN q : q[k] \in P
    BY <1>3
  <1>5. made \in [1 .. Len(q) -> [role : {r}, at : P]] /\ DOMAIN made = DOMAIN q
    BY <1>4
  <1>6. \A k \in DOMAIN q : made[k].at = q[k]
    OBVIOUS
  <1> HIDE DEF made
  <1> DEFINE R == [role : {r}, at : P]
  <1>7. made \in [1 .. Len(q) -> R]
    BY <1>5
  <1> HIDE DEF R
  <1>8. made \in Seq(R)
    BY <1>4, <1>7
  <1>9. /\ \A i \in P : \E k \in DOMAIN made : made[k].at = i
        /\ \A k, l \in DOMAIN made : made[k].at = made[l].at => k = l
    BY <1>3, <1>5, <1>6
  <1> QED
    BY <1>1, <1>2, <1>8, <1>9 DEF P, R, n

LEMMA DirectFacts ==
    ASSUME TextsInv, ReadOnce, NEW r \in Role
    PROVE  /\ direct[r] \in Seq(Versions(uploads))
           /\ \A i \in DOMAIN direct[r] : \E k \in DOMAIN documents[r] : direct[r][i] = documents[r][k]
  <1>1. /\ uploads \in Uploads /\ documents = ReadAgain(Samples(uploads))
        /\ direct = Without(ReadAgain(Samples(uploads)), Identified(Samples(uploads)))
    BY DEF TextsInv
  <1> QED
    BY <1>1, WithoutFacts

\* The jobs of the one role come before those of the other.
LEMMA AllJobs ==
    ASSUME TextsInv, ResultsInv, Planned
    PROVE  /\ JobsOf("package") \in Seq([role : Role, at : Nat])
           /\ JobsOf("context") \in Seq([role : Role, at : Nat])
           /\ jobs \in Seq([role : Role, at : Nat])
           /\ jobs = JobsOf("package") \o JobsOf("context")
  <1>1. ASSUME NEW r \in Role PROVE JobsOf(r) \in Seq([role : Role, at : Nat])
    <2>1. direct[r] \in Seq(Versions(uploads))
      BY DirectFacts DEF Planned, ReadOnce
    <2> DEFINE P == PlanDigests(direct[r], Budget[r])
    <2>2. JobsOf(r) \in Seq([role : {r}, at : P]) /\ P \in SUBSET DOMAIN direct[r]
      BY <2>1, JobsFacts
    <2>3. DOMAIN direct[r] \in SUBSET Nat
      BY <2>1
    <2> HIDE DEF P
    <2>4. [role : {r}, at : P] \in SUBSET [role : Role, at : Nat]
      BY <2>2, <2>3
    <2> DEFINE A == [role : {r}, at : P]
               B == [role : Role, at : Nat]
    <2>5. JobsOf(r) \in Seq(A) /\ A \in SUBSET B
      BY <2>2, <2>4
    <2> HIDE DEF A, B
    <2>6. JobsOf(r) \in Seq(B)
      BY <2>5
    <2> QED
      BY <2>6 DEF B
  <1>2. "package" \in Role /\ "context" \in Role
    BY DEF Role
  <1>3. jobs = JobsOf("package") \o JobsOf("context")
    BY DEF ResultsInv
  <1> DEFINE B == [role : Role, at : Nat]
  <1>4. JobsOf("package") \in Seq(B) /\ JobsOf("context") \in Seq(B)
    BY <1>1, <1>2
  <1> HIDE DEF B
  <1>5. jobs \in Seq(B)
    BY <1>3, <1>4
  <1> QED
    BY <1>3, <1>4, <1>5 DEF B

-----------------------------------------------------------------------------
\* What a step of the pool may do to the call of j.
CallMovesOn(j, c) ==
    /\ OnlyCall(j, c) /\ ~Finished(j)
    /\ c.stage \in {"excluded", "digested"} =>
         c.cited \subseteq DOMAIN JobDocument(jobs[j]).segments
    /\ UNCHANGED <<pc, documents, direct, jobs, outcomes, evidence, incomplete>>

LEMMA EndedMovesOn ==
    ASSUME NEW j, ~Finished(j), NEW stage, NEW cited, Ended(j, stage, cited),
           cited \subseteq DOMAIN JobDocument(jobs[j]).segments,
           UNCHANGED <<pc, documents, direct, jobs, outcomes, evidence, incomplete>>
    PROVE  \E c : CallMovesOn(j, c)
  <1> DEFINE c == [stage |-> stage, cited |-> cited]
  <1>1. OnlyCall(j, c) /\ c.cited = cited
    BY DEF OnlyCall, Ended
  <1> HIDE DEF c
  <1> QED
    BY <1>1 DEF CallMovesOn

LEMMA AskingMovesOn ==
    ASSUME NEW j, ~Finished(j), NEW c, OnlyCall(j, c), c.stage = "asking",
           UNCHANGED <<pc, documents, direct, jobs, outcomes, evidence, incomplete>>
    PROVE  \E d : CallMovesOn(j, d)
  BY DEF CallMovesOn

LEMMA PoolStepMovesOn ==
    ASSUME PoolInv, NEW j \in DOMAIN jobs, StartDigest(j) \/ Request(j)
    PROVE  \E c : CallMovesOn(j, c)
  <1>1. /\ j \in DOMAIN call /\ ~Finished(j)
        /\ UNCHANGED <<pc, documents, direct, jobs, outcomes, evidence, incomplete>>
    BY DEF PoolInv, Finished, StartDigest, Request, TransientError, RequestFails, GrammarTooLarge,
           SchemaInvalid, Digested, pool, intake
  <1>2. CASE StartDigest(j)
    <2>1. CASE Ended(j, "excluded", {})
      BY <1>1, <2>1, EndedMovesOn
    <2>2. CASE OnlyCall(j, Asking(call[j], 1, Form))
      BY <1>1, <2>2, AskingMovesOn, AskingLemma
    <2> QED
      BY <1>1, <1>2, <2>1, <2>2 DEF StartDigest, OnlyCall
  <1>3. CASE TransientError(j)
    <2>1. PICK c : c = [call[j] EXCEPT !.try = @ + 1, !.requests = @ + 1] /\ OnlyCall(j, c)
      BY <1>1, <1>3 DEF TransientError, OnlyCall
    <2>2. c.stage = "asking"
      BY <1>3, <2>1 DEF TransientError
    <2> QED
      BY <1>1, <2>1, <2>2, AskingMovesOn
  <1>4. CASE RequestFails(j)
    BY <1>1, <1>4, EndedMovesOn DEF RequestFails
  <1>5. CASE GrammarTooLarge(j)
    <2>1. OnlyCall(j, Asking(call[j], call[j].round, "prompted"))
      BY <1>1, <1>5 DEF GrammarTooLarge, OnlyCall
    <2> QED
      BY <1>1, <2>1, AskingMovesOn, AskingLemma
  <1>6. CASE SchemaInvalid(j)
    <2>1. CASE Ended(j, "excluded", {})
      BY <1>1, <2>1, EndedMovesOn
    <2>2. CASE OnlyCall(j, Asking(call[j], 2, Form))
      BY <1>1, <2>2, AskingMovesOn, AskingLemma
    <2> QED
      BY <1>1, <1>6, <2>1, <2>2 DEF SchemaInvalid, OnlyCall
  <1>7. CASE Digested(j)
    <2>1. PICK known : known \subseteq DOMAIN JobDocument(jobs[j]).segments
                       /\ Ended(j, "digested",
                                {p \in known : Cardinality({q \in known : q <= p}) <= MaxCited})
      BY <1>7 DEF Digested
    <2>2. PICK cited : cited \subseteq known /\ Ended(j, "digested", cited)
      BY <2>1
    <2> QED
      BY <1>1, <2>1, <2>2, EndedMovesOn
  <1> QED
    BY <1>2, <1>3, <1>4, <1>5, <1>6, <1>7 DEF Request

LEMMA CallKeepsResults ==
    ASSUME PoolInv, ResultsInv, NEW j \in DOMAIN jobs, NEW c, CallMovesOn(j, c)
    PROVE  ResultsInv'
  <1>1. /\ j \in DOMAIN call /\ ~Finished(j)
        /\ call'[j] = c /\ \A k \in DOMAIN call : k # j => call'[k] = call[k]
        /\ UNCHANGED <<pc, documents, direct, jobs, outcomes, evidence, incomplete>>
    BY DEF PoolInv, CallMovesOn, OnlyCall
  <1>2. \A k \in DOMAIN jobs : k # j => (Finished(k)' <=> Finished(k)) /\ OutcomeOf(k)' = OutcomeOf(k)
    BY <1>1 DEF PoolInv, Finished, OutcomeOf, JobDocument
  <1>3. \A k \in DOMAIN outcomes : k \in DOMAIN jobs /\ k # j /\ Finished(k) /\ outcomes[k] = OutcomeOf(k)
    BY <1>1 DEF ResultsInv
  <1>4. \A k \in DOMAIN outcomes' : Finished(k)' /\ outcomes'[k] = OutcomeOf(k)'
    BY <1>1, <1>2, <1>3
  <1>5. \A k \in DOMAIN jobs' :
           Finished(k)' => call'[k].cited \subseteq DOMAIN JobDocument(jobs[k])'.segments
    <2> SUFFICES ASSUME NEW k \in DOMAIN jobs, Finished(k)'
                 PROVE  call'[k].cited \subseteq DOMAIN JobDocument(jobs[k])'.segments
      BY <1>1
    <2>1. JobDocument(jobs[k])' = JobDocument(jobs[k])
      BY <1>1 DEF JobDocument
    <2>2. CASE k = j
      BY <1>1, <2>1, <2>2 DEF CallMovesOn, Finished
    <2>3. CASE k # j
      BY <1>1, <1>2, <2>1, <2>3 DEF ResultsInv, PoolInv
    <2> QED
      BY <2>2, <2>3
  <1>6. \A r : JobsOf(r)' = JobsOf(r) /\ EvidenceOf(r)' = EvidenceOf(r)
    BY <1>1 DEF JobsOf, EvidenceOf, Positions
  <1>7. DigestedRoles' = DigestedRoles
    BY <1>1 DEF DigestedRoles
  <1> QED
    BY <1>1, <1>4, <1>5, <1>6, <1>7 DEF ResultsInv, Early, Planned, Written

\* The steps of the main thread that leave what the pool has made alone.
LEMMA ResultsRest ==
    ASSUME ResultsInv, UNCHANGED <<documents, direct, jobs, call, outcomes, evidence, incomplete>>,
           pc' = pc \/ pc' = "failed" \/ (pc = "digest" /\ pc' = "leave")
           \/ (pc = "review" /\ pc' = "done")
    PROVE  ResultsInv'
  <1>1. \A r : JobsOf(r)' = JobsOf(r) /\ EvidenceOf(r)' = EvidenceOf(r)
    BY DEF JobsOf, EvidenceOf, Positions
  <1>2. \A k : /\ Finished(k)' <=> Finished(k)
               /\ OutcomeOf(k)' = OutcomeOf(k) /\ JobDocument(jobs[k])' = JobDocument(jobs[k])
    BY DEF Finished, OutcomeOf, JobDocument
  <1>3. DigestedRoles' = DigestedRoles
    BY DEF DigestedRoles
  <1> QED
    BY <1>1, <1>2, <1>3 DEF ResultsInv, Early, Planned, Written

LEMMA NextKeepsResults ==
    PoolInv /\ TextsInv /\ ResultsInv /\ [DocumentsNext]_documentsVars => ResultsInv'
  <1> SUFFICES ASSUME PoolInv, TextsInv, ResultsInv, [DocumentsNext]_documentsVars PROVE ResultsInv'
    OBVIOUS
  <1>1. CASE Extract \/ ReadInFull
    <2>1. /\ UNCHANGED <<jobs, call, outcomes, evidence, incomplete>>
          /\ pc \in {"extract", "research"} /\ pc' \in {"research", "plan", "failed"}
      BY <1>1 DEF Extract, ReadInFull, Fail
    <2>2. outcomes = <<>> /\ DOMAIN jobs = {}
      BY <2>1 DEF ResultsInv, PoolInv, Early
    <2>3. DOMAIN outcomes' = {} /\ DOMAIN jobs' = {} /\ outcomes' \in Seq(ToSet(outcomes'))
      BY <2>1, <2>2
    <2> QED
      BY <2>1, <2>2, <2>3 DEF ResultsInv, Early, Planned, Written
  <1>2. CASE Plan
    <2>1. /\ UNCHANGED <<documents, direct, outcomes, evidence, incomplete>>
          /\ pc = "plan" /\ pc' = "digest" /\ jobs' = JobsOf("package") \o JobsOf("context")
          /\ call' = [j \in DOMAIN jobs' |-> Queued] /\ outcomes = <<>>
      BY <1>2 DEF Plan, ResultsInv, Early
    <2>2. \A r : JobsOf(r)' = JobsOf(r)
      BY <2>1 DEF JobsOf
    <2>3. \A k \in DOMAIN jobs' : ~Finished(k)'
      BY <2>1, QueuedFits DEF Finished
    <2>4. DOMAIN outcomes' = {} /\ outcomes' \in Seq(ToSet(outcomes'))
      BY <2>1
    <2> QED
      BY <2>1, <2>2, <2>3, <2>4 DEF ResultsInv, Early, Planned, Written
  <1>3. CASE Collect
    <2> DEFINE n == Len(outcomes) + 1
    <2>1. /\ UNCHANGED <<pc, documents, direct, jobs, call, evidence, incomplete>>
          /\ pc = "digest" /\ Len(outcomes) < Len(jobs) /\ Finished(n)
          /\ outcomes' = Append(outcomes, OutcomeOf(n))
      BY <1>3 DEF Collect, intake
    <2>2. outcomes \in Seq(ToSet(outcomes)) /\ Len(outcomes) \in Nat
      BY DEF ResultsInv
    <2>3. n \in DOMAIN jobs
      <3>1. jobs \in Seq([role : Role, at : Nat])
        BY <2>1, AllJobs DEF Planned
      <3>2. Len(jobs) \in Nat /\ DOMAIN jobs = 1 .. Len(jobs)
        BY <3>1
      <3> QED
        BY <2>1, <2>2, <3>2
    <2> HIDE DEF n
    <2>4. /\ DOMAIN outcomes' = DOMAIN outcomes \union {n} /\ outcomes'[n] = OutcomeOf(n)
          /\ \A k \in DOMAIN outcomes : outcomes'[k] = outcomes[k]
      BY <2>1, <2>2 DEF n
    <2>5. outcomes' \in Seq(ToSet(outcomes'))
      <3>1. outcomes' \in Seq(ToSet(outcomes) \union {OutcomeOf(n)})
        BY <2>1, <2>2
      <3>2. \A k \in DOMAIN outcomes' : outcomes'[k] \in ToSet(outcomes')
        BY DEF ToSet
      <3> QED
        BY <3>1, <3>2
    <2>6. \A r : JobsOf(r)' = JobsOf(r)
      BY <2>1 DEF JobsOf
    <2>7. \A k : /\ Finished(k)' <=> Finished(k)
                 /\ OutcomeOf(k)' = OutcomeOf(k) /\ JobDocument(jobs[k])' = JobDocument(jobs[k])
      BY <2>1 DEF Finished, OutcomeOf, JobDocument
    <2>8. \A k \in DOMAIN outcomes' : Finished(k)' /\ outcomes'[k] = OutcomeOf(k)'
      BY <2>1, <2>4, <2>7 DEF ResultsInv
    <2> QED
      BY <2>1, <2>3, <2>4, <2>5, <2>6, <2>7, <2>8 DEF ResultsInv, Early, Planned, Written
  <1>4. CASE BuildEvidence
    <2>1. /\ UNCHANGED <<documents, direct, jobs, call, outcomes>>
          /\ pc = "digest" /\ pc' = "review" /\ Len(outcomes) = Len(jobs)
          /\ evidence' = EvidenceOf("package") \o EvidenceOf("context")
          /\ incomplete' = {r \in Role : \E i \in DOMAIN documents[r] : Sampled(documents[r][i])}
                             \union DigestedRoles
      BY <1>4 DEF BuildEvidence, intake
    <2>2. JobsOf("package")' = JobsOf("package") /\ JobsOf("context")' = JobsOf("context")
          /\ EvidenceOf("package")' = EvidenceOf("package")
          /\ EvidenceOf("context")' = EvidenceOf("context")
      <3>1. UNCHANGED <<documents, direct, jobs, call, outcomes>>
        BY <2>1
      <3> QED
        BY <3>1 DEF JobsOf, EvidenceOf, Positions
    <2>3. \A k : /\ Finished(k)' <=> Finished(k)
                 /\ OutcomeOf(k)' = OutcomeOf(k) /\ JobDocument(jobs[k])' = JobDocument(jobs[k])
      BY <2>1 DEF Finished, OutcomeOf, JobDocument
    <2>4. DigestedRoles' = DigestedRoles
      BY <2>1 DEF DigestedRoles
    <2>5. DOMAIN outcomes = DOMAIN jobs
      <3>1. jobs \in Seq([role : Role, at : Nat])
        BY <2>1, AllJobs DEF Planned
      <3> QED
        BY <2>1, <3>1 DEF ResultsInv
    <2> QED
      BY <2>1, <2>2, <2>3, <2>4, <2>5 DEF ResultsInv, Early, Planned, Written
  <1>5. CASE PlanFails \/ ProgressFails \/ LeavePool \/ Publish \/ ReviewFails
    BY <1>5, ResultsRest
       DEF PlanFails, ProgressFails, LeavePool, Publish, ReviewFails, Fail, intake
  <1>6. ASSUME NEW j \in DOMAIN jobs, StartDigest(j) \/ Request(j) PROVE ResultsInv'
    BY <1>6, PoolStepMovesOn, CallKeepsResults
  <1>7. CASE UNCHANGED documentsVars
    BY <1>7, ResultsRest DEF documentsVars
  <1> QED
    BY <1>1, <1>2, <1>3, <1>4, <1>5, <1>6, <1>7 DEF DocumentsNext, Finish

DocInv == PoolInv /\ TextsInv /\ ResultsInv

LEMMA DocInvHolds == DocumentsSpec => []DocInv
  <1>1. PoolInv /\ TextsInv /\ ResultsInv /\ [DocumentsNext]_documentsVars => (TextsInv /\ ResultsInv)'
    BY NextKeepsTexts, NextKeepsResults
  <1>2. DocumentsInit => TextsInv /\ ResultsInv
    BY TextsAtFirst, ResultsAtFirst
  <1> QED
    BY <1>1, <1>2, PoolInvHolds, PTL DEF DocumentsSpec, DocInv

-----------------------------------------------------------------------------
(***************************************************************************)
(* What is cut is whole.                                                   *)
(***************************************************************************)
\* Every document, sampled or read again, is made of an upload of its role's.
LEMMA DocumentIsOfUpload ==
    ASSUME TextsInv, NEW r \in Role, NEW i \in DOMAIN documents[r]
    PROVE  \E f \in Files(uploads), s \in BOOLEAN : documents[r][i] = Document(f, s)
  <1>0. uploads \in Uploads
    BY DEF TextsInv
  <1>1. CASE documents = [q \in Role |-> <<>>]
    BY <1>1
  <1>2. CASE documents = Samples(uploads)
    <2>1. documents[r] \in Seq(Sampling(uploads))
      BY <1>0, <1>2, SamplesFacts
    <2>2. documents[r][i] \in Sampling(uploads)
      BY <2>1
    <2> QED
      BY <2>2 DEF Sampling
  <1>3. CASE documents = ReadAgain(Samples(uploads))
    <2>1. documents[r] \in Seq(Versions(uploads))
      BY <1>0, <1>3, ReadAgainFacts
    <2>2. documents[r][i] \in Versions(uploads)
      BY <2>1
    <2> QED
      BY <2>2 DEF Versions
  <1> QED
    BY <1>1, <1>2, <1>3 DEF TextsInv

LEMMA TextsAreWhole ==
    ASSUME TextsInv, SamplePages > 1
    PROVE  TextIsWhole
  <1> SUFFICES ASSUME NEW r \in Role, NEW i \in DOMAIN documents[r]
               PROVE  LET u == documents[r][i].upload
                          chunks == ChunkText[Stripped(u.body)]
                          read == PagesRead(u, TRUE)
                          IsInk(c) == c = Ink
                      IN /\ u.suffix = "txt" =>
                             /\ \A k \in DOMAIN chunks : Len(chunks[k]) \in 1 .. SegmentCharacters
                             /\ Count(FlattenSeq(chunks), IsInk) = Count(u.body, IsInk)
                         /\ u.suffix = "pdf" /\ Len(u.body) > SamplePages =>
                             Cardinality(read) = SamplePages /\ {1, Len(u.body)} \subseteq read
    BY DEF TextIsWhole
  <1> DEFINE u == documents[r][i].upload
             chunks == ChunkText[Stripped(u.body)]
             read == PagesRead(u, TRUE)
             IsInk(c) == c = Ink
  <1>1. u \in Files(uploads) /\ uploads \in Uploads
    BY DocumentIsOfUpload, DocumentFacts DEF TextsInv
  <1> HIDE DEF u
  <1>2. u.body \in Seq(IF u.suffix = "txt" THEN {Ink, Blank} ELSE Nat)
    <2>1. "package" \in Role
      BY DEF Role
    <2> QED
      BY <1>1, <2>1, UploadFacts
  <1>3. ASSUME u.suffix = "txt"
        PROVE  /\ \A k \in DOMAIN chunks : Len(chunks[k]) \in 1 .. SegmentCharacters
               /\ Count(FlattenSeq(chunks), IsInk) = Count(u.body, IsInk)
    <2> DEFINE t == u.body
               c == Stripped(t)
    <2>1. t \in Texts
      BY <1>2, <1>3 DEF Texts
    <2> HIDE DEF t
    <2>2. /\ c \in Texts /\ (c = <<>> \/ c[1] = Ink)
          /\ Occurrences(Ink, c) = Occurrences(Ink, t)
      BY <2>1, StrippedFacts
    <2> HIDE DEF c
    <2>3. Whole(c, ChunkText[c])
      BY <2>2, ChunksAreWhole
    <2>4. /\ \A k \in DOMAIN ChunkText[c] : Len(ChunkText[c][k]) \in 1 .. SegmentCharacters
          /\ Occurrences(Ink, FlattenSeq(ChunkText[c])) = Occurrences(Ink, t)
      BY <2>2, <2>3 DEF Whole
    <2>5. /\ Count(FlattenSeq(ChunkText[c]), IsInk) = Occurrences(Ink, FlattenSeq(ChunkText[c]))
          /\ Count(t, IsInk) = Occurrences(Ink, t)
      BY DEF Count, Occurrences
    <2> QED
      BY <2>4, <2>5 DEF c, t
  <1>4. ASSUME u.suffix = "pdf", Len(u.body) > SamplePages
        PROVE  Cardinality(read) = SamplePages /\ {1, Len(u.body)} \subseteq read
    <2>1. u.body \in Seq(Nat)
      BY <1>2, <1>4
    <2>2. Len(u.body) \in Nat /\ SamplePages \in Nat \ {0}
      BY <2>1, ExtractionConstants
    <2>3. read = DistributedPages(Len(u.body), SamplePages)
      BY DEF PagesRead
    <2> HIDE DEF read
    <2> DEFINE n == Len(u.body)
    <2>4. n \in Nat /\ n > SamplePages
      BY <1>4, <2>2
    <2> HIDE DEF n
    <2>5. Cardinality(DistributedPages(n, SamplePages)) = SamplePages
          /\ {1, n} \subseteq DistributedPages(n, SamplePages)
      BY <2>2, <2>4, DistributedFacts
    <2> QED
      BY <2>3, <2>5 DEF n
  <1> QED
    BY <1>3, <1>4 DEF u

-----------------------------------------------------------------------------
(***************************************************************************)
(* The plan of a role: the largest documents, until the rest fits.         *)
(***************************************************************************)
Sizes(docs) == [i \in DOMAIN docs |-> DocumentCharacters(docs[i])]

LEMMA LargerIsOrder ==
    ASSUME NEW docs, NEW n \in Nat, DOMAIN docs = 1 .. n,
           \A i \in DOMAIN docs : DocumentCharacters(docs[i]) \in Nat
    PROVE  /\ \A i \in 1 .. n : ~Larger(docs, i, i)
           /\ \A i, j \in 1 .. n : i # j => Larger(docs, i, j) \/ Larger(docs, j, i)
           /\ \A i, j \in 1 .. n : ~(Larger(docs, i, j) /\ Larger(docs, j, i))
           /\ \A i, j, k \in 1 .. n : Larger(docs, i, j) /\ Larger(docs, j, k) => Larger(docs, i, k)
           /\ \A i, j \in 1 .. n :
                ~Larger(docs, i, j) => DocumentCharacters(docs[i]) <= DocumentCharacters(docs[j])
  BY DEF Larger

\* Every set of documents has a largest one and a smallest one.
LEMMA LargestAndSmallest ==
    ASSUME NEW docs, NEW n \in Nat, DOMAIN docs = 1 .. n,
           \A i \in DOMAIN docs : DocumentCharacters(docs[i]) \in Nat,
           NEW K \in SUBSET (1 .. n), K # {}
    PROVE  /\ \E i \in K : \A j \in K : ~Larger(docs, j, i)
           /\ \E i \in K : \A j \in K : ~Larger(docs, i, j)
  <1> DEFINE Big(m) == (\E j \in K : j <= m) =>
                 \E i \in K : i <= m /\ \A j \in K : j <= m => ~Larger(docs, j, i)
             Small(m) == (\E j \in K : j <= m) =>
                 \E i \in K : i <= m /\ \A j \in K : j <= m => ~Larger(docs, i, j)
             R == {m \in Nat : Big(m) /\ Small(m)}
             L(i, j) == Larger(docs, i, j)
  <1>1. /\ \A i \in K : i \in Nat /\ i >= 1 /\ i <= n
        /\ \A i \in K : ~L(i, i)
        /\ \A i, j \in K : i # j => L(i, j) \/ L(j, i)
        /\ \A i, j \in K : ~(L(i, j) /\ L(j, i))
        /\ \A i, j, k \in K : L(i, j) /\ L(j, k) => L(i, k)
    <2>1. \A i \in K : i \in 1 .. n /\ i \in Nat /\ i >= 1 /\ i <= n
      OBVIOUS
    <2> QED
      BY <2>1, LargerIsOrder
  <1> HIDE DEF L
  <1>2. 0 \in R
    BY <1>1
  <1>3. ASSUME NEW m \in Nat, m \in R PROVE m + 1 \in R
    <2>1. \A j \in K : j <= m + 1 <=> j <= m \/ j = m + 1
      BY <1>1
    <2>2. Big(m + 1)
      <3>1. CASE m + 1 \notin K
        <4>1. \A j \in K : j <= m + 1 <=> j <= m
          BY <2>1, <3>1
        <4> QED
          BY <1>3, <4>1
      <3>2. CASE m + 1 \in K /\ ~(\E j \in K : j <= m)
        <4>1. \A j \in K : j <= m + 1 => j = m + 1
          BY <2>1, <3>2
        <4> QED
          BY <1>1, <3>2, <4>1 DEF L
      <3>3. CASE m + 1 \in K /\ (\E j \in K : j <= m)
        <4>1. PICK i \in K : i <= m /\ \A j \in K : j <= m => ~L(j, i)
          BY <1>3, <3>3 DEF L
        <4>2. CASE L(m + 1, i)
          <5>1. \A j \in K : j <= m + 1 => ~L(j, m + 1)
            BY <1>1, <2>1, <3>3, <4>1, <4>2
          <5>2. m + 1 <= m + 1
            OBVIOUS
          <5> QED
            BY <3>3, <5>1, <5>2 DEF L
        <4>3. CASE ~L(m + 1, i)
          <5>1. \A j \in K : j <= m + 1 => ~L(j, i)
            BY <2>1, <4>1, <4>3
          <5>2. i <= m + 1
            BY <2>1, <4>1
          <5> QED
            BY <5>1, <5>2 DEF L
        <4> QED
          BY <4>2, <4>3
      <3> QED
        BY <3>1, <3>2, <3>3
    <2>3. Small(m + 1)
      <3>1. CASE m + 1 \notin K
        <4>1. \A j \in K : j <= m + 1 <=> j <= m
          BY <2>1, <3>1
        <4> QED
          BY <1>3, <4>1
      <3>2. CASE m + 1 \in K /\ ~(\E j \in K : j <= m)
        <4>1. \A j \in K : j <= m + 1 => j = m + 1
          BY <2>1, <3>2
        <4> QED
          BY <1>1, <3>2, <4>1 DEF L
      <3>3. CASE m + 1 \in K /\ (\E j \in K : j <= m)
        <4>1. PICK i \in K : i <= m /\ \A j \in K : j <= m => ~L(i, j)
          BY <1>3, <3>3 DEF L
        <4>2. CASE L(i, m + 1)
          <5>1. \A j \in K : j <= m + 1 => ~L(m + 1, j)
            BY <1>1, <2>1, <3>3, <4>1, <4>2
          <5>2. m + 1 <= m + 1
            OBVIOUS
          <5> QED
            BY <3>3, <5>1, <5>2 DEF L
        <4>3. CASE ~L(i, m + 1)
          <5>1. \A j \in K : j <= m + 1 => ~L(i, j)
            BY <2>1, <4>1, <4>3
          <5>2. i <= m + 1
            BY <2>1, <4>1
          <5> QED
            BY <5>1, <5>2 DEF L
        <4> QED
          BY <4>2, <4>3
      <3> QED
        BY <3>1, <3>2, <3>3
    <2> QED
      BY <2>2, <2>3
  <1>4. R \in SUBSET Nat
    OBVIOUS
  <1>5. n \in R
    <2> HIDE DEF R
    <2> QED
      BY <1>2, <1>3, <1>4, EveryNumber
  <1>6. \E j \in K : j <= n
    BY <1>1
  <1> QED
    BY <1>1, <1>5, <1>6 DEF L

LEMMA PlanFits ==
    ASSUME NEW docs, NEW n \in Nat, DOMAIN docs = 1 .. n,
           \A i \in DOMAIN docs : DocumentCharacters(docs[i]) \in Nat,
           NEW budget \in Nat
    PROVE  LET planned == PlanDigests(docs, budget)
               kept == DOMAIN docs \ planned
           IN  /\ CharactersOf(docs, kept) <= budget
               /\ \A i \in planned : CharactersOf(docs, kept \union {i}) > budget
  <1> DEFINE planned == PlanDigests(docs, budget)
             kept == DOMAIN docs \ planned
             c == Sizes(docs)
             L(i, j) == Larger(docs, i, j)
             S(i) == {j \in 1 .. n : ~L(j, i)}
  <1>1. c \in Seq(Nat) /\ Len(c) = n /\ DOMAIN c = 1 .. n
        /\ \A i \in 1 .. n : c[i] = DocumentCharacters(docs[i])
    <2>1. c \in [1 .. n -> Nat]
      BY DEF Sizes
    <2>2. \A i \in 1 .. n : c[i] = DocumentCharacters(docs[i])
      BY DEF Sizes
    <2> HIDE DEF c
    <2> QED
      BY <2>1, <2>2
  <1>2. /\ \A i \in 1 .. n : ~L(i, i)
        /\ \A i, j \in 1 .. n : i # j => L(i, j) \/ L(j, i)
        /\ \A i, j \in 1 .. n : ~(L(i, j) /\ L(j, i))
        /\ \A i, j, k \in 1 .. n : L(i, j) /\ L(j, k) => L(i, k)
        /\ \A i, j \in 1 .. n : ~L(i, j) => c[i] <= c[j]
    BY <1>1, LargerIsOrder
  <1>3. \A K : CharactersOf(docs, K) = Total(c, K)
    BY DEF CharactersOf, Sizes
  <1>4. planned = {i \in 1 .. n : Total(c, S(i)) > budget}
    BY <1>3 DEF PlanDigests
  <1>5. \A K \in SUBSET (1 .. n) : K # {} =>
           (\E i \in K : \A j \in K : ~L(j, i)) /\ (\E i \in K : \A j \in K : ~L(i, j))
    BY LargestAndSmallest
  <1>6. kept = (1 .. n) \ planned
    OBVIOUS
  <1> HIDE DEF planned, kept, c, L
  <1>7. \A K, M : (\A i \in 1 .. n : i \in K => i \in M) => Total(c, K) <= Total(c, M)
    <2> SUFFICES ASSUME NEW K, NEW M, \A i \in 1 .. n : i \in K => i \in M
                 PROVE  Total(c, K) <= Total(c, M)
      OBVIOUS
    <2>1. \A i \in DOMAIN c : i \in K => i \in M /\ c[i] <= c[i]
      BY <1>1
    <2> QED
      BY <1>1, <2>1, TotalGrows
  <1>8. \A K : Total(c, K) \in Nat
    BY <1>1, TotalType
  <1>9. Total(c, kept) <= budget
    <2>1. CASE kept = {}
      BY <1>1, <2>1, TotalOfNone
    <2>2. CASE kept # {}
      <3>1. PICK i \in kept : \A j \in kept : ~L(j, i)
        BY <1>5, <1>6, <2>2
      <3>2. Total(c, S(i)) <= budget
        BY <1>4, <1>6, <1>8, <3>1
      <3>3. \A j \in 1 .. n : j \in kept => j \in S(i)
        BY <3>1
      <3>4. Total(c, kept) <= Total(c, S(i))
        <4> DEFINE M == S(i)
        <4>1. \A j \in 1 .. n : j \in kept => j \in M
          BY <3>3
        <4> HIDE DEF M
        <4>2. Total(c, kept) <= Total(c, M)
          BY <1>7, <4>1
        <4> QED
          BY <4>2 DEF M
      <3> DEFINE a == Total(c, kept)
                 b == Total(c, S(i))
      <3>5. a \in Nat /\ b \in Nat /\ a <= b /\ b <= budget
        BY <1>8, <3>2, <3>4
      <3> HIDE DEF a, b
      <3>6. a <= budget
        BY <3>5
      <3> QED
        BY <3>6 DEF a
    <2> QED
      BY <2>1, <2>2
  <1>10. ASSUME NEW i \in planned PROVE Total(c, kept \union {i}) > budget
    <2>1. planned \in SUBSET (1 .. n) /\ planned # {} /\ i \in 1 .. n
      BY <1>4, <1>10
    <2>2. PICK m \in planned : \A j \in planned : ~L(m, j)
      BY <1>5, <2>1
    <2>3. m \in 1 .. n /\ Total(c, S(m)) > budget
      BY <1>4, <2>2
    <2>4. \A j \in 1 .. n : j \in S(m) => j \in kept \union {m}
      BY <1>2, <1>6, <2>2, <2>3
    <2>5. Total(c, S(m)) <= Total(c, kept \union {m})
      <3> DEFINE M == S(m)
      <3>1. \A j \in 1 .. n : j \in M => j \in kept \union {m}
        BY <2>4
      <3> HIDE DEF M
      <3>2. Total(c, M) <= Total(c, kept \union {m})
        BY <1>7, <3>1
      <3> QED
        BY <3>2 DEF M
    <2>6. /\ Total(c, kept \union {m}) = Total(c, kept) + c[m]
          /\ Total(c, kept \union {i}) = Total(c, kept) + c[i]
      <3>1. m \notin kept /\ i \notin kept /\ m \in DOMAIN c /\ i \in DOMAIN c
        BY <1>1, <1>6, <1>10, <2>1, <2>3
      <3>2. Total(c, kept \union {m}) = Total(c, kept) + c[m]
        BY <1>1, <3>1, TotalAdds
      <3>3. Total(c, kept \union {i}) = Total(c, kept) + c[i]
        BY <1>1, <3>1, TotalAdds
      <3> QED
        BY <3>2, <3>3
    <2>7. c[m] <= c[i]
      BY <1>2, <1>10, <2>1, <2>2, <2>3
    <2> DEFINE t == Total(c, kept)
               s == Total(c, S(m))
    <2>8. t \in Nat /\ s \in Nat /\ c[m] \in Nat /\ c[i] \in Nat /\ s > budget /\ s <= t + c[m]
      BY <1>1, <1>8, <2>1, <2>3, <2>5, <2>6
    <2> HIDE DEF t, s
    <2>9. t + c[i] > budget
      BY <2>7, <2>8
    <2> QED
      BY <2>6, <2>9 DEF t
  <1> QED
    BY <1>3, <1>9, <1>10 DEF planned, kept

-----------------------------------------------------------------------------
(***************************************************************************)
(* The segments of a document.                                             *)
(***************************************************************************)
LEMMA LocatedFacts ==
    ASSUME NEW u, u.body \in Seq(Nat), NEW positions \in SUBSET DOMAIN u.body
    PROVE  Located(u, positions) \in Seq([at : Nat, size : Nat])
  <1> DEFINE n == Len(u.body)
             S == {p \in positions : u.body[p] > 0}
             q == InOrder(S, n)
             made == [i \in DOMAIN q |-> [at |-> q[i], size |-> u.body[q[i]]]]
             R == [at : Nat, size : Nat]
  <1>1. n \in Nat /\ DOMAIN u.body = 1 .. n /\ S \in SUBSET (1 .. n)
        /\ \A i \in 1 .. n : i \in Nat /\ u.body[i] \in Nat
    OBVIOUS
  <1>2. Located(u, positions) = made
    BY DEF Located
  <1> HIDE DEF S, n
  <1>3. q \in Seq(S)
    BY <1>1, InOrderFacts
  <1> HIDE DEF q
  <1>4. Len(q) \in Nat /\ DOMAIN q = 1 .. Len(q) /\ \A k \in DOMAIN q : q[k] \in 1 .. n
    <2>1. Len(q) \in Nat /\ DOMAIN q = 1 .. Len(q) /\ \A k \in DOMAIN q : q[k] \in S
      BY <1>3
    <2>2. \A p \in S : p \in 1 .. n
      BY <1>1
    <2> QED
      BY <2>1, <2>2
  <1>5. made \in [1 .. Len(q) -> R]
    BY <1>1, <1>4
  <1> HIDE DEF made, R
  <1>6. made \in Seq(R)
    BY <1>4, <1>5
  <1> QED
    BY <1>2, <1>6 DEF R

LEMMA PagesReadFacts ==
    ASSUME NEW u, NEW T, u.body \in Seq(T), NEW s
    PROVE  PagesRead(u, s) \in SUBSET DOMAIN u.body
  <1>1. Len(u.body) \in Nat /\ DOMAIN u.body = 1 .. Len(u.body)
    OBVIOUS
  <1>2. DistributedPages(Len(u.body), SamplePages) \in SUBSET (1 .. Len(u.body))
    <2> DEFINE n == Len(u.body)
    <2>1. n \in Nat
      BY <1>1
    <2> HIDE DEF n
    <2>2. DistributedPages(n, SamplePages) \in SUBSET (1 .. n)
      BY <2>1, DistributedFacts, ExtractionConstants
    <2> QED
      BY <2>2 DEF n
  <1> QED
    BY <1>1, <1>2 DEF PagesRead

LEMMA SegmentsFacts ==
    ASSUME NEW u \in Uploads, NEW f \in Files(u), NEW s
    PROVE  Segments(f, s) \in Seq([at : Nat, size : Nat])
  <1>1. /\ f.suffix \in {"pdf", "docx", "txt"}
        /\ f.body \in Seq(IF f.suffix = "txt" THEN {Ink, Blank} ELSE Nat)
    <2>1. "package" \in Role
      BY DEF Role
    <2> QED
      BY <2>1, UploadFacts
  <1>2. CASE f.suffix = "pdf"
    <2>1. f.body \in Seq(Nat)
      BY <1>1, <1>2
    <2>2. Segments(f, s) = Located(f, PagesRead(f, s))
      BY <1>2 DEF Segments, PdfSegments
    <2> QED
      BY <2>1, <2>2, PagesReadFacts, LocatedFacts
  <1>3. CASE f.suffix = "docx"
    <2>1. f.body \in Seq(Nat)
      BY <1>1, <1>3
    <2>2. Segments(f, s) = Located(f, DOMAIN f.body)
      BY <1>3 DEF Segments, DocxSegments
    <2> QED
      BY <2>1, <2>2, LocatedFacts
  <1>4. CASE f.suffix = "txt"
    <2> DEFINE c == ChunkText[Stripped(f.body)]
               made == [i \in DOMAIN c |-> [at |-> i, size |-> Len(c[i])]]
               R == [at : Nat, size : Nat]
    <2>1. f.body \in Texts
      BY <1>1, <1>4 DEF Texts
    <2>2. Stripped(f.body) \in Texts
      BY <2>1, StrippedFacts
    <2>3. c \in Seq(Texts)
      BY <2>2, ChunkTextUnfolds
    <2>4. Segments(f, s) = made
      BY <1>4 DEF Segments, TextSegments
    <2> HIDE DEF c
    <2>5. Len(c) \in Nat /\ DOMAIN c = 1 .. Len(c) /\ \A i \in DOMAIN c : i \in Nat /\ Len(c[i]) \in Nat
      BY <2>3 DEF Texts
    <2>6. made \in [1 .. Len(c) -> R]
      BY <2>5
    <2> HIDE DEF made, R
    <2>7. made \in Seq(R)
      BY <2>5, <2>6
    <2> QED
      BY <2>4, <2>7 DEF R
  <1> QED
    BY <1>1, <1>2, <1>3, <1>4

LEMMA VersionFacts ==
    ASSUME NEW u \in Uploads, NEW d \in Versions(u)
    PROVE  /\ d.segments \in Seq([at : Nat, size : Nat])
           /\ DocumentCharacters(d) \in Nat
  <1>1. PICK f \in Files(u), s \in BOOLEAN : d = Document(f, s)
    BY DEF Versions
  <1> DEFINE R == [at : Nat, size : Nat]
             q == d.segments
             sizes == [i \in DOMAIN q |-> q[i].size]
  <1>2. q \in Seq(R)
    BY <1>1, DocumentFacts, SegmentsFacts
  <1>3. \A x \in R : x.size \in Nat
    OBVIOUS
  <1>4. DocumentCharacters(d) = Total(sizes, DOMAIN q)
    BY DEF DocumentCharacters, Characters
  <1> HIDE DEF R, q
  <1>5. Len(q) \in Nat /\ DOMAIN q = 1 .. Len(q) /\ \A i \in DOMAIN q : q[i].size \in Nat
    BY <1>2, <1>3
  <1>6. sizes \in [1 .. Len(q) -> Nat]
    BY <1>5
  <1> HIDE DEF sizes
  <1>7. sizes \in Seq(Nat)
    BY <1>5, <1>6
  <1>8. Total(sizes, DOMAIN q) \in Nat
    BY <1>7, TotalType
  <1> QED
    BY <1>2, <1>4, <1>8 DEF R, q

-----------------------------------------------------------------------------
LEMMA BudgetFacts ==
    \A r \in Role : Budget[r] \in Nat
  BY DocumentsAssumption

\* The jobs that stand for documents of a role, and the documents they stand for.
LEMMA JobsOfRole ==
    ASSUME TextsInv, ResultsInv, Planned, NEW r \in Role
    PROVE  /\ {jobs[j].at : j \in Positions(r)} = PlanDigests(direct[r], Budget[r])
           /\ \A j \in DOMAIN jobs : jobs[j].role \in Role /\ jobs[j].at \in DOMAIN direct[jobs[j].role]
  <1> DEFINE a == JobsOf("package")
             b == JobsOf("context")
             P(q) == PlanDigests(direct[q], Budget[q])
             B == [role : Role, at : Nat]
  <1>1. ASSUME NEW q \in Role
        PROVE  /\ JobsOf(q) \in Seq([role : {q}, at : P(q)])
               /\ \A i \in P(q) : \E k \in DOMAIN JobsOf(q) : JobsOf(q)[k].at = i
               /\ P(q) \in SUBSET DOMAIN direct[q]
    BY <1>1, DirectFacts, JobsFacts DEF Planned, ReadOnce
  <1>2. ASSUME NEW q \in Role, NEW k \in DOMAIN JobsOf(q)
        PROVE  JobsOf(q)[k].role = q /\ JobsOf(q)[k].at \in P(q)
    <2>1. JobsOf(q)[k] \in [role : {q}, at : P(q)]
      <3> DEFINE R == [role : {q}, at : P(q)]
      <3>1. JobsOf(q) \in Seq(R)
        BY <1>1
      <3> HIDE DEF R
      <3>2. JobsOf(q)[k] \in R
        BY <1>2, <3>1
      <3> QED
        BY <3>2 DEF R
    <2> QED
      BY <2>1
  <1>3. a \in Seq(B) /\ b \in Seq(B) /\ jobs = a \o b
    BY AllJobs
  <1>4. Role = {"package", "context"}
    BY DEF Role
  <1>5. /\ \A k \in DOMAIN a : a[k].role = "package" /\ a[k].at \in P("package")
        /\ \A k \in DOMAIN b : b[k].role = "context" /\ b[k].at \in P("context")
        /\ \A i \in P("package") : \E k \in DOMAIN a : a[k].at = i
        /\ \A i \in P("context") : \E k \in DOMAIN b : b[k].at = i
    BY <1>1, <1>2, <1>4
  <1> HIDE DEF a, b, P, B
  <1>6. /\ DOMAIN jobs = 1 .. Len(a) + Len(b)
        /\ \A n \in DOMAIN jobs : jobs[n] = IF n <= Len(a) THEN a[n] ELSE b[n - Len(a)]
        /\ DOMAIN a = 1 .. Len(a) /\ DOMAIN b = 1 .. Len(b) /\ Len(a) \in Nat /\ Len(b) \in Nat
    BY <1>3, ConcatenationFacts
  <1>7. \A n \in DOMAIN jobs : (n <= Len(a) => n \in DOMAIN a)
                               /\ (~(n <= Len(a)) => n - Len(a) \in DOMAIN b)
    BY <1>6
  <1>8. \A n \in DOMAIN jobs : jobs[n].role \in Role /\ jobs[n].at \in P(jobs[n].role)
    BY <1>4, <1>5, <1>6, <1>7
  <1>9. ASSUME NEW i \in P(r) PROVE \E j \in Positions(r) : jobs[j].at = i
    <2>1. CASE r = "package"
      <3>1. PICK k \in DOMAIN a : a[k].at = i
        BY <1>5, <1>9, <2>1
      <3>2. k \in DOMAIN jobs /\ k <= Len(a)
        BY <1>6, <3>1
      <3> QED
        BY <1>5, <1>6, <2>1, <3>1, <3>2 DEF Positions
    <2>2. CASE r = "context"
      <3>1. PICK k \in DOMAIN b : b[k].at = i
        BY <1>5, <1>9, <2>2
      <3>2. k + Len(a) \in DOMAIN jobs /\ ~(k + Len(a) <= Len(a)) /\ k + Len(a) - Len(a) = k
        BY <1>6, <3>1
      <3>3. jobs[k + Len(a)] = b[k]
        BY <1>6, <3>2
      <3> QED
        BY <1>5, <2>2, <3>1, <3>2, <3>3 DEF Positions
    <2> QED
      BY <1>4, <2>1, <2>2
  <1>10. \A j \in Positions(r) : jobs[j].at \in P(r)
    BY <1>8 DEF Positions
  <1>11. {jobs[j].at : j \in Positions(r)} = P(r)
    BY <1>9, <1>10
  <1>12. \A q \in Role : P(q) \in SUBSET DOMAIN direct[q]
    BY <1>1 DEF P
  <1> QED
    BY <1>8, <1>11, <1>12 DEF P

LEMMA DirectFits ==
    ASSUME TextsInv, ResultsInv
    PROVE  DirectTextFits
  <1> SUFFICES ASSUME pc \in {"digest", "review", "done"}, NEW r \in Role
               PROVE  LET planned == {jobs[j].at : j \in Positions(r)}
                          kept == DOMAIN direct[r] \ planned
                      IN  /\ CharactersOf(direct[r], kept) <= Budget[r]
                          /\ \A i \in planned : CharactersOf(direct[r], kept \union {i}) > Budget[r]
    BY DEF DirectTextFits
  <1>1. Planned /\ ReadOnce
    BY DEF Planned, ReadOnce
  <1>2. {jobs[j].at : j \in Positions(r)} = PlanDigests(direct[r], Budget[r])
    BY <1>1, JobsOfRole
  <1>3. direct[r] \in Seq(Versions(uploads)) /\ uploads \in Uploads
    BY <1>1, DirectFacts DEF TextsInv
  <1> DEFINE docs == direct[r]
             n == Len(docs)
             budget == Budget[r]
  <1>4. n \in Nat /\ DOMAIN docs = 1 .. n /\ \A i \in DOMAIN docs : docs[i] \in Versions(uploads)
    BY <1>3
  <1>5. \A i \in DOMAIN docs : DocumentCharacters(docs[i]) \in Nat
    BY <1>3, <1>4, VersionFacts
  <1>6. budget \in Nat
    BY BudgetFacts
  <1> HIDE DEF docs, n, budget
  <1>7. LET planned == PlanDigests(docs, budget)
            kept == DOMAIN docs \ planned
        IN  /\ CharactersOf(docs, kept) <= budget
            /\ \A i \in planned : CharactersOf(docs, kept \union {i}) > budget
    BY <1>4, <1>5, <1>6, PlanFits
  <1> QED
    BY <1>2, <1>7 DEF docs, budget

-----------------------------------------------------------------------------
(***************************************************************************)
(* The evidence of a role: an entry for each of its documents.             *)
(***************************************************************************)
\* An entry is of the document at its place.
EntryFits(e, r) ==
    /\ e.role = r /\ e.at \in DOMAIN direct[r]
    /\ e.from = direct[r][e.at].upload /\ e.name = direct[r][e.at].name
    /\ e.cited \subseteq DOMAIN direct[r][e.at].segments

\* No document has two entries, and one without an entry could not be digested.
EvidenceFits(E, r) ==
    /\ E \in Seq(ToSet(E))
    /\ \A k \in DOMAIN E : EntryFits(E[k], r)
    /\ \A k, l \in DOMAIN E : E[k].at = E[l].at => k = l
    /\ \A i \in DOMAIN direct[r] :
         \/ \E k \in DOMAIN E : E[k].at = i /\ (Positions(r) = {} => E[k].kind = "text")
         \/ /\ Positions(r) # {}
            /\ \E j \in DOMAIN outcomes :
                 outcomes[j].stage = "excluded" /\ outcomes[j].name = direct[r][i].name

LEMMA EvidenceOfRole ==
    ASSUME TextsInv, ResultsInv, Written, NEW r \in Role
    PROVE  EvidenceFits(EvidenceOf(r), r)
  <1> DEFINE Mine(i) == {j \in Positions(r) : jobs[j].at = i}
             OutcomeAt(i) == outcomes[CHOOSE j \in Mine(i) : TRUE]
             Text(i) == [role |-> r, at |-> i, kind |-> "text", from |-> direct[r][i].upload,
                         name |-> direct[r][i].name, cited |-> DOMAIN direct[r][i].segments]
             Digest(i) == [role |-> r, at |-> i, kind |-> "digest",
                           from |-> OutcomeAt(i).document.upload, name |-> OutcomeAt(i).name,
                           cited |-> OutcomeAt(i).cited]
             s == [i \in DOMAIN direct[r] |-> IF Mine(i) = {} THEN Text(i) ELSE Digest(i)]
             keep == {i \in DOMAIN direct[r] : Mine(i) = {} \/ OutcomeAt(i).stage # "excluded"}
             D == DOMAIN direct[r]
             E == Selected(s, keep)
  <1>1. EvidenceOf(r) = E
    BY DEF EvidenceOf
  <1>2. ReadOnce /\ Planned
    BY DEF Written, ReadOnce, Planned
  <1>3. ASSUME NEW i \in D, Mine(i) # {}
        PROVE  /\ OutcomeAt(i).document = direct[r][i] /\ OutcomeAt(i).name = direct[r][i].name
               /\ OutcomeAt(i).cited \subseteq DOMAIN direct[r][i].segments
               /\ \E j \in DOMAIN outcomes : OutcomeAt(i) = outcomes[j]
    <2> DEFINE j == CHOOSE j \in Mine(i) : TRUE
    <2>1. j \in Mine(i)
      BY <1>3
    <2>2. j \in DOMAIN jobs /\ jobs[j].role = r /\ jobs[j].at = i
      BY <2>1 DEF Positions
    <2>3. OutcomeAt(i) = outcomes[j]
      OBVIOUS
    <2> HIDE DEF j, OutcomeAt
    <2>4. j \in DOMAIN outcomes /\ Finished(j) /\ outcomes[j] = OutcomeOf(j)
          /\ call[j].cited \subseteq DOMAIN JobDocument(jobs[j]).segments
      BY <2>2 DEF ResultsInv
    <2>5. JobDocument(jobs[j]) = direct[r][i]
      BY <2>2 DEF JobDocument
    <2> QED
      BY <2>3, <2>4, <2>5 DEF OutcomeOf
  <1>4. ASSUME NEW i \in D
        PROVE  s[i] = IF Mine(i) = {} THEN Text(i) ELSE Digest(i)
    OBVIOUS
  <1>5. /\ \A i \in D : EntryFits(s[i], r) /\ s[i].at = i /\ (Mine(i) = {} => s[i].kind = "text")
    <2> SUFFICES ASSUME NEW i \in D
                 PROVE  EntryFits(s[i], r) /\ s[i].at = i /\ (Mine(i) = {} => s[i].kind = "text")
      OBVIOUS
    <2>1. CASE Mine(i) = {}
      <3>1. s[i] = Text(i)
        BY <1>4, <2>1
      <3> HIDE DEF s
      <3> QED
        BY <3>1 DEF EntryFits
    <2>2. CASE Mine(i) # {}
      <3>1. s[i] = Digest(i)
        BY <1>4, <2>2
      <3>2. /\ OutcomeAt(i).document = direct[r][i] /\ OutcomeAt(i).name = direct[r][i].name
            /\ OutcomeAt(i).cited \subseteq DOMAIN direct[r][i].segments
        BY <1>3, <2>2
      <3> HIDE DEF s, OutcomeAt, Mine
      <3> QED
        BY <2>2, <3>1, <3>2 DEF EntryFits
    <2> QED
      BY <2>1, <2>2
  <1>6. direct[r] \in Seq(Versions(uploads))
    BY <1>2, DirectFacts
  <1>7. Positions(r) = {} => \A i \in D : Mine(i) = {}
    OBVIOUS
  <1>8. \A i \in D : i \notin keep =>
           /\ Positions(r) # {}
           /\ \E j \in DOMAIN outcomes :
                 outcomes[j].stage = "excluded" /\ outcomes[j].name = direct[r][i].name
    <2> SUFFICES ASSUME NEW i \in D, i \notin keep
                 PROVE  /\ Positions(r) # {}
                        /\ \E j \in DOMAIN outcomes :
                             outcomes[j].stage = "excluded" /\ outcomes[j].name = direct[r][i].name
      OBVIOUS
    <2>1. Mine(i) # {} /\ OutcomeAt(i).stage = "excluded"
      OBVIOUS
    <2> HIDE DEF OutcomeAt, keep
    <2>2. PICK j \in DOMAIN outcomes : OutcomeAt(i) = outcomes[j]
      BY <1>3, <2>1
    <2>3. OutcomeAt(i).name = direct[r][i].name
      BY <1>3, <2>1
    <2>4. outcomes[j].stage = "excluded" /\ outcomes[j].name = direct[r][i].name
      BY <2>1, <2>2, <2>3
    <2> QED
      BY <1>7, <2>1, <2>4
  <1>9. keep \in SUBSET D /\ DOMAIN s = D /\ s = [i \in D |-> s[i]]
    OBVIOUS
  <1> HIDE DEF s, keep, Mine
  <1>10. Len(direct[r]) \in Nat /\ D = 1 .. Len(direct[r])
    BY <1>6
  <1> DEFINE T == {s[i] : i \in D}
  <1>11. s \in Seq(T)
    <2>1. DOMAIN s = 1 .. Len(direct[r]) /\ \A i \in DOMAIN s : s[i] \in T
      BY <1>9, <1>10
    <2> HIDE DEF T
    <2>3. s \in [1 .. Len(direct[r]) -> T]
      BY <1>9, <1>10, <2>1
    <2> QED
      BY <1>10, <2>3
  <1> HIDE DEF T, D
  <1>12. /\ E \in Seq(T) /\ \E at \in [DOMAIN E -> keep] : Places(s, keep, at)
    BY <1>9, <1>11, SelectedFacts
  <1>13. PICK at \in [DOMAIN E -> keep] : Places(s, keep, at)
    BY <1>12
  <1>14. /\ \A k \in DOMAIN E : E[k] = s[at[k]] /\ at[k] \in keep /\ at[k] \in D
         /\ \A k, l \in DOMAIN E : k < l => at[k] < at[l]
         /\ \A i \in keep : \E k \in DOMAIN E : at[k] = i
    <2>1. \A k \in DOMAIN E : at[k] \in keep
      BY <1>13
    <2> HIDE DEF E
    <2> QED
      BY <1>9, <1>13, <2>1 DEF Places, E
  <1> HIDE DEF E
  <1>15. \A k \in DOMAIN E : EntryFits(E[k], r) /\ E[k].at = at[k]
                             /\ (Mine(at[k]) = {} => E[k].kind = "text")
    BY <1>5, <1>14
  <1>16. E \in Seq(ToSet(E)) /\ \A k \in DOMAIN E : k \in Nat
    <2>1. \A k \in DOMAIN E : E[k] \in ToSet(E)
      BY DEF ToSet
    <2> QED
      BY <1>12, <2>1
  <1>17. \A k, l \in DOMAIN E : E[k].at = E[l].at => k = l
    <2> SUFFICES ASSUME NEW k \in DOMAIN E, NEW l \in DOMAIN E, at[k] = at[l] PROVE k = l
      BY <1>15
    <2>1. at[k] \in Nat
      BY <1>10, <1>14
    <2>2. ~(k < l) /\ ~(l < k)
      BY <1>14, <2>1
    <2> QED
      BY <1>16, <2>2
  <1>18. \A i \in D : i \in keep =>
            \E k \in DOMAIN E : E[k].at = i /\ (Positions(r) = {} => E[k].kind = "text")
    BY <1>7, <1>14, <1>15
  <1>19. \A i \in DOMAIN direct[r] :
           \/ \E k \in DOMAIN E : E[k].at = i /\ (Positions(r) = {} => E[k].kind = "text")
           \/ /\ Positions(r) # {}
              /\ \E j \in DOMAIN outcomes :
                   outcomes[j].stage = "excluded" /\ outcomes[j].name = direct[r][i].name
    BY <1>8, <1>18 DEF D
  <1> QED
    BY <1>1, <1>15, <1>16, <1>17, <1>19 DEF EvidenceFits

\* All evidence: that of the package, then that of the context.
LEMMA AllEvidence ==
    ASSUME TextsInv, ResultsInv, Written
    PROVE  /\ \A k \in DOMAIN evidence : evidence[k].role \in Role /\ EntryFits(evidence[k], evidence[k].role)
           /\ \A k, l \in DOMAIN evidence :
                evidence[k].role = evidence[l].role /\ evidence[k].at = evidence[l].at => k = l
           /\ \A r \in Role : \A i \in DOMAIN direct[r] :
                \/ \E k \in DOMAIN evidence : /\ evidence[k].role = r /\ evidence[k].at = i
                                              /\ Positions(r) = {} => evidence[k].kind = "text"
                \/ /\ Positions(r) # {}
                   /\ \E j \in DOMAIN outcomes :
                        outcomes[j].stage = "excluded" /\ outcomes[j].name = direct[r][i].name
  <1> DEFINE a == EvidenceOf("package")
             b == EvidenceOf("context")
  <1>1. EvidenceFits(a, "package") /\ EvidenceFits(b, "context")
    BY EvidenceOfRole DEF Role
  <1>2. evidence = a \o b
    BY DEF ResultsInv
  <1>3. Role = {"package", "context"}
    BY DEF Role
  <1> HIDE DEF a, b
  <1> DEFINE A == ToSet(a)
             B == ToSet(b)
             T == A \union B
  <1>4. a \in Seq(A) /\ b \in Seq(B)
    BY <1>1 DEF EvidenceFits
  <1> HIDE DEF A, B
  <1>5. a \in Seq(T) /\ b \in Seq(T)
    BY <1>4
  <1> HIDE DEF T
  <1>6. /\ DOMAIN evidence = 1 .. Len(a) + Len(b)
        /\ \A n \in DOMAIN evidence : evidence[n] = IF n <= Len(a) THEN a[n] ELSE b[n - Len(a)]
        /\ DOMAIN a = 1 .. Len(a) /\ DOMAIN b = 1 .. Len(b) /\ Len(a) \in Nat /\ Len(b) \in Nat
    BY <1>2, <1>5, ConcatenationFacts
  <1>7. \A n \in DOMAIN evidence : (n <= Len(a) => n \in DOMAIN a /\ evidence[n] = a[n])
              /\ (~(n <= Len(a)) => n - Len(a) \in DOMAIN b /\ evidence[n] = b[n - Len(a)])
    BY <1>6
  <1>8. /\ \A k \in DOMAIN a : EntryFits(a[k], "package") /\ a[k].role = "package"
        /\ \A k \in DOMAIN b : EntryFits(b[k], "context") /\ b[k].role = "context"
        /\ \A k, l \in DOMAIN a : a[k].at = a[l].at => k = l
        /\ \A k, l \in DOMAIN b : b[k].at = b[l].at => k = l
    BY <1>1 DEF EvidenceFits, EntryFits
  <1>9. \A k \in DOMAIN evidence : evidence[k].role \in Role /\ EntryFits(evidence[k], evidence[k].role)
    BY <1>3, <1>7, <1>8
  <1>10. \A k, l \in DOMAIN evidence :
                evidence[k].role = evidence[l].role /\ evidence[k].at = evidence[l].at => k = l
    <2> SUFFICES ASSUME NEW k \in DOMAIN evidence, NEW l \in DOMAIN evidence,
                        evidence[k].role = evidence[l].role, evidence[k].at = evidence[l].at
                 PROVE  k = l
      OBVIOUS
    <2>1. CASE k <= Len(a) /\ l <= Len(a)
      BY <1>7, <1>8, <2>1
    <2>2. CASE ~(k <= Len(a)) /\ ~(l <= Len(a))
      <3>1. k - Len(a) = l - Len(a)
        BY <1>7, <1>8, <2>2
      <3> QED
        BY <1>6, <3>1
    <2>3. CASE k <= Len(a) /\ ~(l <= Len(a))
      BY <1>7, <1>8, <2>3
    <2>4. CASE ~(k <= Len(a)) /\ l <= Len(a)
      BY <1>7, <1>8, <2>4
    <2> QED
      BY <2>1, <2>2, <2>3, <2>4
  <1>11. /\ \A k \in DOMAIN a : k \in DOMAIN evidence /\ evidence[k] = a[k]
         /\ \A k \in DOMAIN b : k + Len(a) \in DOMAIN evidence /\ evidence[k + Len(a)] = b[k]
    <2>1. \A k \in DOMAIN a : k \in DOMAIN evidence /\ k <= Len(a)
      BY <1>6
    <2>2. \A k \in DOMAIN b : /\ k + Len(a) \in DOMAIN evidence /\ ~(k + Len(a) <= Len(a))
                              /\ k + Len(a) - Len(a) = k
      BY <1>6
    <2> QED
      BY <1>6, <2>1, <2>2
  <1>12. ASSUME NEW r \in Role, NEW i \in DOMAIN direct[r]
         PROVE  \/ \E k \in DOMAIN evidence : /\ evidence[k].role = r /\ evidence[k].at = i
                                              /\ Positions(r) = {} => evidence[k].kind = "text"
                \/ /\ Positions(r) # {}
                   /\ \E j \in DOMAIN outcomes :
                        outcomes[j].stage = "excluded" /\ outcomes[j].name = direct[r][i].name
    <2> DEFINE E == IF r = "package" THEN a ELSE b
    <2>1. EvidenceFits(E, r)
      BY <1>1, <1>3
    <2>2. \A k \in DOMAIN E : E[k].role = r /\ \E l \in DOMAIN evidence : evidence[l] = E[k]
      BY <1>3, <1>8, <1>11
    <2> HIDE DEF E
    <2>3. \/ \E k \in DOMAIN E : E[k].at = i /\ (Positions(r) = {} => E[k].kind = "text")
          \/ /\ Positions(r) # {}
             /\ \E j \in DOMAIN outcomes :
                 outcomes[j].stage = "excluded" /\ outcomes[j].name = direct[r][i].name
      BY <2>1 DEF EvidenceFits
    <2> QED
      BY <2>2, <2>3
  <1> QED
    BY <1>9, <1>10, <1>12

LEMMA OutcomeWarningsFacts ==
    ASSUME ResultsInv
    PROVE  /\ OutcomeWarnings \in Seq(ToSet(OutcomeWarnings)) /\ DOMAIN OutcomeWarnings = DOMAIN outcomes
           /\ \A j \in DOMAIN outcomes :
                OutcomeWarnings[j] = <<outcomes[j].stage, outcomes[j].name, 0>>
  <1>1. outcomes \in Seq(ToSet(outcomes))
    BY DEF ResultsInv
  <1>2. Len(outcomes) \in Nat /\ DOMAIN outcomes = 1 .. Len(outcomes)
    BY <1>1
  <1>3. /\ DOMAIN OutcomeWarnings = DOMAIN outcomes
        /\ \A j \in DOMAIN outcomes : OutcomeWarnings[j] = <<outcomes[j].stage, outcomes[j].name, 0>>
        /\ OutcomeWarnings = [j \in DOMAIN outcomes |-> OutcomeWarnings[j]]
    BY DEF OutcomeWarnings
  <1>4. \A j \in DOMAIN outcomes : OutcomeWarnings[j] \in ToSet(OutcomeWarnings)
    BY <1>3 DEF ToSet
  <1>5. OutcomeWarnings \in [1 .. Len(outcomes) -> ToSet(OutcomeWarnings)]
    BY <1>2, <1>3, <1>4
  <1>6. OutcomeWarnings \in Seq(ToSet(OutcomeWarnings))
    <2> DEFINE T == ToSet(OutcomeWarnings)
               o == OutcomeWarnings
               n == Len(outcomes)
    <2>1. o \in [1 .. n -> T] /\ n \in Nat
      BY <1>2, <1>5
    <2> HIDE DEF T, o, n
    <2>2. o \in Seq(T)
      BY <2>1
    <2> QED
      BY <2>2 DEF o, T
  <1> QED
    BY <1>3, <1>6

\* Every document has its entry, or a warning says that it has none.
LEMMA EvidenceInPlace ==
    ASSUME TextsInv, ResultsInv
    PROVE  EachInItsPlace
  <1> SUFFICES ASSUME Written
               PROVE  /\ \A e \in ToSet(evidence) :
                           /\ e.from = direct[e.role][e.at].upload /\ e.name = direct[e.role][e.at].name
                           /\ e.cited \subseteq DOMAIN direct[e.role][e.at].segments
                      /\ \A r \in Role : \A i \in DOMAIN direct[r] :
                           LET n == Count(evidence, LAMBDA e : e.role = r /\ e.at = i)
                           IN \/ n = 1
                              \/ n = 0 /\ <<"excluded", direct[r][i].name, 0>> \in DOMAIN warnings
    BY DEF EachInItsPlace
  <1>1. \A e \in ToSet(evidence) :
           /\ e.from = direct[e.role][e.at].upload /\ e.name = direct[e.role][e.at].name
           /\ e.cited \subseteq DOMAIN direct[e.role][e.at].segments
    <2>1. \A k \in DOMAIN evidence : EntryFits(evidence[k], evidence[k].role)
      BY AllEvidence
    <2> QED
      BY <2>1 DEF ToSet, EntryFits
  <1>2. ASSUME NEW r \in Role, NEW i \in DOMAIN direct[r]
        PROVE  LET n == Count(evidence, LAMBDA e : e.role = r /\ e.at = i)
               IN \/ n = 1
                  \/ n = 0 /\ <<"excluded", direct[r][i].name, 0>> \in DOMAIN warnings
    <2> DEFINE S == {k \in DOMAIN evidence : evidence[k].role = r /\ evidence[k].at = i}
    <2>1. Count(evidence, LAMBDA e : e.role = r /\ e.at = i) = Cardinality(S)
      BY DEF Count
    <2>2. \A k, l \in S : k = l
      BY AllEvidence
    <2>3. CASE S # {}
      <3>1. PICK k : S = {k}
        BY <2>2, <2>3
      <3>2. Cardinality(S) = 1
        BY <3>1, FS_Singleton
      <3> QED
        BY <2>1, <3>2
    <2>4. CASE S = {}
      <3>1. Cardinality(S) = 0
        BY <2>4, FS_EmptySet
      <3>2. PICK j \in DOMAIN outcomes :
                 outcomes[j].stage = "excluded" /\ outcomes[j].name = direct[r][i].name
        BY <2>4, AllEvidence
      <3>3. OutcomeWarnings[j] = <<"excluded", direct[r][i].name, 0>> /\ j \in DOMAIN OutcomeWarnings
        BY <3>2, OutcomeWarningsFacts
      <3>4. OutcomeWarnings[j] \in DOMAIN ToBag(OutcomeWarnings)
        BY <3>3 DEF ToBag, Range
      <3>5. warnings = WarningsOfTexts(uploads) (+) ToBag(OutcomeWarnings)
        BY DEF TextsInv, ReadOnce, Written
      <3>6. DOMAIN ToBag(OutcomeWarnings) \subseteq DOMAIN warnings
        <4> DEFINE a == WarningsOfTexts(uploads)
                   b == ToBag(OutcomeWarnings)
        <4>1. warnings = a (+) b
          BY <3>5
        <4> HIDE DEF a, b
        <4>2. DOMAIN (a (+) b) = DOMAIN a \union DOMAIN b
          BY DEF (+)
        <4> QED
          BY <4>1, <4>2 DEF b
      <3> QED
        BY <2>1, <3>1, <3>3, <3>4, <3>6
    <2> QED
      BY <2>3, <2>4
  <1> QED
    BY <1>1, <1>2

-----------------------------------------------------------------------------
(***************************************************************************)
(* The warnings of one document.                                           *)
(***************************************************************************)
SampledTag(f) == <<"sampled", f.name, Len(f.body)>>

\* What kind of a warning w is.
Tag(w) == w[1]

LEMMA TagsFacts ==
    /\ \A a, b, c : Tag(<<a, b, c>>) = a
    /\ Tag(Excluded) = "omitted"
  BY DEF Excluded, Tag

\* A document is warned about pages without text, figures and, once at most, that it is a
\* sample: if it is one.
WarnedOf(f, s, W) ==
    /\ W \in Seq(ToSet(W))
    /\ \A k \in DOMAIN W : Tag(W[k]) \in {"textless", "sampled", "figures"}
    /\ \A k \in DOMAIN W : Tag(W[k]) = "sampled" => W[k] = SampledTag(f)
    /\ \A k, l \in DOMAIN W : Tag(W[k]) = "sampled" /\ Tag(W[l]) = "sampled" => k = l
    /\ f.suffix = "pdf" /\ Cardinality(PagesRead(f, s)) < Len(f.body) =>
         \E k \in DOMAIN W : W[k] = SampledTag(f)

LEMMA InItsSet ==
    ASSUME NEW T, NEW s \in Seq(T)
    PROVE  s \in Seq(ToSet(s))
  <1>1. \A i \in DOMAIN s : s[i] \in ToSet(s)
    BY DEF ToSet
  <1> QED
    BY <1>1

\* Only the last one may be x.
OneTagLast(W, x) ==
    /\ W \in Seq(ToSet(W))
    /\ \A k \in DOMAIN W : Tag(W[k]) \in {"textless", "sampled", "figures"}
    /\ \A k \in DOMAIN W : Tag(W[k]) = "sampled" => W[k] = x
    /\ \A k, l \in DOMAIN W : Tag(W[k]) = "sampled" /\ Tag(W[l]) = "sampled" => k = l

LEMMA TagIsLast ==
    ASSUME NEW A, NEW a \in Seq(A), \A y \in A : Tag(y) = "textless",
           NEW x, Tag(x) = "sampled", NEW b, b = <<>> \/ b = <<x>>
    PROVE  OneTagLast(a \o b, x) /\ (b = <<x>> => \E k \in DOMAIN (a \o b) : (a \o b)[k] = x)
  <1>1. Len(a) \in Nat /\ DOMAIN a = 1 .. Len(a) /\ \A k \in DOMAIN a : Tag(a[k]) = "textless"
    OBVIOUS
  <1>2. CASE b = <<>>
    <2>1. a \o b = a /\ b # <<x>>
      BY <1>2
    <2>2. a \in Seq(ToSet(a))
      BY InItsSet
    <2> QED
      BY <1>1, <2>1, <2>2 DEF OneTagLast
  <1>3. CASE b = <<x>>
    <2> DEFINE W == a \o b
    <2>1. W = Append(a, x)
      BY <1>3
    <2>2. W \in Seq(A \union {x}) /\ DOMAIN W = 1 .. Len(a) + 1 /\ W[Len(a) + 1] = x
          /\ \A k \in 1 .. Len(a) : W[k] = a[k]
      BY <2>1
    <2> HIDE DEF W
    <2>3. \A k \in DOMAIN W : (k = Len(a) + 1 /\ W[k] = x) \/ (k \in DOMAIN a /\ W[k] = a[k])
      <3> SUFFICES ASSUME NEW k \in 1 .. Len(a) + 1
                   PROVE  (k = Len(a) + 1 /\ W[k] = x) \/ (k \in DOMAIN a /\ W[k] = a[k])
        BY <2>2
      <3>1. k = Len(a) + 1 \/ k \in 1 .. Len(a)
        BY <1>1
      <3>2. CASE k = Len(a) + 1
        <4>1. W[Len(a) + 1] = x
          BY <2>2
        <4> QED
          BY <3>2, <4>1, Zenon
      <3>3. CASE k \in 1 .. Len(a)
        BY <1>1, <2>2, <3>3
      <3> QED
        BY <3>1, <3>2, <3>3
    <2>4. \A k \in DOMAIN W : \/ k = Len(a) + 1 /\ W[k] = x /\ Tag(W[k]) = "sampled"
                              \/ Tag(W[k]) = "textless"
      BY <1>1, <2>3
    <2>5. Len(a) + 1 \in DOMAIN W
      BY <1>1, <2>2
    <2>6. W \in Seq(ToSet(W))
      BY <2>2, InItsSet
    <2> QED
      BY <2>2, <2>4, <2>5, <2>6 DEF OneTagLast, W
  <1> QED
    BY <1>2, <1>3

LEMMA WarningsFacts ==
    ASSUME NEW u \in Uploads, NEW f \in Files(u), NEW s
    PROVE  WarnedOf(f, s, Warnings(f, s))
  <1>1. /\ f.suffix \in {"pdf", "docx", "txt"}
        /\ f.body \in Seq(IF f.suffix = "txt" THEN {Ink, Blank} ELSE Nat)
    <2>1. "package" \in Role
      BY DEF Role
    <2> QED
      BY <2>1, UploadFacts
  <1>2. CASE f.suffix = "pdf"
    <2> DEFINE read == PagesRead(f, s)
               n == Len(f.body)
               S == {p \in read : f.body[p] = 0}
               q == InOrder(S, n)
               a == [i \in DOMAIN q |-> <<"textless", "page", q[i]>>]
               b == IF Cardinality(read) < n THEN << SampledTag(f) >> ELSE <<>>
               W == Warnings(f, s)
    <2>1. W = a \o b
      BY <1>2 DEF Warnings, SampledTag
    <2>2. f.body \in Seq(Nat) /\ read \in SUBSET DOMAIN f.body
      BY <1>1, <1>2, PagesReadFacts
    <2>3. n \in Nat /\ S \in SUBSET (1 .. n)
      BY <2>2
    <2> HIDE DEF read, n, S
    <2>4. q \in Seq(S)
      BY <2>3, InOrderFacts
    <2> HIDE DEF q
    <2>5. Len(q) \in Nat /\ DOMAIN q = 1 .. Len(q)
      BY <2>4
    <2> DEFINE A == {<<"textless", "page", p>> : p \in S}
               x == SampledTag(f)
    <2>6. a \in [1 .. Len(q) -> A]
      BY <2>4, <2>5
    <2>7. \A y \in A : Tag(y) = "textless"
      BY TagsFacts
    <2>8. Tag(x) = "sampled"
      BY TagsFacts DEF SampledTag
    <2>9. b = IF Cardinality(read) < n THEN <<x>> ELSE <<>>
      OBVIOUS
    <2> HIDE DEF a, A, b, x
    <2>10. a \in Seq(A)
      BY <2>5, <2>6
    <2>13. b = <<>> \/ b = <<x>>
      BY <2>9
    <2>11. OneTagLast(a \o b, x) /\ (b = <<x>> => \E k \in DOMAIN (a \o b) : (a \o b)[k] = x)
      BY <2>7, <2>8, <2>10, <2>13, TagIsLast
    <2> HIDE DEF W
    <2>12. OneTagLast(W, x) /\ (Cardinality(read) < n => \E k \in DOMAIN W : W[k] = x)
      BY <2>1, <2>9, <2>11
    <2> QED
      BY <2>12 DEF OneTagLast, WarnedOf, W, read, n, x
  <1>3. CASE f.suffix # "pdf"
    <2> DEFINE W == Warnings(f, s)
               x == <<"figures", "n", 1>>
    <2>1. W = IF f.figures THEN << x >> ELSE <<>>
      BY <1>3 DEF Warnings
    <2>2. Tag(x) = "figures"
      BY TagsFacts
    <2> HIDE DEF x
    <2>3. << x >> \in Seq({x}) /\ <<>> \in Seq({x}) /\ DOMAIN << x >> = {1} /\ << x >>[1] = x
          /\ DOMAIN <<>> = {}
      OBVIOUS
    <2> HIDE DEF W
    <2>4. W \in Seq({x}) /\ \A k \in DOMAIN W : W[k] = x
      BY <2>1, <2>3
    <2>5. W \in Seq(ToSet(W))
      BY <2>4, InItsSet
    <2>6. \A k \in DOMAIN W : Tag(W[k]) = "figures"
      BY <2>2, <2>4
    <2> QED
      BY <1>3, <2>5, <2>6 DEF WarnedOf, W
  <1> QED
    BY <1>2, <1>3

LEMMA SampledFacts ==
    ASSUME NEW f, NEW s
    PROVE  /\ SampleWarning(Document(f, s)) = SampledTag(f)
           /\ Sampled(Document(f, s)) <=> \E k \in DOMAIN Warnings(f, s) : Warnings(f, s)[k] = SampledTag(f)
  <1>1. SampleWarning(Document(f, s)) = SampledTag(f)
    BY DocumentFacts DEF SampleWarning, SampledTag
  <1>2. Document(f, s).warnings = Warnings(f, s)
    BY DocumentFacts
  <1> QED
    BY <1>1, <1>2 DEF Sampled, ToSet

-----------------------------------------------------------------------------
(***************************************************************************)
(* What is not a sample has all its segments.                              *)
(***************************************************************************)
LEMMA UnsampledIsFull ==
    ASSUME NEW u \in Uploads, NEW f \in Files(u), ~Sampled(Document(f, TRUE))
    PROVE  Segments(f, TRUE) = Segments(f, FALSE)
  <1>1. /\ f.suffix \in {"pdf", "docx", "txt"}
        /\ f.body \in Seq(IF f.suffix = "txt" THEN {Ink, Blank} ELSE Nat)
    <2>1. "package" \in Role
      BY DEF Role
    <2> QED
      BY <2>1, UploadFacts
  <1>2. CASE f.suffix = "pdf"
    <2> DEFINE n == Len(f.body)
    <2>1. n \in Nat /\ SamplePages \in Nat \ {0}
      BY <1>1, <1>2, ExtractionConstants
    <2>2. ~(Cardinality(PagesRead(f, TRUE)) < n)
      BY <1>2, WarningsFacts, SampledFacts DEF WarnedOf
    <2>3. PagesRead(f, TRUE) = DistributedPages(n, SamplePages) /\ PagesRead(f, FALSE) = 1 .. n
      BY DEF PagesRead
    <2> HIDE DEF n
    <2>4. /\ n <= SamplePages => DistributedPages(n, SamplePages) = 1 .. n
          /\ n > SamplePages => Cardinality(DistributedPages(n, SamplePages)) = SamplePages
      BY <2>1, DistributedFacts
    <2>5. n <= SamplePages
      <3> SUFFICES ASSUME ~(n <= SamplePages) PROVE FALSE
        OBVIOUS
      <3>1. n > SamplePages
        BY <2>1
      <3>2. Cardinality(PagesRead(f, TRUE)) = SamplePages
        BY <2>3, <2>4, <3>1
      <3> QED
        BY <2>1, <2>2, <3>1, <3>2
    <2>6. PagesRead(f, TRUE) = PagesRead(f, FALSE)
      BY <2>3, <2>4, <2>5
    <2> QED
      BY <1>2, <2>6 DEF Segments, PdfSegments
  <1>3. CASE f.suffix = "docx"
    BY <1>3 DEF Segments
  <1>4. CASE f.suffix = "txt"
    BY <1>4 DEF Segments
  <1> QED
    BY <1>1, <1>2, <1>3, <1>4

LEMMA SilenceIsFull ==
    ASSUME TextsInv, ResultsInv
    PROVE  SilenceCountsOnlyInFull
  <1> SUFFICES ASSUME Written, NEW r \in Role \ incomplete, NEW i \in DOMAIN direct[r]
               PROVE  /\ direct[r][i].segments = Segments(direct[r][i].upload, FALSE)
                      /\ \E e \in ToSet(evidence) : e.role = r /\ e.at = i /\ e.kind = "text"
    BY DEF SilenceCountsOnlyInFull
  <1>1. ReadOnce /\ Planned /\ uploads \in Uploads
    BY DEF Written, ReadOnce, Planned, TextsInv
  <1>2. /\ \A k \in DOMAIN documents[r] : ~Sampled(documents[r][k])
        /\ r \notin DigestedRoles
    BY DEF ResultsInv
  <1>3. direct[r][i].segments = Segments(direct[r][i].upload, FALSE)
    <2>1. PICK k \in DOMAIN documents[r] : direct[r][i] = documents[r][k]
      BY <1>1, DirectFacts
    <2>2. documents = ReadAgain(Samples(uploads))
      BY <1>1 DEF TextsInv
    <2>3. /\ k \in DOMAIN Samples(uploads)[r] /\ documents[r][k] = FullVersion(Samples(uploads)[r][k])
      BY <1>1, <2>1, <2>2, ReadAgainFacts
    <2>4. Samples(uploads)[r] \in Seq(Sampling(uploads))
      BY <1>1, SamplesFacts
    <2>5. PICK d \in Sampling(uploads) : documents[r][k] = FullVersion(d)
      BY <2>3, <2>4
    <2>6. PICK f \in Files(uploads) : d = Document(f, TRUE)
      BY <2>5 DEF Sampling
    <2>7. CASE InFull(d)
      <3>1. d.upload = f
        BY <2>6, DocumentFacts
      <3>2. FullVersion(d) = Document(f, FALSE)
        BY <2>7, <3>1 DEF FullVersion
      <3>3. direct[r][i] = Document(f, FALSE)
        BY <2>1, <2>5, <3>2
      <3>4. Document(f, FALSE).upload = f /\ Document(f, FALSE).segments = Segments(f, FALSE)
        BY DocumentFacts
      <3> QED
        BY <3>3, <3>4
    <2>8. CASE ~InFull(d)
      <3>1. direct[r][i] = Document(f, TRUE) /\ ~Sampled(Document(f, TRUE))
        BY <1>2, <2>1, <2>5, <2>6, <2>8 DEF FullVersion
      <3>2. Segments(f, TRUE) = Segments(f, FALSE)
        BY <1>1, <3>1, UnsampledIsFull
      <3> QED
        BY <3>1, <3>2, DocumentFacts
    <2> QED
      BY <2>7, <2>8
  <1>4. \E e \in ToSet(evidence) : e.role = r /\ e.at = i /\ e.kind = "text"
    <2>1. Positions(r) = {}
      BY <1>2 DEF Positions, DigestedRoles
    <2>2. \E k \in DOMAIN evidence : evidence[k].role = r /\ evidence[k].at = i
                                     /\ evidence[k].kind = "text"
      BY <2>1, AllEvidence
    <2> QED
      BY <2>2 DEF ToSet
  <1> QED
    BY <1>3, <1>4

\* Between the upload and the evidence no text is lost, doubled or given to another document,
\* whatever the order in which the digests end, and only what does not fit its role's budget
\* is given up to a digest.
THEOREM NoTextIsMisplaced == SamplePages > 1 => (DocumentsSpec => []NothingIsMisplaced)
  <1>1. SamplePages > 1 /\ DocInv => NothingIsMisplaced
    BY TextsAreWhole, EvidenceInPlace, DirectFits DEF DocInv, NothingIsMisplaced
  <1> SUFFICES ASSUME SamplePages > 1 PROVE DocumentsSpec => []NothingIsMisplaced
    OBVIOUS
  <1>2. DocInv => NothingIsMisplaced
    BY <1>1
  <1> QED
    BY <1>2, DocInvHolds, PTL

-----------------------------------------------------------------------------
(***************************************************************************)
(* Bags of warnings.                                                       *)
(***************************************************************************)
Numbers(b) == \A w \in DOMAIN b : b[w] \in Nat

LEMMA CopiesOfSequence ==
    ASSUME NEW T, NEW s \in Seq(T), NEW w
    PROVE  Copies(w, ToBag(s)) = Occurrences(w, s) /\ Numbers(ToBag(s))
  <1> DEFINE b == ToBag(s)
  <1>1. DOMAIN b = {s[i] : i \in DOMAIN s} /\ \A x \in DOMAIN b : b[x] = Occurrences(x, s)
    BY DEF ToBag, Range, Occurrences
  <1> HIDE DEF b
  <1>2. \A x : Occurrences(x, s) \in Nat
    BY OccurrencesTotal
  <1>3. w \notin DOMAIN b => Occurrences(w, s) = 0
    <2> SUFFICES ASSUME w \notin DOMAIN b PROVE Occurrences(w, s) = 0
      OBVIOUS
    <2>1. \A i \in DOMAIN s : s[i] # w
      BY <1>1
    <2> QED
      BY <2>1, OccursNowhere
  <1>4. Copies(w, b) = Occurrences(w, s)
    BY <1>1, <1>3 DEF Copies
  <1>5. Numbers(b)
    BY <1>1, <1>2 DEF Numbers
  <1> QED
    BY <1>4, <1>5 DEF b

LEMMA CopiesOfSum ==
    ASSUME NEW a, NEW b, Numbers(a), Numbers(b), NEW w
    PROVE  /\ Copies(w, a (+) b) = Copies(w, a) + Copies(w, b) /\ Numbers(a (+) b)
           /\ Copies(w, a) \in Nat /\ Copies(w, b) \in Nat
  <1> DEFINE c == a (+) b
  <1>1. DOMAIN c = DOMAIN a \union DOMAIN b
    BY DEF (+)
  <1>2. \A x \in DOMAIN c : c[x] = (IF x \in DOMAIN a THEN a[x] ELSE 0)
                                   + (IF x \in DOMAIN b THEN b[x] ELSE 0)
    BY DEF (+)
  <1> HIDE DEF c
  <1>3. Copies(w, a) \in Nat /\ Copies(w, b) \in Nat
    BY DEF Copies, Numbers
  <1>4. Copies(w, c) = Copies(w, a) + Copies(w, b)
    BY <1>1, <1>2 DEF Copies
  <1>5. Numbers(c)
    BY <1>1, <1>2 DEF Numbers
  <1> QED
    BY <1>3, <1>4, <1>5 DEF c

LEMMA CopiesOfDifference ==
    ASSUME NEW a, NEW b, Numbers(a), Numbers(b), NEW w
    PROVE  /\ Copies(w, a (-) b) = IF Copies(w, a) > Copies(w, b)
                                   THEN Copies(w, a) - Copies(w, b) ELSE 0
           /\ Numbers(a (-) b)
  <1> DEFINE c == a (-) b
             left(x) == IF x \in DOMAIN b THEN a[x] - b[x] ELSE a[x]
  <1>1. DOMAIN c = {x \in DOMAIN a : left(x) > 0}
    BY DEF (-)
  <1>2. \A x \in DOMAIN c : c[x] = left(x)
    BY <1>1 DEF (-)
  <1> HIDE DEF c
  <1>3. \A x \in DOMAIN a : a[x] \in Nat /\ (x \in DOMAIN b => b[x] \in Nat)
    BY DEF Numbers
  <1>4. Numbers(c)
    BY <1>1, <1>2, <1>3 DEF Numbers
  <1>5. CASE w \in DOMAIN a
    <2> DEFINE l == left(w)
    <2>1. l = a[w] - Copies(w, b) /\ Copies(w, a) = a[w] /\ a[w] \in Nat /\ Copies(w, b) \in Nat
      BY <1>3, <1>5 DEF Copies
    <2>2. (w \in DOMAIN c <=> l > 0) /\ (w \in DOMAIN c => c[w] = l)
      BY <1>1, <1>2, <1>5
    <2>3. Copies(w, c) = IF l > 0 THEN l ELSE 0
      BY <2>2 DEF Copies
    <2> HIDE DEF l
    <2>4. Copies(w, c) = IF Copies(w, a) > Copies(w, b) THEN Copies(w, a) - Copies(w, b) ELSE 0
      BY <2>1, <2>3
    <2> QED
      BY <1>4, <2>4 DEF c
  <1>6. CASE w \notin DOMAIN a
    <2>1. Copies(w, a) = 0 /\ Copies(w, c) = 0 /\ Copies(w, b) \in Nat
      BY <1>1, <1>6 DEF Copies, Numbers
    <2> QED
      BY <1>4, <2>1 DEF c
  <1> QED
    BY <1>4, <1>5, <1>6 DEF c

-----------------------------------------------------------------------------
(***************************************************************************)
(* The warnings of several documents.                                      *)
(***************************************************************************)
Warners(D, T) == \A d \in D : d.warnings \in Seq(T)

\* How often each document is warned of w.
Times(w, docs) == [i \in DOMAIN docs |-> Occurrences(w, docs[i].warnings)]

LEMMA TimesFacts ==
    ASSUME NEW D, NEW T, Warners(D, T), NEW docs \in Seq(D), NEW w
    PROVE  /\ Times(w, docs) \in Seq(Nat) /\ DOMAIN Times(w, docs) = DOMAIN docs
           /\ Len(Times(w, docs)) = Len(docs)
           /\ \A i \in DOMAIN docs : Times(w, docs)[i] = Occurrences(w, docs[i].warnings)
  <1> DEFINE t == Times(w, docs)
  <1>1. Len(docs) \in Nat /\ DOMAIN docs = 1 .. Len(docs) /\ \A i \in DOMAIN docs : docs[i] \in D
    OBVIOUS
  <1>2. \A i \in DOMAIN docs : docs[i].warnings \in Seq(T)
    BY <1>1 DEF Warners
  <1>3. \A i \in DOMAIN docs : Occurrences(w, docs[i].warnings) \in Nat
    BY <1>2, OccurrencesTotal
  <1>4. t \in [1 .. Len(docs) -> Nat]
    BY <1>1, <1>3 DEF Times
  <1>5. \A i \in DOMAIN docs : t[i] = Occurrences(w, docs[i].warnings)
    BY DEF Times
  <1> HIDE DEF t
  <1>6. t \in Seq(Nat) /\ DOMAIN t = DOMAIN docs /\ Len(t) = Len(docs)
    BY <1>1, <1>4
  <1> QED
    BY <1>5, <1>6 DEF t

LEMMA WarningsCounted ==
    ASSUME NEW D, NEW T, Warners(D, T), NEW docs \in Seq(D), NEW w
    PROVE  /\ Copies(w, WarningsOf(docs)) = Total(Times(w, docs), DOMAIN docs)
           /\ Numbers(WarningsOf(docs))
  <1> DEFINE ss == [i \in DOMAIN docs |-> docs[i].warnings]
  <1>1. Len(docs) \in Nat /\ DOMAIN docs = 1 .. Len(docs) /\ \A i \in DOMAIN docs : docs[i] \in D
    OBVIOUS
  <1>2. \A i \in DOMAIN docs : docs[i].warnings \in Seq(T)
    BY <1>1 DEF Warners
  <1>3. ss \in [1 .. Len(docs) -> Seq(T)] /\ \A i \in DOMAIN docs : ss[i] = docs[i].warnings
    BY <1>1, <1>2
  <1>4. WarningsOf(docs) = ToBag(FlattenSeq(ss))
    BY DEF WarningsOf
  <1> HIDE DEF ss
  <1>5. ss \in Seq(Seq(T)) /\ DOMAIN ss = DOMAIN docs
    <2> DEFINE S == Seq(T)
    <2>1. ss \in [1 .. Len(docs) -> S]
      BY <1>3
    <2> HIDE DEF S
    <2>2. ss \in Seq(S) /\ DOMAIN ss = DOMAIN docs
      BY <1>1, <2>1
    <2> QED
      BY <2>2 DEF S
  <1> DEFINE x == OccurrencesIn(w, ss)
             flat == FlattenSeq(ss)
  <1>6. /\ x \in Seq(Nat) /\ DOMAIN x = DOMAIN ss /\ Len(x) = Len(ss)
        /\ Occurrences(w, flat) = Total(x, DOMAIN x)
        /\ \A i \in DOMAIN ss : x[i] = Occurrences(w, ss[i])
        /\ flat \in Seq(T)
    BY <1>5, OccurrencesByParts, OccurrencesInFlat
  <1> HIDE DEF x, flat
  <1>7. Copies(w, ToBag(flat)) = Occurrences(w, flat) /\ Numbers(ToBag(flat))
    BY <1>6, CopiesOfSequence
  <1> DEFINE t == Times(w, docs)
  <1>8. t \in Seq(Nat) /\ DOMAIN t = DOMAIN docs /\ \A i \in DOMAIN docs : t[i] = Occurrences(w, docs[i].warnings)
    BY TimesFacts
  <1> HIDE DEF t
  <1>9. \A i \in DOMAIN x : x[i] = t[i]
    BY <1>3, <1>5, <1>6, <1>8
  <1>10. x = t
    <2>1. x \in Seq(Nat) /\ t \in Seq(Nat) /\ DOMAIN x = DOMAIN t
      BY <1>5, <1>6, <1>8
    <2> QED
      BY <1>9, <2>1, SequencesEqual
  <1> QED
    BY <1>4, <1>5, <1>6, <1>7, <1>10 DEF t, flat

\* The elements of a selection are those of the whole, at the same places for every sequence.
LEMMA SelectedPlaces ==
    ASSUME NEW n \in Nat, NEW keep \in SUBSET (1 .. n)
    PROVE  /\ Cardinality(keep) \in Nat
           /\ \E at \in [1 .. Cardinality(keep) -> keep] :
                \A s : Selected(s, keep) = [k \in 1 .. Cardinality(keep) |-> s[at[k]]]
  <1> DEFINE c == Cardinality(keep)
             pos(k) == CHOOSE i \in keep : Rank(keep, i) = k
             at == [k \in 1 .. c |-> pos(k)]
  <1>1. c \in Nat
    BY RankGrows
  <1>2. \A k \in 1 .. c : pos(k) \in keep
    BY RankIsOnto
  <1>3. \A s : Selected(s, keep) = [k \in 1 .. c |-> s[pos(k)]]
    BY DEF Selected
  <1> HIDE DEF pos, c
  <1>5. at \in [1 .. c -> keep] /\ \A k \in 1 .. c : at[k] = pos(k)
    BY <1>2
  <1> HIDE DEF at
  <1>4. \A s : Selected(s, keep) = [k \in 1 .. c |-> s[at[k]]]
    <2> TAKE s
    <2>1. [k \in 1 .. c |-> s[pos(k)]] = [k \in 1 .. c |-> s[at[k]]]
      BY <1>5
    <2> QED
      BY <1>3, <2>1
  <1> QED
    BY <1>1, <1>4, <1>5 DEF c

\* What is counted of a selection is counted of the whole at the positions selected.
LEMMA CountedOfSelection ==
    ASSUME NEW n \in Nat, NEW keep \in SUBSET (1 .. n),
           NEW t \in Seq(Nat), Len(t) = n, NEW x \in Seq(Nat), NEW at \in [1 .. Cardinality(keep) -> keep],
           \A s : Selected(s, keep) = [k \in 1 .. Cardinality(keep) |-> s[at[k]]],
           DOMAIN x = 1 .. Cardinality(keep), \A k \in DOMAIN x : x[k] = t[at[k]]
    PROVE  Total(x, DOMAIN x) = Total(t, keep)
  <1> DEFINE y == Selected(t, keep)
  <1>1. keep \in SUBSET DOMAIN t
    OBVIOUS
  <1>2. y \in Seq(Nat) /\ Total(y, DOMAIN y) = Total(t, keep)
    BY <1>1, TotalOfSelection
  <1>3. DOMAIN y = DOMAIN x /\ \A k \in DOMAIN x : y[k] = t[at[k]]
    <2>1. Selected(t, keep) = [k \in 1 .. Cardinality(keep) |-> t[at[k]]]
      OBVIOUS
    <2> HIDE DEF y
    <2>2. y = [k \in 1 .. Cardinality(keep) |-> t[at[k]]]
      BY <2>1 DEF y
    <2> QED
      BY <2>2
  <1> HIDE DEF y
  <1>4. x = y
    <2>1. x \in Seq(Nat) /\ y \in Seq(Nat) /\ DOMAIN x = DOMAIN y
      BY <1>2, <1>3
    <2>2. \A k \in DOMAIN x : x[k] = y[k]
      BY <1>3
    <2> QED
      BY ONLY <2>1, <2>2, SequencesEqual
  <1> QED
    BY <1>2, <1>4 DEF y

-----------------------------------------------------------------------------
(***************************************************************************)
(* The warnings of the extraction, and those of the documents read again.  *)
(***************************************************************************)
DocumentTags(u) == UNION {ToSet(Warnings(f, s)) : f \in Files(u), s \in BOOLEAN}

LEMMA DocumentTagsFacts ==
    ASSUME NEW u \in Uploads
    PROVE  /\ \A f \in Files(u), s \in BOOLEAN : Warnings(f, s) \in Seq(DocumentTags(u))
           /\ \A w \in DocumentTags(u) : Tag(w) \in {"textless", "sampled", "figures"}
           /\ Excluded \notin DocumentTags(u)
           /\ Warners(Versions(u), DocumentTags(u)) /\ Warners(Sampling(u), DocumentTags(u))
  <1>1. ASSUME NEW f \in Files(u), NEW s \in BOOLEAN PROVE Warnings(f, s) \in Seq(DocumentTags(u))
    <2> DEFINE W == Warnings(f, s)
    <2>1. W \in Seq(ToSet(W))
      BY WarningsFacts DEF WarnedOf
    <2>2. ToSet(W) \in SUBSET DocumentTags(u)
      BY DEF DocumentTags
    <2> DEFINE A == ToSet(W)
               B == DocumentTags(u)
    <2>3. W \in Seq(A) /\ A \in SUBSET B
      BY <2>1, <2>2
    <2> HIDE DEF W, A, B
    <2>4. W \in Seq(B)
      BY <2>3
    <2> QED
      BY <2>4 DEF W, B
  <1>2. ASSUME NEW w \in DocumentTags(u) PROVE Tag(w) \in {"textless", "sampled", "figures"}
    <2>1. PICK f \in Files(u), s \in BOOLEAN : w \in ToSet(Warnings(f, s))
      BY <1>2 DEF DocumentTags
    <2>2. PICK k \in DOMAIN Warnings(f, s) : w = Warnings(f, s)[k]
      BY <2>1 DEF ToSet
    <2>3. WarnedOf(f, s, Warnings(f, s))
      BY WarningsFacts
    <2> QED
      BY <2>2, <2>3 DEF WarnedOf
  <1>3. Excluded \notin DocumentTags(u)
    BY <1>2, TagsFacts
  <1>4. ASSUME NEW f \in Files(u), NEW s \in BOOLEAN
        PROVE  Document(f, s).warnings \in Seq(DocumentTags(u))
    BY <1>1, <1>4, DocumentFacts
  <1>5. Warners(Versions(u), DocumentTags(u)) /\ Warners(Sampling(u), DocumentTags(u))
    <2>1. ASSUME NEW d \in Versions(u) PROVE d.warnings \in Seq(DocumentTags(u))
      <3>1. PICK f \in Files(u), s \in BOOLEAN : d = Document(f, s)
        BY <2>1 DEF Versions
      <3> QED
        BY <1>4, <3>1
    <2>2. ASSUME NEW d \in Sampling(u) PROVE d.warnings \in Seq(DocumentTags(u))
      <3>1. PICK f \in Files(u) : d = Document(f, TRUE)
        BY <2>2 DEF Sampling
      <3> QED
        BY <1>4, <3>1
    <2> QED
      BY <2>1, <2>2 DEF Warners
  <1> QED
    BY <1>1, <1>2, <1>3, <1>5

\* The uploads of a role that are left out.
LeftOut(items) == {i \in DOMAIN items : ~Accepted(items[i])}

LEMMA UploadWarningsCounted ==
    ASSUME NEW u \in Uploads, NEW r \in Role, NEW w
    PROVE  LET items == u[r]
               X == UploadWarnings(items)
           IN  /\ X \in Seq(DocumentTags(u) \union {Excluded})
               /\ w = Excluded => Occurrences(w, X) = Cardinality(LeftOut(items))
               /\ w # Excluded =>
                    Occurrences(w, X) = Total(Times(w, Retained(items)), DOMAIN Retained(items))
  <1> DEFINE items == u[r]
             n == Len(items)
             T == DocumentTags(u) \union {Excluded}
             ss == [i \in DOMAIN items |->
                      IF Accepted(items[i]) THEN Warnings(items[i], TRUE) ELSE <<Excluded>>]
             X == UploadWarnings(items)
  <1>1. items \in Seq(Files(u))
    BY UploadFacts
  <1>2. n \in Nat /\ DOMAIN items = 1 .. n /\ \A i \in DOMAIN items : items[i] \in Files(u)
    BY <1>1
  <1>3. X = FlattenSeq(ss)
    BY DEF UploadWarnings
  <1> HIDE DEF X, items, n
  <1>4. \A f \in Files(u) : Warnings(f, TRUE) \in Seq(DocumentTags(u))
    BY DocumentTagsFacts
  <1>5. /\ \A f \in Files(u) : Warnings(f, TRUE) \in Seq(T)
        /\ <<Excluded>> \in Seq(T)
    <2>1. \A s \in Seq(DocumentTags(u)) : s \in Seq(T)
      OBVIOUS
    <2>2. Excluded \in T
      OBVIOUS
    <2> HIDE DEF T
    <2>3. <<Excluded>> \in Seq(T)
      BY <2>2
    <2> QED
      BY <1>4, <2>1, <2>3
  <1> DEFINE Z == Seq(T)
  <1>6. ss \in [1 .. n -> Z]
    BY <1>2, <1>5
  <1>7. \A i \in 1 .. n : ss[i] = IF Accepted(items[i]) THEN Warnings(items[i], TRUE) ELSE <<Excluded>>
    BY <1>2
  <1> HIDE DEF ss, Z
  <1>8. ss \in Seq(Z) /\ DOMAIN ss = 1 .. n /\ Len(ss) = n
    BY <1>2, <1>6
  <1>9. ss \in Seq(Seq(T))
    BY <1>8 DEF Z
  <1> HIDE DEF T
  <1> DEFINE x == OccurrencesIn(w, ss)
  <1>10. /\ X \in Seq(T) /\ Occurrences(w, X) = Total(x, DOMAIN x)
         /\ x \in Seq(Nat) /\ DOMAIN x = DOMAIN ss /\ Len(x) = Len(ss)
         /\ \A i \in DOMAIN ss : x[i] = Occurrences(w, ss[i])
    BY <1>3, <1>9, OccurrencesByParts, OccurrencesInFlat
  <1> HIDE DEF x
  <1>11. Occurrences(Excluded, <<Excluded>>) = 1 /\ (w # Excluded => Occurrences(w, <<Excluded>>) = 0)
    <2> DEFINE e == Excluded
    <2>1. {i \in DOMAIN <<e>> : <<e>>[i] = e} = {1}
      <3> HIDE DEF e
      <3> QED
        OBVIOUS
    <2>2. w # e => \A i \in DOMAIN <<e>> : <<e>>[i] # w
      <3> HIDE DEF e
      <3> QED
        OBVIOUS
    <2> HIDE DEF e
    <2>3. Occurrences(e, <<e>>) = 1
      BY <2>1, FS_Singleton DEF Occurrences
    <2>4. w # e => Occurrences(w, <<e>>) = 0
      BY <2>2, OccursNowhere
    <2> QED
      BY <2>3, <2>4 DEF e
  <1>12. ASSUME w = Excluded PROVE Occurrences(w, X) = Cardinality(LeftOut(items))
    <2> DEFINE K == LeftOut(items)
    <2>1. K \in SUBSET DOMAIN x
      BY <1>2, <1>8, <1>10 DEF LeftOut
    <2>2. \A i \in DOMAIN x : x[i] = IF i \in K THEN 1 ELSE 0
      <3> SUFFICES ASSUME NEW i \in DOMAIN x PROVE x[i] = IF i \in K THEN 1 ELSE 0
        OBVIOUS
      <3>1. i \in 1 .. n /\ i \in DOMAIN items /\ items[i] \in Files(u) /\ x[i] = Occurrences(w, ss[i])
        BY <1>2, <1>8, <1>10
      <3>2. CASE Accepted(items[i])
        <4>1. ss[i] = Warnings(items[i], TRUE) /\ i \notin K
          BY <1>7, <3>1, <3>2 DEF LeftOut
        <4> DEFINE W == Warnings(items[i], TRUE)
        <4>2. W \in Seq(DocumentTags(u)) /\ Excluded \notin DocumentTags(u)
          BY <1>4, <3>1, DocumentTagsFacts
        <4>3. \A k \in DOMAIN W : W[k] # Excluded
          <5> HIDE DEF W
          <5> QED
            BY <4>2
        <4>4. Occurrences(Excluded, W) = 0
          BY <4>3, OccursNowhere
        <4> QED
          BY <1>12, <3>1, <4>1, <4>4
      <3>3. CASE ~Accepted(items[i])
        <4>1. ss[i] = <<Excluded>> /\ i \in K
          BY <1>7, <3>1, <3>3 DEF LeftOut
        <4> QED
          BY <1>11, <1>12, <3>1, <4>1
      <3> QED
        BY <3>2, <3>3
    <2> HIDE DEF K
    <2>3. Total(x, DOMAIN x) = Cardinality(K)
      BY <1>10, <2>1, <2>2, TotalCounts
    <2> QED
      BY <1>10, <2>3 DEF K
  <1>13. ASSUME w # Excluded
         PROVE  Occurrences(w, X) = Total(Times(w, Retained(items)), DOMAIN Retained(items))
    <2> DEFINE K == {i \in DOMAIN items : Accepted(items[i])}
               c == Cardinality(K)
               t == [i \in 1 .. n |-> Occurrences(w, Warnings(items[i], TRUE))]
    <2>1. K \in SUBSET (1 .. n)
      BY <1>2
    <2>2. t \in [1 .. n -> Nat]
      <3>1. \A i \in 1 .. n : Occurrences(w, Warnings(items[i], TRUE)) \in Nat
        BY <1>2, <1>4, OccurrencesTotal
      <3> QED
        BY <3>1
    <2>3. \A i \in 1 .. n : t[i] = Occurrences(w, Warnings(items[i], TRUE))
      OBVIOUS
    <2> HIDE DEF t
    <2>4. t \in Seq(Nat) /\ Len(t) = n /\ DOMAIN t = 1 .. n
      BY <1>2, <2>2
    <2>5. \A i \in 1 .. n : (i \in K => x[i] = t[i]) /\ (i \notin K => x[i] = 0)
      BY <1>2, <1>7, <1>8, <1>10, <1>11, <1>13, <2>3
    <2> HIDE DEF K
    <2>6. Total(x, DOMAIN x) = Total(t, K)
      <3> DEFINE Rel == {p \in Nat \X Nat : p[1] = p[2]}
      <3>1. <<0, 0>> \in Rel /\ \A p : p \in Rel => p[1] = p[2]
        OBVIOUS
      <3>2. \A i \in 1 .. Len(x) : \A a, b \in Nat : <<a, b>> \in Rel =>
               <<a + (IF i \in DOMAIN x THEN x[i] ELSE 0), b + (IF i \in K THEN t[i] ELSE 0)>> \in Rel
        <4> SUFFICES ASSUME NEW i \in 1 .. Len(x), NEW a \in Nat, NEW b \in Nat, a = b
                     PROVE  <<a + (IF i \in DOMAIN x THEN x[i] ELSE 0),
                              b + (IF i \in K THEN t[i] ELSE 0)>> \in Rel
          OBVIOUS
        <4> DEFINE p == IF i \in DOMAIN x THEN x[i] ELSE 0
                   q == IF i \in K THEN t[i] ELSE 0
        <4>1. i \in 1 .. n /\ i \in DOMAIN x /\ t[i] \in Nat /\ x[i] \in Nat
          BY <1>8, <1>10, <2>4
        <4>2. p = q /\ p \in Nat
          BY <2>5, <4>1
        <4> HIDE DEF p, q
        <4>3. a + p = b + q /\ a + p \in Nat
          BY <4>2
        <4> QED
          BY <4>3 DEF p, q
      <3> HIDE DEF Rel
      <3>3. <<Total(x, DOMAIN x), Total(t, K)>> \in Rel
        BY <1>8, <1>10, <2>4, <3>1, <3>2, TotalsCompared
      <3> QED
        BY <3>1, <3>3
    <2>7. PICK at \in [1 .. c -> K] : \A s : Selected(s, K) = [k \in 1 .. c |-> s[at[k]]]
      BY <1>2, <2>1, SelectedPlaces
    <2> DEFINE kept == Selected(items, K)
               docs == Retained(items)
               y == Times(w, docs)
    <2>8. docs = [i \in DOMAIN kept |-> Document(kept[i], TRUE)]
      BY DEF Retained, K
    <2>9. kept = [k \in 1 .. c |-> items[at[k]]]
      BY <2>7
    <2>10. docs \in Seq(Sampling(u))
      BY RetainedFacts DEF items
    <2> HIDE DEF kept
    <2>11. DOMAIN kept = 1 .. c /\ \A k \in 1 .. c : kept[k] = items[at[k]]
      BY <2>9
    <2>12. y \in Seq(Nat) /\ DOMAIN y = DOMAIN docs
           /\ \A k \in DOMAIN docs : y[k] = Occurrences(w, docs[k].warnings)
      BY <2>10, DocumentTagsFacts, TimesFacts
    <2>13. DOMAIN docs = 1 .. c /\ \A k \in 1 .. c : docs[k] = Document(items[at[k]], TRUE)
      <3> HIDE DEF docs
      <3> QED
        BY <2>8, <2>11
    <2>14. \A k \in 1 .. c : at[k] \in 1 .. n
      BY <2>1, <2>7
    <2> HIDE DEF docs, y
    <2>15. \A k \in DOMAIN y : y[k] = t[at[k]]
      <3> SUFFICES ASSUME NEW k \in 1 .. c PROVE y[k] = t[at[k]]
        BY <2>12, <2>13
      <3>1. docs[k].warnings = Warnings(items[at[k]], TRUE)
        BY <2>13, DocumentFacts
      <3> QED
        BY <2>3, <2>12, <2>13, <2>14, <3>1
    <2>16. DOMAIN y = 1 .. c
      BY <2>12, <2>13
    <2>17. Total(y, DOMAIN y) = Total(t, K)
      BY <1>2, <2>1, <2>4, <2>7, <2>12, <2>15, <2>16, CountedOfSelection
    <2> QED
      BY <1>10, <2>6, <2>12, <2>17 DEF y, docs
  <1> QED
    BY <1>10, <1>12, <1>13 DEF X, T, items

-----------------------------------------------------------------------------
(***************************************************************************)
(* Where a document is read again, its warnings are replaced by those of   *)
(* the full text.                                                          *)
(***************************************************************************)
FullVersions(docs) == [i \in DOMAIN docs |-> FullVersion(docs[i])]

LEMMA FullVersionsFacts ==
    ASSUME NEW u \in Uploads, NEW docs \in Seq(Sampling(u))
    PROVE  /\ FullVersions(docs) \in Seq(Versions(u)) /\ DOMAIN FullVersions(docs) = DOMAIN docs
           /\ \A i \in DOMAIN docs : FullVersions(docs)[i] = FullVersion(docs[i])
           /\ \A d \in Sampling(u) : /\ FullVersion(d) \in Versions(u) /\ d.upload \in Files(u)
                                     /\ FullVersion(d) = IF InFull(d) THEN Document(d.upload, FALSE)
                                                         ELSE d
  <1>1. ASSUME NEW d \in Sampling(u)
        PROVE  /\ FullVersion(d) \in Versions(u) /\ d.upload \in Files(u)
               /\ FullVersion(d) = IF InFull(d) THEN Document(d.upload, FALSE) ELSE d
    <2>1. PICK f \in Files(u) : d = Document(f, TRUE)
      BY <1>1 DEF Sampling
    <2>2. d.upload = f
      BY <2>1, DocumentFacts
    <2>3. FullVersion(d) = IF InFull(d) THEN Document(d.upload, FALSE) ELSE d
      BY DEF FullVersion
    <2>4. \A g \in Files(u), s \in BOOLEAN : Document(g, s) \in Versions(u)
      BY DEF Versions
    <2>5. Document(f, FALSE) \in Versions(u) /\ Document(f, TRUE) \in Versions(u)
      BY <2>4
    <2> QED
      BY <2>1, <2>2, <2>3, <2>5
  <1> DEFINE v == FullVersions(docs)
  <1>2. Len(docs) \in Nat /\ DOMAIN docs = 1 .. Len(docs) /\ \A i \in DOMAIN docs : docs[i] \in Sampling(u)
    OBVIOUS
  <1>3. v \in [1 .. Len(docs) -> Versions(u)] /\ DOMAIN v = DOMAIN docs
        /\ \A i \in DOMAIN docs : v[i] = FullVersion(docs[i])
    BY <1>1, <1>2 DEF FullVersions
  <1> HIDE DEF v
  <1>4. v \in Seq(Versions(u))
    BY <1>2, <1>3
  <1> QED
    BY <1>1, <1>3, <1>4 DEF v

LEMMA TotalKept ==
    ASSUME NEW s \in Seq(Nat), NEW t \in Seq(Nat), NEW K, Len(s) = Len(t),
           \A n \in DOMAIN s : n \in K => s[n] = t[n]
    PROVE  Total(s, K) = Total(t, K)
  <1>1. PICK L : L = K
    OBVIOUS
  <1>2. \A n \in DOMAIN s : (n \in K <=> n \in L) /\ (n \in K => s[n] = t[n])
    BY <1>1
  <1>3. Total(s, K) = Total(t, L)
    BY ONLY s \in Seq(Nat), t \in Seq(Nat), Len(s) = Len(t), <1>2, TotalSame
  <1> QED
    BY <1>1, <1>3

\* tn is ta with the entries in K taken from tf.
Replaces(ta, tf, tn, K) ==
    /\ ta \in Seq(Nat) /\ tf \in Seq(Nat) /\ tn \in Seq(Nat)
    /\ Len(tf) = Len(ta) /\ Len(tn) = Len(ta)
    /\ \A i \in DOMAIN ta : tn[i] = IF i \in K THEN tf[i] ELSE ta[i]

LEMMA ReplacedSums ==
    ASSUME NEW ta, NEW tf, NEW tn, NEW K, Replaces(ta, tf, tn, K)
    PROVE  /\ Total(ta, DOMAIN ta) \in Nat /\ Total(ta, K) \in Nat /\ Total(tf, K) \in Nat
           /\ Total(ta, K) <= Total(ta, DOMAIN ta)
           /\ Total(tn, DOMAIN tn) = Total(ta, DOMAIN ta) - Total(ta, K) + Total(tf, K)
  <1>0. /\ ta \in Seq(Nat) /\ tf \in Seq(Nat) /\ tn \in Seq(Nat)
        /\ Len(tf) = Len(ta) /\ Len(tn) = Len(ta)
        /\ \A i \in DOMAIN ta : tn[i] = IF i \in K THEN tf[i] ELSE ta[i]
    BY DEF Replaces
  <1>1. DOMAIN tn = DOMAIN ta /\ DOMAIN tf = DOMAIN ta
    BY <1>0
  <1>2. PICK U : U = DOMAIN ta \ K
    OBVIOUS
  <1>3. \A n \in DOMAIN ta : (n \in DOMAIN ta <=> n \in K \/ n \in U) /\ ~(n \in K /\ n \in U)
    BY <1>2
  <1>4. Total(ta, DOMAIN ta) = Total(ta, K) + Total(ta, U)
    BY <1>0, <1>3, TotalSplits
  <1>5. Total(tn, DOMAIN tn) = Total(tn, K) + Total(tn, U)
    <2>1. \A n \in DOMAIN tn : (n \in DOMAIN tn <=> n \in K \/ n \in U) /\ ~(n \in K /\ n \in U)
      BY <1>1, <1>3
    <2> QED
      BY <1>0, <2>1, TotalSplits
  <1>6. Total(tn, K) = Total(tf, K)
    <2>1. \A n \in DOMAIN tn : n \in K => tn[n] = tf[n]
      BY <1>0, <1>1
    <2>2. tn \in Seq(Nat) /\ tf \in Seq(Nat) /\ Len(tn) = Len(tf)
      BY <1>0
    <2> QED
      BY ONLY <2>1, <2>2, TotalKept
  <1>7. Total(tn, U) = Total(ta, U)
    <2>1. \A n \in DOMAIN tn : n \in U => tn[n] = ta[n]
      BY <1>0, <1>1, <1>2
    <2>2. tn \in Seq(Nat) /\ ta \in Seq(Nat) /\ Len(tn) = Len(ta)
      BY <1>0
    <2> QED
      BY ONLY <2>1, <2>2, TotalKept
  <1>8. Total(ta, K) \in Nat /\ Total(ta, U) \in Nat /\ Total(tf, K) \in Nat
        /\ Total(ta, DOMAIN ta) \in Nat
    BY <1>0, TotalType
  <1> QED
    BY ONLY <1>4, <1>5, <1>6, <1>7, <1>8

LEMMA ReplacedCounted ==
    ASSUME NEW u \in Uploads, NEW all \in Seq(Sampling(u)), NEW ws, Numbers(ws), NEW w, NEW e \in Nat,
           Copies(w, ws) = e + Total(Times(w, all), DOMAIN all)
    PROVE  LET read == Selected(all, {i \in DOMAIN all : InFull(all[i])})
               full == [i \in DOMAIN read |-> Document(read[i].upload, FALSE)]
               after == ReplacedWarnings(ws, WarningsOf(read), WarningsOf(full))
           IN  /\ Numbers(after)
               /\ Copies(w, after) = e + Total(Times(w, FullVersions(all)), DOMAIN all)
  <1> DEFINE K == {i \in DOMAIN all : InFull(all[i])}
             read == Selected(all, K)
             full == [i \in DOMAIN read |-> Document(read[i].upload, FALSE)]
             T == DocumentTags(u)
             S == Sampling(u)
             V == Versions(u)
             n == Len(all)
             c == Cardinality(K)
             ta == Times(w, all)
             tn == Times(w, FullVersions(all))
             tf == [i \in 1 .. n |-> Occurrences(w, Warnings(all[i].upload, FALSE))]
             tr == Times(w, read)
             tw == Times(w, full)
  <1>1. Warners(V, T) /\ Warners(S, T)
        /\ \A f \in Files(u) : Warnings(f, FALSE) \in Seq(T)
    BY DocumentTagsFacts
  <1>2. n \in Nat /\ DOMAIN all = 1 .. n /\ K \in SUBSET (1 .. n) /\ (\A i \in 1 .. n : all[i] \in S)
        /\ all \in Seq(S) /\ K \in SUBSET DOMAIN all
    OBVIOUS
  <1>3. \A d \in S : /\ FullVersion(d) \in V /\ d.upload \in Files(u)
                     /\ FullVersion(d) = IF InFull(d) THEN Document(d.upload, FALSE) ELSE d
    BY FullVersionsFacts
  <1>4. \A i \in 1 .. n : i \in K <=> InFull(all[i])
    BY <1>2
  <1>5. tf \in [1 .. n -> Nat] /\ \A i \in 1 .. n : tf[i] = Occurrences(w, Warnings(all[i].upload, FALSE))
    <2>1. \A i \in 1 .. n : Occurrences(w, Warnings(all[i].upload, FALSE)) \in Nat
      BY <1>1, <1>2, <1>3, OccurrencesTotal
    <2> QED
      BY <2>1
  <1> HIDE DEF tf, n, K
  <1>6. tf \in Seq(Nat) /\ Len(tf) = n /\ DOMAIN tf = 1 .. n
    BY <1>2, <1>5
  <1>7. /\ ta \in Seq(Nat) /\ DOMAIN ta = 1 .. n /\ Len(ta) = n
        /\ \A i \in 1 .. n : ta[i] = Occurrences(w, all[i].warnings)
    <2>1. /\ ta \in Seq(Nat) /\ DOMAIN ta = DOMAIN all /\ Len(ta) = Len(all)
          /\ \A i \in DOMAIN all : ta[i] = Occurrences(w, all[i].warnings)
      BY <1>1, TimesFacts
    <2> HIDE DEF ta
    <2> QED
      BY <1>2, <2>1 DEF n
  <1>8. /\ tn \in Seq(Nat) /\ DOMAIN tn = 1 .. n /\ Len(tn) = n
        /\ \A i \in 1 .. n : tn[i] = Occurrences(w, FullVersion(all[i]).warnings)
    <2> DEFINE v == FullVersions(all)
    <2>1. v \in Seq(V) /\ DOMAIN v = DOMAIN all /\ \A i \in DOMAIN all : v[i] = FullVersion(all[i])
      BY FullVersionsFacts
    <2> HIDE DEF v
    <2>2. /\ Times(w, v) \in Seq(Nat) /\ DOMAIN Times(w, v) = DOMAIN v
          /\ \A i \in DOMAIN v : Times(w, v)[i] = Occurrences(w, v[i].warnings)
      BY <1>1, <2>1, TimesFacts
    <2>3. tn = Times(w, v)
      BY DEF v
    <2> HIDE DEF tn
    <2>4. tn \in Seq(Nat) /\ DOMAIN tn = 1 .. n /\ \A i \in 1 .. n : tn[i] = Occurrences(w, FullVersion(all[i]).warnings)
      BY <1>2, <2>1, <2>2, <2>3
    <2> QED
      BY <1>2, <2>4
  <1> HIDE DEF ta, tn
  <1>9. \A i \in 1 .. n : tn[i] = IF i \in K THEN tf[i] ELSE ta[i]
    <2> SUFFICES ASSUME NEW i \in 1 .. n PROVE tn[i] = IF i \in K THEN tf[i] ELSE ta[i]
      OBVIOUS
    <2>1. all[i] \in S
      BY <1>2
    <2>2. CASE i \in K
      <3>1. FullVersion(all[i]) = Document(all[i].upload, FALSE)
        BY <1>3, <1>4, <2>1, <2>2
      <3>0. Document(all[i].upload, FALSE).warnings = Warnings(all[i].upload, FALSE)
        BY DocumentFacts
      <3>2. FullVersion(all[i]).warnings = Warnings(all[i].upload, FALSE)
        BY <3>0, <3>1
      <3> QED
        BY <1>5, <1>8, <2>2, <3>2
    <2>3. CASE i \notin K
      BY <1>3, <1>4, <1>7, <1>8, <2>1, <2>3
    <2> QED
      BY <2>2, <2>3
  <1>10. PICK at \in [1 .. c -> K] : \A s : Selected(s, K) = [k \in 1 .. c |-> s[at[k]]]
    BY <1>2, SelectedPlaces
  <1>11. \A k \in 1 .. c : at[k] \in K /\ at[k] \in 1 .. n
    BY <1>2, <1>10
  <1>12. read = [k \in 1 .. c |-> all[at[k]]]
    BY <1>10
  <1>13. read \in Seq(S)
    BY <1>2, SelectedFacts
  <1> HIDE DEF read
  <1>14. DOMAIN read = 1 .. c /\ \A k \in 1 .. c : read[k] = all[at[k]]
    BY <1>12
  <1>15. Total(tr, DOMAIN read) = Total(ta, K)
    <2>1. /\ tr \in Seq(Nat) /\ DOMAIN tr = DOMAIN read
          /\ \A k \in DOMAIN read : tr[k] = Occurrences(w, read[k].warnings)
      BY <1>1, <1>13, TimesFacts
    <2> HIDE DEF tr
    <2>2. DOMAIN tr = 1 .. c /\ \A k \in DOMAIN tr : tr[k] = ta[at[k]]
      BY <1>7, <1>11, <1>14, <2>1
    <2>3. Total(tr, DOMAIN tr) = Total(ta, K)
      BY <1>2, <1>7, <1>10, <2>1, <2>2, CountedOfSelection
    <2> QED
      BY <2>1, <2>3
  <1>16. DOMAIN full = 1 .. c /\ \A k \in 1 .. c : full[k] = Document(all[at[k]].upload, FALSE)
    BY <1>14
  <1>17. full \in Seq(V)
    <2>1. \A k \in 1 .. c : full[k] \in V
      <3> SUFFICES ASSUME NEW k \in 1 .. c PROVE full[k] \in V
        OBVIOUS
      <3>1. all[at[k]] \in S /\ InFull(all[at[k]])
        BY <1>2, <1>4, <1>11
      <3>2. full[k] = FullVersion(all[at[k]])
        BY <1>3, <1>16, <3>1
      <3> QED
        BY <1>3, <3>1, <3>2
    <2>2. full = [k \in DOMAIN full |-> full[k]]
      OBVIOUS
    <2>3. c \in Nat
      BY <1>2, SelectedPlaces
    <2> HIDE DEF full, V
    <2>4. full \in [1 .. c -> V]
      BY <1>16, <2>1, <2>2
    <2> QED
      BY <2>3, <2>4
  <1> HIDE DEF full
  <1>18. Total(tw, DOMAIN full) = Total(tf, K)
    <2>1. /\ tw \in Seq(Nat) /\ DOMAIN tw = DOMAIN full
          /\ \A k \in DOMAIN full : tw[k] = Occurrences(w, full[k].warnings)
      BY <1>1, <1>17, TimesFacts
    <2> HIDE DEF tw
    <2>0. \A f : Document(f, FALSE).warnings = Warnings(f, FALSE)
      BY DocumentFacts
    <2>2. \A k \in 1 .. c : full[k].warnings = Warnings(all[at[k]].upload, FALSE)
      BY <1>16, <2>0
    <2>3. DOMAIN tw = 1 .. c /\ \A k \in DOMAIN tw : tw[k] = tf[at[k]]
      BY <1>5, <1>11, <1>16, <2>1, <2>2
    <2>4. Total(tw, DOMAIN tw) = Total(tf, K)
      BY <1>2, <1>6, <1>10, <2>1, <2>3, CountedOfSelection
    <2> QED
      BY <2>1, <2>4
  <1> DEFINE old == WarningsOf(read)
             new == WarningsOf(full)
  <1>19. Copies(w, old) = Total(tr, DOMAIN read) /\ Numbers(old)
    BY <1>1, <1>13, WarningsCounted
  <1>20. Copies(w, new) = Total(tw, DOMAIN full) /\ Numbers(new)
    BY <1>1, <1>17, WarningsCounted
  <1>21. ReplacedWarnings(ws, old, new) = (ws (-) old) (+) new
    BY DEF ReplacedWarnings
  <1> HIDE DEF old, new, tr, tw
  <1> DEFINE mid == ws (-) old
  <1>22. /\ Copies(w, mid) = IF Copies(w, ws) > Copies(w, old)
                             THEN Copies(w, ws) - Copies(w, old) ELSE 0
         /\ Numbers(mid)
    BY <1>19, CopiesOfDifference
  <1> HIDE DEF mid
  <1>23. Copies(w, mid (+) new) = Copies(w, mid) + Copies(w, new) /\ Numbers(mid (+) new)
    BY <1>20, <1>22, CopiesOfSum
  <1>24. /\ Total(ta, DOMAIN ta) \in Nat /\ Total(ta, K) \in Nat /\ Total(tf, K) \in Nat
         /\ Total(ta, K) <= Total(ta, DOMAIN ta)
         /\ Total(tn, DOMAIN tn) = Total(ta, DOMAIN ta) - Total(ta, K) + Total(tf, K)
    <2>1. /\ ta \in Seq(Nat) /\ tf \in Seq(Nat) /\ tn \in Seq(Nat)
          /\ Len(tf) = Len(ta) /\ Len(tn) = Len(ta)
      BY <1>6, <1>7, <1>8
    <2>2. \A i \in DOMAIN ta : tn[i] = IF i \in K THEN tf[i] ELSE ta[i]
      BY <1>7, <1>9
    <2>3. Replaces(ta, tf, tn, K)
      BY <2>1, <2>2 DEF Replaces
    <2> QED
      BY <2>3, ReplacedSums
  <1>25. Copies(w, ws) = e + Total(ta, DOMAIN ta)
    BY <1>2, <1>7 DEF ta
  <1> DEFINE A == Total(ta, DOMAIN ta)
             B == Total(ta, K)
             C == Total(tf, K)
  <1>26. /\ A \in Nat /\ B \in Nat /\ C \in Nat /\ B <= A /\ Copies(w, ws) = e + A
         /\ Copies(w, old) = B /\ Copies(w, new) = C /\ Total(tn, DOMAIN tn) = A - B + C
    BY <1>15, <1>18, <1>19, <1>20, <1>24, <1>25
  <1> HIDE DEF A, B, C
  <1>27. Copies(w, mid) = e + A - B
    BY <1>22, <1>26
  <1>28. Copies(w, mid (+) new) = e + Total(tn, DOMAIN tn)
    BY <1>23, <1>26, <1>27
  <1> QED
    BY <1>2, <1>8, <1>21, <1>23, <1>28 DEF K, n, read, full, old, new, mid, tn

-----------------------------------------------------------------------------
(***************************************************************************)
(* The warnings of all documents, of either role.                          *)
(***************************************************************************)
LEMMA CountedOfBothRoles ==
    ASSUME NEW D, NEW T, Warners(D, T), NEW a \in Seq(D), NEW b \in Seq(D), NEW w
    PROVE  /\ a \o b \in Seq(D)
           /\ Total(Times(w, a \o b), DOMAIN (a \o b))
                = Total(Times(w, a), DOMAIN a) + Total(Times(w, b), DOMAIN b)
           /\ Total(Times(w, a), DOMAIN a) \in Nat /\ Total(Times(w, b), DOMAIN b) \in Nat
  <1> DEFINE c == a \o b
             ta == Times(w, a)
             tb == Times(w, b)
             tc == Times(w, c)
  <1>1. /\ c \in Seq(D) /\ Len(a) \in Nat /\ Len(b) \in Nat /\ DOMAIN c = 1 .. Len(a) + Len(b)
        /\ DOMAIN a = 1 .. Len(a) /\ DOMAIN b = 1 .. Len(b)
        /\ \A n \in DOMAIN c : c[n] = IF n <= Len(a) THEN a[n] ELSE b[n - Len(a)]
    BY ConcatenationFacts
  <1> HIDE DEF c
  <1>2. /\ ta \in Seq(Nat) /\ DOMAIN ta = DOMAIN a /\ Len(ta) = Len(a)
        /\ \A i \in DOMAIN a : ta[i] = Occurrences(w, a[i].warnings)
    BY TimesFacts
  <1>3. /\ tb \in Seq(Nat) /\ DOMAIN tb = DOMAIN b /\ Len(tb) = Len(b)
        /\ \A i \in DOMAIN b : tb[i] = Occurrences(w, b[i].warnings)
    BY TimesFacts
  <1>4. /\ tc \in Seq(Nat) /\ DOMAIN tc = DOMAIN c
        /\ \A i \in DOMAIN c : tc[i] = Occurrences(w, c[i].warnings)
    BY <1>1, TimesFacts
  <1> HIDE DEF ta, tb, tc
  <1> DEFINE t == ta \o tb
  <1>5. /\ t \in Seq(Nat) /\ DOMAIN t = 1 .. Len(a) + Len(b)
        /\ \A n \in DOMAIN t : t[n] = IF n <= Len(a) THEN ta[n] ELSE tb[n - Len(a)]
    <2>3. ta \in Seq(Nat) /\ tb \in Seq(Nat)
      BY <1>2, <1>3
    <2>1. /\ t \in Seq(Nat) /\ DOMAIN t = 1 .. Len(ta) + Len(tb)
          /\ \A n \in DOMAIN t : t[n] = IF n <= Len(ta) THEN ta[n] ELSE tb[n - Len(ta)]
      BY ONLY <2>3, ConcatenationFacts
    <2>2. Len(ta) = Len(a) /\ Len(tb) = Len(b)
      BY <1>2, <1>3
    <2> HIDE DEF t
    <2> QED
      BY <2>1, <2>2
  <1>6. Total(t, DOMAIN t) = Total(ta, DOMAIN ta) + Total(tb, DOMAIN tb)
    BY <1>2, <1>3, TotalOfConcatenation
  <1> HIDE DEF t
  <1>7. \A n \in DOMAIN tc : tc[n] = t[n]
    <2> SUFFICES ASSUME NEW n \in 1 .. Len(a) + Len(b) PROVE tc[n] = t[n]
      BY <1>1, <1>4
    <2>1. CASE n <= Len(a)
      <3>1. n \in DOMAIN a
        BY <1>1, <2>1
      <3> QED
        BY <1>1, <1>2, <1>4, <1>5, <2>1, <3>1
    <2>2. CASE ~(n <= Len(a))
      <3>1. n - Len(a) \in DOMAIN b
        BY <1>1, <2>2
      <3> QED
        BY <1>1, <1>3, <1>4, <1>5, <2>2, <3>1
    <2> QED
      BY <2>1, <2>2
  <1>8. tc = t
    <2>1. tc \in Seq(Nat) /\ t \in Seq(Nat) /\ DOMAIN tc = DOMAIN t
      BY <1>1, <1>4, <1>5
    <2> QED
      BY ONLY <1>7, <2>1, SequencesEqual
  <1>9. Total(ta, DOMAIN ta) \in Nat /\ Total(tb, DOMAIN tb) \in Nat
    BY <1>2, <1>3, TotalType
  <1> QED
    BY <1>1, <1>2, <1>3, <1>4, <1>6, <1>8, <1>9 DEF c, ta, tb, tc

\* No document is warned of an upload that is left out.
LEMMA NeverWarned ==
    ASSUME NEW D, NEW T, Warners(D, T), NEW docs \in Seq(D), NEW w, w \notin T
    PROVE  Total(Times(w, docs), DOMAIN docs) = 0
  <1> DEFINE t == Times(w, docs)
  <1>1. /\ t \in Seq(Nat) /\ DOMAIN t = DOMAIN docs
        /\ \A i \in DOMAIN docs : t[i] = Occurrences(w, docs[i].warnings)
    BY TimesFacts
  <1>2. \A i \in DOMAIN docs : Occurrences(w, docs[i].warnings) = 0
    <2> SUFFICES ASSUME NEW i \in DOMAIN docs PROVE Occurrences(w, docs[i].warnings) = 0
      OBVIOUS
    <2>1. docs[i].warnings \in Seq(T)
      BY DEF Warners
    <2>2. \A k \in DOMAIN docs[i].warnings : docs[i].warnings[k] # w
      BY <2>1
    <2> QED
      BY <2>2, OccursNowhere
  <1> HIDE DEF t
  <1> DEFINE none == {}
  <1>3. none \in SUBSET DOMAIN t /\ \A n \in DOMAIN t : t[n] = IF n \in none THEN 1 ELSE 0
    BY <1>1, <1>2
  <1>4. Cardinality(none) = 0
    BY FS_EmptySet
  <1> HIDE DEF none
  <1>5. Total(t, DOMAIN t) = Cardinality(none)
    BY <1>1, <1>3, TotalCounts
  <1> QED
    BY <1>1, <1>4, <1>5 DEF t

\* How many uploads are left out, if it is that w says.
Omitted(u, w) ==
    IF w = Excluded
    THEN Cardinality(LeftOut(u["package"])) + Cardinality(LeftOut(u["context"])) ELSE 0

LEMMA LeftOutFacts ==
    ASSUME NEW u \in Uploads, NEW r \in Role
    PROVE  Cardinality(LeftOut(u[r])) \in Nat
  <1>1. u[r] \in Seq(Files(u))
    BY UploadFacts
  <1>2. Len(u[r]) \in Nat /\ DOMAIN u[r] = 1 .. Len(u[r])
    BY <1>1
  <1>3. IsFiniteSet(1 .. Len(u[r]))
    <2>1. \A n \in Nat : IsFiniteSet(1 .. n)
      BY FS_Interval
    <2> QED
      BY <1>2, <2>1
  <1>4. LeftOut(u[r]) \in SUBSET (1 .. Len(u[r]))
    BY <1>2 DEF LeftOut
  <1> QED
    BY <1>3, <1>4, FS_Subset, FS_CardinalityType

LEMMA FirstWarningsCounted ==
    ASSUME NEW u \in Uploads, NEW w
    PROVE  LET all == Samples(u)["package"] \o Samples(u)["context"]
           IN  /\ all \in Seq(Sampling(u)) /\ Numbers(WarningsAtFirst(u)) /\ Omitted(u, w) \in Nat
               /\ Copies(w, WarningsAtFirst(u)) = Omitted(u, w) + Total(Times(w, all), DOMAIN all)
  <1> DEFINE P == Samples(u)["package"]
             C == Samples(u)["context"]
             all == P \o C
             T == DocumentTags(u)
             Te == T \union {Excluded}
             X == UploadWarnings(u["package"])
             Y == UploadWarnings(u["context"])
             p == Total(Times(w, P), DOMAIN P)
             c == Total(Times(w, C), DOMAIN C)
             lp == Cardinality(LeftOut(u["package"]))
             lc == Cardinality(LeftOut(u["context"]))
  <1>0. "package" \in Role /\ "context" \in Role
    BY DEF Role
  <1>1. P = Retained(u["package"]) /\ C = Retained(u["context"])
    BY <1>0 DEF Samples
  <1>2. P \in Seq(Sampling(u)) /\ C \in Seq(Sampling(u)) /\ Warners(Sampling(u), T) /\ Excluded \notin T
    BY <1>0, SamplesFacts, DocumentTagsFacts
  <1>3. /\ X \in Seq(Te) /\ (w = Excluded => Occurrences(w, X) = lp)
        /\ (w # Excluded => Occurrences(w, X) = p)
    BY <1>0, <1>1, UploadWarningsCounted
  <1>4. /\ Y \in Seq(Te) /\ (w = Excluded => Occurrences(w, Y) = lc)
        /\ (w # Excluded => Occurrences(w, Y) = c)
    BY <1>0, <1>1, UploadWarningsCounted
  <1>5. WarningsAtFirst(u) = ToBag(X \o Y)
    BY DEF WarningsAtFirst
  <1>6. lp \in Nat /\ lc \in Nat
    BY <1>0, LeftOutFacts
  <1>7. Omitted(u, w) = IF w = Excluded THEN lp + lc ELSE 0
    BY DEF Omitted
  <1>8. w = Excluded => p = 0 /\ c = 0
    BY <1>2, NeverWarned
  <1> HIDE DEF P, C, T, X, Y
  <1>9. /\ all \in Seq(Sampling(u)) /\ Total(Times(w, all), DOMAIN all) = p + c
        /\ p \in Nat /\ c \in Nat
    BY <1>2, CountedOfBothRoles
  <1> HIDE DEF Te, p, c, lp, lc
  <1>10. Occurrences(w, X \o Y) = Occurrences(w, X) + Occurrences(w, Y) /\ X \o Y \in Seq(Te)
    BY <1>3, <1>4, OccurrencesInBoth, ConcatenationFacts
  <1>11. Copies(w, WarningsAtFirst(u)) = Occurrences(w, X \o Y) /\ Numbers(WarningsAtFirst(u))
    BY <1>5, <1>10, CopiesOfSequence
  <1>12. Omitted(u, w) \in Nat /\ Copies(w, WarningsAtFirst(u)) = Omitted(u, w) + (p + c)
    <2>1. CASE w = Excluded
      BY <1>3, <1>4, <1>6, <1>7, <1>8, <1>10, <1>11, <2>1
    <2>2. CASE w # Excluded
      BY <1>3, <1>4, <1>7, <1>9, <1>10, <1>11, <2>2
    <2> QED
      BY <2>1, <2>2
  <1> QED
    BY <1>9, <1>11, <1>12 DEF P, C, p, c

\* After the second reading the warnings are those of the documents the review works with,
\* and one for each upload that was left out.
LEMMA TextWarningsCounted ==
    ASSUME NEW u \in Uploads, NEW w
    PROVE  LET docs == ReadAgain(Samples(u))
           IN  /\ Numbers(WarningsOfTexts(u)) /\ Omitted(u, w) \in Nat
               /\ Copies(w, WarningsOfTexts(u))
                    = Omitted(u, w) + Copies(w, WarningsOf(docs["package"] \o docs["context"]))
  <1> DEFINE P == Samples(u)["package"]
             C == Samples(u)["context"]
             all == P \o C
             ws == WarningsAtFirst(u)
             docs == ReadAgain(Samples(u))
             A == docs["package"]
             B == docs["context"]
             end == A \o B
             full == FullVersions(all)
             e == Omitted(u, w)
  <1>0. "package" \in Role /\ "context" \in Role
    BY DEF Role
  <1>1. /\ all \in Seq(Sampling(u)) /\ Numbers(ws) /\ e \in Nat
        /\ Copies(w, ws) = e + Total(Times(w, all), DOMAIN all)
    BY FirstWarningsCounted
  <1>2. P \in Seq(Sampling(u)) /\ C \in Seq(Sampling(u))
    BY <1>0, SamplesFacts
  <1>3. /\ A \in Seq(Versions(u)) /\ DOMAIN A = DOMAIN P /\ \A i \in DOMAIN P : A[i] = FullVersion(P[i])
        /\ B \in Seq(Versions(u)) /\ DOMAIN B = DOMAIN C /\ \A i \in DOMAIN C : B[i] = FullVersion(C[i])
    BY <1>0, ReadAgainFacts
  <1>4. WarningsOfTexts(u) = WarningsInFull(Samples(u), ws)
    BY DEF WarningsOfTexts
  <1>5. /\ Numbers(WarningsInFull(Samples(u), ws))
        /\ Copies(w, WarningsInFull(Samples(u), ws)) = e + Total(Times(w, full), DOMAIN all)
    <2> DEFINE read == Selected(all, {i \in DOMAIN all : InFull(all[i])})
               again == [i \in DOMAIN read |-> Document(read[i].upload, FALSE)]
               after == ReplacedWarnings(ws, WarningsOf(read), WarningsOf(again))
    <2>1. WarningsInFull(Samples(u), ws) = after
      BY DEF WarningsInFull
    <2> HIDE DEF ws, e
    <2>2. Numbers(after) /\ Copies(w, after) = e + Total(Times(w, full), DOMAIN all)
      BY <1>1, ReplacedCounted
    <2> QED
      BY <2>1, <2>2
  <1>6. full \in Seq(Versions(u)) /\ DOMAIN full = DOMAIN all /\ \A i \in DOMAIN all : full[i] = FullVersion(all[i])
    BY <1>1, FullVersionsFacts
  <1> HIDE DEF full, A, B, P, C, docs, ws
  <1>7. /\ DOMAIN all = 1 .. Len(P) + Len(C) /\ Len(P) \in Nat /\ Len(C) \in Nat
        /\ \A n \in DOMAIN all : all[n] = IF n <= Len(P) THEN P[n] ELSE C[n - Len(P)]
        /\ DOMAIN P = 1 .. Len(P) /\ DOMAIN C = 1 .. Len(C)
    BY <1>2, ConcatenationFacts
  <1>8. Len(A) = Len(P) /\ Len(B) = Len(C)
    BY <1>3, <1>7
  <1>9. /\ end \in Seq(Versions(u)) /\ DOMAIN end = 1 .. Len(P) + Len(C)
        /\ \A n \in DOMAIN end : end[n] = IF n <= Len(P) THEN A[n] ELSE B[n - Len(P)]
    BY <1>3, <1>8, ConcatenationFacts
  <1> HIDE DEF all, end
  <1>10. \A n \in DOMAIN full : full[n] = end[n]
    <2> SUFFICES ASSUME NEW n \in 1 .. Len(P) + Len(C) PROVE full[n] = end[n]
      BY <1>6, <1>7
    <2>1. CASE n <= Len(P)
      <3>1. n \in DOMAIN P
        BY <1>7, <2>1
      <3> QED
        BY <1>3, <1>6, <1>7, <1>9, <2>1, <3>1
    <2>2. CASE ~(n <= Len(P))
      <3>1. n - Len(P) \in DOMAIN C
        BY <1>7, <2>2
      <3> QED
        BY <1>3, <1>6, <1>7, <1>9, <2>2, <3>1
    <2> QED
      BY <2>1, <2>2
  <1>11. full = end
    <2> DEFINE V == Versions(u)
    <2>1. full \in Seq(V) /\ end \in Seq(V) /\ DOMAIN full = DOMAIN end
      BY <1>6, <1>7, <1>9
    <2> HIDE DEF V
    <2> QED
      BY ONLY <1>10, <2>1, SequencesEqual
  <1>12. Copies(w, WarningsOf(end)) = Total(Times(w, end), DOMAIN end)
    BY <1>9, DocumentTagsFacts, WarningsCounted
  <1>13. DOMAIN all = DOMAIN end
    BY <1>7, <1>9
  <1>14. /\ Numbers(WarningsOfTexts(u))
         /\ Copies(w, WarningsOfTexts(u)) = e + Copies(w, WarningsOf(end))
    BY <1>4, <1>5, <1>11, <1>12, <1>13
  <1> QED
    BY <1>1, <1>14 DEF end, A, B, docs

-----------------------------------------------------------------------------
(***************************************************************************)
(* What the warnings of the outcomes and of the samples count.             *)
(***************************************************************************)
OutcomesOf(w) == {i \in DOMAIN outcomes : <<outcomes[i].stage, outcomes[i].name, 0>> = w}

LEMMA OutcomesCounted ==
    ASSUME ResultsInv, NEW w
    PROVE  /\ Copies(w, ToBag(OutcomeWarnings)) = Cardinality(OutcomesOf(w))
           /\ Numbers(ToBag(OutcomeWarnings)) /\ Cardinality(OutcomesOf(w)) \in Nat
           /\ Tag(w) \notin {"excluded", "digested"} => Cardinality(OutcomesOf(w)) = 0
  <1> DEFINE W == OutcomeWarnings
             T == ToSet(OutcomeWarnings)
  <1>1. /\ W \in Seq(T) /\ DOMAIN W = DOMAIN outcomes
        /\ \A j \in DOMAIN outcomes : W[j] = <<outcomes[j].stage, outcomes[j].name, 0>>
    BY OutcomeWarningsFacts
  <1> HIDE DEF W, T
  <1>2. {i \in DOMAIN W : W[i] = w} = OutcomesOf(w)
    BY <1>1 DEF OutcomesOf
  <1>3. Occurrences(w, W) = Cardinality(OutcomesOf(w))
    BY <1>2 DEF Occurrences
  <1>4. Copies(w, ToBag(W)) = Occurrences(w, W) /\ Numbers(ToBag(W)) /\ Occurrences(w, W) \in Nat
    BY <1>1, CopiesOfSequence, OccurrencesTotal
  <1>5. ASSUME Tag(w) \notin {"excluded", "digested"} PROVE Cardinality(OutcomesOf(w)) = 0
    <2>1. \A j \in DOMAIN outcomes : outcomes[j].stage \in {"excluded", "digested"}
      BY DEF ResultsInv, OutcomeOf, Finished
    <2>2. \A j \in DOMAIN outcomes : Tag(<<outcomes[j].stage, outcomes[j].name, 0>>) = outcomes[j].stage
      BY TagsFacts
    <2>3. \A j \in DOMAIN outcomes : <<outcomes[j].stage, outcomes[j].name, 0>> # w
      BY <1>5, <2>1, <2>2
    <2>4. OutcomesOf(w) = {}
      BY <2>3 DEF OutcomesOf
    <2> QED
      BY <2>4, FS_EmptySet
  <1> QED
    BY <1>3, <1>4, <1>5 DEF W

\* The samples among the documents that are warned of as w.
SampledIn(s, w) == {i \in DOMAIN s : SampleWarning(s[i]) = w /\ Sampled(s[i])}

LEMMA SampleIsCounted ==
    ASSUME NEW u \in Uploads, NEW d \in Versions(u), NEW w, Tag(w) = "sampled"
    PROVE  Occurrences(w, d.warnings) = IF SampleWarning(d) = w /\ Sampled(d) THEN 1 ELSE 0
  <1>1. PICK f \in Files(u), s \in BOOLEAN : d = Document(f, s)
    BY DEF Versions
  <1> DEFINE W == d.warnings
             x == SampledTag(f)
             K == {k \in DOMAIN W : W[k] = w}
  <1>2. W = Warnings(f, s)
    <2>1. Document(f, s).warnings = Warnings(f, s)
      BY DocumentFacts
    <2> QED
      BY <1>1, <2>1
  <1>3. SampleWarning(d) = x /\ (Sampled(d) <=> \E k \in DOMAIN W : W[k] = x)
    BY <1>1, <1>2, SampledFacts
  <1>4. WarnedOf(f, s, W)
    BY <1>2, WarningsFacts
  <1> HIDE DEF W, x
  <1>5. /\ \A k \in DOMAIN W : Tag(W[k]) = "sampled" => W[k] = x
        /\ \A k, l \in DOMAIN W : Tag(W[k]) = "sampled" /\ Tag(W[l]) = "sampled" => k = l
    BY <1>4 DEF WarnedOf, x
  <1>6. Occurrences(w, W) = Cardinality(K)
    BY DEF Occurrences
  <1>7. CASE K = {}
    <2>1. Cardinality(K) = 0
      BY <1>7, FS_EmptySet
    <2>2. ~(SampleWarning(d) = w /\ Sampled(d))
      BY <1>3, <1>7
    <2> QED
      BY <1>6, <2>1, <2>2 DEF W
  <1>8. CASE K # {}
    <2>1. PICK k : k \in K
      BY <1>8
    <2>2. W[k] = w /\ k \in DOMAIN W /\ w = x
      BY <1>5, <2>1
    <2>3. SampleWarning(d) = w /\ Sampled(d)
      BY <1>3, <2>2
    <2>4. K = {k}
      BY <1>5, <2>1
    <2>5. Cardinality(K) = 1
      BY <2>4, FS_Singleton
    <2> QED
      BY <1>6, <2>3, <2>5 DEF W
  <1> QED
    BY <1>7, <1>8

LEMMA SamplesOfRole ==
    ASSUME NEW u \in Uploads, NEW s \in Seq(Versions(u)), NEW w, Tag(w) = "sampled"
    PROVE  /\ Total(Times(w, s), DOMAIN s) = Cardinality(SampledIn(s, w))
           /\ IsFiniteSet(SampledIn(s, w)) /\ Cardinality(SampledIn(s, w)) \in Nat
  <1> DEFINE t == Times(w, s)
             keep == SampledIn(s, w)
  <1>1. /\ t \in Seq(Nat) /\ DOMAIN t = DOMAIN s
        /\ \A i \in DOMAIN s : t[i] = Occurrences(w, s[i].warnings)
    BY DocumentTagsFacts, TimesFacts
  <1>2. Len(s) \in Nat /\ DOMAIN s = 1 .. Len(s) /\ \A i \in DOMAIN s : s[i] \in Versions(u)
    OBVIOUS
  <1>3. keep \in SUBSET DOMAIN t /\ keep \in SUBSET (1 .. Len(s))
    BY <1>1, <1>2 DEF SampledIn
  <1>4. \A i \in DOMAIN t : t[i] = IF i \in keep THEN 1 ELSE 0
    <2> SUFFICES ASSUME NEW i \in DOMAIN s PROVE t[i] = IF i \in keep THEN 1 ELSE 0
      BY <1>1
    <2>1. Occurrences(w, s[i].warnings) = IF SampleWarning(s[i]) = w /\ Sampled(s[i]) THEN 1 ELSE 0
      BY <1>2, SampleIsCounted
    <2>2. i \in keep <=> SampleWarning(s[i]) = w /\ Sampled(s[i])
      BY DEF SampledIn
    <2> QED
      BY <1>1, <2>1, <2>2
  <1> HIDE DEF t, keep
  <1>5. Total(t, DOMAIN t) = Cardinality(keep)
    BY <1>1, <1>3, <1>4, TotalCounts
  <1>6. IsFiniteSet(keep) /\ Cardinality(keep) \in Nat
    <2>1. IsFiniteSet(1 .. Len(s))
      <3>1. \A n \in Nat : IsFiniteSet(1 .. n)
        BY FS_Interval
      <3> QED
        BY <1>2, <3>1
    <2> QED
      BY <1>3, <2>1, FS_Subset, FS_CardinalityType
  <1> QED
    BY <1>1, <1>5, <1>6 DEF t, keep

\* As many places as there are positions.
LEMMA PlacesOfRole ==
    ASSUME NEW r, NEW S, IsFiniteSet(S)
    PROVE  IsFiniteSet({r} \X S) /\ Cardinality({r} \X S) = Cardinality(S)
  <1>1. IsFiniteSet({r}) /\ Cardinality({r}) = 1
    BY FS_Singleton
  <1>2. IsFiniteSet({r} \X S) /\ Cardinality({r} \X S) = Cardinality({r}) * Cardinality(S)
    BY <1>1, FS_Product
  <1>3. Cardinality(S) \in Nat
    BY FS_CardinalityType
  <1> QED
    BY <1>1, <1>2, <1>3

SampledSpots(docs, w) ==
    {m \in Spots(docs) : SampleWarning(docs[m[1]][m[2]]) = w /\ Sampled(docs[m[1]][m[2]])}

LEMMA SamplesCounted ==
    ASSUME NEW u \in Uploads, NEW docs \in [Role -> Seq(Versions(u))], NEW w, Tag(w) = "sampled"
    PROVE  Copies(w, WarningsOf(docs["package"] \o docs["context"])) = Cardinality(SampledSpots(docs, w))
  <1> DEFINE A == docs["package"]
             B == docs["context"]
             KA == SampledIn(A, w)
             KB == SampledIn(B, w)
             SA == {"package"} \X KA
             SB == {"context"} \X KB
             V == Versions(u)
             all == A \o B
             S == SampledSpots(docs, w)
  <1>0. A \in Seq(V) /\ B \in Seq(V)
    BY DEF Role
  <1>1. S = SA \union SB
    <2>1. \A m \in S : m \in SA \union SB
      <3> SUFFICES ASSUME NEW m \in S PROVE m \in SA \union SB
        OBVIOUS
      <3>1. PICK r \in Role : m \in {r} \X DOMAIN docs[r]
        BY DEF SampledSpots, Spots
      <3>2. PICK i \in DOMAIN docs[r] : m = <<r, i>>
        BY <3>1
      <3>3. m[1] = r /\ m[2] = i
        BY <3>2
      <3>4. i \in SampledIn(docs[r], w)
        BY <3>3 DEF SampledSpots, SampledIn
      <3> QED
        BY <3>2, <3>4 DEF Role
    <2>2. \A r \in Role : \A i \in SampledIn(docs[r], w) : <<r, i>> \in S
      <3> SUFFICES ASSUME NEW r \in Role, NEW i \in SampledIn(docs[r], w) PROVE <<r, i>> \in S
        OBVIOUS
      <3>1. i \in DOMAIN docs[r] /\ SampleWarning(docs[r][i]) = w /\ Sampled(docs[r][i])
        BY DEF SampledIn
      <3>2. <<r, i>> \in Spots(docs)
        BY <3>1 DEF Spots
      <3> QED
        BY <3>1, <3>2 DEF SampledSpots
    <2>3. SA \subseteq S /\ SB \subseteq S
      BY <2>2 DEF Role
    <2> QED
      BY <2>1, <2>3
  <1>2. SA \intersect SB = {}
    OBVIOUS
  <1> HIDE DEF A, B, V, S
  <1>3. /\ Total(Times(w, A), DOMAIN A) = Cardinality(KA) /\ IsFiniteSet(KA) /\ Cardinality(KA) \in Nat
        /\ Total(Times(w, B), DOMAIN B) = Cardinality(KB) /\ IsFiniteSet(KB) /\ Cardinality(KB) \in Nat
    BY <1>0, SamplesOfRole DEF V
  <1> HIDE DEF KA, KB
  <1>4. /\ IsFiniteSet(SA) /\ Cardinality(SA) = Cardinality(KA)
        /\ IsFiniteSet(SB) /\ Cardinality(SB) = Cardinality(KB)
    BY <1>3, PlacesOfRole
  <1> HIDE DEF SA, SB
  <1>5. Cardinality(S) = Cardinality(KA) + Cardinality(KB)
    <2>1. Cardinality(SA \intersect SB) = 0
      BY <1>2, FS_EmptySet
    <2>2. Cardinality(SA \union SB) = Cardinality(SA) + Cardinality(SB) - Cardinality(SA \intersect SB)
      BY <1>4, FS_Union
    <2> QED
      BY <1>1, <1>3, <1>4, <2>1, <2>2
  <1>6. Warners(V, DocumentTags(u))
    BY DocumentTagsFacts DEF V
  <1>7. /\ all \in Seq(V)
        /\ Total(Times(w, all), DOMAIN all) = Total(Times(w, A), DOMAIN A) + Total(Times(w, B), DOMAIN B)
    BY <1>0, <1>6, CountedOfBothRoles
  <1>8. Copies(w, WarningsOf(all)) = Total(Times(w, all), DOMAIN all)
    BY <1>6, <1>7, WarningsCounted
  <1> QED
    BY <1>3, <1>5, <1>7, <1>8 DEF A, B, S

-----------------------------------------------------------------------------
(***************************************************************************)
(* The warnings the review is given.                                       *)
(***************************************************************************)
LEMMA NoPackageIsLeftOut ==
    ASSUME NEW items, PackageProblem(items) = "none"
    PROVE  Cardinality(LeftOut(items)) = 0
  <1>1. LeftOut(items) = {}
    BY DEF PackageProblem, LeftOut
  <1> QED
    BY <1>1, FS_EmptySet

LEMMA ReasonsFacts ==
    ASSUME NEW w
    PROVE  /\ w = Excluded => Reasons(w) = Cardinality(LeftOut(uploads["context"]))
           /\ w # Excluded /\ Tag(w) \in {"excluded", "digested"} => Reasons(w) = Cardinality(OutcomesOf(w))
           /\ w # Excluded /\ Tag(w) = "sampled" => Reasons(w) = Cardinality(SampledSpots(documents, w))
           /\ w # Excluded /\ Tag(w) \notin {"excluded", "digested", "sampled"} =>
                Reasons(w) = Copies(w, WarningsOf(documents["package"] \o documents["context"]))
  <1>1. CASE w = Excluded
    <2>1. Reasons(w) = Count(uploads.context, LAMBDA u : ~Accepted(u))
      BY <1>1 DEF Reasons, Excluded
    <2>2. Count(uploads.context, LAMBDA u : ~Accepted(u)) = Cardinality(LeftOut(uploads["context"]))
      BY DEF Count, LeftOut
    <2> QED
      BY <1>1, <2>1, <2>2
  <1>2. CASE w # Excluded /\ Tag(w) \in {"excluded", "digested"}
    <2>1. Reasons(w) = Count(outcomes, LAMBDA o : <<o.stage, o.name, 0>> = w)
      BY <1>2 DEF Reasons, Tag
    <2>2. Count(outcomes, LAMBDA o : <<o.stage, o.name, 0>> = w) = Cardinality(OutcomesOf(w))
      BY DEF Count, OutcomesOf
    <2> QED
      BY <1>2, <2>1, <2>2
  <1>3. CASE w # Excluded /\ Tag(w) = "sampled"
    <2>1. Reasons(w) = Cardinality({m \in Spots(documents) :
               LET d == documents[m[1]][m[2]] IN SampleWarning(d) = w /\ Sampled(d)})
      BY <1>3 DEF Reasons, Tag
    <2> QED
      BY <1>3, <2>1 DEF SampledSpots
  <1>4. CASE w # Excluded /\ Tag(w) \notin {"excluded", "digested", "sampled"}
    BY <1>4 DEF Reasons, Tag
  <1> QED
    BY <1>1, <1>2, <1>3, <1>4

LEMMA WarningsAreCounted ==
    ASSUME TextsInv, ResultsInv
    PROVE  WarningsAreTrue
  <1> SUFFICES ASSUME Written, NEW w PROVE Copies(w, warnings) = Reasons(w)
    BY DEF WarningsAreTrue
  <1> DEFINE a == WarningsOfTexts(uploads)
             b == ToBag(OutcomeWarnings)
             texts == WarningsOf(documents["package"] \o documents["context"])
             e == Omitted(uploads, w)
             o == Cardinality(OutcomesOf(w))
             T == DocumentTags(uploads)
  <1>1. /\ uploads \in Uploads /\ documents = ReadAgain(Samples(uploads)) /\ warnings = a (+) b
        /\ PackageProblem(uploads["package"]) = "none"
    BY DEF TextsInv, ReadOnce, Written
  <1>2. Numbers(a) /\ e \in Nat /\ Copies(w, a) = e + Copies(w, texts)
    BY <1>1, TextWarningsCounted
  <1>3. /\ Copies(w, b) = o /\ Numbers(b) /\ o \in Nat
        /\ Tag(w) \notin {"excluded", "digested"} => o = 0
    BY OutcomesCounted
  <1>4. documents \in [Role -> Seq(Versions(uploads))]
    BY <1>1, ReadAgainFacts
  <1>5. Warners(Versions(uploads), T) /\ Excluded \notin T
        /\ \A v \in T : Tag(v) \in {"textless", "sampled", "figures"}
    BY <1>1, DocumentTagsFacts
  <1>6. Copies(w, texts) \in Nat /\ (w \notin T => Copies(w, texts) = 0)
    <2> DEFINE A == documents["package"]
               B == documents["context"]
               V == Versions(uploads)
               all == A \o B
    <2>1. A \in Seq(V) /\ B \in Seq(V)
      BY <1>4 DEF Role
    <2> HIDE DEF A, B, V, T
    <2>2. /\ all \in Seq(V)
          /\ Total(Times(w, all), DOMAIN all) = Total(Times(w, A), DOMAIN A) + Total(Times(w, B), DOMAIN B)
          /\ Total(Times(w, A), DOMAIN A) \in Nat /\ Total(Times(w, B), DOMAIN B) \in Nat
      BY <1>5, <2>1, CountedOfBothRoles DEF V
    <2>3. Copies(w, WarningsOf(all)) = Total(Times(w, all), DOMAIN all)
      BY <1>5, <2>2, WarningsCounted DEF V
    <2>4. w \notin T => Total(Times(w, A), DOMAIN A) = 0 /\ Total(Times(w, B), DOMAIN B) = 0
      BY <1>5, <2>1, NeverWarned DEF V
    <2>5. texts = WarningsOf(all)
      BY DEF A, B
    <2>6. Copies(w, WarningsOf(all)) \in Nat /\ (w \notin T => Copies(w, WarningsOf(all)) = 0)
      BY <2>2, <2>3, <2>4
    <2> HIDE DEF texts, all
    <2> QED
      BY <2>5, <2>6
  <1>7. w = Excluded => Reasons(w) = Cardinality(LeftOut(uploads["context"]))
    BY ReasonsFacts
  <1>8. /\ w # Excluded /\ Tag(w) \in {"excluded", "digested"} => Reasons(w) = o
        /\ w # Excluded /\ Tag(w) = "sampled" => Reasons(w) = Cardinality(SampledSpots(documents, w))
        /\ w # Excluded /\ Tag(w) \notin {"excluded", "digested", "sampled"} => Reasons(w) = Copies(w, texts)
    BY ReasonsFacts
  <1>9. Tag(w) = "sampled" => Copies(w, texts) = Cardinality(SampledSpots(documents, w))
    BY <1>1, <1>4, SamplesCounted
  <1>10. /\ w # Excluded => e = 0
         /\ w = Excluded => e = Cardinality(LeftOut(uploads["context"]))
    <2>1. Cardinality(LeftOut(uploads["package"])) = 0
      BY <1>1, NoPackageIsLeftOut
    <2>2. Cardinality(LeftOut(uploads["context"])) \in Nat
      <3>1. "context" \in Role
        BY DEF Role
      <3> QED
        BY <1>1, <3>1, LeftOutFacts
    <2> QED
      BY <2>1, <2>2 DEF Omitted
  <1>11. Tag(Excluded) = "omitted"
    BY TagsFacts
  <1> HIDE DEF a, b, texts, e, o, T
  <1>12. Copies(w, warnings) = e + Copies(w, texts) + o
    <2>1. Copies(w, a (+) b) = Copies(w, a) + Copies(w, b)
      BY <1>2, <1>3, CopiesOfSum
    <2> QED
      BY <1>1, <1>2, <1>3, <1>6, <2>1
  <1>13. CASE w = Excluded
    <2>1. Copies(w, texts) = 0 /\ o = 0
      BY <1>3, <1>5, <1>6, <1>11, <1>13
    <2>2. e = Reasons(w)
      BY <1>7, <1>10, <1>13
    <2> QED
      BY <1>2, <1>12, <2>1, <2>2
  <1>14. CASE w # Excluded /\ Tag(w) \in {"excluded", "digested"}
    <2>1. Copies(w, texts) = 0 /\ e = 0
      BY <1>5, <1>6, <1>10, <1>14
    <2>2. o = Reasons(w)
      BY <1>8, <1>14
    <2> QED
      BY <1>3, <1>12, <2>1, <2>2
  <1>15. CASE w # Excluded /\ Tag(w) \notin {"excluded", "digested"}
    <2>1. o = 0 /\ e = 0
      BY <1>3, <1>10, <1>15
    <2>2. Copies(w, texts) = Reasons(w)
      BY <1>8, <1>9, <1>15
    <2> QED
      BY <1>6, <1>12, <2>1, <2>2
  <1> QED
    BY <1>13, <1>14, <1>15

\* The warnings the review is given count every upload that was left out, every digest, every
\* sample and every page without text, and no other, and where silence counts there is the
\* whole text.
THEOREM NothingGoesUnsaid == DocumentsSpec => []NothingIsSilent
  <1>1. DocInv => NothingIsSilent
    BY WarningsAreCounted, SilenceIsFull DEF DocInv, NothingIsSilent
  <1> QED
    BY <1>1, DocInvHolds, PTL
===============================================================================
