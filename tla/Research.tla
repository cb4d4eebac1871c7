------------------------------ MODULE Research ------------------------------
(***************************************************************************)
(* One run of the research controller (research_controller.py): at most    *)
(* MaxAttempts searches of the public web, a wait between two of them, one *)
(* recovery search of curated institutional feeds, all inside a budget of  *)
(* time that is only looked at between calls; and the decision what the    *)
(* review may be based on. A claim is reduced to what the decision tells   *)
(* apart; prompts, counts and the two caps on sources and characters that  *)
(* stand beside MaxFindings are left out.                                  *)
(***************************************************************************)
EXTENDS Integers, FiniteSets

CONSTANTS
    Claim,         \* the claims a search may return, see ClaimType
    Recovery,      \* a gateway to curated feeds is configured
    MaxAttempts, MinClaims, MinPublishers,
    MaxFindings,   \* MAX_RETAINED_FINDINGS
    Budget,        \* total_budget_seconds, in ticks
    SearchTime,    \* how long a call may take, in ticks
    Delay,         \* the backoff after its jitter, in ticks
    BatchMax       \* bound: claims in the answer to one call

\* standing: "current" is dated in the window and substantive (what has a date is graded
\* better than "unverified" by both gateways), "undated" substantive and judged relevant,
\* "background" neither, "refused" not from a permitted source. age orders the dates,
\* what has none is the oldest.
ClaimType ==
    [id : Nat, standing : {"current", "undated", "background", "refused"},
     publisher : STRING, kind : {"structural", "development"}, age : Nat]

ASSUME ResearchAssumption ==
    /\ Claim \subseteq ClaimType /\ IsFiniteSet(Claim) /\ Recovery \in BOOLEAN
    /\ \A c, d \in Claim : c.standing = "undated" /\ d.standing = "current" => d.age < c.age
    /\ MaxAttempts \in Nat \ {0} /\ MinClaims \in Nat \ {0} /\ MinPublishers \in Nat \ {0}
    /\ MaxFindings \in Nat \ {0} /\ Budget \in Nat \ {0} /\ BatchMax \in Nat
    /\ SearchTime \subseteq Nat \ {0} /\ SearchTime # {} /\ Delay \subseteq Nat

VARIABLES
    pc,         \* "attempt" and "retry" in the loop, "search" and "recovery" in a call
    attempt,    \* the loop variable
    now,        \* the time since the run started
    accepted, rejected,
    failure,    \* last_failure
    exhausted,  \* budget_exhausted
    allow,      \* allow_document_led
    recovered,  \* history value: the curated feeds were asked
    offered,    \* history value: what was returned by calls that count
    outcome

researchVars ==
    <<pc, attempt, now, accepted, rejected, failure, exhausted, allow, recovered, offered, outcome>>

Failure == {"provider", "timeout", "malformed"}

Undecided == [tier |-> "open", claims |-> {}, cause |-> "none"]

ResearchInit ==
    /\ pc = "attempt" /\ attempt = 1 /\ now = 0
    /\ accepted = {} /\ rejected = FALSE
    /\ failure = "none" /\ exhausted = FALSE
    /\ allow \in BOOLEAN
    /\ recovered = FALSE /\ offered = {}
    /\ outcome = Undecided

-----------------------------------------------------------------------------
\* A variant that counts what has no date as well.
ProvesCurrentUndated(c) == c.standing \in {"current", "undated"}

\* The grade after _cap_verification_by_recency is better than "unverified".
ProvesCurrent(c) == c.standing = "current"

\* The order of _qualifying_claims: the newest first, then by name.
Before(c, d) == c.age < d.age \/ (c.age = d.age /\ c.id < d.id)

Usable(claims) == {c \in claims : c.standing \in {"current", "undated"}}

Qualifying(claims) ==
    {c \in Usable(claims) : Cardinality({d \in Usable(claims) : Before(d, c)}) < MaxFindings}

Covered(claims) ==
    LET proof == {c \in claims : ProvesCurrent(c)} IN
    /\ Cardinality(proof) >= MinClaims
    /\ Cardinality({c.publisher : c \in proof}) >= MinPublishers
    /\ {c.kind : c \in proof} = {"structural", "development"}

\* retain_public_claims: an id used twice in one answer disqualifies both.
Retained(batch) ==
    {c \in batch : c.standing # "refused" /\ \A d \in batch : d.id = c.id => d = c}

\* _merge_claims: the first claim with an id stays.
Merge(batch) ==
    LET fresh == {c \in Retained(batch) : \A a \in accepted : a.id # c.id} IN
    /\ accepted' = accepted \union fresh
    /\ rejected' = (rejected \/ fresh # batch)

Batch == {b \in SUBSET Claim : Cardinality(b) <= BatchMax}

\* The feeds give what they publish with a date, each claim once.
FeedBatch ==
    {b \in Batch : \A c, d \in b : c.standing # "undated" /\ (c.id = d.id => c = d)}

Finish(tier, claims, cause) ==
    /\ outcome' = [tier |-> tier, claims |-> claims, cause |-> cause]
    /\ pc' = "over"

-----------------------------------------------------------------------------
\* The top of the loop.
BeginAttempt ==
    /\ pc = "attempt"
    /\ IF attempt > 1 /\ now >= Budget
       THEN exhausted' = TRUE /\ pc' = "recover"
       ELSE pc' = "search" /\ UNCHANGED exhausted
    /\ UNCHANGED <<attempt, now, accepted, rejected, failure, allow, recovered, offered, outcome>>

\* The gateway answers: full or reduced evidence ends the run, none is looked for again.
SearchReturns ==
    /\ pc = "search"
    /\ \E batch \in Batch, time \in SearchTime :
         /\ now' = now + time
         /\ offered' = offered \union Retained(batch)
         /\ Merge(batch)
    /\ LET qualifying == Qualifying(accepted') IN
         IF Covered(qualifying) THEN Finish("full", qualifying, "none")
         ELSE IF qualifying # {} THEN Finish("reduced", qualifying, "none")
         ELSE /\ pc' = IF attempt < MaxAttempts THEN "retry" ELSE "recover"
              /\ UNCHANGED outcome
    /\ UNCHANGED <<attempt, failure, exhausted, allow, recovered>>

\* A variant that gives up on the last failure without the feeds.
SearchFailsForGood ==
    /\ pc = "search"
    /\ \E time \in SearchTime : now' = now + time
    /\ \E cause \in Failure :
         /\ failure' = cause
         /\ IF attempt < MaxAttempts THEN pc' = "retry" /\ UNCHANGED outcome
            ELSE Finish("failed", {}, cause)
    /\ UNCHANGED <<attempt, accepted, rejected, exhausted, allow, recovered, offered>>

\* The gateway raises something that may pass.
SearchFails ==
    /\ pc = "search"
    /\ \E time \in SearchTime : now' = now + time
    /\ \E cause \in Failure : failure' = cause
    /\ pc' = IF attempt < MaxAttempts THEN "retry" ELSE "recover"
    /\ UNCHANGED <<attempt, accepted, rejected, exhausted, allow, recovered, offered, outcome>>

\* Refused credentials and programming errors end the run from either call.
CallBreaks ==
    /\ pc \in {"search", "recovery"}
    /\ \E time \in SearchTime : now' = now + time
    /\ \E cause \in {"configuration", "bug"} : Finish("failed", {}, cause)
    /\ UNCHANGED <<attempt, accepted, rejected, failure, exhausted, allow, recovered, offered>>

Least(a, b) == IF a < b THEN a ELSE b

\* A variant that sleeps as long as it was told to.
PrepareRetryUncapped ==
    /\ pc = "retry"
    /\ IF now >= Budget
       THEN exhausted' = TRUE /\ pc' = "recover" /\ UNCHANGED <<attempt, now>>
       ELSE /\ \E delay \in Delay : now' = now + delay
            /\ attempt' = attempt + 1
            /\ pc' = "attempt"
            /\ UNCHANGED exhausted
    /\ UNCHANGED <<accepted, rejected, failure, allow, recovered, offered, outcome>>

\* _prepare_retry: the sleep is cut to what is left.
PrepareRetry ==
    /\ pc = "retry"
    /\ IF now >= Budget
       THEN exhausted' = TRUE /\ pc' = "recover" /\ UNCHANGED <<attempt, now>>
       ELSE /\ \E delay \in Delay : now' = now + Least(delay, Budget - now)
            /\ attempt' = attempt + 1
            /\ pc' = "attempt"
            /\ UNCHANGED exhausted
    /\ UNCHANGED <<accepted, rejected, failure, allow, recovered, offered, outcome>>

\* The curated feeds are asked if any time is left.
BeginRecovery ==
    /\ pc = "recover"
    /\ IF now < Budget /\ Recovery
       THEN pc' = "recovery" /\ recovered' = TRUE
       ELSE pc' = "settle" /\ UNCHANGED recovered
    /\ UNCHANGED <<attempt, now, accepted, rejected, failure, exhausted, allow, offered, outcome>>

\* A variant that takes what came too late.
RecoveryReturnsLate ==
    /\ pc = "recovery"
    /\ \E time \in SearchTime : now' = now + time
    /\ exhausted' = (exhausted \/ now' >= Budget)
    /\ \E batch \in FeedBatch :
         /\ Merge(batch)
         /\ IF now' < Budget THEN offered' = offered \union Retained(batch) ELSE UNCHANGED offered
         /\ LET qualifying == Qualifying(accepted') IN
              IF Covered(qualifying) THEN Finish("full", qualifying, "none")
              ELSE pc' = "settle" /\ UNCHANGED outcome
    /\ UNCHANGED <<attempt, failure, allow, recovered>>

\* An answer that came after the budget is dropped.
RecoveryReturns ==
    /\ pc = "recovery"
    /\ \E time \in SearchTime : now' = now + time
    /\ exhausted' = (exhausted \/ now' >= Budget)
    /\ \E batch \in FeedBatch :
         /\ IF now' < Budget
            THEN /\ Merge(batch)
                 /\ offered' = offered \union Retained(batch)
                 /\ LET qualifying == Qualifying(accepted') IN
                      IF Covered(qualifying) THEN Finish("full", qualifying, "none")
                      ELSE pc' = "settle" /\ UNCHANGED outcome
            ELSE pc' = "settle" /\ UNCHANGED <<accepted, rejected, offered, outcome>>
    /\ UNCHANGED <<attempt, failure, allow, recovered>>

\* Every feed that was asked failed (after a failure of one the others are asked).
RecoveryFails ==
    /\ pc = "recovery"
    /\ \E time \in SearchTime : now' = now + time
    /\ exhausted' = (exhausted \/ now' >= Budget)
    /\ \E cause \in Failure : failure' = cause
    /\ pc' = "settle"
    /\ UNCHANGED <<attempt, accepted, rejected, allow, recovered, offered, outcome>>

Reason(spent) ==
    IF spent THEN "budget"
    ELSE IF failure # "none" THEN failure
    ELSE IF rejected THEN "rejected" ELSE "insufficient"

Raised(spent) ==
    IF spent THEN "budget"
    ELSE IF failure # "none" THEN failure
    ELSE IF accepted = {} /\ rejected THEN "rejected" ELSE "insufficient"

\* A variant that prefers the documents to a few current claims.
SettleOnDocuments ==
    /\ pc = "settle"
    /\ LET qualifying == Qualifying(accepted)
           spent == exhausted \/ now >= Budget
       IN IF allow THEN Finish("document_led", {}, Reason(spent))
          ELSE IF qualifying # {} THEN Finish("reduced", qualifying, "none")
          ELSE Finish("failed", {}, Raised(spent))
    /\ UNCHANGED <<attempt, now, accepted, rejected, failure, exhausted, allow, recovered, offered>>

\* What is left: reduced evidence, the documents alone where that is allowed, or none.
Settle ==
    /\ pc = "settle"
    /\ LET qualifying == Qualifying(accepted)
           spent == exhausted \/ now >= Budget
       IN IF \E c \in qualifying : c.standing = "current"
          THEN Finish("reduced", qualifying, "none")
          ELSE IF allow /\ qualifying = {}
          THEN Finish("document_led", {}, Reason(spent))
          ELSE Finish("failed", {}, Raised(spent))
    /\ UNCHANGED <<attempt, now, accepted, rejected, failure, exhausted, allow, recovered, offered>>

ResearchNext ==
    \/ BeginAttempt \/ SearchReturns \/ SearchFails \/ CallBreaks \/ PrepareRetry
    \/ BeginRecovery \/ RecoveryReturns \/ RecoveryFails \/ Settle

ResearchSpec == ResearchInit /\ [][ResearchNext]_researchVars

-----------------------------------------------------------------------------
Decided == outcome.tier # "open"

Broken == outcome.cause \in {"configuration", "bug"}

\* Nobody interrupts a call, so the run may outlast its budget; but by one call only,
\* whatever the attempts, failures and delays before it.
RunIsBounded ==
    \E longest \in SearchTime : now <= Budget + longest

\* What the review is told it may rely on was returned by a search, or by a feed that
\* answered inside the budget.
LateEvidenceIsRefused == outcome.claims \subseteq offered

\* "full" is a statement about the claims handed over, not about all that were found:
\* enough dated ones, from enough publishers, of both kinds.
FullIsEarned ==
    outcome.tier = "full" =>
        LET dated == {c \in outcome.claims : c.standing = "current"} IN
        /\ Cardinality(dated) >= MinClaims
        /\ Cardinality({c.publisher : c \in dated}) >= MinPublishers
        /\ \A kind \in {"structural", "development"} : \E c \in dated : c.kind = kind

\* A claim without use came with the same name; if it came first the other was dropped
\* (research_controller.py:423).
Hidden(c) == \E d \in offered : d.id = c.id /\ d.standing = "background"

\* No review is led by its documents alone, and none fails, after a usable claim was offered,
\* however answers name their claims: only one without use that bears its name may hide it.
UsableEvidenceIsUsed ==
    Decided /\ ~Broken /\ (\E c \in Usable(offered) : ~Hidden(c)) => outcome.claims # {}

\* Nothing is given up before the feeds were asked, unless the budget is spent.
LastResortIsTried ==
    outcome.tier \in {"document_led", "failed"} /\ ~Broken /\ Recovery /\ now < Budget
        => recovered

=============================================================================
