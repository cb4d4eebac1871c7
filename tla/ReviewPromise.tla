---------------------------- MODULE ReviewPromise ---------------------------
(***************************************************************************)
(* What the service promises the owner of a review, without saying how: an *)
(* accepted review is worked on, settles on one verdict, and announces     *)
(* that verdict and no other.  A verdict that has been announced stands,   *)
(* except that a failure of the research can be followed by a new attempt. *)
(* A verdict nobody has been told of yet may still become a failure (the   *)
(* run fails closed).  Deletion and expiry end everything, for good.       *)
(***************************************************************************)
CONSTANT Id

VARIABLES phase, announced

promiseVars == <<phase, announced>>

Verdict == {"complete", "failed"}

PromiseTypeOK ==
    /\ phase \in [Id -> {"unused", "working", "gone"} \union Verdict]
    /\ announced \in [Id -> {"nothing"} \union Verdict]

PromiseInit ==
    /\ phase = [i \in Id |-> "unused"]
    /\ announced = [i \in Id |-> "nothing"]

Accept(i) ==
    /\ phase[i] = "unused"
    /\ phase' = [phase EXCEPT ![i] = "working"]
    /\ UNCHANGED announced

Settle(i) ==
    /\ phase[i] = "working"
    /\ \E v \in Verdict : phase' = [phase EXCEPT ![i] = v]
    /\ UNCHANGED announced

FailClosed(i) ==
    /\ phase[i] = "complete"
    /\ announced[i] = "nothing"
    /\ phase' = [phase EXCEPT ![i] = "failed"]
    /\ UNCHANGED announced

Announce(i) ==
    /\ phase[i] \in Verdict
    /\ announced[i] = "nothing"
    /\ announced' = [announced EXCEPT ![i] = phase[i]]
    /\ UNCHANGED phase

TryAgain(i) ==
    /\ announced[i] = "failed"
    /\ phase' = [phase EXCEPT ![i] = "working"]
    /\ announced' = [announced EXCEPT ![i] = "nothing"]

Withdraw(S) ==
    /\ \A i \in S : phase[i] \notin {"unused", "gone"}
    /\ phase' = [i \in Id |-> IF i \in S THEN "gone" ELSE phase[i]]
    /\ announced' = [i \in Id |-> IF i \in S THEN "nothing" ELSE announced[i]]

PromiseNext ==
    \/ \E i \in Id : Accept(i) \/ Settle(i) \/ FailClosed(i) \/ Announce(i) \/ TryAgain(i)
    \/ \E S \in SUBSET Id : Withdraw(S)

PromiseSpec == PromiseInit /\ [][PromiseNext]_promiseVars
=============================================================================
