------------------------------ MODULE Assistant -----------------------------
(***************************************************************************)
(* The follow-on assistant of one completed review (routes.py): a question *)
(* is accepted under a lock of the process if no other one is being        *)
(* answered, its answer is streamed with nothing held, and the exchange is *)
(* written back as a whole: the history read on acceptance, and one more.  *)
(* That the review stays complete until it is removed is what              *)
(* ReviewService shows (PublishedReviewIsFrozen).                          *)
(***************************************************************************)
EXTENDS Naturals, Sequences

CONSTANTS
    Question,     \* the POST requests, each sent once
    Nobody,       \* the lock is free
    HistoryMax,   \* ASSISTANT_HISTORY_MAX_MESSAGES, in exchanges of two messages
    MaxFault,     \* bound: store operations that raise
    MaxCrash      \* bound: restarts of the process

ASSUME AssistantAssumption ==
    /\ Nobody \notin Question
    /\ HistoryMax \in Nat \ {0} /\ MaxFault \in Nat /\ MaxCrash \in Nat

VARIABLES
    stored,    \* the review is in the store
    history,   \* assistant_history, one entry per exchange
    active,    \* assistant_active
    owner,     \* assistant_active_owner: the process that set it
    process,   \* ASSISTANT_PROCESS_OWNER, counted
    lock,      \* _ASSISTANT_REQUEST_LOCK
    ask,       \* the progress of each request
    saved,     \* history value: the exchanges written, in order
    faults

assistantVars == <<stored, history, active, owner, process, lock, ask, saved, faults>>

\* told: what the client has been given, "open" until then.
Ask == [pc   : {"unasked", "checked", "accepted", "answered", "written", "failed",
               "release", "over"},
        read : Seq(Question),
        told : {"open", "refused", "done", "error", "cut"}]

AssistantInit ==
    /\ stored = TRUE
    /\ history = << >> /\ saved = << >>
    /\ active = FALSE /\ owner = 0 /\ process = 1
    /\ lock = Nobody
    /\ ask = [q \in Question |-> [pc |-> "unasked", read |-> << >>, told |-> "open"]]
    /\ faults = 0

-----------------------------------------------------------------------------
At(q, pc) == ask[q].pc = pc

Goto(q, pc) == ask' = [ask EXCEPT ![q].pc = pc]

Tell(q, told, pc) == ask' = [ask EXCEPT ![q].pc = pc, ![q].told = told]

review == <<stored, history, active, owner, saved>>

Busy == active /\ owner = process

\* A variant that does not look at the flag.
CheckOnlyStored(q) ==
    /\ At(q, "unasked")
    /\ lock = Nobody
    /\ IF ~stored
       THEN Tell(q, "refused", "over") /\ UNCHANGED lock
       ELSE /\ ask' = [ask EXCEPT ![q].pc = "checked", ![q].read = history]
            /\ lock' = q
    /\ UNCHANGED <<review, process, faults>>

\* The lock is taken, the review and the flag are read: 410, 409 or go on.
Check(q) ==
    /\ At(q, "unasked")
    /\ lock = Nobody
    /\ IF ~stored \/ Busy
       THEN Tell(q, "refused", "over") /\ UNCHANGED lock
       ELSE /\ ask' = [ask EXCEPT ![q].pc = "checked", ![q].read = history]
            /\ lock' = q
    /\ UNCHANGED <<review, process, faults>>

\* The flag is set and the lock given back; if the review has gone since, a 500.
Accept(q) ==
    /\ At(q, "checked")
    /\ lock' = Nobody
    /\ IF stored
       THEN Goto(q, "accepted") /\ active' = TRUE /\ owner' = process
       ELSE Tell(q, "refused", "over") /\ UNCHANGED <<active, owner>>
    /\ UNCHANGED <<stored, history, process, saved, faults>>

\* No gateway is configured: the flag is cleared again, outside the lock.
Unavailable(q) ==
    /\ At(q, "accepted")
    /\ active' = (active /\ ~stored)
    /\ Tell(q, "refused", "over")
    /\ UNCHANGED <<stored, history, owner, process, lock, saved, faults>>

\* A variant that admits the next question once the text is complete.
AnswerAndRelease(q) ==
    /\ At(q, "accepted")
    /\ Goto(q, "answered")
    /\ active' = FALSE
    /\ UNCHANGED <<stored, history, owner, process, lock, saved, faults>>

\* The gateway's stream ends with some text.
Answer(q) ==
    /\ At(q, "accepted")
    /\ Goto(q, "answered")
    /\ UNCHANGED <<review, process, lock, faults>>

\* A variant that returns before the finally.
AnswerFailsForGood(q) ==
    /\ At(q, "accepted")
    /\ Tell(q, "error", "over")
    /\ UNCHANGED <<review, process, lock, faults>>

\* The gateway raises, or there was no text.
AnswerFails(q) ==
    /\ At(q, "accepted")
    /\ Goto(q, "failed")
    /\ UNCHANGED <<review, process, lock, faults>>

\* [-ASSISTANT_HISTORY_MAX_MESSAGES:]
Shortened(h) == SubSeq(h, 1 + (IF Len(h) > HistoryMax THEN Len(h) - HistoryMax ELSE 0), Len(h))

\* A variant that takes a review that has gone for one that was written.
WriteUnchecked(q) ==
    /\ At(q, "answered")
    /\ IF stored
       THEN history' = Shortened(Append(ask[q].read, q)) /\ saved' = Append(saved, q)
       ELSE UNCHANGED <<history, saved>>
    /\ Goto(q, "written")
    /\ UNCHANGED <<stored, active, owner, process, lock, faults>>

\* update(assistant_history = ...)
Write(q) ==
    /\ At(q, "answered")
    /\ IF stored
       THEN /\ history' = Shortened(Append(ask[q].read, q))
            /\ saved' = Append(saved, q)
            /\ Goto(q, "written")
       ELSE Goto(q, "failed") /\ UNCHANGED <<history, saved>>
    /\ UNCHANGED <<stored, active, owner, process, lock, faults>>

TellDone(q) ==
    /\ At(q, "written")
    /\ Tell(q, "done", "release")
    /\ UNCHANGED <<review, process, lock, faults>>

TellError(q) ==
    /\ At(q, "failed")
    /\ Tell(q, "error", "release")
    /\ UNCHANGED <<review, process, lock, faults>>

\* The client goes away: GeneratorExit at whichever yield comes next.
Disconnect(q) ==
    /\ ask[q].pc \in {"accepted", "written", "failed"}
    /\ Tell(q, "cut", "release")
    /\ UNCHANGED <<review, process, lock, faults>>

\* The finally: the flag is cleared, whoever set it.
Release(q) ==
    /\ At(q, "release")
    /\ active' = (active /\ ~stored)
    /\ Goto(q, "over")
    /\ UNCHANGED <<stored, history, owner, process, lock, saved, faults>>

-----------------------------------------------------------------------------
\* A store operation raises: a 500 before the stream (behind which the flag may stay
\* set), the except branch inside it, and a flag that stays set in the finally.
StoreRaises(q) ==
    /\ faults < MaxFault
    /\ faults' = faults + 1
    /\ \/ At(q, "unasked") /\ lock = Nobody /\ Tell(q, "refused", "over") /\ UNCHANGED lock
       \/ At(q, "checked") /\ Tell(q, "refused", "over") /\ lock' = Nobody
       \/ At(q, "accepted") /\ Tell(q, "refused", "over") /\ UNCHANGED lock
       \/ At(q, "answered") /\ Goto(q, "failed") /\ UNCHANGED lock
       \/ At(q, "release") /\ Goto(q, "over") /\ UNCHANGED lock
    /\ UNCHANGED <<review, process>>

\* The process dies with everything but the store, and starts again.
Restart ==
    /\ process <= MaxCrash
    /\ process' = process + 1
    /\ lock' = Nobody
    /\ ask' = [q \in Question |->
                 IF ask[q].pc \in {"unasked", "over"} THEN ask[q]
                 ELSE [ask[q] EXCEPT !.pc = "over",
                                     !.told = IF @ = "open" THEN "cut" ELSE @]]
    /\ UNCHANGED <<review, faults>>

\* DELETE, or the time to live: the values of the review go with it.
Remove ==
    /\ stored
    /\ stored' = FALSE
    /\ UNCHANGED <<history, active, owner, process, lock, ask, saved, faults>>

QuestionStep(q) ==
    \/ Check(q) \/ Accept(q) \/ Unavailable(q) \/ Answer(q) \/ AnswerFails(q) \/ Write(q)
    \/ TellDone(q) \/ TellError(q) \/ Disconnect(q) \/ Release(q) \/ StoreRaises(q)

AssistantNext == Restart \/ Remove \/ \E q \in Question : QuestionStep(q)

AssistantSpec == AssistantInit /\ [][AssistantNext]_assistantVars

-----------------------------------------------------------------------------
Answering(q) == ask[q].pc \in {"accepted", "answered", "written", "failed", "release"}

\* One question is answered at a time, whatever disconnects, fails or restarts.
OneAnswerAtATime ==
    \A p, q \in Question : Answering(p) /\ Answering(q) => p = q

\* No exchange that was written is lost from the stored history, and none is out of
\* order: every writer has read what all writers before it wrote.
NoExchangeLost == history = Shortened(saved)

\* "done" is only said of an exchange that was written, "error" only of one that was
\* not: the browser keeps or removes the answer accordingly.
ToldTheTruth ==
    \A q \in Question :
        /\ ask[q].told = "done" => \E n \in DOMAIN saved : saved[n] = q
        /\ ask[q].told \in {"error", "refused"} => \A n \in DOMAIN saved : saved[n] # q

\* The flag of this process stays set only while a question is being answered, unless
\* a store operation has failed: otherwise the assistant would be busy for good.
BusyMeansAnswering ==
    stored /\ Busy /\ faults = 0 => \E q \in Question : Answering(q)
=============================================================================
