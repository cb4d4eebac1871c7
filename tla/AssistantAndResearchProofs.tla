---------------------- MODULE AssistantAndResearchProofs ----------------------
(***************************************************************************)
(* Theorems about two components that each work alone on one review, the   *)
(* questions to the follow-on assistant and one run of the research        *)
(* controller.  The two parts share nothing but the lemmas they cite.      *)
(***************************************************************************)
EXTENDS Assistant, Research, IterationLemmas, SequenceTheorems

-----------------------------------------------------------------------------
(***************************************************************************)
(* Assistant, for every number of questions, faults and restarts and every *)
(* length of the history.  What the theorems rest on: a question that has  *)
(* passed the check excludes every other one until its stream is over, by  *)
(* the lock first and by the flag afterwards, and the history it has read  *)
(* is the one that is stored.                                              *)
(***************************************************************************)
AssistantTypeOK ==
    /\ stored \in BOOLEAN /\ active \in BOOLEAN
    /\ history \in Seq(Question) /\ saved \in Seq(Question)
    /\ owner \in Nat /\ process \in Nat /\ faults \in Nat
    /\ lock \in Question \union {Nobody}
    /\ ask \in [Question -> Ask]

\* Who has the lock, or else the flag, is alone.
ExclusionInv ==
    /\ owner <= process
    /\ \A q \in Question : At(q, "checked") => lock = q
    /\ \A q \in Question : Answering(q) /\ stored => Busy
    /\ \A p, q \in Question : At(p, "checked") => ~Answering(q)

\* Who is going to write has read what is stored now.
HistoryInv ==
    /\ \A q \in Question :
          ask[q].pc \in {"checked", "accepted", "answered"} => ask[q].read = history
    /\ NoExchangeLost

IsSaved(q) == \E n \in DOMAIN saved : saved[n] = q

\* What a client is told follows from the step of its question.
ToldInv ==
    \A q \in Question :
        /\ ask[q].pc \in {"unasked", "checked", "accepted", "answered", "failed"} =>
              ask[q].told = "open" /\ ~IsSaved(q)
        /\ ask[q].pc = "written" => ask[q].told = "open" /\ IsSaved(q)
        /\ ask[q].told = "done" => IsSaved(q)
        /\ ask[q].told \in {"error", "refused"} => ~IsSaved(q)

AssistantInv ==
    /\ AssistantTypeOK /\ ExclusionInv /\ OneAnswerAtATime
    /\ HistoryInv /\ ToldInv /\ BusyMeansAnswering

-----------------------------------------------------------------------------
\* [-HistoryMax:] leaves a short history alone and of a long one keeps the end.
LEMMA ShortenedFacts ==
    ASSUME NEW h \in Seq(Question)
    PROVE  /\ Shortened(h) \in Seq(Question)
           /\ Len(h) <= HistoryMax => Shortened(h) = h
           /\ Len(h) > HistoryMax =>
                 /\ Len(Shortened(h)) = HistoryMax
                 /\ \A k \in 1..HistoryMax : Shortened(h)[k] = h[Len(h) - HistoryMax + k]
  <1>1. HistoryMax \in Nat \ {0} /\ Len(h) \in Nat
    BY AssistantAssumption
  <1>2. CASE Len(h) <= HistoryMax
    <2>1. 1 + (IF Len(h) > HistoryMax THEN Len(h) - HistoryMax ELSE 0) = 1
      BY <1>1, <1>2
    <2>2. Shortened(h) = SubSeq(h, 1, Len(h))
      BY <2>1, Zenon DEF Shortened
    <2>3. Shortened(h) = h
      BY <2>2, SubSeqFull
    <2> QED
      BY <1>1, <1>2, <2>3
  <1>3. CASE Len(h) > HistoryMax
    <2>1. Shortened(h) = SubSeq(h, 1 + (Len(h) - HistoryMax), Len(h))
      BY <1>1, <1>3 DEF Shortened
    <2> QED
      BY <1>1, <1>3, <2>1
  <1> QED
    BY <1>1, <1>2, <1>3

\* Cutting the history before an exchange is appended makes no difference to the result.
LEMMA ShortenedTwice ==
    ASSUME NEW h \in Seq(Question), NEW q \in Question
    PROVE  Shortened(Append(Shortened(h), q)) = Shortened(Append(h, q))
  <1> DEFINE s == Shortened(h)
             a == Append(s, q)
             b == Append(h, q)
  <1>1. HistoryMax \in Nat \ {0} /\ Len(h) \in Nat
    BY AssistantAssumption
  <1>2. CASE Len(h) <= HistoryMax
    BY <1>2, ShortenedFacts
  <1>3. CASE Len(h) > HistoryMax
    <2>1. /\ s \in Seq(Question) /\ Len(s) = HistoryMax
          /\ \A k \in 1..HistoryMax : s[k] = h[Len(h) - HistoryMax + k]
      BY <1>3, ShortenedFacts
    <2> HIDE DEF s
    <2>2. /\ a \in Seq(Question) /\ Len(a) = HistoryMax + 1
          /\ \A k \in 1..HistoryMax : a[k] = s[k]
          /\ a[HistoryMax + 1] = q
      BY <1>1, <2>1, AppendProperties
    <2>3. /\ b \in Seq(Question) /\ Len(b) = Len(h) + 1
          /\ \A k \in 1..Len(h) : b[k] = h[k]
          /\ b[Len(h) + 1] = q
      BY <1>1, AppendProperties
    <2> HIDE DEF a, b
    <2>4. /\ Shortened(a) \in Seq(Question) /\ Len(Shortened(a)) = HistoryMax
          /\ \A k \in 1..HistoryMax : Shortened(a)[k] = a[1 + k]
      BY <1>1, <2>2, ShortenedFacts
    <2>5. /\ Shortened(b) \in Seq(Question) /\ Len(Shortened(b)) = HistoryMax
          /\ \A k \in 1..HistoryMax : Shortened(b)[k] = b[Len(b) - HistoryMax + k]
      <3>1. Len(b) > HistoryMax
        BY <1>1, <1>3, <2>3
      <3> QED
        BY <2>3, <3>1, ShortenedFacts
    <2>6. ASSUME NEW k \in 1..HistoryMax PROVE a[1 + k] = b[Len(b) - HistoryMax + k]
      <3>1. CASE k = HistoryMax
        BY <1>1, <2>2, <2>3, <3>1
      <3>2. CASE k < HistoryMax
        <4>1. a[1 + k] = h[Len(h) - HistoryMax + (1 + k)]
          BY <1>1, <2>1, <2>2, <3>2
        <4>2. b[Len(b) - HistoryMax + k] = h[Len(h) + 1 - HistoryMax + k]
          BY <1>1, <1>3, <2>3, <3>2
        <4> QED
          BY <1>1, <4>1, <4>2
      <3> QED
        BY <1>1, <3>1, <3>2
    <2>7. Shortened(a) = Shortened(b)
      BY <1>1, <2>4, <2>5, <2>6, SeqEqual
    <2> QED
      BY <2>7 DEF a, b, s
  <1> QED
    BY <1>1, <1>2, <1>3

-----------------------------------------------------------------------------
LEMMA InitEstablishesAssistantInv == AssistantInit => AssistantInv
  <1> SUFFICES ASSUME AssistantInit PROVE AssistantInv
    OBVIOUS
  <1>1. << >> \in Seq(Question)
    OBVIOUS
  <1>2. AssistantTypeOK
    BY <1>1 DEF AssistantInit, AssistantTypeOK, Ask
  <1>3. Shortened(<< >>) = << >>
    <2>1. Len(<< >>) <= HistoryMax
      BY AssistantAssumption
    <2> QED
      BY <1>1, <2>1, ShortenedFacts
  <1> QED
    BY <1>2, <1>3 DEF AssistantInit, AssistantInv, ExclusionInv, OneAnswerAtATime, HistoryInv,
                      NoExchangeLost, ToldInv, IsSaved, BusyMeansAnswering, At, Answering, Busy

\* The entry of question q becomes <<place, read, told>> and no other one changes.
Moved(q, place, read, told) ==
    /\ ask' \in [Question -> Ask]
    /\ ask'[q].pc = place /\ ask'[q].read = read /\ ask'[q].told = told
    /\ \A p \in Question \ {q} : ask'[p] = ask[p]

LEMMA TellMoves ==
    ASSUME AssistantTypeOK, NEW q \in Question, NEW place, NEW told, Tell(q, told, place),
           place \in {"over", "release"}, told \in {"refused", "done", "error", "cut"}
    PROVE  Moved(q, place, ask[q].read, told)
  BY DEF AssistantTypeOK, Tell, Ask, Moved

LEMMA GotoMoves ==
    ASSUME AssistantTypeOK, NEW q \in Question, NEW place, Goto(q, place),
           place \in {"checked", "accepted", "answered", "written", "failed", "over"}
    PROVE  Moved(q, place, ask[q].read, ask[q].told)
  BY DEF AssistantTypeOK, Goto, Ask, Moved

\* A question that no answer was given to yet is refused.
LEMMA RefusedStep ==
    ASSUME AssistantInv, NEW q \in Question, UNCHANGED <<review, process>>,
           ask[q].pc \in {"unasked", "checked", "accepted"}, Tell(q, "refused", "over"),
           \/ UNCHANGED lock /\ ask[q].pc # "checked"
           \/ lock' = Nobody /\ ask[q].pc = "checked",
           faults' \in Nat, ask[q].pc = "accepted" => faults' > 0,
           faults' = 0 => faults = 0
    PROVE  AssistantInv'
  <1> USE DEF AssistantInv, review
  <1>1. Moved(q, "over", ask[q].read, "refused")
    BY TellMoves
  <1> USE DEF Moved
  <1>2. AssistantTypeOK'
    BY <1>1 DEF AssistantTypeOK
  <1>3. ExclusionInv'
    BY <1>1 DEF AssistantTypeOK, ExclusionInv, Answering, Busy, At
  <1>4. OneAnswerAtATime'
    BY <1>1 DEF OneAnswerAtATime, Answering
  <1>5. HistoryInv'
    BY <1>1 DEF HistoryInv, NoExchangeLost
  <1>6. ToldInv'
    BY <1>1 DEF ToldInv, IsSaved
  <1>7. BusyMeansAnswering'
    BY <1>1 DEF AssistantTypeOK, BusyMeansAnswering, Answering, Busy
  <1> QED
    BY <1>2, <1>3, <1>4, <1>5, <1>6, <1>7

LEMMA CheckStep ==
    ASSUME AssistantInv, NEW q \in Question, Check(q)
    PROVE  AssistantInv'
  <1>1. CASE ~stored \/ Busy
    <2>1. /\ UNCHANGED <<review, process>> /\ Tell(q, "refused", "over") /\ UNCHANGED lock
          /\ ask[q].pc = "unasked" /\ faults' = faults /\ faults \in Nat
      BY <1>1 DEF Check, At, AssistantInv, AssistantTypeOK
    <2> QED
      BY <2>1, RefusedStep
  <1>2. CASE stored /\ ~Busy
    <2> USE DEF AssistantInv
    <2>1. /\ UNCHANGED <<stored, history, active, owner, saved, process, faults>>
          /\ lock = Nobody /\ lock' = q /\ ask[q].pc = "unasked"
          /\ ask' = [ask EXCEPT ![q].pc = "checked", ![q].read = history]
      BY <1>2 DEF Check, At, review
    <2>2. Moved(q, "checked", history, ask[q].told)
      BY <2>1 DEF AssistantTypeOK, Ask, Moved
    <2> USE DEF Moved
    <2>3. AssistantTypeOK'
      BY <2>1, <2>2 DEF AssistantTypeOK
    <2>4. \A p \in Question : ~Answering(p)
      BY <1>2 DEF ExclusionInv
    <2>5. ExclusionInv' /\ OneAnswerAtATime'
      BY <2>1, <2>2, <2>4, AssistantAssumption
      DEF AssistantTypeOK, ExclusionInv, OneAnswerAtATime, Answering, Busy, At
    <2>6. HistoryInv'
      BY <2>1, <2>2 DEF HistoryInv, NoExchangeLost
    <2>7. ToldInv'
      BY <2>1, <2>2 DEF ToldInv, IsSaved
    <2>8. BusyMeansAnswering'
      BY <1>2, <2>1 DEF BusyMeansAnswering, Busy
    <2> QED
      BY <2>3, <2>5, <2>6, <2>7, <2>8
  <1> QED
    BY <1>1, <1>2

LEMMA AcceptStep ==
    ASSUME AssistantInv, NEW q \in Question, Accept(q)
    PROVE  AssistantInv'
  <1>1. CASE ~stored
    <2>1. /\ UNCHANGED <<review, process>> /\ Tell(q, "refused", "over") /\ lock' = Nobody
          /\ ask[q].pc = "checked" /\ faults' = faults /\ faults \in Nat
      BY <1>1 DEF Accept, At, review, AssistantInv, AssistantTypeOK
    <2> QED
      BY <2>1, RefusedStep
  <1>2. CASE stored
    <2> USE DEF AssistantInv
    <2>1. /\ UNCHANGED <<stored, history, saved, process, faults>>
          /\ active' = TRUE /\ owner' = process /\ lock' = Nobody
          /\ ask[q].pc = "checked" /\ Goto(q, "accepted")
      BY <1>2 DEF Accept, At
    <2>2. Moved(q, "accepted", ask[q].read, ask[q].told)
      BY <2>1, GotoMoves
    <2> USE DEF Moved
    <2>3. AssistantTypeOK'
      BY <2>1, <2>2 DEF AssistantTypeOK
    <2>4. \A p \in Question : ~Answering(p) /\ (At(p, "checked") => p = q)
      BY <2>1 DEF ExclusionInv, At
    <2>5. ExclusionInv' /\ OneAnswerAtATime'
      <3>1. /\ \A p \in Question : p # q => ask'[p] = ask[p]
            /\ ask'[q].pc = "accepted"
        BY <2>2
      <3>2. \A p \in Question : p # q => ~Answering(p)' /\ ~At(p, "checked")'
        BY <2>4, <3>1 DEF Answering, At
      <3> QED
        BY <2>1, <3>1, <3>2 DEF ExclusionInv, OneAnswerAtATime, Busy, At, AssistantTypeOK
    <2>6. HistoryInv'
      BY <2>1, <2>2 DEF HistoryInv, NoExchangeLost
    <2>7. ToldInv'
      BY <2>1, <2>2 DEF ToldInv, IsSaved
    <2>8. BusyMeansAnswering'
      BY <2>2 DEF BusyMeansAnswering, Answering
    <2> QED
      BY <2>3, <2>5, <2>6, <2>7, <2>8
  <1> QED
    BY <1>1, <1>2

LEMMA UnavailableStep ==
    ASSUME AssistantInv, NEW q \in Question, Unavailable(q)
    PROVE  AssistantInv'
  <1> USE DEF AssistantInv, Unavailable, At, Tell
  <1>1. AssistantTypeOK'
    BY DEF AssistantTypeOK, Ask
  <1>2. ExclusionInv'
    <2>1. /\ \A p \in Question : ~Answering(p)'
          /\ \A p \in Question : At(p, "checked")' => At(p, "checked")
      BY DEF AssistantTypeOK, OneAnswerAtATime, Answering, Ask
    <2>2. UNCHANGED <<owner, process, lock>>
      OBVIOUS
    <2> QED
      BY <2>1, <2>2 DEF ExclusionInv
  <1>3. OneAnswerAtATime'
    BY DEF AssistantTypeOK, ExclusionInv, OneAnswerAtATime, Answering, Ask
  <1>4. HistoryInv'
    BY DEF AssistantTypeOK, HistoryInv, NoExchangeLost, Ask
  <1>5. ToldInv'
    BY DEF AssistantTypeOK, ToldInv, IsSaved, Ask
  <1>6. BusyMeansAnswering'
    BY DEF AssistantTypeOK, ExclusionInv, BusyMeansAnswering, Answering, Busy, Ask
  <1> QED
    BY <1>1, <1>2, <1>3, <1>4, <1>5, <1>6

LEMMA AnswerStep ==
    ASSUME AssistantInv, NEW q \in Question, Answer(q)
    PROVE  AssistantInv'
  <1> USE DEF AssistantInv, Answer, At, Goto, review
  <1>1. AssistantTypeOK'
    BY DEF AssistantTypeOK, Ask
  <1>2. ExclusionInv'
    BY DEF AssistantTypeOK, ExclusionInv, Answering, Busy, Ask, At
  <1>3. OneAnswerAtATime'
    BY DEF AssistantTypeOK, ExclusionInv, OneAnswerAtATime, Answering, Ask
  <1>4. HistoryInv'
    BY DEF AssistantTypeOK, HistoryInv, NoExchangeLost, Ask
  <1>5. ToldInv'
    BY DEF AssistantTypeOK, ToldInv, IsSaved, Ask
  <1>6. BusyMeansAnswering'
    BY DEF AssistantTypeOK, ExclusionInv, BusyMeansAnswering, Answering, Busy, Ask
  <1> QED
    BY <1>1, <1>2, <1>3, <1>4, <1>5, <1>6

LEMMA AnswerFailsStep ==
    ASSUME AssistantInv, NEW q \in Question, AnswerFails(q)
    PROVE  AssistantInv'
  <1> USE DEF AssistantInv, AnswerFails, At, Goto, review
  <1>1. AssistantTypeOK'
    BY DEF AssistantTypeOK, Ask
  <1>2. ExclusionInv'
    BY DEF AssistantTypeOK, ExclusionInv, Answering, Busy, Ask, At
  <1>3. OneAnswerAtATime'
    BY DEF AssistantTypeOK, ExclusionInv, OneAnswerAtATime, Answering, Ask
  <1>4. HistoryInv'
    BY DEF AssistantTypeOK, HistoryInv, NoExchangeLost, Ask
  <1>5. ToldInv'
    BY DEF AssistantTypeOK, ToldInv, IsSaved, Ask
  <1>6. BusyMeansAnswering'
    BY DEF AssistantTypeOK, ExclusionInv, BusyMeansAnswering, Answering, Busy, Ask
  <1> QED
    BY <1>1, <1>2, <1>3, <1>4, <1>5, <1>6

LEMMA WriteStep ==
    ASSUME AssistantInv, NEW q \in Question, Write(q)
    PROVE  AssistantInv'
  <1> USE DEF AssistantInv
  <1>1. /\ UNCHANGED <<stored, active, owner, process, lock, faults>>
        /\ ask[q].pc = "answered" /\ ask[q].read = history
        /\ \A p \in Question \ {q} : ~Answering(p) /\ ~At(p, "checked")
    BY DEF Write, HistoryInv, OneAnswerAtATime, ExclusionInv, Answering, At
  <1>2. CASE ~stored
    <2>1. UNCHANGED <<history, saved>> /\ Goto(q, "failed")
      BY <1>2 DEF Write
    <2>2. Moved(q, "failed", ask[q].read, ask[q].told)
      BY <2>1, GotoMoves
    <2> USE DEF Moved
    <2>3. AssistantTypeOK'
      BY <1>1, <2>1, <2>2 DEF AssistantTypeOK
    <2>4. ExclusionInv' /\ OneAnswerAtATime'
      BY <1>1, <2>2 DEF ExclusionInv, OneAnswerAtATime, Answering, Busy, At
    <2>5. HistoryInv' /\ ToldInv'
      BY <1>1, <2>1, <2>2 DEF HistoryInv, NoExchangeLost, ToldInv, IsSaved
    <2>6. BusyMeansAnswering'
      BY <1>1, <1>2 DEF BusyMeansAnswering
    <2> QED
      BY <2>3, <2>4, <2>5, <2>6
  <1>3. CASE stored
    <2>1. /\ history' = Shortened(Append(history, q)) /\ saved' = Append(saved, q)
          /\ Goto(q, "written")
      BY <1>1, <1>3 DEF Write
    <2>2. Moved(q, "written", ask[q].read, ask[q].told)
      BY <2>1, GotoMoves
    <2> USE DEF Moved
    <2>3. saved \in Seq(Question) /\ history \in Seq(Question) /\ history = Shortened(saved)
      BY DEF AssistantTypeOK, HistoryInv, NoExchangeLost
    <2>4. saved' \in Seq(Question) /\ history' \in Seq(Question)
      BY <2>1, <2>3, AppendProperties, ShortenedFacts
    <2>5. AssistantTypeOK'
      BY <1>1, <2>2, <2>4 DEF AssistantTypeOK
    <2>6. ExclusionInv' /\ OneAnswerAtATime'
      BY <1>1, <2>2 DEF ExclusionInv, OneAnswerAtATime, Answering, Busy, At
    <2>7. HistoryInv'
      <3>1. NoExchangeLost'
        BY <2>1, <2>3, ShortenedTwice DEF NoExchangeLost
      <3> QED
        BY <1>1, <2>2, <3>1 DEF HistoryInv, Answering, At
    <2>8. \A p \in Question : IsSaved(p)' <=> IsSaved(p) \/ p = q
      BY <2>1, <2>3, AppendProperties DEF IsSaved
    <2>9. ToldInv'
      <3>1. ~IsSaved(q) /\ ask[q].told = "open"
        BY <1>1 DEF ToldInv
      <3>2. \A p \in Question \ {q} : IsSaved(p)' <=> IsSaved(p)
        BY <2>8
      <3>3. IsSaved(q)'
        BY <2>8
      <3> HIDE DEF IsSaved
      <3> QED
        BY <2>2, <3>1, <3>2, <3>3, <1>1 DEF ToldInv
    <2>10. BusyMeansAnswering'
      BY <2>2 DEF BusyMeansAnswering, Answering
    <2> QED
      BY <2>5, <2>6, <2>7, <2>9, <2>10
  <1> QED
    BY <1>2, <1>3

LEMMA TellDoneStep ==
    ASSUME AssistantInv, NEW q \in Question, TellDone(q)
    PROVE  AssistantInv'
  <1> USE DEF AssistantInv, TellDone, At, Tell, review
  <1>1. AssistantTypeOK'
    BY DEF AssistantTypeOK, Ask
  <1>2. ExclusionInv'
    BY DEF AssistantTypeOK, ExclusionInv, Answering, Busy, Ask, At
  <1>3. OneAnswerAtATime'
    BY DEF AssistantTypeOK, ExclusionInv, OneAnswerAtATime, Answering, Ask
  <1>4. HistoryInv'
    BY DEF AssistantTypeOK, HistoryInv, NoExchangeLost, Ask
  <1>5. ToldInv'
    BY DEF AssistantTypeOK, ToldInv, IsSaved, Ask
  <1>6. BusyMeansAnswering'
    BY DEF AssistantTypeOK, ExclusionInv, BusyMeansAnswering, Answering, Busy, Ask
  <1> QED
    BY <1>1, <1>2, <1>3, <1>4, <1>5, <1>6

LEMMA TellErrorStep ==
    ASSUME AssistantInv, NEW q \in Question, TellError(q)
    PROVE  AssistantInv'
  <1> USE DEF AssistantInv, TellError, At, Tell, review
  <1>1. AssistantTypeOK'
    BY DEF AssistantTypeOK, Ask
  <1>2. ExclusionInv'
    BY DEF AssistantTypeOK, ExclusionInv, Answering, Busy, Ask, At
  <1>3. OneAnswerAtATime'
    BY DEF AssistantTypeOK, ExclusionInv, OneAnswerAtATime, Answering, Ask
  <1>4. HistoryInv'
    BY DEF AssistantTypeOK, HistoryInv, NoExchangeLost, Ask
  <1>5. ToldInv'
    BY DEF AssistantTypeOK, ToldInv, IsSaved, Ask
  <1>6. BusyMeansAnswering'
    BY DEF AssistantTypeOK, ExclusionInv, BusyMeansAnswering, Answering, Busy, Ask
  <1> QED
    BY <1>1, <1>2, <1>3, <1>4, <1>5, <1>6

LEMMA DisconnectStep ==
    ASSUME AssistantInv, NEW q \in Question, Disconnect(q)
    PROVE  AssistantInv'
  <1> USE DEF AssistantInv, Disconnect, At, Tell, review
  <1>1. AssistantTypeOK'
    BY DEF AssistantTypeOK, Ask
  <1>2. ExclusionInv'
    BY DEF AssistantTypeOK, ExclusionInv, Answering, Busy, Ask, At
  <1>3. OneAnswerAtATime'
    BY DEF AssistantTypeOK, ExclusionInv, OneAnswerAtATime, Answering, Ask
  <1>4. HistoryInv'
    BY DEF AssistantTypeOK, HistoryInv, NoExchangeLost, Ask
  <1>5. ToldInv'
    BY DEF AssistantTypeOK, ToldInv, IsSaved, Ask
  <1>6. BusyMeansAnswering'
    BY DEF AssistantTypeOK, ExclusionInv, BusyMeansAnswering, Answering, Busy, Ask
  <1> QED
    BY <1>1, <1>2, <1>3, <1>4, <1>5, <1>6

LEMMA ReleaseStep ==
    ASSUME AssistantInv, NEW q \in Question, Release(q)
    PROVE  AssistantInv'
  <1> USE DEF AssistantInv, Release, At, Goto
  <1>1. AssistantTypeOK'
    BY DEF AssistantTypeOK, Ask
  <1>2. ExclusionInv'
    <2>1. /\ \A p \in Question : ~Answering(p)'
          /\ \A p \in Question : At(p, "checked")' => At(p, "checked")
      BY DEF AssistantTypeOK, OneAnswerAtATime, Answering, Ask
    <2>2. UNCHANGED <<owner, process, lock>>
      OBVIOUS
    <2> QED
      BY <2>1, <2>2 DEF ExclusionInv
  <1>3. OneAnswerAtATime'
    BY DEF AssistantTypeOK, ExclusionInv, OneAnswerAtATime, Answering, Ask
  <1>4. HistoryInv'
    BY DEF AssistantTypeOK, HistoryInv, NoExchangeLost, Ask
  <1>5. ToldInv'
    BY DEF AssistantTypeOK, ToldInv, IsSaved, Ask
  <1>6. BusyMeansAnswering'
    BY DEF AssistantTypeOK, ExclusionInv, BusyMeansAnswering, Answering, Busy, Ask
  <1> QED
    BY <1>1, <1>2, <1>3, <1>4, <1>5, <1>6

LEMMA StoreRaisesStep ==
    ASSUME AssistantInv, NEW q \in Question, StoreRaises(q)
    PROVE  AssistantInv'
  <1>1. UNCHANGED <<review, process>> /\ faults' \in Nat /\ faults' > 0
    BY DEF StoreRaises, AssistantInv, AssistantTypeOK
  <1>2. CASE /\ ask[q].pc \in {"unasked", "accepted"}
             /\ Tell(q, "refused", "over") /\ UNCHANGED lock
    BY <1>1, <1>2, RefusedStep
  <1>3. CASE At(q, "checked")
    BY <1>1, <1>3, RefusedStep DEF StoreRaises, At
  <1>4. CASE \/ At(q, "answered") /\ Goto(q, "failed") /\ UNCHANGED lock
             \/ At(q, "release") /\ Goto(q, "over") /\ UNCHANGED lock
    <2> USE DEF AssistantInv, review
    <2>1. PICK place \in {"failed", "over"} : /\ Moved(q, place, ask[q].read, ask[q].told)
                                              /\ place = "failed" <=> ask[q].pc = "answered"
                                              /\ place = "over" <=> ask[q].pc = "release"
      BY <1>4, GotoMoves DEF At
    <2> USE DEF Moved
    <2>2. AssistantTypeOK'
      BY <1>1, <1>4, <2>1 DEF AssistantTypeOK
    <2>3. ExclusionInv' /\ OneAnswerAtATime'
      BY <1>1, <1>4, <2>1 DEF ExclusionInv, OneAnswerAtATime, Answering, Busy, At
    <2>4. HistoryInv' /\ ToldInv'
      BY <1>1, <2>1 DEF HistoryInv, NoExchangeLost, ToldInv, IsSaved
    <2>5. BusyMeansAnswering'
      BY <1>1 DEF BusyMeansAnswering
    <2> QED
      BY <2>2, <2>3, <2>4, <2>5
  <1> QED
    BY <1>2, <1>3, <1>4 DEF StoreRaises, At

LEMMA RestartStep ==
    ASSUME AssistantInv, Restart
    PROVE  AssistantInv'
  <1> USE DEF AssistantInv
  <1>1. UNCHANGED <<stored, history, active, owner, saved, faults>> /\ lock' = Nobody
        /\ process' = process + 1
    BY DEF Restart, review
  <1>2. ASSUME NEW p \in Question
        PROVE  /\ ask'[p] \in Ask
               /\ ask'[p].pc \in {"unasked", "over"}
               /\ ask'[p].pc = "unasked" => ask[p].pc = "unasked"
               /\ ask'[p].told # ask[p].told => ask[p].told = "open" /\ ask'[p].told = "cut"
               /\ ask'[p].pc = "unasked" => ask'[p].told = ask[p].told
    <2>1. ask[p] \in Ask
      BY DEF AssistantTypeOK
    <2>2. CASE ask[p].pc \in {"unasked", "over"}
      <3>1. ask'[p] = ask[p]
        BY <2>2 DEF Restart
      <3> QED
        BY <2>1, <2>2, <3>1
    <2>3. CASE ask[p].pc \notin {"unasked", "over"}
      <3>1. ask'[p] = [ask[p] EXCEPT !.pc = "over", !.told = IF @ = "open" THEN "cut" ELSE @]
        BY <2>3 DEF Restart
      <3>2. ask'[p].pc = "over" /\ ask'[p].read = ask[p].read
            /\ ask'[p].told = IF ask[p].told = "open" THEN "cut" ELSE ask[p].told
        BY <2>1, <3>1 DEF Ask
      <3>3. ask'[p] \in Ask
        BY <2>1, <3>1 DEF Ask
      <3> QED
        BY <3>2, <3>3
    <2> QED
      BY <2>2, <2>3
  <1>3. AssistantTypeOK'
    <2>1. ask' \in [Question -> Ask]
      BY <1>2 DEF Restart
    <2> QED
      BY <1>1, <2>1 DEF AssistantTypeOK
  <1>4. \A p \in Question : ~Answering(p)' /\ ~At(p, "checked")'
    BY <1>2 DEF Answering, At
  <1>5. ExclusionInv' /\ OneAnswerAtATime'
    BY <1>1, <1>4 DEF ExclusionInv, OneAnswerAtATime, AssistantTypeOK
  <1>6. HistoryInv'
    BY <1>1, <1>2 DEF HistoryInv, NoExchangeLost
  <1>7. ToldInv'
    <2> SUFFICES ASSUME NEW p \in Question
                 PROVE  /\ ask'[p].pc = "unasked" => ask'[p].told = "open" /\ ~IsSaved(p)'
                        /\ ask'[p].told = "done" => IsSaved(p)'
                        /\ ask'[p].told \in {"error", "refused"} => ~IsSaved(p)'
      BY <1>2 DEF ToldInv
    <2>1. IsSaved(p)' <=> IsSaved(p)
      BY <1>1 DEF IsSaved
    <2> QED
      BY <1>2, <2>1 DEF ToldInv
  <1>8. BusyMeansAnswering'
    BY <1>1 DEF BusyMeansAnswering, Busy, ExclusionInv, AssistantTypeOK
  <1> QED
    BY <1>3, <1>5, <1>6, <1>7, <1>8

LEMMA RemoveStep ==
    ASSUME AssistantInv, Remove
    PROVE  AssistantInv'
  <1> USE DEF AssistantInv, Remove
  <1>1. AssistantTypeOK' /\ ExclusionInv' /\ OneAnswerAtATime'
    BY DEF AssistantTypeOK, ExclusionInv, OneAnswerAtATime, Answering, At
  <1>2. HistoryInv' /\ ToldInv' /\ BusyMeansAnswering'
    BY DEF HistoryInv, NoExchangeLost, ToldInv, IsSaved, BusyMeansAnswering
  <1> QED
    BY <1>1, <1>2

LEMMA NextPreservesAssistantInv ==
    AssistantInv /\ [AssistantNext]_assistantVars => AssistantInv'
  <1> SUFFICES ASSUME AssistantInv, [AssistantNext]_assistantVars PROVE AssistantInv'
    OBVIOUS
  <1>1. ASSUME NEW q \in Question, QuestionStep(q) PROVE AssistantInv'
    BY <1>1, CheckStep, AcceptStep, UnavailableStep, AnswerStep, AnswerFailsStep, WriteStep,
       TellDoneStep, TellErrorStep, DisconnectStep, ReleaseStep, StoreRaisesStep
    DEF QuestionStep
  <1>2. CASE UNCHANGED assistantVars
    BY <1>2 DEF assistantVars, AssistantInv, AssistantTypeOK, ExclusionInv, OneAnswerAtATime,
                HistoryInv, NoExchangeLost, ToldInv, IsSaved, BusyMeansAnswering, Answering,
                Busy, At
  <1> QED
    BY <1>1, <1>2, RestartStep, RemoveStep DEF AssistantNext

-----------------------------------------------------------------------------
THEOREM AssistantInvHolds == AssistantSpec => []AssistantInv
  <1> QED
    BY InitEstablishesAssistantInv, NextPreservesAssistantInv, PTL DEF AssistantSpec

\* For every number of questions, whatever disconnects, fails or restarts, one is answered
\* at a time (_ASSISTANT_REQUEST_LOCK, assistant_active and its owner).
THEOREM OneAnswerHolds == AssistantSpec => []OneAnswerAtATime
  <1>1. AssistantInv => OneAnswerAtATime
    BY DEF AssistantInv
  <1> QED
    BY <1>1, AssistantInvHolds, PTL

\* The stored history is the end of the conversation as it was written, in order.
THEOREM HistoryIsConversation == AssistantSpec => []NoExchangeLost
  <1>1. AssistantInv => NoExchangeLost
    BY DEF AssistantInv, HistoryInv
  <1> QED
    BY <1>1, AssistantInvHolds, PTL

\* What a client is told of its exchange is true of the history.
THEOREM ClientIsToldTheTruth == AssistantSpec => []ToldTheTruth
  <1>1. AssistantInv => ToldTheTruth
    BY DEF AssistantInv, ToldInv, ToldTheTruth, IsSaved
  <1> QED
    BY <1>1, AssistantInvHolds, PTL

\* Without a failing store operation the assistant of a review is never busy for good.
THEOREM BusyIsAnswering == AssistantSpec => []BusyMeansAnswering
  <1>1. AssistantInv => BusyMeansAnswering
    BY DEF AssistantInv
  <1> QED
    BY <1>1, AssistantInvHolds, PTL

-----------------------------------------------------------------------------
(***************************************************************************)
(* One run of the research controller, for any claims, any number of       *)
(* attempts, any budget and any duration of a call.                        *)
(***************************************************************************)
(* The newest claim of the smallest name: why a bound on the findings that *)
(* are kept never leaves none of them.                                     *)

LEMMA ClaimTypes ==
  ASSUME NEW c \in Claim
  PROVE  /\ c.id \in Nat /\ c.age \in Nat
         /\ c.standing \in {"current", "undated", "background", "refused"}
         /\ c.kind \in {"structural", "development"}
  BY ResearchAssumption DEF ResearchAssumption, ClaimType

\* What qualifies is usable, and is empty only when nothing is.
LEMMA QualifyingIsUsable ==
  ASSUME NEW claims \in SUBSET Claim
  PROVE  /\ Qualifying(claims) \subseteq Usable(claims)
         /\ Usable(claims) # {} => Qualifying(claims) # {}
  <1> DEFINE S == Usable(claims)
             Ages == {c.age : c \in S}
  <1>1. Qualifying(claims) = {c \in S : Cardinality({d \in S : Before(d, c)}) < MaxFindings}
    BY DEF Qualifying
  <1>2. S \subseteq Claim
    BY DEF Usable
  <1>3. ASSUME S # {} PROVE Qualifying(claims) # {}
    <2>1. Ages \in SUBSET Nat /\ Ages # {}
      BY <1>2, <1>3, ClaimTypes
    <2>2. PICK age \in Ages : \A other \in Ages : age <= other
      <3> HIDE DEF Ages
      <3> QED
        BY <2>1, LeastNumber
    <2> DEFINE Newest == {c \in S : c.age = age}
               Ids == {c.id : c \in Newest}
    <2>3. Ids \in SUBSET Nat /\ Ids # {}
      BY <1>2, <2>2, ClaimTypes
    <2>4. PICK id \in Ids : \A other \in Ids : id <= other
      <3> HIDE DEF Ids
      <3> QED
        BY <2>3, LeastNumber
    <2>5. PICK c \in Newest : c.id = id
      BY <2>4
    <2>6. ASSUME NEW d \in S, Before(d, c) PROVE FALSE
      <3>1. d.age \in Nat /\ d.id \in Nat /\ c.age \in Nat /\ c.id \in Nat
        BY <1>2, ClaimTypes
      <3>2. c.age <= d.age
        BY <2>2
      <3>3. d.age = c.age /\ d.id < c.id
        BY <2>6, <3>1, <3>2 DEF Before
      <3>4. d \in Newest
        BY <3>3
      <3>5. c.id <= d.id
        BY <2>4, <2>5, <3>4
      <3> QED
        BY <3>1, <3>3, <3>5
    <2>7. {d \in S : Before(d, c)} = {}
      BY <2>6
    <2>8. Cardinality({d \in S : Before(d, c)}) < MaxFindings
      BY <2>7, FS_EmptySet, ResearchAssumption DEF ResearchAssumption
    <2> QED
      BY <1>1, <2>8
  <1> QED
    BY <1>1, <1>3

-----------------------------------------------------------------------------
(* The invariants. *)

ResearchTypeOK ==
    /\ pc \in {"attempt", "search", "retry", "recover", "recovery", "settle", "over"}
    /\ attempt \in Nat \ {0} /\ now \in Nat
    /\ accepted \in SUBSET Claim /\ offered \in SUBSET Claim
    /\ rejected \in BOOLEAN /\ exhausted \in BOOLEAN
    /\ allow \in BOOLEAN /\ recovered \in BOOLEAN
    /\ failure \in Failure \union {"none"}
    /\ outcome.claims \in SUBSET Claim
    /\ pc # "over" => outcome = Undecided

\* A call is only made while time is left, and a wait ends at the budget at the latest.
TimeInv ==
    /\ pc = "attempt" => now <= Budget /\ (attempt = 1 => now = 0)
    /\ pc \in {"search", "recovery"} => now < Budget
    /\ RunIsBounded

EvidenceInv ==
    /\ accepted \subseteq offered
    /\ outcome.claims \subseteq offered

FeedsInv ==
    /\ pc = "recovery" => recovered
    /\ pc = "settle" => recovered \/ now >= Budget \/ ~Recovery

ResearchInv == ResearchTypeOK /\ TimeInv /\ EvidenceInv /\ FeedsInv /\ FullIsEarned /\ LastResortIsTried

LEMMA SearchTimes ==
  ASSUME NEW time \in SearchTime
  PROVE  time \in Nat /\ time > 0
  BY ResearchAssumption DEF ResearchAssumption

\* A call that begins inside the budget ends no more than its own length after it.
LEMMA OneCallLonger ==
  ASSUME now \in Nat, now < Budget, NEW time \in SearchTime, now' = now + time
  PROVE  now' \in Nat /\ RunIsBounded'
  <1>1. time \in Nat /\ Budget \in Nat
    BY SearchTimes, ResearchAssumption DEF ResearchAssumption
  <1>2. now' <= Budget + time
    BY <1>1
  <1> QED
    BY <1>1, <1>2 DEF RunIsBounded

LEMMA CoveredIsFull ==
  ASSUME NEW claims \in SUBSET Claim, Covered(claims)
  PROVE  LET dated == {c \in claims : c.standing = "current"} IN
         /\ Cardinality(dated) >= MinClaims
         /\ Cardinality({c.publisher : c \in dated}) >= MinPublishers
         /\ \A kind \in {"structural", "development"} : \E c \in dated : c.kind = kind
  <1> DEFINE dated == {c \in claims : c.standing = "current"}
  <1>1. {c \in claims : ProvesCurrent(c)} = dated
    BY DEF ProvesCurrent
  <1>2. /\ Cardinality(dated) >= MinClaims
        /\ Cardinality({c.publisher : c \in dated}) >= MinPublishers
        /\ {c.kind : c \in dated} = {"structural", "development"}
    BY <1>1 DEF Covered
  <1>3. ASSUME NEW kind \in {"structural", "development"} PROVE \E c \in dated : c.kind = kind
    BY <1>2
  <1> QED
    BY <1>2, <1>3

LEMMA RetainedAreClaims ==
  ASSUME NEW batch \in Batch
  PROVE  Retained(batch) \in SUBSET Claim
  BY DEF Retained, Batch

LEMMA FeedBatches ==
  ASSUME NEW batch \in FeedBatch
  PROVE  batch \in Batch
  BY DEF FeedBatch

LEMMA MergeAdds ==
  ASSUME NEW batch \in Batch, Merge(batch), accepted \in SUBSET Claim, rejected \in BOOLEAN
  PROVE  /\ accepted' \in SUBSET Claim /\ rejected' \in BOOLEAN
         /\ accepted \subseteq accepted' /\ accepted' \subseteq accepted \union Retained(batch)
  BY RetainedAreClaims DEF Merge

LEMMA ResearchInitInv == ResearchInit => ResearchInv
  <1> SUFFICES ASSUME ResearchInit PROVE ResearchInv
    OBVIOUS
  <1> USE DEF ResearchInit, Undecided
  <1>1. Budget \in Nat \ {0} /\ Recovery \in BOOLEAN
    BY ResearchAssumption DEF ResearchAssumption
  <1>2. PICK time \in SearchTime : time \in Nat
    BY ResearchAssumption, SearchTimes DEF ResearchAssumption
  <1>3. ResearchTypeOK
    <2>1. outcome.claims = {}
      OBVIOUS
    <2>2. 1 \in Nat \ {0} /\ 0 \in Nat
      OBVIOUS
    <2>3. outcome = Undecided
      OBVIOUS
    <2> QED
      BY <2>1, <2>2, <2>3 DEF ResearchTypeOK
  <1>4. now <= Budget + time
    BY <1>1, <1>2
  <1>5. TimeInv
    BY <1>1, <1>2, <1>4 DEF TimeInv, RunIsBounded
  <1>6. EvidenceInv /\ FeedsInv /\ FullIsEarned /\ LastResortIsTried
    BY DEF EvidenceInv, FeedsInv, FullIsEarned, LastResortIsTried
  <1> QED
    BY <1>3, <1>5, <1>6 DEF ResearchInv

\* What a step must show of an outcome that is not yet there.
LEMMA StillOpen ==
  ASSUME outcome' = Undecided
  PROVE  /\ FullIsEarned' /\ LastResortIsTried'
         /\ outcome'.claims = {}
  BY DEF FullIsEarned, LastResortIsTried, Undecided

LEMMA BeginAttemptKeeps == ResearchInv /\ BeginAttempt => ResearchInv'
  <1> SUFFICES ASSUME ResearchInv, BeginAttempt PROVE ResearchInv'
    OBVIOUS
  <1> USE DEF BeginAttempt
  <1>1. ResearchTypeOK /\ TimeInv /\ EvidenceInv /\ pc = "attempt" /\ outcome = Undecided
    BY DEF ResearchInv, ResearchTypeOK
  <1>2. Budget \in Nat \ {0}
    BY ResearchAssumption DEF ResearchAssumption
  <1>3. ResearchTypeOK'
    BY <1>1 DEF ResearchTypeOK
  <1>4. pc' \in {"search", "recover"} /\ (pc' = "search" => now < Budget)
    BY <1>1, <1>2 DEF TimeInv, ResearchTypeOK
  <1>5. TimeInv'
    BY <1>1, <1>4 DEF TimeInv, RunIsBounded
  <1>6. EvidenceInv' /\ FeedsInv'
    BY <1>1, <1>4 DEF EvidenceInv, FeedsInv
  <1> QED
    BY <1>1, <1>3, <1>5, <1>6, StillOpen DEF ResearchInv

LEMMA SearchReturnsKeeps == ResearchInv /\ SearchReturns => ResearchInv'
  <1> SUFFICES ASSUME ResearchInv, SearchReturns PROVE ResearchInv'
    OBVIOUS
  <1>1. ResearchTypeOK /\ TimeInv /\ EvidenceInv /\ pc = "search" /\ outcome = Undecided
    BY DEF ResearchInv, ResearchTypeOK, SearchReturns
  <1>2. PICK batch \in Batch, time \in SearchTime :
          /\ now' = now + time
          /\ offered' = offered \union Retained(batch)
          /\ Merge(batch)
    BY DEF SearchReturns
  <1>3. now' \in Nat /\ RunIsBounded'
    BY <1>1, <1>2, OneCallLonger DEF ResearchTypeOK, TimeInv
  <1>4. /\ accepted' \in SUBSET Claim /\ rejected' \in BOOLEAN /\ offered' \in SUBSET Claim
        /\ accepted' \subseteq offered'
    BY <1>1, <1>2, MergeAdds, RetainedAreClaims DEF ResearchTypeOK, EvidenceInv
  <1>5. Qualifying(accepted') \subseteq accepted'
    BY <1>4, QualifyingIsUsable DEF Usable
  <1>6. UNCHANGED <<attempt, failure, exhausted, allow, recovered>>
    BY DEF SearchReturns
  <1>7. \/ pc' \in {"retry", "recover"} /\ outcome' = outcome
        \/ Covered(Qualifying(accepted')) /\ Finish("full", Qualifying(accepted'), "none")
        \/ Finish("reduced", Qualifying(accepted'), "none")
    BY DEF SearchReturns
  <1>8. CASE pc' \in {"retry", "recover"} /\ outcome' = outcome
    <2>1. ResearchTypeOK'
      BY <1>1, <1>3, <1>4, <1>6, <1>8 DEF ResearchTypeOK
    <2>2. TimeInv' /\ EvidenceInv' /\ FeedsInv'
      BY <1>1, <1>3, <1>4, <1>8, StillOpen DEF TimeInv, EvidenceInv, FeedsInv
    <2> QED
      BY <1>1, <1>8, <2>1, <2>2, StillOpen DEF ResearchInv
  <1>9. CASE Covered(Qualifying(accepted')) /\ Finish("full", Qualifying(accepted'), "none")
    <2>1. pc' = "over" /\ outcome'.claims = Qualifying(accepted') /\ outcome'.tier = "full"
      BY <1>9 DEF Finish
    <2>2. ResearchTypeOK'
      BY <1>1, <1>3, <1>4, <1>5, <1>6, <2>1 DEF ResearchTypeOK
    <2>3. TimeInv' /\ EvidenceInv' /\ FeedsInv' /\ LastResortIsTried'
      BY <1>3, <1>4, <1>5, <2>1 DEF TimeInv, EvidenceInv, FeedsInv, LastResortIsTried
    <2>4. FullIsEarned'
      BY <1>4, <1>5, <1>9, <2>1, CoveredIsFull DEF FullIsEarned
    <2> QED
      BY <2>2, <2>3, <2>4 DEF ResearchInv
  <1>10. CASE Finish("reduced", Qualifying(accepted'), "none")
    <2>1. pc' = "over" /\ outcome'.claims = Qualifying(accepted') /\ outcome'.tier = "reduced"
      BY <1>10 DEF Finish
    <2>2. ResearchTypeOK'
      BY <1>1, <1>3, <1>4, <1>5, <1>6, <2>1 DEF ResearchTypeOK
    <2>3. TimeInv' /\ EvidenceInv' /\ FeedsInv' /\ LastResortIsTried' /\ FullIsEarned'
      BY <1>3, <1>4, <1>5, <2>1 DEF TimeInv, EvidenceInv, FeedsInv, LastResortIsTried, FullIsEarned
    <2> QED
      BY <2>2, <2>3 DEF ResearchInv
  <1> QED
    BY <1>7, <1>8, <1>9, <1>10

LEMMA SearchFailsKeeps == ResearchInv /\ SearchFails => ResearchInv'
  <1> SUFFICES ASSUME ResearchInv, SearchFails PROVE ResearchInv'
    OBVIOUS
  <1>1. ResearchTypeOK /\ TimeInv /\ EvidenceInv /\ pc = "search" /\ outcome = Undecided
    BY DEF ResearchInv, ResearchTypeOK, SearchFails
  <1>2. /\ \E time \in SearchTime : now' = now + time
        /\ failure' \in Failure /\ pc' \in {"retry", "recover"}
        /\ UNCHANGED <<attempt, accepted, rejected, exhausted, allow, recovered, offered, outcome>>
    BY DEF SearchFails
  <1>3. now' \in Nat /\ RunIsBounded'
    BY <1>1, <1>2, OneCallLonger DEF ResearchTypeOK, TimeInv
  <1>4. ResearchTypeOK'
    BY <1>1, <1>2, <1>3 DEF ResearchTypeOK
  <1>5. TimeInv' /\ EvidenceInv' /\ FeedsInv'
    BY <1>1, <1>2, <1>3 DEF TimeInv, EvidenceInv, FeedsInv
  <1> QED
    BY <1>1, <1>2, <1>4, <1>5, StillOpen DEF ResearchInv

LEMMA CallBreaksKeeps == ResearchInv /\ CallBreaks => ResearchInv'
  <1> SUFFICES ASSUME ResearchInv, CallBreaks PROVE ResearchInv'
    OBVIOUS
  <1>1. ResearchTypeOK /\ TimeInv /\ EvidenceInv /\ pc \in {"search", "recovery"}
    BY DEF ResearchInv, CallBreaks
  <1>2. /\ \E time \in SearchTime : now' = now + time
        /\ pc' = "over" /\ outcome'.tier = "failed" /\ outcome'.claims = {} /\ Broken'
        /\ UNCHANGED <<attempt, accepted, rejected, failure, exhausted, allow, recovered, offered>>
    BY DEF CallBreaks, Finish, Broken
  <1>3. now' \in Nat /\ RunIsBounded'
    BY <1>1, <1>2, OneCallLonger DEF ResearchTypeOK, TimeInv
  <1>4. ResearchTypeOK'
    BY <1>1, <1>2, <1>3 DEF ResearchTypeOK
  <1>5. TimeInv' /\ EvidenceInv' /\ FeedsInv' /\ FullIsEarned' /\ LastResortIsTried'
    BY <1>1, <1>2, <1>3 DEF TimeInv, EvidenceInv, FeedsInv, FullIsEarned, LastResortIsTried
  <1> QED
    BY <1>4, <1>5 DEF ResearchInv

LEMMA PrepareRetryKeeps == ResearchInv /\ PrepareRetry => ResearchInv'
  <1> SUFFICES ASSUME ResearchInv, PrepareRetry PROVE ResearchInv'
    OBVIOUS
  <1>1. ResearchTypeOK /\ TimeInv /\ EvidenceInv /\ pc = "retry" /\ outcome = Undecided
    BY DEF ResearchInv, ResearchTypeOK, PrepareRetry
  <1>2. UNCHANGED <<accepted, rejected, failure, allow, recovered, offered, outcome>>
    BY DEF PrepareRetry
  <1>3. /\ pc' \in {"recover", "attempt"} /\ now' \in Nat /\ RunIsBounded'
        /\ attempt' \in Nat \ {0} /\ exhausted' \in BOOLEAN
        /\ pc' = "attempt" => now' <= Budget /\ attempt' # 1
    <2>1. CASE now >= Budget
      BY <1>1, <2>1 DEF PrepareRetry, ResearchTypeOK, TimeInv, RunIsBounded
    <2>2. CASE ~(now >= Budget)
      <3>1. PICK delay \in Delay : now' = now + Least(delay, Budget - now)
        BY <2>2 DEF PrepareRetry
      <3>2. delay \in Nat /\ Budget \in Nat /\ now \in Nat /\ attempt \in Nat \ {0}
        BY <1>1, ResearchAssumption DEF ResearchAssumption, ResearchTypeOK
      <3>3. now' \in Nat /\ now' <= Budget
        BY <2>2, <3>1, <3>2 DEF Least
      <3>4. PICK longest \in SearchTime : longest \in Nat
        BY SearchTimes, ResearchAssumption DEF ResearchAssumption
      <3>5. now' <= Budget + longest
        BY <3>2, <3>3, <3>4
      <3>6. attempt' \in Nat \ {0} /\ attempt' # 1 /\ pc' = "attempt" /\ exhausted' = exhausted
        BY <2>2, <3>2 DEF PrepareRetry
      <3> QED
        BY <1>1, <3>3, <3>4, <3>5, <3>6 DEF RunIsBounded, ResearchTypeOK
    <2> QED
      BY <2>1, <2>2
  <1>4. ResearchTypeOK'
    BY <1>1, <1>2, <1>3 DEF ResearchTypeOK
  <1>5. TimeInv' /\ EvidenceInv' /\ FeedsInv'
    BY <1>1, <1>2, <1>3 DEF TimeInv, EvidenceInv, FeedsInv
  <1> QED
    BY <1>1, <1>2, <1>4, <1>5, StillOpen DEF ResearchInv

LEMMA BeginRecoveryKeeps == ResearchInv /\ BeginRecovery => ResearchInv'
  <1> SUFFICES ASSUME ResearchInv, BeginRecovery PROVE ResearchInv'
    OBVIOUS
  <1>1. ResearchTypeOK /\ TimeInv /\ EvidenceInv /\ pc = "recover" /\ outcome = Undecided
    BY DEF ResearchInv, ResearchTypeOK, BeginRecovery
  <1>2. UNCHANGED <<attempt, now, accepted, rejected, failure, exhausted, allow, offered, outcome>>
    BY DEF BeginRecovery
  <1>3. /\ pc' \in {"recovery", "settle"} /\ recovered' \in BOOLEAN
        /\ pc' = "recovery" => now < Budget /\ recovered'
        /\ pc' = "settle" => ~(now < Budget /\ Recovery)
    BY <1>1 DEF BeginRecovery, ResearchTypeOK
  <1>4. Budget \in Nat /\ now \in Nat
    BY <1>1, ResearchAssumption DEF ResearchAssumption, ResearchTypeOK
  <1>5. ResearchTypeOK'
    BY <1>1, <1>2, <1>3 DEF ResearchTypeOK
  <1>6. TimeInv' /\ EvidenceInv'
    BY <1>1, <1>2, <1>3 DEF TimeInv, EvidenceInv, RunIsBounded
  <1>7. FeedsInv'
    BY <1>2, <1>3, <1>4 DEF FeedsInv
  <1> QED
    BY <1>1, <1>2, <1>5, <1>6, <1>7, StillOpen DEF ResearchInv

LEMMA RecoveryReturnsKeeps == ResearchInv /\ RecoveryReturns => ResearchInv'
  <1> SUFFICES ASSUME ResearchInv, RecoveryReturns PROVE ResearchInv'
    OBVIOUS
  <1>1. ResearchTypeOK /\ TimeInv /\ EvidenceInv /\ pc = "recovery" /\ outcome = Undecided
    BY DEF ResearchInv, ResearchTypeOK, RecoveryReturns
  <1>2. /\ UNCHANGED <<attempt, failure, allow, recovered>>
        /\ \E time \in SearchTime : now' = now + time
        /\ exhausted' = (exhausted \/ now' >= Budget)
    BY DEF RecoveryReturns
  <1>3. now' \in Nat /\ RunIsBounded'
    BY <1>1, <1>2, OneCallLonger DEF ResearchTypeOK, TimeInv
  <1>4. exhausted' \in BOOLEAN
    BY <1>2
  <1>5. recovered'
    BY <1>1, <1>2 DEF ResearchInv, FeedsInv
  <1>6. CASE pc' = "settle" /\ UNCHANGED <<accepted, rejected, offered, outcome>> /\ ~(now' < Budget)
    <2>1. ResearchTypeOK'
      BY <1>1, <1>2, <1>3, <1>4, <1>6 DEF ResearchTypeOK
    <2>2. now' >= Budget
      BY <1>3, <1>6, ResearchAssumption DEF ResearchAssumption
    <2>3. TimeInv' /\ EvidenceInv' /\ FeedsInv'
      BY <1>1, <1>3, <1>6, <2>2 DEF TimeInv, EvidenceInv, FeedsInv
    <2> QED
      BY <1>1, <1>6, <2>1, <2>3, StillOpen DEF ResearchInv
  <1>7. CASE now' < Budget /\ \E batch \in FeedBatch :
               /\ Merge(batch)
               /\ offered' = offered \union Retained(batch)
               /\ LET qualifying == Qualifying(accepted') IN
                    IF Covered(qualifying) THEN Finish("full", qualifying, "none")
                    ELSE pc' = "settle" /\ UNCHANGED outcome
    <2>1. PICK batch \in FeedBatch :
            /\ Merge(batch)
            /\ offered' = offered \union Retained(batch)
            /\ \/ Covered(Qualifying(accepted')) /\ Finish("full", Qualifying(accepted'), "none")
               \/ pc' = "settle" /\ outcome' = outcome
      BY <1>7
    <2>2. /\ accepted' \in SUBSET Claim /\ rejected' \in BOOLEAN /\ offered' \in SUBSET Claim
          /\ accepted' \subseteq offered'
      BY <1>1, <2>1, FeedBatches, MergeAdds, RetainedAreClaims DEF ResearchTypeOK, EvidenceInv
    <2>3. Qualifying(accepted') \subseteq accepted'
      BY <2>2, QualifyingIsUsable DEF Usable
    <2>4. CASE Covered(Qualifying(accepted')) /\ Finish("full", Qualifying(accepted'), "none")
      <3>1. pc' = "over" /\ outcome'.claims = Qualifying(accepted') /\ outcome'.tier = "full"
        BY <2>4 DEF Finish
      <3>2. ResearchTypeOK'
        BY <1>1, <1>2, <1>3, <1>4, <2>2, <2>3, <3>1 DEF ResearchTypeOK
      <3>3. TimeInv' /\ EvidenceInv' /\ FeedsInv' /\ LastResortIsTried'
        BY <1>3, <2>2, <2>3, <3>1 DEF TimeInv, EvidenceInv, FeedsInv, LastResortIsTried
      <3>4. FullIsEarned'
        BY <2>2, <2>3, <2>4, <3>1, CoveredIsFull DEF FullIsEarned
      <3> QED
        BY <3>2, <3>3, <3>4 DEF ResearchInv
    <2>5. CASE pc' = "settle" /\ outcome' = outcome
      <3>1. ResearchTypeOK'
        BY <1>1, <1>2, <1>3, <1>4, <2>2, <2>5 DEF ResearchTypeOK
      <3>2. TimeInv' /\ EvidenceInv'
        BY <1>1, <1>3, <2>2, <2>5, StillOpen DEF TimeInv, EvidenceInv
      <3> QED
        BY <1>1, <1>5, <2>5, <3>1, <3>2, StillOpen DEF ResearchInv, FeedsInv
    <2> QED
      BY <2>1, <2>4, <2>5
  <1> QED
    BY <1>6, <1>7 DEF RecoveryReturns

LEMMA RecoveryFailsKeeps == ResearchInv /\ RecoveryFails => ResearchInv'
  <1> SUFFICES ASSUME ResearchInv, RecoveryFails PROVE ResearchInv'
    OBVIOUS
  <1>1. ResearchTypeOK /\ TimeInv /\ EvidenceInv /\ pc = "recovery" /\ outcome = Undecided /\ recovered
    BY DEF ResearchInv, ResearchTypeOK, FeedsInv, RecoveryFails
  <1>2. /\ UNCHANGED <<attempt, accepted, rejected, allow, recovered, offered, outcome>>
        /\ \E time \in SearchTime : now' = now + time
        /\ exhausted' = (exhausted \/ now' >= Budget)
        /\ failure' \in Failure /\ pc' = "settle"
    BY DEF RecoveryFails
  <1>3. now' \in Nat /\ RunIsBounded'
    BY <1>1, <1>2, OneCallLonger DEF ResearchTypeOK, TimeInv
  <1>4. exhausted' \in BOOLEAN
    BY <1>2
  <1>5. ResearchTypeOK'
    BY <1>1, <1>2, <1>3, <1>4 DEF ResearchTypeOK
  <1>6. TimeInv' /\ EvidenceInv' /\ FeedsInv'
    BY <1>1, <1>2, <1>3 DEF TimeInv, EvidenceInv, FeedsInv
  <1> QED
    BY <1>1, <1>2, <1>5, <1>6, StillOpen DEF ResearchInv

LEMMA SettleKeeps == ResearchInv /\ Settle => ResearchInv'
  <1> SUFFICES ASSUME ResearchInv, Settle PROVE ResearchInv'
    OBVIOUS
  <1>1. ResearchTypeOK /\ TimeInv /\ EvidenceInv /\ FeedsInv /\ pc = "settle"
    BY DEF ResearchInv, Settle
  <1>2. /\ UNCHANGED <<attempt, now, accepted, rejected, failure, exhausted, allow, recovered, offered>>
        /\ pc' = "over"
        /\ outcome'.tier \in {"reduced", "document_led", "failed"}
        /\ outcome'.claims \in {{}, Qualifying(accepted)}
    BY DEF Settle, Finish
  <1>3. Qualifying(accepted) \subseteq accepted
    BY <1>1, QualifyingIsUsable DEF Usable, ResearchTypeOK
  <1>4. ResearchTypeOK'
    BY <1>1, <1>2, <1>3 DEF ResearchTypeOK
  <1>5. TimeInv' /\ EvidenceInv' /\ FeedsInv' /\ FullIsEarned'
    BY <1>1, <1>2, <1>3 DEF TimeInv, EvidenceInv, FeedsInv, FullIsEarned, RunIsBounded
  <1>6. now < Budget /\ Recovery => recovered
    BY <1>1, ResearchAssumption DEF FeedsInv, ResearchAssumption, ResearchTypeOK
  <1>7. LastResortIsTried'
    BY <1>2, <1>6 DEF LastResortIsTried
  <1> QED
    BY <1>4, <1>5, <1>7 DEF ResearchInv

LEMMA ResearchStepKeeps == ResearchInv /\ [ResearchNext]_researchVars => ResearchInv'
  <1> SUFFICES ASSUME ResearchInv, [ResearchNext]_researchVars PROVE ResearchInv'
    OBVIOUS
  <1>1. CASE UNCHANGED researchVars
    BY <1>1 DEF researchVars, ResearchInv, ResearchTypeOK, TimeInv, EvidenceInv, FeedsInv,
                FullIsEarned, LastResortIsTried, RunIsBounded, Broken
  <1>2. CASE ResearchNext
    BY <1>2, BeginAttemptKeeps, SearchReturnsKeeps, SearchFailsKeeps, CallBreaksKeeps,
       PrepareRetryKeeps, BeginRecoveryKeeps, RecoveryReturnsKeeps, RecoveryFailsKeeps,
       SettleKeeps DEF ResearchNext
  <1> QED
    BY <1>1, <1>2

\* The inductive invariant holds in every state of a run.
THEOREM ResearchInvHolds == ResearchSpec => []ResearchInv
  <1> QED
    BY ResearchInitInv, ResearchStepKeeps, PTL DEF ResearchSpec

\* However many attempts, failures and waits, the run outlasts its budget by one call at the most.
THEOREM BudgetHolds == ResearchSpec => []RunIsBounded
  <1>1. ResearchInv => RunIsBounded
    BY DEF ResearchInv, TimeInv
  <1> QED
    BY <1>1, ResearchInvHolds, PTL

\* Nothing that came back after the budget reaches the review.
THEOREM LateNeverCounts == ResearchSpec => []LateEvidenceIsRefused
  <1>1. ResearchInv => LateEvidenceIsRefused
    BY DEF ResearchInv, EvidenceInv, LateEvidenceIsRefused
  <1> QED
    BY <1>1, ResearchInvHolds, PTL

\* Evidence is called full for what is handed over, whatever was cut before.
THEOREM FullMeansFull == ResearchSpec => []FullIsEarned
  <1>1. ResearchInv => FullIsEarned
    BY DEF ResearchInv
  <1> QED
    BY <1>1, ResearchInvHolds, PTL

\* A run ends without public evidence only after the feeds were asked or the budget was spent.
THEOREM FeedsAreAsked == ResearchSpec => []LastResortIsTried
  <1>1. ResearchInv => LastResortIsTried
    BY DEF ResearchInv
  <1> QED
    BY <1>1, ResearchInvHolds, PTL

-----------------------------------------------------------------------------
(* Usable claims are used. The controller keeps the first claim of a name  *)
(* (_merge_claims), and each answer chooses its names anew: what it drops  *)
(* stands behind a claim it kept, and where that one is usable, so is what *)
(* the controller holds.                                                   *)

\* What was offered and is usable is held, or stands behind a claim without use.
NothingElseIsLost == \A c \in Usable(offered) : Hidden(c) \/ c \in accepted

HeldWereOffered == \A a \in accepted : a \in Claim /\ a \in offered /\ a.standing # "refused"

\* The search goes on with nothing usable in hand; only dated claims of the feeds are settled.
UsableEndsTheSearch ==
    /\ pc \in {"attempt", "search", "retry", "recover", "recovery"} => Usable(accepted) = {}
    /\ pc = "settle" => \A c \in Usable(accepted) : c.standing = "current"

UsableInv ==
    /\ HeldWereOffered /\ NothingElseIsLost
    /\ UsableEndsTheSearch /\ UsableEvidenceIsUsed

\* A call is made with nothing usable in hand, so a claim that is dropped on account of its
\* name stands behind one without use.
LEMMA MergeLosesNothingElse ==
  ASSUME NEW batch \in Batch, Merge(batch), offered' = offered \union Retained(batch),
         HeldWereOffered, NothingElseIsLost, Usable(accepted) = {}
  PROVE  HeldWereOffered' /\ NothingElseIsLost' /\ accepted' \in SUBSET Claim
  <1>1. Retained(batch) \in SUBSET Claim /\ \A c \in Retained(batch) : c.standing # "refused"
    BY RetainedAreClaims DEF Retained
  <1> DEFINE fresh == {c \in Retained(batch) : \A a \in accepted : a.id # c.id}
  <1>2. accepted' = accepted \union fresh
    BY DEF Merge
  <1>3. HeldWereOffered' /\ accepted' \in SUBSET Claim
    BY <1>1, <1>2 DEF HeldWereOffered
  <1>4. ASSUME NEW c \in Usable(offered'), c \notin accepted' PROVE Hidden(c)'
    <2>1. CASE c \in offered
      <3>1. Hidden(c)
        BY <1>2, <1>4, <2>1 DEF NothingElseIsLost, Usable
      <3> QED
        BY <3>1 DEF Hidden
    <2>2. CASE c \in Retained(batch)
      <3>1. PICK a \in accepted : a.id = c.id
        BY <1>2, <1>4, <2>2
      <3>2. a.standing = "background"
        <4>1. a \in Claim /\ a.standing # "refused" /\ a.standing \notin {"current", "undated"}
          BY <3>1 DEF HeldWereOffered, Usable
        <4> QED
          BY <4>1, ClaimTypes
      <3> QED
        BY <3>1, <3>2 DEF Hidden, HeldWereOffered
    <2> QED
      BY <1>4, <2>1, <2>2 DEF Usable
  <1>5. NothingElseIsLost'
    BY <1>4 DEF NothingElseIsLost, Usable
  <1> QED
    BY <1>3, <1>5

\* Nothing usable is held, what was handed over is not empty, or the run did not end like that.
LEMMA HandedOver ==
  ASSUME \/ NothingElseIsLost' /\ Usable(accepted)' = {}
         \/ outcome'.claims # {} \/ ~Decided' \/ Broken'
  PROVE  UsableEvidenceIsUsed'
  <1>1. CASE NothingElseIsLost' /\ Usable(accepted)' = {}
    <2>1. ASSUME NEW c \in Usable(offered)' PROVE Hidden(c)'
      <3>1. c.standing \in {"current", "undated"}
        BY <2>1 DEF Usable
      <3>2. Hidden(c)' \/ c \in accepted'
        BY <1>1, <2>1 DEF NothingElseIsLost, Usable
      <3>3. c \notin accepted'
        BY <1>1, <3>1 DEF Usable
      <3> QED
        BY <3>2, <3>3
    <2> QED
      BY <2>1 DEF UsableEvidenceIsUsed
  <1> QED
    BY <1>1 DEF UsableEvidenceIsUsed

LEMMA UsableInitInv == ResearchInit => UsableInv
  BY DEF ResearchInit, UsableInv, UsableEndsTheSearch, HeldWereOffered, NothingElseIsLost, Usable,
         UsableEvidenceIsUsed, Decided, Undecided

LEMMA UsableStepKeeps == ResearchInv /\ UsableInv /\ [ResearchNext]_researchVars => UsableInv'
  <1> SUFFICES ASSUME ResearchInv, UsableInv, [ResearchNext]_researchVars PROVE UsableInv'
    OBVIOUS
  <1>1. accepted \in SUBSET Claim /\ (pc # "over" => ~Decided)
    BY DEF ResearchInv, ResearchTypeOK, Decided, Undecided
  <1>2. ASSUME UNCHANGED <<accepted, offered>>
        PROVE  HeldWereOffered' /\ NothingElseIsLost' /\ Usable(accepted)' = Usable(accepted)
    BY <1>2 DEF UsableInv, HeldWereOffered, NothingElseIsLost, Hidden, Usable
  <1>3. ASSUME UNCHANGED <<accepted, offered, outcome>>, UsableEndsTheSearch' PROVE UsableInv'
    <2>1. UsableEvidenceIsUsed'
      BY <1>3 DEF UsableInv, UsableEvidenceIsUsed, Decided, Broken, Hidden, Usable
    <2> QED
      BY <1>2, <1>3, <2>1 DEF UsableInv
  <1>4. CASE UNCHANGED researchVars
    BY <1>3, <1>4 DEF researchVars, UsableInv, UsableEndsTheSearch, Usable
  <1>5. CASE BeginAttempt \/ SearchFails \/ PrepareRetry
    <2>1. /\ UNCHANGED <<accepted, offered, outcome>>
          /\ pc \in {"attempt", "search", "retry"}
          /\ pc' \in {"attempt", "search", "retry", "recover"}
      BY <1>5 DEF BeginAttempt, SearchFails, PrepareRetry
    <2> QED
      BY <1>3, <2>1 DEF UsableInv, UsableEndsTheSearch, Usable
  <1>6. CASE BeginRecovery \/ RecoveryFails
    <2>1. /\ UNCHANGED <<accepted, offered, outcome>>
          /\ pc \in {"recover", "recovery"} /\ pc' \in {"recovery", "settle"}
      BY <1>6 DEF BeginRecovery, RecoveryFails
    <2> QED
      BY <1>3, <2>1 DEF UsableInv, UsableEndsTheSearch, Usable
  <1>7. CASE CallBreaks
    <2>1. UNCHANGED <<accepted, offered>> /\ pc' = "over" /\ Broken'
      BY <1>7 DEF CallBreaks, Finish, Broken
    <2>2. UsableEvidenceIsUsed'
      BY <2>1, HandedOver
    <2> QED
      BY <1>2, <2>1, <2>2 DEF UsableInv, UsableEndsTheSearch
  <1>8. CASE SearchReturns
    <2>1. PICK batch \in Batch : offered' = offered \union Retained(batch) /\ Merge(batch)
      BY <1>8 DEF SearchReturns
    <2>2. Usable(accepted) = {}
      BY <1>8 DEF SearchReturns, UsableInv, UsableEndsTheSearch
    <2>3. HeldWereOffered' /\ NothingElseIsLost' /\ accepted' \in SUBSET Claim
      BY <2>1, <2>2, MergeLosesNothingElse DEF UsableInv, UsableEndsTheSearch
    <2>4. CASE Qualifying(accepted') # {}
      <3>1. pc' = "over" /\ outcome'.claims = Qualifying(accepted')
        BY <1>8, <2>4 DEF SearchReturns, Finish
      <3>2. UsableEvidenceIsUsed'
        BY <2>4, <3>1, HandedOver
      <3> QED
        BY <2>3, <3>1, <3>2 DEF UsableInv, UsableEndsTheSearch
    <2>5. CASE Qualifying(accepted') = {}
      <3>1. Usable(accepted') = {}
        BY <2>3, <2>5, QualifyingIsUsable
      <3>2. ~Covered({})
        BY DEF Covered
      <3>3. pc' \in {"retry", "recover"}
        BY <1>8, <2>5, <3>2 DEF SearchReturns
      <3>4. Usable(accepted)' = {}
        BY <3>1 DEF Usable
      <3>5. UsableEvidenceIsUsed'
        BY <2>3, <3>4, HandedOver
      <3> QED
        BY <2>3, <3>3, <3>4, <3>5 DEF UsableInv, UsableEndsTheSearch
    <2> QED
      BY <2>4, <2>5
  <1>9. CASE RecoveryReturns
    <2>1. Usable(accepted) = {} /\ ~Decided
      BY <1>1, <1>9 DEF RecoveryReturns, UsableInv, UsableEndsTheSearch
    <2>2. CASE ~(now' < Budget)
      <3>1. UNCHANGED <<accepted, offered, outcome>> /\ pc' = "settle"
        BY <1>9, <2>2 DEF RecoveryReturns
      <3> QED
        BY <1>3, <2>1, <3>1 DEF UsableInv, UsableEndsTheSearch, Usable
    <2>3. CASE now' < Budget
      <3>1. PICK batch \in FeedBatch :
              /\ Merge(batch)
              /\ offered' = offered \union Retained(batch)
              /\ \/ Covered(Qualifying(accepted')) /\ Finish("full", Qualifying(accepted'), "none")
                 \/ pc' = "settle" /\ outcome' = outcome
        BY <1>9, <2>3 DEF RecoveryReturns
      <3>2. HeldWereOffered' /\ NothingElseIsLost'
        BY <2>1, <3>1, MergeLosesNothingElse, FeedBatches DEF UsableInv, UsableEndsTheSearch
      <3>3. CASE Covered(Qualifying(accepted')) /\ Finish("full", Qualifying(accepted'), "none")
        <4>1. ~Covered({})
          BY DEF Covered
        <4>2. pc' = "over" /\ outcome'.claims # {}
          BY <3>3, <4>1 DEF Finish
        <4>3. UsableEvidenceIsUsed'
          BY <4>2, HandedOver
        <4> QED
          BY <3>2, <4>2, <4>3 DEF UsableInv, UsableEndsTheSearch
      <3>4. CASE pc' = "settle" /\ outcome' = outcome
        <4>1. ASSUME NEW c \in Usable(accepted') PROVE c.standing = "current"
          <5>1. c \in Retained(batch) /\ c.standing \in {"current", "undated"}
            BY <2>1, <3>1 DEF Merge, Usable
          <5> QED
            BY <5>1 DEF Retained, FeedBatch
        <4>2. UsableEvidenceIsUsed'
          BY <2>1, <3>4 DEF UsableEvidenceIsUsed, Decided
        <4> QED
          BY <3>2, <3>4, <4>1, <4>2 DEF UsableInv, UsableEndsTheSearch, Usable
      <3> QED
        BY <3>1, <3>3, <3>4
    <2> QED
      BY <2>2, <2>3
  <1>10. CASE Settle
    <2>1. UNCHANGED <<accepted, offered>> /\ pc = "settle" /\ pc' = "over"
      BY <1>10 DEF Settle, Finish
    <2>2. \A c \in Usable(accepted) : c.standing = "current"
      BY <2>1 DEF UsableInv, UsableEndsTheSearch
    <2>3. Usable(accepted) = {} \/ outcome'.claims # {}
      <3>1. CASE \E c \in Qualifying(accepted) : c.standing = "current"
        BY <1>10, <3>1 DEF Settle, Finish
      <3>2. CASE ~\E c \in Qualifying(accepted) : c.standing = "current"
        <4>1. Qualifying(accepted) = {}
          BY <1>1, <2>2, <3>2, QualifyingIsUsable
        <4> QED
          BY <1>1, <4>1, QualifyingIsUsable
      <3> QED
        BY <3>1, <3>2
    <2>4. UsableEvidenceIsUsed'
      BY <1>2, <2>1, <2>3, HandedOver
    <2> QED
      BY <1>2, <2>1, <2>4 DEF UsableInv, UsableEndsTheSearch
  <1> QED
    BY <1>4, <1>5, <1>6, <1>7, <1>8, <1>9, <1>10 DEF ResearchNext

\* No review rests on its documents alone, and none fails, with a usable claim in hand.
THEOREM ClaimsInHandAreUsed == ResearchSpec => []UsableEvidenceIsUsed
  <1>1. UsableInv => UsableEvidenceIsUsed
    BY DEF UsableInv
  <1> QED
    BY <1>1, ResearchInvHolds, UsableInitInv, UsableStepKeeps, PTL DEF ResearchSpec
===============================================================================
