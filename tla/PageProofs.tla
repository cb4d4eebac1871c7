----------------------------- MODULE PageProofs -----------------------------
(***************************************************************************)
(* Proofs about the page: whatever answers arrive, in any order and at any *)
(* time, for any number of reviews, operations, messages and files.        *)
(***************************************************************************)
EXTENDS Page, TLAPS

-----------------------------------------------------------------------------
(* The inductive invariant. Of the requests in flight at most one belongs  *)
(* to what the page does now, and nothing else may end a progress view; an *)
(* answer of the assistant in flight for the current review is the one     *)
(* that is streaming.                                                      *)

OperationKind == {"submit", "restore", "result", "retry", "correct", "delete"}

RequestKind == OperationKind \union {"detect", "history", "message"}

Request == [kind : RequestKind, epoch : Nat, review : Nat, n : Nat]

Source == [op : Nat, review : Nat, errors : Nat, refused : BOOLEAN]

PageTypeOK ==
    /\ view \in {"landing", "progress", "results", "stopped", "recovery"}
    /\ operation \in Nat /\ created \in Nat
    /\ review \in 0 .. created /\ stored \in 0 .. created /\ shown \in 0 .. created
    /\ source \in Source
    /\ requests \subseteq Request
    /\ buttons \in [resetPending : BOOLEAN, correctOff : BOOLEAN, retryOff : BOOLEAN]
    /\ assistant \in [history : Nat, request : Nat, streaming : BOOLEAN, sendOff : BOOLEAN]
    /\ chat \subseteq Nat
    /\ intake \in [file : Nat, country : Nat, epoch : Nat, pending : BOOLEAN, confirm : BOOLEAN]
    /\ erased \subseteq 1 .. created

Operates(r) == r.kind \in OperationKind

\* The request of what the page does now.
Running(r) == Operates(r) /\ Current(r)

OneOperation ==
    /\ \A r \in requests : Operates(r) => r.epoch <= operation
    /\ \A r, s \in requests : Running(r) /\ Running(s) => r = s
    /\ Active => \A r \in requests : ~Running(r)

\* It fits the view and the review.
RunningFits ==
    \A r \in requests : Running(r) =>
        /\ r.kind \in {"submit", "restore", "result"} => view = "progress"
        /\ r.kind = "retry" => view = "recovery"
        /\ r.kind = "correct" => view = "results"
        /\ r.kind = "delete" => view = "landing"
        /\ r.kind \in {"restore", "result", "retry", "correct"} => r.review = review /\ review # NoReview

\* The parts of ScreenMatchesOperation.
ProgressInv ==
    view = "progress" =>
        \/ Active
        \/ \E r \in requests : r.kind \in {"submit", "restore", "result"} /\ Current(r)

SourceInv ==
    source # NoSource =>
        view = "progress" /\ source.op = operation /\ source.review = review /\ review # NoReview

ResultsInv == view = "results" => shown = review /\ review # NoReview

CountryInv == intake.country \in {0, intake.file}

ErasedInv ==
    /\ review \notin erased /\ stored \notin erased /\ shown \notin erased
    /\ source.review \notin erased /\ chat \intersect erased = {}

\* While a detection of the chosen file is under way the form cannot be left.
DetectionInv ==
    /\ \A r \in requests : r.kind = "detect" =>
          /\ r.epoch <= intake.epoch
          /\ r.epoch = intake.epoch => intake.pending /\ r.review = intake.file
    /\ \A r, s \in requests :
          r.kind = "detect" /\ s.kind = "detect" /\ r.epoch = intake.epoch /\ s.epoch = intake.epoch => r = s
    /\ intake.pending => view = "landing"

MessageInv ==
    /\ \A r \in requests : r.kind = "message" =>
          /\ r.review \in 1 .. created
          /\ r.review = review => assistant.streaming /\ r.epoch = assistant.request
    /\ \A r, s \in requests :
          r.kind = "message" /\ s.kind = "message" /\ r.review = review /\ s.review = review => r = s

StreamingInv ==
    assistant.streaming =>
        /\ assistant.sendOff /\ view \in {"results", "stopped"}
        /\ \E r \in requests : r.kind = "message" /\ MessageIsCurrent(r)

HistoryInv ==
    view = "results" /\ assistant.sendOff /\ ~assistant.streaming =>
        \E r \in requests : r.kind = "history" /\ HistoryIsCurrent(r)

\* The four concerns of the page.
OperationInv == OneOperation /\ RunningFits /\ ProgressInv /\ SourceInv /\ ResultsInv
FormInv == CountryInv /\ DetectionInv
ChatInv == MessageInv /\ StreamingInv /\ HistoryInv

PageInv == PageTypeOK /\ OperationInv /\ ErasedInv /\ FormInv /\ ChatInv

-----------------------------------------------------------------------------
(* What a step that does not concern itself with one of them leaves.       *)

Same(kinds) ==
    \A q \in requests \union requests' : q.kind \in kinds => (q \in requests <=> q \in requests')

LEMMA OperationFrame ==
  ASSUME OperationInv, Same(OperationKind), UNCHANGED <<view, review, shown, operation, source>>
  PROVE  OperationInv'
  <1> USE DEF OperationInv, Same, OperationKind, Running, Operates, Current
  <1>1. OneOperation'
    BY DEF OneOperation, Active
  <1>2. RunningFits'
    BY DEF RunningFits
  <1>3. ProgressInv'
    BY DEF ProgressInv, Active
  <1>4. SourceInv' /\ ResultsInv'
    BY DEF SourceInv, ResultsInv
  <1> QED
    BY <1>1, <1>2, <1>3, <1>4

LEMMA ErasedFrame ==
  ASSUME ErasedInv, UNCHANGED <<review, stored, shown, source, chat, erased>>
  PROVE  ErasedInv'
  BY DEF ErasedInv

LEMMA FormFrame ==
  ASSUME FormInv, Same({"detect"}), UNCHANGED intake,
         intake.pending => view' = "landing"
  PROVE  FormInv'
  <1>1. CountryInv'
    BY DEF FormInv, CountryInv
  <1>2. DetectionInv'
    BY DEF FormInv, DetectionInv, Same
  <1> QED
    BY <1>1, <1>2 DEF FormInv

LEMMA ChatFrame ==
  ASSUME ChatInv, Same({"message", "history"}), UNCHANGED <<assistant, review>>,
         created \in Nat, created' \in Nat, created <= created',
         view' = "results" => view = "results",
         assistant.streaming => view' \in {"results", "stopped"}
  PROVE  ChatInv'
  <1> USE DEF ChatInv, Same, MessageIsCurrent, HistoryIsCurrent
  <1>1. MessageInv'
    BY DEF MessageInv
  <1>2. StreamingInv'
    BY DEF StreamingInv
  <1>3. HistoryInv'
    BY DEF HistoryInv
  <1> QED
    BY <1>1, <1>2, <1>3

\* While a request of the operation runs, no source is watched.
LEMMA RunningExcludesSource ==
  ASSUME OperationInv, NEW r \in requests, Running(r)
  PROVE  source = NoSource
  BY DEF OperationInv, OneOperation, SourceInv, Active

\* With its answer nothing of the operation is left in flight.
LEMMA OperationAnswered ==
  ASSUME OperationInv, NEW r \in requests, Running(r), operation' = operation,
         \A q \in requests' : Operates(q) => q \in requests /\ q # r
  PROVE  /\ \A q \in requests' : ~Running(q)'
         /\ OneOperation' /\ RunningFits'
  <1>1. \A q \in requests' : Operates(q) => q.epoch <= operation
    BY DEF OperationInv, OneOperation
  <1>2. ASSUME NEW q \in requests' PROVE ~Running(q)'
    BY DEF OperationInv, OneOperation, Running, Operates, Current
  <1>3. OneOperation'
    BY <1>1, <1>2 DEF OneOperation, Operates, OperationKind
  <1>4. RunningFits'
    BY <1>2 DEF RunningFits
  <1> QED
    BY <1>2, <1>3, <1>4

\* A new operation makes what is in flight late.
LEMMA OperationBegun ==
  ASSUME OperationInv, operation \in Nat, operation' = operation + 1, source' = NoSource,
         \A q \in requests : q.epoch \in Nat, NEW ask,
         \A q \in requests' : Operates(q) => q \in requests \/ q = ask,
         ask.epoch = operation',
         /\ ask.kind \in {"submit", "restore", "result"} => view' = "progress"
         /\ ask.kind = "retry" => view' = "recovery"
         /\ ask.kind = "correct" => view' = "results"
         /\ ask.kind = "delete" => view' = "landing"
         /\ ask.kind \in {"restore", "result", "retry", "correct"} =>
               ask.review = review' /\ review' # NoReview
  PROVE  OneOperation' /\ RunningFits' /\ SourceInv'
  <1>1. ASSUME NEW q \in requests', Running(q)' PROVE q = ask
    <2>1. Operates(q) /\ q.epoch = operation + 1
      BY <1>1 DEF Running, Current, Operates
    <2>2. q \in requests => q.epoch <= operation
      BY <2>1 DEF OperationInv, OneOperation
    <2> QED
      BY <2>1, <2>2
  <1>2. ASSUME NEW q \in requests', Operates(q) PROVE q.epoch <= operation'
    <2>1. q \in requests => q.epoch <= operation
      BY <1>2 DEF OperationInv, OneOperation
    <2> QED
      BY <1>2, <2>1
  <1>3. OneOperation'
    BY <1>1, <1>2 DEF OneOperation, Operates, Active
  <1>4. RunningFits'
    BY <1>1 DEF RunningFits
  <1>5. SourceInv'
    BY DEF SourceInv
  <1> QED
    BY <1>3, <1>4, <1>5

-----------------------------------------------------------------------------
(* The records a handler makes. *)

LEMMA AskIs ==
  ASSUME NEW kind \in RequestKind, NEW epoch \in Nat, NEW id \in Nat, NEW n \in Nat
  PROVE  /\ Ask(kind, epoch, id, n) \in Request
         /\ Ask(kind, epoch, id, n).kind = kind /\ Ask(kind, epoch, id, n).epoch = epoch
         /\ Ask(kind, epoch, id, n).review = id /\ Ask(kind, epoch, id, n).n = n
  BY DEF Ask, Request

LEMMA SourceIs ==
  ASSUME NEW op \in Nat, NEW id \in Nat
  PROVE  /\ Watching(op, id) \in Source
         /\ Watching(op, id).op = op /\ Watching(op, id).review = id
         /\ id # NoReview => Watching(op, id) # NoSource
         /\ NoSource \in Source /\ NoSource.review = NoReview
  BY DEF Watching, NoSource, NoReview, Source

LEMMA RequestFields ==
  ASSUME NEW r \in Request
  PROVE  r.kind \in RequestKind /\ r.epoch \in Nat /\ r.review \in Nat /\ r.n \in Nat
  BY DEF Request

-----------------------------------------------------------------------------
(* The form. *)

LEMMA ChooseFileKeeps ==
  ASSUME PageInv, NEW file \in Nat, ChooseFile(file)
  PROVE  PageInv'
  <1> DEFINE ask == Ask("detect", intake.epoch + 1, file, 0)
  <1>1. PageTypeOK /\ OperationInv /\ ErasedInv /\ FormInv /\ ChatInv
    BY DEF PageInv
  <1>2. /\ view = "landing"
        /\ UNCHANGED <<view, review, stored, shown, operation, source, buttons, assistant, chat,
                       created, erased>>
    BY DEF ChooseFile, reviewVars
  <1>3. intake.epoch + 1 \in Nat
    BY <1>1 DEF PageTypeOK
  <1>4. ask \in Request /\ ask.kind = "detect" /\ ask.epoch = intake.epoch + 1 /\ ask.review = file
    BY <1>3, AskIs DEF RequestKind
  <1>5. PICK detectable \in BOOLEAN :
          /\ intake' = [file |-> file, country |-> 0, epoch |-> intake.epoch + 1,
                        pending |-> detectable, confirm |-> ~detectable]
          /\ requests' = IF detectable THEN requests \union {ask} ELSE requests
    BY DEF ChooseFile
  <1> HIDE DEF ask
  <1>6. requests' \subseteq requests \union {ask} /\ requests \subseteq requests'
    BY <1>5
  <1>7. PageTypeOK'
    BY <1>1, <1>2, <1>3, <1>4, <1>5, <1>6 DEF PageTypeOK
  <1>8. OperationInv' /\ ErasedInv' /\ ChatInv'
    <2>1. Same(OperationKind) /\ Same({"message", "history"})
      BY <1>4, <1>6 DEF Same, OperationKind
    <2>2. ~assistant.streaming
      BY <1>1, <1>2 DEF ChatInv, StreamingInv
    <2> QED
      BY <1>1, <1>2, <2>1, <2>2, OperationFrame, ErasedFrame, ChatFrame DEF PageTypeOK
  <1>9. CountryInv'
    BY <1>5 DEF CountryInv
  <1>10. DetectionInv'
    <2>1. ASSUME NEW q \in requests', q.kind = "detect"
          PROVE  q.epoch <= intake'.epoch /\ (q.epoch = intake'.epoch => q = ask)
      <3>1. q \in requests => q.epoch \in Nat /\ q.epoch <= intake.epoch
        BY <1>1, <2>1 DEF FormInv, DetectionInv, PageTypeOK, Request
      <3>2. intake.epoch \in Nat /\ intake'.epoch = intake.epoch + 1
        BY <1>1, <1>5 DEF PageTypeOK
      <3> QED
        BY <1>4, <1>6, <3>1, <3>2
    <2>2. ask \in requests' => intake'.pending
      <3>1. ask \notin requests
        BY <1>1, <1>3, <1>4 DEF FormInv, DetectionInv, PageTypeOK
      <3> QED
        BY <1>5, <3>1
    <2>3. intake'.file = file
      BY <1>5
    <2> QED
      BY <1>2, <1>4, <2>1, <2>2, <2>3 DEF DetectionInv
  <1> QED
    BY <1>7, <1>8, <1>9, <1>10 DEF PageInv, FormInv

LEMMA DetectionAnsweredKeeps ==
  ASSUME PageInv, NEW r, DetectionAnswered(r)
  PROVE  PageInv'
  <1>1. PageTypeOK /\ OperationInv /\ ErasedInv /\ FormInv /\ ChatInv
    BY DEF PageInv
  <1>2. /\ r \in requests /\ r.kind = "detect" /\ requests' = requests \ {r}
        /\ UNCHANGED <<view, review, stored, shown, operation, source, buttons, assistant, chat,
                       created, erased>>
    BY DEF DetectionAnswered, reviewVars
  <1>3. r.review \in Nat /\ r.epoch \in Nat
    BY <1>1, <1>2 DEF PageTypeOK, Request
  <1>4. ASSUME r.epoch = intake.epoch
        PROVE  \E country \in {0, r.review}, confirm \in BOOLEAN :
                 intake' = [intake EXCEPT !.country = country, !.confirm = confirm, !.pending = FALSE]
    BY <1>4 DEF DetectionAnswered, DetectionOf
  <1>5. /\ intake' \in [file : Nat, country : Nat, epoch : Nat, pending : BOOLEAN, confirm : BOOLEAN]
        /\ intake'.file = intake.file /\ intake'.epoch = intake.epoch
        /\ r.epoch # intake.epoch => intake' = intake
        /\ r.epoch = intake.epoch => ~intake'.pending /\ intake'.country \in {0, r.review}
    <2>1. CASE r.epoch = intake.epoch
      <3>1. PICK country \in {0, r.review}, confirm \in BOOLEAN :
              intake' = [intake EXCEPT !.country = country, !.confirm = confirm, !.pending = FALSE]
        BY <1>4, <2>1
      <3>2. country \in Nat
        BY <1>3
      <3> QED
        BY <1>1, <2>1, <3>1, <3>2 DEF PageTypeOK
    <2>2. CASE r.epoch # intake.epoch
      <3>1. intake' = intake
        BY <2>2 DEF DetectionAnswered, DetectionOf
      <3> QED
        BY <1>1, <2>2, <3>1 DEF PageTypeOK
    <2> QED
      BY <2>1, <2>2
  <1>6. PageTypeOK'
    BY <1>1, <1>2, <1>5 DEF PageTypeOK
  <1>7. OperationInv' /\ ErasedInv' /\ ChatInv'
    <2>1. Same(OperationKind) /\ Same({"message", "history"})
      BY <1>2 DEF Same, OperationKind
    <2>2. assistant.streaming => view \in {"results", "stopped"}
      BY <1>1 DEF ChatInv, StreamingInv
    <2> QED
      BY <1>1, <1>2, <2>1, <2>2, OperationFrame, ErasedFrame, ChatFrame DEF PageTypeOK
  <1>8. CASE r.epoch = intake.epoch
    <2>1. r.review = intake.file
      BY <1>1, <1>2, <1>8 DEF FormInv, DetectionInv
    <2>2. CountryInv'
      BY <1>1, <1>5, <2>1 DEF FormInv, CountryInv
    <2>3. \A q \in requests' : q.kind = "detect" => q.epoch <= intake.epoch /\ q.epoch # intake.epoch
      BY <1>1, <1>2, <1>8 DEF FormInv, DetectionInv
    <2>4. DetectionInv'
      BY <1>5, <1>8, <2>3 DEF DetectionInv
    <2> QED
      BY <1>6, <1>7, <2>2, <2>4 DEF PageInv, FormInv
  <1>9. CASE r.epoch # intake.epoch
    <2>1. CountryInv'
      BY <1>1, <1>5, <1>9 DEF FormInv, CountryInv
    <2>2. DetectionInv'
      BY <1>1, <1>2, <1>5, <1>9 DEF FormInv, DetectionInv
    <2> QED
      BY <1>6, <1>7, <2>1, <2>2 DEF PageInv, FormInv
  <1> QED
    BY <1>8, <1>9

LEMMA ConfirmCountryKeeps ==
  ASSUME PageInv, ConfirmCountry
  PROVE  PageInv'
  <1>1. PageTypeOK /\ OperationInv /\ ErasedInv /\ FormInv /\ ChatInv
    BY DEF PageInv
  <1>2. UNCHANGED <<view, review, stored, shown, operation, source, requests, buttons, assistant, chat,
                    created, erased>>
    BY DEF ConfirmCountry, reviewVars
  <1>3. /\ intake' \in [file : Nat, country : Nat, epoch : Nat, pending : BOOLEAN, confirm : BOOLEAN]
        /\ intake'.country = intake'.file /\ intake'.file = intake.file
        /\ intake'.epoch = intake.epoch /\ intake'.pending = intake.pending
    BY <1>1 DEF ConfirmCountry, PageTypeOK
  <1>4. PageTypeOK'
    BY <1>1, <1>2, <1>3 DEF PageTypeOK
  <1>5. OperationInv' /\ ErasedInv' /\ ChatInv'
    <2>1. Same(OperationKind) /\ Same({"message", "history"})
      BY <1>2 DEF Same
    <2>2. assistant.streaming => view \in {"results", "stopped"}
      BY <1>1 DEF ChatInv, StreamingInv
    <2> QED
      BY <1>1, <1>2, <2>1, <2>2, OperationFrame, ErasedFrame, ChatFrame DEF PageTypeOK
  <1>6. FormInv'
    BY <1>1, <1>2, <1>3 DEF FormInv, CountryInv, DetectionInv
  <1> QED
    BY <1>4, <1>5, <1>6 DEF PageInv

-----------------------------------------------------------------------------
(* What an answer to the running request, or to a late one, may do.        *)

LEMMA PageParts ==
  ASSUME PageInv
  PROVE  /\ PageTypeOK /\ OperationInv /\ ErasedInv /\ FormInv /\ ChatInv
         /\ view # "landing" => ~intake.pending
         /\ assistant.streaming => view \in {"results", "stopped"}
         /\ source # NoSource => view = "progress"
  BY DEF PageInv, FormInv, DetectionInv, ChatInv, StreamingInv, OperationInv, SourceInv

LEMMA Watched ==
  ASSUME OperationInv, operation \in Nat, NEW r \in requests, Running(r), requests' = requests \ {r},
         operation' = operation, view' = "progress",
         review' \in Nat, review' # NoReview, source' = Watching(operation, review')
  PROVE  OperationInv'
  <1>1. (\A q \in requests' : ~Running(q)') /\ OneOperation' /\ RunningFits'
    BY OperationAnswered
  <1>2. source' # NoSource /\ source'.op = operation' /\ source'.review = review'
    BY SourceIs
  <1>3. ProgressInv'
    BY <1>2 DEF ProgressInv, Active, NoSource
  <1>4. SourceInv' /\ ResultsInv'
    BY <1>2 DEF SourceInv, ResultsInv, NoSource, NoReview
  <1> QED
    BY <1>1, <1>3, <1>4 DEF OperationInv

LEMMA Stopped ==
  ASSUME OperationInv, NEW r \in requests, Running(r), requests' = requests \ {r},
         operation' = operation, source' = source, view' \in {"landing", "stopped", "recovery"}
  PROVE  OperationInv'
  <1>1. OneOperation' /\ RunningFits'
    BY OperationAnswered
  <1>2. source' = NoSource
    BY RunningExcludesSource
  <1>3. ProgressInv' /\ ResultsInv'
    BY DEF ProgressInv, ResultsInv
  <1>4. SourceInv'
    BY <1>2 DEF SourceInv, NoSource
  <1> QED
    BY <1>1, <1>3, <1>4 DEF OperationInv

\* A late answer changes nothing, a button perhaps.
LEMMA LateAnswer ==
  ASSUME PageInv, NEW r \in requests, Operates(r), ~Running(r), requests' = requests \ {r},
         buttons' \in [resetPending : BOOLEAN, correctOff : BOOLEAN, retryOff : BOOLEAN],
         created' \in Nat, created <= created',
         UNCHANGED <<view, review, stored, shown, operation, source, assistant, chat, intake, erased>>
  PROVE  PageInv'
  <1>1. /\ PageTypeOK /\ OperationInv /\ ErasedInv /\ FormInv /\ ChatInv
        /\ intake.pending => view = "landing"
        /\ assistant.streaming => view \in {"results", "stopped"}
    BY PageParts DEF PageTypeOK
  <1>2. PageTypeOK'
    BY <1>1 DEF PageTypeOK
  <1>3. Same({"detect"}) /\ Same({"message", "history"})
    BY DEF Same, Operates, OperationKind
  <1>4. FormInv'
    BY <1>1, <1>3, FormFrame
  <1>5. ChatInv'
    BY <1>1, <1>3, ChatFrame DEF PageTypeOK
  <1>6. ErasedInv'
    BY <1>1, ErasedFrame
  <1>7. OperationInv'
    <2> USE <1>1 DEF OperationInv, Running, Operates, Current
    <2>1. OneOperation'
      BY DEF OneOperation, Active
    <2>2. RunningFits'
      BY DEF RunningFits
    <2>3. ProgressInv'
      BY DEF ProgressInv, Active, OperationKind
    <2>4. SourceInv' /\ ResultsInv'
      BY DEF SourceInv, ResultsInv
    <2> QED
      BY <2>1, <2>2, <2>3, <2>4
  <1> QED
    BY <1>2, <1>4, <1>5, <1>6, <1>7 DEF PageInv

\* The result of the current review is rendered.
LEMMA Rendered ==
  ASSUME PageInv, NEW r \in requests, Running(r), r.kind \in {"restore", "result"},
         Render(r, requests \ {r}),
         UNCHANGED <<review, stored, operation, source, chat, intake, created, erased>>
  PROVE  PageInv'
  <1>1. /\ PageTypeOK /\ OperationInv /\ ErasedInv /\ FormInv /\ ChatInv
        /\ view = "progress" /\ ~intake.pending /\ ~assistant.streaming
        /\ r.review = review /\ review # NoReview
    BY PageParts DEF OperationInv, RunningFits
  <1>2. assistant.history + 1 \in Nat /\ review \in Nat
    BY <1>1 DEF PageTypeOK
  <1>3. PICK ask \in Request :
          /\ ask = Ask("history", assistant.history + 1, review, 0)
          /\ ask.kind = "history" /\ ask.epoch = assistant.history + 1 /\ ask.review = review
    <2>1. "history" \in RequestKind /\ 0 \in Nat
      BY DEF RequestKind
    <2> QED
      BY <1>2, <2>1, AskIs
  <1>4. /\ view' = "results" /\ shown' = review
        /\ requests' = (requests \ {r}) \union {ask}
        /\ buttons' = [buttons EXCEPT !.correctOff = FALSE]
        /\ assistant' = [assistant EXCEPT !.history = @ + 1, !.sendOff = TRUE]
    BY <1>1, <1>3 DEF Render
  <1>5. /\ assistant' \in [history : Nat, request : Nat, streaming : BOOLEAN, sendOff : BOOLEAN]
        /\ assistant'.history = assistant.history + 1
        /\ assistant'.streaming = assistant.streaming
    <2>1. assistant' = [assistant EXCEPT !.history = assistant.history + 1, !.sendOff = TRUE]
      BY <1>4
    <2>2. assistant \in [history : Nat, request : Nat, streaming : BOOLEAN, sendOff : BOOLEAN]
      BY <1>1 DEF PageTypeOK
    <2>3. assistant' \in [history : Nat, request : Nat, streaming : BOOLEAN, sendOff : BOOLEAN]
      BY <1>2, <2>1, <2>2, Zenon
    <2>4. assistant'.history = assistant.history + 1
      BY <2>1, <2>2
    <2>5. assistant'.streaming = assistant.streaming
      BY <2>1, <2>2
    <2> QED
      BY <2>3, <2>4, <2>5
  <1>6. PageTypeOK'
    BY <1>1, <1>3, <1>4, <1>5 DEF PageTypeOK
  <1>7. OperationInv'
    <2>1. OneOperation' /\ RunningFits'
      BY <1>1, <1>3, <1>4, OperationAnswered DEF Operates, OperationKind
    <2>2. source' = NoSource
      BY <1>1, RunningExcludesSource
    <2>3. ProgressInv' /\ SourceInv' /\ ResultsInv'
      BY <1>1, <1>4, <2>2 DEF ProgressInv, SourceInv, ResultsInv, NoSource, NoReview
    <2> QED
      BY <2>1, <2>3 DEF OperationInv
  <1>8. ErasedInv'
    BY <1>1, <1>4 DEF ErasedInv
  <1>9. FormInv'
    <2>1. Same({"detect"})
      BY <1>3, <1>4 DEF Same
    <2> QED
      BY <1>1, <2>1, FormFrame
  <1>10. ChatInv'
    <2>1. \A q \in requests' : q.kind = "message" => q \in requests
      BY <1>3, <1>4
    <2>2. MessageInv'
      BY <1>1, <2>1 DEF ChatInv, MessageInv
    <2>3. StreamingInv'
      BY <1>1, <1>5 DEF StreamingInv
    <2>4. ask \in requests' /\ HistoryIsCurrent(ask)'
      BY <1>3, <1>4, <1>5 DEF HistoryIsCurrent
    <2>5. HistoryInv'
      BY <1>3, <2>4 DEF HistoryInv
    <2> QED
      BY <2>2, <2>3, <2>5 DEF ChatInv
  <1> QED
    BY <1>6, <1>7, <1>8, <1>9, <1>10 DEF PageInv

-----------------------------------------------------------------------------
(* Starting, restoring and watching. *)

\* What the buttons are does not matter to the rest.
ButtonType == [resetPending : BOOLEAN, correctOff : BOOLEAN, retryOff : BOOLEAN]

LEMMA ButtonsStayTyped ==
  ASSUME buttons \in ButtonType, NEW off \in BOOLEAN
  PROVE  /\ [buttons EXCEPT !.resetPending = off] \in ButtonType
         /\ [buttons EXCEPT !.correctOff = off] \in ButtonType
         /\ [buttons EXCEPT !.retryOff = off] \in ButtonType
         /\ \A other \in BOOLEAN :
               [buttons EXCEPT !.resetPending = off, !.correctOff = other] \in ButtonType
  BY Zenon DEF ButtonType

LEMMA SubmitKeeps ==
  ASSUME PageInv, Submit
  PROVE  PageInv'
  <1>1. /\ PageTypeOK /\ OperationInv /\ ErasedInv /\ FormInv /\ ChatInv
        /\ view = "landing" /\ ~intake.pending /\ ~assistant.streaming /\ source = NoSource
    BY PageParts DEF Submit
  <1>2. operation + 1 \in Nat /\ operation \in Nat
    BY <1>1 DEF PageTypeOK
  <1>3. PICK ask \in Request :
          /\ ask = Ask("submit", operation + 1, NoReview, 0)
          /\ ask.kind = "submit" /\ ask.epoch = operation + 1
    <2>1. "submit" \in RequestKind /\ 0 \in Nat /\ NoReview \in Nat
      BY DEF RequestKind, OperationKind, NoReview
    <2> QED
      BY <1>2, <2>1, AskIs
  <1>4. /\ view' = "progress" /\ operation' = operation + 1
        /\ requests' = requests \union {ask}
        /\ buttons' = [buttons EXCEPT !.resetPending = FALSE]
        /\ UNCHANGED <<review, stored, shown, source, assistant, chat, intake, created, erased>>
    BY <1>3 DEF Submit, Begin, reviewVars
  <1>5. buttons' \in ButtonType
    BY <1>1, <1>4, ButtonsStayTyped DEF PageTypeOK, ButtonType
  <1>6. PageTypeOK'
    BY <1>1, <1>2, <1>4, <1>5 DEF PageTypeOK, ButtonType
  <1>7. OperationInv'
    <2>1. OneOperation' /\ RunningFits' /\ SourceInv'
      BY <1>1, <1>2, <1>3, <1>4, OperationBegun, RequestFields DEF PageTypeOK, NoSource
    <2>2. ask \in requests' /\ Current(ask)'
      BY <1>3, <1>4 DEF Current
    <2>3. ProgressInv' /\ ResultsInv'
      BY <1>3, <1>4, <2>2 DEF ProgressInv, ResultsInv
    <2> QED
      BY <2>1, <2>3 DEF OperationInv
  <1>8. ErasedInv' /\ FormInv' /\ ChatInv'
    <2>1. Same({"detect"}) /\ Same({"message", "history"})
      BY <1>3, <1>4 DEF Same
    <2> QED
      BY <1>1, <1>4, <2>1, ErasedFrame, FormFrame, ChatFrame DEF PageTypeOK
  <1> QED
    BY <1>6, <1>7, <1>8 DEF PageInv

\* An answer to the running request that brings the page to a review that is to be watched,
\* a new one or the one it has.
LEMMA NowWatching ==
  ASSUME PageInv, NEW r \in requests, Running(r), requests' = requests \ {r},
         view' = "progress", source' = Watching(operation, review'),
         review' \in 1 .. created', review' \notin erased, stored' \in {stored, review'},
         created' \in Nat, created <= created', buttons' \in ButtonType,
         assistant' \in [history : Nat, request : Nat, streaming : BOOLEAN, sendOff : BOOLEAN],
         ~assistant'.streaming,
         (review' = review /\ assistant' = assistant) \/ review' \notin 0 .. created,
         ~intake.pending,
         UNCHANGED <<shown, operation, chat, intake, erased>>
  PROVE  PageInv'
  <1>1. PageTypeOK /\ OperationInv /\ ErasedInv /\ FormInv /\ ChatInv
    BY PageParts
  <1>2. operation \in Nat /\ review' \in Nat /\ review' # NoReview
    BY <1>1 DEF PageTypeOK, NoReview
  <1>3. source' \in Source /\ source'.review = review'
    BY <1>2, SourceIs
  <1>4. PageTypeOK'
    <2>1. review' \in 0 .. created' /\ stored' \in 0 .. created' /\ shown' \in 0 .. created'
      BY <1>1 DEF PageTypeOK
    <2>2. erased' \subseteq 1 .. created'
      BY <1>1 DEF PageTypeOK
    <2> QED
      BY <1>1, <1>3, <2>1, <2>2 DEF PageTypeOK, ButtonType
  <1>5. OperationInv'
    BY <1>1, <1>2, Watched
  <1>6. ErasedInv'
    BY <1>1, <1>3 DEF ErasedInv
  <1>7. FormInv'
    <2>1. Same({"detect"})
      BY DEF Same, Running, Operates, OperationKind
    <2> QED
      BY <1>1, <2>1, FormFrame
  <1>8. ChatInv'
    <2>1. ASSUME NEW q \in requests', q.kind = "message"
          PROVE  q \in requests /\ q.review \in 1 .. created' /\ q.review # review'
      <3>1. /\ q \in requests /\ q.review \in 1 .. created
            /\ q.review = review => assistant.streaming
        BY <1>1, <2>1 DEF ChatInv, MessageInv
      <3>2. q.review # review'
        <4>1. CASE review' = review /\ assistant' = assistant
          BY <3>1, <4>1
        <4>2. CASE review' \notin 0 .. created
          BY <1>1, <3>1, <4>2 DEF PageTypeOK
        <4> QED
          BY <4>1, <4>2
      <3> QED
        BY <1>1, <3>1, <3>2 DEF PageTypeOK
    <2>2. MessageInv'
      BY <2>1 DEF MessageInv
    <2>3. StreamingInv' /\ HistoryInv'
      BY DEF StreamingInv, HistoryInv
    <2> QED
      BY <2>2, <2>3 DEF ChatInv
  <1> QED
    BY <1>4, <1>5, <1>6, <1>7, <1>8 DEF PageInv

LEMMA SubmitAnsweredKeeps ==
  ASSUME PageInv, NEW r, SubmitAnswered(r)
  PROVE  PageInv'
  <1>1. /\ PageTypeOK /\ OperationInv /\ ErasedInv /\ FormInv /\ ChatInv
        /\ r \in requests /\ r.kind = "submit" /\ Operates(r) /\ requests' = requests \ {r}
        /\ UNCHANGED <<shown, operation, buttons, assistant, chat, intake, erased>>
    BY PageParts DEF SubmitAnswered, Operates, OperationKind
  <1>2. created \in Nat /\ buttons \in ButtonType
    BY <1>1 DEF PageTypeOK, ButtonType
  <1>3. CASE ~Current(r)
    <2>1. UNCHANGED <<view, review, stored, source>> /\ created' \in {created, created + 1}
      BY <1>3 DEF SubmitAnswered
    <2> QED
      BY <1>1, <1>2, <1>3, <2>1, LateAnswer DEF Running, ButtonType
  <1>4. CASE Current(r)
    <2>1. Running(r) /\ view = "progress" /\ ~intake.pending /\ ~assistant.streaming
      BY <1>1, <1>4, PageParts DEF Running, OperationInv, RunningFits
    <2>2. CASE /\ created' = created + 1 /\ review' = created' /\ stored' = created'
               /\ Watch(operation, created')
      <3>1. /\ review' \in 1 .. created' /\ review' \notin 0 .. created
            /\ created' \in Nat /\ created <= created' /\ review' \notin erased
        BY <1>1, <1>2, <2>2 DEF PageTypeOK
      <3>2. view' = "progress" /\ source' = Watching(operation, review')
        BY <2>2 DEF Watch
      <3> QED
        BY <1>1, <1>2, <2>1, <2>2, <3>1, <3>2, NowWatching DEF PageTypeOK
    <2>3. CASE view' = "stopped" /\ UNCHANGED <<review, stored, source, created>>
      <3>1. PageTypeOK'
        BY <1>1, <2>3 DEF PageTypeOK
      <3>2. OperationInv'
        BY <1>1, <2>1, <2>3, Stopped
      <3>3. Same({"detect"}) /\ Same({"message", "history"})
        BY <1>1 DEF Same
      <3>4. ErasedInv' /\ FormInv' /\ ChatInv'
        BY <1>1, <1>2, <2>1, <2>3, <3>3, ErasedFrame, FormFrame, ChatFrame
      <3> QED
        BY <3>1, <3>2, <3>4 DEF PageInv
    <2> QED
      BY <1>4, <2>2, <2>3 DEF SubmitAnswered
  <1> QED
    BY <1>3, <1>4

LEMMA ReloadKeeps ==
  ASSUME PageInv, Reload
  PROVE  PageInv'
  <1>1. PageTypeOK /\ ErasedInv
    BY PageParts
  <1>2. /\ review' = stored /\ shown' = NoReview /\ source' = NoSource /\ buttons' = Buttons
        /\ assistant' = Quiet /\ chat' = {} /\ intake' = NoFile
        /\ UNCHANGED <<stored, created, erased>>
    BY DEF Reload
  <1>3. /\ Buttons \in [resetPending : BOOLEAN, correctOff : BOOLEAN, retryOff : BOOLEAN]
        /\ Quiet \in [history : Nat, request : Nat, streaming : BOOLEAN, sendOff : BOOLEAN]
        /\ NoFile \in [file : Nat, country : Nat, epoch : Nat, pending : BOOLEAN, confirm : BOOLEAN]
        /\ ~Quiet.streaming /\ ~NoFile.pending /\ NoFile.country = 0
    BY DEF Buttons, Quiet, NoFile
  <1>4. NoSource \in Source /\ NoSource.review = NoReview
    BY SourceIs, 0 \in Nat
  <1>5. ErasedInv'
    BY <1>1, <1>2, <1>4 DEF ErasedInv, PageTypeOK, NoReview
  <1>6. CASE stored = NoReview
    <2>1. view' = "landing" /\ operation' = 0 /\ requests' = {}
      BY <1>6 DEF Reload
    <2>2. PageTypeOK'
      BY <1>1, <1>2, <1>3, <1>4, <2>1 DEF PageTypeOK, NoReview
    <2>3. OperationInv'
      BY <1>2, <2>1 DEF OperationInv, OneOperation, RunningFits, ProgressInv, SourceInv, ResultsInv
    <2>4. FormInv'
      BY <1>2, <1>3, <2>1 DEF FormInv, CountryInv, DetectionInv
    <2>5. ChatInv'
      BY <1>2, <1>3, <2>1 DEF ChatInv, MessageInv, StreamingInv, HistoryInv
    <2> QED
      BY <1>5, <2>2, <2>3, <2>4, <2>5 DEF PageInv
  <1>7. CASE stored # NoReview
    <2>1. PICK ask \in Request :
            /\ ask = Ask("restore", 1, stored, 0)
            /\ ask.kind = "restore" /\ ask.epoch = 1 /\ ask.review = stored
      <3>1. "restore" \in RequestKind /\ 0 \in Nat /\ 1 \in Nat /\ stored \in Nat
        BY <1>1 DEF RequestKind, OperationKind, PageTypeOK
      <3> QED
        BY <3>1, AskIs
    <2>2. view' = "progress" /\ operation' = 1 /\ requests' = {ask}
      BY <1>7, <2>1 DEF Reload
    <2>3. PageTypeOK'
      BY <1>1, <1>2, <1>3, <1>4, <2>1, <2>2 DEF PageTypeOK, NoReview
    <2>4. OperationInv'
      <3>1. OneOperation'
        BY <1>2, <2>1, <2>2 DEF OneOperation, Active
      <3>2. RunningFits'
        BY <1>2, <1>7, <2>1, <2>2 DEF RunningFits
      <3>3. ask \in requests' /\ Current(ask)'
        BY <2>1, <2>2 DEF Current
      <3>4. ProgressInv' /\ SourceInv' /\ ResultsInv'
        BY <1>2, <2>1, <2>2, <3>3 DEF ProgressInv, SourceInv, ResultsInv
      <3> QED
        BY <3>1, <3>2, <3>4 DEF OperationInv
    <2>5. FormInv'
      BY <1>2, <1>3, <2>1, <2>2 DEF FormInv, CountryInv, DetectionInv
    <2>6. ChatInv'
      BY <1>2, <1>3, <2>1, <2>2 DEF ChatInv, MessageInv, StreamingInv, HistoryInv
    <2> QED
      BY <1>5, <2>3, <2>4, <2>5, <2>6 DEF PageInv
  <1> QED
    BY <1>6, <1>7

LEMMA RestoreAnsweredKeeps ==
  ASSUME PageInv, NEW r, RestoreAnswered(r)
  PROVE  PageInv'
  <1>1. /\ PageTypeOK /\ OperationInv /\ ErasedInv /\ FormInv /\ ChatInv
        /\ r \in requests /\ r.kind = "restore" /\ Operates(r)
        /\ UNCHANGED <<operation, chat, intake, created, erased>>
    BY PageParts DEF RestoreAnswered, Operates, OperationKind
  <1>2. created \in Nat /\ buttons \in ButtonType
    BY <1>1 DEF PageTypeOK, ButtonType
  <1>3. CASE ~Current(r)
    <2>1. requests' = requests \ {r} /\ UNCHANGED <<view, review, stored, shown, source, buttons, assistant>>
      BY <1>3 DEF RestoreAnswered, reviewVars
    <2> QED
      BY <1>1, <1>2, <1>3, <2>1, LateAnswer DEF Running, ButtonType
  <1>4. CASE Current(r)
    <2>1. /\ Running(r) /\ view = "progress" /\ ~intake.pending /\ ~assistant.streaming
          /\ r.review = review /\ review # NoReview
      BY <1>1, <1>4, PageParts DEF Running, OperationInv, RunningFits
    <2>2. CASE /\ Watch(operation, review) /\ requests' = requests \ {r}
               /\ UNCHANGED <<review, stored, shown, buttons, assistant>>
      <3>1. review' \in 1 .. created' /\ review' \notin erased
        BY <1>1, <2>1, <2>2 DEF PageTypeOK, NoReview, ErasedInv
      <3>2. view' = "progress" /\ source' = Watching(operation, review')
        BY <2>2 DEF Watch
      <3> QED
        BY <1>1, <1>2, <2>1, <2>2, <3>1, <3>2, NowWatching DEF PageTypeOK
    <2>3. CASE /\ view' = "landing" /\ requests' = requests \ {r}
               /\ review' \in {review, NoReview} /\ stored' \in {stored, NoReview}
               /\ UNCHANGED <<shown, source, buttons, assistant>>
      <3>1. NoReview \notin erased
        BY <1>1 DEF PageTypeOK, NoReview
      <3>2. PageTypeOK'
        BY <1>1, <2>3 DEF PageTypeOK, NoReview
      <3>3. OperationInv'
        BY <1>1, <2>1, <2>3, Stopped
      <3>4. Same({"detect"})
        BY <1>1, <2>3 DEF Same
      <3>5. ErasedInv' /\ FormInv'
        BY <1>1, <2>1, <2>3, <3>1, <3>4, FormFrame DEF ErasedInv
      <3>6. ChatInv'
        <4>1. \A q \in requests : q.kind = "message" => q.review # review /\ q.review # NoReview
          BY <1>1, <2>1 DEF ChatInv, MessageInv, NoReview
        <4>2. MessageInv'
          BY <1>1, <2>3, <4>1 DEF ChatInv, MessageInv
        <4>3. StreamingInv' /\ HistoryInv'
          BY <2>1, <2>3 DEF StreamingInv, HistoryInv
        <4> QED
          BY <4>2, <4>3 DEF ChatInv
      <3> QED
        BY <3>2, <3>3, <3>5, <3>6 DEF PageInv
    <2>4. CASE Render(r, requests \ {r}) /\ UNCHANGED <<review, stored, source>>
      BY <1>1, <2>1, <2>4, Rendered
    <2> QED
      BY <1>4, <2>1, <2>2, <2>3, <2>4 DEF RestoreAnswered, Forget, reviewVars
  <1> QED
    BY <1>3, <1>4

\* Steps of the watched source: nothing else of the operation is in flight.
LEMMA WatchedSource ==
  ASSUME PageInv, Active
  PROVE  /\ PageTypeOK /\ OperationInv /\ ErasedInv /\ FormInv /\ ChatInv
         /\ view = "progress" /\ ~intake.pending /\ ~assistant.streaming
         /\ source.op = operation /\ source.review = review /\ review # NoReview
         /\ \A q \in requests : ~Running(q)
  BY PageParts DEF OperationInv, OneOperation, SourceInv, Active

\* The source is closed and the page leaves the progress view.
LEMMA SourceGivenUp ==
  ASSUME PageInv, Active, source' = NoSource, view' \in {"stopped", "recovery"},
         buttons' \in ButtonType,
         UNCHANGED <<review, stored, shown, operation, requests, assistant, chat, intake, created, erased>>
  PROVE  PageInv'
  <1>1. /\ PageTypeOK /\ OperationInv /\ ErasedInv /\ FormInv /\ ChatInv
        /\ view = "progress" /\ ~intake.pending /\ ~assistant.streaming
        /\ \A q \in requests : ~Running(q)
    BY WatchedSource
  <1>2. NoSource \in Source /\ NoSource.review = NoReview
    BY SourceIs, 0 \in Nat
  <1>3. PageTypeOK'
    BY <1>1, <1>2 DEF PageTypeOK, ButtonType
  <1>4. OperationInv'
    <2>1. \A q \in requests' : ~Running(q)'
      BY <1>1 DEF Running, Operates, Current
    <2>2. OneOperation' /\ RunningFits'
      BY <1>1, <2>1 DEF OperationInv, OneOperation, RunningFits, Operates
    <2>3. ProgressInv' /\ SourceInv' /\ ResultsInv'
      BY DEF ProgressInv, SourceInv, ResultsInv
    <2> QED
      BY <2>2, <2>3 DEF OperationInv
  <1>5. ErasedInv'
    BY <1>1, <1>2 DEF ErasedInv, PageTypeOK, NoReview
  <1>6. FormInv' /\ ChatInv'
    <2>1. Same({"detect"}) /\ Same({"message", "history"})
      BY DEF Same
    <2> QED
      BY <1>1, <2>1, FormFrame, ChatFrame DEF PageTypeOK
  <1> QED
    BY <1>3, <1>4, <1>5, <1>6 DEF PageInv

\* The source goes on, with another count of its errors.
LEMMA SourceGoesOn ==
  ASSUME PageInv, Active, source' \in Source, source' # NoSource,
         source'.op = source.op, source'.review = source.review,
         UNCHANGED <<view, review, stored, shown, operation, requests, buttons, assistant, chat,
                     intake, created, erased>>
  PROVE  PageInv'
  <1>1. /\ PageTypeOK /\ OperationInv /\ ErasedInv /\ FormInv /\ ChatInv
        /\ view = "progress" /\ ~intake.pending /\ ~assistant.streaming
        /\ source.op = operation /\ source.review = review /\ review # NoReview
        /\ \A q \in requests : ~Running(q)
    BY WatchedSource
  <1>2. PageTypeOK'
    BY <1>1 DEF PageTypeOK
  <1>3. OperationInv'
    <2>1. \A q \in requests' : ~Running(q)'
      BY <1>1 DEF Running, Operates, Current
    <2>2. OneOperation' /\ RunningFits'
      BY <1>1, <2>1 DEF OperationInv, OneOperation, RunningFits, Operates
    <2>3. source'.op = operation' /\ source' # NoSource'
      BY <1>1 DEF NoSource
    <2>4. ProgressInv' /\ SourceInv' /\ ResultsInv'
      BY <1>1, <2>3 DEF ProgressInv, SourceInv, ResultsInv, Active
    <2> QED
      BY <2>2, <2>4 DEF OperationInv
  <1>4. ErasedInv'
    BY <1>1 DEF ErasedInv
  <1>5. FormInv' /\ ChatInv'
    <2>1. Same({"detect"}) /\ Same({"message", "history"})
      BY DEF Same
    <2> QED
      BY <1>1, <2>1, FormFrame, ChatFrame DEF PageTypeOK
  <1> QED
    BY <1>2, <1>3, <1>4, <1>5 DEF PageInv

LEMMA RunCompletedKeeps ==
  ASSUME PageInv, RunCompleted
  PROVE  PageInv'
  <1>1. /\ PageTypeOK /\ OperationInv /\ ErasedInv /\ FormInv /\ ChatInv
        /\ view = "progress" /\ ~intake.pending /\ ~assistant.streaming
        /\ source.op = operation /\ source.review = review /\ review # NoReview
        /\ \A q \in requests : ~Running(q)
    BY WatchedSource DEF RunCompleted
  <1>2. PICK ask \in Request :
          /\ ask = Ask("result", operation, source.review, 1)
          /\ ask.kind = "result" /\ ask.epoch = operation /\ ask.review = review
    <2>1. "result" \in RequestKind /\ 1 \in Nat /\ operation \in Nat /\ source.review \in Nat
      BY <1>1 DEF RequestKind, OperationKind, PageTypeOK
    <2> QED
      BY <1>1, <2>1, AskIs
  <1>3. /\ source' = NoSource /\ requests' = requests \union {ask}
        /\ UNCHANGED <<view, review, stored, shown, operation, buttons, assistant, chat, intake,
                       created, erased>>
    BY <1>2 DEF RunCompleted, reviewVars
  <1>4. NoSource \in Source /\ NoSource.review = NoReview
    BY SourceIs, 0 \in Nat
  <1>5. PageTypeOK'
    BY <1>1, <1>2, <1>3, <1>4 DEF PageTypeOK
  <1>6. OperationInv'
    <2>1. ASSUME NEW q \in requests', Running(q)' PROVE q = ask
      BY <1>1, <1>3, <2>1 DEF Running, Operates, Current
    <2>2. OneOperation'
      <3>1. ASSUME NEW q \in requests', Operates(q) PROVE q.epoch <= operation'
        BY <1>1, <1>2, <1>3, <3>1 DEF OperationInv, OneOperation, PageTypeOK
      <3>2. ~Active'
        BY <1>3 DEF Active, NoSource
      <3> QED
        BY <2>1, <3>1, <3>2 DEF OneOperation, Operates
    <2>3. RunningFits'
      BY <1>1, <1>2, <1>3, <2>1 DEF RunningFits, NoReview
    <2>4. ask \in requests' /\ Current(ask)'
      BY <1>2, <1>3 DEF Current
    <2>5. ProgressInv' /\ SourceInv' /\ ResultsInv'
      BY <1>1, <1>2, <1>3, <2>4 DEF ProgressInv, SourceInv, ResultsInv, NoSource
    <2> QED
      BY <2>2, <2>3, <2>5 DEF OperationInv
  <1>7. ErasedInv'
    BY <1>1, <1>3, <1>4 DEF ErasedInv, PageTypeOK, NoReview
  <1>8. FormInv' /\ ChatInv'
    <2>1. Same({"detect"}) /\ Same({"message", "history"})
      BY <1>2, <1>3 DEF Same
    <2> QED
      BY <1>1, <1>3, <2>1, FormFrame, ChatFrame DEF PageTypeOK
  <1> QED
    BY <1>5, <1>6, <1>7, <1>8 DEF PageInv

LEMMA RunFailedKeeps ==
  ASSUME PageInv, RunFailed
  PROVE  PageInv'
  <1>1. /\ Active /\ source' = NoSource /\ view' \in {"stopped", "recovery"}
        /\ UNCHANGED <<review, stored, shown, operation, requests, assistant, chat, intake, created, erased>>
        /\ buttons' = buttons \/ buttons' = [buttons EXCEPT !.retryOff = FALSE]
    BY DEF RunFailed, reviewVars
  <1>2. buttons' \in ButtonType
    BY <1>1, PageParts, ButtonsStayTyped DEF PageTypeOK, ButtonType
  <1> QED
    BY <1>1, <1>2, SourceGivenUp

LEMMA SourceErrorKeeps ==
  ASSUME PageInv, SourceError
  PROVE  PageInv'
  <1>1. /\ Active
        /\ UNCHANGED <<review, stored, shown, operation, requests, buttons, assistant, chat, intake,
                       created, erased>>
    BY DEF SourceError, reviewVars
  <1>2. PageTypeOK
    BY PageParts
  <1>3. CASE source' = NoSource /\ view' = "stopped"
    BY <1>1, <1>2, <1>3, SourceGivenUp DEF PageTypeOK, ButtonType
  <1>4. CASE view' = view /\ \E refused \in BOOLEAN :
               source' = [source EXCEPT !.errors = @ + 1, !.refused = refused]
    <2>1. PICK refused \in BOOLEAN :
            source' = [source EXCEPT !.errors = source.errors + 1, !.refused = refused]
      BY <1>4
    <2>2. source \in Source /\ source.errors \in Nat /\ source.errors + 1 \in Nat
      BY <1>2 DEF PageTypeOK, Source
    <2>3. /\ source' \in Source /\ source'.op = source.op /\ source'.review = source.review
          /\ source'.errors = source.errors + 1
      BY <2>1, <2>2, Zenon DEF Source
    <2>4. source' # NoSource
      BY <2>2, <2>3 DEF NoSource
    <2> QED
      BY <1>1, <1>4, <2>3, <2>4, SourceGoesOn
  <1> QED
    BY <1>3, <1>4 DEF SourceError

LEMMA SourceOpensKeeps ==
  ASSUME PageInv, SourceOpens
  PROVE  PageInv'
  <1>1. /\ Active /\ source' = [source EXCEPT !.errors = 0]
        /\ UNCHANGED <<view, review, stored, shown, operation, requests, buttons, assistant, chat,
                       intake, created, erased>>
    BY DEF SourceOpens, reviewVars
  <1>2. /\ source \in Source /\ source.review = review /\ review # NoReview
    BY <1>1, WatchedSource DEF PageTypeOK
  <1>3. 0 \in Nat
    OBVIOUS
  <1>4. source' \in Source /\ source'.op = source.op /\ source'.review = source.review
    BY <1>1, <1>2, <1>3, Zenon DEF Source
  <1>5. source' # NoSource
    BY <1>2, <1>4, SourceIs, <1>3
  <1> QED
    BY <1>1, <1>4, <1>5, SourceGoesOn

LEMMA ResultAnsweredKeeps ==
  ASSUME PageInv, NEW r, ResultAnswered(r)
  PROVE  PageInv'
  <1>1. /\ PageTypeOK /\ OperationInv /\ ErasedInv /\ FormInv /\ ChatInv
        /\ r \in requests /\ r.kind = "result" /\ Operates(r)
        /\ UNCHANGED <<review, stored, operation, source, chat, intake, created, erased>>
    BY PageParts DEF ResultAnswered, Operates, OperationKind
  <1>2. created \in Nat /\ buttons \in ButtonType
    BY <1>1 DEF PageTypeOK, ButtonType
  <1>3. CASE ~Current(r)
    <2>1. requests' = requests \ {r} /\ UNCHANGED <<view, shown, buttons, assistant>>
      BY <1>3 DEF ResultAnswered
    <2> QED
      BY <1>1, <1>2, <1>3, <2>1, LateAnswer DEF Running, ButtonType
  <1>4. CASE Current(r)
    <2>1. /\ Running(r) /\ view = "progress" /\ ~intake.pending /\ ~assistant.streaming
          /\ r.review = review /\ review # NoReview /\ source = NoSource
      BY <1>1, <1>4, PageParts, RunningExcludesSource DEF Running, OperationInv, RunningFits
    <2>2. CASE /\ requests' = (requests \ {r}) \union {[r EXCEPT !.n = @ + 1]}
               /\ UNCHANGED <<view, shown, buttons, assistant>>
      <3>1. r \in Request /\ r.n \in Nat /\ r.n + 1 \in Nat
        BY <1>1 DEF PageTypeOK, Request
      <3>2. PICK ask : ask = [r EXCEPT !.n = r.n + 1]
        OBVIOUS
      <3>3. /\ ask \in Request /\ ask.kind = "result" /\ ask.epoch = operation
            /\ ask.review = review
        BY <1>1, <1>4, <2>1, <3>1, <3>2, Zenon DEF Request, Current
      <3>4. requests' = (requests \ {r}) \union {ask}
        BY <2>2, <3>2
      <3>5. PageTypeOK'
        BY <1>1, <2>2, <3>3, <3>4 DEF PageTypeOK
      <3>6. OperationInv'
        <4>1. ASSUME NEW q \in requests', Running(q)' PROVE q = ask
          <5>1. q \in requests => Running(q)
            BY <1>1, <4>1 DEF Running, Operates, Current
          <5> QED
            BY <1>1, <2>1, <3>4, <5>1 DEF OperationInv, OneOperation
        <4>2. OneOperation'
          <5>1. ASSUME NEW q \in requests', Operates(q) PROVE q.epoch <= operation'
            BY <1>1, <3>3, <3>4, <5>1 DEF OperationInv, OneOperation, PageTypeOK
          <5>2. ~Active'
            BY <1>1, <2>1 DEF Active, NoSource
          <5> QED
            BY <4>1, <5>1, <5>2 DEF OneOperation, Operates
        <4>3. RunningFits'
          BY <1>1, <2>1, <2>2, <3>3, <4>1 DEF RunningFits, NoReview
        <4>4. ask \in requests' /\ Current(ask)'
          BY <1>1, <3>3, <3>4 DEF Current
        <4>5. ProgressInv' /\ SourceInv' /\ ResultsInv'
          BY <1>1, <2>1, <2>2, <3>3, <4>4 DEF ProgressInv, SourceInv, ResultsInv, NoSource
        <4> QED
          BY <4>2, <4>3, <4>5 DEF OperationInv
      <3>7. Same({"detect"}) /\ Same({"message", "history"})
        BY <1>1, <3>3, <3>4 DEF Same
      <3>8. ErasedInv' /\ FormInv' /\ ChatInv'
        BY <1>1, <1>2, <2>1, <2>2, <3>7, ErasedFrame, FormFrame, ChatFrame
      <3> QED
        BY <3>5, <3>6, <3>8 DEF PageInv
    <2>3. CASE view' = "stopped" /\ requests' = requests \ {r} /\ UNCHANGED <<shown, buttons, assistant>>
      <3>1. PageTypeOK'
        BY <1>1, <2>3 DEF PageTypeOK
      <3>2. OperationInv'
        BY <1>1, <2>1, <2>3, Stopped
      <3>3. Same({"detect"}) /\ Same({"message", "history"})
        BY <1>1, <2>3 DEF Same
      <3>4. ErasedInv' /\ FormInv' /\ ChatInv'
        BY <1>1, <1>2, <2>1, <2>3, <3>3, ErasedFrame, FormFrame, ChatFrame
      <3> QED
        BY <3>1, <3>2, <3>4 DEF PageInv
    <2>4. CASE Render(r, requests \ {r})
      BY <1>1, <2>1, <2>4, Rendered
    <2> QED
      BY <1>4, <2>2, <2>3, <2>4 DEF ResultAnswered
  <1> QED
    BY <1>3, <1>4

-----------------------------------------------------------------------------
(* Retry, correction and reset. *)

\* A request about the review that is shown: nothing else changes.
LEMMA RequestBegun ==
  ASSUME PageInv, source = NoSource, review # NoReview,
         NEW kind \in {"retry", "correct"},
         kind = "retry" => view = "recovery", kind = "correct" => view = "results",
         operation' = operation + 1,
         requests' = requests \union {Ask(kind, operation + 1, review, 0)},
         buttons' \in ButtonType,
         UNCHANGED <<view, review, stored, shown, source, assistant, chat, intake, created, erased>>
  PROVE  PageInv'
  <1>1. /\ PageTypeOK /\ OperationInv /\ ErasedInv /\ FormInv /\ ChatInv
        /\ intake.pending => view = "landing"
        /\ assistant.streaming => view \in {"results", "stopped"}
    BY PageParts DEF PageTypeOK
  <1>2. operation \in Nat /\ operation + 1 \in Nat /\ review \in Nat
    BY <1>1 DEF PageTypeOK
  <1>3. PICK ask \in Request :
          /\ ask = Ask(kind, operation + 1, review, 0)
          /\ ask.kind = kind /\ ask.epoch = operation + 1 /\ ask.review = review
    <2>1. kind \in RequestKind /\ 0 \in Nat
      BY DEF RequestKind, OperationKind
    <2> QED
      BY <1>2, <2>1, AskIs
  <1>4. requests' = requests \union {ask}
    BY <1>3
  <1>5. PageTypeOK'
    BY <1>1, <1>2, <1>4 DEF PageTypeOK, ButtonType
  <1>6. OperationInv'
    <2>1. OneOperation' /\ RunningFits' /\ SourceInv'
      BY <1>1, <1>2, <1>3, <1>4, OperationBegun, RequestFields DEF PageTypeOK
    <2>2. ProgressInv' /\ ResultsInv'
      BY <1>1 DEF ProgressInv, OperationInv, ResultsInv
    <2> QED
      BY <2>1, <2>2 DEF OperationInv
  <1>7. ErasedInv' /\ FormInv' /\ ChatInv'
    <2>1. Same({"detect"}) /\ Same({"message", "history"})
      BY <1>3, <1>4 DEF Same
    <2> QED
      BY <1>1, <2>1, ErasedFrame, FormFrame, ChatFrame DEF PageTypeOK
  <1> QED
    BY <1>5, <1>6, <1>7 DEF PageInv

LEMMA RetryResearchKeeps ==
  ASSUME PageInv, RetryResearch
  PROVE  PageInv'
  <1>1. /\ view = "recovery" /\ review # NoReview /\ operation' = operation + 1
        /\ requests' = requests \union {Ask("retry", operation + 1, review, 0)}
        /\ buttons' = [buttons EXCEPT !.retryOff = TRUE]
        /\ UNCHANGED <<view, review, stored, shown, source, assistant, chat, intake, created, erased>>
    BY DEF RetryResearch, Begin, reviewVars
  <1>2. source = NoSource /\ buttons \in ButtonType
    BY <1>1, PageParts DEF PageTypeOK, ButtonType
  <1>3. buttons' \in ButtonType
    BY <1>1, <1>2, ButtonsStayTyped
  <1> QED
    BY <1>1, <1>2, <1>3, RequestBegun

LEMMA CorrectKeeps ==
  ASSUME PageInv, Correct
  PROVE  PageInv'
  <1>1. /\ view = "results" /\ review # NoReview /\ operation' = operation + 1
        /\ requests' = requests \union {Ask("correct", operation + 1, review, 0)}
        /\ buttons' = [buttons EXCEPT !.correctOff = TRUE]
        /\ UNCHANGED <<view, review, stored, shown, source, assistant, chat, intake, created, erased>>
    BY DEF Correct, Begin, reviewVars
  <1>2. source = NoSource /\ buttons \in ButtonType
    BY <1>1, PageParts DEF PageTypeOK, ButtonType
  <1>3. buttons' \in ButtonType
    BY <1>1, <1>2, ButtonsStayTyped
  <1> QED
    BY <1>1, <1>2, <1>3, RequestBegun

\* The running request is answered, and the page stops at a view that watches nothing.
LEMMA NowStopped ==
  ASSUME PageInv, NEW r \in requests, Running(r), requests' = requests \ {r},
         view' \in {"landing", "stopped", "recovery"}, buttons' \in ButtonType,
         intake.pending => view' = "landing", assistant.streaming => view' = "stopped",
         created' = created,
         UNCHANGED <<review, stored, shown, operation, source, assistant, chat, intake, erased>>
  PROVE  PageInv'
  <1>1. PageTypeOK /\ OperationInv /\ ErasedInv /\ FormInv /\ ChatInv
    BY PageParts
  <1>2. PageTypeOK'
    BY <1>1 DEF PageTypeOK, ButtonType
  <1>3. OperationInv'
    BY <1>1, Stopped
  <1>4. Same({"detect"}) /\ Same({"message", "history"})
    BY DEF Same, Running, Operates, OperationKind
  <1>5. ErasedInv' /\ FormInv' /\ ChatInv'
    BY <1>1, <1>4, ErasedFrame, FormFrame, ChatFrame DEF PageTypeOK
  <1> QED
    BY <1>2, <1>3, <1>5 DEF PageInv

LEMMA RetryAnsweredKeeps ==
  ASSUME PageInv, NEW r, RetryAnswered(r)
  PROVE  PageInv'
  <1>1. /\ PageTypeOK /\ OperationInv /\ ErasedInv /\ FormInv /\ ChatInv
        /\ r \in requests /\ r.kind = "retry" /\ Operates(r) /\ requests' = requests \ {r}
        /\ UNCHANGED <<review, stored, shown, operation, assistant, chat, intake, created, erased>>
    BY PageParts DEF RetryAnswered, Operates, OperationKind, reviewVars
  <1>2. created \in Nat /\ buttons \in ButtonType
    BY <1>1 DEF PageTypeOK, ButtonType
  <1>3. CASE ~Current(r)
    <2>1. UNCHANGED <<view, source, buttons>>
      BY <1>3 DEF RetryAnswered
    <2> QED
      BY <1>1, <1>2, <1>3, <2>1, LateAnswer DEF Running, ButtonType
  <1>4. CASE Current(r)
    <2>1. /\ Running(r) /\ view = "recovery" /\ ~intake.pending /\ ~assistant.streaming
          /\ r.review = review /\ review # NoReview
      BY <1>1, <1>4, PageParts DEF Running, OperationInv, RunningFits
    <2>2. CASE Watch(operation, r.review) /\ UNCHANGED buttons
      <3>1. review' \in 1 .. created' /\ review' \notin erased
        BY <1>1, <2>1 DEF PageTypeOK, NoReview, ErasedInv
      <3>2. view' = "progress" /\ source' = Watching(operation, review')
        BY <1>1, <2>1, <2>2 DEF Watch
      <3> QED
        BY <1>1, <1>2, <2>1, <2>2, <3>1, <3>2, NowWatching DEF PageTypeOK
    <2>3. CASE /\ view' \in {"stopped", "recovery"} /\ source' = source
               /\ buttons' = buttons \/ buttons' = [buttons EXCEPT !.retryOff = FALSE]
      <3>1. buttons' \in ButtonType
        BY <1>2, <2>3, ButtonsStayTyped
      <3> QED
        BY <1>1, <2>1, <2>3, <3>1, NowStopped
    <2> QED
      BY <1>4, <2>2, <2>3 DEF RetryAnswered
  <1> QED
    BY <1>3, <1>4

LEMMA SilencedIs ==
  ASSUME PageTypeOK
  PROVE  /\ Silenced \in [history : Nat, request : Nat, streaming : BOOLEAN, sendOff : BOOLEAN]
         /\ ~Silenced.streaming
  BY DEF PageTypeOK, Silenced

LEMMA CorrectionAnsweredKeeps ==
  ASSUME PageInv, NEW r, CorrectionAnswered(r)
  PROVE  PageInv'
  <1>1. /\ PageTypeOK /\ OperationInv /\ ErasedInv /\ FormInv /\ ChatInv
        /\ r \in requests /\ r.kind = "correct" /\ Operates(r) /\ requests' = requests \ {r}
        /\ UNCHANGED <<shown, operation, chat, intake, erased>>
    BY PageParts DEF CorrectionAnswered, Operates, OperationKind
  <1>2. created \in Nat /\ buttons \in ButtonType
    BY <1>1 DEF PageTypeOK, ButtonType
  <1>3. buttons' \in ButtonType
    <2>1. buttons' = buttons \/ buttons' = [buttons EXCEPT !.correctOff = FALSE]
      BY DEF CorrectionAnswered
    <2> QED
      BY <1>2, <2>1, ButtonsStayTyped
  <1>4. CASE ~Current(r)
    <2>1. UNCHANGED <<view, review, stored, source, assistant>> /\ created' \in {created, created + 1}
      BY <1>4 DEF CorrectionAnswered
    <2> QED
      BY <1>1, <1>2, <1>3, <1>4, <2>1, LateAnswer DEF Running, ButtonType
  <1>5. CASE Current(r)
    <2>1. Running(r) /\ view = "results" /\ ~intake.pending
      BY <1>1, <1>5, PageParts DEF Running, OperationInv, RunningFits
    <2>2. CASE /\ created' = created + 1 /\ review' = created' /\ stored' = created'
               /\ Watch(operation, created') /\ assistant' = Silenced
      <3>1. /\ review' \in 1 .. created' /\ review' \notin 0 .. created
            /\ created' \in Nat /\ created <= created' /\ review' \notin erased
        BY <1>1, <1>2, <2>2 DEF PageTypeOK
      <3>2. view' = "progress" /\ source' = Watching(operation, review')
        BY <2>2 DEF Watch
      <3>3. /\ assistant' \in [history : Nat, request : Nat, streaming : BOOLEAN, sendOff : BOOLEAN]
            /\ ~assistant'.streaming
        BY <1>1, <2>2, SilencedIs
      <3> QED
        BY <1>1, <1>3, <2>1, <2>2, <3>1, <3>2, <3>3, NowWatching
    <2>3. CASE view' = "stopped" /\ UNCHANGED <<review, stored, source, assistant, created>>
      BY <1>1, <1>3, <2>1, <2>3, NowStopped
    <2> QED
      BY <1>5, <2>2, <2>3 DEF CorrectionAnswered
  <1> QED
    BY <1>4, <1>5

LEMMA DeleteAnsweredKeeps ==
  ASSUME PageInv, NEW r, DeleteAnswered(r)
  PROVE  PageInv'
  <1>1. /\ PageTypeOK /\ OperationInv /\ ErasedInv /\ FormInv /\ ChatInv
        /\ r \in requests /\ r.kind = "delete" /\ Operates(r) /\ requests' = requests \ {r}
        /\ buttons' = [buttons EXCEPT !.resetPending = FALSE]
        /\ view' = IF Current(r) THEN "landing" ELSE view
        /\ UNCHANGED <<review, stored, shown, operation, source, assistant, chat, intake, created, erased>>
    BY PageParts DEF DeleteAnswered, Operates, OperationKind, reviewVars
  <1>2. created \in Nat /\ buttons' \in ButtonType
    BY <1>1, ButtonsStayTyped DEF PageTypeOK, ButtonType
  <1>3. CASE ~Current(r)
    <2>1. view' = view /\ ~Running(r) /\ created <= created'
      BY <1>1, <1>2, <1>3 DEF Running
    <2> QED
      BY <1>1, <1>2, <2>1, LateAnswer DEF ButtonType
  <1>4. CASE Current(r)
    <2>1. Running(r) /\ view = "landing" /\ view' = "landing" /\ ~assistant.streaming
      BY <1>1, <1>4, PageParts DEF Running, OperationInv, RunningFits
    <2> QED
      BY <1>1, <1>2, <2>1, NowStopped
  <1> QED
    BY <1>3, <1>4

LEMMA ResetKeeps ==
  ASSUME PageInv, Reset
  PROVE  PageInv'
  <1>1. /\ PageTypeOK /\ OperationInv /\ ErasedInv /\ FormInv /\ ChatInv
        /\ view # "landing" /\ ~intake.pending
    BY PageParts DEF Reset
  <1>2. /\ operation' = operation + 1 /\ source' = NoSource
        /\ review' = NoReview /\ stored' = NoReview /\ shown' = NoReview /\ chat' = {}
        /\ assistant' = Silenced /\ intake' = [NoFile EXCEPT !.epoch = intake.epoch]
        /\ view' = "landing"
        /\ erased' = erased \union ({review, stored, shown} \ {NoReview})
        /\ created' = created
    BY DEF Reset, Begin, Forget
  <1>3. operation \in Nat /\ operation + 1 \in Nat /\ review \in Nat /\ intake.epoch \in Nat
    BY <1>1 DEF PageTypeOK
  <1>4. PICK ask \in Request :
          /\ ask = Ask("delete", operation + 1, review, 0)
          /\ ask.kind = "delete" /\ ask.epoch = operation + 1
    <2>1. "delete" \in RequestKind /\ 0 \in Nat
      BY DEF RequestKind, OperationKind
    <2> QED
      BY <1>3, <2>1, AskIs
  <1>5. requests \subseteq requests' /\ requests' \subseteq requests \union {ask}
    <2>1. requests' = requests \union {Ask("delete", operation + 1, id, 0) : id \in {review} \ {NoReview}}
      BY <1>2 DEF Reset
    <2> QED
      BY <1>4, <2>1
  <1>6. buttons' \in ButtonType
    <2>1. buttons' = [buttons EXCEPT !.resetPending = review # NoReview, !.correctOff = TRUE]
      BY DEF Reset
    <2>2. (review # NoReview) \in BOOLEAN /\ TRUE \in BOOLEAN
      OBVIOUS
    <2> QED
      BY <1>1, <2>1, <2>2, ButtonsStayTyped DEF PageTypeOK, ButtonType
  <1>7. /\ assistant' \in [history : Nat, request : Nat, streaming : BOOLEAN, sendOff : BOOLEAN]
        /\ ~assistant'.streaming
    BY <1>1, <1>2, SilencedIs
  <1>8. /\ intake' \in [file : Nat, country : Nat, epoch : Nat, pending : BOOLEAN, confirm : BOOLEAN]
        /\ intake'.country = 0 /\ intake'.epoch = intake.epoch /\ ~intake'.pending
    BY <1>2, <1>3 DEF NoFile
  <1>9. NoSource \in Source /\ NoSource.review = NoReview
    BY SourceIs, 0 \in Nat
  <1>10. PageTypeOK'
    <2>1. erased' \subseteq 1 .. created'
      BY <1>1, <1>2 DEF PageTypeOK, NoReview
    <2>2. NoReview \in 0 .. created'
      BY <1>1, <1>2 DEF PageTypeOK, NoReview
    <2>3. requests' \subseteq Request
      BY <1>1, <1>5 DEF PageTypeOK
    <2> QED
      BY <1>1, <1>2, <1>3, <1>6, <1>7, <1>8, <1>9, <2>1, <2>2, <2>3 DEF PageTypeOK, ButtonType
  <1>11. OperationInv'
    <2>1. OneOperation' /\ RunningFits' /\ SourceInv'
      BY <1>1, <1>2, <1>3, <1>4, <1>5, OperationBegun, RequestFields DEF PageTypeOK
    <2>2. ProgressInv' /\ ResultsInv'
      BY <1>2 DEF ProgressInv, ResultsInv
    <2> QED
      BY <2>1, <2>2 DEF OperationInv
  <1>12. ErasedInv'
    <2>1. NoReview \notin erased'
      BY <1>1, <1>2 DEF PageTypeOK, NoReview
    <2> QED
      BY <1>2, <1>9, <2>1 DEF ErasedInv
  <1>13. FormInv'
    <2>1. \A q \in requests' : q.kind = "detect" => q \in requests
      BY <1>4, <1>5
    <2>2. \A q \in requests' : q.kind = "detect" => q.epoch <= intake.epoch /\ q.epoch # intake.epoch
      BY <1>1, <2>1 DEF FormInv, DetectionInv
    <2> QED
      BY <1>8, <2>2 DEF FormInv, CountryInv, DetectionInv
  <1>14. ChatInv'
    <2>1. \A q \in requests' : q.kind = "message" => q.review \in 1 .. created' /\ q.review # review'
      BY <1>1, <1>2, <1>4, <1>5 DEF ChatInv, MessageInv, NoReview
    <2> QED
      BY <1>2, <1>7, <2>1 DEF ChatInv, MessageInv, StreamingInv, HistoryInv
  <1> QED
    BY <1>10, <1>11, <1>12, <1>13, <1>14 DEF PageInv

-----------------------------------------------------------------------------
(* The assistant. *)

LEMMA HistoryAnsweredKeeps ==
  ASSUME PageInv, NEW r, HistoryAnswered(r)
  PROVE  PageInv'
  <1>1. /\ PageTypeOK /\ OperationInv /\ ErasedInv /\ FormInv /\ ChatInv
        /\ intake.pending => view = "landing"
        /\ r \in requests /\ r.kind = "history" /\ requests' = requests \ {r}
        /\ UNCHANGED <<view, review, stored, shown, operation, source, buttons, intake, created, erased>>
    BY PageParts DEF HistoryAnswered, PageTypeOK, reviewVars
  <1>2. \/ UNCHANGED <<chat, assistant>> /\ ~HistoryIsCurrent(r)
        \/ /\ chat' \in {chat, {}, {r.review}} /\ r.review = review
           /\ assistant' = [assistant EXCEPT !.sendOff = IF assistant.streaming THEN @ ELSE FALSE]
    BY DEF HistoryAnswered, HistoryIsCurrent
  <1>3. chat' \subseteq Nat /\ chat' \intersect erased = {}
    <2>1. /\ chat \subseteq Nat /\ chat \intersect erased = {}
          /\ review \in Nat /\ review \notin erased
      BY <1>1 DEF PageTypeOK, ErasedInv
    <2>2. chat' = chat \/ chat' = {} \/ chat' = {review}
      BY <1>2
    <2> QED
      BY <2>1, <2>2
  <1>4. CASE assistant' = assistant /\ (assistant.streaming \/ ~HistoryIsCurrent(r))
    <2>1. PageTypeOK'
      BY <1>1, <1>3, <1>4 DEF PageTypeOK
    <2>2. Same(OperationKind) /\ Same({"detect"})
      BY <1>1 DEF Same, OperationKind
    <2>3. OperationInv' /\ FormInv'
      BY <1>1, <2>2, OperationFrame, FormFrame
    <2>4. ErasedInv'
      BY <1>1, <1>3 DEF ErasedInv
    <2>5. MessageInv'
      BY <1>1, <1>4 DEF ChatInv, MessageInv
    <2>6. StreamingInv'
      BY <1>1, <1>4 DEF ChatInv, StreamingInv, MessageIsCurrent
    <2>7. HistoryInv'
      BY <1>1, <1>4 DEF ChatInv, HistoryInv, HistoryIsCurrent
    <2> QED
      BY <2>1, <2>3, <2>4, <2>5, <2>6, <2>7 DEF PageInv, ChatInv
  <1>5. CASE assistant' = [assistant EXCEPT !.sendOff = FALSE] /\ ~assistant.streaming
    <2>1. assistant \in [history : Nat, request : Nat, streaming : BOOLEAN, sendOff : BOOLEAN]
      BY <1>1 DEF PageTypeOK
    <2>2. /\ assistant' \in [history : Nat, request : Nat, streaming : BOOLEAN, sendOff : BOOLEAN]
          /\ ~assistant'.sendOff /\ ~assistant'.streaming /\ assistant'.request = assistant.request
      BY <1>5, <2>1, Zenon
    <2>3. PageTypeOK'
      BY <1>1, <1>3, <2>2 DEF PageTypeOK
    <2>4. Same(OperationKind) /\ Same({"detect"})
      BY <1>1 DEF Same, OperationKind
    <2>5. OperationInv' /\ FormInv'
      BY <1>1, <2>4, OperationFrame, FormFrame
    <2>6. ErasedInv'
      BY <1>1, <1>3 DEF ErasedInv
    <2>7. MessageInv'
      BY <1>1, <1>5, <2>2 DEF ChatInv, MessageInv
    <2>8. StreamingInv' /\ HistoryInv'
      BY <2>2 DEF StreamingInv, HistoryInv
    <2> QED
      BY <2>3, <2>5, <2>6, <2>7, <2>8 DEF PageInv, ChatInv
  <1>6. \/ assistant' = assistant /\ (assistant.streaming \/ ~HistoryIsCurrent(r))
        \/ assistant' = [assistant EXCEPT !.sendOff = FALSE] /\ ~assistant.streaming
    <2>1. CASE assistant.streaming
      <3>1. [assistant EXCEPT !.sendOff = assistant.sendOff] = assistant
        BY <1>1 DEF PageTypeOK
      <3> QED
        BY <1>2, <2>1, <3>1
    <2>2. CASE ~assistant.streaming
      BY <1>2, <2>2
    <2> QED
      BY <2>1, <2>2
  <1> QED
    BY <1>4, <1>5, <1>6

LEMMA SendKeeps ==
  ASSUME PageInv, Send
  PROVE  PageInv'
  <1>1. /\ PageTypeOK /\ OperationInv /\ ErasedInv /\ FormInv /\ ChatInv
        /\ view = "results" /\ review # NoReview /\ ~assistant.streaming
        /\ intake.pending => view = "landing"
        /\ UNCHANGED <<view, review, stored, shown, operation, source, buttons, intake, created, erased>>
    BY PageParts DEF Send, PageTypeOK, reviewVars
  <1>2. assistant.request + 1 \in Nat /\ assistant.history + 1 \in Nat /\ review \in Nat
    BY <1>1 DEF PageTypeOK
  <1>3. PICK ask \in Request :
          /\ ask = Ask("message", assistant.request + 1, review, 0)
          /\ ask.kind = "message" /\ ask.epoch = assistant.request + 1 /\ ask.review = review
    <2>1. "message" \in RequestKind /\ 0 \in Nat
      BY DEF RequestKind
    <2> QED
      BY <1>2, <2>1, AskIs
  <1>4. /\ assistant' = [history |-> assistant.history + 1, request |-> assistant.request + 1,
                         streaming |-> TRUE, sendOff |-> TRUE]
        /\ chat' = chat \union {review}
        /\ requests' = requests \union {ask}
    BY <1>3 DEF Send
  <1>5. /\ assistant' \in [history : Nat, request : Nat, streaming : BOOLEAN, sendOff : BOOLEAN]
        /\ assistant'.request = assistant.request + 1 /\ assistant'.streaming /\ assistant'.sendOff
    BY <1>2, <1>4
  <1>6. PageTypeOK'
    BY <1>1, <1>2, <1>3, <1>4, <1>5 DEF PageTypeOK
  <1>7. OperationInv' /\ FormInv'
    <2>1. Same(OperationKind) /\ Same({"detect"})
      BY <1>3, <1>4 DEF Same, OperationKind
    <2> QED
      BY <1>1, <2>1, OperationFrame, FormFrame
  <1>8. ErasedInv'
    BY <1>1, <1>4 DEF ErasedInv
  <1>9. ChatInv'
    <2>1. ASSUME NEW q \in requests', q.kind = "message", q.review = review PROVE q = ask
      BY <1>1, <1>4, <2>1 DEF ChatInv, MessageInv
    <2>2. \A q \in requests' : q.kind = "message" => q.review \in 1 .. created
      BY <1>1, <1>3, <1>4 DEF ChatInv, MessageInv, PageTypeOK, NoReview
    <2>3. MessageInv'
      BY <1>1, <1>3, <1>5, <2>1, <2>2 DEF MessageInv
    <2>4. ask \in requests' /\ MessageIsCurrent(ask)'
      BY <1>1, <1>3, <1>4, <1>5 DEF MessageIsCurrent
    <2>5. StreamingInv' /\ HistoryInv'
      BY <1>1, <1>3, <1>5, <2>4 DEF StreamingInv, HistoryInv
    <2> QED
      BY <2>3, <2>5 DEF ChatInv
  <1> QED
    BY <1>6, <1>7, <1>8, <1>9 DEF PageInv

LEMMA MessageAnsweredKeeps ==
  ASSUME PageInv, NEW r, MessageAnswered(r)
  PROVE  PageInv'
  <1>1. /\ PageTypeOK /\ OperationInv /\ ErasedInv /\ FormInv /\ ChatInv
        /\ intake.pending => view = "landing"
        /\ r \in requests /\ r.kind = "message" /\ requests' = requests \ {r}
        /\ UNCHANGED <<view, review, stored, shown, operation, source, buttons, chat, intake, created,
                       erased>>
    BY PageParts DEF MessageAnswered, PageTypeOK, reviewVars
  <1>2. assistant \in [history : Nat, request : Nat, streaming : BOOLEAN, sendOff : BOOLEAN]
    BY <1>1 DEF PageTypeOK
  <1>3. OperationInv' /\ FormInv' /\ ErasedInv'
    <2>1. Same(OperationKind) /\ Same({"detect"})
      BY <1>1 DEF Same, OperationKind
    <2> QED
      BY <1>1, <2>1, OperationFrame, FormFrame, ErasedFrame
  <1>4. CASE MessageIsCurrent(r)
    <2>1. assistant' = [assistant EXCEPT !.streaming = FALSE, !.sendOff = FALSE]
      BY <1>4 DEF MessageAnswered
    <2>2. /\ assistant' \in [history : Nat, request : Nat, streaming : BOOLEAN, sendOff : BOOLEAN]
          /\ ~assistant'.streaming /\ ~assistant'.sendOff
      BY <1>2, <2>1, Zenon
    <2>3. PageTypeOK'
      BY <1>1, <2>2 DEF PageTypeOK
    <2>4. \A q \in requests' : q.kind = "message" => q.review \in 1 .. created /\ q.review # review
      BY <1>1, <1>4 DEF ChatInv, MessageInv, MessageIsCurrent
    <2>5. ChatInv'
      BY <1>1, <2>2, <2>4 DEF ChatInv, MessageInv, StreamingInv, HistoryInv
    <2> QED
      BY <1>3, <2>3, <2>5 DEF PageInv
  <1>5. CASE ~MessageIsCurrent(r)
    <2>1. assistant' = assistant
      BY <1>5 DEF MessageAnswered
    <2>2. PageTypeOK'
      BY <1>1, <2>1 DEF PageTypeOK
    <2>3. MessageInv'
      BY <1>1, <2>1 DEF ChatInv, MessageInv
    <2>4. StreamingInv'
      BY <1>1, <1>5, <2>1 DEF ChatInv, StreamingInv, MessageIsCurrent
    <2>5. HistoryInv'
      BY <1>1, <2>1 DEF ChatInv, HistoryInv, HistoryIsCurrent
    <2> QED
      BY <1>3, <2>2, <2>3, <2>4, <2>5 DEF PageInv, ChatInv
  <1> QED
    BY <1>4, <1>5

-----------------------------------------------------------------------------
(* The page as a whole. *)

LEMMA PageInitInv == PageInit => PageInv
  <1> SUFFICES ASSUME PageInit PROVE PageInv
    OBVIOUS
  <1>1. /\ Buttons \in [resetPending : BOOLEAN, correctOff : BOOLEAN, retryOff : BOOLEAN]
        /\ Quiet \in [history : Nat, request : Nat, streaming : BOOLEAN, sendOff : BOOLEAN]
        /\ NoFile \in [file : Nat, country : Nat, epoch : Nat, pending : BOOLEAN, confirm : BOOLEAN]
        /\ ~Quiet.streaming /\ ~NoFile.pending /\ NoFile.country = 0
    BY DEF Buttons, Quiet, NoFile
  <1>2. NoSource \in Source /\ NoSource.review = NoReview
    BY SourceIs, 0 \in Nat
  <1>3. PageTypeOK
    BY <1>1, <1>2 DEF PageInit, PageTypeOK, NoReview
  <1>4. OperationInv
    BY DEF PageInit, OperationInv, OneOperation, RunningFits, ProgressInv, SourceInv, ResultsInv
  <1>5. ErasedInv
    BY DEF PageInit, ErasedInv
  <1>6. FormInv /\ ChatInv
    BY <1>1 DEF PageInit, FormInv, CountryInv, DetectionInv, ChatInv, MessageInv, StreamingInv, HistoryInv
  <1> QED
    BY <1>3, <1>4, <1>5, <1>6 DEF PageInv

LEMMA PageStepKeeps == PageInv /\ [PageNext]_pageVars => PageInv'
  <1> SUFFICES ASSUME PageInv, [PageNext]_pageVars PROVE PageInv'
    OBVIOUS
  <1>1. CASE UNCHANGED pageVars
    <2>1. UNCHANGED <<view, review, stored, shown, operation, source, requests, buttons, assistant, chat,
                      intake, created, erased>>
      BY <1>1 DEF pageVars
    <2>2. /\ PageTypeOK /\ OperationInv /\ ErasedInv /\ FormInv /\ ChatInv
          /\ intake.pending => view = "landing"
          /\ assistant.streaming => view \in {"results", "stopped"}
      BY PageParts DEF PageTypeOK
    <2>3. Same(OperationKind) /\ Same({"detect"}) /\ Same({"message", "history"})
      BY <2>1 DEF Same
    <2>4. OperationInv' /\ ErasedInv' /\ FormInv' /\ ChatInv'
      BY <2>1, <2>2, <2>3, OperationFrame, ErasedFrame, FormFrame, ChatFrame DEF PageTypeOK
    <2>5. PageTypeOK'
      BY <2>1, <2>2 DEF PageTypeOK
    <2> QED
      BY <2>4, <2>5 DEF PageInv
  <1>2. CASE \E file \in 1 .. MaxFile : ChooseFile(file)
    BY <1>2, ChooseFileKeeps, PageAssumption DEF PageAssumption
  <1>3. CASE ConfirmCountry \/ Submit \/ Reload \/ RetryResearch \/ Correct \/ Reset \/ Send
    BY <1>3, ConfirmCountryKeeps, SubmitKeeps, ReloadKeeps, RetryResearchKeeps, CorrectKeeps,
       ResetKeeps, SendKeeps
  <1>4. CASE AnyAnswer
    BY <1>4, DetectionAnsweredKeeps, SubmitAnsweredKeeps, RestoreAnsweredKeeps, ResultAnsweredKeeps,
       RetryAnsweredKeeps, CorrectionAnsweredKeeps, DeleteAnsweredKeeps, HistoryAnsweredKeeps,
       MessageAnsweredKeeps DEF AnyAnswer
  <1>5. CASE SourceEvent
    BY <1>5, RunCompletedKeeps, RunFailedKeeps, SourceErrorKeeps, SourceOpensKeeps DEF SourceEvent
  <1> QED
    BY <1>1, <1>2, <1>3, <1>4, <1>5 DEF PageNext

\* The inductive invariant holds whatever the user does and the server answers.
THEOREM PageInvHolds == PageSpec => []PageInv
  <1> QED
    BY PageInitInv, PageStepKeeps, PTL DEF PageSpec

\* Nothing of a review the user has erased is shown, watched, stored or talked about again.
THEOREM ErasedForGood == PageSpec => []NothingErasedComesBack
  <1>1. PageInv => NothingErasedComesBack
    BY DEF PageInv, ErasedInv, NothingErasedComesBack
  <1> QED
    BY <1>1, PageInvHolds, PTL

\* A progress view has something that will end it, a source or a result is of the current
\* review, and the country of the form is that of the chosen file.
THEOREM ScreenIsTrue == PageSpec => []ScreenMatchesOperation
  <1>1. PageInv => ScreenMatchesOperation
    BY DEF PageInv, OperationInv, ProgressInv, SourceInv, ResultsInv, FormInv, CountryInv,
           ScreenMatchesOperation, Active
  <1> QED
    BY <1>1, PageInvHolds, PTL

\* The reader of results can ask, and only one question at a time.
THEOREM SendComesBack == PageSpec => []SendIsNeverStuck
  <1>1. PageInv => SendIsNeverStuck
    <2> SUFFICES ASSUME PageInv PROVE SendIsNeverStuck
      OBVIOUS
    <2>1. MessageInv /\ StreamingInv /\ HistoryInv
      BY DEF PageInv, ChatInv
    <2>2. ASSUME view = "results", assistant.sendOff
          PROVE  \E r \in requests : \/ r.kind = "history" /\ HistoryIsCurrent(r)
                                     \/ r.kind = "message" /\ MessageIsCurrent(r)
      BY <2>1, <2>2 DEF StreamingInv, HistoryInv
    <2>3. ASSUME ~assistant.sendOff, NEW r \in requests
          PROVE  ~(r.kind = "message" /\ r.review = review)
      BY <2>1, <2>3 DEF MessageInv, StreamingInv
    <2> QED
      BY <2>2, <2>3 DEF SendIsNeverStuck
  <1> QED
    BY <1>1, PageInvHolds, PTL

=============================================================================
