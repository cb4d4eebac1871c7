-------------------------- MODULE MCReviewPipeline --------------------------
(* Drafts for the runs of ReviewPipeline: a good one, and what a few things that may be *)
(* different about it make of it.                                                       *)
EXTENDS ReviewPipeline

MCRow(id, status, safe, worded) ==
    [id |-> id, status |-> status, safe |-> safe, worded |-> worded]

MCArea(judgement, evidence, advice) ==
    [id |-> "a1", judgement |-> judgement, evidence |-> evidence, advice |-> advice]

OtherArea == [MCArea("second", "known", FALSE) EXCEPT !.id = "a2"]

GoodDraft ==
    [driver |-> <<MCRow("d1", "aligned", TRUE, FALSE)>>, other |-> <<>>,
     shift |-> <<MCRow("s", "aligned", TRUE, FALSE)>>,
     areas |-> <<MCArea("first", "known", FALSE)>>, summary |-> <<"a1">>, text |-> {}]

\* The other forms of each part.
Flawed ==
    [driver |-> {<<>>} \union {<<MCRow("d1", f[1], f[2], f[3])>> : f \in
                    {<<"not_evidenced", TRUE, FALSE>>, <<"not_evidenced", FALSE, FALSE>>,
                     <<"partially_aligned", TRUE, FALSE>>, <<"not_assessable", TRUE, FALSE>>,
                     <<"aligned", FALSE, FALSE>>, <<"aligned", TRUE, TRUE>>}},
     other |-> {<<MCRow("d2", "aligned", TRUE, FALSE)>>,
                <<MCRow("d2", "not_evidenced", FALSE, FALSE)>>,
                <<MCRow("d1", "partially_aligned", TRUE, FALSE)>>,
                <<MCRow("d1", "not_assessable", TRUE, FALSE)>>},
     shift |-> {<<>>, <<MCRow("s", "not_evidenced", FALSE, FALSE), MCRow("s", "aligned", TRUE, FALSE)>>,
                <<MCRow("s", "aligned", FALSE, FALSE), MCRow("s", "aligned", TRUE, FALSE)>>,
                <<MCRow("t", "aligned", TRUE, FALSE), MCRow("s", "not_evidenced", TRUE, FALSE)>>}
               \union {<<MCRow(f[1], f[2], f[3], f[4])>> : f \in
                    {<<"s", "not_evidenced", TRUE, FALSE>>, <<"s", "not_evidenced", FALSE, FALSE>>,
                     <<"s", "partially_aligned", TRUE, FALSE>>, <<"s", "not_assessable", TRUE, FALSE>>,
                     <<"s", "aligned", FALSE, FALSE>>, <<"s", "aligned", TRUE, TRUE>>,
                     <<"t", "partially_aligned", TRUE, FALSE>>}},
     areas |-> {<<>>, <<OtherArea>>, <<MCArea("first", "known", FALSE), OtherArea>>}
               \union {<<MCArea(f[1], f[2], f[3])>> : f \in
                    {<<"second", "known", FALSE>>, <<"first", "unknown", FALSE>>,
                     <<"first", "unregistered", FALSE>>, <<"first", "known", TRUE>>}}
               \union {<<MCArea("first", "known", FALSE), MCArea(f[1], f[2], FALSE)>> : f \in
                    {<<"first", "known">>, <<"second", "known">>, <<"second", "unknown">>}},
     summary |-> {<<>>, <<"a1", "a1">>, <<"a1", "a2">>},
     text |-> {{t} : t \in TextFlaw}
              \union {{"raw_evidence_id_in_narrative", "limited_mode_overclaim"}}]

\* One part of a draft takes another form.
Altered(S) ==
    S \union {[d EXCEPT !.driver = v] : d \in S, v \in Flawed.driver}
      \union {[d EXCEPT !.other = v] : d \in S, v \in Flawed.other}
      \union {[d EXCEPT !.shift = v] : d \in S, v \in Flawed.shift}
      \union {[d EXCEPT !.areas = v] : d \in S, v \in Flawed.areas}
      \union {[d EXCEPT !.summary = v] : d \in S, v \in Flawed.summary}
      \union {[d EXCEPT !.text = v] : d \in S, v \in Flawed.text}

Assembled(S) ==
    {[drivers |-> d.driver \o d.other, shift |-> d.shift, areas |-> d.areas,
      summary |-> d.summary, text |-> d.text] : d \in S}

\* Bounds: a first draft differs from the good one in two parts, an answer in one.
Drafts == Assembled(Altered(Altered({GoodDraft})))

Answers == Assembled(Altered({GoodDraft}))
=============================================================================
