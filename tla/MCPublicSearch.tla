-------------------------- MODULE MCPublicSearch --------------------------
(* Answers of the web search and of the normalization for the runs of PublicSearch. *)
EXTENDS PublicSearch

MCUrl == {"wb", "bbc", "rw", "local", "x", "api", "blog"}

MCUrlDate == [u \in MCUrl |-> IF u = "bbc" THEN 2 ELSE NoDate]

MCTitlePlaces ==
    [u \in MCUrl |-> IF u = "wb" THEN {"here"} ELSE IF u = "rw" THEN {"here", "there"} ELSE {}]

Passage(id, length, places, dated) ==
    [id |-> id, length |-> length, places |-> places, dated |-> dated]

About == Passage("about", 1, {"here"}, NoDate)
Silent == Passage("silent", 1, {}, NoDate)
Dated == Passage("dated", 1, {"here", "there"}, 1)
Abroad == Passage("abroad", 1, {"there"}, NoDate)
Long == Passage("long", 4, {"here"}, NoDate)
Large == Passage("large", 2, {"here"}, NoDate)

\* A piece of a passage, and what begins in one passage and ends in the next.
Piece == Passage("piece", 1, {}, NoDate)
Across == Passage("across", 2, {"here"}, NoDate)

MCPassages == {About, Silent, Dated, Abroad, Long, Large, Piece, Across}

MCPartOf ==
    [p \in MCPassages |-> {<<p>>} \union (IF p = Piece THEN {<<Large>>} ELSE {})
                          \union (IF p = Across THEN {<<Silent, Large>>} ELSE {})]

Result(url, dates) == [type |-> "result", url |-> url, dates |-> dates]
SearchBlock(items) == [type |-> "search", items |-> items]
TextBlock(text, citations) == [type |-> "text", text |-> text, citations |-> citations]
Cite(url, passage) == [url |-> url, dates |-> {}, sameTitle |-> TRUE, passage |-> passage]
Answer(blocks) == [blocks |-> blocks, paused |-> FALSE]

\* One source that is listed up to three times, with any dates, and cited with one or none.
Listings ==
    {Answer(<<SearchBlock([i \in DOMAIN ds |-> Result(u, ds[i])]),
              TextBlock(About, <<[Cite(u, p) EXCEPT !.dates = d]>>)>>) :
        ds \in UNION {[1 .. n -> {{}, {1}, {2}, {1, 2}}] : n \in 1 .. 3}, d \in {{}, {2}},
        u \in {"wb", "bbc"}, p \in {About, Dated}}

\* Up to three citations of five sources that are listed in either order.
Citations ==
    {Answer(<<SearchBlock(IF swapped THEN Reverse(items) ELSE items), TextBlock(Silent, cs)>>) :
        swapped \in BOOLEAN,
        items \in {<<Result("local", {}), Result("rw", {1}), Result("wb", {}), Result("bbc", {}), Result("x", {})>>},
        cs \in UNION {[1 .. n -> {Cite("wb", Silent), Cite("wb", Large), Cite("rw", Abroad),
                                  Cite("rw", About), Cite("local", Dated), Cite("x", About),
                                  Cite("bbc", About)}] : n \in 1 .. 3}}

\* Sources that are barred, one of them until the model calls it analysis.
BarredSources ==
    {Answer(<<SearchBlock(<<Result("api", {}), Result("blog", {}), Result("wb", {})>>),
              TextBlock(Silent, cs)>>) :
        cs \in UNION {[1 .. n -> {Cite("wb", Silent), Cite("wb", Large), Cite("api", About),
                                  Cite("blog", About)}] : n \in 1 .. 3}}

\* Errors, malformed and empty results, a text before its results, other titles, paused turns.
Oddities ==
    {Answer(<<>>), Answer(<<SearchBlock(<<>>)>>),
     Answer(<<SearchBlock(<<[type |-> "error"]>>)>>),
     Answer(<<SearchBlock(<<[type |-> "other"]>>)>>),
     Answer(<<TextBlock(About, <<Cite("wb", About)>>), SearchBlock(<<Result("wb", {1})>>)>>),
     Answer(<<SearchBlock(<<Result(NoUrl, {1}), Result("wb", {}), [type |-> "error"]>>),
              TextBlock(Long, <<[Cite("wb", About) EXCEPT !.dates = {1}], Cite("wb", Long)>>)>>),
     Answer(<<SearchBlock(<<Result("wb", {1})>>),
              TextBlock(About, <<[Cite("wb", About) EXCEPT !.sameTitle = FALSE]>>)>>),
     [blocks |-> <<SearchBlock(<<Result("bbc", {}), Result("wb", {})>>),
                   TextBlock(About, <<Cite("bbc", Large)>>)>>, paused |-> TRUE],
     [blocks |-> <<>>, paused |-> TRUE]}

MCResponses == Listings \union Citations \union BarredSources \union Oddities

MCClaimId == {<<"a">>, <<"b">>}

Judged(id, url, quote, quality, relevant, sort) ==
    [id |-> <<id>>, url |-> url, quote |-> quote, date |-> 9, verification |-> "verified",
     quality |-> quality, relevant |-> relevant, sort |-> sort, salvaged |-> FALSE]

Some(id) ==
    {Judged(id, "wb", Piece, "none", TRUE, "public"), Judged(id, "wb", About, "analysis", FALSE, "public"),
     Judged(id, "rw", About, "unsuitable", TRUE, "public"), Judged(id, "wb", Across, "none", TRUE, "public"),
     Judged(id, "local", Dated, "analysis", TRUE, "public"), Judged(id, "rw", About, "none", TRUE, "public"),
     Judged(id, "blog", About, "analysis", TRUE, "blog"), Judged(id, "bbc", About, "reporting", TRUE, "defective")}

MCBatches ==
    {<<>>} \union {<<c>> : c \in Some("a")} \union {<<c, d>> : c \in Some("a"), d \in Some("b")}
    \union {<<c, c>> : c \in Some("a")}
=============================================================================
