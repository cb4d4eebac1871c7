-------------------------- MODULE PublicSearchProofs --------------------------
(***************************************************************************)
(* That what a search of the public web returns is grounded in what the    *)
(* provider answered, that a source the model calls unsuitable does not    *)
(* come back, and that no usable excerpt is lost, for every answer and     *)
(* every batch.                                                            *)
(***************************************************************************)
EXTENDS PublicSearch, IterationLemmas

Basis == {"none", "conflicting", "canonical_url", "provider_metadata", "source_excerpt",
          "article_metadata"}
Stated == [date : Nat, basis : Basis]
SourceType == [date : Nat, basis : Basis, excerpt : Seq(Passages)]
Sources == UNION {[U -> SourceType] : U \in SUBSET Url}
FoundType == [sources : Sources, order : Seq(Url), segments : Seq(Passages \X Url),
              narrative : SUBSET (Passages \X Url)]

\* A date stands for all dates that were stated; without a basis none was.
SourceFits(src, dates) ==
    /\ src.date # NoDate <=> src.basis \notin {"none", "conflicting"}
    /\ src.date # NoDate => dates \subseteq {src.date}
    /\ src.basis = "none" => dates = {}

\* The results among the first m items, and among the first n blocks.
First(items, m) ==
    {x \in Item : x.type = "result" /\ x.url # NoUrl /\ \E k \in 1 .. m : items[k] = x}

Results(blocks, n) ==
    {x \in Item : /\ x.type = "result" /\ x.url # NoUrl
                  /\ \E k \in 1 .. n : /\ blocks[k].type = "search"
                                       /\ \E m \in DOMAIN blocks[k].items : blocks[k].items[m] = x}

Urls(I) == {x.url : x \in I}

\* A citation that counts, after the items in I.
Taken(I, c) ==
    /\ c.url \in Urls(I) /\ c.url \notin Unciteable
    /\ c.sameTitle /\ c.passage.length <= MaxExcerpt

\* The dates the items in I and the citations in C state of a URL.
DatesOf(I, C, url) ==
    {d \in Dates : \/ d = UrlDate[url]
                   \/ \E x \in I : x.url = url /\ d \in x.dates
                   \/ \E c \in C : c.url = url /\ d \in CitationDates(c)}

Quoted(C, url, p) == \E c \in C : c.url = url /\ c.passage = p

\* What was found is what the items in I list and the citations in C cite.
FoundFits(f, I, C) ==
    /\ DOMAIN f.sources = Urls(I)
    /\ \A u \in DOMAIN f.sources :
         /\ SourceFits(f.sources[u], DatesOf(I, C, u))
         /\ \A k \in DOMAIN f.sources[u].excerpt : Quoted(C, u, f.sources[u].excerpt[k])
    /\ \A c \in C : c.url \in Urls(I)
    /\ \A k \in DOMAIN f.order : f.order[k] \in DOMAIN f.sources
    /\ \A k \in DOMAIN f.segments : f.segments[k][2] \in DOMAIN f.sources

-----------------------------------------------------------------------------
(* Sources. *)

LEMMA Typed ==
    /\ Dates \subseteq Nat \ {NoDate} /\ NoDate = 0 /\ NoDate \in Nat
    /\ \A u \in Url : UrlDate[u] \in Dates \union {NoDate} /\ u # NoUrl
    /\ \A p \in Passages : p.dated \in Dates \union {NoDate}
  <1>1. UrlDate \in [Url -> Dates \union {NoDate}] /\ NoUrl \notin Url
        /\ Dates \subseteq Nat \ {NoDate}
    BY PublicSearchAssumption
  <1>2. \A p \in Passages : p.dated \in Dates \union {NoDate}
    BY PublicSearchAssumption
  <1> QED
    BY <1>1, <1>2 DEF NoDate

LEMMA MetadataFits ==
    ASSUME NEW u \in Url, NEW ds \in SUBSET Dates
    PROVE  /\ Metadata(u, ds) \in Stated
           /\ SourceFits(Metadata(u, ds), (ds \union {UrlDate[u]}) \ {NoDate})
  <1> DEFINE all == (ds \union {UrlDate[u]}) \ {NoDate}
  <1>1. all \subseteq Dates /\ all \subseteq Nat \ {NoDate} /\ NoDate \in Nat
    BY Typed
  <1>2. CASE all = {}
    <2>1. Metadata(u, ds) = [date |-> NoDate, basis |-> "none"]
      BY <1>2 DEF Metadata
    <2> QED
      BY <1>1, <1>2, <2>1 DEF Stated, SourceFits, Basis
  <1>3. CASE all # {} /\ \E d, e \in all : d # e
    <2>1. Metadata(u, ds) = [date |-> NoDate, basis |-> "conflicting"]
      BY <1>3 DEF Metadata
    <2> QED
      BY <1>1, <2>1 DEF Stated, SourceFits, Basis
  <1>4. CASE all # {} /\ \A d, e \in all : d = e
    <2> DEFINE d == CHOOSE d \in all : TRUE
               basis == IF ds = {} THEN "canonical_url" ELSE "provider_metadata"
    <2>1. d \in all /\ all \subseteq {d}
      BY <1>4
    <2>2. Metadata(u, ds) = [date |-> d, basis |-> basis]
      BY <1>4 DEF Metadata
    <2>3. basis \in Basis /\ basis \notin {"none", "conflicting"}
      BY DEF Basis
    <2>4. d \in Nat /\ d # NoDate
      BY <1>1, <2>1
    <2> HIDE DEF d, basis, all
    <2> QED
      BY <2>1, <2>2, <2>3, <2>4 DEF Stated, SourceFits, all
  <1> QED
    BY <1>2, <1>3, <1>4

LEMMA MergedFits ==
    ASSUME NEW source \in SourceType, NEW stated \in Stated, NEW D, NEW E,
           SourceFits(source, D), SourceFits(stated, E)
    PROVE  /\ Merged(source, stated) \in SourceType
           /\ Merged(source, stated).excerpt = source.excerpt
           /\ SourceFits(Merged(source, stated), D \union E)
  <1>1. NoDate \in Nat /\ source.date \in Nat /\ stated.date \in Nat
    BY Typed DEF SourceType, Stated
  <1>2. CASE \/ "conflicting" \in {source.basis, stated.basis}
             \/ source.date # NoDate /\ stated.date # NoDate /\ source.date # stated.date
    <2>1. Merged(source, stated) = [source EXCEPT !.date = NoDate, !.basis = "conflicting"]
      BY <1>2 DEF Merged
    <2> QED
      BY <1>1, <2>1 DEF SourceType, SourceFits, Basis
  <1>3. CASE /\ "conflicting" \notin {source.basis, stated.basis}
             /\ ~(source.date # NoDate /\ stated.date # NoDate /\ source.date # stated.date)
             /\ source.basis # "none"
    <2>1. Merged(source, stated) = source
      BY <1>3 DEF Merged
    <2>2. source.date # NoDate /\ D \subseteq {source.date} /\ E \subseteq {source.date}
      BY <1>3 DEF SourceFits
    <2> QED
      BY <1>3, <2>1, <2>2 DEF SourceFits
  <1>4. CASE /\ "conflicting" \notin {source.basis, stated.basis}
             /\ ~(source.date # NoDate /\ stated.date # NoDate /\ source.date # stated.date)
             /\ source.basis = "none"
    <2>1. Merged(source, stated) = [source EXCEPT !.date = stated.date, !.basis = stated.basis]
      BY <1>4 DEF Merged
    <2>2. D = {} /\ stated.basis \in Basis
      BY <1>4 DEF SourceFits, Stated
    <2> DEFINE m == Merged(source, stated)
    <2>3. m \in SourceType /\ m.excerpt = source.excerpt /\ m.date = stated.date
          /\ m.basis = stated.basis
      BY <1>1, <2>1, <2>2 DEF SourceType
    <2> HIDE DEF m
    <2>4. SourceFits(m, D \union E)
      BY <2>2, <2>3 DEF SourceFits
    <2> QED
      BY <2>3, <2>4 DEF m
  <1> QED
    BY <1>2, <1>3, <1>4

LEMMA SourcesFacts ==
    ASSUME NEW f \in FoundType
    PROVE  /\ DOMAIN f.sources \subseteq Url
           /\ \A u \in DOMAIN f.sources : f.sources[u] \in SourceType
           /\ f.sources = [u \in DOMAIN f.sources |-> f.sources[u]]
  <1>1. f.sources \in Sources
    BY DEF FoundType
  <1>2. PICK U \in SUBSET Url : f.sources \in [U -> SourceType]
    BY <1>1 DEF Sources
  <1> QED
    BY <1>2

LEMMA SourcesAre ==
    ASSUME NEW U \in SUBSET Url, NEW g \in [U -> SourceType]
    PROVE  g \in Sources
  BY DEF Sources

\* One more result keeps what was found in line with the results.
LEMMA ListedKeeps ==
    ASSUME NEW f \in FoundType, NEW I \in SUBSET Item, NEW C, FoundFits(f, I, C), NEW x \in Item
    PROVE  LET J == IF x.type = "result" /\ x.url # NoUrl THEN I \union {x} ELSE I
           IN Listed(f, x) \in FoundType /\ FoundFits(Listed(f, x), J, C)
  <1>1. CASE x.type # "result" \/ x.url = NoUrl
    BY <1>1 DEF Listed
  <1>2. CASE x.type = "result" /\ x.url # NoUrl
    <2> DEFINE J == I \union {x}
               u == x.url
               stated == Metadata(u, x.dates)
               E == (x.dates \union {UrlDate[u]}) \ {NoDate}
               g == Listed(f, x)
    <2>1. u \in Url /\ x.dates \in SUBSET Dates
      BY <1>2 DEF Item
    <2>2. stated \in Stated /\ SourceFits(stated, E)
      BY <2>1, MetadataFits
    <2>3. DatesOf(J, C, u) = DatesOf(I, C, u) \union E
      BY <2>1, Typed DEF DatesOf
    <2>4. \A v : v # u => DatesOf(J, C, v) = DatesOf(I, C, v)
      BY DEF DatesOf
    <2>5. Urls(J) = Urls(I) \union {u}
      BY DEF Urls
    <2>6. /\ DOMAIN f.sources \subseteq Url
          /\ \A v \in DOMAIN f.sources : f.sources[v] \in SourceType
          /\ f.sources = [v \in DOMAIN f.sources |-> f.sources[v]]
      BY SourcesFacts
    <2>7. f.order \in Seq(Url) /\ f.segments \in Seq(Passages \X Url)
      BY DEF FoundType
    <2> HIDE DEF stated, E
    <2>8. CASE u \in DOMAIN f.sources
      <3> DEFINE m == Merged(f.sources[u], stated)
      <3>1. g = [f EXCEPT !.sources[u] = m]
        BY <1>2, <2>8 DEF Listed, stated
      <3>2. f.sources[u] \in SourceType /\ SourceFits(f.sources[u], DatesOf(I, C, u))
        BY <2>6, <2>8 DEF FoundFits
      <3>3. m \in SourceType /\ m.excerpt = f.sources[u].excerpt /\ SourceFits(m, DatesOf(I, C, u) \union E)
        BY <2>2, <3>2, MergedFits
      <3> HIDE DEF m
      <3>4. /\ g.sources = [f.sources EXCEPT ![u] = m] /\ g.order = f.order /\ g.segments = f.segments
            /\ g \in [sources : {g.sources}, order : Seq(Url), segments : Seq(Passages \X Url),
                      narrative : SUBSET (Passages \X Url)]
        BY <3>1 DEF FoundType
      <3> HIDE DEF g
      <3>5. /\ DOMAIN g.sources = DOMAIN f.sources
            /\ g.sources[u] = m /\ \A v \in DOMAIN f.sources : v # u => g.sources[v] = f.sources[v]
        BY <2>8, <3>4
      <3>6. g.sources \in [DOMAIN f.sources -> SourceType]
        BY <2>6, <3>3, <3>4
      <3>7. g.sources \in Sources
        BY <2>6, <3>6, SourcesAre
      <3>8. g \in FoundType
        BY <3>4, <3>7 DEF FoundType
      <3>9. Urls(J) = Urls(I)
        BY <2>5, <2>8 DEF FoundFits
      <3>10. \A v \in DOMAIN g.sources :
                 /\ SourceFits(g.sources[v], DatesOf(J, C, v))
                 /\ g.sources[v].excerpt = f.sources[v].excerpt
        <4> HIDE DEF J, u
        <4> QED
          BY <2>3, <2>4, <3>3, <3>5 DEF FoundFits
      <3>11. FoundFits(g, J, C)
        <4>1. \A k \in DOMAIN g.segments : g.segments[k][2] \in DOMAIN g.sources
          BY <3>4, <3>5 DEF FoundFits
        <4> HIDE DEF J, u
        <4> QED
          BY <3>4, <3>5, <3>9, <3>10, <4>1 DEF FoundFits
      <3> QED
        BY <1>2, <3>8, <3>11 DEF g
    <2>9. CASE u \notin DOMAIN f.sources
      <3> DEFINE src == Source(stated)
      <3>1. g = [f EXCEPT
                    !.sources = [v \in DOMAIN @ \union {u} |-> IF v = u THEN src ELSE @[v]],
                    !.order = Append(@, u)]
        BY <1>2, <2>9 DEF Listed, stated
      <3>2. src \in SourceType /\ src.excerpt = <<>> /\ SourceFits(src, E)
        BY <2>2 DEF Source, Stated, SourceType, SourceFits
      <3> HIDE DEF src
      <3>3. /\ g.sources = [v \in DOMAIN f.sources \union {u} |->
                              IF v = u THEN src ELSE f.sources[v]]
            /\ g.order = Append(f.order, u)
            /\ g.segments = f.segments
            /\ g \in [sources : {g.sources}, order : {g.order}, segments : Seq(Passages \X Url),
                      narrative : SUBSET (Passages \X Url)]
        BY <3>1 DEF FoundType
      <3> HIDE DEF g
      <3>4. /\ g.sources = [v \in DOMAIN f.sources \union {u} |->
                              IF v = u THEN src ELSE f.sources[v]]
        BY <3>3
      <3>5. g.sources \in [DOMAIN f.sources \union {u} -> SourceType]
        BY <2>6, <3>2, <3>4
      <3>6. g.sources \in Sources
        <4>1. DOMAIN f.sources \union {u} \in SUBSET Url
          BY <2>1, <2>6
        <4> QED
          BY <3>5, <4>1, SourcesAre
      <3>7. /\ g.order \in Seq(Url) /\ \A k \in DOMAIN g.order :
                  g.order[k] = u \/ (k \in DOMAIN f.order /\ g.order[k] = f.order[k])
        BY <2>1, <2>7, <3>3
      <3>8. g \in FoundType
        BY <3>3, <3>6, <3>7 DEF FoundType
      <3>9. DatesOf(J, C, u) = E
        <4>1. u \notin Urls(I) /\ \A c \in C : c.url # u
          BY <2>9 DEF FoundFits
        <4>2. \A y \in I : y.url # u
          BY <4>1 DEF Urls
        <4> QED
          BY <2>1, <4>1, <4>2, Typed DEF DatesOf, E
      <3>10. FoundFits(g, J, C)
        <4>1. DOMAIN g.sources = Urls(J)
          BY <2>5, <3>4 DEF FoundFits
        <4>2. \A v \in DOMAIN g.sources : SourceFits(g.sources[v], DatesOf(J, C, v))
          <5> HIDE DEF J, u
          <5> QED
            BY <2>4, <3>2, <3>4, <3>9 DEF FoundFits
        <4>3. \A v \in DOMAIN g.sources : \A k \in DOMAIN g.sources[v].excerpt :
                Quoted(C, v, g.sources[v].excerpt[k])
          <5>1. g.sources[u].excerpt = <<>> /\ DOMAIN (<<>>) = {}
            BY <3>2, <3>4
          <5> HIDE DEF J, u
          <5> QED
            BY <3>4, <5>1 DEF FoundFits
        <4>4. \A k \in DOMAIN g.order : g.order[k] \in DOMAIN g.sources
          BY <3>4, <3>7 DEF FoundFits
        <4>5. \A k \in DOMAIN g.segments : g.segments[k][2] \in DOMAIN g.sources
          BY <3>3, <3>4 DEF FoundFits
        <4>6. \A c \in C : c.url \in Urls(J)
          BY <2>5 DEF FoundFits
        <4> HIDE DEF J
        <4> QED
          BY <4>1, <4>2, <4>3, <4>4, <4>5, <4>6 DEF FoundFits
      <3> QED
        BY <1>2, <3>8, <3>10 DEF g
    <2> QED
      BY <2>8, <2>9
  <1> QED
    BY <1>1, <1>2

\* What a citation states fits the dates it states.
LEMMA CitationFits ==
    ASSUME NEW c \in Citation, c.url \in Url
    PROVE  LET stated == IF c.passage.dated # NoDate
                         THEN [date |-> c.passage.dated, basis |-> "source_excerpt"]
                         ELSE Metadata(c.url, c.dates)
           IN /\ stated \in Stated /\ SourceFits(stated, CitationDates(c) \ {NoDate})
              /\ CitationDates(c) \ {NoDate} \subseteq Dates
  <1>1. c.passage \in Passages /\ c.dates \in SUBSET Dates
    BY DEF Citation
  <1>2. CASE c.passage.dated # NoDate
    <2>1. c.passage.dated \in Nat /\ c.passage.dated \in Dates
      BY <1>1, <1>2, Typed
    <2>2. CitationDates(c) \ {NoDate} = {c.passage.dated}
      BY <1>2 DEF CitationDates
    <2> QED
      BY <1>2, <2>1, <2>2 DEF Stated, SourceFits, Basis
  <1>3. CASE c.passage.dated = NoDate
    <2> DEFINE m == Metadata(c.url, c.dates)
               E == (c.dates \union {UrlDate[c.url]}) \ {NoDate}
    <2>1. m \in Stated /\ SourceFits(m, E)
      BY <1>1, MetadataFits
    <2>2. CitationDates(c) \ {NoDate} = E
      BY <1>3 DEF CitationDates
    <2>3. E \subseteq Dates
      BY <1>1, Typed
    <2> HIDE DEF m, E
    <2> QED
      BY <1>3, <2>1, <2>2, <2>3 DEF m
  <1> QED
    BY <1>2, <1>3

\* One more citation keeps it in line with the citations that count.
LEMMA CitedKeeps ==
    ASSUME NEW f \in FoundType, NEW I, NEW C, FoundFits(f, I, C),
           NEW text \in Passages, NEW c \in Citation
    PROVE  /\ Cited(f, text, c) \in FoundType
           /\ FoundFits(Cited(f, text, c), I, IF Taken(I, c) THEN C \union {c} ELSE C)
  <1> DEFINE skipped == \/ c.passage.length > MaxExcerpt \/ c.url \in Unciteable \union {NoUrl}
                        \/ c.url \notin DOMAIN f.sources \/ ~c.sameTitle
  <1>0. /\ c.passage.length \in Nat /\ MaxExcerpt \in Nat /\ DOMAIN f.sources = Urls(I)
        /\ DOMAIN f.sources \subseteq Url /\ NoUrl \notin Url
    <2>1. c.passage \in Passages
      BY DEF Citation
    <2> QED
      BY <2>1, PublicSearchAssumption, SourcesFacts DEF FoundFits
  <1>1. CASE skipped
    <2>1. Cited(f, text, c) = f
      BY <1>1 DEF Cited
    <2>2. ~Taken(I, c)
      BY <1>0, <1>1 DEF Taken
    <2> QED
      BY <2>1, <2>2
  <1>2. CASE ~skipped
    <2> DEFINE u == c.url
               D == C \union {c}
               E == CitationDates(c) \ {NoDate}
               p == c.passage
               stated == IF p.dated # NoDate
                         THEN [date |-> p.dated, basis |-> "source_excerpt"]
                         ELSE Metadata(u, c.dates)
               merged == Merged(f.sources[u], stated)
               excerpt == IF merged.excerpt = <<p>> THEN merged.excerpt
                          ELSE Append(merged.excerpt, p)
               source == IF Length(excerpt) <= MaxExcerpt
                         THEN [merged EXCEPT !.excerpt = excerpt] ELSE merged
               cited == [f EXCEPT !.sources[u] = source]
               g == Cited(f, text, c)
    <2>0. Taken(I, c)
      BY <1>0, <1>2 DEF Taken
    <2>1. u \in Url /\ u \in DOMAIN f.sources /\ p \in Passages /\ Quoted(D, u, p)
          /\ \A d \in D : d.url \in Urls(I)
      BY <1>0, <1>2 DEF Citation, FoundFits, Quoted
    <2>2. /\ DOMAIN f.sources \subseteq Url
          /\ \A v \in DOMAIN f.sources : f.sources[v] \in SourceType
          /\ f.sources = [v \in DOMAIN f.sources |-> f.sources[v]]
      BY SourcesFacts
    <2>3. stated \in Stated /\ SourceFits(stated, E) /\ E \subseteq Dates
      BY <2>1, CitationFits
    <2>31. DatesOf(I, D, u) = DatesOf(I, C, u) \union E
      BY <2>3, Typed DEF DatesOf
    <2>32. \A v : v # u => DatesOf(I, D, v) = DatesOf(I, C, v)
      BY DEF DatesOf
    <2>33. \A v, q : Quoted(C, v, q) => Quoted(D, v, q)
      BY DEF Quoted
    <2> HIDE DEF D, E
    <2> HIDE DEF stated
    <2>4. f.sources[u] \in SourceType /\ SourceFits(f.sources[u], DatesOf(I, C, u))
          /\ \A k \in DOMAIN f.sources[u].excerpt : Quoted(D, u, f.sources[u].excerpt[k])
      BY <2>1, <2>2, <2>33 DEF FoundFits
    <2>5. /\ merged \in SourceType /\ merged.excerpt = f.sources[u].excerpt
          /\ SourceFits(merged, DatesOf(I, D, u))
      <3>1. SourceFits(merged, DatesOf(I, C, u) \union E) /\ merged \in SourceType
            /\ merged.excerpt = f.sources[u].excerpt
        BY <2>3, <2>4, MergedFits
      <3> HIDE DEF merged
      <3> QED
        BY <2>31, <3>1
    <2> HIDE DEF merged
    <2>6. /\ excerpt \in Seq(Passages)
          /\ \A k \in DOMAIN excerpt : Quoted(D, u, excerpt[k])
      <3>1. merged.excerpt \in Seq(Passages) /\ \A k \in DOMAIN merged.excerpt : Quoted(D, u, merged.excerpt[k])
        BY <2>4, <2>5 DEF SourceType
      <3> QED
        BY <2>1, <3>1
    <2> HIDE DEF excerpt
    <2>7. /\ source \in SourceType /\ SourceFits(source, DatesOf(I, D, u))
          /\ \A k \in DOMAIN source.excerpt : Quoted(D, u, source.excerpt[k])
      <3>1. CASE Length(excerpt) <= MaxExcerpt
        <4>1. source = [merged EXCEPT !.excerpt = excerpt]
          BY <3>1
        <4> HIDE DEF source
        <4>2. source \in SourceType /\ source.date = merged.date /\ source.basis = merged.basis
              /\ source.excerpt = excerpt
          BY <2>5, <2>6, <4>1 DEF SourceType
        <4> QED
          BY <2>5, <2>6, <4>2 DEF SourceFits
      <3>2. CASE ~(Length(excerpt) <= MaxExcerpt)
        <4>1. source = merged
          BY <3>2
        <4> QED
          BY <2>4, <2>5, <4>1
      <3> QED
        BY <3>1, <3>2
    <2>8. \/ g = cited
          \/ g = [cited EXCEPT !.segments = Append(@, <<p, u>>),
                               !.narrative = @ \union {<<text, u>>}]
      <3>1. g = IF ~Supports(u, PlacesOf(source.excerpt)) THEN cited
                ELSE [cited EXCEPT !.segments = Append(@, <<p, u>>),
                                   !.narrative = @ \union {<<text, u>>}]
        BY <1>2 DEF Cited, source, excerpt, merged, stated
      <3> HIDE DEF g, cited
      <3> QED
        BY <3>1
    <2> HIDE DEF source, g
    <2>9. /\ cited.sources = [f.sources EXCEPT ![u] = source] /\ cited.order = f.order
          /\ cited.segments = f.segments
          /\ cited \in [sources : {cited.sources}, order : Seq(Url), segments : Seq(Passages \X Url),
                        narrative : SUBSET (Passages \X Url)]
      BY DEF FoundType
    <2> HIDE DEF cited
    <2>10. <<p, u>> \in Passages \X Url /\ <<text, u>> \in Passages \X Url
      BY <2>1
    <2>11. /\ g.sources = cited.sources /\ g.order = f.order
           /\ \A k \in DOMAIN g.segments : g.segments[k][2] \in DOMAIN f.sources
           /\ g \in [sources : {cited.sources}, order : Seq(Url), segments : Seq(Passages \X Url),
                     narrative : SUBSET (Passages \X Url)]
      <3>1. \A k \in DOMAIN f.segments : f.segments[k][2] \in DOMAIN f.sources
        BY DEF FoundFits
      <3>2. CASE g = cited
        BY <2>9, <3>1, <3>2
      <3>3. CASE g = [cited EXCEPT !.segments = Append(@, <<p, u>>),
                                   !.narrative = @ \union {<<text, u>>}]
        <4> DEFINE segs == Append(cited.segments, <<p, u>>)
                   narr == cited.narrative \union {<<text, u>>}
        <4>1. segs \in Seq(Passages \X Url) /\ narr \in SUBSET (Passages \X Url)
          BY <2>9, <2>10
        <4>2. \A k \in DOMAIN segs : segs[k][2] \in DOMAIN f.sources
          BY <2>1, <2>9, <2>10, <3>1
        <4> HIDE DEF segs, narr
        <4>3. g = [cited EXCEPT !.segments = segs, !.narrative = narr]
          BY <3>3 DEF segs, narr
        <4>4. /\ g.sources = cited.sources /\ g.order = f.order /\ g.segments = segs
              /\ g \in [sources : {cited.sources}, order : Seq(Url), segments : Seq(Passages \X Url),
                     narrative : SUBSET (Passages \X Url)]
          BY <2>9, <4>1, <4>3
        <4> QED
          BY <4>2, <4>4
      <3> QED
        BY <2>8, <3>2, <3>3
    <2>12. /\ DOMAIN g.sources = DOMAIN f.sources
           /\ g.sources[u] = source /\ \A v \in DOMAIN f.sources : v # u => g.sources[v] = f.sources[v]
           /\ g.sources \in [DOMAIN f.sources -> SourceType]
      BY <2>1, <2>2, <2>7, <2>9, <2>11
    <2>13. g \in FoundType
      <3>1. g.sources \in Sources
        BY <2>2, <2>12, SourcesAre
      <3> QED
        BY <2>11, <3>1 DEF FoundType
    <2>14. \A v \in DOMAIN g.sources :
             /\ SourceFits(g.sources[v], DatesOf(I, D, v))
             /\ \A k \in DOMAIN g.sources[v].excerpt : Quoted(D, v, g.sources[v].excerpt[k])
      <3>1. SourceFits(g.sources[u], DatesOf(I, D, u))
            /\ \A k \in DOMAIN g.sources[u].excerpt : Quoted(D, u, g.sources[u].excerpt[k])
        BY <2>1, <2>7, <2>12
      <3> HIDE DEF u
      <3> QED
        BY <2>12, <2>32, <2>33, <3>1 DEF FoundFits
    <2>15. FoundFits(g, I, D)
      BY <2>1, <2>11, <2>12, <2>14 DEF FoundFits
    <2> QED
      BY <2>0, <2>13, <2>15 DEF g, D
  <1> QED
    BY <1>1, <1>2

-----------------------------------------------------------------------------
(* The loops. *)

LEMMA AllListedKeeps ==
    ASSUME NEW f \in FoundType, NEW I \in SUBSET Item, NEW C, FoundFits(f, I, C),
           NEW items \in Seq(Item)
    PROVE  /\ AllListed(f, items) \in FoundType
           /\ FoundFits(AllListed(f, items), I \union First(items, Len(items)), C)
  <1> DEFINE N == Len(items)
             S == {s \in FoundType : \E J \in SUBSET Item : FoundFits(s, J, C)}
             G == [p \in (1 .. N) \X S |-> Listed(p[2], items[p[1]])]
             Fits(g) == g = [n \in 0 .. N |-> IF n = 0 THEN f ELSE Listed(g[n - 1], items[n])]
             r == CHOOSE g : Fits(g)
  <1>1. AllListed(f, items) = r[N]
    BY DEF AllListed
  <1>2. N \in Nat /\ \A n \in 1 .. N : items[n] \in Item
    OBVIOUS
  <1> HIDE DEF N, r
  <1>3. G \in [(1 .. N) \X S -> S] /\ f \in S
    <2>1. \A n \in 1 .. N : \A s \in S : Listed(s, items[n]) \in S
      <3> SUFFICES ASSUME NEW n \in 1 .. N, NEW s \in S PROVE Listed(s, items[n]) \in S
        OBVIOUS
      <3>1. PICK J \in SUBSET Item : FoundFits(s, J, C)
        OBVIOUS
      <3> DEFINE x == items[n]
                 K == IF x.type = "result" /\ x.url # NoUrl THEN J \union {x} ELSE J
      <3>2. x \in Item /\ s \in FoundType
        BY <1>2
      <3> HIDE DEF x
      <3>3. Listed(s, x) \in FoundType /\ FoundFits(Listed(s, x), K, C)
        BY <3>1, <3>2, ListedKeeps
      <3>4. K \in SUBSET Item
        BY <3>2
      <3> QED
        BY <3>3, <3>4 DEF x
    <2> QED
      BY <2>1
  <1> HIDE DEF S
  <1>4. \A n \in 1 .. N : \A s \in S : G[<<n, s>>] = Listed(s, items[n])
    OBVIOUS
  <1> HIDE DEF G
  <1>5. PICK h \in [0 .. N -> S] : h[0] = f /\ \A n \in 1 .. N : h[n] = G[<<n, h[n - 1]>>]
    <2>1. Loopable(S, f, N, G)
      BY <1>2, <1>3 DEF Loopable
    <2> QED
      BY <2>1, LoopExists
  <1>6. \A n \in 0 .. N : n = 0 \/ (n \in 1 .. N /\ n - 1 \in 0 .. N)
    BY <1>2
  <1>7. Fits(h)
    <2>1. \A n \in 0 .. N : h[n] = IF n = 0 THEN f ELSE Listed(h[n - 1], items[n])
      BY <1>4, <1>5, <1>6
    <2>2. h = [n \in 0 .. N |-> h[n]]
      BY <1>5
    <2> QED
      BY <2>1, <2>2
  <1>8. Fits(r)
    <2> HIDE DEF Fits
    <2> QED
      BY <1>7 DEF r
  <1>9. r[0] = f /\ \A n \in 1 .. N : r[n] = Listed(r[n - 1], items[n])
    <2>1. \A n \in 0 .. N : r[n] = IF n = 0 THEN f ELSE Listed(r[n - 1], items[n])
      BY <1>8
    <2>2. 0 \in 0 .. N /\ \A n \in 1 .. N : n \in 0 .. N /\ n # 0
      BY <1>2
    <2> HIDE DEF Fits
    <2> QED
      BY <2>1, <2>2
  <1> DEFINE R == {n \in 0 .. N : /\ r[n] \in FoundType
                                  /\ FoundFits(r[n], I \union First(items, n), C)}
  <1>10. 0 \in R
    <2>1. I \union First(items, 0) = I
      BY DEF First
    <2>2. 0 \in 0 .. N /\ r[0] = f
      BY <1>2, <1>9
    <2> QED
      BY <2>1, <2>2
  <1>11. ASSUME NEW n \in 1 .. N, n - 1 \in R PROVE n \in R
    <2> DEFINE x == items[n]
               s == r[n - 1]
               J == I \union First(items, n - 1)
               K == IF x.type = "result" /\ x.url # NoUrl THEN J \union {x} ELSE J
    <2>1. x \in Item /\ s \in FoundType /\ FoundFits(s, J, C)
      BY <1>2, <1>11
    <2>2. J \in SUBSET Item
      BY DEF First
    <2>3. K = I \union First(items, n)
      <3>1. \A k \in 1 .. n : k \in 1 .. n - 1 \/ k = n
        BY <1>2
      <3>2. n \in 1 .. n /\ \A k \in 1 .. n - 1 : k \in 1 .. n
        BY <1>2
      <3> QED
        BY <2>1, <3>1, <3>2 DEF First
    <2> HIDE DEF x, s, J
    <2>4. Listed(s, x) \in FoundType /\ FoundFits(Listed(s, x), K, C)
      BY <2>1, <2>2, ListedKeeps
    <2>5. r[n] = Listed(s, x) /\ n \in 0 .. N
      BY <1>2, <1>9 DEF s, x
    <2> HIDE DEF K
    <2> QED
      BY <2>3, <2>4, <2>5
  <1>12. N \in R
    <2> HIDE DEF R
    <2>1. \A n \in 0 .. N : n \in R
      BY <1>2, <1>10, <1>11, EveryRound
    <2> QED
      BY <1>2, <2>1
  <1> QED
    BY <1>1, <1>12 DEF N

\* The citations among the first m that count, after the items in I.
FirstTaken(I, citations, m) ==
    {c \in Citation : Taken(I, c) /\ \E k \in 1 .. m : citations[k] = c}

LEMMA AllCitedKeeps ==
    ASSUME NEW f \in FoundType, NEW I, NEW C \in SUBSET Citation, FoundFits(f, I, C),
           NEW text \in Passages, NEW citations \in Seq(Citation)
    PROVE  /\ AllCited(f, text, citations) \in FoundType
           /\ FoundFits(AllCited(f, text, citations), I,
                        C \union FirstTaken(I, citations, Len(citations)))
  <1> DEFINE N == Len(citations)
             S == {s \in FoundType : \E D \in SUBSET Citation : FoundFits(s, I, D)}
             G == [p \in (1 .. N) \X S |-> Cited(p[2], text, citations[p[1]])]
             Fits(g) == g = [n \in 0 .. N |-> IF n = 0 THEN f ELSE Cited(g[n - 1], text, citations[n])]
             r == CHOOSE g : Fits(g)
  <1>1. AllCited(f, text, citations) = r[N]
    BY DEF AllCited
  <1>2. N \in Nat /\ \A n \in 1 .. N : citations[n] \in Citation
    OBVIOUS
  <1> HIDE DEF N, r
  <1>3. G \in [(1 .. N) \X S -> S] /\ f \in S
    <2>1. \A n \in 1 .. N : \A s \in S : Cited(s, text, citations[n]) \in S
      <3> SUFFICES ASSUME NEW n \in 1 .. N, NEW s \in S PROVE Cited(s, text, citations[n]) \in S
        OBVIOUS
      <3>1. PICK D \in SUBSET Citation : FoundFits(s, I, D)
        OBVIOUS
      <3> DEFINE x == citations[n]
                 K == IF Taken(I, x) THEN D \union {x} ELSE D
      <3>2. x \in Citation /\ s \in FoundType
        BY <1>2
      <3> HIDE DEF x
      <3>3. Cited(s, text, x) \in FoundType /\ FoundFits(Cited(s, text, x), I, K)
        BY <3>1, <3>2, CitedKeeps
      <3>4. K \in SUBSET Citation
        BY <3>2
      <3> QED
        BY <3>3, <3>4 DEF x
    <2> QED
      BY <2>1
  <1> HIDE DEF S
  <1>4. \A n \in 1 .. N : \A s \in S : G[<<n, s>>] = Cited(s, text, citations[n])
    OBVIOUS
  <1> HIDE DEF G
  <1>5. PICK h \in [0 .. N -> S] : h[0] = f /\ \A n \in 1 .. N : h[n] = G[<<n, h[n - 1]>>]
    <2>1. Loopable(S, f, N, G)
      BY <1>2, <1>3 DEF Loopable
    <2> QED
      BY <2>1, LoopExists
  <1>6. \A n \in 0 .. N : n = 0 \/ (n \in 1 .. N /\ n - 1 \in 0 .. N)
    BY <1>2
  <1>7. Fits(h)
    <2>1. \A n \in 0 .. N : h[n] = IF n = 0 THEN f ELSE Cited(h[n - 1], text, citations[n])
      BY <1>4, <1>5, <1>6
    <2>2. h = [n \in 0 .. N |-> h[n]]
      BY <1>5
    <2> QED
      BY <2>1, <2>2
  <1>8. Fits(r)
    <2> HIDE DEF Fits
    <2> QED
      BY <1>7 DEF r
  <1>9. r[0] = f /\ \A n \in 1 .. N : r[n] = Cited(r[n - 1], text, citations[n])
    <2>1. \A n \in 0 .. N : r[n] = IF n = 0 THEN f ELSE Cited(r[n - 1], text, citations[n])
      BY <1>8
    <2>2. 0 \in 0 .. N /\ \A n \in 1 .. N : n \in 0 .. N /\ n # 0
      BY <1>2
    <2> HIDE DEF Fits
    <2> QED
      BY <2>1, <2>2
  <1> DEFINE R == {n \in 0 .. N : /\ r[n] \in FoundType
                                  /\ FoundFits(r[n], I, C \union FirstTaken(I, citations, n))}
  <1>10. 0 \in R
    <2>1. C \union FirstTaken(I, citations, 0) = C
      BY DEF FirstTaken
    <2>2. 0 \in 0 .. N /\ r[0] = f
      BY <1>2, <1>9
    <2> QED
      BY <2>1, <2>2
  <1>11. ASSUME NEW n \in 1 .. N, n - 1 \in R PROVE n \in R
    <2> DEFINE x == citations[n]
               s == r[n - 1]
               D == C \union FirstTaken(I, citations, n - 1)
               K == IF Taken(I, x) THEN D \union {x} ELSE D
    <2>1. x \in Citation /\ s \in FoundType /\ FoundFits(s, I, D)
      BY <1>2, <1>11
    <2>2. D \in SUBSET Citation
      BY DEF FirstTaken
    <2>3. K = C \union FirstTaken(I, citations, n)
      <3>1. \A k \in 1 .. n : k \in 1 .. n - 1 \/ k = n
        BY <1>2
      <3>2. n \in 1 .. n /\ \A k \in 1 .. n - 1 : k \in 1 .. n
        BY <1>2
      <3> QED
        BY <2>1, <3>1, <3>2 DEF FirstTaken
    <2> HIDE DEF x, s, D
    <2>4. Cited(s, text, x) \in FoundType /\ FoundFits(Cited(s, text, x), I, K)
      BY <2>1, <2>2, CitedKeeps
    <2>5. r[n] = Cited(s, text, x) /\ n \in 0 .. N
      BY <1>2, <1>9 DEF s, x
    <2> HIDE DEF K
    <2> QED
      BY <2>3, <2>4, <2>5
  <1>12. N \in R
    <2> HIDE DEF R
    <2>1. \A n \in 0 .. N : n \in R
      BY <1>2, <1>10, <1>11, EveryRound
    <2> QED
      BY <1>2, <2>1
  <1> QED
    BY <1>1, <1>12 DEF N

\* The citations of the first n blocks that count.
Accepted(blocks, n) ==
    {c \in Citation : \E j \in 1 .. n :
        /\ blocks[j].type = "text" /\ Taken(Results(blocks, j - 1), c)
        /\ \E m \in DOMAIN blocks[j].citations : blocks[j].citations[m] = c}

SeenType == [seen : BOOLEAN, found : FoundType]

LEMMA BlockFacts ==
    ASSUME NEW b \in Block
    PROVE  /\ b.type \in {"search", "text"}
           /\ b.type = "search" => b.items \in Seq(Item)
           /\ b.type = "text" => b.text \in Passages /\ b.citations \in Seq(Citation)
  BY DEF Block

\* Every block makes something of what was found before it.
LEMMA OfBlockCloses ==
    ASSUME NEW b \in Block, NEW s \in SeenType, NEW J \in SUBSET Item, NEW C \in SUBSET Citation,
           FoundFits(s.found, J, C)
    PROVE  /\ OfBlock(s, b) \in SeenType
           /\ \E K \in SUBSET Item, D \in SUBSET Citation : FoundFits(OfBlock(s, b).found, K, D)
  <1>1. s.found \in FoundType /\ s.seen \in BOOLEAN
    BY DEF SeenType
  <1>2. CASE b.type = "search"
    <2> DEFINE f == AllListed(s.found, b.items)
               K == J \union First(b.items, Len(b.items))
    <2>1. f \in FoundType /\ FoundFits(f, K, C)
      BY <1>1, <1>2, BlockFacts, AllListedKeeps
    <2>2. K \in SUBSET Item
      BY DEF First
    <2>3. OfBlock(s, b) = [seen |-> TRUE, found |-> f]
      BY <1>2 DEF OfBlock
    <2> HIDE DEF f, K
    <2> QED
      BY <2>1, <2>2, <2>3 DEF SeenType
  <1>3. CASE b.type = "text" /\ ~s.seen
    <2>1. OfBlock(s, b) = s
      BY <1>3 DEF OfBlock
    <2> QED
      BY <2>1
  <1>4. CASE b.type = "text" /\ s.seen
    <2> DEFINE f == AllCited(s.found, b.text, b.citations)
               D == C \union FirstTaken(J, b.citations, Len(b.citations))
    <2>1. b.text \in Passages /\ b.citations \in Seq(Citation)
      BY <1>4, BlockFacts
    <2>2. D \in SUBSET Citation
      BY DEF FirstTaken
    <2>3. f \in FoundType /\ FoundFits(f, J, D)
      BY <1>1, <2>1, AllCitedKeeps
    <2>4. OfBlock(s, b) = [s EXCEPT !.found = f]
      BY <1>4 DEF OfBlock
    <2> HIDE DEF f, D
    <2>5. OfBlock(s, b) \in SeenType /\ OfBlock(s, b).found = f
      BY <1>1, <2>3, <2>4 DEF SeenType
    <2> QED
      BY <2>2, <2>3, <2>5
  <1> QED
    BY <1>2, <1>3, <1>4, BlockFacts

\* What was found after n blocks; nothing was listed before the first search.
SeenFits(s, blocks, n) ==
    /\ FoundFits(s.found, Results(blocks, n), Accepted(blocks, n))
    /\ ~s.seen => Results(blocks, n) = {}

\* One more block keeps what was found in line with the blocks.
LEMMA OfBlockKeeps ==
    ASSUME NEW blocks \in Seq(Block), NEW n \in 1 .. Len(blocks), NEW s \in SeenType,
           SeenFits(s, blocks, n - 1)
    PROVE  OfBlock(s, blocks[n]) \in SeenType /\ SeenFits(OfBlock(s, blocks[n]), blocks, n)
  <1> DEFINE b == blocks[n]
             I == Results(blocks, n - 1)
             C == Accepted(blocks, n - 1)
             g == OfBlock(s, b)
  <1>0. FoundFits(s.found, I, C) /\ (~s.seen => I = {})
    BY DEF SeenFits
  <1>1. s.found \in FoundType /\ s.seen \in BOOLEAN
    BY DEF SeenType
  <1>2. b \in Block /\ I \in SUBSET Item /\ C \in SUBSET Citation
    BY DEF Results, Accepted
  <1>3. /\ n \in Int /\ n \in 1 .. n /\ \A k \in 1 .. n : k \in 1 .. n - 1 \/ k = n
        /\ \A k \in 1 .. n - 1 : k \in 1 .. n
    OBVIOUS
  <1>4. CASE b.type = "search"
    <2> DEFINE f == AllListed(s.found, b.items)
               K == I \union First(b.items, Len(b.items))
    <2>1. b.items \in Seq(Item)
      BY <1>2, <1>4, BlockFacts
    <2>2. f \in FoundType /\ FoundFits(f, K, C)
      BY <1>0, <1>1, <1>2, <2>1, AllListedKeeps
    <2>5. Accepted(blocks, n) = C
      <3>1. blocks[n].type # "text"
        BY <1>4
      <3> HIDE DEF b, I
      <3> QED
        BY <1>3, <3>1 DEF Accepted
    <2>3. K = Results(blocks, n)
      <3>1. DOMAIN b.items = 1 .. Len(b.items)
        BY <2>1
      <3>2. ASSUME NEW x \in Item
            PROVE  x \in Results(blocks, n) <=> x \in I \/ x \in First(b.items, Len(b.items))
        <4>1. x \in Results(blocks, n) <=>
                /\ x.type = "result" /\ x.url # NoUrl
                /\ \E k \in 1 .. n : /\ blocks[k].type = "search"
                                     /\ \E m \in DOMAIN blocks[k].items : blocks[k].items[m] = x
          BY DEF Results
        <4>2. x \in I <=>
                /\ x.type = "result" /\ x.url # NoUrl
                /\ \E k \in 1 .. n - 1 : /\ blocks[k].type = "search"
                                         /\ \E m \in DOMAIN blocks[k].items : blocks[k].items[m] = x
          BY DEF Results
        <4>3. x \in First(b.items, Len(b.items)) <=>
                /\ x.type = "result" /\ x.url # NoUrl
                /\ blocks[n].type = "search" /\ \E m \in DOMAIN blocks[n].items : blocks[n].items[m] = x
          BY <1>4, <3>1 DEF First
        <4> HIDE DEF I, b
        <4> QED
          BY <1>3, <4>1, <4>2, <4>3
      <3>3. Results(blocks, n) \subseteq Item /\ K \subseteq Item
        BY <1>2 DEF Results, First
      <3> HIDE DEF I, b
      <3> QED
        BY <3>2, <3>3
    <2>4. g = [seen |-> TRUE, found |-> f]
      BY <1>4 DEF OfBlock
    <2> HIDE DEF f, K, C, g
    <2>6. g \in SeenType /\ g.seen /\ g.found = f
      BY <2>2, <2>4 DEF SeenType
    <2> QED
      BY <2>2, <2>3, <2>5, <2>6 DEF SeenFits, g
  <1>5. ASSUME b.type = "text" PROVE Results(blocks, n) = I
    <2>1. b.type # "search"
      BY <1>5
    <2> QED
      BY <1>3, <2>1 DEF Results
  <1>6. CASE b.type = "text" /\ ~s.seen
    <2>1. g = s
      BY <1>6 DEF OfBlock
    <2>2. Accepted(blocks, n) = C
      <3>1. \A c : ~Taken(I, c)
        BY <1>0, <1>6 DEF Taken, Urls
      <3> HIDE DEF b
      <3> QED
        BY <1>3, <3>1 DEF Accepted
    <2> QED
      BY <1>0, <1>5, <1>6, <2>1, <2>2 DEF SeenFits
  <1>7. CASE b.type = "text" /\ s.seen
    <2> DEFINE f == AllCited(s.found, b.text, b.citations)
               D == C \union FirstTaken(I, b.citations, Len(b.citations))
    <2>1. b.text \in Passages /\ b.citations \in Seq(Citation)
      BY <1>2, <1>7, BlockFacts
    <2>2. f \in FoundType /\ FoundFits(f, I, D)
      BY <1>0, <1>1, <1>2, <2>1, AllCitedKeeps
    <2>3. D = Accepted(blocks, n)
      <3>1. DOMAIN b.citations = 1 .. Len(b.citations)
        BY <2>1
      <3>2. ASSUME NEW c \in Citation
            PROVE  c \in Accepted(blocks, n) <=>
                       c \in C \/ c \in FirstTaken(I, b.citations, Len(b.citations))
        <4>1. c \in Accepted(blocks, n) <=>
                \E j \in 1 .. n :
                    /\ blocks[j].type = "text" /\ Taken(Results(blocks, j - 1), c)
                    /\ \E m \in DOMAIN blocks[j].citations : blocks[j].citations[m] = c
          BY DEF Accepted
        <4>2. c \in C <=>
                \E j \in 1 .. n - 1 :
                    /\ blocks[j].type = "text" /\ Taken(Results(blocks, j - 1), c)
                    /\ \E m \in DOMAIN blocks[j].citations : blocks[j].citations[m] = c
          BY DEF Accepted
        <4>3. c \in FirstTaken(I, b.citations, Len(b.citations)) <=>
                /\ blocks[n].type = "text" /\ Taken(Results(blocks, n - 1), c)
                /\ \E m \in DOMAIN blocks[n].citations : blocks[n].citations[m] = c
          BY <1>7, <3>1 DEF FirstTaken
        <4> HIDE DEF I, b, C
        <4> QED
          BY <1>3, <4>1, <4>2, <4>3
      <3>3. Accepted(blocks, n) \subseteq Citation /\ D \subseteq Citation
        BY <1>2 DEF Accepted, FirstTaken
      <3> HIDE DEF I, b, C
      <3> QED
        BY <3>2, <3>3
    <2>4. g = [s EXCEPT !.found = f]
      BY <1>7 DEF OfBlock
    <2> HIDE DEF f, D
    <2>5. g \in SeenType /\ g.found = f /\ g.seen
      BY <1>1, <1>7, <2>2, <2>4 DEF SeenType
    <2> HIDE DEF g
    <2> QED
      BY <1>5, <1>7, <2>2, <2>3, <2>5 DEF SeenFits, g
  <1> QED
    BY <1>2, <1>4, <1>6, <1>7, BlockFacts

LEMMA ExtractedFits ==
    ASSUME NEW blocks \in Seq(Block)
    PROVE  /\ Extracted(blocks) \in FoundType
           /\ FoundFits(Extracted(blocks), Results(blocks, Len(blocks)), Accepted(blocks, Len(blocks)))
  <1> DEFINE N == Len(blocks)
             a == [seen |-> FALSE, found |-> NothingFound]
             S == {s \in SeenType : \E J \in SUBSET Item, C \in SUBSET Citation :
                                  FoundFits(s.found, J, C)}
             G == [p \in (1 .. N) \X S |-> OfBlock(p[2], blocks[p[1]])]
             Fits(g) == g = [n \in 0 .. N |-> IF n = 0 THEN a ELSE OfBlock(g[n - 1], blocks[n])]
             r == CHOOSE g : Fits(g)
  <1>1. Extracted(blocks) = r[N].found
    BY DEF Extracted
  <1>2. N \in Nat /\ \A n \in 1 .. N : blocks[n] \in Block
    OBVIOUS
  <1>3. /\ NothingFound \in FoundType /\ a \in SeenType /\ a.found = NothingFound
        /\ FoundFits(NothingFound, {}, {})
    <2>1. NothingFound.sources = <<>> /\ NothingFound.order = <<>> /\ NothingFound.segments = <<>>
          /\ NothingFound.narrative = {}
      BY DEF NothingFound
    <2>2. <<>> \in [{} -> SourceType]
      OBVIOUS
    <2>3. <<>> \in Sources
      BY <2>2, SourcesAre
    <2>4. NothingFound \in FoundType
      BY <2>3 DEF FoundType, NothingFound
    <2>5. FoundFits(NothingFound, {}, {})
      BY <2>1 DEF FoundFits, Urls
    <2> QED
      BY <2>4, <2>5 DEF SeenType
  <1> HIDE DEF N, r, a
  <1>4. G \in [(1 .. N) \X S -> S] /\ a \in S
    <2>1. \A n \in 1 .. N : \A s \in S : OfBlock(s, blocks[n]) \in S
      <3> SUFFICES ASSUME NEW n \in 1 .. N, NEW s \in S PROVE OfBlock(s, blocks[n]) \in S
        OBVIOUS
      <3>1. PICK J \in SUBSET Item, C \in SUBSET Citation : FoundFits(s.found, J, C)
        OBVIOUS
      <3> DEFINE b == blocks[n]
      <3>2. b \in Block /\ s \in SeenType
        BY <1>2
      <3> HIDE DEF b
      <3>3. /\ OfBlock(s, b) \in SeenType
            /\ \E K \in SUBSET Item, D \in SUBSET Citation : FoundFits(OfBlock(s, b).found, K, D)
        BY <3>1, <3>2, OfBlockCloses
      <3> QED
        BY <3>3 DEF b
    <2>2. a \in S
      <3>1. {} \in SUBSET Item /\ {} \in SUBSET Citation /\ FoundFits(a.found, {}, {})
        BY <1>3
      <3> QED
        BY <1>3, <3>1
    <2> QED
      BY <2>1, <2>2
  <1> HIDE DEF S
  <1>5. \A n \in 1 .. N : \A s \in S : G[<<n, s>>] = OfBlock(s, blocks[n])
    OBVIOUS
  <1> HIDE DEF G
  <1>6. PICK h \in [0 .. N -> S] : h[0] = a /\ \A n \in 1 .. N : h[n] = G[<<n, h[n - 1]>>]
    <2>1. Loopable(S, a, N, G)
      BY <1>2, <1>4 DEF Loopable
    <2> QED
      BY <2>1, LoopExists
  <1>7. \A n \in 0 .. N : n = 0 \/ (n \in 1 .. N /\ n - 1 \in 0 .. N)
    BY <1>2
  <1>8. Fits(h)
    <2>1. \A n \in 0 .. N : h[n] = IF n = 0 THEN a ELSE OfBlock(h[n - 1], blocks[n])
      BY <1>5, <1>6, <1>7
    <2>2. h = [n \in 0 .. N |-> h[n]]
      BY <1>6
    <2> QED
      BY <2>1, <2>2
  <1>9. Fits(r)
    <2> HIDE DEF Fits
    <2> QED
      BY <1>8 DEF r
  <1>10. r[0] = a /\ \A n \in 1 .. N : r[n] = OfBlock(r[n - 1], blocks[n])
    <2>1. \A n \in 0 .. N : r[n] = IF n = 0 THEN a ELSE OfBlock(r[n - 1], blocks[n])
      BY <1>9
    <2>2. 0 \in 0 .. N /\ \A n \in 1 .. N : n \in 0 .. N /\ n # 0
      BY <1>2
    <2> HIDE DEF Fits
    <2> QED
      BY <2>1, <2>2
  <1> DEFINE R == {n \in 0 .. N : r[n] \in SeenType /\ SeenFits(r[n], blocks, n)}
  <1>11. 0 \in R
    <2>1. Results(blocks, 0) = {} /\ Accepted(blocks, 0) = {}
      BY DEF Results, Accepted
    <2>2. 0 \in 0 .. N /\ r[0] = a
      BY <1>2, <1>10
    <2> QED
      BY <1>3, <2>1, <2>2 DEF SeenFits
  <1>12. ASSUME NEW n \in 1 .. N, n - 1 \in R PROVE n \in R
    <2> DEFINE s == r[n - 1]
    <2>1. s \in SeenType /\ SeenFits(s, blocks, n - 1)
      BY <1>12
    <2>2. n \in 1 .. Len(blocks)
      BY DEF N
    <2>3. r[n] = OfBlock(s, blocks[n]) /\ n \in 0 .. N
      BY <1>2, <1>10
    <2> HIDE DEF s
    <2>4. OfBlock(s, blocks[n]) \in SeenType /\ SeenFits(OfBlock(s, blocks[n]), blocks, n)
      BY <2>1, <2>2, OfBlockKeeps
    <2> QED
      BY <2>3, <2>4
  <1>13. N \in R
    <2> HIDE DEF R
    <2>1. \A n \in 0 .. N : n \in R
      BY <1>2, <1>11, <1>12, EveryRound
    <2> QED
      BY <1>2, <2>1
  <1> QED
    BY <1>1, <1>13 DEF N, SeenType, SeenFits

\* The sources of the artifact are among those found.
LEMMA ArtifactUrlsFound ==
    ASSUME NEW f \in FoundType, NEW I, NEW C, FoundFits(f, I, C)
    PROVE  ArtifactUrls(f) \in Seq(DOMAIN f.sources)
  <1> DEFINE U == DOMAIN f.sources
             resolved == {n \in DOMAIN f.order : \E i \in DOMAIN f.segments :
                                                    f.segments[i][2] = f.order[n]}
             approved == {n \in resolved : f.order[n] \in Catalogued}
             all == Selected(f.order, approved) \o Selected(f.order, resolved \ approved)
             m == IF Len(all) > MaxSources THEN MaxSources ELSE Len(all)
  <1>1. f.order \in Seq(U)
    <2>1. f.order \in Seq(Url) /\ \A k \in DOMAIN f.order : f.order[k] \in U
      BY DEF FoundType, FoundFits
    <2> QED
      BY <2>1
  <1>2. ArtifactUrls(f) = SubSeq(all, 1, m)
    BY DEF ArtifactUrls
  <1>3. approved \in SUBSET DOMAIN f.order /\ resolved \ approved \in SUBSET DOMAIN f.order
    OBVIOUS
  <1> HIDE DEF approved, resolved, U
  <1>4. all \in Seq(U)
    <2> DEFINE rest == resolved \ approved
               o == f.order
    <2>1. approved \in SUBSET DOMAIN o /\ rest \in SUBSET DOMAIN o /\ o \in Seq(U)
      BY <1>1, <1>3
    <2> HIDE DEF rest, o
    <2>2. Selected(o, approved) \in Seq(U)
      BY <2>1, SelectedFacts
    <2>3. Selected(o, rest) \in Seq(U)
      BY <2>1, SelectedFacts
    <2> QED
      BY <2>2, <2>3 DEF rest, o
  <1>5. m \in 0 .. Len(all)
    <2>1. MaxSources \in Nat
      BY PublicSearchAssumption
    <2>2. Len(all) \in Nat
      BY <1>4
    <2> HIDE DEF all
    <2> QED
      BY <2>1, <2>2
  <1> HIDE DEF all, m
  <1>6. SubSeq(all, 1, m) \in Seq(U)
    BY <1>4, <1>5
  <1> QED
    BY <1>2, <1>6 DEF U

-----------------------------------------------------------------------------
(* Claims. *)

Returnable ==
    [id : ClaimId \union (Passages \X Url), url : Url, quote : Passages, date : Nat,
     verification : {"verified", "partially_verified"},
     quality : {"none", "institutional", "reporting", "analysis", "unsuitable"},
     relevant : BOOLEAN, sort : {"public", "blog", "defective"}, salvaged : BOOLEAN]

\* A claim quotes an excerpt of what was found and has the date of its source.
Grounded(f) ==
    {c \in Returnable :
        /\ c.url \in DOMAIN f.sources /\ Within(c.quote, f.sources[c.url].excerpt)
        /\ c.date = f.sources[c.url].date
        /\ c.verification = "verified" =>
               c.date # NoDate /\ c.url \in Catalogued \ ReliefWeb /\ ~c.salvaged}

OneEach(cs) == \A i, j \in DOMAIN cs : cs[i].id = cs[j].id => i = j

AllPermitted(cs) == \A k \in DOMAIN cs : Permitted(cs[k])

\* What is retained is permitted and has no id twice; nothing else is rejected.
LEMMA RetainFacts ==
    ASSUME NEW T, NEW cs \in Seq(T)
    PROVE  /\ RetainPublic(cs) \in Seq(T)
           /\ AllPermitted(RetainPublic(cs)) /\ OneEach(RetainPublic(cs))
           /\ OneEach(cs) => \A i \in DOMAIN cs : Permitted(cs[i]) =>
                                 \E k \in DOMAIN RetainPublic(cs) : RetainPublic(cs)[k] = cs[i]
  <1> DEFINE keep == {i \in DOMAIN cs :
                Permitted(cs[i]) /\ \A j \in DOMAIN cs : cs[j].id = cs[i].id => j = i}
             r == Selected(cs, keep)
  <1>1. RetainPublic(cs) = r
    BY DEF RetainPublic
  <1>2. keep \in SUBSET DOMAIN cs
    OBVIOUS
  <1>3. \A i \in keep : Permitted(cs[i]) /\ \A j \in DOMAIN cs : cs[j].id = cs[i].id => j = i
    OBVIOUS
  <1>4. OneEach(cs) => \A i \in DOMAIN cs : Permitted(cs[i]) => i \in keep
    BY DEF OneEach
  <1> HIDE DEF keep
  <1>5. r \in Seq(T) /\ \E at \in [DOMAIN r -> keep] : Places(cs, keep, at)
    BY <1>2, SelectedFacts
  <1>6. PICK at \in [DOMAIN r -> keep] :
              /\ \A k \in DOMAIN r : r[k] = cs[at[k]]
              /\ \A k, l \in DOMAIN r : k < l => at[k] < at[l]
              /\ \A i \in keep : \E k \in DOMAIN r : at[k] = i
    BY <1>5 DEF Places
  <1> HIDE DEF r
  <1>7. AllPermitted(r)
    BY <1>3, <1>6 DEF AllPermitted
  <1>8. OneEach(r)
    <2> SUFFICES ASSUME NEW k \in DOMAIN r, NEW l \in DOMAIN r, r[k].id = r[l].id PROVE k = l
      BY DEF OneEach
    <2>1. at[k] \in keep /\ at[l] \in keep /\ at[k] \in DOMAIN cs /\ cs[at[k]].id = cs[at[l]].id
      BY <1>2, <1>6
    <2>2. at[k] = at[l]
      BY <1>3, <2>1
    <2>3. at[k] \in Int /\ at[l] \in Int /\ k \in Int /\ l \in Int
      BY <1>2, <1>5, <2>1
    <2>4. ~(k < l) /\ ~(l < k)
      BY <1>6, <2>2, <2>3
    <2> QED
      BY <2>3, <2>4
  <1>9. OneEach(cs) => \A i \in DOMAIN cs : Permitted(cs[i]) => \E k \in DOMAIN r : r[k] = cs[i]
    BY <1>4, <1>6
  <1> QED
    BY <1>1, <1>5, <1>7, <1>8, <1>9

Normalized(f) == {c \in Grounded(f) : c.id \in ClaimId /\ ~c.salvaged}

\* The claims of a batch that pass are grounded, whatever the model copied.
LEMMA ValidFacts ==
    ASSUME NEW f \in FoundType, NEW cs \in Seq(Claim), NEW urls \in Seq(DOMAIN f.sources)
    PROVE  /\ ValidClaims(cs, f, urls) \in Seq(Normalized(f))
           /\ AllPermitted(ValidClaims(cs, f, urls)) /\ OneEach(ValidClaims(cs, f, urls))
  <1> DEFINE keep == {i \in DOMAIN cs : /\ cs[i].url \in ToSet(urls)
                                        /\ Usable(f, cs[i].quote, cs[i].url)}
             matched == Selected(cs, keep)
             Bound(c) == [c EXCEPT
                !.date = f.sources[c.url].date,
                !.verification = IF c.url \in Catalogued \ ReliefWeb
                                 THEN Grade(f.sources[c.url]) ELSE "partially_verified"]
             bound == [i \in DOMAIN matched |-> Bound(matched[i])]
             M == {c \in Claim : c.url \in DOMAIN f.sources
                                 /\ Within(c.quote, f.sources[c.url].excerpt)}
  <1>1. ValidClaims(cs, f, urls) = RetainPublic(bound)
    BY DEF ValidClaims
  <1>2. keep \in SUBSET DOMAIN cs /\ \A i \in keep : cs[i] \in M
    BY DEF ToSet, Usable
  <1>3. matched \in Seq(M)
    <2> HIDE DEF keep, M
    <2> QED
      BY <1>2, SelectedElements
  <1>4. ASSUME NEW c \in M PROVE Bound(c) \in Normalized(f)
    <2> DEFINE d == f.sources[c.url].date
               v == IF c.url \in Catalogued \ ReliefWeb
                    THEN Grade(f.sources[c.url]) ELSE "partially_verified"
               b == Bound(c)
    <2>1. c \in Claim /\ c.url \in DOMAIN f.sources /\ Within(c.quote, f.sources[c.url].excerpt)
      OBVIOUS
    <2>2. d \in Nat
      <3>1. f.sources[c.url] \in SourceType
        BY <2>1, SourcesFacts
      <3> QED
        BY <3>1 DEF SourceType
    <2>3. /\ v \in {"verified", "partially_verified"}
          /\ v = "verified" => d # NoDate /\ c.url \in Catalogued \ ReliefWeb
      BY DEF Grade
    <2>4. b = [c EXCEPT !.date = d, !.verification = v]
      OBVIOUS
    <2> HIDE DEF b, v, M
    <2>5. /\ b.id = c.id /\ b.url = c.url /\ b.quote = c.quote /\ b.date = d /\ b.verification = v
          /\ b.salvaged = c.salvaged
          /\ b \in Claim
      BY <2>1, <2>2, <2>3, <2>4 DEF Claim
    <2>6. b \in Returnable /\ b.id \in ClaimId /\ ~b.salvaged
      BY <2>5 DEF Claim, Returnable
    <2>7. b \in Normalized(f)
      BY <2>1, <2>3, <2>5, <2>6 DEF Normalized, Grounded
    <2> QED
      BY <2>7 DEF b
  <1>5. bound \in Seq(Normalized(f))
    <2> HIDE DEF matched, M, Bound
    <2> QED
      BY <1>3, <1>4
  <1> HIDE DEF bound
  <1> QED
    BY <1>1, <1>5, RetainFacts

Salvageable(f, W) == {c \in Grounded(f) : c.id \in Passages \X Url /\ c.salvaged /\ c.url \in W}

\* A usable excerpt of a catalogued publisher becomes a claim, unless its source is barred.
Kept(f, segments, cs) ==
    \A i \in DOMAIN segments :
        segments[i][2] \in Catalogued \ (Barred \union Blogs) /\ Usable(f, segments[i][1], segments[i][2])
            => \E k \in DOMAIN cs : cs[k].quote = segments[i][1] /\ cs[k].url = segments[i][2]

LEMMA SalvagedFacts ==
    ASSUME NEW f \in FoundType, NEW segments \in Seq(Passages \X Url), NEW W,
           \A i \in DOMAIN segments : segments[i][2] \in W /\ segments[i][2] \in DOMAIN f.sources
    PROVE  /\ Salvaged(f, segments) \in Seq(Salvageable(f, W))
           /\ AllPermitted(Salvaged(f, segments)) /\ OneEach(Salvaged(f, segments))
           /\ Kept(f, segments, Salvaged(f, segments))
  <1> DEFINE keep == {i \in DOMAIN segments :
                     /\ Usable(f, segments[i][1], segments[i][2])
                     /\ \A j \in 1 .. i - 1 : segments[j] # segments[i]}
             first == Selected(segments, keep)
             Made(s) == [id |-> s, url |-> s[2], quote |-> s[1],
                         date |-> f.sources[s[2]].date, verification |-> "partially_verified",
                         quality |-> "none", relevant |-> TRUE, sort |-> "public", salvaged |-> TRUE]
             made == [i \in DOMAIN first |-> Made(first[i])]
             M == {s \in Passages \X Url : s[2] \in W /\ s[2] \in DOMAIN f.sources
                                           /\ Usable(f, s[1], s[2])}
             r == Salvaged(f, segments)
  <1>1. r = RetainPublic(made)
    BY DEF Salvaged
  <1>2. keep \in SUBSET DOMAIN segments /\ \A i \in keep : segments[i] \in M
    OBVIOUS
  <1>3. \A i \in keep : \A j \in 1 .. i - 1 : segments[j] # segments[i]
    OBVIOUS
  <1>4. ASSUME NEW i \in DOMAIN segments, Usable(f, segments[i][1], segments[i][2])
        PROVE  \E j \in keep : segments[j] = segments[i]
    <2> DEFINE same == {j \in DOMAIN segments : segments[j] = segments[i]}
    <2>1. same \in SUBSET Nat /\ i \in same
      OBVIOUS
    <2>2. PICK j \in same : \A k \in same : j <= k
      <3> HIDE DEF same
      <3> QED
        BY <2>1, LeastNumber
    <2>3. \A k \in 1 .. j - 1 : segments[k] # segments[j]
      <3> SUFFICES ASSUME NEW k \in 1 .. j - 1, segments[k] = segments[j] PROVE FALSE
        OBVIOUS
      <3>1. k \in DOMAIN segments /\ ~(j <= k)
        OBVIOUS
      <3> QED
        BY <2>2, <3>1
    <2> QED
      BY <1>4, <2>2, <2>3
  <1> HIDE DEF keep, r
  <1>5. first \in Seq(M)
    <2> HIDE DEF M
    <2> QED
      BY <1>2, SelectedElements
  <1>6. \E at \in [DOMAIN first -> keep] : Places(segments, keep, at)
    BY <1>2, SelectedFacts
  <1>7. PICK at \in [DOMAIN first -> keep] :
              /\ \A k \in DOMAIN first : first[k] = segments[at[k]]
              /\ \A k, l \in DOMAIN first : k < l => at[k] < at[l]
              /\ \A i \in keep : \E k \in DOMAIN first : at[k] = i
    BY <1>6 DEF Places
  <1> HIDE DEF first
  <1>8. \A k, l \in DOMAIN first : first[k] = first[l] => k = l
    <2>1. ASSUME NEW k \in DOMAIN first, NEW l \in DOMAIN first, k < l PROVE first[k] # first[l]
      <3>1. at[k] \in keep /\ at[l] \in keep /\ at[k] < at[l]
            /\ at[k] \in DOMAIN segments /\ at[l] \in DOMAIN segments
        BY <1>2, <1>7, <2>1
      <3>2. at[k] \in 1 .. at[l] - 1
        BY <3>1
      <3> QED
        BY <1>3, <1>7, <3>1, <3>2
    <2>2. \A k \in DOMAIN first : k \in Int
      BY <1>5
    <2>3. \A k, l \in DOMAIN first : k = l \/ k < l \/ l < k
      BY <2>2
    <2> QED
      BY <2>1, <2>3
  <1>9. ASSUME NEW s \in M PROVE Made(s) \in Salvageable(f, W) /\ Made(s).id = s
    <2> DEFINE c == Made(s)
    <2>1. s \in Passages \X Url /\ s[1] \in Passages /\ s[2] \in Url /\ s[2] \in W
          /\ s[2] \in DOMAIN f.sources /\ Within(s[1], f.sources[s[2]].excerpt)
      BY DEF Usable
    <2>2. f.sources[s[2]].date \in Nat
      <3>1. f.sources[s[2]] \in SourceType
        BY <2>1, SourcesFacts
      <3> QED
        BY <3>1 DEF SourceType
    <2>3. c \in Returnable
      BY <2>1, <2>2 DEF Returnable
    <2> QED
      BY <2>1, <2>3 DEF Salvageable, Grounded
  <1>10. made \in Seq(Salvageable(f, W)) /\ OneEach(made)
    <2>1. \A k \in DOMAIN first : first[k] \in M
      BY <1>5
    <2> HIDE DEF M, Made
    <2>2. made \in Seq(Salvageable(f, W))
      BY <1>5, <1>9
    <2>3. OneEach(made)
      BY <1>8, <1>9, <2>1 DEF OneEach
    <2> QED
      BY <2>2, <2>3
  <1>11. \A k \in DOMAIN first : /\ made[k].quote = first[k][1] /\ made[k].url = first[k][2]
                                 /\ first[k][2] \in Catalogued \ (Barred \union Blogs) => Permitted(made[k])
    BY DEF Permitted
  <1>12. DOMAIN made = DOMAIN first
    OBVIOUS
  <1> HIDE DEF made
  <1>13. /\ r \in Seq(Salvageable(f, W)) /\ AllPermitted(r) /\ OneEach(r)
         /\ \A k \in DOMAIN made : Permitted(made[k]) => \E l \in DOMAIN r : r[l] = made[k]
    BY <1>1, <1>10, RetainFacts
  <1>14. Kept(f, segments, r)
    <2> SUFFICES ASSUME NEW i \in DOMAIN segments, segments[i][2] \in Catalogued \ (Barred \union Blogs),
                        Usable(f, segments[i][1], segments[i][2])
                 PROVE  \E k \in DOMAIN r : r[k].quote = segments[i][1] /\ r[k].url = segments[i][2]
      BY DEF Kept
    <2>1. PICK j \in keep : segments[j] = segments[i]
      BY <1>4
    <2>2. PICK k \in DOMAIN first : at[k] = j
      BY <1>7
    <2>3. first[k] = segments[i]
      BY <1>7, <2>1, <2>2
    <2>4. Permitted(made[k])
      BY <1>11, <2>3
    <2>5. PICK l \in DOMAIN r : r[l] = made[k]
      BY <1>12, <1>13, <2>4
    <2> QED
      BY <1>11, <2>3, <2>5
  <1> QED
    BY <1>13, <1>14 DEF r

-----------------------------------------------------------------------------
(***************************************************************************)
(* The invariant: what is known of each source is what the blocks of the   *)
(* response state and cite of it, nothing is returned before the search    *)
(* ends, and what is returned is grounded and not rejected.                *)
(***************************************************************************)
AllDates(blocks, u) == DatesOf(Results(blocks, Len(blocks)), Accepted(blocks, Len(blocks)), u)

Known(f, blocks) ==
    /\ \A u \in DOMAIN f.sources :
         /\ SourceFits(f.sources[u], AllDates(blocks, u))
         /\ \A k \in DOMAIN f.sources[u].excerpt :
              Quoted(Accepted(blocks, Len(blocks)), u, f.sources[u].excerpt[k])
    /\ \A k \in DOMAIN f.segments : f.segments[k][2] \in DOMAIN f.sources

\* No cited excerpt of a source that a claim of the batch calls unsuitable.
NoneRejected(cs, b) == \A k \in DOMAIN cs : cs[k].salvaged => cs[k].url \notin Unsuitable(b)

SearchInv ==
    /\ content \in Seq(Block) /\ found \in FoundType /\ kept \in Seq(DOMAIN found.sources)
    /\ Known(found, content)
    /\ batch \in Seq(Claim) /\ normalized \in BOOLEAN
    /\ pc \in {"search", "continue", "extract"} => found = NothingFound
    /\ pc \notin {"done", "failed"} =>
           claims = <<>> /\ failure = "none" /\ batch = <<>> /\ ~normalized
    /\ claims \in Seq(Grounded(found)) /\ NoneRejected(claims, batch)

LEMMA NothingFacts ==
    /\ NothingFound \in FoundType /\ DOMAIN NothingFound.sources = {}
    /\ NothingFound.segments = <<>> /\ \A blocks : Known(NothingFound, blocks)
  <1>1. NothingFound.sources = <<>> /\ NothingFound.order = <<>> /\ NothingFound.segments = <<>>
        /\ NothingFound.narrative = {}
    BY DEF NothingFound
  <1>2. <<>> \in [{} -> SourceType]
    OBVIOUS
  <1>3. <<>> \in Sources
    BY <1>2, SourcesAre
  <1>4. NothingFound \in FoundType
    BY <1>3 DEF FoundType, NothingFound
  <1>5. \A blocks : Known(NothingFound, blocks)
    BY <1>1 DEF Known
  <1> QED
    BY <1>1, <1>4, <1>5

LEMMA SearchInitHolds == SearchInit => SearchInv
  <1> SUFFICES ASSUME SearchInit PROVE SearchInv
    OBVIOUS
  <1>1. /\ pc = "search" /\ content = <<>> /\ found = NothingFound /\ kept = <<>>
        /\ batch = <<>> /\ normalized = FALSE /\ claims = <<>> /\ failure = "none"
    BY DEF SearchInit
  <1>2. content \in Seq(Block) /\ batch \in Seq(Claim) /\ kept \in Seq(DOMAIN found.sources)
        /\ claims \in Seq(Grounded(found))
    BY <1>1
  <1>3. NoneRejected(claims, batch)
    BY <1>1 DEF NoneRejected
  <1>4. found \in FoundType /\ Known(found, content)
    BY <1>1, NothingFacts
  <1> QED
    BY <1>1, <1>2, <1>3, <1>4 DEF SearchInv

LEMMA WebSearchKeeps == SearchInv /\ WebSearch => SearchInv'
  <1> SUFFICES ASSUME SearchInv, WebSearch PROVE SearchInv'
    OBVIOUS
  <1>1. PICK response \in Responses : /\ content' = content \o response.blocks
                                      /\ pc' = IF pc = "search" /\ response.paused
                                               THEN "continue" ELSE "extract"
    BY DEF WebSearch
  <1>2. response.blocks \in Seq(Block)
    BY PublicSearchAssumption
  <1>3. content' \in Seq(Block)
    BY <1>1, <1>2 DEF SearchInv
  <1>4. /\ found' = found /\ found = NothingFound /\ kept' = kept /\ batch' = batch
        /\ normalized' = normalized /\ claims' = claims /\ failure' = failure
        /\ pc \notin {"done", "failed"} /\ pc' \in {"continue", "extract"}
    BY <1>1 DEF WebSearch, SearchInv
  <1> QED
    BY <1>3, <1>4, NothingFacts DEF SearchInv

\* A step that ends the search as it is, with an exception or not.
LEMMA EndKeeps ==
    ASSUME SearchInv, pc' \in {"done", "failed"},
           UNCHANGED <<content, found, kept, batch, normalized, claims>>
    PROVE  SearchInv'
  BY DEF SearchInv

LEMMA ExtractKeeps == SearchInv /\ Extract => SearchInv'
  <1> SUFFICES ASSUME SearchInv, Extract PROVE SearchInv'
    OBVIOUS
  <1> DEFINE f == Extracted(content)
             urls == ArtifactUrls(f)
             I == Results(content, Len(content))
  <1>1. CASE pc' \in {"done", "failed"} /\ UNCHANGED <<found, kept>>
    BY <1>1, EndKeeps DEF Extract
  <1>2. CASE pc' = "date" /\ found' = f /\ kept' = urls /\ UNCHANGED failure
    <2>1. f \in FoundType /\ FoundFits(f, I, Accepted(content, Len(content)))
      BY ExtractedFits DEF SearchInv
    <2> HIDE DEF f, I
    <2>2. urls \in Seq(DOMAIN f.sources)
      BY <2>1, ArtifactUrlsFound
    <2>3. Known(f, content)
      BY <2>1 DEF FoundFits, Known, AllDates, I
    <2> HIDE DEF urls
    <2>4. /\ pc = "extract" /\ UNCHANGED <<content, batch, normalized, claims>>
      BY DEF Extract
    <2>5. claims = <<>>
      BY <2>4 DEF SearchInv
    <2> QED
      BY <1>2, <2>1, <2>2, <2>3, <2>4, <2>5 DEF SearchInv
  <1> QED
    <2>1. \/ pc' \in {"done", "failed"} /\ UNCHANGED <<found, kept>>
          \/ pc' = "date" /\ found' = f /\ kept' = urls /\ UNCHANGED failure
      BY DEF Extract, Raise
    <2> QED
      BY <1>1, <1>2, <2>1

LEMMA ResolveDateKeeps == SearchInv /\ ResolveDate => SearchInv'
  <1> SUFFICES ASSUME SearchInv, ResolveDate PROVE SearchInv'
    OBVIOUS
  <1>1. /\ pc = "date" /\ claims = <<>> /\ batch = <<>> /\ ~normalized
        /\ UNCHANGED <<content, kept, batch, normalized, claims>>
    BY DEF ResolveDate, SearchInv
  <1>2. CASE UNCHANGED found /\ pc' = "normalize" /\ UNCHANGED failure
    BY <1>1, <1>2 DEF SearchInv
  <1>4. CASE UNCHANGED found /\ pc' = "failed"
    BY <1>1, <1>4, EndKeeps
  <1>3. ASSUME Dateless # <<>>, NEW d \in Dates, found' = Resolved(d),
               pc' = "normalize", UNCHANGED failure
        PROVE  SearchInv'
    <2> DEFINE u == Head(Dateless)
               S == found.sources
               src == [S[u] EXCEPT !.date = d, !.basis = "article_metadata"]
               keep == {i \in DOMAIN kept : /\ S[kept[i]].basis = "none"
                                            /\ kept[i] \notin ReliefWeb}
               V == {v \in DOMAIN S : S[v].basis = "none"}
    <2>1. u \in V
      <3>1. Dateless = Selected(kept, keep)
        BY DEF Dateless
      <3>2. kept \in Seq(DOMAIN S)
        BY DEF SearchInv
      <3>3. keep \in SUBSET DOMAIN kept /\ \A i \in keep : kept[i] \in V
        BY <3>2
      <3> HIDE DEF S, keep, V
      <3>4. Selected(kept, keep) \in Seq(V)
        BY <3>2, <3>3, SelectedElements
      <3> QED
        BY <1>3, <3>1, <3>4
    <2>2. /\ DOMAIN S \subseteq Url /\ \A v \in DOMAIN S : S[v] \in SourceType
          /\ S = [v \in DOMAIN S |-> S[v]] /\ found \in FoundType
      BY SourcesFacts DEF SearchInv
    <2>3. found' = [found EXCEPT !.sources = [S EXCEPT ![u] = src]]
      BY <1>3 DEF Resolved
    <2> HIDE DEF u, src
    <2>4. /\ found'.sources = [S EXCEPT ![u] = src] /\ found'.segments = found.segments
          /\ found' \in [sources : {found'.sources}, order : Seq(Url), segments : Seq(Passages \X Url),
                         narrative : SUBSET (Passages \X Url)]
      BY <2>2, <2>3 DEF FoundType
    <2>5. src \in SourceType /\ src.date = d /\ src.basis = "article_metadata"
          /\ src.excerpt = S[u].excerpt
      <3>1. S[u] \in SourceType /\ d \in Nat
        BY <2>1, <2>2, Typed
      <3> QED
        BY <3>1 DEF SourceType, Basis, src
    <2>6. AllDates(content, u) = {}
      BY <2>1 DEF SearchInv, Known, SourceFits
    <2>7. SourceFits(src, {})
      BY <2>5, Typed DEF SourceFits
    <2> HIDE DEF S
    <2>8. /\ DOMAIN found'.sources = DOMAIN S
          /\ found'.sources[u] = src /\ \A v \in DOMAIN S : v # u => found'.sources[v] = S[v]
          /\ found'.sources \in [DOMAIN S -> SourceType]
      BY <2>1, <2>2, <2>4, <2>5
    <2>9. found' \in FoundType
      <3>1. found'.sources \in Sources
        BY <2>2, <2>8, SourcesAre
      <3> QED
        BY <2>4, <3>1 DEF FoundType
    <2>10. Known(found', content)
      <3>1. Known(found, content)
        BY DEF SearchInv
      <3>2. \A v \in DOMAIN S : SourceFits(found'.sources[v], AllDates(content, v))
        BY <2>6, <2>7, <2>8, <3>1 DEF Known, S
      <3>3. \A v \in DOMAIN S : found'.sources[v].excerpt = S[v].excerpt
        BY <2>5, <2>8
      <3> QED
        BY <2>4, <2>8, <3>1, <3>2, <3>3 DEF Known, S
    <2>11. kept' \in Seq(DOMAIN found'.sources)
      BY <1>1, <2>8 DEF SearchInv, S
    <2> QED
      BY <1>1, <1>3, <2>9, <2>10, <2>11 DEF SearchInv
  <1> QED
    BY <1>2, <1>3, <1>4 DEF ResolveDate, Raise

LEMMA SegmentsFound ==
    ASSUME SearchInv
    PROVE  /\ found.segments \in Seq(Passages \X Url)
           /\ \A i \in DOMAIN found.segments : found.segments[i][2] \in DOMAIN found.sources
  BY DEF SearchInv, Known, FoundType

\* The segments that are left have a source no claim calls unsuitable.
LEMMA SuitableFacts ==
    ASSUME SearchInv, NEW b
    PROVE  LET suitable == Suitable(found.segments, b)
               over == Overflow(suitable, kept)
               W == {u \in DOMAIN found.sources : u \notin Unsuitable(b)}
           IN /\ suitable \in Seq(Passages \X Url) /\ over \in Seq(Passages \X Url)
              /\ \A i \in DOMAIN suitable : suitable[i][2] \in W
              /\ \A i \in DOMAIN over : over[i][2] \in W
              /\ \A i \in DOMAIN found.segments : found.segments[i][2] \in W =>
                    /\ \E j \in DOMAIN suitable : suitable[j] = found.segments[i]
                    /\ found.segments[i][2] \notin ToSet(kept) =>
                          \E j \in DOMAIN over : over[j] = found.segments[i]
  <1> DEFINE s == found.segments
             keep == {i \in DOMAIN s : s[i][2] \notin Unsuitable(b)}
             suitable == Suitable(s, b)
             rest == {i \in DOMAIN suitable : suitable[i][2] \notin ToSet(kept)}
             over == Overflow(suitable, kept)
             W == {u \in DOMAIN found.sources : u \notin Unsuitable(b)}
             T == Passages \X Url
             M == {x \in T : x[2] \in W}
  <1>1. s \in Seq(T) /\ \A i \in DOMAIN s : s[i][2] \in DOMAIN found.sources
    BY SegmentsFound
  <1>2. keep \in SUBSET DOMAIN s /\ \A i \in keep : s[i] \in M
    BY <1>1
  <1>3. \A i \in DOMAIN s : s[i][2] \in W => i \in keep
    OBVIOUS
  <1>4. suitable = Selected(s, keep)
    BY DEF Suitable
  <1> HIDE DEF s, keep, W, T, M
  <1>5. /\ suitable \in Seq(M)
        /\ \A i \in keep : \E k \in DOMAIN suitable : suitable[k] = s[i]
    BY <1>1, <1>2, <1>4, SelectedElements
  <1>6. over = Selected(suitable, rest)
    BY DEF Overflow
  <1> HIDE DEF suitable
  <1>7. rest \in SUBSET DOMAIN suitable /\ \A i \in rest : suitable[i] \in M
    BY <1>5
  <1>8. \A i \in DOMAIN suitable : suitable[i][2] \notin ToSet(kept) => i \in rest
    OBVIOUS
  <1> HIDE DEF rest
  <1>9. /\ over \in Seq(M) /\ \A i \in rest : \E k \in DOMAIN over : over[k] = suitable[i]
    BY <1>5, <1>6, <1>7, SelectedElements
  <1> HIDE DEF over
  <1>10. \A x \in M : x \in T /\ x[2] \in W
    BY DEF M
  <1>11. suitable \in Seq(T) /\ over \in Seq(T)
         /\ (\A i \in DOMAIN suitable : suitable[i][2] \in W)
         /\ (\A i \in DOMAIN over : over[i][2] \in W)
    <2>1. \A i \in DOMAIN suitable : suitable[i] \in M
      BY <1>5
    <2>2. \A i \in DOMAIN over : over[i] \in M
      BY <1>9
    <2> QED
      BY <1>5, <1>9, <1>10, <2>1, <2>2
  <1>12. \A i \in DOMAIN s : s[i][2] \in W =>
            /\ \E j \in DOMAIN suitable : suitable[j] = s[i]
            /\ s[i][2] \notin ToSet(kept) => \E j \in DOMAIN over : over[j] = s[i]
    <2> SUFFICES ASSUME NEW i \in DOMAIN s, s[i][2] \in W
                 PROVE  /\ \E j \in DOMAIN suitable : suitable[j] = s[i]
                        /\ s[i][2] \notin ToSet(kept) => \E j \in DOMAIN over : over[j] = s[i]
      OBVIOUS
    <2>1. PICK j \in DOMAIN suitable : suitable[j] = s[i]
      BY <1>3, <1>5
    <2>2. ASSUME s[i][2] \notin ToSet(kept) PROVE \E k \in DOMAIN over : over[k] = s[i]
      BY <1>8, <1>9, <2>1, <2>2
    <2> QED
      BY <2>1, <2>2
  <1> QED
    BY <1>11, <1>12 DEF s, suitable, over, W, T

\* What may be returned after a batch: nothing that is rejected by it.
Fitting(b) == {c \in Grounded(found) : c.salvaged => c.url \notin Unsuitable(b)}

Wanted(b) == {u \in DOMAIN found.sources : u \notin Unsuitable(b)}

LEMMA FittingFacts ==
    ASSUME NEW b, NEW cs \in Seq(Fitting(b))
    PROVE  cs \in Seq(Grounded(found)) /\ NoneRejected(cs, b)
  <1>1. \A k \in DOMAIN cs : cs[k] \in Fitting(b)
    OBVIOUS
  <1>2. \A c \in Fitting(b) : c \in Grounded(found)
    BY DEF Fitting
  <1>3. cs \in Seq(Grounded(found))
    BY <1>1, <1>2
  <1>4. NoneRejected(cs, b)
    BY <1>1 DEF Fitting, NoneRejected
  <1> QED
    BY <1>3, <1>4

\* The claims of a batch, the salvaged excerpts, and both together.
LEMMA AnswerFacts ==
    ASSUME SearchInv, NEW b \in Seq(Claim)
    PROVE  LET valid == ValidClaims(b, found, kept)
               suitable == Suitable(found.segments, b)
               over == Overflow(suitable, kept)
               V == valid \o Salvaged(found, over)
           IN /\ valid \in Seq(Normalized(found)) /\ AllPermitted(valid) /\ OneEach(valid)
              /\ Salvaged(found, over) \in Seq(Salvageable(found, Wanted(b)))
              /\ AllPermitted(Salvaged(found, over)) /\ OneEach(Salvaged(found, over))
              /\ Kept(found, over, Salvaged(found, over))
              /\ Salvaged(found, suitable) \in Seq(Salvageable(found, Wanted(b)))
              /\ Kept(found, suitable, Salvaged(found, suitable))
              /\ V \in Seq(Fitting(b)) /\ RetainPublic(V) \in Seq(Fitting(b))
              /\ Salvaged(found, suitable) \in Seq(Fitting(b))
  <1> DEFINE valid == ValidClaims(b, found, kept)
             suitable == Suitable(found.segments, b)
             over == Overflow(suitable, kept)
             W == Wanted(b)
             sv == Salvaged(found, over)
             ss == Salvaged(found, suitable)
             V == valid \o sv
  <1>1. found \in FoundType /\ kept \in Seq(DOMAIN found.sources)
    BY DEF SearchInv
  <1>2. valid \in Seq(Normalized(found)) /\ AllPermitted(valid) /\ OneEach(valid)
    BY <1>1, ValidFacts
  <1>3. /\ suitable \in Seq(Passages \X Url) /\ over \in Seq(Passages \X Url)
        /\ \A i \in DOMAIN suitable : suitable[i][2] \in W /\ suitable[i][2] \in DOMAIN found.sources
        /\ \A i \in DOMAIN over : over[i][2] \in W /\ over[i][2] \in DOMAIN found.sources
    BY SuitableFacts DEF Wanted
  <1> HIDE DEF suitable, over, W, valid
  <1>4. /\ sv \in Seq(Salvageable(found, W)) /\ AllPermitted(sv) /\ OneEach(sv)
        /\ Kept(found, over, sv)
    BY <1>1, <1>3, SalvagedFacts
  <1>5. ss \in Seq(Salvageable(found, W)) /\ Kept(found, suitable, ss)
    BY <1>1, <1>3, SalvagedFacts
  <1>6. \A c \in Normalized(found) : c \in Fitting(b)
    BY DEF Normalized, Fitting
  <1>7. \A c \in Salvageable(found, W) : c \in Fitting(b)
    BY DEF Salvageable, Fitting, W, Wanted
  <1> HIDE DEF sv, ss
  <1>8. valid \in Seq(Fitting(b)) /\ sv \in Seq(Fitting(b)) /\ ss \in Seq(Fitting(b))
    BY <1>2, <1>4, <1>5, <1>6, <1>7
  <1>9. V \in Seq(Fitting(b))
    BY <1>8
  <1> HIDE DEF V
  <1>10. RetainPublic(V) \in Seq(Fitting(b))
    BY <1>9, RetainFacts
  <1> QED
    BY <1>2, <1>4, <1>5, <1>8, <1>9, <1>10 DEF V, sv, ss, valid, suitable, over, W

LEMMA NormalizeKeeps == SearchInv /\ Normalize => SearchInv'
  <1> SUFFICES ASSUME SearchInv, Normalize PROVE SearchInv'
    OBVIOUS
  <1>1. PICK b \in Batches :
          LET valid == ValidClaims(b, found, kept)
              segments == Suitable(found.segments, b)
              answer == IF Dismissed(b) THEN <<>>
                        ELSE IF valid # <<>>
                        THEN RetainPublic(valid \o Salvaged(found, Overflow(segments, kept)))
                        ELSE Salvaged(found, segments)
          IN /\ batch' = b /\ normalized' = TRUE /\ claims' = answer
             /\ IF answer = <<>> /\ valid = <<>> /\ ~Dismissed(b) THEN Raise("no_parsed_output")
                ELSE pc' = "done" /\ UNCHANGED failure
    BY DEF Normalize
  <1>2. b \in Seq(Claim) /\ batch' = b /\ normalized' = TRUE
    BY <1>1, PublicSearchAssumption
  <1>3. claims' \in Seq(Fitting(b))
    <2> DEFINE valid == ValidClaims(b, found, kept)
               suitable == Suitable(found.segments, b)
               V == valid \o Salvaged(found, Overflow(suitable, kept))
    <2>1. RetainPublic(V) \in Seq(Fitting(b)) /\ Salvaged(found, suitable) \in Seq(Fitting(b))
      BY <1>2, AnswerFacts
    <2>2. claims' = IF Dismissed(b) THEN <<>>
                    ELSE IF valid # <<>> THEN RetainPublic(V) ELSE Salvaged(found, suitable)
      BY <1>1
    <2> HIDE DEF valid, V, suitable
    <2> QED
      BY <2>1, <2>2
  <1>4. claims' \in Seq(Grounded(found)) /\ NoneRejected(claims', b)
    BY <1>3, FittingFacts
  <1>5. pc' \in {"done", "failed"} /\ UNCHANGED <<content, found, kept>>
    BY <1>1 DEF Normalize, Raise
  <1> QED
    BY <1>2, <1>4, <1>5 DEF SearchInv

LEMMA NormalizationFailsKeeps == SearchInv /\ NormalizationFails => SearchInv'
  <1> SUFFICES ASSUME SearchInv, NormalizationFails PROVE SearchInv'
    OBVIOUS
  <1>1. /\ pc = "normalize" /\ pc' \in {"done", "failed"}
        /\ UNCHANGED <<content, found, kept, batch, normalized>>
        /\ claims' = Salvaged(found, found.segments)
    BY DEF NormalizationFails, Raise
  <1>2. batch = <<>>
    BY <1>1 DEF SearchInv
  <1> DEFINE W == DOMAIN found.sources
  <1>3. claims' \in Seq(Salvageable(found, W))
    <2>1. found \in FoundType
      BY DEF SearchInv
    <2> DEFINE segs == found.segments
    <2>2. /\ segs \in Seq(Passages \X Url)
          /\ \A i \in DOMAIN segs : segs[i][2] \in W /\ segs[i][2] \in DOMAIN found.sources
      BY SegmentsFound
    <2>3. claims' = Salvaged(found, segs)
      BY <1>1
    <2> HIDE DEF segs, W
    <2> QED
      BY <2>1, <2>2, <2>3, SalvagedFacts
  <1>4. Unsuitable(batch) = {}
    BY <1>2 DEF Unsuitable
  <1>5. \A c \in Salvageable(found, W) : c \in Fitting(batch)
    BY <1>4 DEF Salvageable, Fitting
  <1> HIDE DEF W
  <1>6. claims' \in Seq(Fitting(batch))
    BY <1>3, <1>5
  <1>7. claims' \in Seq(Grounded(found)) /\ NoneRejected(claims', batch)
    BY <1>6, FittingFacts
  <1> QED
    BY <1>1, <1>7 DEF SearchInv

LEMMA SearchNextKeeps == SearchInv /\ [SearchNext]_searchVars => SearchInv'
  <1> SUFFICES ASSUME SearchInv, [SearchNext]_searchVars PROVE SearchInv'
    OBVIOUS
  <1>1. CASE WebSearch
    BY <1>1, WebSearchKeeps
  <1>2. CASE CallFails
    BY <1>2, EndKeeps DEF CallFails, Raise
  <1>3. CASE Extract
    BY <1>3, ExtractKeeps
  <1>4. CASE ResolveDate
    BY <1>4, ResolveDateKeeps
  <1>5. CASE Normalize
    BY <1>5, NormalizeKeeps
  <1>6. CASE NormalizationFails
    BY <1>6, NormalizationFailsKeeps
  <1>7. CASE UNCHANGED searchVars
    BY <1>7 DEF searchVars, SearchInv
  <1> QED
    BY <1>1, <1>2, <1>3, <1>4, <1>5, <1>6, <1>7 DEF SearchNext

LEMMA SearchInvHolds == SearchSpec => []SearchInv
  BY SearchInitHolds, SearchNextKeeps, PTL DEF SearchSpec

-----------------------------------------------------------------------------
\* The results and the citations that count, as the property counts them.
LEMMA ResultsAre ==
    ASSUME content \in Seq(Block), NEW u \in Url, NEW n \in 0 .. Len(content), NEW x
    PROVE  (\E i \in 1 .. n : x \in ResultsOf(content[i], u))
               <=> x \in Results(content, n) /\ x.url = u
  <1>1. u # NoUrl /\ \A i \in 1 .. n : content[i] \in Block
    BY Typed
  <1>2. ASSUME NEW i \in 1 .. n, x \in ResultsOf(content[i], u)
        PROVE  x \in Results(content, n) /\ x.url = u
    <2>1. content[i].type = "search" /\ x \in ToSet(content[i].items) /\ x.type = "result" /\ x.url = u
      BY <1>2 DEF ResultsOf
    <2>2. content[i].items \in Seq(Item)
      BY <1>1, <2>1, BlockFacts
    <2>3. PICK m \in DOMAIN content[i].items : content[i].items[m] = x
      BY <2>1 DEF ToSet
    <2>4. x \in Item
      BY <2>2, <2>3
    <2> QED
      BY <1>1, <2>1, <2>3, <2>4 DEF Results
  <1>3. ASSUME x \in Results(content, n), x.url = u
        PROVE  \E i \in 1 .. n : x \in ResultsOf(content[i], u)
    <2>1. PICK i \in 1 .. n : /\ content[i].type = "search" /\ x.type = "result"
                              /\ \E m \in DOMAIN content[i].items : content[i].items[m] = x
      BY <1>3 DEF Results
    <2> QED
      BY <1>3, <2>1 DEF ResultsOf, ToSet
  <1> QED
    BY <1>2, <1>3

LEMMA CitationsAre ==
    ASSUME content \in Seq(Block), NEW u \in Url, NEW c
    PROVE  c \in CitationsOf(u) <=> c \in Accepted(content, Len(content)) /\ c.url = u
  <1>1. ASSUME NEW j \in 1 .. Len(content)
        PROVE  /\ j - 1 \in 0 .. Len(content) /\ content[j] \in Block
               /\ (\E i \in 1 .. j - 1 : ResultsOf(content[i], u) # {})
                      <=> u \in Urls(Results(content, j - 1))
    <2>1. j - 1 \in 0 .. Len(content) /\ content[j] \in Block
      OBVIOUS
    <2>2. \A x : (\E i \in 1 .. j - 1 : x \in ResultsOf(content[i], u))
                     <=> x \in Results(content, j - 1) /\ x.url = u
      BY <2>1, ResultsAre
    <2>3. \A i : ResultsOf(content[i], u) # {} <=> \E x : x \in ResultsOf(content[i], u)
      OBVIOUS
    <2>4. u \in Urls(Results(content, j - 1)) <=> \E x \in Results(content, j - 1) : x.url = u
      BY DEF Urls
    <2> QED
      BY <2>1, <2>2, <2>3, <2>4, Zenon
  <1> DEFINE Counts == c.url = u /\ u \notin Unciteable /\ c.sameTitle /\ c.passage.length <= MaxExcerpt
             At(j) == /\ content[j].type = "text" /\ u \in Urls(Results(content, j - 1))
                      /\ c \in ToSet(content[j].citations)
  <1>2. DOMAIN content = 1 .. Len(content)
    OBVIOUS
  <1>3. c \in CitationsOf(u) <=> Counts /\ \E j \in 1 .. Len(content) : At(j)
    BY <1>1, <1>2 DEF CitationsOf
  <1>4. ASSUME NEW j \in 1 .. Len(content), content[j].type = "text"
        PROVE  /\ c \in ToSet(content[j].citations)
                      <=> \E m \in DOMAIN content[j].citations : content[j].citations[m] = c
               /\ c \in ToSet(content[j].citations) => c \in Citation
    <2>1. content[j].citations \in Seq(Citation)
      BY <1>1, <1>4, BlockFacts
    <2> QED
      BY <2>1 DEF ToSet
  <1>5. c \in Accepted(content, Len(content)) /\ c.url = u <=> Counts /\ \E j \in 1 .. Len(content) : At(j)
    BY <1>4 DEF Accepted, Taken
  <1> QED
    BY <1>3, <1>5

LEMMA DatesAreStated ==
    ASSUME content \in Seq(Block), NEW u \in Url
    PROVE  AllDates(content, u) = StatedDates(u)
  <1> DEFINE N == Len(content)
  <1>1. N \in 0 .. N /\ ToSet(content) = {content[i] : i \in 1 .. N}
    BY DEF ToSet
  <1>2. \A x : (\E i \in 1 .. N : x \in ResultsOf(content[i], u)) <=> x \in Results(content, N) /\ x.url = u
    BY <1>1, ResultsAre
  <1>3. \A c : c \in CitationsOf(u) <=> c \in Accepted(content, N) /\ c.url = u
    BY CitationsAre
  <1>4. ASSUME NEW d
        PROVE  (\E b \in ToSet(content) : \E x \in ResultsOf(b, u) : d \in x.dates)
                   <=> \E x \in Results(content, N) : x.url = u /\ d \in x.dates
    <2>1. (\E b \in ToSet(content) : \E x \in ResultsOf(b, u) : d \in x.dates)
              <=> \E i \in 1 .. N : \E x \in ResultsOf(content[i], u) : d \in x.dates
      BY <1>1
    <2> HIDE DEF N
    <2> QED
      BY <1>2, <2>1, Zenon
  <1>5. ASSUME NEW d
        PROVE  (\E c \in CitationsOf(u) : d \in CitationDates(c))
                   <=> \E c \in Accepted(content, N) : c.url = u /\ d \in CitationDates(c)
    BY <1>3
  <1> QED
    BY <1>4, <1>5 DEF AllDates, DatesOf, StatedDates

LEMMA SearchInvGrounds == SearchInv => ClaimsAreGrounded
  <1> SUFFICES ASSUME SearchInv, NEW c \in Returned
               PROVE  /\ \E parts \in PartOf[c.quote] : \A p \in ToSet(parts) :
                             \E cited \in CitationsOf(c.url) : cited.passage = p
                      /\ c.date # NoDate => StatedDates(c.url) \subseteq {c.date}
                      /\ c.verification = "verified" =>
                             c.date # NoDate /\ c.url \in Catalogued \ ReliefWeb /\ ~c.salvaged
    BY DEF ClaimsAreGrounded
  <1>1. c \in Grounded(found)
    BY DEF SearchInv, Returned, ToSet
  <1> DEFINE excerpt == found.sources[c.url].excerpt
  <1>2. /\ c.url \in DOMAIN found.sources /\ Within(c.quote, excerpt)
        /\ c.date = found.sources[c.url].date /\ c.url \in Url
        /\ c.verification = "verified" =>
               c.date # NoDate /\ c.url \in Catalogued \ ReliefWeb /\ ~c.salvaged
    BY <1>1 DEF Grounded, Returnable
  <1>3. Known(found, content) /\ content \in Seq(Block) /\ found \in FoundType
    BY DEF SearchInv
  <1>4. SourceFits(found.sources[c.url], StatedDates(c.url))
    BY <1>2, <1>3, DatesAreStated DEF Known
  <1>5. \A k \in DOMAIN excerpt : \E cited \in CitationsOf(c.url) : cited.passage = excerpt[k]
    BY <1>2, <1>3, CitationsAre DEF Known, Quoted
  <1>6. excerpt \in Seq(Passages)
    <2>1. found.sources[c.url] \in SourceType
      BY <1>2, <1>3, SourcesFacts
    <2> QED
      BY <2>1 DEF SourceType
  <1> HIDE DEF excerpt
  <1>7. PICK i \in DOMAIN excerpt, j \in DOMAIN excerpt : SubSeq(excerpt, i, j) \in PartOf[c.quote]
    BY <1>2 DEF Within
  <1> DEFINE parts == SubSeq(excerpt, i, j)
  <1>8. \A p \in ToSet(parts) : \E k \in DOMAIN excerpt : p = excerpt[k]
    <2>1. i \in Nat /\ j \in Nat /\ i >= 1 /\ j <= Len(excerpt) /\ Len(excerpt) \in Nat
      BY <1>6
    <2>2. /\ DOMAIN parts = 1 .. (j - i + 1)
          /\ \A k \in 1 .. (j - i + 1) : parts[k] = excerpt[i + k - 1] /\ i + k - 1 \in DOMAIN excerpt
      BY <1>6, <2>1
    <2> HIDE DEF parts
    <2> QED
      BY <2>2 DEF ToSet
  <1>9. \A p \in ToSet(parts) : \E cited \in CitationsOf(c.url) : cited.passage = p
    BY <1>5, <1>8
  <1> QED
    BY <1>2, <1>4, <1>7, <1>9 DEF SourceFits

(***************************************************************************)
(* Every claim a search returns quotes what the response cites from a      *)
(* source its results listed before; its date is the only one they state;  *)
(* and only a dated claim of a catalogued publisher that the model         *)
(* normalized is verified.                                                 *)
(***************************************************************************)
THEOREM ReturnedClaimsAreGrounded == SearchSpec => []ClaimsAreGrounded
  BY SearchInvHolds, SearchInvGrounds, PTL

LEMMA SearchInvRejects == SearchInv => RejectedStaysRejected
  BY DEF SearchInv, RejectedStaysRejected, Returned, NoneRejected, ToSet

(***************************************************************************)
(* No excerpt of a source the model calls unsuitable is returned in the    *)
(* place of its claims.                                                    *)
(***************************************************************************)
THEOREM RejectedSourcesStayRejected == SearchSpec => []RejectedStaysRejected
  BY SearchInvHolds, SearchInvRejects, PTL

-----------------------------------------------------------------------------
(***************************************************************************)
(* That nothing usable is lost.  The claims of a batch and the excerpts of *)
(* the sources beyond the cap are put together, and ids that occur twice   *)
(* are rejected; so it matters that the model cannot name a claim as an    *)
(* excerpt is named, by the SHA-256 digest of what it says                 *)
(* (public_research.py:1396).                                              *)
(***************************************************************************)
NoForgedId == ClaimId \intersect (Passages \X Url) = {}

\* All claims of a batch are returned together with the excerpts, none is taken for another.
LEMMA TogetherFacts ==
    ASSUME NoForgedId, SearchInv, NEW b,
           NEW valid \in Seq(Normalized(found)), NEW sv \in Seq(Salvageable(found, Wanted(b))),
           AllPermitted(valid), OneEach(valid), AllPermitted(sv), OneEach(sv)
    PROVE  /\ \A i \in DOMAIN valid : \E k \in DOMAIN RetainPublic(valid \o sv) :
                  RetainPublic(valid \o sv)[k] = valid[i]
           /\ \A i \in DOMAIN sv : \E k \in DOMAIN RetainPublic(valid \o sv) :
                  RetainPublic(valid \o sv)[k] = sv[i]
  <1> DEFINE V == valid \o sv
             T == Normalized(found) \union Salvageable(found, Wanted(b))
             n == Len(valid)
             m == Len(sv)
  <1>1. valid \in Seq(T) /\ sv \in Seq(T)
    OBVIOUS
  <1>2. /\ n \in Nat /\ m \in Nat /\ DOMAIN valid = 1 .. n /\ DOMAIN sv = 1 .. m
        /\ \A i \in 1 .. n : valid[i] \in Normalized(found)
        /\ \A i \in 1 .. m : sv[i] \in Salvageable(found, Wanted(b))
    OBVIOUS
  <1> HIDE DEF T
  <1>3. /\ V \in Seq(T) /\ DOMAIN V = 1 .. n + m
        /\ \A i \in 1 .. n : V[i] = valid[i] /\ i \in DOMAIN V
        /\ \A i \in 1 .. m : V[n + i] = sv[i] /\ n + i \in DOMAIN V
    BY <1>1
  <1>4. \A i \in DOMAIN V : i \in 1 .. n \/ (i - n \in 1 .. m /\ n + (i - n) = i /\ i \in Int)
    BY <1>2, <1>3
  <1>5. \A i \in 1 .. n : \A j \in 1 .. m : valid[i].id # sv[j].id
    BY <1>2 DEF Normalized, Salvageable, NoForgedId
  <1> HIDE DEF V, n, m
  <1>6. OneEach(V)
    <2> SUFFICES ASSUME NEW i \in DOMAIN V, NEW j \in DOMAIN V, V[i].id = V[j].id PROVE i = j
      BY DEF OneEach
    <2>1. CASE i \in 1 .. n /\ j \in 1 .. n
      BY <1>2, <1>3, <2>1 DEF OneEach
    <2>2. CASE i \in 1 .. n /\ j - n \in 1 .. m /\ n + (j - n) = j
      BY <1>3, <1>5, <2>2
    <2>3. CASE j \in 1 .. n /\ i - n \in 1 .. m /\ n + (i - n) = i
      BY <1>3, <1>5, <2>3
    <2>4. CASE i - n \in 1 .. m /\ n + (i - n) = i /\ j - n \in 1 .. m /\ n + (j - n) = j
      <3>1. V[i] = sv[i - n] /\ V[j] = sv[j - n]
        BY <1>3, <2>4
      <3>2. i - n = j - n
        BY <1>2, <2>4, <3>1 DEF OneEach
      <3> QED
        BY <2>4, <3>2
    <2> QED
      BY <1>4, <2>1, <2>2, <2>3, <2>4
  <1>7. \A i \in DOMAIN V : Permitted(V[i])
    <2> SUFFICES ASSUME NEW i \in DOMAIN V PROVE Permitted(V[i])
      OBVIOUS
    <2>1. CASE i \in 1 .. n
      BY <1>2, <1>3, <2>1 DEF AllPermitted
    <2>2. CASE i - n \in 1 .. m /\ n + (i - n) = i
      <3>1. V[i] = sv[i - n]
        BY <1>3, <2>2
      <3> QED
        BY <1>2, <2>2, <3>1 DEF AllPermitted
    <2> QED
      BY <1>4, <2>1, <2>2
  <1>8. \A i \in DOMAIN V : \E k \in DOMAIN RetainPublic(V) : RetainPublic(V)[k] = V[i]
    <2>1. OneEach(V) => \A i \in DOMAIN V : Permitted(V[i]) =>
                            \E k \in DOMAIN RetainPublic(V) : RetainPublic(V)[k] = V[i]
      BY <1>3, RetainFacts
    <2> QED
      BY <1>6, <1>7, <2>1
  <1>9. \A i \in 1 .. n : \E k \in DOMAIN RetainPublic(V) : RetainPublic(V)[k] = valid[i]
    BY <1>3, <1>8
  <1>10. \A i \in 1 .. m : \E k \in DOMAIN RetainPublic(V) : RetainPublic(V)[k] = sv[i]
    BY <1>3, <1>8
  <1> QED
    BY <1>2, <1>9, <1>10 DEF V

\* What the property says of one segment.
NotLost(i) ==
    LET quote == found.segments[i][1]
        url == found.segments[i][2]
    IN /\ url \in Catalogued \ (Barred \union Blogs) /\ Usable(found, quote, url)
       => \/ \E c \in Returned : c.quote = quote /\ c.url = url
          \/ normalized /\ (Dismissed(batch) \/ url \in Unsuitable(batch))
          \/ /\ normalized /\ url \in ToSet(kept)
             /\ \E c \in Returned : ~c.salvaged

LEMMA NormalizeLosesNothing ==
    ASSUME NoForgedId, SearchInv, Normalize
    PROVE  NothingUsableIsLost'
  <1>1. PICK b \in Batches :
          LET valid == ValidClaims(b, found, kept)
              segments == Suitable(found.segments, b)
              answer == IF Dismissed(b) THEN <<>>
                        ELSE IF valid # <<>>
                        THEN RetainPublic(valid \o Salvaged(found, Overflow(segments, kept)))
                        ELSE Salvaged(found, segments)
          IN /\ batch' = b /\ normalized' = TRUE /\ claims' = answer
             /\ IF answer = <<>> /\ valid = <<>> /\ ~Dismissed(b) THEN Raise("no_parsed_output")
                ELSE pc' = "done" /\ UNCHANGED failure
    BY DEF Normalize
  <1> DEFINE valid == ValidClaims(b, found, kept)
             suitable == Suitable(found.segments, b)
             over == Overflow(suitable, kept)
             sv == Salvaged(found, over)
             ss == Salvaged(found, suitable)
  <1>2. /\ b \in Seq(Claim) /\ batch' = b /\ normalized' = TRUE /\ found' = found /\ kept' = kept
    BY <1>1, PublicSearchAssumption DEF Normalize
  <1>3. claims' = IF Dismissed(b) THEN <<>> ELSE IF valid # <<>> THEN RetainPublic(valid \o sv) ELSE ss
    BY <1>1
  <1>4. /\ valid \in Seq(Normalized(found)) /\ AllPermitted(valid) /\ OneEach(valid)
        /\ sv \in Seq(Salvageable(found, Wanted(b))) /\ AllPermitted(sv) /\ OneEach(sv)
        /\ Kept(found, over, sv) /\ Kept(found, suitable, ss)
    BY <1>2, AnswerFacts
  <1>5. \A i \in DOMAIN found.segments : found.segments[i][2] \in Wanted(b) =>
            /\ \E j \in DOMAIN suitable : suitable[j] = found.segments[i]
            /\ found.segments[i][2] \notin ToSet(kept) =>
                  \E j \in DOMAIN over : over[j] = found.segments[i]
    BY SuitableFacts DEF Wanted
  <1>6. \A i \in DOMAIN found.segments : found.segments[i][2] \in DOMAIN found.sources
    BY SegmentsFound
  <1> HIDE DEF valid, suitable, over, sv, ss
  <1>7. ASSUME NEW i \in DOMAIN found.segments,
               found.segments[i][2] \in Catalogued \ (Barred \union Blogs),
               Usable(found, found.segments[i][1], found.segments[i][2]),
               ~Dismissed(b), found.segments[i][2] \notin Unsuitable(b)
        PROVE  \/ \E k \in DOMAIN claims' : /\ claims'[k].quote = found.segments[i][1]
                                            /\ claims'[k].url = found.segments[i][2]
               \/ /\ found.segments[i][2] \in ToSet(kept)
                  /\ \E k \in DOMAIN claims' : ~claims'[k].salvaged
    <2> DEFINE x == found.segments[i]
    <2>1. x[2] \in Wanted(b)
      BY <1>6, <1>7 DEF Wanted
    <2>2. CASE valid = <<>>
      <3>1. claims' = ss
        BY <1>3, <1>7, <2>2
      <3>2. PICK j \in DOMAIN suitable : suitable[j] = x
        BY <1>5, <2>1
      <3> QED
        BY <1>4, <1>7, <3>1, <3>2 DEF Kept
    <2>3. CASE valid # <<>>
      <3> DEFINE r == RetainPublic(valid \o sv)
      <3>1. claims' = r
        BY <1>3, <1>7, <2>3
      <3>2. /\ \A k \in DOMAIN valid : \E l \in DOMAIN r : r[l] = valid[k]
            /\ \A k \in DOMAIN sv : \E l \in DOMAIN r : r[l] = sv[k]
        BY <1>4, TogetherFacts
      <3> HIDE DEF r
      <3>3. CASE x[2] \in ToSet(kept)
        <4>1. 1 \in DOMAIN valid /\ valid[1] \in Normalized(found)
          BY <1>4, <2>3
        <4>2. ~valid[1].salvaged
          BY <4>1 DEF Normalized
        <4>3. PICK l \in DOMAIN r : r[l] = valid[1]
          BY <3>2, <4>1
        <4> QED
          BY <3>1, <3>3, <4>2, <4>3
      <3>4. CASE x[2] \notin ToSet(kept)
        <4>1. PICK j \in DOMAIN over : over[j] = x
          BY <1>5, <2>1, <3>4
        <4>2. PICK k \in DOMAIN sv : sv[k].quote = x[1] /\ sv[k].url = x[2]
          BY <1>4, <1>7, <4>1 DEF Kept
        <4>3. PICK l \in DOMAIN r : r[l] = sv[k]
          BY <3>2
        <4> QED
          BY <3>1, <4>2, <4>3
      <3> QED
        BY <3>3, <3>4
    <2> QED
      BY <2>2, <2>3
  <1>8. \A k \in DOMAIN claims' : claims'[k] \in Returned'
    BY DEF Returned, ToSet
  <1> HIDE DEF Returned
  <1>9. \A i \in DOMAIN found'.segments : NotLost(i)'
    <2> SUFFICES ASSUME NEW i \in DOMAIN found.segments PROVE NotLost(i)'
      BY <1>2
    <2> DEFINE quote == found.segments[i][1]
               url == found.segments[i][2]
    <2>1. CASE ~(url \in Catalogued \ (Barred \union Blogs) /\ Usable(found, quote, url))
      BY <1>2, <2>1 DEF NotLost
    <2>2. CASE Dismissed(b) \/ url \in Unsuitable(b)
      BY <1>2, <2>2 DEF NotLost
    <2>3. CASE url \in Catalogued \ (Barred \union Blogs) /\ Usable(found, quote, url)
               /\ ~Dismissed(b) /\ url \notin Unsuitable(b)
      <3>1. \/ \E k \in DOMAIN claims' : claims'[k].quote = quote /\ claims'[k].url = url
            \/ url \in ToSet(kept) /\ \E k \in DOMAIN claims' : ~claims'[k].salvaged
        BY <1>7, <2>3
      <3>2. \/ \E c \in Returned' : c.quote = quote /\ c.url = url
            \/ url \in ToSet(kept) /\ \E c \in Returned' : ~c.salvaged
        BY <1>8, <3>1
      <3> QED
        BY <1>2, <3>2 DEF NotLost
    <2> QED
      BY <2>1, <2>2, <2>3
  <1> QED
    BY <1>9 DEF NothingUsableIsLost, NotLost

LEMMA NormalizationFailsLosesNothing ==
    ASSUME SearchInv, NormalizationFails
    PROVE  NothingUsableIsLost'
  <1> DEFINE s == found.segments
             W == DOMAIN found.sources
             r == Salvaged(found, s)
  <1>1. found' = found /\ claims' = r
    BY DEF NormalizationFails
  <1>2. found \in FoundType /\ s \in Seq(Passages \X Url)
        /\ \A i \in DOMAIN s : s[i][2] \in W /\ s[i][2] \in DOMAIN found.sources
    BY SegmentsFound DEF SearchInv
  <1> HIDE DEF s, W, r
  <1>3. Kept(found, s, r)
    BY <1>2, SalvagedFacts DEF r
  <1>4. \A k \in DOMAIN claims' : claims'[k] \in Returned'
    BY DEF Returned, ToSet
  <1> HIDE DEF Returned
  <1>5. \A i \in DOMAIN s :
            s[i][2] \in Catalogued \ (Barred \union Blogs) /\ Usable(found, s[i][1], s[i][2]) =>
            \E c \in Returned' : c.quote = s[i][1] /\ c.url = s[i][2]
    BY <1>1, <1>3, <1>4 DEF Kept
  <1> QED
    BY <1>1, <1>5 DEF NothingUsableIsLost, s

LEMMA NextLosesNothing ==
    NoForgedId /\ SearchInv /\ NothingUsableIsLost /\ [SearchNext]_searchVars => NothingUsableIsLost'
  <1> SUFFICES ASSUME NoForgedId, SearchInv, NothingUsableIsLost, [SearchNext]_searchVars
               PROVE  NothingUsableIsLost'
    OBVIOUS
  <1>1. CASE WebSearch \/ ResolveDate
    <2>1. \/ pc' \in {"continue", "extract", "normalize"} /\ failure' = "none"
          \/ pc' = "failed" /\ failure' = "oversized"
      BY <1>1 DEF WebSearch, ResolveDate, Raise, SearchInv
    <2> QED
      BY <2>1 DEF NothingUsableIsLost
  <1>2. CASE CallFails
    <2>1. pc' = "failed" /\ failure' \in {"timeout", "connection"}
      BY <1>2 DEF CallFails, Raise
    <2> QED
      BY <2>1 DEF NothingUsableIsLost
  <1>3. CASE Extract
    <2>1. \/ pc' \in {"failed", "date"} /\ failure' \in {"connection", "malformed", "no_synthesis", "oversized", "none"}
          \/ found' = found /\ found = NothingFound
      BY <1>3 DEF Extract, Raise, SearchInv
    <2>2. CASE pc' \in {"failed", "date"} /\ failure' \in {"connection", "malformed", "no_synthesis", "oversized", "none"}
      BY <2>2 DEF NothingUsableIsLost
    <2>3. CASE found' = found /\ found = NothingFound
      <3>1. DOMAIN found'.segments = {}
        BY <2>3, NothingFacts
      <3> QED
        BY <3>1 DEF NothingUsableIsLost
    <2> QED
      BY <2>1, <2>2, <2>3
  <1>4. CASE Normalize
    BY <1>4, NormalizeLosesNothing
  <1>5. CASE NormalizationFails
    BY <1>5, NormalizationFailsLosesNothing
  <1>6. CASE UNCHANGED searchVars
    BY <1>6 DEF searchVars, NothingUsableIsLost, Returned
  <1> QED
    BY <1>1, <1>2, <1>3, <1>4, <1>5, <1>6 DEF SearchNext

(***************************************************************************)
(* A usable excerpt of a catalogued publisher is returned, or the model    *)
(* dismissed it or used others, whichever step of the search fails.        *)
(***************************************************************************)
THEOREM NothingUsableGetsLost ==
    ASSUME NoForgedId
    PROVE  SearchSpec => []NothingUsableIsLost
  <1>1. SearchInit => NothingUsableIsLost
    BY DEF SearchInit, NothingUsableIsLost
  <1>2. SearchInv /\ NothingUsableIsLost /\ [SearchNext]_searchVars => NothingUsableIsLost'
    BY NextLosesNothing
  <1> QED
    BY <1>1, <1>2, SearchInvHolds, PTL DEF SearchSpec
===============================================================================
