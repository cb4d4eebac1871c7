---------------------------- MODULE PublicSearch ----------------------------
(***************************************************************************)
(* One search of the public web (public_research.py): the provider answers *)
(* with search results and a text that cites them, the sources are merged  *)
(* by URL, one missing date is fetched, and a second call normalizes the   *)
(* cited excerpts into claims. Every claim is checked against the excerpt  *)
(* it quotes; when the second call gives nothing usable, the cited         *)
(* excerpts are used as they stand. The recognition of publishers, of      *)
(* sources that are no public institutional ones, of dates, of country     *)
(* names and of one text in another is a parameter. The counters of        *)
(* last_diagnostics and the wording of the prompts are left out.           *)
(***************************************************************************)
EXTENDS Integers, SequencesExt, Selections

CONSTANTS
    Url,           \* normalized URLs
    Catalogued,    \* those for which _publisher_for_source_url knows a publisher
    ReliefWeb,     \* those of the publisher ReliefWeb
    Unciteable,    \* social media and Wikipedia
    Barred,        \* forums, communities, profiles, marked titles, api.worldbank.org
    Blogs,         \* those whose host, path or title says blog
    Fetchable,     \* those _fetch_article_publication_date asks for
    UrlDate,       \* the date a URL itself states, or NoDate
    TitlePlaces,   \* which countries the title of a source names: "here", "there"
    Dates,         \* dates
    Passages,      \* texts: [id, length, places, dated]
    PartOf,        \* the passages that, joined, hold a text, for each text
    MaxExcerpt,    \* MAX_SOURCE_EXCERPT_CHARACTERS
    MaxSources,    \* MAX_RETAINED_SOURCES
    MaxBundle,     \* MAX_SOURCE_BUNDLE_CHARACTERS
    DateLength,    \* what the date of a source adds to the bundle
    Responses,     \* answers of the web search
    ClaimId,       \* ids the model gives its claims
    Batches        \* normalized batches: sequences of claims

NoDate == 0
NoUrl == "none"
Place == {"here", "there"}

\* What an answer of the web search consists of.
Item == [type : {"result"}, url : Url \union {NoUrl}, dates : SUBSET Dates]
        \union [type : {"error", "other"}]
Citation == [url : Url \union {NoUrl}, dates : SUBSET Dates, sameTitle : BOOLEAN, passage : Passages]
Block == [type : {"search"}, items : Seq(Item)]
         \union [type : {"text"}, text : Passages, citations : Seq(Citation)]

\* A claim of a batch, with what the model says of its source: "blog" and "defective" are for
\* what its source_type says, the latter for licensed data and a blank relevance as well.
Claim == [id : ClaimId, url : Url, quote : Passages, date : Nat,
          verification : {"verified", "partially_verified"},
          quality : {"none", "institutional", "reporting", "analysis", "unsuitable"},
          relevant : BOOLEAN, sort : {"public", "blog", "defective"}, salvaged : {FALSE}]

ASSUME PublicSearchAssumption ==
    /\ Catalogued \subseteq Url /\ ReliefWeb \subseteq Catalogued
    /\ Barred \union Blogs \subseteq Url
    /\ Unciteable \subseteq Url /\ Fetchable \subseteq Catalogued /\ NoUrl \notin Url
    /\ Dates \subseteq Nat \ {NoDate}
    /\ UrlDate \in [Url -> Dates \union {NoDate}] /\ TitlePlaces \in [Url -> SUBSET Place]
    /\ {MaxExcerpt, MaxSources, MaxBundle} \subseteq Nat \ {0} /\ DateLength \in Nat
    /\ PartOf \in [Passages -> SUBSET Seq(Passages)] /\ \A p \in Passages : <<p>> \in PartOf[p]
    /\ \A p \in Passages : /\ p.length \in Nat \ {0} /\ p.places \in SUBSET Place
                           /\ p.dated \in Dates \union {NoDate}
    /\ \A r \in Responses : r.blocks \in Seq(Block) /\ r.paused \in BOOLEAN
    /\ Batches \subseteq Seq(Claim)

VARIABLES
    pc,         \* the call that is due: "search", "continue", "extract", "date", "normalize"
    late,       \* whether the deadline of the search has passed
    content,    \* content_blocks
    found,      \* sources by URL, in their order of appearance, and the grounded segments
    kept,       \* the URLs of artifact.sources
    batch,      \* the claims of the normalization, once it gave a batch
    normalized, \* whether it did
    claims,     \* the claims returned
    failure     \* the exception that ended the search

searchVars == <<pc, late, content, found, kept, batch, normalized, claims, failure>>

NothingFound == [sources |-> <<>>, order |-> <<>>, segments |-> <<>>, narrative |-> {}]

SearchInit ==
    /\ pc = "search" /\ late = FALSE /\ content = <<>> /\ found = NothingFound /\ kept = <<>>
    /\ batch = <<>> /\ normalized = FALSE /\ claims = <<>> /\ failure = "none"

-----------------------------------------------------------------------------
(* Sources and what is stated of them. *)

\* _source_metadata: the date an item and its URL state.
Metadata(url, dates) ==
    LET all == (dates \union {UrlDate[url]}) \ {NoDate}
    IN IF all = {} THEN [date |-> NoDate, basis |-> "none"]
       ELSE IF \E d, e \in all : d # e THEN [date |-> NoDate, basis |-> "conflicting"]
       ELSE [date |-> CHOOSE d \in all : TRUE,
             basis |-> IF dates = {} THEN "canonical_url" ELSE "provider_metadata"]

\* Variant: a date stated after a conflict settles it.
MergedLast(source, stated) ==
    IF stated.basis = "conflicting" \/ (source.date # NoDate /\ stated.date # NoDate
                                        /\ source.date # stated.date)
    THEN [source EXCEPT !.date = NoDate, !.basis = "conflicting"]
    ELSE IF source.date # NoDate THEN source
    ELSE [source EXCEPT !.date = stated.date, !.basis = stated.basis]

\* _merge_source, for a source that is known.
Merged(source, stated) ==
    IF \/ "conflicting" \in {source.basis, stated.basis}
       \/ source.date # NoDate /\ stated.date # NoDate /\ source.date # stated.date
    THEN [source EXCEPT !.date = NoDate, !.basis = "conflicting"]
    ELSE IF source.basis # "none" THEN source
    ELSE [source EXCEPT !.date = stated.date, !.basis = stated.basis]

Source(stated) == [date |-> stated.date, basis |-> stated.basis, excerpt |-> <<>>]

\* One web_search_result; an item without title or URL is no source.
Listed(s, item) ==
    IF item.type # "result" \/ item.url = NoUrl THEN s
    ELSE LET stated == Metadata(item.url, item.dates)
         IN IF item.url \in DOMAIN s.sources
            THEN [s EXCEPT !.sources[item.url] = Merged(@, stated)]
            ELSE [s EXCEPT !.sources = [u \in DOMAIN @ \union {item.url} |->
                                           IF u = item.url THEN Source(stated) ELSE @[u]],
                           !.order = Append(@, item.url)]

Length(excerpt) == FoldLeft(LAMBDA n, p : n + p.length, 0, excerpt)

PlacesOf(excerpt) == UNION {p.places : p \in ToSet(excerpt)}

\* _source_supports_country: the text names the country, or the title names it and neither
\* names another.
Supports(url, places) ==
    \/ "here" \in places
    \/ "here" \in TitlePlaces[url] /\ "there" \notin TitlePlaces[url] \union places

\* One citation of a text block. The excerpt grows while it fits; whether or not it does, the
\* cited text is grounded when the source is about the country.
Cited(s, text, c) ==
    IF \/ c.passage.length > MaxExcerpt \/ c.url \in Unciteable \union {NoUrl}
       \/ c.url \notin DOMAIN s.sources \/ ~c.sameTitle
    THEN s
    ELSE LET stated == IF c.passage.dated # NoDate
                       THEN [date |-> c.passage.dated, basis |-> "source_excerpt"]
                       ELSE Metadata(c.url, c.dates)
             merged == Merged(s.sources[c.url], stated)
             excerpt == IF merged.excerpt = <<c.passage>> THEN merged.excerpt
                        ELSE Append(merged.excerpt, c.passage)
             source == IF Length(excerpt) <= MaxExcerpt
                       THEN [merged EXCEPT !.excerpt = excerpt] ELSE merged
             cited == [s EXCEPT !.sources[c.url] = source]
         IN IF ~Supports(c.url, PlacesOf(source.excerpt)) THEN cited
            ELSE [cited EXCEPT !.segments = Append(@, <<c.passage, c.url>>),
                               !.narrative = @ \union {<<text, c.url>>}]

\* The loops of _extract_search_artifact over the results of a search, over the citations of
\* a text, and over the blocks; a text before the first search result cites nothing.
AllListed(s, items) ==
    LET After[n \in 0 .. Len(items)] == IF n = 0 THEN s ELSE Listed(After[n - 1], items[n])
    IN After[Len(items)]

AllCited(s, text, citations) ==
    LET After[n \in 0 .. Len(citations)] ==
            IF n = 0 THEN s ELSE Cited(After[n - 1], text, citations[n])
    IN After[Len(citations)]

OfBlock(s, b) ==
    IF b.type = "search" THEN [seen |-> TRUE, found |-> AllListed(s.found, b.items)]
    ELSE IF ~s.seen THEN s
    ELSE [s EXCEPT !.found = AllCited(@, b.text, b.citations)]

Extracted(blocks) ==
    LET After[n \in 0 .. Len(blocks)] ==
            IF n = 0 THEN [seen |-> FALSE, found |-> NothingFound]
            ELSE OfBlock(After[n - 1], blocks[n])
    IN After[Len(blocks)].found

\* The sources of the artifact: approved publishers first, then in order of appearance.
ArtifactUrls(f) ==
    LET resolved == {n \in DOMAIN f.order : \E i \in DOMAIN f.segments :
                                                f.segments[i][2] = f.order[n]}
        approved == {n \in resolved : f.order[n] \in Catalogued}
        all == Selected(f.order, approved) \o Selected(f.order, resolved \ approved)
    IN SubSeq(all, 1, IF Len(all) > MaxSources THEN MaxSources ELSE Len(all))

\* The size of the bundle the normalization would be given.
Bundle(f, urls) ==
    LET narrative == {n[1] : n \in {m \in f.narrative : m[2] \in ToSet(urls)}}
        Size(source) == Length(source.excerpt) + IF source.date = NoDate THEN 0 ELSE DateLength
    IN FoldSet(LAMBDA p, n : n + p.length, 0, narrative)
       + FoldLeft(LAMBDA n, u : n + Size(f.sources[u]), 0, urls)

-----------------------------------------------------------------------------
(* Claims. *)

\* _grade_claim, for a quote that is in its excerpt.
Grade(source) == IF source.date # NoDate THEN "verified" ELSE "partially_verified"

\* _is_permitted_public_source: a blog must be one of a catalogued publisher that the model
\* calls analysis; a publisher that is not in the catalogue needs a judgement of its quality.
Permitted(c) ==
    /\ c.sort # "defective" /\ c.quality # "unsuitable" /\ c.url \notin Barred
    /\ (c.sort = "blog" \/ c.url \in Blogs) => (c.url \in Catalogued /\ c.quality = "analysis")
    /\ c.url \in Catalogued \/ c.quality # "none"

\* retain_public_claims: ids that occur twice are all rejected.
RetainPublic(cs) ==
    Selected(cs, {i \in DOMAIN cs :
        Permitted(cs[i]) /\ \A j \in DOMAIN cs : cs[j].id = cs[i].id => j = i})

\* _quote_is_from_source: a text may be a part of one cited passage or stretch over several.
Within(quote, excerpt) ==
    \E i, j \in DOMAIN excerpt : SubSeq(excerpt, i, j) \in PartOf[quote]

\* A quote that an excerpt holds and that supports the country.
Usable(f, quote, url) ==
    Within(quote, f.sources[url].excerpt) /\ Supports(url, quote.places)

\* _validate_normalized_claims: what the model copied is replaced by what the source says.
ValidClaims(cs, f, urls) ==
    LET matched == Selected(cs, {i \in DOMAIN cs : /\ cs[i].url \in ToSet(urls)
                                                   /\ Usable(f, cs[i].quote, cs[i].url)})
        Bound(c) == [c EXCEPT
            !.date = f.sources[c.url].date,
            !.verification = IF c.url \in Catalogued \ ReliefWeb
                             THEN Grade(f.sources[c.url]) ELSE "partially_verified"]
    IN RetainPublic([i \in DOMAIN matched |-> Bound(matched[i])])

\* _salvage_grounded_segments: each cited text once, never better than partially verified;
\* what bars a source bars its excerpts, the blogs of catalogued publishers included.
Salvaged(f, segments) ==
    LET first == Selected(segments, {i \in DOMAIN segments :
                     /\ Usable(f, segments[i][1], segments[i][2])
                     /\ \A j \in 1 .. i - 1 : segments[j] # segments[i]})
    IN RetainPublic([i \in DOMAIN first |->
           [id |-> first[i], url |-> first[i][2], quote |-> first[i][1],
            date |-> f.sources[first[i][2]].date, verification |-> "partially_verified",
            quality |-> "none", relevant |-> TRUE, sort |-> "public", salvaged |-> TRUE]])

Unsuitable(cs) == {cs[i].url : i \in {j \in DOMAIN cs : cs[j].quality = "unsuitable"}}

\* Variant: a judgement of the model does not reach the cited excerpts.
SuitableAll(segments, cs) == segments

\* The segments of sources no claim calls unsuitable.
Suitable(segments, cs) ==
    Selected(segments, {i \in DOMAIN segments : segments[i][2] \notin Unsuitable(cs)})

\* Variant: the sources beyond the cap are left out.
OverflowNone(segments, urls) == <<>>

\* The segments of the sources that were beyond the cap of the artifact.
Overflow(segments, urls) ==
    Selected(segments, {i \in DOMAIN segments : segments[i][2] \notin ToSet(urls)})

\* Every claim of a batch is unsuitable or irrelevant, or there is none.
Dismissed(cs) ==
    \A i \in DOMAIN cs : cs[i].quality = "unsuitable" \/ ~cs[i].relevant

-----------------------------------------------------------------------------
(* The steps of _search. *)

Raise(error) == pc' = "failed" /\ failure' = error

\* A call takes time; the deadline may pass while it lasts.
TimePasses == late' \in {late, TRUE}

\* _remaining_timeout: no call is made after the deadline. A call that is made can time out
\* or find no provider.
CallFails ==
    /\ pc \in {"search", "continue", "normalize"}
    /\ \/ Raise("timeout") /\ UNCHANGED late
       \/ ~late /\ Raise("connection") /\ TimePasses
    /\ UNCHANGED <<content, found, kept, batch, normalized, claims>>

\* The web search; a paused turn is continued once, with the blocks so far.
WebSearch ==
    /\ pc \in {"search", "continue"} /\ ~late
    /\ \E response \in Responses :
          /\ content' = content \o response.blocks
          /\ pc' = IF pc = "search" /\ response.paused THEN "continue" ELSE "extract"
    /\ TimePasses
    /\ UNCHANGED <<found, kept, batch, normalized, claims, failure>>

ItemTypes == {item.type : item \in UNION {ToSet(b.items) : b \in {c \in ToSet(content) :
                                                                     c.type = "search"}}}

Searched == \E b \in ToSet(content) : b.type = "search"

\* The checks of the results, then _extract_search_artifact.
Extract ==
    LET f == Extracted(content)
        urls == ArtifactUrls(f)
    IN /\ pc = "extract"
       /\ \/ /\ "result" \notin ItemTypes /\ "error" \in ItemTypes
             /\ Raise("connection") /\ UNCHANGED <<found, kept>>
          \/ /\ Searched /\ ItemTypes \ {"result", "error"} # {}
             /\ {"result", "error"} \intersect ItemTypes = {}
             /\ Raise("malformed") /\ UNCHANGED <<found, kept>>
          \/ /\ Searched /\ ItemTypes = {}
             /\ pc' = "done" /\ UNCHANGED <<found, kept, failure>>
          \/ /\ "result" \in ItemTypes \/ ~Searched
             /\ \/ f.segments = <<>> /\ Raise("no_synthesis")
                \/ f.segments # <<>> /\ Bundle(f, urls) > MaxBundle /\ Raise("oversized")
             /\ UNCHANGED <<found, kept>>
          \/ /\ "result" \in ItemTypes \/ ~Searched
             /\ f.segments # <<>> /\ Bundle(f, urls) <= MaxBundle
             /\ pc' = "date" /\ found' = f /\ kept' = urls /\ UNCHANGED failure
       /\ UNCHANGED <<late, content, batch, normalized, claims>>

\* _resolve_one_missing_source_date asks for the first source without a date, unless what is
\* stated of it is conflicting.
Dateless ==
    Selected(kept, {i \in DOMAIN kept : /\ found.sources[kept[i]].basis = "none"
                                        /\ kept[i] \notin ReliefWeb})

Resolved(d) ==
    [found EXCEPT !.sources[Head(Dateless)] = [@ EXCEPT !.date = d, !.basis = "article_metadata"]]

\* A date that cannot be fetched, in time or at all, is left missing; one that is fetched may
\* make the bundle too large, which ends the search.
ResolveDate ==
    /\ pc = "date"
    /\ \/ pc' = "normalize" /\ UNCHANGED <<found, failure>>
       \/ /\ Dateless # <<>> /\ Head(Dateless) \in Fetchable /\ ~late
          /\ \E d \in Dates :
                \/ /\ Bundle(Resolved(d), kept) <= MaxBundle
                   /\ found' = Resolved(d) /\ pc' = "normalize" /\ UNCHANGED failure
                \/ Bundle(Resolved(d), kept) > MaxBundle /\ Raise("oversized") /\ UNCHANGED found
    /\ IF Dateless = <<>> THEN UNCHANGED late ELSE TimePasses
    /\ UNCHANGED <<content, kept, batch, normalized, claims>>

\* The batch that came back: nothing when the model dismisses all it was given, else its valid
\* claims with the cited excerpts of the sources it was not given.
Normalize ==
    /\ pc = "normalize" /\ ~late
    /\ \E b \in Batches :
          LET valid == ValidClaims(b, found, kept)
              segments == Suitable(found.segments, b)
              answer == IF Dismissed(b) THEN <<>>
                        ELSE IF valid # <<>>
                        THEN RetainPublic(valid \o Salvaged(found, Overflow(segments, kept)))
                        ELSE Salvaged(found, segments)
          IN /\ batch' = b /\ normalized' = TRUE /\ claims' = answer
             /\ IF answer = <<>> /\ valid = <<>> /\ ~Dismissed(b) THEN Raise("no_parsed_output")
                ELSE pc' = "done" /\ UNCHANGED failure
    /\ TimePasses
    /\ UNCHANGED <<content, found, kept>>

\* An answer that does not parse, or is no batch: the cited excerpts are used.
NormalizationFails ==
    /\ pc = "normalize" /\ ~late
    /\ claims' = Salvaged(found, found.segments)
    /\ IF claims' = <<>> THEN Raise("no_parsed_output") ELSE pc' = "done" /\ UNCHANGED failure
    /\ TimePasses
    /\ UNCHANGED <<content, found, kept, batch, normalized>>

SearchNext ==
    \/ WebSearch \/ CallFails \/ Extract \/ ResolveDate \/ Normalize \/ NormalizationFails
    \/ pc \in {"done", "failed"} /\ UNCHANGED searchVars

SearchSpec == SearchInit /\ [][SearchNext]_searchVars

-----------------------------------------------------------------------------
(* Properties. *)

Returned == ToSet(claims)

\* The results of a URL in a block.
ResultsOf(b, url) ==
    IF b.type = "search" THEN {x \in ToSet(b.items) : x.type = "result" /\ x.url = url} ELSE {}

\* The citations of the response that count for a URL: a search had listed it before, under
\* the title the citation gives, and the passage is no longer than an excerpt may be.
CitationsOf(url) ==
    {c \in UNION {ToSet(content[j].citations) : j \in {k \in DOMAIN content :
                       /\ content[k].type = "text"
                       /\ \E i \in 1 .. k - 1 : ResultsOf(content[i], url) # {}}} :
        /\ c.url = url /\ url \notin Unciteable
        /\ c.sameTitle /\ c.passage.length <= MaxExcerpt}

\* The dates a citation states: the one in its passage, else its own and that in its URL.
CitationDates(c) ==
    IF c.passage.dated # NoDate THEN {c.passage.dated} ELSE c.dates \union {UrlDate[c.url]}

\* Every date the response states of a URL: in the URL, in a result or with a citation.
StatedDates(url) ==
    {d \in Dates : \/ d = UrlDate[url]
                   \/ \E b \in ToSet(content) : \E x \in ResultsOf(b, url) : d \in x.dates
                   \/ \E c \in CitationsOf(url) : d \in CitationDates(c)}

\* What a review is told of the web was really cited: a claim quotes no more than passages
\* that the text of the response cites from a source the search had listed before; its date
\* is not in dispute among the results and the citations, in whatever order they came and
\* however often a source was listed or cited; and "verified" is for a dated claim of a
\* catalogued publisher that the model normalized (_merge_source, _validate_normalized_claims,
\* _salvage_grounded_segments).
ClaimsAreGrounded ==
    \A c \in Returned :
        /\ \E parts \in PartOf[c.quote] : \A p \in ToSet(parts) :
               \E cited \in CitationsOf(c.url) : cited.passage = p
        /\ c.date # NoDate => StatedDates(c.url) \subseteq {c.date}
        /\ c.verification = "verified" =>
               c.date # NoDate /\ c.url \in Catalogued \ ReliefWeb /\ ~c.salvaged

\* A source the model calls unsuitable does not come back as a cited excerpt, neither when
\* its other claims were no use nor from beyond the cap (rejected_urls).
RejectedStaysRejected ==
    \A c \in Returned : c.salvaged => c.url \notin Unsuitable(batch)

\* The failure of one step does not lose what another one found: a usable excerpt of a
\* catalogued publisher, from a source that is neither barred nor a blog, is among the claims,
\* or the model dismissed all it was given, called its source unsuitable, or was given the
\* source and used others; a search fails for want of a batch only when it has no such excerpt.
NothingUsableIsLost ==
    \A i \in DOMAIN found.segments :
        LET quote == found.segments[i][1]
            url == found.segments[i][2]
        IN /\ url \in Catalogued \ (Barred \union Blogs) /\ Usable(found, quote, url)
           /\ pc = "done" \/ failure = "no_parsed_output"
           => \/ \E c \in Returned : c.quote = quote /\ c.url = url
              \/ normalized /\ (Dismissed(batch) \/ url \in Unsuitable(batch))
              \/ /\ normalized /\ url \in ToSet(kept)
                 /\ \E c \in Returned : ~c.salvaged
=============================================================================
