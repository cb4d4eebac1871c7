----------------------------- MODULE Extraction -----------------------------
(***************************************************************************)
(* What the extractors make of an upload (extraction.py and the container  *)
(* check of runtime.py), as operators: which pages of a PDF are read, where *)
(* a plain text is cut, what is over a limit, and what the document is     *)
(* warned about. A page or a paragraph is its number of characters, 0 if   *)
(* it has no text; a plain text is a sequence of ink and blanks.           *)
(***************************************************************************)
EXTENDS Integers, SequencesExt, Selections

CONSTANTS
    MaxPages,           \* DIAGNOSTIC_MAX_PAGES, also the limit on segments
    MaxCharacters,      \* DIAGNOSTIC_MAX_CHARACTERS
    SamplePages,        \* OPTIONAL_PDF_SAMPLE_PAGES
    SamplePrefix,       \* PDF_SAMPLE_PREFIX_PAGES
    SegmentCharacters   \* TEXT_SEGMENT_CHARACTERS

ASSUME ExtractionAssumption ==
    /\ {MaxPages, MaxCharacters, SamplePages, SamplePrefix} \subseteq Nat \ {0}
    /\ SegmentCharacters \in Nat \ {0, 1}

\* The positions of a sequence of length n that are in S, in order.
InOrder(S, n) == Selected([i \in 1 .. n |-> i], S \intersect (1 .. n))

Ink == "x"
Blank == " "

\* An upload: sound if its suffix and its container are accepted, parses if its reader
\* raises none of the expected errors.
Upload(name, suffix, body) ==
    [name |-> name, suffix |-> suffix, body |-> body, sound |-> TRUE, parses |-> TRUE,
     figures |-> FALSE, diagnostic |-> FALSE]

-----------------------------------------------------------------------------
\* Python's round of a / b for natural a and b > 0: a half goes to the even neighbour.
Rounded(a, b) ==
    LET down == a \div b
        rest == 2 * (a % b)
    IN IF rest > b \/ (rest = b /\ down % 2 = 1) THEN down + 1 ELSE down

\* The pages of a sample: the first ones, the last one, and between them an even spread.
DistributedPages(count, limit) ==
    LET prefix == IF SamplePrefix < limit THEN SamplePrefix ELSE limit - 1
        slots  == limit - prefix - 1
        room   == count - 1 - prefix
        Spread(k) == IF slots = 1 THEN 0 ELSE Rounded(k * (room - 1), slots - 1)
    IN IF count <= limit THEN 1 .. count
       ELSE IF limit = 1 THEN {1}
       ELSE 1 .. prefix \union {prefix + 1 + Spread(k) : k \in 0 .. slots - 1} \union {count}

PagesRead(u, sample) ==
    IF sample THEN DistributedPages(Len(u.body), SamplePages) ELSE 1 .. Len(u.body)

-----------------------------------------------------------------------------
\* str.strip
Stripped(text) ==
    LET ink == {i \in DOMAIN text : text[i] = Ink}
    IN IF ink = {} THEN <<>>
       ELSE SubSeq(text, CHOOSE i \in ink : \A j \in ink : i <= j,
                         CHOOSE i \in ink : \A j \in ink : j <= i)

\* A variant that cuts a text without a blank one character late.
BoundaryLate(text) ==
    LET blanks == {i \in SegmentCharacters \div 2 .. SegmentCharacters : text[i + 1] = Blank}
    IN IF blanks = {} THEN SegmentCharacters + 1 ELSE CHOOSE i \in blanks : \A j \in blanks : j <= i

\* Where a text is cut: at the last blank of the second half of the window, else at its end.
Boundary(text) ==
    LET blanks == {i \in SegmentCharacters \div 2 .. SegmentCharacters : text[i + 1] = Blank}
    IN IF blanks = {} THEN SegmentCharacters ELSE CHOOSE i \in blanks : \A j \in blanks : j <= i

ChunkText[text \in Seq({Ink, Blank})] ==
    IF text = <<>> THEN <<>>
    ELSE IF Len(text) <= SegmentCharacters THEN <<text>>
    ELSE <<Stripped(SubSeq(text, 1, Boundary(text)))>>
           \o ChunkText[Stripped(SubSeq(text, Boundary(text) + 1, Len(text)))]

-----------------------------------------------------------------------------
\* The segments of a document: where each one stands and how long it is.
Located(u, positions) ==
    LET texts == InOrder({p \in positions : u.body[p] > 0}, Len(u.body))
    IN [i \in DOMAIN texts |-> [at |-> texts[i], size |-> u.body[texts[i]]]]

PdfSegments(u, sample) == Located(u, PagesRead(u, sample))

DocxSegments(u) == Located(u, DOMAIN u.body)

TextSegments(u) ==
    LET chunks == ChunkText[Stripped(u.body)]
    IN [i \in DOMAIN chunks |-> [at |-> i, size |-> Len(chunks[i])]]

Segments(u, sample) ==
    CASE u.suffix = "pdf"  -> PdfSegments(u, sample)
      [] u.suffix = "docx" -> DocxSegments(u)
      [] u.suffix = "txt"  -> TextSegments(u)

Characters(segments) ==
    Total([i \in DOMAIN segments |-> segments[i].size], DOMAIN segments)

\* What a document is warned about: pages without text, figures, pages that were not read.
Warnings(u, sample) ==
    LET read  == PagesRead(u, sample)
        blank == InOrder({p \in read : u.body[p] = 0}, Len(u.body))
    IN IF u.suffix = "pdf"
       THEN [i \in DOMAIN blank |-> <<"textless", "page", blank[i]>>]
            \o (IF Cardinality(read) < Len(u.body)
                THEN << <<"sampled", u.name, Len(u.body)>> >> ELSE <<>>)
       ELSE IF u.figures THEN << <<"figures", "n", 1>> >> ELSE <<>>

OverLimit(u, sample) ==
    \/ Len(Segments(u, sample)) > MaxPages
    \/ Characters(Segments(u, sample)) > MaxCharacters
    \/ u.suffix = "pdf" /\ ~sample /\ Len(u.body) > MaxPages
    \/ u.suffix = "txt" /\ Len(Stripped(u.body)) > MaxCharacters

\* extract_document: which error it raises, if any, and what it returns otherwise.
Outcome(u, sample) ==
    IF ~u.parses THEN "unreadable" ELSE IF OverLimit(u, sample) THEN "limit"
    ELSE IF Segments(u, sample) = <<>> THEN "empty" ELSE "read"

Document(u, sample) ==
    [upload |-> u, name |-> u.name, segments |-> Segments(u, sample),
     warnings |-> Warnings(u, sample)]

DocumentCharacters(d) == Characters(d.segments)
=============================================================================
