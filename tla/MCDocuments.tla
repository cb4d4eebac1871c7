---------------------------- MODULE MCDocuments ----------------------------
(* Uploads for the runs of Documents: a few packages with a few contexts. *)
EXTENDS Documents

Pdf(name, pages) == Upload(name, "pdf", pages)

Ones(n) == [i \in 1 .. n |-> 1]

Text(name, n) == Upload(name, "txt", [i \in 1 .. n |-> IF i % 3 = 0 THEN Blank ELSE Ink])

Diagnostic(u) == [u EXCEPT !.diagnostic = TRUE]

Broken(u) == [u EXCEPT !.parses = FALSE]

\* Nothing, a document that fits, two of which one must be digested, a sampled one with the
\* diagnostic before it, too many, one that is too long.
Packages ==
    {<<>>, <<Text("p", 5)>>, <<Pdf("p", <<2, 2>>), Pdf("q", <<0, 3>>)>>,
     <<Diagnostic(Pdf("rra", Ones(2))), Pdf("p", <<1, 0, 1, 1, 1>>)>>,
     <<Text("p", 1), Text("q", 1), Text("r", 1)>>, <<Pdf("p", Ones(7))>>,
     <<Broken(Text("p", 2))>>}

\* Nothing; two of the same name that are sampled and later read in full, one of them too
\* large then; the diagnostic among others; unreadable ones; a diagnostic over the limit.
Contexts ==
    {<<>>, <<Pdf("c", Ones(5)), Pdf("c", <<1, 1, 9, 1, 1>>), Pdf("c", Ones(7))>>,
     <<[Upload("c", "docx", <<2, 0, 2>>) EXCEPT !.figures = TRUE], Diagnostic(Pdf("rra", Ones(5))),
       Pdf("d", <<1, 1>>)>>,
     <<Broken(Text("c", 2)), Diagnostic(Text("c", 2)), Diagnostic(Text("d", 3)),
       [Text("e", 3) EXCEPT !.sound = FALSE]>>,
     <<Pdf("c", <<6>>), Pdf("d", <<2, 2>>)>>,
     <<Pdf("rra", <<9>>)>>, <<Diagnostic(Pdf("rra", Ones(7)))>>, <<Pdf("c", <<9>>)>>}

\* Every plain text of up to six characters, and PDFs of every length.
Texts ==
    {<<Upload("t", "txt", t)>> : t \in UNION {[1 .. n -> {Ink, Blank}] : n \in 1 .. 6}}
    \union {<<Pdf("c", Ones(n))>> : n \in 1 .. 9}

MCUploads ==
    [package : {<<>>}, context : Texts] \union
    [package : Packages, context : {<<>>}] \union [package : {<<>>}, context : Contexts]
    \union {[package |-> <<Diagnostic(Text("p", 2)), Text("q", 5)>>,
             context |-> <<Pdf("c", <<2, 2>>), Diagnostic(Text("d", 2))>>],
            [package |-> <<Diagnostic(Text("p", 3)), Text("q", 2)>>,
             context |-> <<Diagnostic(Pdf("c", <<1, 1>>)), Diagnostic(Text("d", 2))>>]}

MCBudget == [package |-> 4, context |-> 3]
=============================================================================
