------------------------------- MODULE MCText -------------------------------
(* TLC instance of CorpusScan and, beside it, of QueryAnalysis: what is done *)
(* to the texts of the corpus and to those of a query.                       *)
EXTENDS CorpusScan, MCChunking, MCQueryAnalysis

\* Every document and every program alone in a corpus.
MCPaths == {"lib.rs", "guide.md", "notes.md", "late.pdf", "paper.pdf", "scan.pdf", "linked.pdf",
            "secret.rs"}
MCOutside == {"linked.pdf", "secret.rs"}
NoEdits == [p \in MCPaths |-> {}]
Nothing == [p \in MCPaths |-> NotThere]
Text(ls) == [type |-> "text", lines |-> ls, utf8 |-> TRUE]
Pdf(ps) == [type |-> "pdf", pages |-> ps, readable |-> TRUE]
EmptyCorpus == [projects |-> <<>>, tutorial |-> <<>>, pdfs |-> <<>>,
                files |-> Nothing, edits |-> NoEdits, scans |-> 1]
SingleFiles ==
    {[EmptyCorpus EXCEPT !.tutorial = <<<<"guide.md">>>>, !.files["guide.md"] = Text(d)] : d \in MCDocuments}
    \cup {[EmptyCorpus EXCEPT !.projects = <<<<"lib.rs">>>>, !.files["lib.rs"] = Text(p)] : p \in MCPrograms}

\* A tree with everything in it, scanned twice.
Says(w) == [Plain EXCEPT !.text = <<w>>]
Heading(w) == [Says(w) EXCEPT !.heading = TRUE]
Blank == [Plain EXCEPT !.blank = TRUE, !.text = <<"">>]
Includes(p, a) == [Plain EXCEPT !.text = <<"include", p, a>>]
Code(t) == [Other EXCEPT !.text = t]
Function(w) == [Other EXCEPT !.decl = TRUE, !.text = <<w>>]

Lib == <<Function("f"), Code(<<"begin", "a">>), Code(<<"x">>), Code(<<"end", "a">>), Function("g")>>
LibGrown == <<Function("e")>> \o Lib
LibSwapped == <<Function("f"), Code(<<"end", "a">>), Code(<<"y">>), Code(<<"begin", "a">>), Function("g")>>
Targets == {<<"lib.rs", "a">>, <<"lib.rs", "">>, <<"lib.rs", "b">>, <<"secret.rs", "a">>, <<"paper.pdf", "">>}
Guides == {<<Heading("one"), Includes(t[1], t[2]), Heading("two"), Includes(u[1], u[2])>> :
             t \in Targets, u \in {<<"lib.rs", "a">>, <<"notes.md", "">>}}
GuideEdited == <<Heading("one"), Says("new"), Says("new"), Heading("three")>>
Notes == <<Says("note"), Says("note")>>
Paper == <<<<Says("p1")>>, <<>>, <<Heading("p3"), Blank, Says("p3")>>>>
PaperEdited == <<<<Says("q1")>>, <<>>, <<Heading("q3"), Blank, Says("q3")>>>>

Tree(guide, pdfs) ==
    [projects |-> <<<<"lib.rs">>>>, tutorial |-> <<<<"guide.md", "notes.md">>>>, pdfs |-> pdfs,
     files |-> [Nothing EXCEPT !["lib.rs"] = Text(Lib), !["guide.md"] = Text(guide),
                               !["notes.md"] = Text(Notes), !["paper.pdf"] = Pdf(Paper),
                               !["scan.pdf"] = Pdf(<<<<>>, <<>>>>), !["linked.pdf"] = Pdf(Paper),
                               !["secret.rs"] = Text(Lib)],
     edits |-> [NoEdits EXCEPT !["lib.rs"] = {Text(LibGrown), Text(LibSwapped), [Text(Lib) EXCEPT !.utf8 = FALSE]},
                               !["guide.md"] = {Text(GuideEdited)},
                               !["notes.md"] = {NotThere},
                               !["paper.pdf"] = {Pdf(PaperEdited), [Pdf(Paper) EXCEPT !.readable = FALSE]},
                               !["late.pdf"] = {Pdf(Paper)},
                               !["scan.pdf"] = {NotThere}],
     scans |-> 2]
\* Roots that overlap, with a file that may still come; a link out of the tree.
PdfRoots == {<<>>, <<<<"paper.pdf", "scan.pdf">>, <<"late.pdf", "paper.pdf">>>>, <<<<"linked.pdf">>>>}
Trees == {Tree(g, r) : g \in Guides, r \in PdfRoots}
MCCorpora == {EmptyCorpus} \cup SingleFiles \cup Trees

\* A corpus is scanned or a query is analysed: the two share no state, so
\* that their interleavings would show nothing more.
TextInit ==
    \/ ScanInit /\ AnalysisInitOf(NoQuery)
    \/ ScanInitOf(EmptyCorpus) /\ AnalysisInit
TextNext ==
    \/ ScanNext /\ UNCHANGED analysisVars
    \/ corpus = EmptyCorpus /\ AnalysisNext /\ UNCHANGED <<chunkingVars, scanVars>>
TextSpec == TextInit /\ [][TextNext]_<<chunkingVars, scanVars, analysisVars>>
=============================================================================
