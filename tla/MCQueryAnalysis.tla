--------------------------- MODULE MCQueryAnalysis ---------------------------
(* Queries for TLC. *)
EXTENDS QueryAnalysis

ErrorSays(f, in, w) == [form |-> f, indented |-> in, says |-> w]
\* Lines of every form, with phrases that make the cleaner keep a line and
\* phrases that do not, one of them in the name of a file.
MCErrorLines ==
    {ErrorSays("headline", FALSE, {"mode error"}), ErrorSays("headline", TRUE, {}),
     ErrorSays("plain", TRUE, {"trigger may be insufficient"}),
     ErrorSays("plain", FALSE, {"assertion failed"}),
     ErrorSays("location", TRUE, {"e0308"}), ErrorSays("location", FALSE, {}),
     ErrorSays("noise", TRUE, {"mismatched types"}), ErrorSays("blank", FALSE, {})}
MCErrors == UNION {[1..n -> MCErrorLines] : n \in 0..3}

Tok(t, of) == [text |-> t, masked |-> FALSE, of |-> of]
Hidden(t, of) == [text |-> t, masked |-> TRUE, of |-> of]
In(of, ts) == [k \in DOMAIN ts |-> Tok(ts[k], of)]
\* Expressions of a clause: a call, a quantifier with a block (after a comment
\* too), one with a clause keyword's name in a comment, an if with its block.
Expressions(of) ==
    {In(of, <<"word", "(", "word", "[", "word", "]", ")">>),
     In(of, <<"word", "|", "word", "|">>) \o <<Hidden("word", of)>> \o In(of, <<"{", "word", "}">>),
     In(of, <<"word">>) \o <<Hidden("requires", of), Hidden("{", of)>>,
     In(of, <<"word", "{", "word", "}">>)}
Clause(kw) == {<<Tok(kw, kw)>> \o x : x \in Expressions(kw)}
Signature == In("signature", <<"word", "(", "word", ")">>)
Body == In("body", <<"{", "word", "word", "(", "|", "word", "|", "{", "}", ")">>)
LoopBodies == {Body \o In("body", <<"word">>) \o c \o In("body", <<"{", "word", "}", "}">>) :
                 c \in Clause("invariant")}
FunctionTexts == {Signature \o r \o e \o b : r \in Clause("requires"), e \in Clause("ensures"), b \in LoopBodies}
\* A declaration in a trait, then another, or the end of the trait.
Declarations == {Signature \o r \o In("signature", <<";">>) \o next :
                   r \in Clause("requires"),
                   next \in {In("signature", <<"}">>), Signature \o In("body", <<"{", "}">>)}
                            \cup {Signature \o e : e \in Clause("ensures")}}
\* A snippet may be cut off anywhere.
MCCodes == UNION {Prefixes(f) : f \in FunctionTexts} \cup Declarations
ASSUME CodesGrammatical == \A c \in MCCodes : Grammatical(c)

NoQuery == [error |-> <<>>, code |-> <<>>]
MCQueries == {[NoQuery EXCEPT !.error = e] : e \in MCErrors}
             \cup {[NoQuery EXCEPT !.code = c] : c \in MCCodes}
=============================================================================
