---------------------------- MODULE QueryAnalysis ----------------------------
(***************************************************************************)
(* What a query is made of before anything is scored: the error output     *)
(* cleaned and classified (rag/error_cleaner.py), cleaned once more for    *)
(* the weighted terms (rag/retriever.py), and the specification clauses    *)
(* cut out of the code (rag/code_analyzer.py).  Error output is a sequence *)
(* of lines reduced to what the cleaner looks at, code a sequence of       *)
(* tokens; weights, stemming and the other bags of terms are left out.     *)
(***************************************************************************)
EXTENDS Naturals, Sequences, FiniteSets, SequencesExt, SumSort

CONSTANTS
    Queries,    \* [error, code], see ErrorLine and Token
    MaxLines    \* max_lines

\* A phrase, its category, and whether the words of clean_error_text that
\* make it keep a line occur in the phrase.
VerusPhraseToCategory ==
    {<<"precondition not satisfied", "precondition", TRUE>>,
     <<"postcondition not satisfied", "postcondition", TRUE>>,
     <<"invariant not satisfied", "invariant", TRUE>>,
     <<"invariant not satisfied before loop", "invariant", TRUE>>,
     <<"invariant not satisfied at end of loop body", "invariant", TRUE>>,
     <<"possible arithmetic underflow/overflow", "overflow", TRUE>>,
     <<"possible arithmetic overflow", "overflow", TRUE>>,
     <<"possible arithmetic underflow", "overflow", TRUE>>,
     <<"assertion failed", "assertion", TRUE>>,
     <<"assertion not satisfied", "assertion", TRUE>>,
     <<"assert_by failed", "assertion", TRUE>>,
     <<"trigger may be insufficient", "trigger", FALSE>>,
     <<"recommendation not met", "precondition", FALSE>>,
     <<"failed to simplify", "assertion", TRUE>>,
     <<"could not prove", "assertion", FALSE>>,
     <<"cannot prove", "assertion", FALSE>>,
     <<"mismatched types", "type_mismatch", TRUE>>,
     <<"expected int, found usize", "type_mismatch", FALSE>>,
     <<"expected usize, found int", "type_mismatch", FALSE>>,
     <<"expected i32", "type_mismatch", FALSE>>,
     <<"expected u64", "type_mismatch", FALSE>>,
     <<"type annotations needed", "type_mismatch", TRUE>>,
     <<"no associated item", "missing_item", TRUE>>,
     <<"not found in this scope", "missing_item", TRUE>>,
     <<"expected mutable reference", "old_ref", FALSE>>,
     <<"arguments to this function are incorrect", "type_mismatch", FALSE>>,
     <<"mode error", "mode_error", FALSE>>,
     <<"cannot use spec", "mode_error", FALSE>>,
     <<"exec code cannot call spec", "mode_error", FALSE>>,
     <<"cannot call spec fn", "mode_error", FALSE>>}
EcodeToCategory ==
    {<<c, "type_mismatch", FALSE>> : c \in {"e0308", "e0282", "e0277", "e0107"}}
    \cup {<<c, "missing_item", FALSE>> : c \in {"e0599", "e0425", "e0412", "e0433"}}
Signs == VerusPhraseToCategory \cup EcodeToCategory
Phrases == {s[1] : s \in Signs}

\* The form of a line: "location" is rustc's arrow with file, line and column;
\* "noise" any other of NOISE_PATTERNS, which all allow for indentation;
\* "headline" begins with one of KEEP_PREFIXES.  says are the phrases in it.
ErrorLine == [form: {"blank", "location", "noise", "headline", "plain"},
              indented: BOOLEAN, says: SUBSET Phrases]

Keywords == {"ensures", "requires", "invariant", "decreases"}
Brace == "{"
Bar == "|"
Semicolon == ";"
Openers == {"(", Brace, "["}
Closers == {")", "}", "]"}
\* A token, whether mask_non_code blanks it (comments, strings, space), and
\* what it belongs to: a clause of that keyword, or not to a clause at all.
\* _extract_spec_clauses does not know the last; it is there to judge it.
Token == [text: Keywords \cup Openers \cup Closers \cup {Bar, Semicolon, "word"},
          masked: BOOLEAN, of: Keywords \cup {"signature", "body"}]

ASSUME AnalysisAssumption ==
    MaxLines \in Nat /\ Queries \subseteq [error: Seq(ErrorLine), code: Seq(Token)]

VARIABLES
    query, phase,
    cleaned, categories,    \* cleaned_error, error_categories of _retrieve_index
    recleaned, hinted,      \* the same of _build_weighted_query_terms
    cursor, opened, depth,  \* i (or position), start, depth
    clauses                 \* the clauses: keyword, first and last token

analysisVars == <<query, phase, cleaned, categories, recleaned, hinted, cursor, opened, depth, clauses>>

AnalysisInitOf(q) ==
    /\ query = q /\ phase = "clean"
    /\ cleaned = <<>> /\ categories = {} /\ recleaned = <<>> /\ hinted = {}
    /\ cursor = 1 /\ opened = 1 /\ depth = 0 /\ clauses = <<>>
AnalysisInit == \E q \in Queries : AnalysisInitOf(q)

-----------------------------------------------------------------------------
(* error_cleaner.py *)

\* re.match anchors every pattern at the start of the line, and the one for
\* locations has no room for indentation.
IsNoise(l) == l.form \in {"blank", "noise"} \/ (l.form = "location" /\ ~l.indented)
StripNoiseLines(ls) == Picked(ls, {k \in DOMAIN ls : ~IsNoise(ls[k])})

\* Mutant: the prefixes are looked for before the line is stripped.
IsFocusedUnstripped(l) ==
    \/ l.form = "headline" /\ ~l.indented
    \/ \E s \in Signs : s[1] \in l.says /\ s[3]

IsFocused(l) ==
    \/ l.form = "headline"
    \/ \E s \in Signs : s[1] \in l.says /\ s[3]

\* strip() of the joined lines takes the indentation of the first one.
Joined(ls) == [k \in DOMAIN ls |-> IF k = 1 THEN [ls[k] EXCEPT !.indented = FALSE] ELSE ls[k]]
CleanErrorText(ls) ==
    LET kept == StripNoiseLines(ls)
        focused == Picked(kept, {k \in DOMAIN kept : IsFocused(kept[k])})
        chosen == IF focused = <<>> THEN kept ELSE focused
    IN  Joined(SubSeq(chosen, 1, IF Len(chosen) < MaxLines THEN Len(chosen) ELSE MaxLines))

DetectErrorCategories(ls) ==
    {s[2] : s \in {t \in Signs : \E l \in ToSet(ls) : t[1] \in l.says}}

\* _retrieve_index.
CleanError ==
    /\ phase = "clean"
    /\ cleaned' = CleanErrorText(query.error)
    /\ categories' = DetectErrorCategories(cleaned')
    /\ phase' = "terms"
    /\ UNCHANGED <<query, recleaned, hinted, cursor, opened, depth, clauses>>

\* _build_weighted_query_terms is given the cleaned text and cleans it again;
\* code that is blank is not analysed.
BuildTerms ==
    /\ phase = "terms"
    /\ recleaned' = CleanErrorText(cleaned)
    /\ hinted' = DetectErrorCategories(recleaned')
    /\ phase' = IF query.code = <<>> THEN "analysed" ELSE "search"
    /\ UNCHANGED <<query, cleaned, categories, cursor, opened, depth, clauses>>

-----------------------------------------------------------------------------
(* _extract_spec_clauses *)

\* mask_non_code
Shown(code, k) == IF code[k].masked THEN " " ELSE code[k].text
Masked(k) == Shown(query.code, k)

\* keywords.search(masked, position)
SearchKeyword ==
    /\ phase = "search"
    /\ LET next == {k \in cursor..Len(query.code) : Masked(k) \in Keywords}
       IN  \/ /\ next = {}
              /\ phase' = "analysed" /\ UNCHANGED <<cursor, opened>>
           \/ /\ next # {}
              /\ opened' = (CHOOSE k \in next : \A m \in next : k <= m) + 1
              /\ cursor' = opened' /\ phase' = "walk"
    /\ depth' = 0
    /\ UNCHANGED <<query, cleaned, categories, recleaned, hinted, clauses>>

\* Mutant: a comment after the bar hides it.
AfterBarOnly == cursor > opened /\ query.code[cursor - 1].text = Bar

\* prefix.endswith("|"): the last token from a on and before m that is not
\* blank is a bar.
EndsInBar(code, a, m) ==
    \E k \in a..(m - 1) :
      Shown(code, k) = Bar /\ \A n \in (k + 1)..(m - 1) : Shown(code, n) = " "
AfterBar == EndsInBar(query.code, opened, cursor)

AtEnd ==
    cursor <= Len(query.code) =>
      /\ depth = 0
      /\ Masked(cursor) \in Keywords \cup Closers \/ (Masked(cursor) = Brace /\ ~AfterBar)

WalkToken ==
    /\ phase = "walk" /\ ~AtEnd
    /\ depth' = CASE Masked(cursor) \in Openers -> depth + 1
                  [] Masked(cursor) \in Closers -> depth - 1
                  [] OTHER -> depth
    /\ cursor' = cursor + 1
    /\ UNCHANGED <<query, phase, cleaned, categories, recleaned, hinted, opened, clauses>>

EndClause ==
    /\ phase = "walk" /\ AtEnd
    /\ clauses' = Append(clauses, [keyword |-> query.code[opened - 1].text,
                                   first |-> opened, last |-> cursor - 1])
    /\ phase' = "search"
    /\ UNCHANGED <<query, cleaned, categories, recleaned, hinted, cursor, opened, depth>>

AnalysisNext == CleanError \/ BuildTerms \/ SearchKeyword \/ WalkToken \/ EndClause
AnalysisSpec == AnalysisInit /\ [][AnalysisNext]_analysisVars

-----------------------------------------------------------------------------
(* Properties. *)

Analysed == phase = "analysed"
Captured(c) == {k \in c.first..c.last : Masked(k) # " "}
ClausePositions == UNION {Captured(c) : c \in ToSet(clauses)}

Count(code, kinds, j, k) == Cardinality({m \in j..k : Shown(code, m) \in kinds})
Opens(code, j, k) == Count(code, Openers, j, k)
Closes(code, j, k) == Count(code, Closers, j, k)
\* No bracket is closed in tokens a to b that was not opened there.
NoneClosed(code, a, b) == \A k \in a..b : Opens(code, a, k) >= Closes(code, a, k)
\* An opening brace that no bar precedes: the block of an if or a match.
BareBrace(code, m) == Shown(code, m) = Brace /\ ~EndsInBar(code, 1, m)

\* Tokens a to b are the beginning of a part of the code, or all of it: of a
\* clause, of what else belongs to signatures, or of a body.
Begins(code, k) == k = 1 \/ Shown(code, k) \in Keywords \/ code[k].of # code[k - 1].of
Part(code, a, b) == a <= b /\ Begins(code, a) /\ \A k \in (a + 1)..b : ~Begins(code, k)
Followed(code, b) == b < Len(code) /\ Begins(code, b + 1)
\* How parts follow each other, blanks going with what precedes them.  A clause
\* begins with its keyword and its brackets match; then comes a clause, a body,
\* or the semicolon of a declaration.  After that there may be another
\* signature, up to its first clause or its body, or the end of the trait.
\* Other clauses of Verus (recommends, opens_invariants) are not Keywords of
\* _extract_spec_clauses; code that has one after a clause is not covered.
Grammatical(code) ==
    \A a \in DOMAIN code : Begins(code, a) => \A b \in a..Len(code) : Part(code, a, b) =>
      /\ Shown(code, a) \in Keywords => code[a].of = Shown(code, a)
      /\ code[a].of \in Keywords =>
           /\ Shown(code, a) \in Keywords /\ NoneClosed(code, a, b)
           /\ Followed(code, b) =>
                /\ Opens(code, a, b) = Closes(code, a, b)
                /\ \/ Shown(code, b + 1) \in Keywords
                   \/ code[b + 1].of = "body" /\ BareBrace(code, b + 1)
                   \/ code[b + 1].of = "signature" /\ Shown(code, b + 1) = Semicolon
      /\ code[a].of = "signature" /\ Shown(code, a) = Semicolon /\ NoneClosed(code, a, b) /\ Followed(code, b) =>
           /\ Opens(code, a, b) = Closes(code, a, b)
           /\ \/ Shown(code, b + 1) \in Keywords
              \/ code[b + 1].of = "body" /\ BareBrace(code, b + 1)

\* The categories that boost the groups of a query are those whose terms are
\* added to it, although the second are found in a text that was cleaned
\* twice: no line is lost by that but a location that came first, and with it
\* only the categories that its file name alone suggests (retriever.py,
\* _retrieve_index and _build_weighted_query_terms).
CategoriesSettled ==
    phase \notin {"clean", "terms"} =>
      \/ recleaned = cleaned /\ hinted = categories
      \/ /\ cleaned # <<>> /\ cleaned[1].form = "location"
         /\ recleaned = Joined(Tail(cleaned))
         /\ categories = hinted \cup DetectErrorCategories(<<cleaned[1]>>)

\* The brackets of every clause match, whatever follows it, unless the code
\* itself ends inside: a snippet may be cut off anywhere.
ClausesBalanced ==
    \A c \in ToSet(clauses) :
      /\ c.last < Len(query.code) => Opens(query.code, c.first, c.last) = Closes(query.code, c.first, c.last)
      /\ NoneClosed(query.code, c.first, c.last)

\* "Walk balanced clause expressions; a quantifier block is not a function
\* body" (code_analyzer.py): no token of a body is ever taken for
\* specification, a clause holds what belongs to its keyword and at most the
\* signature after a declaration that has no body, and of a clause nothing is
\* lost but what follows a brace that is not a quantifier's.  But for the
\* brackets, this is about code that parses as far as it goes.
SpecExtracted ==
    /\ ClausesBalanced
    /\ Analysed /\ Grammatical(query.code) =>
      /\ \A c \in ToSet(clauses) : \A k \in Captured(c) :
           \/ query.code[k].of = c.keyword
           \/ /\ query.code[k].of = "signature"
              /\ \E m \in c.first..k : Masked(m) = Semicolon
      /\ \A k \in DOMAIN query.code :
           /\ query.code[k].of \in Keywords /\ Masked(k) \notin Keywords \cup {" "}
           /\ k \notin ClausePositions
           => \E m \in 1..k : /\ BareBrace(query.code, m) /\ m \notin ClausePositions
                              /\ \A n \in m..k : query.code[n].of = query.code[k].of

\* "Keep error headlines, Verus-specific phrases, failed messages"
\* (error_cleaner.py): a Verus phrase on a line of the error output that is
\* neither noise nor a location gives its category, also after the cleaning.
CategoriesFound ==
    phase # "clean" => \A s \in VerusPhraseToCategory, l \in ToSet(StripNoiseLines(query.error)) :
      l.form # "location" /\ s[1] \in l.says => s[2] \in categories

-----------------------------------------------------------------------------
(* The inductive invariant behind these properties. *)

\* Both cleanings are of the text that the one before left.
CleaningInv ==
    /\ query \in Queries
    /\ phase # "clean" =>
         cleaned = CleanErrorText(query.error) /\ categories = DetectErrorCategories(cleaned)
    /\ phase \notin {"clean", "terms"} =>
         recleaned = CleanErrorText(cleaned) /\ hinted = DetectErrorCategories(recleaned)
\* How a walk from token o has come to token e: it is in the clause of its
\* keyword, or in the signature after that.
Walked(code, o, e) ==
    /\ o - 1 \in DOMAIN code /\ Shown(code, o - 1) \in Keywords
    /\ o <= e /\ e <= Len(code) + 1 /\ NoneClosed(code, o, e - 1)
    /\ Grammatical(code) =>
         \/ Part(code, o - 1, e - 1)
         \/ \E s \in o..(e - 1) : /\ Part(code, o - 1, s - 1) /\ Part(code, s, e - 1)
                                  /\ code[s].of = "signature" /\ Shown(code, s) = Semicolon
\* Why it ended before token e.
Ended(code, o, e) ==
    e <= Len(code) =>
      /\ Opens(code, o, e - 1) = Closes(code, o, e - 1)
      /\ Shown(code, e) \in Keywords \cup Closers \/ (Shown(code, e) = Brace /\ ~EndsInBar(code, o, e))

WalkInv ==
    /\ cursor \in 1..(Len(query.code) + 1) /\ opened \in Nat /\ depth \in Nat
    /\ phase \in {"clean", "terms", "search", "walk", "analysed"}
    /\ phase = "walk" =>
         /\ Walked(query.code, opened, cursor)
         /\ Opens(query.code, opened, cursor - 1) = Closes(query.code, opened, cursor - 1) + depth
    /\ phase = "analysed" => \A k \in cursor..Len(query.code) : Masked(k) \notin Keywords

\* The clauses so far: each where a walk ended, apart from each other, and one
\* for every keyword.
ClausesInv ==
    /\ clauses \in Seq([keyword: Keywords, first: Nat, last: Nat])
    /\ \A n \in DOMAIN clauses :
         /\ clauses[n].keyword = Masked(clauses[n].first - 1)
         /\ Walked(query.code, clauses[n].first, clauses[n].last + 1)
         /\ Ended(query.code, clauses[n].first, clauses[n].last + 1)
         /\ clauses[n].last < cursor
         /\ phase = "walk" => clauses[n].last + 1 < opened
    /\ \A m, n \in DOMAIN clauses : m < n => clauses[m].last + 1 < clauses[n].first
    /\ Grammatical(query.code) => \A k \in 1..(cursor - 1) : Masked(k) \in Keywords =>
         \/ phase = "walk" /\ k = opened - 1
         \/ \E n \in DOMAIN clauses : clauses[n].first = k + 1

AnalysisInv == CleaningInv /\ WalkInv /\ ClausesInv
=============================================================================
