----------------------------- MODULE Evaluation ------------------------------
(***************************************************************************)
(* verag evaluate (rag/evaluation.py evaluate, rag/cli.py cmd_evaluate and *)
(* main): the cases of a file are queried one after the other while other  *)
(* processes rebuild the index, then a report is written and the exit code *)
(* says whether all cases passed.  The index directory is a SnapshotStore  *)
(* (without an index of the old layout).  What a query answers is the      *)
(* matter of QueryService; here it finds the expected document somewhere   *)
(* or not at all, on the snapshot it resolved.                             *)
(***************************************************************************)
EXTENDS SnapshotStore, Sequences, SequencesExt, SumSort

CONSTANTS
    CaseFiles,  \* sequences of the expected_paths of cases, see Expected
    TopK,       \* the most results of a query
    Whole,      \* the unit of reciprocal ranks, which every rank divides
    Rebuilds,   \* the metadata that rebuilds may publish
    MaxRuns     \* bound on the evaluations of a behaviour

\* expected_paths: a list with paths, an empty list, or no such key.
Expected == {"paths", "none", "no key"}
\* What --output names may hold: nothing yet, the part of a report, or one.
NoReport == [text |-> "absent"]
Truncated == [text |-> "part"]

ASSUME EvaluationAssumption ==
    /\ \A c \in CaseFiles : c \in Seq(Expected)
    /\ TopK \in Nat \ {0} /\ MaxRuns \in Nat \ {0} /\ Rebuilds \subseteq Metadata
    /\ Whole \in Nat \ {0} /\ \A r \in 1..TopK : Whole % r = 0

VARIABLES
    step,       \* the place in cmd_evaluate
    cases,      \* the cases of the file
    pinned,     \* what resolve_snapshot returned in the query at hand
    reports,    \* reports: the generation and the rank of each case
    report,     \* what evaluate returned
    output,     \* the file of --output
    code,       \* the exit code
    runs,       \* evaluations so far
    roots,      \* history: every root manifest so far
    found, began    \* history: output and roots when the evaluation began

evaluationVars == <<step, cases, pinned, reports, report, output, code, runs, roots, found, began>>
arguments == <<cases, runs, found, began>>

Started(c) ==
    /\ cases' = c /\ pinned' = Absent /\ reports' = <<>> /\ report' = NoReport
    /\ code' = 0 /\ found' = output /\ began' = Len(roots)

EvaluationInit ==
    /\ SnapshotInit
    /\ cases \in CaseFiles /\ step = "load" /\ pinned = Absent
    /\ reports = <<>> /\ report = NoReport /\ output = NoReport
    /\ code = 0 /\ runs = 1 /\ roots = <<active>> /\ found = NoReport /\ began = 1

-----------------------------------------------------------------------------
(* evaluate *)

\* main reports a ValueError and a FileNotFoundError with code 2; any other
\* exception ends the interpreter with code 1.  Python itself ends with 120
\* when what is left to print cannot be flushed.
Killed == 130
Unflushed == 120
Ends(c) == step' = "ended" /\ code' = c
Raises == Ends(1) \/ Ends(2)
Goes(s) == step' = s /\ UNCHANGED code

\* Mutant: the output is opened before the cases are evaluated.
LoadCasesOpening ==
    /\ step = "load"
    /\ IF cases = <<>> THEN Ends(2) ELSE Goes("case")
    /\ output' = Truncated
    /\ UNCHANGED <<snapshotVars, arguments, pinned, reports, report, roots>>

\* The file may also be unreadable, or not JSON.
LoadCases ==
    /\ step = "load"
    /\ \/ cases = <<>> /\ Ends(2)
       \/ cases # <<>> /\ Goes("case")
       \/ Raises
    /\ UNCHANGED <<snapshotVars, arguments, pinned, reports, report, output, roots>>

AtCase == Len(reports) + 1
\* The message about a case without paths may itself want for an id.
BeginCase ==
    /\ step = "case" /\ AtCase <= Len(cases)
    /\ CASE cases[AtCase] = "no key" -> Ends(1)
         [] cases[AtCase] = "none" -> Raises
         [] OTHER -> Goes("resolve")
    /\ UNCHANGED <<snapshotVars, arguments, pinned, reports, report, output, roots>>

\* Mutant: the snapshot is looked for in the directory, not in the manifest.
ResolvedAny(m) == m \in snapshots
Resolved(m) == m = active /\ m \in snapshots

\* resolve_snapshot pins what the query will read.
ResolveSnapshot ==
    /\ step = "resolve"
    /\ \E m \in Metadata : Resolved(m) /\ pinned' = m
    /\ Goes("query")
    /\ UNCHANGED <<snapshotVars, arguments, reports, report, output, roots>>

\* The chunks are on disk still, or in the cache since an earlier case.
Readable == pinned \in snapshots
            \/ \E k \in DOMAIN reports : reports[k].generation = pinned.generation

\* Mutant: the case that failed is queried once more.
QueryRaisesRetry ==
    /\ \/ step = "query" /\ ~Readable
       \/ step = "resolve" /\ active \notin snapshots
    /\ Goes("resolve")
    /\ UNCHANGED <<snapshotVars, arguments, pinned, reports, report, output, roots>>

\* No index, one of another schema, or a snapshot that was withdrawn.  On a
\* readable one too the query may raise: a backend asked for by name is not
\* the stored one (a ValueError), its model fails in some way, or the case has
\* no id.
QueryRaises ==
    /\ \/ step = "resolve" /\ active \notin snapshots /\ Ends(2)
       \/ step = "query" /\ Raises
    /\ UNCHANGED <<snapshotVars, arguments, pinned, reports, report, output, roots>>

\* Mutant: counted from two.
RankFromTwo(p) == IF p = 0 THEN 0 ELSE p + 1

\* first_relevant_rank, zero for None, of a document found at position p.
Rank(p) == p

QueryAnswers ==
    /\ step = "query" /\ Readable
    /\ \E p \in 0..TopK :
         reports' = Append(reports, [generation |-> pinned.generation, rank |-> Rank(p), passed |-> p # 0])
    /\ Goes("case")
    /\ UNCHANGED <<snapshotVars, arguments, pinned, report, output, roots>>

Passed == Cardinality({k \in DOMAIN reports : reports[k].passed})
\* The sum of the reciprocal ranks, in parts of Whole.
Reciprocal(r) == IF r = 0 THEN 0 ELSE Whole \div r
ReciprocalRanks == Total([k \in DOMAIN reports |-> Reciprocal(reports[k].rank)])

\* Mutant: the report names the index that is active when it is made.
ReportOfActive ==
    [text |-> "whole", run |-> runs, generation |-> IF active \in Metadata THEN active.generation ELSE Absent,
     case_count |-> Len(reports), passed |-> Passed, mrr |-> ReciprocalRanks, cases |-> reports]

\* The dictionary that evaluate returns; result is that of the last case.
\* hit_rate is passed, and the mean reciprocal rank is mrr / Whole, over
\* case_count.
Report ==
    [text |-> "whole", run |-> runs, generation |-> reports[Len(reports)].generation,
     case_count |-> Len(reports), passed |-> Passed, mrr |-> ReciprocalRanks, cases |-> reports]

ReturnReport ==
    /\ step = "case" /\ AtCase > Len(cases)
    /\ report' = Report
    /\ Goes("output")
    /\ UNCHANGED <<snapshotVars, arguments, pinned, reports, output, roots>>

-----------------------------------------------------------------------------
(* cmd_evaluate *)

\* write_text opens the file, which empties it, and then writes; without
\* --output nothing is written.
OpenOutput ==
    /\ step = "output"
    /\ \/ output' = Truncated /\ Goes("write")
       \/ UNCHANGED output /\ Goes("exit")
    /\ UNCHANGED <<snapshotVars, arguments, pinned, reports, report, roots>>

WriteOutput ==
    /\ step = "write"
    /\ output' = report /\ Goes("exit")
    /\ UNCHANGED <<snapshotVars, arguments, pinned, reports, report, roots>>

\* The directory or the file cannot be written, the disk is full, the parent
\* was removed (FileNotFoundError), or a path or query in the report has no
\* encoding (UnicodeEncodeError, a ValueError).
OutputRaises ==
    /\ step \in {"output", "write"}
    /\ Raises
    /\ UNCHANGED <<snapshotVars, arguments, pinned, reports, report, output, roots>>

\* Mutant: some case passed.
ExitCodeAny == IF report.passed > 0 THEN 0 ELSE 1
ExitCode == IF report.passed = report.case_count THEN 0 ELSE 1

Exit ==
    /\ step = "exit"
    /\ step' = "printed" /\ code' = ExitCode
    /\ UNCHANGED <<snapshotVars, arguments, pinned, reports, report, output, roots>>

\* print fails, after the file was written: the reader of the pipe is gone, or
\* the encoding of the terminal lacks a character.
PrintRaises ==
    /\ step = "exit"
    /\ Raises \/ Ends(Unflushed)
    /\ UNCHANGED <<snapshotVars, arguments, pinned, reports, report, output, roots>>

Evaluate ==
    \/ LoadCases \/ BeginCase \/ ResolveSnapshot \/ QueryRaises \/ QueryAnswers
    \/ ReturnReport \/ OpenOutput \/ WriteOutput \/ OutputRaises
    \/ Exit \/ PrintRaises

\* A signal ends the command.
Interrupt ==
    /\ step \notin {"ended", "printed"}
    /\ Ends(Killed)
    /\ UNCHANGED <<snapshotVars, arguments, pinned, reports, report, output, roots>>

\* It is run again, with the same --output.
EvaluateAgain ==
    /\ step \in {"ended", "printed"} /\ runs < MaxRuns
    /\ \E c \in CaseFiles : Started(c)
    /\ step' = "load" /\ runs' = runs + 1
    /\ UNCHANGED <<snapshotVars, output, roots>>

Published == {m.generation : m \in ToSet(roots) \cap Metadata}

\* What other processes do to the index directory; uuid4 draws no name twice.
Rebuild ==
    /\ \E m \in Rebuilds : /\ m.generation \notin Published
                           /\ Publish(m) /\ roots' = Append(roots, m)
    /\ UNCHANGED <<step, arguments, pinned, reports, report, output, code>>
RebuildFails ==
    /\ \E m \in Rebuilds : Withdraw(m)
    /\ UNCHANGED evaluationVars

EvaluationNext == Evaluate \/ Interrupt \/ EvaluateAgain \/ Rebuild \/ RebuildFails
\* The command runs in its own process: no rebuild can keep it from going on.
EvaluationSpec ==
    /\ EvaluationInit /\ [][EvaluationNext]_<<snapshotVars, evaluationVars>>
    /\ WF_<<snapshotVars, evaluationVars>>(Evaluate)

-----------------------------------------------------------------------------
(* Properties. *)

CaseReport == [generation: Generations, rank: 0..TopK, passed: BOOLEAN]
Reports == [text: {"whole"}, run: 1..MaxRuns, generation: Generations, case_count: Nat,
            passed: Nat, mrr: Nat, cases: Seq(CaseReport)]

\* Every variable keeps its type, and the exit code is one the command can
\* end with.
EvaluationTypeOK ==
    /\ active \in Manifests /\ snapshots \subseteq Metadata
    /\ step \in {"load", "case", "resolve", "query", "output", "write", "exit", "ended", "printed"}
    /\ cases \in CaseFiles /\ pinned \in Metadata \cup {Absent}
    /\ Len(reports) <= Len(cases)
    /\ report \in Reports \cup {NoReport} /\ output \in Reports \cup {NoReport, Truncated}
    /\ code \in {0, 1, 2, Unflushed, Killed} /\ runs \in 1..MaxRuns

Position(g) == SelectInSeq(roots, LAMBDA m : m \in Metadata /\ m.generation = g)

\* However rebuilds fall between the cases, every case is answered from an
\* index that was active during this evaluation, and no case from one older
\* than a case before it (evaluate resolves the index again for every case).
CasesFollowIndex ==
    /\ \A k \in DOMAIN reports : Position(reports[k].generation) >= began
    /\ \A k, m \in DOMAIN reports :
         k < m => Position(reports[k].generation) <= Position(reports[m].generation)

\* "Reproducible ... evaluations" (evaluation.py): the report names an index
\* that really answered a case, the last; it stands for all of them when no
\* rebuild was published meanwhile.
ReportNamesIndex ==
    report # NoReport =>
      /\ report.generation = report.cases[Len(report.cases)].generation
      /\ Len(roots) = began => \A k \in DOMAIN report.cases : report.cases[k].generation = report.generation

\* The rates agree with each other and with the cases: mrr is at most
\* hit_rate, positive as soon as a case passed, and equal to it exactly when
\* every case that passed has its document first.
RatesAgree ==
    report # NoReport =>
      /\ report.mrr <= report.passed * Whole
      /\ report.passed > 0 => report.mrr > 0
      /\ (report.mrr = report.passed * Whole) <=>
           (\A k \in DOMAIN report.cases : report.cases[k].passed => report.cases[k].rank = 1)

\* What the report says of the index and in its rates agrees with its cases
\* (the dictionary that evaluate returns).
ReportAgrees == ReportNamesIndex /\ RatesAgree

\* Exit code 0 means that every case of the file was evaluated and passed, and
\* that the report was printed; when it was, code 1 means that a case failed.
\* No other meaning can be read from the codes: an exception ends with 1 or 2
\* at any place, also after the report was made and written (cmd_evaluate and
\* main).
ExitCodeAgrees ==
    /\ step = "printed" => (code = 0 <=> \A k \in DOMAIN cases : reports[k].passed)
    /\ step = "printed" => code \in {0, 1} /\ Len(reports) = Len(cases)
    /\ step = "ended" => code # 0

\* An evaluation that stops before its report is written leaves the report of
\* an earlier one as it was; afterwards the file holds this report or, if the
\* writing was cut off, no report at all, never one that some case is missing
\* from.
OutputIsWhole ==
    /\ report = NoReport => output = found
    /\ output # found => output \in {Truncated, report}
    /\ step = "printed" /\ output = Truncated => found = Truncated
    /\ output.text = "whole" => output.case_count = Len(output.cases)

\* The command ends, whatever the rebuilds do: no case is waited for or tried
\* again.
EvaluationEnds == step = "load" ~> step \in {"ended", "printed"}

-----------------------------------------------------------------------------
(* The inductive invariant behind the safety properties. *)

\* Generation g was published as the i-th root manifest.
PublishedAt(g, i) == i \in DOMAIN roots /\ roots[i] \in Metadata /\ roots[i].generation = g

\* No generation is published twice, and the last manifest is the active one.
RootsInv ==
    /\ roots \in Seq(Manifests) /\ began \in 1..Len(roots) /\ roots[Len(roots)] = active
    /\ \A i, j \in DOMAIN roots :
         roots[i] \in Metadata /\ PublishedAt(roots[i].generation, j) => i = j

\* Every case was answered from a generation that was active during the
\* evaluation, and so will be the case at hand, none from an older one.
CasesInv ==
    /\ reports \in Seq(CaseReport)
    /\ \A k \in DOMAIN reports : \E i \in began..Len(roots) : PublishedAt(reports[k].generation, i)
    /\ \A k, m \in DOMAIN reports, i, j \in DOMAIN roots :
         k < m /\ PublishedAt(reports[k].generation, i) /\ PublishedAt(reports[m].generation, j) => i <= j
    /\ step = "query" =>
         /\ pinned \in Metadata
         /\ \E i \in began..Len(roots) :
              /\ roots[i] = pinned
              /\ \A k \in DOMAIN reports, j \in DOMAIN roots :
                   PublishedAt(reports[k].generation, j) => j <= i

\* The sums over the cases so far, see RatesAgree.
RatesInv ==
    /\ \A k \in DOMAIN reports : (reports[k].passed <=> reports[k].rank # 0)
    /\ Passed \in Nat /\ ReciprocalRanks \in Nat
    /\ ReciprocalRanks <= Passed * Whole
    /\ Passed > 0 => ReciprocalRanks > 0
    /\ (ReciprocalRanks = Passed * Whole) <=>
         (\A k \in DOMAIN reports : reports[k].passed => reports[k].rank = 1)

\* How far the command is, and what it has to show for it.
ProgressInv ==
    /\ step = "load" => reports = <<>>
    /\ step \in {"load", "case", "resolve", "query"} => report = NoReport
    /\ step \in {"case", "resolve", "query"} => cases # <<>>
    /\ step \in {"resolve", "query"} => Len(reports) < Len(cases)
    /\ step \in {"output", "write", "exit", "printed"} => report # NoReport
    /\ report # NoReport =>
         /\ Len(reports) = Len(cases) /\ reports # <<>>
         /\ report.cases = reports /\ report.case_count = Len(reports)
         /\ report.generation = reports[Len(reports)].generation
         /\ report.passed = Passed /\ report.mrr = ReciprocalRanks
    /\ step \notin {"ended", "printed"} => code = 0
    /\ step = "printed" => code = ExitCode
    /\ step = "ended" => code # 0

\* The file of --output, now and when the evaluation began.
OutputInv ==
    /\ found \in Reports \cup {NoReport, Truncated}
    /\ report = NoReport => output = found
    /\ output \in {found, Truncated, report}
    /\ step = "output" => output = found
    /\ step = "write" => output = Truncated
    /\ step \in {"exit", "printed"} => output \in {found, report}
    /\ \A file \in {output, found} : file.text = "whole" => file.case_count = Len(file.cases)

EvaluationInv == EvaluationTypeOK /\ RootsInv /\ CasesInv /\ RatesInv /\ ProgressInv /\ OutputInv
=============================================================================
