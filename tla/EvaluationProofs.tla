-------------------------- MODULE EvaluationProofs --------------------------
(***************************************************************************)
(* Proofs about Evaluation, for any file of cases, any rebuilds and any    *)
(* number of evaluations: EvaluationInv, one lemma for each of its parts,  *)
(* and the safety properties.                                              *)
(***************************************************************************)
EXTENDS Evaluation, DataLemmas, TLAPS

allVars == <<snapshotVars, evaluationVars>>

\* The actions of the command that neither answer a case nor begin anew.
Onward ==
    \/ LoadCases \/ BeginCase \/ ResolveSnapshot \/ QueryRaises \/ ReturnReport
    \/ OpenOutput \/ WriteOutput \/ OutputRaises \/ Exit \/ PrintRaises \/ Interrupt \/ UNCHANGED allVars

\* Every step is one of these, a case answered, a new evaluation, or a rebuild.
LEMMA Steps ==
    ASSUME [EvaluationNext]_allVars
    PROVE  Onward \/ QueryAnswers \/ EvaluateAgain \/ Rebuild \/ RebuildFails
<1> QED
  BY DEF EvaluationNext, Evaluate, Onward

\* What they leave alone (evaluate, cmd_evaluate).
LEMMA OnwardKeeps ==
    ASSUME Onward
    PROVE  UNCHANGED <<active, snapshots, cases, reports, runs, roots, found, began>>
<1> QED
  BY DEF Onward, LoadCases, BeginCase, ResolveSnapshot, QueryRaises, ReturnReport, OpenOutput,
     WriteOutput, OutputRaises, Exit, PrintRaises, Interrupt, Raises, allVars, snapshotVars, evaluationVars, arguments

-----------------------------------------------------------------------------
(* The root manifests. *)

\* A rebuild adds one manifest, under a name that none has (publish_manifest).
LEMMA RootsGrow ==
    ASSUME RootsInv, Rebuild
    PROVE  /\ Len(roots) \in Nat /\ DOMAIN roots = 1..Len(roots)
           /\ roots' \in Seq(Manifests) /\ Len(roots') = Len(roots) + 1
           /\ DOMAIN roots' = 1..(Len(roots) + 1)
           /\ roots'[Len(roots) + 1] = active' /\ active' \in Metadata
           /\ \A i \in 1..Len(roots) : roots'[i] = roots[i]
           /\ \A i \in 1..Len(roots) : roots[i] \in Metadata => roots[i].generation # active'.generation
           /\ UNCHANGED <<step, cases, runs, found, began, pinned, reports, report, output, code>>
<1>1. PICK m \in Rebuilds : m.generation \notin Published /\ active' = m /\ roots' = Append(roots, m)
  BY DEF Rebuild, Publish
<1>2. m \in Metadata /\ m \in Manifests
  BY EvaluationAssumption DEF Manifests
<1>3. UNCHANGED <<step, cases, runs, found, began, pinned, reports, report, output, code>>
  BY DEF Rebuild, arguments
<1>4. /\ roots \in Seq(Manifests) /\ Len(roots) \in Nat
      /\ roots' \in Seq(Manifests) /\ Len(roots') = Len(roots) + 1 /\ roots'[Len(roots) + 1] = m
      /\ \A i \in 1..Len(roots) : roots'[i] = roots[i]
      /\ DOMAIN roots' = 1..(Len(roots) + 1) /\ DOMAIN roots = 1..Len(roots)
  BY <1>1, <1>2 DEF RootsInv
<1>5. \A i \in 1..Len(roots) : roots[i] \in Metadata => roots[i].generation # m.generation
  <2> SUFFICES ASSUME NEW i \in 1..Len(roots), roots[i] \in Metadata
               PROVE  roots[i].generation \in Published
    BY <1>1
  <2>1. roots[i] \in ToSet(roots)
    BY <1>4 DEF ToSet
  <2> QED
    BY <2>1 DEF Published
<1> QED
  BY <1>1, <1>2, <1>3, <1>4, <1>5

\* No step publishes a name twice or leaves the active manifest behind.
LEMMA RootsStep == ASSUME EvaluationInv, [EvaluationNext]_allVars PROVE RootsInv'
<1>0. RootsInv /\ active \in Manifests
  BY DEF EvaluationInv, EvaluationTypeOK
<1>1. CASE Onward
  BY <1>0, <1>1, OnwardKeeps DEF RootsInv, PublishedAt
<1>2. CASE QueryAnswers
  BY <1>0, <1>2 DEF QueryAnswers, snapshotVars, arguments, RootsInv, PublishedAt
<1>3. CASE EvaluateAgain
  <2>1. roots' = roots /\ active' = active /\ began' = Len(roots)
    BY <1>3 DEF EvaluateAgain, Started, snapshotVars
  <2> QED
    BY <1>0, <2>1 DEF RootsInv, PublishedAt
<1>4. CASE Rebuild
  <2>1. \A i, j \in DOMAIN roots' :
          roots'[i] \in Metadata /\ roots'[j] \in Metadata /\ roots'[j].generation = roots'[i].generation
            => i = j
    <3> SUFFICES ASSUME NEW i \in 1..(Len(roots) + 1), NEW j \in 1..(Len(roots) + 1),
                        roots'[i] \in Metadata, roots'[j] \in Metadata,
                        roots'[j].generation = roots'[i].generation
                 PROVE  i = j
      BY <1>0, <1>4, RootsGrow
    <3>1. (i = Len(roots) + 1 \/ i \in 1..Len(roots)) /\ (j = Len(roots) + 1 \/ j \in 1..Len(roots))
      BY <1>0, <1>4, RootsGrow
    <3> QED
      BY <1>0, <1>4, <3>1, RootsGrow DEF RootsInv, PublishedAt
  <2>2. began' \in 1..Len(roots') /\ roots'[Len(roots')] = active'
    <3>1. began \in 1..Len(roots)
      BY <1>0 DEF RootsInv
    <3> QED
      BY <1>0, <1>4, <3>1, RootsGrow
  <2> QED
    BY <1>0, <1>4, <2>1, <2>2, RootsGrow DEF RootsInv, PublishedAt
<1>5. CASE RebuildFails
  BY <1>0, <1>5 DEF RebuildFails, Withdraw, evaluationVars, RootsInv, PublishedAt
<1> QED
  BY <1>1, <1>2, <1>3, <1>4, <1>5, Steps

-----------------------------------------------------------------------------
(* The cases. *)

\* A case that is answered adds one report, of the snapshot it resolved.
LEMMA ReportsGrow ==
    ASSUME EvaluationInv, QueryAnswers
    PROVE  /\ reports \in Seq(CaseReport) /\ Len(reports) \in Nat /\ DOMAIN reports = 1..Len(reports)
           /\ reports' \in Seq(CaseReport) /\ Len(reports') = Len(reports) + 1
           /\ DOMAIN reports' = 1..(Len(reports) + 1)
           /\ \A k \in 1..Len(reports) : reports'[k] = reports[k]
           /\ \E p \in 0..TopK :
                reports' = Append(reports, [generation |-> pinned.generation, rank |-> p, passed |-> p # 0])
           /\ \E p \in 0..TopK :
                reports'[Len(reports) + 1] = [generation |-> pinned.generation, rank |-> p, passed |-> p # 0]
           /\ pinned \in Metadata /\ step = "query" /\ step' = "case"
           /\ UNCHANGED <<active, snapshots, cases, runs, found, began, pinned, report, output, code, roots>>
<1>1. step = "query" /\ reports \in Seq(CaseReport) /\ pinned \in Metadata
  BY DEF QueryAnswers, EvaluationInv, CasesInv
<1>2. PICK p \in 0..TopK :
        reports' = Append(reports, [generation |-> pinned.generation, rank |-> p, passed |-> p # 0])
  BY DEF QueryAnswers, Rank
<1>3. [generation |-> pinned.generation, rank |-> p, passed |-> p # 0] \in CaseReport
  BY <1>1 DEF CaseReport, Metadata
<1>4. /\ step' = "case"
      /\ UNCHANGED <<active, snapshots, cases, runs, found, began, pinned, report, output, code, roots>>
  BY DEF QueryAnswers, Goes, snapshotVars, arguments
<1> HIDE DEF CaseReport
<1>5. /\ reports' \in Seq(CaseReport) /\ Len(reports') = Len(reports) + 1
      /\ reports'[Len(reports) + 1] = [generation |-> pinned.generation, rank |-> p, passed |-> p # 0]
      /\ \A k \in 1..Len(reports) : reports'[k] = reports[k]
  BY <1>1, <1>2, <1>3, AppendProperties
<1> QED
  BY <1>1, <1>2, <1>4, <1>5

\* Whatever is published between them, cases follow the index.
LEMMA CasesStep == ASSUME EvaluationInv, [EvaluationNext]_allVars PROVE CasesInv'
<1>0. /\ RootsInv /\ CasesInv /\ reports \in Seq(CaseReport) /\ DOMAIN reports = 1..Len(reports)
      /\ Len(reports) \in Nat /\ Len(roots) \in Nat /\ DOMAIN roots = 1..Len(roots) /\ began \in 1..Len(roots)
  BY DEF EvaluationInv, RootsInv, CasesInv
<1>1. CASE Onward /\ step' # "query"
  BY <1>0, <1>1, OnwardKeeps DEF CasesInv, PublishedAt
<1>2. CASE Onward /\ step' = "query"
  <2>0. UNCHANGED <<roots, began, reports>>
    BY <1>2, OnwardKeeps
  <2>1. CASE ResolveSnapshot
    <3>1. pinned' = active /\ active \in Metadata
      BY <2>1 DEF ResolveSnapshot, Resolved
    <3>2. Len(roots) \in began..Len(roots) /\ roots[Len(roots)] = active
      BY <1>0 DEF RootsInv
    <3>3. \A k \in DOMAIN reports, j \in DOMAIN roots : PublishedAt(reports[k].generation, j) => j <= Len(roots)
      BY <1>0
    <3> QED
      BY <1>0, <2>0, <3>1, <3>2, <3>3 DEF CasesInv, PublishedAt
  <2>2. CASE UNCHANGED allVars
    BY <1>0, <2>2 DEF allVars, evaluationVars, CasesInv, PublishedAt
  <2> QED
    BY <1>2, <2>1, <2>2 DEF Onward, LoadCases, BeginCase, QueryRaises, ReturnReport, OpenOutput,
       WriteOutput, OutputRaises, Exit, PrintRaises, Interrupt, Raises, Ends, Goes
<1>3. CASE QueryAnswers
  <2>1. PICK i \in began..Len(roots) :
          /\ roots[i] = pinned
          /\ \A k \in DOMAIN reports, j \in DOMAIN roots : PublishedAt(reports[k].generation, j) => j <= i
    BY <1>0, <1>3, ReportsGrow DEF CasesInv
  <2>2. i \in DOMAIN roots /\ PublishedAt(pinned.generation, i)
    BY <1>0, <1>3, <2>1, ReportsGrow DEF PublishedAt
  <2>3. \A j \in DOMAIN roots : PublishedAt(pinned.generation, j) => j = i
    BY <1>0, <1>3, <2>1, <2>2, ReportsGrow DEF RootsInv, PublishedAt
  <2>4. \A g, j : PublishedAt(g, j)' <=> PublishedAt(g, j)
    BY <1>3, ReportsGrow DEF PublishedAt
  <2>5. reports'[Len(reports) + 1].generation = pinned.generation
    <3>1. PICK p \in 0..TopK :
            reports'[Len(reports) + 1] = [generation |-> pinned.generation, rank |-> p, passed |-> p # 0]
      BY <1>3, ReportsGrow
    <3> QED
      BY <3>1
  <2>6. ASSUME NEW k \in DOMAIN reports'
        PROVE  \E j \in began'..Len(roots') : PublishedAt(reports[k].generation, j)'
    <3>1. CASE k = Len(reports) + 1
      BY <1>3, <2>1, <2>2, <2>4, <2>5, <3>1, ReportsGrow
    <3>2. CASE k \in 1..Len(reports)
      BY <1>0, <1>3, <2>4, <3>2, ReportsGrow DEF CasesInv
    <3> QED
      BY <1>0, <1>3, <3>1, <3>2, ReportsGrow
  <2>7. ASSUME NEW k \in DOMAIN reports', NEW m \in DOMAIN reports', NEW a \in DOMAIN roots, NEW b \in DOMAIN roots,
               k < m, PublishedAt(reports'[k].generation, a), PublishedAt(reports'[m].generation, b)
        PROVE  a <= b
    <3>1. k \in 1..Len(reports) /\ reports'[k] = reports[k]
      BY <1>0, <1>3, <2>7, ReportsGrow
    <3>2. CASE m = Len(reports) + 1
      BY <1>0, <2>1, <2>3, <2>5, <2>7, <3>1, <3>2
    <3>3. CASE m \in 1..Len(reports)
      BY <1>0, <1>3, <2>7, <3>1, <3>3, ReportsGrow DEF CasesInv
    <3> QED
      BY <1>0, <1>3, <3>2, <3>3, ReportsGrow
  <2> QED
    BY <1>3, <2>4, <2>6, <2>7, ReportsGrow DEF CasesInv
<1>4. CASE EvaluateAgain
  BY <1>4, EmptySeq DEF EvaluateAgain, Started, CasesInv
<1>5. CASE Rebuild
  <2>1. began'..Len(roots) \subseteq began'..Len(roots') /\ UNCHANGED <<step, began, pinned, reports>>
    BY <1>0, <1>5, RootsGrow
  <2>2. ASSUME NEW g, NEW i \in DOMAIN roots, PublishedAt(g, i)
        PROVE  \A j : j \in DOMAIN roots' /\ roots'[j] \in Metadata /\ roots'[j].generation = g
                       <=> PublishedAt(g, j)
    BY <1>0, <1>5, <2>2, RootsGrow DEF PublishedAt
  <2>3. ASSUME NEW k \in DOMAIN reports
        PROVE  \A j : PublishedAt(reports[k].generation, j)' <=> PublishedAt(reports[k].generation, j)
    <3>1. PICK i \in began..Len(roots) : PublishedAt(reports[k].generation, i)
      BY <1>0 DEF CasesInv
    <3> QED
      BY <1>0, <2>1, <2>2, <3>1 DEF PublishedAt
  <2>4. ASSUME NEW k \in DOMAIN reports'
        PROVE  \E i \in began'..Len(roots') : PublishedAt(reports[k].generation, i)'
    BY <1>0, <2>1, <2>3 DEF CasesInv
  <2>5. ASSUME NEW k \in DOMAIN reports', NEW m \in DOMAIN reports', NEW i, NEW j, k < m,
               PublishedAt(reports[k].generation, i)', PublishedAt(reports[m].generation, j)'
        PROVE  i <= j
    <3>1. PublishedAt(reports[k].generation, i) /\ PublishedAt(reports[m].generation, j)
      BY <2>1, <2>3, <2>5
    <3> QED
      BY <1>0, <2>1, <2>5, <3>1 DEF CasesInv, PublishedAt
  <2>6. ASSUME step = "query"
        PROVE  /\ pinned \in Metadata
               /\ \E i \in began'..Len(roots') :
                    /\ roots'[i] = pinned
                    /\ \A k \in DOMAIN reports : \A j : PublishedAt(reports[k].generation, j)' => j <= i
    <3>1. PICK i \in began..Len(roots) :
            /\ roots[i] = pinned
            /\ \A k \in DOMAIN reports, j \in DOMAIN roots : PublishedAt(reports[k].generation, j) => j <= i
      BY <1>0, <2>6 DEF CasesInv
    <3>2. i \in began'..Len(roots') /\ roots'[i] = pinned
      BY <1>0, <1>5, <2>1, <3>1, RootsGrow
    <3>3. \A k \in DOMAIN reports : \A j : PublishedAt(reports[k].generation, j)' => j <= i
      BY <2>3, <3>1 DEF PublishedAt
    <3> QED
      BY <1>0, <2>6, <3>2, <3>3 DEF CasesInv
  <2> QED
    BY <1>0, <2>1, <2>4, <2>5, <2>6 DEF CasesInv
<1>6. CASE RebuildFails
  BY <1>0, <1>6 DEF RebuildFails, Withdraw, evaluationVars, CasesInv, PublishedAt
<1> QED
  BY <1>1, <1>2, <1>3, <1>4, <1>5, <1>6, Steps

-----------------------------------------------------------------------------
(* The rates. *)

\* The reciprocal of a rank is at most one, and one for the first rank only.
LEMMA ReciprocalFacts ==
    ASSUME NEW r \in 0..TopK
    PROVE  /\ Reciprocal(r) \in Nat
           /\ r = 0 => Reciprocal(r) = 0
           /\ r # 0 => 0 < Reciprocal(r) /\ Reciprocal(r) <= Whole
           /\ r # 0 => (Reciprocal(r) = Whole <=> r = 1)
<1>1. CASE r = 0
  BY <1>1 DEF Reciprocal
<1>2. CASE r # 0
  <2>1. r \in 1..TopK /\ r \in Nat \ {0} /\ Whole \in Nat \ {0} /\ Whole % r = 0
    <3>1. TopK \in Nat /\ Whole \in Nat \ {0} /\ \A q \in 1..TopK : Whole % q = 0
      BY EvaluationAssumption
    <3>2. r \in 1..TopK /\ r \in Nat \ {0}
      BY <1>2, <3>1
    <3> QED
      BY <3>1, <3>2
  <2>2. Reciprocal(r) \in Nat /\ Whole = r * Reciprocal(r)
    BY <2>1 DEF Reciprocal
  <2>3. 0 < Reciprocal(r)
    BY <2>1, <2>2
  <2>4. Reciprocal(r) <= Whole
    BY <2>1, <2>2, <2>3
  <2>5. r = 1 => Reciprocal(r) = Whole
    BY <2>1, <2>2
  <2>6. r # 1 => Reciprocal(r) # Whole
    BY <2>1, <2>2, <2>3
  <2> QED
    BY <1>2, <2>2, <2>3, <2>4, <2>5, <2>6
<1> QED
  BY <1>1, <1>2

\* The reciprocal ranks are numbers, one for each case.
LEMMA RanksAreSeq ==
    ASSUME NEW s \in Seq(CaseReport), NEW ranks, ranks = [k \in DOMAIN s |-> Reciprocal(s[k].rank)]
    PROVE  ranks \in Seq(Nat) /\ Len(ranks) = Len(s)
<1>1. ASSUME NEW k \in 1..Len(s) PROVE Reciprocal(s[k].rank) \in Nat
  <2>1. s[k] \in CaseReport
    OBVIOUS
  <2> QED
    BY <2>1, ReciprocalFacts DEF CaseReport
<1>2. ranks \in [1..Len(s) -> Nat] /\ Len(s) \in Nat
  BY <1>1
<1> QED
  BY <1>2, FunctionIsSeq

\* Both sums before the first case.
LEMMA RatesBegin ==
    ASSUME NEW s, s = <<>>, NEW ranks, ranks = [k \in DOMAIN s |-> Reciprocal(s[k].rank)]
    PROVE  Total(ranks) = 0 /\ Cardinality({k \in DOMAIN s : s[k].passed}) = 0
<1>1. DOMAIN s = {} /\ ranks = <<>>
  OBVIOUS
<1>2. {k \in DOMAIN s : s[k].passed} = {}
  BY <1>1
<1> QED
  BY <1>1, <1>2, TotalEmpty, FS_EmptySet

\* A case adds its reciprocal rank to one sum and, if passed, one to the other.
LEMMA RatesGrow ==
    ASSUME EvaluationInv, QueryAnswers
    PROVE  \E p \in 0..TopK :
             /\ reports'[Len(reports) + 1].rank = p /\ (reports'[Len(reports) + 1].passed <=> p # 0)
             /\ ReciprocalRanks' = ReciprocalRanks + Reciprocal(p)
             /\ Passed' = Passed + IF p = 0 THEN 0 ELSE 1
<1>1. /\ reports \in Seq(CaseReport) /\ Len(reports) \in Nat /\ DOMAIN reports = 1..Len(reports)
      /\ reports' \in Seq(CaseReport) /\ Len(reports') = Len(reports) + 1
      /\ DOMAIN reports' = 1..(Len(reports) + 1)
      /\ \A k \in 1..Len(reports) : reports'[k] = reports[k]
  BY ReportsGrow
<1>2. PICK p \in 0..TopK :
        reports'[Len(reports) + 1] = [generation |-> pinned.generation, rank |-> p, passed |-> p # 0]
  BY ReportsGrow
<1>3. reports'[Len(reports) + 1].rank = p /\ (reports'[Len(reports) + 1].passed <=> p # 0)
  <2>1. reports'[Len(reports) + 1].rank = p
    BY <1>2
  <2>2. CASE p = 0
    <3>1. reports'[Len(reports) + 1] = [generation |-> pinned.generation, rank |-> p, passed |-> FALSE]
      BY <1>2, <2>2
    <3>2. reports'[Len(reports) + 1].passed = FALSE
      BY <3>1
    <3> QED
      BY <2>1, <2>2, <3>2
  <2>3. CASE p # 0
    <3>1. reports'[Len(reports) + 1] = [generation |-> pinned.generation, rank |-> p, passed |-> TRUE]
      BY <1>2, <2>3
    <3>2. reports'[Len(reports) + 1].passed = TRUE
      BY <3>1
    <3> QED
      BY <2>1, <2>3, <3>2
  <2> QED
    BY <2>2, <2>3
<1> DEFINE old == [k \in DOMAIN reports |-> Reciprocal(reports[k].rank)]
           new == [k \in DOMAIN reports' |-> Reciprocal(reports'[k].rank)]
<1>4. old \in Seq(Nat) /\ Len(old) = Len(reports) /\ new \in Seq(Nat) /\ Len(new) = Len(reports) + 1
  BY <1>1, RanksAreSeq
<1>5. Reciprocal(p) \in Nat
  BY ReciprocalFacts
<1>6. new = Append(old, Reciprocal(p))
  <2>1. /\ Append(old, Reciprocal(p)) \in Seq(Nat) /\ Len(Append(old, Reciprocal(p))) = Len(reports) + 1
        /\ Append(old, Reciprocal(p))[Len(reports) + 1] = Reciprocal(p)
        /\ \A k \in 1..Len(reports) : Append(old, Reciprocal(p))[k] = old[k]
    <3> HIDE DEF old
    <3> QED
      BY <1>4, <1>5, AppendProperties
  <2>2. ASSUME NEW k \in 1..(Len(reports) + 1) PROVE new[k] = Append(old, Reciprocal(p))[k]
    <3>1. CASE k = Len(reports) + 1
      BY <1>1, <1>3, <2>1, <3>1
    <3>2. CASE k \in 1..Len(reports)
      BY <1>1, <2>1, <3>2
    <3>3. k = Len(reports) + 1 \/ k \in 1..Len(reports)
      BY <1>1
    <3> QED
      BY <3>1, <3>2, <3>3
  <2> HIDE DEF old, new
  <2> QED
    BY <1>4, <2>1, <2>2, SeqEqual
<1>7. ReciprocalRanks' = ReciprocalRanks + Reciprocal(p)
  <2>1. ReciprocalRanks = Total(old) /\ ReciprocalRanks' = Total(new)
    BY DEF ReciprocalRanks, Reciprocal
  <2> HIDE DEF old, new
  <2> QED
    BY <1>4, <1>5, <1>6, <2>1, TotalAppend
<1> DEFINE S == {k \in DOMAIN reports : reports[k].passed}
           T == {k \in DOMAIN reports' : reports'[k].passed}
<1>8. IsFiniteSet(S) /\ Len(reports) + 1 \notin S
  <2>1. S \subseteq 1..Len(reports) /\ 1 \in Int /\ Len(reports) \in Int
    BY <1>1
  <2>2. IsFiniteSet(1..Len(reports))
    BY <2>1, FS_Interval
  <2>3. Len(reports) + 1 \notin 1..Len(reports)
    BY <1>1
  <2> HIDE DEF S
  <2> QED
    BY <2>1, <2>2, <2>3, FS_Subset
<1>9. T = IF p = 0 THEN S ELSE S \cup {Len(reports) + 1}
  <2>1. ASSUME NEW k \in 1..(Len(reports) + 1)
        PROVE  k \in T <=> k \in S \/ (k = Len(reports) + 1 /\ p # 0)
    <3>1. CASE k = Len(reports) + 1
      BY <1>1, <1>3, <1>8, <3>1
    <3>2. CASE k \in 1..Len(reports)
      <4>1. k # Len(reports) + 1 /\ reports'[k] = reports[k]
        BY <1>1, <3>2
      <4> QED
        BY <1>1, <3>2, <4>1
    <3>3. k = Len(reports) + 1 \/ k \in 1..Len(reports)
      BY <1>1
    <3> QED
      BY <3>1, <3>2, <3>3
  <2>2. T \subseteq 1..(Len(reports) + 1) /\ S \subseteq 1..(Len(reports) + 1) /\ Len(reports) + 1 \in 1..(Len(reports) + 1)
    BY <1>1
  <2> HIDE DEF S, T
  <2> QED
    BY <2>1, <2>2
<1>10. Passed' = Passed + IF p = 0 THEN 0 ELSE 1
  <2>1. Passed = Cardinality(S) /\ Passed' = Cardinality(T)
    BY DEF Passed
  <2> HIDE DEF S, T
  <2>2. Cardinality(S) \in Nat
    BY <1>8, FS_CardinalityType
  <2>3. Cardinality(S \cup {Len(reports) + 1}) = Cardinality(S) + 1
    BY <1>8, FS_AddElement
  <2>4. CASE p = 0
    BY <1>9, <2>1, <2>2, <2>4
  <2>5. CASE p # 0
    BY <1>9, <2>1, <2>2, <2>3, <2>5
  <2> QED
    BY <2>4, <2>5
<1> QED
  BY <1>3, <1>7, <1>10

\* The sums agree with each other and with the cases after every case.
LEMMA RatesStep == ASSUME EvaluationInv, [EvaluationNext]_allVars PROVE RatesInv'
<1>0. RatesInv
  BY DEF EvaluationInv
<1>1. CASE UNCHANGED reports
  BY <1>0, <1>1 DEF RatesInv, Passed, ReciprocalRanks, Reciprocal
<1>2. CASE reports' = <<>>
  <2>1. Passed' = 0 /\ ReciprocalRanks' = 0
    BY <1>2, RatesBegin DEF Passed, ReciprocalRanks
  <2>2. DOMAIN reports' = {}
    BY <1>2
  <2>3. Whole \in Nat
    BY EvaluationAssumption
  <2> QED
    BY <2>1, <2>2, <2>3 DEF RatesInv
<1>3. CASE QueryAnswers
  <2>1. PICK p \in 0..TopK :
          /\ reports'[Len(reports) + 1].rank = p /\ (reports'[Len(reports) + 1].passed <=> p # 0)
          /\ ReciprocalRanks' = ReciprocalRanks + Reciprocal(p)
          /\ Passed' = Passed + IF p = 0 THEN 0 ELSE 1
    BY <1>3, RatesGrow
  <2>2. /\ Passed \in Nat /\ ReciprocalRanks \in Nat /\ Whole \in Nat /\ Reciprocal(p) \in Nat
        /\ ReciprocalRanks <= Passed * Whole /\ (Passed > 0 => ReciprocalRanks > 0)
        /\ p = 0 => Reciprocal(p) = 0
        /\ p # 0 => 0 < Reciprocal(p) /\ Reciprocal(p) <= Whole
        /\ p # 0 => (Reciprocal(p) = Whole <=> p = 1)
    <3>1. Whole \in Nat
      BY EvaluationAssumption
    <3>2. /\ Reciprocal(p) \in Nat
          /\ p = 0 => Reciprocal(p) = 0
          /\ p # 0 => 0 < Reciprocal(p) /\ Reciprocal(p) <= Whole
          /\ p # 0 => (Reciprocal(p) = Whole <=> p = 1)
      BY ReciprocalFacts
    <3> QED
      BY <1>0, <3>1, <3>2 DEF RatesInv
  <2>3. /\ Len(reports) \in Nat /\ DOMAIN reports = 1..Len(reports)
        /\ DOMAIN reports' = 1..(Len(reports) + 1)
        /\ \A k \in 1..Len(reports) : reports'[k] = reports[k]
    BY <1>3, ReportsGrow
  <2>4. ASSUME NEW k \in DOMAIN reports' PROVE reports'[k].passed <=> reports'[k].rank # 0
    BY <1>0, <2>1, <2>3 DEF RatesInv
  <2>5. (\A k \in DOMAIN reports' : reports'[k].passed => reports'[k].rank = 1)
          <=> (\A k \in DOMAIN reports : reports[k].passed => reports[k].rank = 1) /\ (p # 0 => p = 1)
    <3>1. Len(reports) + 1 \in DOMAIN reports' /\ \A k \in DOMAIN reports : k \in DOMAIN reports'
      BY <2>3
    <3>2. \A k \in DOMAIN reports' : k = Len(reports) + 1 \/ k \in DOMAIN reports
      BY <2>3
    <3> QED
      BY <2>1, <2>3, <3>1, <3>2
  <2>6. CASE p = 0
    BY <1>0, <2>1, <2>2, <2>4, <2>5, <2>6 DEF RatesInv
  <2>7. CASE p # 0
    <3>1. Passed' * Whole = Passed * Whole + Whole /\ Passed * Whole \in Nat
      BY <2>1, <2>2, <2>7
    <3>2. ReciprocalRanks' = Passed' * Whole <=> ReciprocalRanks = Passed * Whole /\ p = 1
      BY <2>1, <2>2, <2>7, <3>1
    <3> QED
      BY <1>0, <2>1, <2>2, <2>4, <2>5, <2>7, <3>1, <3>2 DEF RatesInv
  <2> QED
    BY <2>6, <2>7
<1>4. Onward \/ Rebuild \/ RebuildFails => UNCHANGED reports
  BY OnwardKeeps DEF Rebuild, RebuildFails, evaluationVars
<1>5. EvaluateAgain => reports' = <<>>
  BY DEF EvaluateAgain, Started
<1> QED
  BY <1>1, <1>2, <1>3, <1>4, <1>5, Steps

-----------------------------------------------------------------------------
(* The command: its types, its progress and its output. *)

\* At the end of the cases there is a report of at least one (evaluate).
LEMMA ReportFacts ==
    ASSUME EvaluationInv, ReturnReport
    PROVE  /\ Report \in Reports /\ Report # NoReport /\ report' = Report /\ step' = "output"
           /\ Len(reports) = Len(cases) /\ reports # <<>>
           /\ UNCHANGED <<output, code>> /\ step = "case"
<1>1. /\ step = "case" /\ AtCase > Len(cases) /\ report' = Report /\ step' = "output"
      /\ UNCHANGED <<output, code>>
  BY DEF ReturnReport, Goes
<1>2. /\ cases # <<>> /\ cases \in Seq(Expected) /\ Len(reports) <= Len(cases) /\ runs \in 1..MaxRuns
      /\ reports \in Seq(CaseReport) /\ Passed \in Nat /\ ReciprocalRanks \in Nat
  BY <1>1, EvaluationAssumption DEF EvaluationInv, EvaluationTypeOK, CasesInv, RatesInv, ProgressInv
<1>3. Len(reports) = Len(cases) /\ Len(reports) \in Nat /\ Len(reports) # 0
  BY <1>1, <1>2 DEF AtCase
<1>4. reports[Len(reports)] \in CaseReport
  BY <1>2, <1>3
<1>5. reports[Len(reports)].generation \in Generations
  BY <1>4 DEF CaseReport
<1>6. Report \in Reports
  BY <1>2, <1>3, <1>5 DEF Report, Reports
<1>7. Report.text = "whole" /\ NoReport.text = "absent"
  BY DEF Report, NoReport
<1> QED
  BY <1>1, <1>3, <1>6, <1>7

\* Every step keeps the types.
LEMMA TypeStep == ASSUME EvaluationInv, [EvaluationNext]_allVars PROVE EvaluationTypeOK'
<1>0. EvaluationTypeOK /\ ProgressInv /\ CasesInv
  BY DEF EvaluationInv
<1>1. CASE Onward
  <2>0. UNCHANGED <<active, snapshots, cases, reports, runs>>
    BY <1>1, OnwardKeeps
  <2>1. CASE ReturnReport
    <3>1. UNCHANGED pinned
      BY <2>1 DEF ReturnReport
    <3> QED
      BY <1>0, <2>0, <2>1, <3>1, ReportFacts DEF EvaluationTypeOK
  <2>2. CASE ResolveSnapshot
    BY <1>0, <2>0, <2>2 DEF EvaluationTypeOK, ResolveSnapshot, Goes
  <2>3. CASE OpenOutput \/ WriteOutput
    BY <1>0, <2>0, <2>3 DEF EvaluationTypeOK, OpenOutput, WriteOutput, Goes
  <2>4. CASE \/ LoadCases \/ BeginCase \/ QueryRaises \/ OutputRaises \/ Exit \/ PrintRaises \/ Interrupt
    <3>1. UNCHANGED <<pinned, report, output>>
      BY <2>4 DEF LoadCases, BeginCase, QueryRaises, OutputRaises, Exit, PrintRaises, Interrupt
    <3>2. step' \in {"case", "resolve", "printed", "ended"} /\ code' \in {0, 1, 2, Unflushed, Killed} \cup {code}
      BY <2>4 DEF LoadCases, BeginCase, QueryRaises, OutputRaises, Exit, ExitCode, PrintRaises, Interrupt,
         Raises, Goes, Ends
    <3> QED
      BY <1>0, <2>0, <3>1, <3>2 DEF EvaluationTypeOK
  <2>5. CASE UNCHANGED allVars
    BY <1>0, <2>0, <2>5 DEF EvaluationTypeOK, allVars, evaluationVars
  <2> QED
    BY <1>1, <2>1, <2>2, <2>3, <2>4, <2>5 DEF Onward
<1>2. CASE QueryAnswers
  <2>1. Len(reports) < Len(cases) /\ cases \in Seq(Expected)
    BY <1>0, <1>2, EvaluationAssumption DEF QueryAnswers, ProgressInv, EvaluationTypeOK
  <2>2. Len(reports') <= Len(cases')
    BY <1>2, <2>1, ReportsGrow
  <2> QED
    BY <1>0, <1>2, <2>2, ReportsGrow DEF EvaluationTypeOK
<1>3. CASE EvaluateAgain
  <2>1. PICK c \in CaseFiles : Started(c)
    BY <1>3 DEF EvaluateAgain
  <2>2. /\ cases' = c /\ pinned' = Absent /\ reports' = <<>> /\ report' = NoReport /\ code' = 0
        /\ step' = "load" /\ runs' = runs + 1 /\ runs < MaxRuns /\ UNCHANGED <<active, snapshots, output>>
    BY <1>3, <2>1 DEF EvaluateAgain, Started, snapshotVars
  <2>3. Len(reports') <= Len(cases')
    BY <2>2, EvaluationAssumption
  <2>4. runs' \in 1..MaxRuns
    BY <1>0, <2>2, EvaluationAssumption DEF EvaluationTypeOK
  <2> QED
    BY <1>0, <2>2, <2>3, <2>4 DEF EvaluationTypeOK
<1>4. CASE Rebuild
  <2>1. PICK m \in Rebuilds : active' = m /\ snapshots' = snapshots \cup {m}
    BY <1>4 DEF Rebuild, Publish
  <2>2. m \in Metadata
    BY EvaluationAssumption
  <2> QED
    BY <1>0, <1>4, <2>1, <2>2 DEF EvaluationTypeOK, Rebuild, arguments, Manifests
<1>5. CASE RebuildFails
  BY <1>0, <1>5 DEF EvaluationTypeOK, RebuildFails, Withdraw, evaluationVars
<1> QED
  BY <1>1, <1>2, <1>3, <1>4, <1>5, Steps

\* The sums are those of reports alone, and the exit code that of report.
LEMMA SumsOfReports ==
    /\ UNCHANGED reports => UNCHANGED <<Passed, ReciprocalRanks>>
    /\ UNCHANGED report => UNCHANGED ExitCode
<1>1. ASSUME reports' = reports PROVE Passed' = Passed /\ ReciprocalRanks' = ReciprocalRanks
  BY <1>1 DEF Passed, ReciprocalRanks, Reciprocal
<1>2. ASSUME report' = report PROVE ExitCode' = ExitCode
  BY <1>2 DEF ExitCode
<1> QED
  BY <1>1, <1>2

\* Every step keeps ProgressInv: there is a report exactly when all cases have
\* been answered, and no exit code of success without one.
LEMMA ProgressStep == ASSUME EvaluationInv, [EvaluationNext]_allVars PROVE ProgressInv'
<1>0. EvaluationTypeOK /\ ProgressInv /\ CasesInv /\ reports \in Seq(CaseReport)
  BY DEF EvaluationInv, CasesInv
<1>1. CASE Onward
  <2>0. UNCHANGED <<cases, reports, Passed, ReciprocalRanks>>
    BY <1>1, OnwardKeeps, SumsOfReports
  <2>1. CASE ReturnReport
    <3>1. /\ Report.cases = reports /\ Report.case_count = Len(reports)
          /\ Report.generation = reports[Len(reports)].generation
          /\ Report.passed = Passed /\ Report.mrr = ReciprocalRanks
      BY DEF Report
    <3>2. code = 0 /\ step = "case" /\ step' = "output" /\ code' = code
      BY <1>0, <2>1, ReportFacts DEF ProgressInv
    <3> QED
      BY <2>0, <2>1, <3>1, <3>2, ReportFacts DEF ProgressInv
  <2>2. CASE UNCHANGED report
    <3>0. UNCHANGED ExitCode
      BY <2>2, SumsOfReports
    <3>1. CASE LoadCases
      BY <1>0, <2>0, <2>2, <3>0, <3>1 DEF ProgressInv, LoadCases, Raises, Goes, Ends
    <3>2. CASE BeginCase
      <4>1. AtCase <= Len(cases) /\ Len(reports) \in Nat /\ cases \in Seq(Expected)
        <5>1. cases \in Seq(Expected)
          BY <1>0, EvaluationAssumption DEF EvaluationTypeOK
        <5>2. AtCase <= Len(cases)
          BY <3>2 DEF BeginCase
        <5>3. Len(reports) \in Nat
          BY <1>0
        <5> QED
          BY <5>1, <5>2, <5>3
      <4>2. Len(reports) < Len(cases)
        BY <4>1 DEF AtCase
      <4>3. /\ step = "case"
            /\ (step' = "ended" /\ code' \in {1, 2}) \/ (step' = "resolve" /\ code' = code)
        BY <3>2 DEF BeginCase, Raises, Goes, Ends
      <4> QED
        BY <1>0, <2>0, <2>2, <3>0, <4>2, <4>3 DEF ProgressInv
    <3>3. CASE ResolveSnapshot \/ QueryRaises
      BY <1>0, <2>0, <2>2, <3>0, <3>3 DEF ProgressInv, ResolveSnapshot, QueryRaises, Raises, Goes, Ends
    <3>4. CASE OpenOutput \/ WriteOutput \/ OutputRaises
      BY <1>0, <2>0, <2>2, <3>0, <3>4 DEF ProgressInv, OpenOutput, WriteOutput, OutputRaises, Raises,
         Goes, Ends
    <3>5. CASE Exit
      <4>1. code' = ExitCode /\ step' = "printed" /\ step = "exit"
        BY <3>5 DEF Exit, ExitCode
      <4> QED
        BY <1>0, <2>0, <2>2, <3>0, <4>1 DEF ProgressInv
    <3>6. CASE Interrupt
      BY <1>0, <2>0, <2>2, <3>0, <3>6 DEF ProgressInv, Interrupt, Ends, Killed
    <3>7. CASE UNCHANGED allVars
      BY <1>0, <2>0, <2>2, <3>0, <3>7 DEF ProgressInv, allVars, evaluationVars
    <3>8. CASE PrintRaises
      BY <1>0, <2>0, <2>2, <3>0, <3>8 DEF ProgressInv, PrintRaises, Raises, Unflushed, Ends
    <3> QED
      BY <1>1, <2>2, <3>1, <3>2, <3>3, <3>4, <3>5, <3>6, <3>7, <3>8, <2>1 DEF Onward, ReturnReport
  <2> QED
    BY <1>1, <2>1, <2>2 DEF Onward, LoadCases, BeginCase, ResolveSnapshot, QueryRaises, OpenOutput,
       WriteOutput, OutputRaises, Exit, PrintRaises, Interrupt, allVars, evaluationVars
<1>2. CASE QueryAnswers
  <2>1. /\ step = "query" /\ step' = "case" /\ UNCHANGED <<cases, report, code>>
        /\ report = NoReport /\ cases # <<>> /\ code = 0
    BY <1>0, <1>2, ReportsGrow DEF ProgressInv
  <2> QED
    BY <2>1 DEF ProgressInv
<1>3. CASE EvaluateAgain
  BY <1>3 DEF EvaluateAgain, Started, ProgressInv
<1>4. CASE Rebuild \/ RebuildFails
  <2>1. UNCHANGED <<step, cases, reports, report, code>>
    BY <1>4 DEF Rebuild, RebuildFails, arguments, evaluationVars
  <2> QED
    BY <1>0, <2>1, SumsOfReports DEF ProgressInv
<1> QED
  BY <1>1, <1>2, <1>3, <1>4, Steps

\* Every step keeps OutputInv: the file changes only once there is a report.
LEMMA OutputStep == ASSUME EvaluationInv, [EvaluationNext]_allVars PROVE OutputInv'
<1>0. EvaluationTypeOK /\ ProgressInv /\ OutputInv
  BY DEF EvaluationInv
<1>1. CASE Onward
  <2>0. UNCHANGED found
    BY <1>1, OnwardKeeps
  <2>1. CASE ReturnReport
    <3>1. report = NoReport /\ output = found /\ report' # NoReport /\ step' = "output" /\ output' = output
      BY <1>0, <2>1, ReportFacts DEF ProgressInv, OutputInv
    <3> QED
      BY <1>0, <2>0, <3>1 DEF OutputInv
  <2>2. CASE OpenOutput
    <3>1. report # NoReport /\ report' = report /\ step = "output"
      BY <1>0, <2>2 DEF OpenOutput, ProgressInv
    <3>2. CASE output' = Truncated /\ step' = "write"
      BY <1>0, <2>0, <3>1, <3>2 DEF OutputInv, Truncated
    <3>3. CASE output' = output /\ step' = "exit"
      BY <1>0, <2>0, <3>1, <3>3 DEF OutputInv
    <3> QED
      BY <2>2, <3>2, <3>3 DEF OpenOutput, Goes
  <2>3. CASE WriteOutput
    <3>1. report # NoReport /\ report' = report /\ output' = report /\ step' = "exit"
      BY <1>0, <2>3 DEF WriteOutput, ProgressInv, Goes
    <3>2. report.case_count = Len(report.cases)
      BY <1>0, <3>1 DEF ProgressInv
    <3> QED
      BY <1>0, <2>0, <3>1, <3>2 DEF OutputInv
  <2>4. CASE UNCHANGED <<report, output>> /\ step' \notin {"output", "write", "exit", "printed"}
    BY <1>0, <2>0, <2>4 DEF OutputInv
  <2>5. CASE Exit \/ UNCHANGED allVars
    BY <1>0, <2>0, <2>5 DEF OutputInv, Exit, allVars, evaluationVars
  <2> QED
    BY <1>1, <2>1, <2>2, <2>3, <2>4, <2>5 DEF Onward, LoadCases, BeginCase, ResolveSnapshot, QueryRaises,
       OutputRaises, PrintRaises, Interrupt, Raises, Goes, Ends
<1>2. CASE QueryAnswers
  BY <1>0, <1>2, ReportsGrow DEF OutputInv
<1>3. CASE EvaluateAgain
  <2>1. report' = NoReport /\ output' = output /\ found' = output /\ step' = "load"
    BY <1>3 DEF EvaluateAgain, Started
  <2>2. output \in Reports \cup {NoReport, Truncated}
    BY <1>0 DEF EvaluationTypeOK
  <2> QED
    BY <1>0, <2>1, <2>2 DEF OutputInv
<1>4. CASE Rebuild \/ RebuildFails
  <2>1. UNCHANGED <<step, report, output, found>>
    BY <1>4 DEF Rebuild, RebuildFails, arguments, evaluationVars
  <2> QED
    BY <1>0, <2>1 DEF OutputInv
<1> QED
  BY <1>1, <1>2, <1>3, <1>4, Steps

-----------------------------------------------------------------------------
(* The theorems. *)

\* The invariant holds when the first evaluation begins.
LEMMA EvaluationInitInv == EvaluationInit => EvaluationInv
<1> SUFFICES ASSUME EvaluationInit PROVE EvaluationInv
  OBVIOUS
<1>0. /\ active \in {Absent, Unsupported} /\ snapshots = {} /\ cases \in CaseFiles /\ step = "load"
      /\ pinned = Absent /\ reports = <<>> /\ report = NoReport /\ output = NoReport /\ code = 0
      /\ runs = 1 /\ roots = <<active>> /\ found = NoReport /\ began = 1
  BY DEF EvaluationInit, SnapshotInit
<1>1. active \in Manifests /\ active \notin Metadata /\ cases \in Seq(Expected) /\ Whole \in Nat /\ 1 \in 1..MaxRuns
  BY <1>0, FormatAssumption, EvaluationAssumption DEF Manifests
<1>2. DOMAIN reports = {} /\ Len(reports) = 0 /\ Len(cases) \in Nat
  BY <1>0, <1>1
<1>3. EvaluationTypeOK
  BY <1>0, <1>1, <1>2 DEF EvaluationTypeOK
<1>4. roots \in Seq(Manifests) /\ Len(roots) = 1 /\ roots[1] = active /\ DOMAIN roots = 1..1
  BY <1>0, <1>1
<1>5. RootsInv
  BY <1>0, <1>1, <1>4 DEF RootsInv
<1>6. CasesInv
  BY <1>0, <1>2, EmptySeq DEF CasesInv
<1>7. RatesInv
  <2>1. Passed = 0 /\ ReciprocalRanks = 0
    BY <1>0, RatesBegin DEF Passed, ReciprocalRanks
  <2> QED
    BY <1>1, <1>2, <2>1 DEF RatesInv
<1>8. ProgressInv
  BY <1>0 DEF ProgressInv
<1>9. OutputInv
  <2>1. NoReport.text # "whole"
    BY DEF NoReport
  <2> QED
    BY <1>0, <2>1 DEF OutputInv
<1> QED
  BY <1>3, <1>5, <1>6, <1>7, <1>8, <1>9 DEF EvaluationInv

\* EvaluationInv is an invariant of the command, whatever is rebuilt meanwhile.
THEOREM EvaluationInvariant == EvaluationSpec => []EvaluationInv
<1>1. ASSUME EvaluationInv, [EvaluationNext]_allVars PROVE EvaluationInv'
  BY <1>1, TypeStep, RootsStep, CasesStep, RatesStep, ProgressStep, OutputStep DEF EvaluationInv
<1>2. EvaluationInv /\ [EvaluationNext]_<<snapshotVars, evaluationVars>> => EvaluationInv'
  BY <1>1 DEF allVars
<1> QED
  BY <1>2, EvaluationInitInv, PTL DEF EvaluationSpec

\* Every variable keeps its type, and the command ends with no other exit code.
THEOREM EvaluationTypeCorrect == EvaluationSpec => []EvaluationTypeOK
<1>1. EvaluationInv => EvaluationTypeOK
  BY DEF EvaluationInv
<1> QED
  BY <1>1, EvaluationInvariant, PTL

\* A name that was published has one position among the root manifests.
LEMMA PositionFacts ==
    ASSUME RootsInv, NEW g, NEW i \in DOMAIN roots, PublishedAt(g, i)
    PROVE  Position(g) = i
<1> DEFINE I == {j \in 1..Len(roots) : roots[j] \in Metadata /\ roots[j].generation = g}
<1>1. DOMAIN roots = 1..Len(roots) /\ Len(roots) \in Nat
  BY DEF RootsInv
<1>2. I = {i}
  BY <1>1 DEF RootsInv, PublishedAt
<1>3. Position(g) = IF I # {} THEN Min(I) ELSE 0
  BY DEF Position, SelectInSeq
<1>4. Min({i}) = i
  BY <1>1 DEF Min
<1> QED
  BY <1>2, <1>3, <1>4

\* However rebuilds fall between the cases, no case is answered from an index
\* older than the evaluation or than a case before it (evaluate).
THEOREM CasesFollowTheIndex == EvaluationSpec => []CasesFollowIndex
<1>1. EvaluationInv => CasesFollowIndex
  <2> SUFFICES ASSUME EvaluationInv PROVE CasesFollowIndex
    OBVIOUS
  <2>0. RootsInv /\ CasesInv /\ Len(roots) \in Nat /\ DOMAIN roots = 1..Len(roots) /\ began \in 1..Len(roots)
    BY DEF EvaluationInv, RootsInv
  <2>1. ASSUME NEW k \in DOMAIN reports
        PROVE  /\ Position(reports[k].generation) \in began..Len(roots)
               /\ PublishedAt(reports[k].generation, Position(reports[k].generation))
    <3>1. PICK i \in began..Len(roots) : PublishedAt(reports[k].generation, i)
      BY <2>0 DEF CasesInv
    <3>2. Position(reports[k].generation) = i
      BY <2>0, <3>1, PositionFacts
    <3> QED
      BY <3>1, <3>2
  <2>2. ASSUME NEW k \in DOMAIN reports, NEW m \in DOMAIN reports, k < m
        PROVE  Position(reports[k].generation) <= Position(reports[m].generation)
    <3>1. Position(reports[k].generation) \in DOMAIN roots /\ Position(reports[m].generation) \in DOMAIN roots
      BY <2>0, <2>1
    <3> QED
      BY <2>0, <2>1, <2>2, <3>1 DEF CasesInv
  <2>3. \A k \in DOMAIN reports : Position(reports[k].generation) >= began
    BY <2>0, <2>1
  <2> QED
    BY <2>2, <2>3 DEF CasesFollowIndex
<1> QED
  BY <1>1, EvaluationInvariant, PTL

\* The report names the index of its last case, of all of them when none was
\* published meanwhile, and its rates agree with its cases (evaluate).
THEOREM ReportsAgree == EvaluationSpec => []ReportAgrees
<1>1. EvaluationInv => ReportAgrees
  <2> SUFFICES ASSUME EvaluationInv, report # NoReport PROVE ReportAgrees
    BY DEF ReportAgrees, ReportNamesIndex, RatesAgree
  <2>0. /\ RootsInv /\ CasesInv /\ RatesInv /\ reports \in Seq(CaseReport)
        /\ report.cases = reports /\ reports # <<>>
        /\ report.generation = reports[Len(reports)].generation
        /\ report.passed = Passed /\ report.mrr = ReciprocalRanks
    BY DEF EvaluationInv, ProgressInv, CasesInv
  <2>1. Len(reports) \in DOMAIN reports
    BY <2>0
  <2>2. ASSUME Len(roots) = began, NEW k \in DOMAIN reports
        PROVE  reports[k].generation = roots[began].generation
    <3>1. PICK i \in began..Len(roots) : PublishedAt(reports[k].generation, i)
      BY <2>0 DEF CasesInv
    <3>2. i = began
      BY <2>0, <2>2, <3>1 DEF RootsInv
    <3> QED
      BY <3>1, <3>2 DEF PublishedAt
  <2>3. ReportNamesIndex
    BY <2>0, <2>1, <2>2 DEF ReportNamesIndex
  <2>4. RatesAgree
    BY <2>0 DEF RatesAgree, RatesInv
  <2> QED
    BY <2>3, <2>4 DEF ReportAgrees
<1> QED
  BY <1>1, EvaluationInvariant, PTL

\* Exit code 0 means that every case was evaluated and passed, and no error
\* ends with it (cmd_evaluate and main).
THEOREM ExitCodesAgree == EvaluationSpec => []ExitCodeAgrees
<1>1. EvaluationInv => ExitCodeAgrees
  <2> SUFFICES ASSUME EvaluationInv PROVE ExitCodeAgrees
    OBVIOUS
  <2>0. ProgressInv /\ reports \in Seq(CaseReport) /\ cases \in Seq(Expected)
    BY EvaluationAssumption DEF EvaluationInv, CasesInv, EvaluationTypeOK
  <2>1. ASSUME step = "printed"
        PROVE  /\ code \in {0, 1} /\ Len(reports) = Len(cases)
               /\ code = 0 <=> \A k \in DOMAIN cases : reports[k].passed
    <3>1. /\ Len(reports) = Len(cases) /\ report.passed = Passed /\ report.case_count = Len(reports)
          /\ code = ExitCode
      BY <2>0, <2>1 DEF ProgressInv
    <3>2. code \in {0, 1} /\ (code = 0 <=> Passed = Len(reports))
      BY <3>1 DEF ExitCode
    <3> DEFINE S == {k \in DOMAIN reports : reports[k].passed}
    <3>3. S \subseteq 1..Len(reports) /\ Len(reports) \in Nat /\ DOMAIN cases = 1..Len(reports) /\ DOMAIN reports = 1..Len(reports)
      BY <2>0, <3>1
    <3>4. IsFiniteSet(1..Len(reports)) /\ Cardinality(1..Len(reports)) = Len(reports)
      BY <3>3, FS_Interval
    <3>5. Cardinality(S) = Len(reports) <=> S = 1..Len(reports)
      <4> HIDE DEF S
      <4> QED
        BY <3>3, <3>4, FS_Subset
    <3>6. Passed = Cardinality(S)
      BY DEF Passed
    <3>7. S = 1..Len(reports) <=> \A k \in DOMAIN cases : reports[k].passed
      BY <3>3
    <3> HIDE DEF S
    <3> QED
      BY <3>1, <3>2, <3>5, <3>6, <3>7
  <2> QED
    BY <2>0, <2>1 DEF ProgressInv, ExitCodeAgrees
<1> QED
  BY <1>1, EvaluationInvariant, PTL

\* An evaluation that stops early leaves the report of an earlier one alone;
\* afterwards the file holds this report or none (cmd_evaluate).
THEOREM OutputStaysWhole == EvaluationSpec => []OutputIsWhole
<1>1. EvaluationInv => OutputIsWhole
  <2> SUFFICES ASSUME EvaluationInv PROVE OutputIsWhole
    OBVIOUS
  <2>0. EvaluationTypeOK /\ OutputInv /\ ProgressInv
    BY DEF EvaluationInv
  <2>1. ASSUME step = "printed", output = Truncated PROVE found = Truncated
    <3>1. report # NoReport /\ report \in Reports \cup {NoReport}
      BY <2>0, <2>1 DEF ProgressInv, EvaluationTypeOK
    <3>2. report.text = "whole" /\ Truncated.text = "part"
      BY <3>1 DEF Reports, Truncated
    <3>3. report # Truncated
      BY <3>2
    <3> QED
      BY <2>0, <2>1, <3>3 DEF OutputInv
  <2> QED
    BY <2>0, <2>1 DEF OutputInv, OutputIsWhole
<1> QED
  BY <1>1, EvaluationInvariant, PTL
=============================================================================
