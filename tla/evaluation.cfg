CONSTANTS
    Generations = {g1, g2}
    Contents = {c1, Empty}
    Empty = Empty
    Absent = Absent
    Unsupported = Unsupported
    CaseFiles <- MCCaseFiles
    TopK = 2
    Whole = 2
    Rebuilds <- MCRebuilds
    MaxRuns = 2
SPECIFICATION EvaluationSpec
INVARIANT EvaluationTypeOK CasesFollowIndex ReportAgrees ExitCodeAgrees OutputIsWhole
PROPERTY EvaluationEnds
CHECK_DEADLOCK FALSE
