CONSTANTS
    RrfK = 60
    Scale = 1000
    Items <- MCItems
    Docs <- MCDocs
    Texts <- MCTexts
    Repos <- MCRepos
    Similar <- MCSimilar
    Queries <- LexicalQueries
    Minima <- MCOneMinimum
    TopKs = {3}
    MaxPerRepo = 2
SPECIFICATION SelectionSpec
INVARIANT MinimumHonoured
CHECK_DEADLOCK FALSE
