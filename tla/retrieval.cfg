CONSTANTS
    RrfK = 60
    Scale = 1000
    Items <- MCItems
    Docs <- MCDocs
    Texts <- MCTexts
    Repos <- MCRepos
    Similar <- MCSimilar
    Queries <- MCQueries
    Minima <- MCMinima
    TopKs = {1, 2, 3}
    MaxPerRepo = 2
    BlockLists = {}
    MaxItemCounts = {}
    Budgets = {0, 4, 9}
    BlockLength <- MCBlockLength
    PromptItems <- MCPromptItems
SPECIFICATION ChainSpec
INVARIANT ChainTypeOK FusionSound SelectionSound MinimaFirst ResultsInOrder
INVARIANT WithinBudget NothingFits ContextOfAllResults PromptFileAgrees
CHECK_DEADLOCK FALSE
