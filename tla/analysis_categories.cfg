CONSTANTS
    Queries <- MCQueries
    MaxLines = 80
SPECIFICATION AnalysisSpec
INVARIANT CategoriesFound
CHECK_DEADLOCK FALSE
