CONSTANTS
    Documents = {}
    Programs = {}
    TargetChars = 2
    FallbackLines = 2
    Paths <- MCPaths
    Outside <- MCOutside
    Corpora <- MCCorpora
    MaxEdits = 1
    Queries <- MCQueries
    MaxLines = 2
SPECIFICATION TextSpec
INVARIANT ScanTypeOK FencesWhole SectionsPacked RegionsBeginAtFunctions
INVARIANT SourcePreserving IdsIdentify PdfAccounted IncludesExact
INVARIANT CategoriesSettled SpecExtracted
CHECK_DEADLOCK FALSE
