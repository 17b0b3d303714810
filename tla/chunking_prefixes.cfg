CONSTANTS
    Documents = {}
    Programs <- MCAlignedPrograms
    TargetChars = 2
    FallbackLines = 2
SPECIFICATION ChunkingSpec
INVARIANT PrefixesIncluded
CHECK_DEADLOCK FALSE
