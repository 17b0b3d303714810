CONSTANTS
    Threads = {t1, t2}
    Generations = {g1, g2}
    Empty = Empty
    Contents = {g1, g2, Empty}
    Absent = Absent
    Unsupported = Unsupported
    Requests <- MCDefault
    Builds <- MCOwnBuilds
    CacheSize = 1
    ChunkCount <- MCChunkCount
    LegacyContents = {}
SPECIFICATION QuerySpec
INVARIANT QueryTypeOK AnswersActiveIndex CachesCoherent NoSpuriousFailure
SYMMETRY QuerySymmetry
