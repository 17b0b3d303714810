CONSTANTS
    Threads = {t1, t2}
    Generations = {g1}
    Empty = Empty
    Contents = {c1, c2, Empty}
    Absent = Absent
    Unsupported = Unsupported
    Requests <- MCDefault
    Builds <- MCVectorBuilds
    CacheSize = 1
    ChunkCount <- MCChunkCount
    LegacyContents = {c1, c2}
SPECIFICATION QuerySpec
INVARIANT LegacyBypassesCache
SYMMETRY QuerySymmetry
