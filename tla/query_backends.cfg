CONSTANTS
    Threads = {t1}
    Generations = {g1, g2}
    Empty = Empty
    Contents = {c1, Empty}
    Absent = Absent
    Unsupported = Unsupported
    Requests <- MCRequests
    Builds <- MCEveryBackend
    CacheSize = 1
    ChunkCount <- MCChunkCount
    LegacyContents = {c1, Empty}
SPECIFICATION QuerySpec
INVARIANT BackendHonest LegacyBypassesCache
SYMMETRY QuerySymmetry
