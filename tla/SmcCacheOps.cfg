CONSTANTS
    AddrSpace = 32
    RamBase = 8
    RamSize = 8
    ExBase = 24
    ExSize = 4
    PageWords = 4
    LineWords = 2
    t1 = t1
    t2 = t2
    NoTitle = NoTitle
    NoModule = NoModule
    Mapped <- MCMapped
    ChunkRanges <- MCChunkRanges
    Candidate <- MCCandidate
    Title <- MCTitle
    Writable <- MCWritable
    ReqAddr <- MCReqAddr
    ReqLen <- MCReqLen
SPECIFICATION Spec
INVARIANT CacheOpsExact
