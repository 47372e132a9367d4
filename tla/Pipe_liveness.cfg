\* Two writers, a reader that keeps reading and a task that closes.
SPECIFICATION FairSpec
CONSTANTS
    Reader = Reader
    Writers = {w1, w2}
    Closers = {c1}
    Options <- MCWaiting
    MaxChunks = 2
    MaxBatch = 1
PROPERTIES
    WritesReturn
    CloseReachesReader
