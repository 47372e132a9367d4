\* Two writers and a task that closes and interrupts, on a pipe whose writers
\* wait and on one whose writers discard.
SPECIFICATION Spec
CONSTANTS
    Reader = Reader
    Writers = {w1, w2}
    Closers = {c1}
    Options <- MCOptions
    MaxChunks = 3
    MaxBatch = 2
INVARIANTS
    TypeOK
    NoLostWakeup
PROPERTY ImplementsStream
SYMMETRY MCSymmetry
