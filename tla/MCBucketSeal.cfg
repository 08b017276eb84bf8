SPECIFICATION Spec
CONSTANTS
    dA = dA  dB = dB
    a1 = a1  a2 = a2  b1 = b1
    c1 = c1  c2 = c2
    Callers = {c1, c2}
    Docs = {dA, dB}
    Chunks = {a1, a2, b1}
    ChunksOf <- MCChunksOf
    Tokens <- MCTokens
    SummaryIds <- MCSummaryIds
    Budget = 3
    Fanout = 2
    MaxDepth = 2
    MaxIngests = 2
    MaxRemovals = 1
    MaxTroubles = 1
    None = None
CHECK_DEADLOCK FALSE
INVARIANTS TypeOK LeafInOnePlace TreeIsWhole RootAtTop TokensCounted BuffersStaySmall SealsWhatItRead
PROPERTIES LeavesAreHeld CallsReturn
