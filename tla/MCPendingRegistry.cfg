SPECIFICATION FairSpec
CONSTANTS
    w1 = w1  w2 = w2  w3 = w3
    i1 = i1  i2 = i2  i3 = i3
    Waiters = {w1, w2, w3}
    Ids = {i1, i2, i3}
    IdsOf <- MCShared
    Answers = {allow, deny}
    NoWaiter = NoWaiter
    NoId = NoId
INVARIANTS TypeOK NoLeak NobodyStranded NeverDisplaced
PROPERTY EveryAskEnds
