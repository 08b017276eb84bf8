SPECIFICATION Spec
CONSTANTS
    cA = cA  cB = cB
    r1 = r1  r2 = r2  r3 = r3
    Convs = {cA, cB}
    AgentSessions = {cA}
    Runs = {r1, r2, r3}
    ConvOf <- MCConvOf
    MaxDeltas = 2
    MaxTools = 2
    NoRun = NoRun
CHECK_DEADLOCK FALSE
INVARIANT InterruptedRepliesAreFiled
