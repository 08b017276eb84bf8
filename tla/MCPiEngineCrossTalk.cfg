SPECIFICATION Spec
CONSTANTS
    cA = cA  cB = cB
    r1 = r1  r2 = r2  r3 = r3
    t1 = t1  t2 = t2
    i1 = i1  i2 = i2
    m1 = m1  m2 = m2
    Convs = {cA, cB}
    Runs = {r1, r2}
    ConvOf <- MCOwnConv
    Calls = {}
    RunOf <- MCNone
    KindOf <- MCNone
    Ids = {}
    IdOf <- MCNone
    Models = {m1, m2}
    Want <- MCOwnModel
    ApprovalGate = FALSE
    HostOps = {}
    ChannelCap = 4
    MaxControls = 0
    MaxClicks = 0
    NoRun = NoRun
    NoCall = NoCall
    NoId = NoId
CHECK_DEADLOCK FALSE
INVARIANT SessionGetsItsModel
