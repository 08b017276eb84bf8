SPECIFICATION Spec
CONSTANTS
    cA = cA  cB = cB
    r1 = r1  r2 = r2  r3 = r3
    t1 = t1  t2 = t2
    i1 = i1  i2 = i2
    m1 = m1  m2 = m2
    Convs = {cA}
    Runs = {r1, r2}
    ConvOf <- MCTwoInOne
    Calls = {}
    RunOf <- MCNone
    KindOf <- MCNone
    Ids = {}
    IdOf <- MCNone
    Models = {m1}
    Want <- MCSameModel
    ApprovalGate = FALSE
    HostOps = {"Stop"}
    ChannelCap = 2
    MaxControls = 1
    MaxClicks = 0
    NoRun = NoRun
    NoCall = NoCall
    NoId = NoId
CHECK_DEADLOCK FALSE
PROPERTY StopAbortsInFlightRun
