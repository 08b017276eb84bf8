SPECIFICATION Spec
CONSTANTS
    cA = cA  cB = cB
    r1 = r1  r2 = r2  r3 = r3
    t1 = t1  t2 = t2
    i1 = i1  i2 = i2
    m1 = m1  m2 = m2
    Convs = {cA}
    Runs = {r1, r2}
    ConvOf <- MCTwoInOne
    Calls = {t1, t2}
    RunOf <- MCRunOf
    KindOf <- MCIoAndPlan
    Ids = {i1, i2}
    IdOf <- MCIdOf
    Models = {m1}
    Want <- MCSameModel
    ApprovalGate = TRUE
    HostOps = {"Stop", "Drop", "SetModel"}
    ChannelCap = 2
    MaxControls = 2
    MaxClicks = 1
    NoRun = NoRun
    NoCall = NoCall
    NoId = NoId
CHECK_DEADLOCK FALSE
INVARIANTS TypeOK AbortSlotCoherent ToolNeedsAllow NothingPendingAfterRun
PROPERTIES UsesRegistries
