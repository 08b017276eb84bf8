SPECIFICATION FairSpec
CONSTANTS
    cA = cA  cB = cB
    r1 = r1  r2 = r2  r3 = r3
    t1 = t1  t2 = t2
    i1 = i1  i2 = i2
    m1 = m1  m2 = m2
    Convs = {cA, cB}
    Runs = {r1, r2, r3}
    ConvOf <- MCConvOf
    Calls = {t1, t2}
    RunOf <- MCRunOf
    KindOf <- MCIoAndPlan
    Ids = {i1, i2}
    IdOf <- MCIdOf
    Models = {m1}
    Want <- MCSameModel
    ApprovalGate = FALSE
    HostOps = {"SetModel"}
    ChannelCap = 2
    MaxControls = 1
    MaxClicks = 1
    NoRun = NoRun
    NoCall = NoCall
    NoId = NoId
CHECK_DEADLOCK FALSE
PROPERTIES PromptsEnd SerializesPrompts
INVARIANT PlanNeedsItsAnswer
