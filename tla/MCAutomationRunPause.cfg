SPECIFICATION Spec
CONSTANTS
    r1 = r1  r2 = r2  r3 = r3
    thread = thread
    Runs = {r1, r2, r3}
    Chats = {thread}
    ChatOf <- MCChatOf
    Wired = {r2}
    Permits = 2
    Keep = 1
    MaxAsks = 1
    MaxPrompts = 0
    MaxStops = 0
    MaxCrashes = 0
    None = None
CHECK_DEADLOCK FALSE
INVARIANT PauseHolds
