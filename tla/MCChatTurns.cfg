SPECIFICATION Spec
CONSTANTS
    t1 = t1  t2 = t2  t3 = t3
    c1 = c1  c2 = c2
    Turns = {t1, t2, t3}
    Cards = {c1}
    MaxStops = 1
    None = None
CHECK_DEADLOCK FALSE
INVARIANTS TypeOK Reachable CardsKept
PROPERTIES StoppedTurnsEnd
