\* Three turns of up to two guests.
CONSTANTS
    Turns = {t1, t2, t3}
    Sessions = {s1, s2}
    Totals = {1, 2}
    Cap = 1
    Supplies = {cake, balloons}
    MaxCalls = 1
    None = None
SPECIFICATION Spec
SYMMETRY Symmetry
INVARIANTS NothingFabricated NothingLost CartIsWhatSessionKnows CapBreachExplained
CHECK_DEADLOCK FALSE
