\* Three turns of up to two guests: the cap the prompt promises.
CONSTANTS
    Turns = {t1, t2, t3}
    Sessions = {s1, s2}
    Totals = {1, 2}
    Cap = 1
    Supplies = {cake, balloons}
    MaxCalls = 1
    None = None
SPECIFICATION Spec
SYMMETRY Symmetry
INVARIANTS OrderWithinCap
CHECK_DEADLOCK FALSE
