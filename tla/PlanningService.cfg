\* Three requests of two organizations over the plain, debug, forced and legacy
\* routes, in every interleaving, a clock of three times the time-to-live, two days.
CONSTANTS
  r1 = r1
  r2 = r2
  r3 = r3
  o1 = o1
  o2 = o2
  None = None
  Requests = {r1, r2, r3}
  Bodies <- MCBodies
  Weekday <- MCWeekday
  DayLength = 2
  TTL = 1
  Patience = 1
  MaxClock = 3
  MaxFaults = 1
SPECIFICATION Spec
SYMMETRY Symmetry
CHECK_DEADLOCK FALSE
INVARIANTS
  CachedPlansAreReal
  AgeBound
  RunIdNamesSamePlan
  WrongPlanExplained
