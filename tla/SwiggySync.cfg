\* Two syncs of an account with one order, every failure of a call, of Redis, of
\* the database and of the server, in every interleaving with the clock.
CONSTANTS
  Callers = {p1, p2}
  Orders = {x1}
  FAILURE_THRESHOLD = 2
  WINDOW = 2
  OPEN = 2
  Never = Never
SPECIFICATION Spec
CHECK_DEADLOCK FALSE
INVARIANTS
  CountIsRecent
  FeedbackDuplicatesOverlap
  SyncingExplained
PROPERTIES
  OpenCloses
