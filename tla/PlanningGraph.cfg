\* One run of every kind of request, with the refinement of the plan review.
CONSTANTS
    None = None
    Scores = {60, 90}
    MaxReplans = 2
    RecursionLimit = 25
SPECIFICATION FairSpec
INVARIANTS NoLostWrite VerdictIsOnTheMenu ReadyIsJustified
PROPERTIES ImplementsReview RunAnswers
CHECK_DEADLOCK FALSE
