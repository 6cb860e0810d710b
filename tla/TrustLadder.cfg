\* Four actions, five decisions.
CONSTANTS
    MaxRows = 4
    MaxDecisions = 5
SPECIFICATION LadderSpec
INVARIANTS AgreesInOrder
PROPERTIES StreakMoves
CHECK_DEADLOCK FALSE
