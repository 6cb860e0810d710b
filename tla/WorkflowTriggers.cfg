\* Two runs of one org, two ingredients.
CONSTANTS
    Runs = {p, q}
    Ingredients = {i1, i2}
    i1 = i1
    i2 = i2
    Plans <- AllPlans
    Picked = {i1, i2}
    Owner = Owner
    Free = Free
    NoIngredient = NoIngredient
SPECIFICATION Spec
SYMMETRY Symmetry
INVARIANTS IInv RestockDuplicatesOverlap RepeatedDraftsExplained AlertAndDrafts NothingMissed
CHECK_DEADLOCK FALSE
