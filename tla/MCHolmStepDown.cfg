SPECIFICATION Spec
CONSTANTS
    Scale = 100
    PValues = {0, 1, 2, 3, 4, 5, 6, 20, 60, 100}
    FamilyAlphas = {1, 5, 10}
    MaxHypotheses = 3
INVARIANTS
    AdjustedAsSpecified
CHECK_DEADLOCK FALSE
