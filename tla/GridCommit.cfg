SPECIFICATION Spec
CONSTANTS
    Runs = {r1, r2, r3}
    Prior = Prior
    Nothing = Nothing
INVARIANTS
    NothingLost
    OutputThereAfterwards
CHECK_DEADLOCK FALSE
