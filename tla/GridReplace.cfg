SPECIFICATION Spec
CONSTANTS
    Runs = {r1, r2}
    Prior = Prior
    Nothing = Nothing
PROPERTIES
    RefusesToReplace
CHECK_DEADLOCK FALSE
