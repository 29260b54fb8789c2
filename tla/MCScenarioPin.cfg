SPECIFICATION PinSpec
CONSTANTS
    Contents = {"a", "b", "more", "cut off"}
    Broken = {"cut off"}
    CountOf <- MCCountOf
    Candidates = {c1, c2, c3}
    MaxEdits = 2
INVARIANTS
    NeverMixed
    PinningHolds
CHECK_DEADLOCK FALSE
