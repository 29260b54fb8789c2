SPECIFICATION Spec
CONSTANTS
    Experiments <- MCExperiments
    Domains <- MCDomains
    Contracts <- MCContracts
    Samples <- MCSamples
    MaxWeight = 3
    MaxRounds = 6
    MaxCap = 6
    Scale = 12
    Grain = 4
    NotANumber = 99
INVARIANTS
    AcceptedIsUsable
    DominatedNeverAhead
    ProposalsAreNeighbors
    StepsShrinkNotVanish
CHECK_DEADLOCK FALSE
