SPECIFICATION CommandSpec
CONSTANTS
    Points <- Grid
    Scores <- MCScores
    IdOrder <- MCIdOrder
    Baseline <- MCBaseline
    Dimensions = 2
    Neighborhood <- MCNeighborhood
    MaxRounds = 3
    Budgets <- MCBudgets
    Invocations <- MCInvocations
    NoPoint = NoPoint
    NoScore = NoScore
    NoDecision = NoDecision
    NoInvocation = NoInvocation
    NoFile = NoFile
INVARIANTS
    AuditTrail
    IncumbentIsBest
    ReportsTruthful
    NoDirectionLost
    CommandsTruthful
PROPERTIES
    IncumbentNeverWorse
    ClosedRunUntouched
    ImplementsBestSoFar
    CommandsReturn
CHECK_DEADLOCK FALSE
