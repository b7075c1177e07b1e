SPECIFICATION FairSpec
CONSTANTS
    Runs = {r1}
    Flows = {f1, f2}
    Steps = {1, 2, 3}
    RunOf <- MCRunOf
    Arms = {a1}
    NoArm = NoArm
    NoStep = NoStep
    Seqs = {}
    TokenBudget <- MCUnbounded
    Estimates = {0}
    Tokens = {0}
    Costs = {0}
    MaxVersion = 3
    Schedulers = {n1, n2}
    Free = Free
    Orphan = Orphan
    Planned <- MCMixed
    Late = {}
    BatchSize = 2
    MaxRetries = 0
    HasSelector = TRUE
    Refusals = FALSE
    LeaseLoss = FALSE
    MirrorLoss = FALSE
    OperatorMoves = {}
    MaxFaults = 0
    MaxCrashes = 0
INVARIANTS
    RunVerdictStands
PROPERTIES
    RunsSettle
CHECK_DEADLOCK FALSE
