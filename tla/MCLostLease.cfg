SPECIFICATION Spec
CONSTANTS
    Runs = {r1}
    Flows = {f1}
    Steps = {1, 2}
    RunOf <- MCRunOf
    Arms = {a1}
    NoArm = NoArm
    NoStep = NoStep
    Seqs = {1}
    TokenBudget <- MCUnbounded
    Estimates = {0}
    Tokens = {0}
    Costs = {0, 1}
    MaxVersion = 3
    Schedulers = {n1, n2}
    Free = Free
    Orphan = Orphan
    Planned <- MCSingle
    Late = {}
    BatchSize = 2
    MaxRetries = 0
    HasSelector = TRUE
    Refusals = FALSE
    LeaseLoss = TRUE
    MirrorLoss = FALSE
    OperatorMoves = {}
    MaxFaults = 0
    MaxCrashes = 0
PROPERTIES
    CommitByHolder
CHECK_DEADLOCK FALSE
