SPECIFICATION Spec
CONSTANTS
    Runs = {r1}
    Flows = {f1}
    Steps = {1, 2}
    RunOf <- MCRunOf
    Arms = {a1}
    NoArm = NoArm
    NoStep = NoStep
    Seqs = {}
    TokenBudget <- MCUnbounded
    Estimates = {2}
    Tokens = {0, 1}
    Costs = {0}
    MaxVersion = 3
    Schedulers = {n1}
    Free = Free
    Orphan = Orphan
    Planned <- MCSingle
    Late = {}
    BatchSize = 2
    MaxRetries = 0
    HasSelector = TRUE
    Refusals = FALSE
    LeaseLoss = FALSE
    MirrorLoss = FALSE
    OperatorMoves = {}
    MaxFaults = 0
    MaxCrashes = 0
INVARIANTS
    TokensReconciled
CHECK_DEADLOCK FALSE
