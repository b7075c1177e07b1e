SPECIFICATION FairSpec
CONSTANTS
    Runs = {r1}
    Flows = {f1}
    Steps = {1, 2}
    RunOf <- MCRunOf
    Arms = {a1}
    NoArm = NoArm
    NoStep = NoStep
    Seqs = {}
    TokenBudget <- MCTight
    Estimates = {3}
    Tokens = {0}
    Costs = {0}
    MaxVersion = 3
    Schedulers = {n1}
    Free = Free
    Orphan = Orphan
    Planned <- MCSingle
    Late = {}
    BatchSize = 2
    MaxRetries = 0
    HasSelector = TRUE
    Refusals = FALSE
    LeaseLoss = FALSE
    MirrorLoss = FALSE
    OperatorMoves = {}
    MaxFaults = 0
    MaxCrashes = 0
PROPERTIES
    FlowsSettle
CHECK_DEADLOCK FALSE
