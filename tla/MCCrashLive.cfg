SPECIFICATION FairSpec
CONSTANTS
    Runs = {r1}
    Flows = {f1}
    Steps = {1, 2, 3}
    RunOf <- MCRunOf
    Arms = {a1}
    NoArm = NoArm
    NoStep = NoStep
    Seqs = {}
    TokenBudget <- MCTight
    Estimates = {1}
    Tokens = {0, 3}
    Costs = {0, 1}
    MaxVersion = 3
    Schedulers = {n1, n2}
    Free = Free
    Orphan = Orphan
    Planned <- MCSingle
    Late = {1}
    BatchSize = 2
    MaxRetries = 2
    HasSelector = TRUE
    Refusals = TRUE
    LeaseLoss = FALSE
    MirrorLoss = FALSE
    OperatorMoves = {}
    MaxFaults = 0
    MaxCrashes = 2
INVARIANTS
    RetryOfFailed
PROPERTIES
    ImplementsAttemptChain
    StepsSettle
CHECK_DEADLOCK FALSE
