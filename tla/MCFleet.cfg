SPECIFICATION Spec
CONSTANTS
    Runs = {r1}
    Flows = {f1}
    Steps = {1, 2, 3}
    RunOf <- MCRunOf
    Arms = {a1}
    NoArm = NoArm
    NoStep = NoStep
    Seqs = {}
    TokenBudget <- MCUnbounded
    Estimates = {0}
    Tokens = {0}
    Costs = {0, 1}
    MaxVersion = 3
    Schedulers = {n1, n2}
    Free = Free
    Orphan = Orphan
    Planned <- MCSiblings
    Late = {}
    BatchSize = 2
    MaxRetries = 1
    HasSelector = TRUE
    Refusals = TRUE
    LeaseLoss = FALSE
    MirrorLoss = FALSE
    OperatorMoves = {}
    MaxFaults = 0
    MaxCrashes = 1
SYMMETRY MCSymmetry
INVARIANTS
    TypeOK
    OneExecutor
    BilledOnce
    FlowVerdictStands
PROPERTIES
    CommitByHolder
    OutcomeFrozen
CHECK_DEADLOCK FALSE
