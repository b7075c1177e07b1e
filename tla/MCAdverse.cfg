SPECIFICATION Spec
CONSTANTS
    Runs = {r1}
    Flows = {f1}
    Steps = {1, 2}
    RunOf <- MCRunOf
    Arms = {a1}
    NoArm = NoArm
    NoStep = NoStep
    Seqs = {}
    TokenBudget <- MCTight
    Estimates = {1}
    Tokens = {0, 3}
    Costs = {0}
    MaxVersion = 2
    Schedulers = {n1, n2}
    Free = Free
    Orphan = Orphan
    Planned <- MCUnpinned
    Late = {}
    BatchSize = 2
    MaxRetries = 1
    HasSelector = TRUE
    Refusals = FALSE
    LeaseLoss = TRUE
    MirrorLoss = TRUE
    OperatorMoves = {"cancelled"}
    MaxFaults = 1
    MaxCrashes = 0
SYMMETRY MCSymmetry
INVARIANTS
    NoLeakedLease
PROPERTIES
    LedgerSpec
CHECK_DEADLOCK FALSE
