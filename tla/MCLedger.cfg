SPECIFICATION BoundedSpec
CONSTANTS
    Runs = {r1}
    Flows = {f1}
    Steps = {s1, s2}
    RunOf <- MCRunOf
    Arms = {a1}
    NoArm = NoArm
    NoStep = NoStep
    Seqs = {1}
    TokenBudget <- MCTightBudget
    Estimates = {0, 1}
    Tokens = {1, 3}
    Costs = {1}
    MaxVersion = 2
    MaxBill = 2
    MaxUsed = 3
SYMMETRY MCSymmetry
INVARIANTS
    EffectsNeedOutcome
    BudgetRespected
    RecoverableByT4
    ChainsWellFounded
PROPERTIES
    TerminalAbsorbing
