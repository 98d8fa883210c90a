SPECIFICATION Spec
CONSTANTS
    Chains <- MCChains
    Position <- MCPosition
    doomed = "quotas"
    Targets <- MCTargets
    Tables <- MCTables
    MaxChanges = 2
INVARIANTS
    TypeOK
    JumpsGone
PROPERTIES
    DeletesOwn
    ChainRemoved
CHECK_DEADLOCK FALSE
