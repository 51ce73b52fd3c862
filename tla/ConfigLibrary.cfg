SPECIFICATION Spec
CONSTANTS
    put1 = put1
    put2 = put2
    reconciler = reconciler
    mine = mine
    group = group
    Requests = {put1, put2}
    Reconcilers = {reconciler}
    Values = {mine, group}
    Initial = mine
    NoValue = NoValue
    NoWorker = NoWorker
    MaxAttempts = 1
    MaxWrites = 3
    MaxLate = 2
    Library = TRUE
    Pushes = TRUE
SYMMETRY RequestSymmetry
INVARIANTS
    OldIdentifiersCleared
CHECK_DEADLOCK FALSE
