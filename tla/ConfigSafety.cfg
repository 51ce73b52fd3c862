SPECIFICATION FairSpec
CONSTANTS
    put1 = put1
    put2 = put2
    reconciler = reconciler
    mine = mine
    group = group
    Requests = {put1}
    Reconcilers = {reconciler}
    Values = {mine, group}
    Initial = mine
    NoValue = NoValue
    NoWorker = NoWorker
    MaxAttempts = 2
    MaxWrites = 2
    MaxLate = 1
    Library = FALSE
    Pushes = FALSE
INVARIANTS
    AppliedIsInEffect
PROPERTIES
    EffectsInOrder
    PendingSettles
    ReconcilerConverges
CHECK_DEADLOCK FALSE
