\* One crash between two steps of the PDF replacement is enough.
SPECIFICATION Spec
CONSTANTS
    None = None
    Mixed = Mixed
    Backups = {1}
    Keyed = {1}
    Files = {"a", "b"}
    Inventory <- MCInventory
    Sources <- MCSources
    Runs = {1, 2, 3, 4}
    MaxFaults = 1
INVARIANT ServesWithAuthority
