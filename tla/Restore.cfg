\* Two faults at any steps of any runs: a recovery or a retry can fail or be
\* killed as well.  Every faulted run can leave a directory behind, so that
\* four identifiers always leave one for a retry.
SPECIFICATION FairSpec
CONSTANTS
    None = None
    Mixed = Mixed
    Backups = {1, 2}
    Keyed = {1}
    Files = {"a", "b"}
    Inventory <- MCInventory
    Sources <- MCSources
    Runs = {1, 2, 3, 4}
    MaxFaults = 2
INVARIANTS TypeOK CompleteCopyKept ServesCompleteDatabases ServesOneDataSet CommittedPdfsKept
PROPERTY MaintenanceEnds
