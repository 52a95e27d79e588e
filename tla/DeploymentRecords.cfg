CONSTANTS
    p = p
    q = q
    Runs = {p, q}
    Nobody = Nobody
    Outside = Outside
    Paths <- MCPaths
    OutputOf <- MCOutput
    JournalOf <- MCJournal
    BundleOf <- MCBundle
    Forced = {q}
    MaxFaults = 1
    MaxSignals = 1
    MaxCrashes = 1
    MaxWrites = 1
SPECIFICATION FairSpec
INVARIANTS Exclusive NoMutualRefusal JournalKept CompletionMarker NoOrphanSignature
PROPERTIES KeepsForeignFiles ReservationsFreed
CHECK_DEADLOCK FALSE
