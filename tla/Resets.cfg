SPECIFICATION FullSpec
CONSTANTS
    Docs = {1, 2}
    Hashes = {"v1", "v2"}
    Settings = {"s1"}
    Chunks = {"v1", "v2"}
    ChunksOf <- OneChunk
    MaxFailures = 1
    Entities = {e, f}
    GraphItems = {e, f}
    Killers = {}
    KillStep = "extract"
    Limits = {1}
    MaxFailurePct = 50
    MaxEdits = 1
    MaxFaults = 1
    MaxResets = 1
    EmptyResets = FALSE
INVARIANTS FullTypeOK NoOrphans ProcessedExact
PROPERTY ImplementsIndex
SYMMETRY Symmetry
