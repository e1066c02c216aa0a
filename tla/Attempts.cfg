SPECIFICATION FairSpec
CONSTANTS
    Docs = {1, 2, 3}
    Hashes = {"v1", "v2"}
    Settings = {"s1", "s2"}
    Chunks = {"v1", "v2"}
    ChunksOf <- Overlapping
    MaxFailures = 1
    Entities = {}
    Killers <- OneCulprit
    KillStep = "commit"
    Limits = {1}
    MaxFailurePct = 50
    MaxEdits = 1
    MaxFaults = 1
INVARIANTS TypeOK OnlyCulprits ProcessedExact
PROPERTY Converges
