SPECIFICATION FairSpec
CONSTANTS
    Docs = {1, 2}
    Hashes = {"v1"}
    Settings = {"s1", "s2"}
    Chunks = {"v1"}
    ChunksOf <- OneChunk
    MaxFailures = 1
    Entities = {}
    Killers = {}
    KillStep = "extract"
    Limits = {1}
    MaxFailurePct = 50
    MaxEdits = 2
    MaxFaults = 2
PROPERTY Converges
