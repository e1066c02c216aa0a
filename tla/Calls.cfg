CONSTANTS
    i1 = i1 i2 = i2 Main = Main
    Items = {i1, i2}
    MaxAttempts = 2
    Setups <- Scenarios
    MaxRuns = 2
SPECIFICATION FairSpec
CONSTRAINT FirstBatch
INVARIANTS TypeOK CarriesOver FailureIsFresh NoSegmentLost
PROPERTY BatchEnds
CHECK_DEADLOCK FALSE
