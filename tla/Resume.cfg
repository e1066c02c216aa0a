SPECIFICATION Spec
CONSTANTS
    N = 4
    Confs = {1, 2}
    Windows <- Phases
    Setups <- Deployments
    MaxRuns = 3
    MaxFaults = 2
    MaxChanges = 1
CONSTRAINT WholeCheckpoints
INVARIANTS TypeOK FailuresKnown OutputsCohere DeltaFresh
PROPERTY StopKeepsWork
CHECK_DEADLOCK FALSE
