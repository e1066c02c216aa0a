SPECIFICATION Spec
CONSTANTS
    N = 4
    Confs = {1, 2}
    Windows <- Whole
    Setups <- Deployments
    MaxRuns = 3
    MaxFaults = 0
    MaxChanges = 2
INVARIANT OutputsCohere
CHECK_DEADLOCK FALSE
