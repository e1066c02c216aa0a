CONSTANTS
    r1 = r1
    r2 = r2
    r3 = r3
    Runs = {r1, r2, r3}
    NoRun = NoRun
    Term = 3
    Request = 3
    Margin = 1
    Skew <- NoSkew
    MaxSkew = 0
    Pause = 1
    SendDelay = 0
    TtlGrace = 4
    StaleReads = FALSE
    Retakes = FALSE
    MaxInFlight = 1
    MaxTime = 9
SPECIFICATION Spec
INVARIANTS WritesExclusive
SYMMETRY Symmetry
VIEW StateView
CHECK_DEADLOCK FALSE
