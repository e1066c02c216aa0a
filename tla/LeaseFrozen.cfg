CONSTANTS
    r1 = r1
    r2 = r2
    r3 = r3
    Runs = {r1, r2}
    NoRun = NoRun
    Term = 3
    Request = 2
    Margin = 1
    Skew <- NoSkew
    MaxSkew = 0
    Pause = 7
    SendDelay = 0
    TtlGrace = 0
    StaleReads = TRUE
    Retakes = TRUE
    MaxInFlight = 0
    MaxTime = 6
SPECIFICATION Spec
INVARIANTS TypeOK FenceHeld NoInterloper
SYMMETRY Symmetry
VIEW StateView
CHECK_DEADLOCK FALSE
