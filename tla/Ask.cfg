CONSTANTS
    q1 = q1 q2 = q2 q3 = q3
    NoQuestion = NoQuestion
    Questions = {q1, q2, q3}
    MaxResets = 2
    MaxBuilds = 3
SPECIFICATION FairSpec
INVARIANTS TypeOK NeverClosedInUse NoChainLost FreshUnlessTorn
PROPERTY ReplacedCloses
CHECK_DEADLOCK FALSE
