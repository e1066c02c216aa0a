CONSTANTS
    j1 = j1 j2 = j2 n1 = n1
    NoJob = NoJob
    Jobs = {j1, j2}
    Namespaces = {n1}
    NsOf <- SameNamespace
    MaxFaults = 2
    MaxEnds = 2
SPECIFICATION FairSpec
INVARIANTS TypeOK OneJobPerNamespace RecordsTrue
PROPERTIES StopEnds EndedIsSettled
CHECK_DEADLOCK FALSE
