CONSTANTS
    f = f
    g = g
    h = h
    Units <- MCUnits
    Ids <- MCIds
    NameKey <- MCNameKey
    Mentions <- MCMentions
    Relates <- MCRelates
    Resolved <- MCResolved
    Unwritten = {4}
    DeriveRounds = 4
    MaxFaults = 1
SPECIFICATION Spec
INVARIANTS TypeOK RemovalRebuilds KeptStatementsStored NothingComesBack Settles
CHECK_DEADLOCK FALSE
