\* Two releases of one name, two coroutines at a time, crashes at any point.
SPECIFICATION FairSpec
CONSTANTS
    Releases = {r1, r2}
    NameOf <- OneName
    Tasks = {t1, t2}
    InitialStates = {"draft", "active"}
    MinCanarySamples = 2
    MaxErrorPercent = 70
    MaxRows = 3
    MaxInFlight = 1
    MaxCommands = 4
INVARIANTS
    TypeOK
    AtMostOnePromoted
    RollbacksAccounted
    RollbackHasSamples
PROPERTY BreachIsActedOn
CHECK_DEADLOCK FALSE
