\* One release, promoted while an assessment of it is under way.
SPECIFICATION Spec
CONSTANTS
    Releases = {r1}
    NameOf <- OneName
    Tasks = {t1, t2}
    InitialStates = {"draft"}
    MinCanarySamples = 1
    MaxErrorPercent = 50
    MaxRows = 2
    MaxInFlight = 1
    MaxCommands = 3
PROPERTY AutoRollbackSparesActive
CHECK_DEADLOCK FALSE
