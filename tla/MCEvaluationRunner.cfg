\* Two versions of a dataset of two cases, two administrators, one job.
SPECIFICATION EvalSpec
CONSTANTS
    x = x
    y = y
    Names = {n}
    Versions = {v1, v2}
    Contents = {x, y}
    Clients = {c1, c2}
    MaxTime = 2
    Dataset = n
    CasesOf <- Cases
    Jobs = {j1}
    Qualities = {50, 100}
    Latencies = {1, 2}
    MinQuality = 50
    MinSchema = 60
    MaxErrorPercent = 50
    MaxP99 = 1
SYMMETRY Symmetry
INVARIANTS
    TypeOK
    ReceiptsStayTrue
    LatestIsNotSuperseded
    EvalTypeOK
    RunsNameTheirDataset
    GateIsSound
PROPERTIES
    PromiseKept
CHECK_DEADLOCK FALSE
