\* One stream in any lane and cache mode with its shadow, and one evaluation case.
SPECIFICATION StreamFairSpec
CONSTANTS
    FailureThreshold = 1
    Recovery = 1
    Routes = {b, k}
    Baseline = b
    Candidate = k
    NoRoute = none
    Online = {}
    Streams = {t1}
    Evals = {e1}
    CacheModes = {"default", "refresh", "bypass"}
    LiveStates = {"none", "active", "candidate"}
    AdapterOf <- OpenAIAndOllama
    Pinned = {b}
INVARIANTS
    EvidenceIsComplete
PROPERTIES
    EveryCallEnds
    ShutdownCompletes
CHECK_DEADLOCK FALSE
