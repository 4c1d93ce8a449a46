\* One stream over one route.
SPECIFICATION CompletionSpec
CONSTANTS
    FailureThreshold = 1
    Recovery = 1
    Routes = {b}
    Baseline = b
    Candidate = b
    NoRoute = none
    Online = {}
    Streams = {t1}
    Evals = {}
    CacheModes = {"default"}
    LiveStates = {"none"}
    Pinned = {}
    AdapterOf <- AllOpenAI
INVARIANT CompletedMeansDone
CHECK_DEADLOCK FALSE
