\* One request with a prompt reference, and its shadow.
SPECIFICATION StreamSpec
CONSTANTS
    FailureThreshold = 1
    Recovery = 1
    Routes = {b, k}
    Baseline = b
    Candidate = k
    NoRoute = none
    Online = {q1}
    Streams = {}
    Evals = {}
    CacheModes = {"default"}
    LiveStates = {"candidate"}
    AdapterOf <- OpenAIAndOllama
    Pinned = {}
INVARIANT ShadowSeesParentInput
CHECK_DEADLOCK FALSE
