\* Two scopes, four texts, two calls at a time, places for two of five keys.
SPECIFICATION Spec
CONSTANTS
    s1 = s1
    s2 = s2
    red = red
    green = green
    blue = blue
    blank = blank
    Scopes = {s1, s2}
    Texts = {red, green, blue, blank}
    Keys <- Asked
    Blank = {blank}
    Score <- Cosine
    Threshold = 7
    Ttl = 2
    MaxEntries = 2
    Callers = {c1, c2}
SYMMETRY Symmetry
INVARIANTS
    TypeOK
    RecentlyUsedIsKept
PROPERTIES
    PromiseKept
CHECK_DEADLOCK FALSE
