SPECIFICATION MCSpec
CONSTANTS
    IdemRequests = {r1, r2, r3}
    Keys = {k1}
    Answers = {a1, a2, a3}
    NoAnswer = NoAnswer
    Routes = {"approve", "complete"}
    Limit <- MCLimit
    Window = 3
    Calls = {c1, c2}
    MaxRetries = 2
    Threshold = 2
    OpenTicks = 2
    TokenRequests = {q1, q2}
    Tokens = {t1, t2}
    NoToken = NoToken
    Urls = {u1, u2, u3}
    NoUrl = NoUrl
    MaxCacheSize = 2
    CacheRequests = {s1, s2}
INVARIANTS
    GuardsTypeOK
    OneRunPerKey
    ReplaysAgree
    AdmittedWithinLimit
    RefreshedOnce
    LeastRecentGoes
PROPERTIES
    RefusedRecovers
    BreakerCloses
