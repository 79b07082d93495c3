SPECIFICATION CacheSpec
CONSTANTS
    Urls = {u1, u2}
    NoUrl = NoUrl
    MaxCacheSize = 2
    CacheRequests = {s1}
PROPERTIES
    CleanupEnds
