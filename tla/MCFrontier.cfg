\* Four URLs in scope and one out of it; a seed, the same seed twice, or several seeds.
SPECIFICATION FairFrontier
CONSTANTS
    Urls = {1, 2, 3, 4, 5}
    SeedLists <- MCSeedLists
    InScope = {1, 2, 3, 4}
    Links <- MCLinks
    SeedAttempts = 3
    DiscoveredAttempts = 2
    CurlAttempts = 2
    MaxRedirects = 2
CHECK_DEADLOCK FALSE
INVARIANTS FrontierTypeOK CaptureComplete RequestsBounded
PROPERTIES EveryCaptureEnds
