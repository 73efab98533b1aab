SPECIFICATION FairSpec
CONSTANTS
    Names <- SmallNames
    lower <- SmallLower
    Ports = {80, 8080}
    ServerPort = 8080
    default_hostname = "A"
    Paths <- SmallPaths
    MaxHeaders = 2
    MaxPages = 2
INVARIANTS RedirectOnce RedirectStaysOnSite OneLogPerHost
PROPERTY ChaseEnds
