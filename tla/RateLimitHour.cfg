SPECIFICATION RLSpec
CONSTANTS
    Categories <- MCCategories
    RateLimits <- MCRateLimits
    TimeWindows <- MCTimeWindows
    InactiveAfter = 3
    MaxRequestTime = 8
    MaxRequests = 6
CHECK_DEADLOCK FALSE
INVARIANT EmergencyOperationsPerHour
