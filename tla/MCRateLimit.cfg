SPECIFICATION RateSpec
CONSTANTS
    other = other
    x1 = x1
    x2 = x2
    NotAnIp = NotAnIp
    None = None
    Processes = {p1, p2}
    Clients = {c1}
    Others = {other}
    Proxies = {x1, x2}
    Headers <- MCHeaders
    Routes <- MCRoutes
    Limit = 2
    Second = 3
    Window = 5
    Backoff = 1
    MaxTime = 12
    MaxCount = 5
CHECK_DEADLOCK FALSE
INVARIANTS RateTypeOK BurstBounded RefusalsEnd RetryAfterHolds
