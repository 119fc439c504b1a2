SPECIFICATION FairAsideSpec
CONSTANTS
    r1 = r1
    r2 = r2
    p1 = p1
    p2 = p2
    k1 = k1
    k2 = k2
    Readers = {r1, r2}
    Keys = {k1, k2}
    MaxKeys = 1
    MaxVersion = 1
    Processes = {p1, p2}
    ProcessOf <- Workers
    Payloads <- Versions
    NoEntry = NoEntry
    Misfit = Misfit
    Listing = Listing
INVARIANTS AsideTypeOK StaleOnlyIfMissed
PROPERTIES EventuallyFresh
