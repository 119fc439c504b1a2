SPECIFICATION FairSearchSpec
CONSTANTS
    r1 = r1
    r2 = r2
    p1 = p1
    p2 = p2
    b1 = b1
    b2 = b2
    Requests = {r1, r2}
    Batches = {b1, b2}
    Keys = {b1, b2}
    Processes = {p1, p2}
    ProcessOf <- Workers
    Covering = {b1, b2}
    Clashes <- Same
    Payloads <- Answers
    NoBatch = NoBatch
    NoEntry = NoEntry
    Misfit = Misfit
    Listing = Listing
    Nobody = Nobody
CHECK_DEADLOCK FALSE
INVARIANTS SearchTypeOK OneScheduleInAnswer AnswerWasInForce
PROPERTIES OnlyOwnLockReleased SearchesEnd
